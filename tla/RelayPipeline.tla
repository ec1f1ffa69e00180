------------------------------ MODULE RelayPipeline ------------------------------
(***************************************************************************)
(* One ConversationRelay session (src/app/services/relay_pipeline.py, opened *)
(* by src/app/webhooks/relay_stream.py): the socket loop that handles what   *)
(* the caller says, the generation of one reply, the delivery of the owner's *)
(* message instruction (under its lock, by the command poll or by the owner- *)
(* availability timer), and the watchdog for a silent line. They are asyncio *)
(* tasks of one thread: each runs until its next await.                      *)
(* A cancelled reply sends nothing any more, so only the current one is kept *)
(* and its text is one token, of the kind that matters: it puts the caller   *)
(* on hold for the owner, says goodbye, or neither. Tool rounds only take    *)
(* time. A unit of time is the watchdog's 15 seconds.                        *)
(***************************************************************************)
EXTENDS Naturals

CONSTANTS
    MaxPrompts,   \* bound on what the caller says or the socket receives
    MaxFailures   \* bound on failed, empty and timed-out steps

VARIABLES
    session,   \* flags of the pipeline
    reply,     \* _generate_task, while it is not done
    streamed,  \* _streamed_text: whether the reply in flight has sent text
    delivery,  \* the run of consume_message_intent that holds the lock
    hold,      \* _hold_task: the owner-availability timer
    watchdog,  \* what the silence watchdog remembers
    idle,      \* time since _last_activity
    intent,    \* the owner's durable decision
    prompts, failures,
    owed,      \* history: the caller has spoken and has not been spoken to since
    unheeded   \* history: the caller has spoken since the last reply was recorded

relay == <<session, reply, streamed, delivery, hold, watchdog, idle, intent, prompts, failures, owed, unheeded>>

NoReply == [kind |-> "none", at |-> "done"]
NoDelivery == [by |-> "none", at |-> "idle", outcome |-> "none"]

RelayInit ==
    /\ session = [active |-> TRUE, ending |-> FALSE, pending |-> FALSE, callerPending |-> FALSE,
                  unavailable |-> FALSE, delivered |-> FALSE, urgent |-> FALSE]
    /\ reply = NoReply /\ streamed = FALSE /\ delivery = NoDelivery /\ hold = "none"
    /\ watchdog = [nudged |-> FALSE, sinceNudge |-> 0, goodbye |-> FALSE, sinceGoodbye |-> 0]
    /\ idle = 0 /\ intent = "none" /\ prompts = 0 /\ failures = 0
    /\ owed = FALSE /\ unheeded = FALSE

Alive == session.active /\ ~session.ending
InFlight == reply # NoReply
Holding == hold # "none"

Fault == failures < MaxFailures /\ failures' = failures + 1

------------------------------------------------------------------------------
(* One reply *)

Begun(kind) == [kind |-> kind, at |-> "stream"]

\* The task ends; a delivery that awaits it sees how.
Ends(outcome) ==
    /\ reply' = NoReply
    /\ delivery' = IF delivery.at \in {"speech", "speaking"} THEN [delivery EXCEPT !.outcome = outcome] ELSE delivery

\* The guard of a message instruction, or of the reply that continues it.
Guarded == CASE reply.kind = "message" -> intent = "requested"
             [] reply.kind = "continuation" -> intent \in {"requested", "acked"}
             [] OTHER -> TRUE

SendsToken ==
    /\ Alive /\ reply.at = "stream" /\ ~streamed /\ Guarded
    /\ streamed' = TRUE /\ owed' = FALSE
    /\ UNCHANGED <<session, reply, delivery, hold, watchdog, idle, intent, prompts, failures, unheeded>>

\* A guard that fails before a send stops the reply where it is.
GuardStops ==
    /\ Alive /\ reply.at = "stream" /\ ~Guarded
    /\ Ends("cancelled")
    /\ streamed' = FALSE
    /\ UNCHANGED <<session, hold, watchdog, idle, intent, prompts, failures, owed, unheeded>>

\* _maybe_start_owner_hold.
StartsHold == ~session.unavailable /\ ~session.pending /\ ~Holding

\* The reply is closed and recorded. An offer to look for the owner arms the
\* timer; a goodbye waits for its own playout.
Closes(text) ==
    /\ Alive /\ reply.at = "stream" /\ streamed /\ Guarded
    /\ streamed' = FALSE /\ idle' = 0 /\ unheeded' = FALSE
    /\ hold' = IF text = "hold" /\ StartsHold THEN "waiting" ELSE hold
    /\ IF text = "goodbye" THEN reply' = [reply EXCEPT !.at = "playout"] /\ UNCHANGED delivery
       ELSE Ends("success")
    /\ UNCHANGED <<session, watchdog, intent, prompts, failures, owed>>

ClosesEmpty ==
    /\ Alive /\ reply.at = "stream" /\ ~streamed /\ Guarded /\ Fault
    /\ Ends("failed")
    /\ UNCHANGED <<session, streamed, hold, watchdog, idle, intent, prompts, owed, unheeded>>

\* The generation fails: what was said is closed and recorded; otherwise an
\* apology is said, which counts as no activity and enters no history.
Fails ==
    /\ Alive /\ reply.at = "stream" /\ Fault
    /\ Ends(IF streamed /\ Guarded THEN "success" ELSE "failed")
    /\ idle' = IF streamed /\ Guarded THEN 0 ELSE idle
    /\ unheeded' = IF streamed /\ Guarded THEN FALSE ELSE unheeded
    /\ owed' = IF Guarded THEN FALSE ELSE owed
    /\ streamed' = FALSE
    /\ UNCHANGED <<session, hold, watchdog, intent, prompts>>

\* _await_playout saw the goodbye played, or gave up waiting: the call ends.
EndsOnGoodbye ==
    /\ Alive /\ reply.at = "playout"
    /\ session' = [session EXCEPT !.ending = TRUE]
    /\ Ends("success")
    /\ UNCHANGED <<streamed, hold, watchdog, idle, intent, prompts, failures, owed, unheeded>>

------------------------------------------------------------------------------
(* What reaches the socket *)

Received(speech) ==
    /\ Alive /\ prompts < MaxPrompts /\ prompts' = prompts + 1
    /\ idle' = 0
    /\ watchdog' = IF speech THEN [watchdog EXCEPT !.nudged = FALSE] ELSE watchdog

\* Seeded fault: a reply with nothing more to say is not cancelled.
CancelsSpeech == IF streamed THEN Ends("partly") ELSE UNCHANGED <<reply, delivery>>

\* _cancel_generation. A message instruction of which words were sent counts as
\* given, if the owner's decision still stands.
Cancels ==
    IF InFlight THEN Ends(IF streamed \/ reply.at = "playout" THEN "partly" ELSE "cancelled")
    ELSE UNCHANGED <<reply, delivery>>

\* Seeded fault: caller speech is answered although the caller is on hold.
AnswersOnHold(held) == ~session.pending

Answers(held) == ~session.pending /\ ~held

\* Seeded fault: speech during a pending instruction is forgotten.
ForgetsSpeech(held) == IF session.pending \/ held THEN session.callerPending ELSE FALSE

CallerPending(held) ==
    IF session.pending THEN TRUE ELSE IF held THEN session.callerPending ELSE FALSE

\* A complete utterance. It supersedes the reply in flight, whose words so far are
\* recorded; a pending instruction owns the next reply; during a hold the owner
\* decides. The first urgent words start the timer themselves.
Prompt(urgent) ==
    LET signal == urgent /\ ~session.urgent
        held == Holding \/ (signal /\ ~session.unavailable)
    IN /\ Received(TRUE)
       /\ owed' = TRUE /\ unheeded' = TRUE
       /\ hold' = IF held /\ ~Holding THEN "waiting" ELSE hold
       /\ session' = [session EXCEPT !.urgent = @ \/ urgent, !.callerPending = CallerPending(held)]
       /\ IF Answers(held) THEN reply' = Begun("reply") /\ UNCHANGED delivery ELSE Cancels
       /\ streamed' = FALSE
       /\ UNCHANGED <<intent, failures>>

\* The caller cuts in: the reply stops, and the words that were heard are recorded.
Interrupt ==
    /\ Received(TRUE) /\ unheeded' = TRUE
    /\ Cancels /\ streamed' = FALSE
    /\ UNCHANGED <<session, hold, intent, failures, owed>>

\* A fragment of speech, or a receipt of playback.
Fragment ==
    /\ \E speech \in BOOLEAN : Received(speech)
    /\ UNCHANGED <<session, reply, streamed, delivery, hold, intent, failures, owed, unheeded>>

------------------------------------------------------------------------------
(* The owner *)

OwnerDecides ==
    /\ session.active /\ intent \in {"none", "accepting"}
    /\ \E d \in (IF intent = "none" THEN {"requested", "accepting"} ELSE {"accepted", "none"}) : intent' = d
    /\ intent = "accepting" /\ intent' = "none" => failures < MaxFailures
    /\ failures' = IF intent' = "none" THEN failures + 1 ELSE failures
    /\ UNCHANGED <<session, reply, streamed, delivery, hold, watchdog, idle, prompts, owed, unheeded>>

\* The record ends or goes to another stream.
RecordGoes ==
    /\ session.active /\ intent \in {"requested", "acked"} /\ Fault
    /\ intent' = "gone"
    /\ UNCHANGED <<session, reply, streamed, delivery, hold, watchdog, idle, prompts, owed, unheeded>>

------------------------------------------------------------------------------
(* The message instruction *)

\* How the timer goes on after it has consumed: it returns, or, when its deadline
\* has passed and nothing was delivered, it tries again.
HoldAfter == IF delivery.by # "timer" THEN hold
             ELSE IF hold = "until" /\ ~session.delivered THEN "retrying" ELSE "none"

\* consume_message_intent finds a decision to deliver, or one that was delivered
\* and not acknowledged. _prepare_message_delivery cancels the timer (unless it is
\* the caller), and a reply that has not spoken; one that speaks is awaited.
ConsumeBegins(by) ==
    /\ Alive /\ delivery = NoDelivery /\ intent = "requested"
    /\ by = "timer" => hold \in {"once", "until"}
    /\ IF session.delivered
       THEN delivery' = [NoDelivery EXCEPT !.by = by, !.at = "ack"] /\ UNCHANGED <<session, reply, streamed, hold>>
       ELSE /\ session' = [session EXCEPT !.pending = TRUE]
            /\ hold' = IF by = "timer" THEN hold ELSE "none"
            /\ delivery' = [NoDelivery EXCEPT !.by = by, !.at = IF InFlight /\ streamed THEN "speech" ELSE "guard"]
            /\ reply' = IF InFlight /\ streamed THEN reply ELSE NoReply
            /\ UNCHANGED streamed
    /\ UNCHANGED <<watchdog, idle, intent, prompts, failures, owed, unheeded>>

\* Seeded fault: the attempt ends without clearing the pending flag.
StaysPending(answers) == [session EXCEPT !.callerPending = @ /\ ~answers]

Settled(answers) == [session EXCEPT !.pending = FALSE, !.callerPending = @ /\ ~answers]

\* _finish_message_delivery_attempt: the caller who spoke meanwhile is answered,
\* if the instruction was given.
Exit(continues) ==
    LET answers == session.callerPending /\ session.unavailable /\ ~InFlight /\ continues
    IN /\ delivery' = NoDelivery
       /\ session' = Settled(answers)
       /\ reply' = IF answers THEN Begun("continuation") ELSE reply

ExitFrame == <<watchdog, idle, intent, prompts, owed, unheeded>>

\* The reply that was speaking is over; one that was cut short, or speaks for more
\* than 15 seconds, leaves the instruction to the next poll.
SpeechOver ==
    /\ Alive /\ delivery.at = "speech" /\ UNCHANGED streamed
    /\ CASE delivery.outcome \in {"success", "failed"} ->
              /\ delivery' = [delivery EXCEPT !.at = "guard", !.outcome = "none"]
              /\ UNCHANGED <<session, reply, hold, failures>>
         [] delivery.outcome \in {"cancelled", "partly"} -> Exit(FALSE) /\ hold' = HoldAfter /\ UNCHANGED failures
         [] delivery.outcome = "none" -> Exit(FALSE) /\ hold' = HoldAfter /\ Fault
    /\ UNCHANGED ExitFrame

\* _deliver_message_instruction, if the owner's decision still stands.
Delivers ==
    /\ Alive /\ delivery.at = "guard"
    /\ IF intent = "requested"
       THEN /\ reply' = Begun("message")
            /\ delivery' = [delivery EXCEPT !.at = "speaking", !.outcome = "none"]
            /\ UNCHANGED <<session, hold>>
       ELSE Exit(FALSE) /\ hold' = HoldAfter
    /\ streamed' = FALSE
    /\ UNCHANGED failures /\ UNCHANGED ExitFrame

Given == delivery.outcome = "success" \/ (delivery.outcome = "partly" /\ intent = "requested")

Spoken ==
    /\ Alive /\ delivery.at = "speaking" /\ delivery.outcome # "none"
    /\ IF Given
       THEN /\ session' = [session EXCEPT !.unavailable = TRUE, !.delivered = TRUE]
            /\ delivery' = [delivery EXCEPT !.at = "ack"]
            /\ UNCHANGED <<reply, hold>>
       ELSE Exit(FALSE) /\ hold' = HoldAfter
    /\ UNCHANGED <<streamed, failures>> /\ UNCHANGED ExitFrame

\* 20 seconds: the instruction is cancelled, and what was said of it is not kept.
DeliveryTimesOut ==
    /\ Alive /\ delivery.at = "speaking" /\ delivery.outcome = "none" /\ Fault
    /\ streamed' = FALSE
    /\ delivery' = NoDelivery
    /\ session' = [session EXCEPT !.pending = FALSE]
    /\ reply' = NoReply /\ hold' = HoldAfter
    /\ UNCHANGED ExitFrame

\* The acknowledgment. When the database fails it is left to the next poll, or to
\* the timer, which stays; the instruction is not given again.
Acknowledges ==
    /\ Alive /\ delivery.at = "ack"
    /\ \/ intent = "requested" /\ intent' = "acked" /\ Exit(TRUE) /\ hold' = HoldAfter /\ UNCHANGED failures
       \/ /\ intent = "requested" /\ UNCHANGED intent /\ Exit(TRUE) /\ Fault
          /\ hold' = IF delivery.by = "timer" THEN "retrying" ELSE hold
       \/ intent # "requested" /\ UNCHANGED intent /\ Exit(FALSE) /\ hold' = HoldAfter /\ UNCHANGED failures
    /\ UNCHANGED <<streamed, watchdog, idle, prompts, owed, unheeded>>

\* run_owner_timeout: the deadline passes, or there is a decision already; while
\* the owner is picking up it waits. It consumes once it has the lock.
TimerDecides ==
    /\ Alive /\ hold = "waiting" /\ intent # "accepting"
    /\ hold' = IF session.unavailable THEN "none" ELSE IF intent = "none" THEN "until" ELSE "once"
    /\ intent' = IF intent = "none" /\ ~session.unavailable THEN "requested" ELSE intent
    /\ UNCHANGED <<session, reply, streamed, delivery, watchdog, idle, prompts, failures, owed, unheeded>>

TimerRetries ==
    /\ Alive /\ hold = "retrying" /\ intent # "accepting"
    /\ hold' = IF intent = "requested" THEN "until" ELSE "once"
    /\ UNCHANGED <<session, reply, streamed, delivery, watchdog, idle, intent, prompts, failures, owed, unheeded>>

TimerFindsNothing ==
    /\ Alive /\ hold \in {"once", "until"} /\ delivery = NoDelivery /\ intent # "requested"
    /\ hold' = "none"
    /\ UNCHANGED <<session, reply, streamed, delivery, watchdog, idle, intent, prompts, failures, owed, unheeded>>

------------------------------------------------------------------------------
(* The watchdog *)

MayAct == Alive /\ ~session.pending /\ ~Holding /\ ~InFlight

Resets == MayAct /\ idle = 0 /\ ~watchdog.nudged /\ watchdog.goodbye
Nudges == MayAct /\ idle >= 1 /\ ~watchdog.nudged
BidsGoodbye == MayAct /\ idle >= 1 /\ watchdog.nudged /\ ~watchdog.goodbye /\ watchdog.sinceNudge >= 1
ForcesEnd == MayAct /\ idle >= 1 /\ watchdog.nudged /\ watchdog.goodbye /\ watchdog.sinceGoodbye >= 2

Watch ==
    /\ \/ Resets /\ watchdog' = [watchdog EXCEPT !.goodbye = FALSE] /\ UNCHANGED <<reply, session>>
       \/ /\ Nudges /\ reply' = Begun("nudge") /\ UNCHANGED session
          /\ watchdog' = [watchdog EXCEPT !.nudged = TRUE, !.sinceNudge = 0]
       \/ /\ BidsGoodbye /\ reply' = Begun("farewell") /\ UNCHANGED session
          /\ watchdog' = [watchdog EXCEPT !.goodbye = TRUE, !.sinceGoodbye = 0]
       \/ ForcesEnd /\ session' = [session EXCEPT !.ending = TRUE] /\ UNCHANGED <<reply, watchdog>>
    /\ streamed' = FALSE
    /\ UNCHANGED <<delivery, hold, idle, intent, prompts, failures, owed, unheeded>>

\* 15 seconds pass: the watchdog, which looks every two, has done all it can.
Tick ==
    /\ Alive /\ ~(Resets \/ Nudges \/ BidsGoodbye \/ ForcesEnd)
    /\ idle' = IF idle = 0 THEN 1 ELSE idle
    /\ watchdog' = [watchdog EXCEPT !.sinceNudge = IF @ = 0 THEN 1 ELSE @, !.sinceGoodbye = IF @ < 2 THEN @ + 1 ELSE @]
    /\ UNCHANGED <<session, reply, streamed, delivery, hold, intent, prompts, failures, owed, unheeded>>

\* The socket closes, or the call has ended or reached its limit: stop().
Stops ==
    /\ session.active
    /\ session' = [session EXCEPT !.active = FALSE, !.pending = FALSE, !.callerPending = FALSE]
    /\ reply' = NoReply /\ delivery' = NoDelivery /\ hold' = "none" /\ streamed' = FALSE
    /\ UNCHANGED <<watchdog, idle, intent, prompts, failures, owed, unheeded>>

Replies == SendsToken \/ (\E text \in {"plain", "hold", "goodbye"} : Closes(text)) \/ GuardStops \/ EndsOnGoodbye
Consumes == \/ ConsumeBegins("poll") \/ ConsumeBegins("timer") \/ SpeechOver
            \/ Delivers \/ Spoken \/ Acknowledges

Timer == TimerDecides \/ TimerRetries \/ TimerFindsNothing
OwnerSettles == intent = "accepting" /\ OwnerDecides
CallCloses == (session.ending \/ intent = "accepted") /\ Stops

RelayNext ==
    \/ Replies \/ ClosesEmpty \/ Fails
    \/ (\E urgent \in BOOLEAN : Prompt(urgent)) \/ Interrupt \/ Fragment
    \/ OwnerDecides \/ RecordGoes
    \/ Consumes \/ DeliveryTimesOut \/ Timer
    \/ Watch \/ Tick \/ Stops

\* The event loop runs every task that is ready, and time passes.
RelayFairness ==
    /\ WF_relay(Replies) /\ WF_relay(Consumes) /\ WF_relay(Timer) /\ WF_relay(Watch) /\ WF_relay(Tick)
    /\ WF_relay(OwnerSettles) /\ WF_relay(CallCloses)

RelaySpec == RelayInit /\ [][RelayNext]_relay
RelayFairSpec == RelaySpec /\ RelayFairness

------------------------------------------------------------------------------
RelayTypeOK ==
    /\ session \in [active : BOOLEAN, ending : BOOLEAN, pending : BOOLEAN, callerPending : BOOLEAN,
                    unavailable : BOOLEAN, delivered : BOOLEAN, urgent : BOOLEAN]
    /\ reply \in [kind : {"reply", "nudge", "farewell", "message", "continuation"}, at : {"stream", "playout"}]
                 \cup {NoReply}
    /\ delivery.by \in {"none", "poll", "timer"}
    /\ delivery.at \in {"idle", "speech", "guard", "speaking", "ack"}
    /\ hold \in {"none", "waiting", "once", "until", "retrying"}
    /\ intent \in {"none", "accepting", "accepted", "requested", "acked", "gone"}
    /\ streamed => InFlight
    /\ reply.kind = "message" => delivery.at = "speaking"

(***************************************************************************)
(* A goodbye hangs up on nobody: from the moment it is recorded until the   *)
(* call ends on it, the caller has not said a word.                         *)
(***************************************************************************)
GoodbyeIsUnanswered ==
    [][session'.ending /\ ~session.ending /\ reply.at = "playout" => ~unheeded]_relay

(***************************************************************************)
(* While the owner is being looked for, Kevin is silent: no reply of the    *)
(* conversation is under way ("do not generate speech or break silence").   *)
(***************************************************************************)
HoldIsSilent == hold = "waiting" => reply.kind \notin {"reply", "nudge", "farewell"}

(***************************************************************************)
(* The caller who spoke while the instruction was being given, or cut it    *)
(* short, is answered once it is acknowledged: the words are not dropped    *)
(* with the reply they would have started.                                  *)
(***************************************************************************)
MessageSpeakerIsAnswered ==
    [][delivery.at = "ack" /\ session.pending /\ owed /\ intent' = "acked" /\ intent # "acked"
          => reply'.kind = "continuation"]_relay

(***************************************************************************)
(* A caller who has spoken is spoken to, or the call ends: by a reply, by   *)
(* the message instruction, by what continues it or by the watchdog.        *)
(***************************************************************************)
CallerHeard == ~owed \/ ~session.active
CallerIsSpokenTo == owed ~> CallerHeard

================================================================================
