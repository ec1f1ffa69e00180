----------------------------- MODULE SilenceCycle -----------------------------
(***************************************************************************)
(* The reducer of a call's silences (voice_call_lifecycle.py, CallLifecycle). *)
(* A record c is its state: the phase, the revision its receipts must carry, *)
(* the reserved question and its turn, the act ids it waits for by kind, how  *)
(* far the armed deadline is, and the request intents it issued. An operator  *)
(* is a method: it maps the state to the next one, and to the same one when   *)
(* the method refuses. Positions and event ids are always fresh, as           *)
(* next_position makes them.                                                 *)
(***************************************************************************)
EXTENDS Integers, FiniteSets

\* The acts a silence asks for; the two fixed fallbacks are one kind.
SilenceActs == {"presence", "more", "fallback", "closing"}
PendingPhase == [presence |-> "presence_pending", more |-> "more_pending",
                 fallback |-> "fallback_pending", closing |-> "closing_pending"]
ArmedPhases == {"first_armed", "second_armed", "more_armed"}
CallPhases ==
    {"idle", "question_reserved", "question_confirmed", "terminal_eligible", "terminated"}
    \cup ArmedPhases \cup {PendingPhase[k] : k \in SilenceActs}

\* An act that was asked for and is not materialized: its id is a placeholder.
Asked == -1
NoTimer == [rev |-> -1, phase |-> "idle"]

NewCycle ==
    [phase |-> "idle", rev |-> 0, question |-> 0, turn |-> 0, id |-> [k \in SilenceActs |-> 0],
     delivered |-> FALSE, used |-> FALSE, clock |-> "none", timer |-> NoTimer,
     resolved |-> {}, issued |-> {}, made |-> {}]

\* _clear_silence_cycle: everything but the phase and the revision.
Cleared(c) == [NewCycle EXCEPT !.phase = c.phase, !.rev = c.rev]
BackToIdle(c) == [Cleared(c) EXCEPT !.phase = "idle", !.rev = @ + 1]

\* hard_terminalize. A terminated reducer has no receipt left to compare a revision with, so the
\* model stops counting there.
Sealed(c) ==
    IF c.phase = "terminated" THEN c ELSE [Cleared(c) EXCEPT !.phase = "terminated", !.rev = @ + 1]

\* is_quiescent.
Quiescent(c) == c.phase \in {"idle", "terminated"} /\ [Cleared(c) EXCEPT !.phase = c.phase] = c

QuestionReserved(c, a, t) ==
    IF c.phase # "idle" THEN c
    ELSE [c EXCEPT !.question = a, !.turn = t, !.delivered = FALSE, !.used = FALSE,
                   !.phase = "question_reserved"]

\* rollback_question_reservation: only the exact pristine reservation.
QuestionRolledBack(c, a) ==
    IF c.phase = "question_reserved" /\ c.question = a /\ c.clock = "none" /\ c.resolved = {}
    THEN [Cleared(c) EXCEPT !.phase = "idle"]
    ELSE c

CanConfirmQuestion(c, a) == c.phase = "question_reserved" /\ c.question = a
QuestionConfirmed(c) == [c EXCEPT !.phase = "question_confirmed"]

\* The act whose playback the reducer waits for (transport_resolved, playback, observed_playback).
Awaits(c, a) ==
    \/ a = c.question /\ c.phase = "question_confirmed"
    \/ \E k \in SilenceActs : a = c.id[k] /\ c.phase = PendingPhase[k] /\ a \in c.made

TransportResolved(c, a) == IF Awaits(c, a) THEN [c EXCEPT !.resolved = @ \cup {a}] ELSE c

\* _arm and _issue_intent.
Arm(c, p) == [c EXCEPT !.phase = p, !.clock = "ahead", !.timer = [rev |-> c.rev, phase |-> p]]
Issue(c, k) == [c EXCEPT !.issued = @ \cup {[kind |-> k, rev |-> c.rev, turn |-> c.turn]}]

\* The act was heard, the common tail of playback and observed_playback.
Heard(c, a) ==
    LET done == [c EXCEPT !.made = @ \ {a}, !.id = [k \in SilenceActs |-> IF @[k] = a THEN 0 ELSE @[k]]]
    IN  CASE c.phase = "question_confirmed" -> Arm(c, "first_armed")
          [] c.phase = "presence_pending" -> Arm([done EXCEPT !.delivered = TRUE], "second_armed")
          [] c.phase = "more_pending" -> Arm(done, "more_armed")
          [] c.phase = "closing_pending" -> Issue([done EXCEPT !.phase = "terminal_eligible"], "end")
          [] OTHER -> BackToIdle(c)

PlaybackObserved(c, a) == IF Awaits(c, a) THEN Heard(c, a) ELSE c

\* playback: inferred from a resolved transport, no sooner than the inference delay.
PlaybackInferred(c, a) ==
    IF Awaits(c, a) /\ a \in c.resolved THEN Heard([c EXCEPT !.resolved = @ \ {a}], a) ELSE c

\* timer_receipt: the armed timer, the only one that may fire.
TimerReceipt(c) == IF c.phase \in ArmedPhases THEN c.timer ELSE NoTimer

AsksPresence(c) ==
    Issue([c EXCEPT !.question = 0, !.resolved = @ \ {c.question}, !.rev = @ + 1, !.clock = "none",
                    !.timer = NoTimer, !.phase = "presence_pending", !.id.presence = Asked], "presence")
AsksClosing(c) ==
    Issue([c EXCEPT !.clock = "none", !.timer = NoTimer, !.phase = "closing_pending",
                    !.id.closing = Asked], "closing")

\* Seeded fault: after more time the call is closed, as it is after the second timer.
TimerFiredHastily(c, receipt) ==
    IF c.phase \notin ArmedPhases \/ c.clock \notin {"due", "past"} \/ receipt # c.timer THEN c
    ELSE IF c.phase = "first_armed" THEN AsksPresence(c)
    ELSE AsksClosing(c)

\* timer_fired: a stale receipt or an early one changes nothing.
TimerFired(c, receipt) ==
    IF c.phase \notin ArmedPhases \/ c.clock \notin {"due", "past"} \/ receipt # c.timer THEN c
    ELSE IF c.phase = "first_armed" \/ (c.phase = "more_armed" /\ ~c.delivered) THEN AsksPresence(c)
    ELSE AsksClosing(c)

DeadlineExpired(c) == c.phase \in ArmedPhases /\ c.clock = "past"

\* request_fixed_fallback, of the turn the cycle is about.
FallbackAsked(c, t) ==
    IF c.phase \notin ArmedPhases \/ t # c.turn \/ DeadlineExpired(c) THEN c
    ELSE Issue([BackToIdle(c) EXCEPT !.turn = t, !.phase = "fallback_pending", !.id.fallback = Asked],
               "fallback")

\* request_more_time: once per cycle, and never after the deadline.
MoreTimeAsked(c) ==
    IF c.phase \notin ArmedPhases \/ DeadlineExpired(c) \/ c.used THEN c
    ELSE Issue([c EXCEPT !.clock = "none", !.timer = NoTimer, !.used = TRUE, !.phase = "more_pending",
                         !.id.more = Asked], "more")

CancelRefused(c) == DeadlineExpired(c) \/ c.phase = "terminated"
Cancelled(c) == IF CancelRefused(c) THEN c ELSE BackToIdle(c)

\* consume_intent: an intent nobody issued is refused; one that no longer fits seals the reducer.
IntentFits(c, i) ==
    /\ i.rev = c.rev
    /\ i.kind \in SilenceActs /\ c.phase = PendingPhase[i.kind] /\ c.id[i.kind] = Asked
IntentConsumed(c, i, a) ==
    IF i \notin c.issued THEN c
    ELSE IF ~IntentFits(c, i) THEN Sealed(c)
    ELSE [c EXCEPT !.issued = @ \ {i}, !.id[i.kind] = a, !.made = @ \cup {a}]

\* terminalize: the receipt that closing was heard ends the call, any other seals it too.
Terminalized(c, i) == IF i \in c.issued THEN Sealed(c) ELSE c
TerminalAccepted(c, i) ==
    i \in c.issued /\ i.kind = "end" /\ i.rev = c.rev /\ c.phase = "terminal_eligible"
=============================================================================
