------------------------------ MODULE BakeoffCall -----------------------------
(***************************************************************************)
(* One call of the voice bakeoff: the transaction that composes an answer to  *)
(* a final turn (voice_bakeoff_turn_composition.py) and the controller that   *)
(* speaks when the caller is silent (voice_bakeoff_silence.py), on the speech *)
(* they share. Each has its own lock and takes a call as one step; what       *)
(* interleaves is turns, playback events, timers, and a session that breaks.  *)
(* The bakeoff is offline: what a candidate adapter or the telephone reports  *)
(* is an event its driver ingests and hands on in one step.                   *)
(***************************************************************************)
EXTENDS SpokenActs

CONSTANTS MaxTurns, MaxBreaks

VARIABLES
    voice,      \* SpeechControl, VoiceLifecycle, the adapter and CallLifecycle
    pend,       \* the response the transaction waits for (_PendingResponse)
    ctl,        \* the silence controller's pending act, cleanup and terminal authority
    intake,     \* VersionedIntakeStore: current turn, version, repair, slots asked
    inbox,      \* request intents handed out and not presented yet
    finals,   \* final turns admitted and not composed yet
    session     \* the lifecycle's session event, final turns and breaks so far

bakeoff == <<voice, pend, ctl, intake, inbox, finals, session>>

NoPend == [turn |-> 0, version |-> 0, batch |-> <<>>, permitted |-> {}, stage |-> "none",
           observed |-> {}, retired |-> {}, of |-> 0]
NoIntent == [kind |-> "none", rev |-> -1, turn |-> 0]
NoCtl == [pending |-> FALSE, cleanup |-> FALSE, batch |-> <<>>, intent |-> NoIntent, version |-> 0,
          stage |-> "none", terminal |-> NoIntent]

BakeoffInit ==
    /\ voice = NewVoice
    /\ pend = NoPend
    /\ ctl = NoCtl
    /\ intake = [turn |-> 0, version |-> 0, repaired |-> FALSE, asked |-> {}]
    /\ inbox = {}
    /\ finals = {}
    /\ session = [state |-> "none", heard |-> 0, breaks |-> 0]

\* The request intents a step of the silence cycle issued.
NewIntents(c) == {i \in c.issued \ voice.calls.issued : i.kind # "end"}
Current(turn, version) == intake.turn = turn /\ intake.version = version
HasRoom(n) == Cardinality(Allocated(voice)) + n <= MaxActs

(************************** the composed response ***************************)
NextAct(p) ==
    LET left == {i \in DOMAIN p.batch : p.batch[i] \notin p.observed}
    IN  IF left = {} THEN 0 ELSE p.batch[CHOOSE i \in left : \A j \in left : i <= j]

\* _hard_terminalize_pending: the adapter and the silence cycle are closed for good, the acts of the
\* response never speak again.
HardSeal(v, p) ==
    Retire(IngestAll(Silence([CloseAdapter(v) EXCEPT !.calls = Sealed(@)], ActsOf(p.batch)), p.batch, "failed"),
           p.batch)

\* _cancel_call
CanCancelCall(c) == Quiescent(c) \/ ~CancelRefused(c)
CancelCall(c) == IF Quiescent(c) THEN c ELSE Cancelled(c)

\* _supersede_pending: whether every authority of the response could be taken back, and the state in
\* which it is.
Unretired(p) == p.permitted \ p.retired
Unheard(p) == ActsOf(p.batch) \ p.observed
CanSupersede(v, p) ==
    /\ CanCancelCall(v.calls)
    /\ \A a \in Unretired(p) : CanRetirePermit(v, a) \/ WasRevoked(v, a)
    /\ \A a \in Unheard(p) : LineEnds(v, a)
    /\ p.batch \in v.batches
RetireAll(v, given) ==
    [v EXCEPT !.adapter.permitted = @ \ given, !.adapter.confirmed = @ \ given,
              !.adapter.retired = @ \cup (given \cap v.adapter.permitted),
              !.adapter.revoked = @ \ (given \cap v.adapter.permitted)]
FailAll(v, gone) ==
    [v EXCEPT !.acts = [a \in Acts |-> IF a \in gone THEN Ingest(v, a, "failed").acts[a] ELSE @[a]]]
Superseded(v, p) ==
    IF p = NoPend THEN v
    ELSE Retire(FailAll(Silence(RetireAll([v EXCEPT !.calls = CancelCall(@)], Unretired(p)), Unheard(p)),
                        Unheard(p)), p.batch)

\* _prepare_response, and the tail of execute_replay: reserve, authorize the text, authorize every act
\* in the lifecycle, permit the first; when that permit is refused the batch is taken back
\* (_compensate), which cannot fail on a batch just reserved.
Unoffered(v) == [voice |-> v, pend |-> NoPend]
Offered(v, t, version, kinds, slot, of) ==
    LET batch == NewBatch(v, Len(kinds))
        ready == Ingest(AuthorizeText(ReserveBatch(v, kinds, t, slot, of), batch), batch[1], "authorized")
    IN  IF CanPermit(ready, batch[1])
        THEN [voice |-> IngestAll(Permit(ready, batch[1]), batch, "authorized"),
              pend |-> [NoPend EXCEPT !.turn = t, !.version = version, !.batch = batch, !.of = of,
                                      !.permitted = {batch[1]}, !.stage = "permitted"]]
        ELSE Unoffered(Retire(FailAll(Silence(QuestionDropped(ready, batch), ActsOf(batch)), {batch[1]}), batch))

(****************************** final turns *********************************)
\* FinalTurnAdmissionAuthority.mint: an adapter that admits input heard the end of a turn.
TurnHeard(command) ==
    /\ voice.adapter.open /\ ~voice.adapter.closed /\ session.heard < MaxTurns
    /\ session' = [session EXCEPT !.heard = @ + 1]
    /\ finals' = finals \cup
           {[turn |-> session.heard + 1, rev |-> voice.adapter.revision, command |-> command]}
    /\ UNCHANGED <<voice, pend, ctl, intake, inbox>>

\* consume: once, in the admission it was minted in.
Accepted(r) == voice.adapter.open /\ ~voice.adapter.closed /\ r.rev = voice.adapter.revision
Consumed(r) == finals' = finals \ {r} /\ UNCHANGED <<ctl, inbox, session>>

\* A receipt of another admission, an expired one, or a turn older than the current one.
ReceiptRefused(r) ==
    /\ r \in finals
    /\ Consumed(r)
    /\ UNCHANGED <<voice, pend, intake>>

Admitted(r) == r \in finals /\ Accepted(r) /\ r.turn > intake.turn /\ Consumed(r)

SupersedeFails(r) ==
    /\ Admitted(r)
    /\ pend # NoPend /\ ~CanSupersede(voice, pend)
    /\ intake' = [intake EXCEPT !.turn = r.turn]
    /\ voice' = HardSeal(voice, pend)
    /\ pend' = NoPend

CanTakeOver == pend = NoPend \/ CanSupersede(voice, pend)

\* An extraction with nothing to say, an exhausted repair, an unlisted language, a failed proposal.
TurnSaysNothing(r, understood) ==
    /\ Admitted(r) /\ r.command = "answer" /\ CanTakeOver
    /\ intake' = [intake EXCEPT !.turn = r.turn, !.version = IF understood THEN @ + 1 ELSE @]
    /\ voice' = Superseded(voice, pend)
    /\ pend' = NoPend

\* One repair in a call, when the extraction could be repeated.
TurnRepaired(r) ==
    /\ Admitted(r) /\ r.command = "answer" /\ CanTakeOver
    /\ ~intake.repaired /\ HasRoom(1)
    /\ intake' = [intake EXCEPT !.turn = r.turn, !.repaired = TRUE]
    /\ LET v == Superseded(voice, pend)
           made == IF MayReserveBatch(v, <<"repair">>, r.turn, 0)
                   THEN Offered(v, r.turn, intake.version, <<"repair">>, 0, 0) ELSE Unoffered(v)
       IN  voice' = made.voice /\ pend' = made.pend

Plans == {<<"question">>, <<"answer", "question">>, <<"ack">>}
TurnPlanned(r, plan, slot) ==
    /\ Admitted(r) /\ r.command = "answer" /\ CanTakeOver
    /\ HasRoom(Len(plan)) /\ slot \notin intake.asked
    /\ (slot # 0) = (plan[Len(plan)] = "question")
    /\ intake' = [intake EXCEPT !.turn = r.turn, !.version = @ + 1]
    /\ LET v == Superseded(voice, pend)
           made == IF MayReserveBatch(v, plan, r.turn, slot)
                   THEN Offered(v, r.turn, intake.version + 1, plan, slot, 0) ELSE Unoffered(v)
       IN  voice' = made.voice /\ pend' = made.pend

\* execute_replay: the latest act the caller heard, under a reservation of its own; when authority is
\* closed or cannot be cleared, everything is sealed.
CannotReplay(v) == v.calls.phase = "terminated" \/ ~v.adapter.open \/ ~CanCancelCall(v.calls)
ReplayOffered(v, t) ==
    LET source == LatestSource(v)
    IN  IF ReplaySources(v) = {} THEN Unoffered(v)
        ELSE Offered(v, t, intake.version, <<v.acts[source].kind>>, v.acts[source].slot, source)
TurnReplayed(r) ==
    /\ Admitted(r) /\ r.command = "repeat" /\ CanTakeOver
    /\ HasRoom(1)
    /\ intake' = [intake EXCEPT !.turn = r.turn]
    /\ LET v == Superseded(voice, pend)
           made == IF CannotReplay(v) THEN Unoffered(SealVoice(v))
                   ELSE ReplayOffered([v EXCEPT !.calls = CancelCall(@)], r.turn)
       IN  voice' = made.voice /\ pend' = made.pend

(************************** playback of a response **************************)
\* The driver ingests what the candidate or the telephone reports of an act that holds a permit, and
\* hands it to the transaction in the same step.
Reported(a, e) ==
    /\ a = NextAct(pend) /\ a \in pend.permitted
    /\ Follows(voice.acts[a].line, e)
Speakable(v, a) == Live(v, a) /\ HasPermit(v, a)

\* accept_semantic_confirmation: a question must also be the one the silence cycle reserved.
ResponseConfirmed(a) ==
    LET v == Ingest(voice, a, "confirmed")
        question == v.acts[a].kind = "question"
        taken == Speakable(v, a) /\ CanConfirmPermit(v, a) /\ (question => CanConfirmQuestion(v.calls, a))
    IN  /\ a # 0 /\ Reported(a, "confirmed")
        /\ voice' = IF ~taken THEN v
                    ELSE [v EXCEPT !.adapter.confirmed = @ \cup {a},
                                   !.calls = IF question THEN QuestionConfirmed(@) ELSE @]
        /\ pend' = IF taken THEN [pend EXCEPT !.stage = "confirmed"] ELSE pend
        /\ UNCHANGED <<ctl, intake, inbox, finals, session>>

\* accept_tts_binding and accept_playout_binding: a receipt that does not fit seals the session.
ResponseBound(a, e) ==
    LET v == Ingest(voice, a, e)
        fits == /\ Current(pend.turn, pend.version)
                /\ pend.stage = (IF e = "tts" THEN "confirmed" ELSE "tts")
                /\ Speakable(v, a)
                /\ IF e = "tts" THEN CanBindTts(v, a) ELSE CanBindPlayout(v, a)
    IN  /\ a # 0 /\ Reported(a, e)
        /\ voice' = IF ~fits THEN HardSeal(v, pend)
                    ELSE IF e = "tts" THEN [v EXCEPT !.acts[a].audio = TRUE]
                    ELSE [v EXCEPT !.acts[a].playout = TRUE]
        /\ pend' = IF fits THEN [pend EXCEPT !.stage = e] ELSE NoPend
        /\ UNCHANGED <<ctl, intake, inbox, finals, session>>

\* accept_transport_resolution
ResponseTransported(a) ==
    LET v == Ingest(voice, a, "transport")
        question == v.acts[a].kind = "question"
        taken == pend.stage = "playout" /\ Speakable(v, a) /\ (question => Awaits(v.calls, a))
    IN  /\ a # 0 /\ Reported(a, "transport")
        /\ voice' = IF taken /\ question THEN [v EXCEPT !.calls = TransportResolved(@, a)] ELSE v
        /\ pend' = IF taken THEN [pend EXCEPT !.stage = "transport"] ELSE pend
        /\ UNCHANGED <<ctl, intake, inbox, finals, session>>

\* The act was heard: its permit is retired and the next one of the response permitted; the last one
\* completes the batch (_activate_next_permit, _finish_if_observed).
Heeded(v, a, version) ==
    LET p == [pend EXCEPT !.observed = @ \cup {a}, !.retired = @ \cup {a}, !.version = version]
        w == RetirePermit(v, a)
        next == NextAct(p)
    IN  IF ~CanRetirePermit(v, a) THEN Unoffered(HardSeal(v, p))
        ELSE IF next = 0
        THEN IF CanComplete(w, p.batch) THEN Unoffered(Retire(w, p.batch)) ELSE Unoffered(HardSeal(w, p))
        ELSE IF Live(w, next) /\ CanPermit(w, next)
        THEN [voice |-> Permit(w, next),
              pend |-> [p EXCEPT !.permitted = @ \cup {next}, !.stage = "permitted"]]
        ELSE Unoffered(HardSeal(w, p))

\* mark_slot_asked, when the question is not a replay.
Asks(a) == voice.acts[a].kind = "question" /\ pend.of = 0
MarkAsked(a) ==
    IF Asks(a) THEN [intake EXCEPT !.version = @ + 1, !.asked = @ \cup {voice.acts[a].slot}] ELSE intake

\* observe_playback
ResponseHeard(a) ==
    LET v == Ingest(voice, a, "heard")
        question == v.acts[a].kind = "question"
        ready == pend.stage = "transport" /\ Speakable(v, a)
        drifts == ready /\ ~Current(pend.turn, pend.version)
        arms == question => Awaits(v.calls, a)
        w == IF question THEN [v EXCEPT !.calls = PlaybackObserved(@, a)] ELSE v
        heeds == Heeded(RecordHeard(w, a), a, MarkAsked(a).version)
        made == IF drifts \/ (ready /\ arms /\ ~CanRecordHeard(w, a)) THEN Unoffered(HardSeal(w, pend))
                ELSE IF ~ready \/ ~arms THEN [voice |-> v, pend |-> pend]
                ELSE heeds
    IN  /\ a # 0 /\ Reported(a, "heard")
        /\ voice' = made.voice /\ pend' = made.pend
        /\ intake' = IF ready /\ ~drifts /\ arms THEN MarkAsked(a) ELSE intake
        /\ UNCHANGED <<ctl, inbox, finals, session>>

\* infer_playback: a question whose transport resolved counts as heard after the inference delay, and
\* is no evidence for a replay.
PlaybackIsInferred(a) ==
    /\ a # 0 /\ a = NextAct(pend)
    /\ Asks(a) /\ pend.stage = "transport" /\ voice.acts[a].line = "transport" /\ Speakable(voice, a)
    /\ Current(pend.turn, pend.version)
    /\ Awaits(voice.calls, a) /\ a \in voice.calls.resolved
    /\ LET made == Heeded([voice EXCEPT !.calls = PlaybackInferred(@, a)], a, intake.version + 1)
       IN  voice' = made.voice /\ pend' = made.pend
    /\ intake' = MarkAsked(a)
    /\ UNCHANGED <<ctl, inbox, finals, session>>

\* A playout that broke off or reconnected is on record and goes to nobody.
PlayoutBroken(a, e) ==
    /\ a # 0 /\ e \in {"partial", "reconnected"}
    /\ (a = NextAct(pend) /\ a \in pend.permitted) \/ (ctl.pending /\ ctl.batch = <<a>>)
    /\ Follows(voice.acts[a].line, e)
    /\ voice' = Ingest(voice, a, e)
    /\ UNCHANGED <<pend, ctl, intake, inbox, finals, session>>

\* materialize_timeout of a manual candidate: the act is timed out and its session ends.
ActTimesOut(a) ==
    /\ a # 0 /\ a = NextAct(pend) /\ a \in pend.permitted /\ ~voice.adapter.closed
    /\ Follows(voice.acts[a].line, "timedout")
    /\ voice' = HardSeal(Ingest(voice, a, "timedout"), pend)
    /\ pend' = NoPend
    /\ UNCHANGED <<ctl, intake, inbox, finals, session>>

(**************************** the caller is silent ***************************)
TimePasses ==
    /\ voice.calls.clock \in {"ahead", "due"}
    /\ voice' = [voice EXCEPT !.calls.clock = IF @ = "ahead" THEN "due" ELSE "past"]
    /\ UNCHANGED <<pend, ctl, intake, inbox, finals, session>>

CycleMoves(c) ==
    /\ voice' = [voice EXCEPT !.calls = c]
    /\ inbox' = inbox \cup NewIntents(c)
    /\ UNCHANGED <<pend, ctl, intake, finals, session>>

\* A timer fires with the receipt it was armed with, which may be of an earlier cycle.
TimerFires(receipt) == CycleMoves(TimerFired(voice.calls, receipt))
CallerAsksForTime == CycleMoves(MoreTimeAsked(voice.calls))
CallerNeedsFallback == CycleMoves(FallbackAsked(voice.calls, intake.turn))

\* _fail_closed: every authority of the call is sealed; the controller keeps its cleanup authority
\* while a batch it does not know is still tracked.
FailsClosed(v) ==
    LET failed == IF ctl.batch = <<>> THEN v ELSE IngestAll(v, ctl.batch, "failed")
        sealed == Retire(SealVoice(failed), ctl.batch)
    IN  /\ voice' = sealed
        /\ ctl' = IF sealed.batches = {} THEN NoCtl
                  ELSE [ctl EXCEPT !.cleanup = TRUE, !.terminal = NoIntent]

\* prepare: an intent of the current turn becomes one act with a permit. The intent is consumed only
\* once its speech is authorized, and any refusal on the way seals the call.
ActKind(i) == i.kind
PrepareAct(i) ==
    LET batch == NewBatch(voice, 1)
        said == AuthorizeText(ReserveBatch(voice, <<ActKind(i)>>, i.turn, 0, 0), batch)
        ready == Ingest([said EXCEPT !.calls = IntentConsumed(@, i, batch[1])], batch[1], "authorized")
        taken == [NoCtl EXCEPT !.pending = TRUE, !.batch = batch, !.intent = i, !.version = intake.version,
                               !.stage = "permitted"]
    IN  /\ i \in inbox /\ inbox' = inbox \ {i}
        /\ ~ctl.pending /\ ~ctl.cleanup /\ ctl.terminal = NoIntent
        /\ HasRoom(1)
        /\ IF i.turn # intake.turn \/ ~MayReserveBatch(voice, <<ActKind(i)>>, i.turn, 0)
           THEN FailsClosed(voice)
           ELSE IF i \in said.calls.issued /\ IntentFits(said.calls, i) /\ CanPermit(ready, batch[1])
           THEN voice' = Permit(ready, batch[1]) /\ ctl' = taken
           ELSE \* the consumed intent is not authorized in the lifecycle when it did not fit
                LET w == Retire(SealVoice(IF IntentFits(said.calls, i) THEN Ingest(ready, batch[1], "failed")
                                          ELSE said), batch)
                IN  voice' = w /\ ctl' = IF w.batches = {} THEN NoCtl ELSE [taken EXCEPT !.cleanup = TRUE]
        /\ UNCHANGED <<pend, intake, finals, session>>

\* An event of the silence act, whatever it is, finds the turn or the facts changed: the call is sealed.
SilenceAct == IF ctl.pending THEN ctl.batch[1] ELSE 0
SilenceReported(e) == ctl.pending /\ Follows(voice.acts[SilenceAct].line, e)
StillCurrent == Current(ctl.intent.turn, ctl.version)
SilenceActDrifts(e) ==
    /\ e \in {"confirmed", "tts", "playout", "transport", "heard"}
    /\ SilenceReported(e) /\ ~StillCurrent
    /\ FailsClosed(Ingest(voice, SilenceAct, e))
    /\ UNCHANGED <<pend, intake, inbox, finals, session>>

\* accept_semantic_confirmation, accept_tts_binding, accept_playout_binding: an event out of order is
\* ingested and ignored.
SilenceActAdvances(e) ==
    LET a == SilenceAct
        v == Ingest(voice, a, e)
        before == [confirmed |-> "permitted", tts |-> "confirmed", playout |-> "tts"]
        taken == /\ ctl.stage = before[e] /\ Speakable(v, a)
                 /\ e = "confirmed" => CanConfirmPermit(v, a)
    IN  /\ e \in DOMAIN before /\ SilenceReported(e) /\ StillCurrent
        /\ IF ~taken THEN voice' = v /\ ctl' = ctl
           ELSE IF (e = "tts" /\ ~CanBindTts(v, a)) \/ (e = "playout" /\ ~CanBindPlayout(v, a))
           THEN FailsClosed(v)
           ELSE /\ voice' = CASE e = "confirmed" -> [v EXCEPT !.adapter.confirmed = @ \cup {a}]
                               [] e = "tts" -> [v EXCEPT !.acts[a].audio = TRUE]
                               [] e = "playout" -> [v EXCEPT !.acts[a].playout = TRUE]
                /\ ctl' = [ctl EXCEPT !.stage = e]
        /\ UNCHANGED <<pend, intake, inbox, finals, session>>

\* accept_transport_resolution: the silence cycle must be waiting for the act.
SilenceActTransported ==
    LET a == SilenceAct
        v == Ingest(voice, a, "transport")
    IN  /\ SilenceReported("transport") /\ StillCurrent
        /\ IF ctl.stage # "playout" \/ ~Speakable(v, a) THEN voice' = v /\ ctl' = ctl
           ELSE IF ~Awaits(v.calls, a) THEN FailsClosed(v)
           ELSE /\ voice' = [v EXCEPT !.calls = TransportResolved(@, a)]
                /\ ctl' = [ctl EXCEPT !.stage = "transport"]
        /\ UNCHANGED <<pend, intake, inbox, finals, session>>

\* observe_playback: the silence cycle must answer with exactly what the act was for, a timer, the
\* end of the call, or nothing after a fallback.
AnswersAct(c) ==
    CASE ctl.intent.kind \in {"presence", "more"} -> c.phase \in {"second_armed", "more_armed"}
      [] ctl.intent.kind = "closing" -> c.phase = "terminal_eligible"
      [] OTHER -> c.phase = "idle" /\ Quiescent(c)
SilenceActHeard ==
    LET a == SilenceAct
        v == Ingest(voice, a, "heard")
        w == [v EXCEPT !.calls = PlaybackObserved(@, a)]
        fits == /\ AnswersAct(w.calls) /\ (Awaits(v.calls, a) \/ ctl.intent.kind = "fallback")
                /\ CanRetirePermit(w, a) /\ CanRecordHeard(w, a) /\ CanComplete(w, ctl.batch)
        ends == {i \in w.calls.issued : i.kind = "end"}
    IN  /\ SilenceReported("heard") /\ StillCurrent
        /\ IF ctl.stage # "transport" \/ ~Speakable(v, a) THEN voice' = v /\ ctl' = ctl
           ELSE IF ~fits THEN FailsClosed(w)
           ELSE /\ voice' = Retire(RecordHeard(RetirePermit(w, a), a), ctl.batch)
                /\ ctl' = [NoCtl EXCEPT !.version = IF ends = {} THEN 0 ELSE ctl.version,
                                        !.terminal = IF ends = {} THEN NoIntent ELSE CHOOSE i \in ends : TRUE]
        /\ UNCHANGED <<pend, intake, inbox, finals, session>>

\* terminalize: the caller heard the closing and said nothing since.
CallEnds ==
    /\ ctl.terminal # NoIntent /\ ~ctl.pending
    /\ IF Current(ctl.terminal.turn, ctl.version) /\ TerminalAccepted(voice.calls, ctl.terminal)
       THEN /\ voice' = SilenceAll(CloseAdapter([voice EXCEPT !.calls = Terminalized(@, ctl.terminal)]))
            /\ ctl' = NoCtl
       ELSE FailsClosed(voice)
    /\ UNCHANGED <<pend, intake, inbox, finals, session>>

(*********************** a session that ends or breaks ***********************)
\* TurnCompositionTransaction.abort and SilenceLifecycleController.abort, which the driver calls in
\* this order (_seal_composition_assembly), or the second one alone.
TransactionAborts ==
    /\ voice' = SealVoice(IF pend = NoPend THEN voice ELSE HardSeal(voice, pend))
    /\ pend' = NoPend
    /\ finals' = {}
    /\ UNCHANGED <<ctl, intake, inbox, session>>
SilenceAborts ==
    /\ FailsClosed(voice)
    /\ UNCHANGED <<pend, intake, inbox, finals, session>>

\* A boundary journey of the driver: the caller speaks at the deadline of the first timer.
CallerAtBoundary ==
    /\ voice.calls.phase = "first_armed" /\ voice.calls.clock = "due"
    /\ voice' = Silence(CloseAdapter([voice EXCEPT !.calls = Cancelled(@)]), {voice.calls.question})
    /\ UNCHANGED <<pend, ctl, intake, inbox, finals, session>>

\* The transport breaks, or says that it will: the adapter revokes its permits, and the lifecycle
\* accepts the event unless one of them is already unresolved.
SessionBreaks(to) ==
    /\ to \in {"lost", "away"} /\ session.breaks < MaxBreaks
    /\ ~voice.adapter.closed
    /\ voice' = RevokePermits(voice)
    /\ session' = [session EXCEPT !.breaks = @ + 1,
                                  !.state = IF @ \in {"none", "resumed"} THEN to ELSE @]
    /\ UNCHANGED <<pend, ctl, intake, inbox, finals>>

\* terminalize_disconnected_session
SessionRetired ==
    LET retirable == /\ CanCancelCall(voice.calls)
                     /\ \A a \in Unretired(pend) : WasRevoked(voice, a)
                     /\ \A a \in Unheard(pend) : LineEnds(voice, a)
                     /\ pend.batch \in voice.batches
        silent == FailAll(Silence([voice EXCEPT !.calls = Sealed(@)], Unheard(pend)), Unheard(pend))
    IN  /\ session.state = "lost" /\ ~voice.adapter.open
        /\ finals' = {}
        /\ voice' = IF pend = NoPend THEN SilenceAll([voice EXCEPT !.calls = Sealed(@)])
                    ELSE IF retirable THEN SilenceAll(Retire(silent, pend.batch)) ELSE SilenceAll(HardSeal(voice, pend))
        /\ pend' = NoPend
        /\ UNCHANGED <<ctl, intake, inbox, session>>

\* resume_permit_admission, after the lifecycle accepted the resumed session.
SessionResumes ==
    /\ session.state \in {"lost", "away"} /\ ~voice.adapter.open /\ ~voice.adapter.closed
    /\ voice' = Reopened(voice)
    /\ session' = [session EXCEPT !.state = "resumed"]
    /\ UNCHANGED <<pend, ctl, intake, inbox, finals>>

\* A session reestablished under a new epoch: the adapter of the old one is closed.
SessionReestablished ==
    /\ session.state = "lost" /\ ~voice.adapter.closed
    /\ voice' = CloseAdapter(voice)
    /\ session' = [session EXCEPT !.state = "reestablished"]
    /\ UNCHANGED <<pend, ctl, intake, inbox, finals>>

\* Receipts of this cycle and of the one before it; an older one is as stale as that.
TimerReceipts ==
    [rev : {voice.calls.rev - 1, voice.calls.rev}, phase : {p \in ArmedPhases : voice.calls.phase \in ArmedPhases}]

BakeoffNext ==
    \/ \E command \in {"answer", "repeat"} : TurnHeard(command)
    \/ \E r \in finals :
           \/ ReceiptRefused(r) \/ SupersedeFails(r) \/ TurnRepaired(r) \/ TurnReplayed(r)
           \/ \E understood \in BOOLEAN : TurnSaysNothing(r, understood)
           \/ \E plan \in Plans, slot \in Slots \cup {0} : TurnPlanned(r, plan, slot)
    \/ \E a \in {NextAct(pend)} :
           \/ ResponseConfirmed(a) \/ ResponseTransported(a) \/ ResponseHeard(a) \/ PlaybackIsInferred(a)
           \/ ActTimesOut(a)
           \/ \E e \in {"tts", "playout"} : ResponseBound(a, e)
    \/ \E a \in {NextAct(pend), SilenceAct}, e \in {"partial", "reconnected"} : PlayoutBroken(a, e)
    \/ TimePasses \/ CallerAsksForTime \/ CallerNeedsFallback
    \/ \E receipt \in TimerReceipts : TimerFires(receipt)
    \/ \E i \in inbox : PrepareAct(i)
    \/ \E e \in {"confirmed", "tts", "playout", "transport", "heard"} :
           SilenceActDrifts(e) \/ SilenceActAdvances(e)
    \/ SilenceActTransported \/ SilenceActHeard \/ CallEnds
    \/ TransactionAborts \/ SilenceAborts \/ CallerAtBoundary
    \/ \E to \in {"lost", "away"} : SessionBreaks(to)
    \/ SessionRetired \/ SessionResumes \/ SessionReestablished

BakeoffSpec == BakeoffInit /\ [][BakeoffNext]_bakeoff

(******************************** properties ********************************)
BakeoffTypeOK ==
    /\ voice.calls.phase \in CallPhases /\ voice.slots \subseteq Slots
    /\ voice.adapter.confirmed \subseteq voice.adapter.permitted
    /\ voice.adapter.revoked \subseteq voice.adapter.retired
    /\ voice.adapter.permitted \cap voice.adapter.retired = {}
    /\ pend.observed \subseteq ActsOf(pend.batch) /\ pend.permitted \subseteq ActsOf(pend.batch)

\* Whatever was superseded, refused, retired or broke off on the way, a permit to speak is held by the
\* act its owner waits for, which may still speak, and no batch is tracked that nobody owns
\* (_supersede_pending, _compensate, _fail_closed, terminalize_disconnected_session).
EveryPermitHasAnOwner ==
    /\ \A batch \in voice.batches : batch \in {pend.batch, ctl.batch}
    /\ \A a \in voice.adapter.permitted :
           /\ Live(voice, a)
           /\ (pend # NoPend /\ a = NextAct(pend)) \/ (ctl.pending /\ ctl.batch = <<a>>)

\* A call is closed only on a caller who was asked for a presence and heard it, and ended only when the
\* closing was heard; more time is granted once in a turn (timer_fired, request_more_time, terminalize).
HeardInTurn(kind, t) ==
    \E a \in Acts : voice.acts[a].kind = kind /\ voice.acts[a].turn = t /\ voice.acts[a].ordinal > 0
ClosingIsEarned ==
    /\ \A a \in Acts : voice.acts[a].kind = "closing" => HeardInTurn("presence", voice.acts[a].turn)
    /\ \A i \in inbox \cup {ctl.intent} : i.kind = "closing" => HeardInTurn("presence", i.turn)
    /\ ctl.terminal # NoIntent => HeardInTurn("closing", ctl.terminal.turn)
    /\ \A a, b \in Acts :
           voice.acts[a].kind = "more" /\ voice.acts[b].kind = "more"
           /\ voice.acts[a].turn = voice.acts[b].turn => a = b

\* The clock of a silence starts at what the caller heard: the first timer at its question, heard or
\* inferred, the second at the presence question, that of more time at its acknowledgement
\* (playback, observed_playback).
ClockStartsWhenHeard ==
    LET c == voice.calls
    IN  /\ c.phase = "first_armed" => c.question # 0 /\ voice.acts[c.question].line \in {"heard", "transport"}
        /\ c.phase = "second_armed" => HeardInTurn("presence", c.turn)
        /\ c.phase = "more_armed" => HeardInTurn("more", c.turn)
        /\ c.phase \in {"second_armed", "closing_pending", "terminal_eligible"} => c.delivered

\* What is on record as heard was authorized, spoken and played, and only that is said again
\* (record_caller_playback_observed, latest_replay_source).
HeardIsProved ==
    \A a \in Acts :
        /\ voice.acts[a].ordinal > 0 =>
               voice.acts[a].authorized /\ voice.acts[a].playout /\ voice.acts[a].line = "heard"
        /\ voice.acts[a].of # 0 => voice.acts[voice.acts[a].of].ordinal > 0

\* Authority that was taken back stays so: a closed adapter opens for nobody, a terminated call is not
\* timed again, and a silenced act is never heard, bound or permitted
\* (hard_terminalize, terminalize_permit_admission).
AuthorityIsNotRegained ==
    [][/\ voice.adapter.closed => voice'.adapter.closed /\ voice'.adapter.permitted = {} /\ ~voice'.adapter.open
       /\ voice.calls.phase = "terminated" => voice'.calls.phase = "terminated"
       /\ \A a \in Acts : voice.acts[a].cancelled =>
              /\ voice'.acts[a].cancelled /\ a \notin voice'.adapter.permitted
              /\ voice'.acts[a].audio = voice.acts[a].audio /\ voice'.acts[a].playout = voice.acts[a].playout
              /\ voice'.acts[a].ordinal = voice.acts[a].ordinal]_bakeoff

\* Any caller activity cancels the active timer before a new act is reserved
\* (docs/voice-architecture-caller-ux-acceptance.md): while a turn's answer is pending, no timer of an
\* earlier turn is armed. _supersede_pending cancels the timer only together with a pending response.
AnswerStopsTheClock ==
    pend # NoPend /\ voice.calls.phase \in ArmedPhases => voice.calls.turn = pend.turn
=============================================================================
