------------------------------ MODULE SpokenActs ------------------------------
(***************************************************************************)
(* The speech of one call: who may say what, and what the caller heard of it *)
(* (voice_speech_control.py, voice_lifecycle.py, the permits of              *)
(* voice_candidates/__init__.py, voice_bakeoff_coordinator.py). A record v is *)
(* that shared state: the acts, the reservation batches still tracked, the    *)
(* question slots reserved, the adapter's permits, and the silence cycle. The *)
(* text, audio and playout digests of an act are its identity: what is kept   *)
(* is which of them is bound. An operator is a method: it maps v to the next  *)
(* state, and to the same one when the method refuses.                        *)
(***************************************************************************)
EXTENDS SilenceCycle, Sequences

CONSTANTS MaxActs, PermitLimit, Slots
ASSUME SpeechAssumption == MaxActs \in Nat \ {0} /\ PermitLimit \in Nat \ {0} /\ 0 \notin Slots

Acts == 1..MaxActs
ActsOf(batch) == {batch[n] : n \in DOMAIN batch}
PlanKinds == {"answer", "question", "ack", "repair"}
\* A closing cannot be replayed (_NON_REPLAYABLE_KINDS).
Replayable == (PlanKinds \cup SilenceActs) \ {"closing"}

NoAct == [kind |-> "none", turn |-> 0, slot |-> 0, owns |-> FALSE, of |-> 0, authorized |-> FALSE,
          cancelled |-> FALSE, audio |-> FALSE, playout |-> FALSE, ordinal |-> 0, line |-> "none"]

NewAdapter == [permitted |-> {}, confirmed |-> {}, retired |-> {}, revoked |-> {},
               open |-> TRUE, closed |-> FALSE, revision |-> 0]
NewVoice == [acts |-> [a \in Acts |-> NoAct], batches |-> {}, slots |-> {},
             adapter |-> NewAdapter, calls |-> NewCycle]

Allocated(v) == {a \in Acts : v.acts[a].kind # "none"}
Live(v, a) == v.acts[a].authorized /\ ~v.acts[a].cancelled

(****************************** SpeechControl *******************************)
NewBatch(v, n) == [i \in 1..n |-> Cardinality(Allocated(v)) + i]

\* reserve: refused when an act of the plan exists (its id names the turn and the plan), or the slot of
\* its question is reserved.
MayReserve(v, kinds, t, slot) ==
    /\ \A a \in Allocated(v) : ~(v.acts[a].turn = t /\ v.acts[a].of = 0 /\ \E i \in DOMAIN kinds : kinds[i] = v.acts[a].kind)
    /\ slot \notin v.slots
Reserve(v, kinds, t, slot, of) ==
    LET batch == NewBatch(v, Len(kinds))
        entry(i) == [NoAct EXCEPT !.kind = kinds[i], !.turn = t, !.of = of,
                                  !.slot = IF kinds[i] = "question" THEN slot ELSE 0,
                                  !.owns = kinds[i] = "question" /\ of = 0]
    IN  [v EXCEPT !.acts = [a \in Acts |-> IF a \in ActsOf(batch) THEN entry(a - batch[1] + 1) ELSE @[a]],
                  !.batches = @ \cup {batch},
                  !.slots = IF of = 0 THEN @ \cup ({slot} \ {0}) ELSE @]

\* authorize_text of a whole batch, the only text an act ever has.
AuthorizeText(v, batch) ==
    [v EXCEPT !.acts = [a \in Acts |-> IF a \in ActsOf(batch) THEN [@[a] EXCEPT !.authorized = TRUE] ELSE @[a]]]

CanBindTts(v, a) == Live(v, a) /\ ~v.acts[a].audio
CanBindPlayout(v, a) == ~v.acts[a].cancelled /\ v.acts[a].audio /\ ~v.acts[a].playout

\* record_caller_playback_observed: a later act has a larger ordinal.
CanRecordHeard(v, a) == Live(v, a) /\ v.acts[a].playout /\ v.acts[a].ordinal = 0
RecordHeard(v, a) ==
    [v EXCEPT !.acts[a].ordinal = 1 + Cardinality({b \in Acts : v.acts[b].ordinal > 0})]

\* latest_replay_source: the latest act the caller heard that may be said again.
ReplaySources(v) ==
    {a \in Allocated(v) : v.acts[a].ordinal > 0 /\ Live(v, a) /\ v.acts[a].kind \in Replayable}
LatestSource(v) == CHOOSE a \in ReplaySources(v) : \A b \in ReplaySources(v) : v.acts[b].ordinal <= v.acts[a].ordinal

\* cancel and hard_terminalize: the act may never speak again, and the slot it owns is free.
Silence(v, gone) ==
    [v EXCEPT !.acts = [a \in Acts |-> IF a \in gone THEN [@[a] EXCEPT !.cancelled = TRUE] ELSE @[a]],
              !.slots = @ \ {v.acts[a].slot : a \in {b \in gone : v.acts[b].owns}}]
SilenceAll(v) == Silence(v, Allocated(v))

CanComplete(v, batch) == batch \in v.batches /\ \A a \in ActsOf(batch) : ~v.acts[a].cancelled
Retire(v, batch) == [v EXCEPT !.batches = @ \ {batch}]

(****************************** VoiceLifecycle ******************************)
Follows(line, e) ==
    line \in CASE e = "authorized" -> {"none"}
               [] e = "confirmed" -> {"authorized"}
               [] e = "tts" -> {"confirmed"}
               [] e = "playout" -> {"tts", "reconnected"}
               [] e \in {"transport", "partial", "reconnected"} -> {"playout"}
               [] e = "heard" -> {"transport"}
               [] e \in {"failed", "timedout"} -> {"authorized", "confirmed", "tts", "playout", "transport"}

Ingest(v, a, e) == IF Follows(v.acts[a].line, e) THEN [v EXCEPT !.acts[a].line = e] ELSE v
IngestAll(v, batch, e) ==
    [v EXCEPT !.acts = [a \in Acts |-> IF a \in ActsOf(batch) THEN Ingest(v, a, e).acts[a] ELSE @[a]]]

\* _terminalize_authorization: whether the act could be failed, or was already at its end.
LineEnds(v, a) == v.acts[a].line \in {"failed", "timedout", "heard", "partial"} \/ Follows(v.acts[a].line, "failed")

(************************* OfflineCandidateAdapter **************************)
CanPermit(v, a) ==
    LET ad == v.adapter
    IN  /\ v.acts[a].line = "authorized" /\ ad.open /\ ~ad.closed
        /\ a \notin ad.permitted \cup ad.retired
        /\ Cardinality(ad.permitted \cup ad.retired) < PermitLimit
Permit(v, a) == [v EXCEPT !.adapter.permitted = @ \cup {a}]
HasPermit(v, a) == v.adapter.open /\ ~v.adapter.closed /\ a \in v.adapter.permitted

CanRetirePermit(v, a) == ~v.adapter.closed /\ a \in v.adapter.permitted
RetirePermit(v, a) ==
    [v EXCEPT !.adapter.permitted = @ \ {a}, !.adapter.confirmed = @ \ {a},
              !.adapter.retired = @ \cup {a}, !.adapter.revoked = @ \ {a}]
WasRevoked(v, a) == ~v.adapter.closed /\ a \in v.adapter.revoked

CanConfirmPermit(v, a) ==
    v.acts[a].line = "confirmed" /\ ~v.adapter.closed /\ a \in v.adapter.permitted \ v.adapter.confirmed

\* revoke_permits_for_disconnect and resume_permit_admission.
RevokePermits(v) ==
    [v EXCEPT !.adapter.retired = @ \cup v.adapter.permitted,
              !.adapter.revoked = @ \cup v.adapter.permitted,
              !.adapter.permitted = {}, !.adapter.confirmed = {}, !.adapter.open = FALSE,
              !.adapter.revision = @ + 1]
Reopened(v) == [v EXCEPT !.adapter.open = TRUE, !.adapter.revision = @ + 1]

\* terminalize_permit_admission. A closed adapter compares its revision with nothing.
CloseAdapter(v) ==
    [v EXCEPT !.adapter = [NewAdapter EXCEPT !.open = FALSE, !.closed = TRUE, !.revision = v.adapter.revision]]

(************************* VoiceBakeoffCoordinator **************************)
\* reserve_batch: the speech is reserved and, with a question, so is the silence cycle; when that one
\* is busy the speech is rolled back, and nothing was reserved.
QuestionOf(v, batch) == {a \in ActsOf(batch) : v.acts[a].kind = "question"}
MayReserveBatch(v, kinds, t, slot) ==
    MayReserve(v, kinds, t, slot) /\ ((\E i \in DOMAIN kinds : kinds[i] = "question") => v.calls.phase = "idle")
ReserveBatch(v, kinds, t, slot, of) ==
    LET w == Reserve(v, kinds, t, slot, of)
        q == QuestionOf(w, NewBatch(v, Len(kinds)))
    IN  IF q = {} THEN w
        ELSE [w EXCEPT !.calls = QuestionReserved(@, CHOOSE a \in q : TRUE, t)]

\* rollback_pristine_question.
QuestionDropped(v, batch) ==
    IF QuestionOf(v, batch) = {} THEN v
    ELSE [v EXCEPT !.calls = QuestionRolledBack(@, CHOOSE a \in QuestionOf(v, batch) : TRUE)]

\* Everything this binding may still say is taken back (_hard_terminalize_session_speech,
\* _seal_replay_authority).
SealVoice(v) == [SilenceAll(CloseAdapter(v)) EXCEPT !.calls = Sealed(@)]
=============================================================================
