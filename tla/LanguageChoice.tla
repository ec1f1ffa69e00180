----------------------------- MODULE LanguageChoice -----------------------------
(***************************************************************************)
(* The one language choice a caller of an unlisted language is offered      *)
(* (src/app/services/voice_bakeoff_language_choice.py): a prompt in fixed   *)
(* segments, a window for the answer, and a recovery that is admitted and   *)
(* consumed once, or silence. The canonical events of the call are retained *)
(* by its VoiceLifecycle, and handed over one by one, perhaps late.         *)
(*                                                                          *)
(* Each operation of the choice, of the FinalTurnAdmissionAuthority and of  *)
(* the VoiceLifecycle is atomic under its lock; those of the                *)
(* TurnCompositionTransaction exclude each other, and its recovery runs in  *)
(* steps. An event is its place in the log; texts, digests and identifiers  *)
(* are not modelled. A deadline or an expiry of 0 is None.                  *)
(***************************************************************************)
EXTENDS Naturals, Sequences, FiniteSets

CONSTANTS
    Turns,          \* the caller's turns after the one that asked for an unlisted language, from 1
    Kinds,          \* of what is heard of a turn: "started", "ended", "partial", "final"
    Segments,       \* of the prompt
    ResponseMs, MaxSpeechMs, FinalizationMs, TtlMs,
    HistoryLimit,   \* _MAX_INPUT_OBSERVATION_HISTORY
    LastMs, MaxInputs   \* bounds

VARIABLES
    clock,
    log,            \* the canonical events: inputs of the caller, and segments whose playback was observed
    choice,         \* the OfflineLanguageChoiceLifecycle
    prompt,         \* the reserved batch: "none", "speaking", "sealed"
    pair,           \* when the pair that the authority has minted expires
    spent,          \* the finals whose admission was consumed
    transaction,    \* idle, with the prompt pending, or at a step of a recovery
    closed,         \* the adapter accepts no permit any more
    committed,      \* the facts of a recovery are committed
    receipt         \* the terminal receipt is issued

language == <<clock, log, choice, prompt, pair, spent, transaction, closed, committed, receipt>>

\* An unlisted language was committed: LANGUAGE_CHOICE_REQUIRED.
ChoiceInit ==
    /\ clock = 0 /\ log = <<[kind |-> "final", turn |-> 0, at |-> 0]>>
    /\ choice = [phase |-> "available", observed |-> 0, begun |-> 0, cursor |-> 0, turn |-> 0, final |-> 0,
                 response |-> 0, activity |-> 0, finalization |-> 0]
    /\ prompt = "none" /\ pair = 0 /\ spent = {1} /\ transaction = "idle"
    /\ closed = FALSE /\ committed = FALSE /\ receipt = FALSE

Waiting == {"cleanup", "window"}

\* LANGUAGE_CHOICE_DESCRIPTOR: its segments, played in this order
Prompt == 1..Segments

------------------------------------------------------------------------------
(* The events that the VoiceLifecycle retains.                              *)

Inputs == {s \in DOMAIN log : log[s].kind # "played"}
Retained == {s \in Inputs : Cardinality({r \in Inputs : r > s}) < HistoryLimit}

\* input_observations_after, and whether it is None
After(cursor) == {s \in Retained : s > cursor}
Gap == \E s \in Inputs \ Retained : choice.cursor < s

\* _is_next_input_locked, and what is asked of every event that is handed over
IsNext(s) == s \in After(choice.cursor) /\ \A r \in After(choice.cursor) : s <= r

\* _ingest_observation: the states an input turn goes through. Turns are numbered as they come, and what
\* the caller says to a choice that has ended is left out.
Ingests(turn, kind) ==
    LET latest == {log[s].kind : s \in {r \in Inputs : log[r].turn = turn
                                                       /\ \A q \in Inputs : log[q].turn = turn => q <= r}}
    IN  /\ Cardinality(Inputs) < MaxInputs /\ choice.phase # "terminal"
        /\ turn = 1 \/ \E s \in Inputs : log[s].turn = turn - 1
        /\ \/ kind = "started" /\ latest \subseteq {"ended", "partial"}
           \/ kind = "ended" /\ latest = {"started"}
           \/ kind \in {"partial", "final"} /\ latest # {"final"}
        /\ log' = Append(log, [kind |-> kind, turn |-> turn, at |-> clock])
        /\ UNCHANGED <<clock, choice, prompt, pair, spent, transaction, closed, committed, receipt>>

------------------------------------------------------------------------------
(* The prompt.                                                              *)

\* _terminalize_locked, _seal_prompt_locked
Terminal(c) == [c EXCEPT !.phase = "terminal", !.response = 0, !.activity = 0, !.finalization = 0]
Sealed == IF prompt = "speaking" THEN "sealed" ELSE prompt
Terminalizes == choice' = Terminal(choice) /\ prompt' = Sealed

\* _hard_terminalize_pending: the transaction gives the prompt up and closes the adapter.
GivesUp == Terminalizes /\ transaction' = "idle" /\ closed' = TRUE

\* prepare_language_choice: reserve, then begin_presentation once every act is authorized.
Prepares ==
    /\ transaction = "idle" /\ choice.phase = "available" /\ ~closed
    /\ \/ /\ choice' = [choice EXCEPT !.phase = "presenting", !.cursor = Len(log), !.begun = Len(log)]
          /\ prompt' = "speaking" /\ transaction' = "pending" /\ UNCHANGED closed
       \/ choice' = Terminal(choice) /\ prompt' = "sealed" /\ closed' \in BOOLEAN /\ UNCHANGED transaction
    /\ UNCHANGED <<clock, log, pair, spent, committed, receipt>>

\* A segment gets its permit when the one before it was observed.
Plays ==
    LET next == choice.observed + 1 IN
    /\ transaction = "pending" /\ prompt = "speaking" /\ next \in Prompt
    /\ \A s \in DOMAIN log : ~(log[s].kind = "played" /\ log[s].turn = next)
    /\ log' = Append(log, [kind |-> "played", turn |-> next, at |-> clock])
    /\ UNCHANGED <<clock, choice, prompt, pair, spent, transaction, closed, committed, receipt>>

\* observe_playback waits while an earlier input of the caller is retained (defers_playback).
\* observe_segment opens the window with the last segment.
Observes(s) ==
    /\ transaction = "pending" /\ prompt = "speaking"
    /\ choice.phase = "presenting" /\ log[s].kind = "played" /\ log[s].turn = choice.observed + 1
    /\ \/ Gap /\ GivesUp
       \/ /\ ~Gap /\ \A r \in After(choice.cursor) : s < r
          /\ \/ GivesUp
             \/ /\ choice' = [choice EXCEPT
                       !.observed = @ + 1, !.cursor = s,
                       !.phase = IF log[s].turn = Segments THEN "cleanup" ELSE @,
                       !.response = IF log[s].turn = Segments THEN log[s].at + ResponseMs ELSE @]
                /\ transaction' = IF log[s].turn = Segments THEN "finishing" ELSE "pending"
                /\ UNCHANGED <<prompt, closed>>
    /\ UNCHANGED <<clock, log, pair, spent, committed, receipt>>

\* complete_batch and complete_prompt_cleanup; an answer between observe_segment and them has sealed the batch.
Completes ==
    /\ transaction = "finishing"
    /\ IF choice.phase = "cleanup"
       THEN /\ choice' = [choice EXCEPT !.phase = "window"]
            /\ prompt' = "sealed" /\ transaction' = "idle" /\ UNCHANGED closed
       ELSE GivesUp
    /\ UNCHANGED <<clock, log, pair, spent, committed, receipt>>

------------------------------------------------------------------------------
(* The answer of the caller, and the clock.                                 *)

\* Every event that is handed over in its turn moves the cursor.
Passed(s) == [choice EXCEPT !.cursor = s]

HandsOver(s, kind) ==
    /\ s \in Retained /\ log[s].kind = kind /\ s > choice.cursor
    /\ Gap \/ IsNext(s)
    /\ UNCHANGED <<clock, log, pair, spent, transaction, closed, committed, receipt>>

\* accept_activity_started: the answer begins, and the prompt falls silent.
Starts(s) ==
    /\ HandsOver(s, "started")
    /\ LET late == choice.phase \in Waiting /\ log[s].at > choice.response IN
       IF Gap THEN Terminalizes
       ELSE IF late THEN choice' = Terminal(Passed(s)) /\ prompt' = Sealed
       ELSE IF choice.phase \in {"presenting"} \cup Waiting
       THEN /\ choice' = [Passed(s) EXCEPT !.phase = "open", !.turn = log[s].turn,
                                           !.activity = log[s].at + MaxSpeechMs, !.response = 0]
            /\ prompt' = Sealed
       ELSE choice' = Passed(s) /\ UNCHANGED prompt

\* accept_activity_ended
Ends(s) ==
    /\ HandsOver(s, "ended")
    /\ LET late == choice.phase = "open" /\ log[s].at > choice.activity IN
       IF Gap THEN Terminalizes
       ELSE IF late THEN choice' = Terminal(Passed(s)) /\ prompt' = Sealed
       ELSE IF choice.phase = "open" /\ log[s].turn = choice.turn
       THEN /\ choice' = [Passed(s) EXCEPT !.phase = "finalizing", !.finalization = log[s].at + FinalizationMs]
            /\ UNCHANGED prompt
       ELSE choice' = Passed(s) /\ UNCHANGED prompt

\* stage_final, and bind_recovery_receipt of a qualified locale.
Staged(c, s, qualified) ==
    LET passed == [c EXCEPT !.cursor = s]
        anew == c.phase \in {"presenting"} \cup Waiting
        late == \/ c.phase \in Waiting /\ log[s].at > c.response
                \/ c.phase = "open" /\ log[s].at > c.activity
                \/ c.phase = "finalizing" /\ log[s].at > c.finalization
    IN  IF Gap THEN Terminal(c)
        ELSE IF ~IsNext(s) THEN c
        ELSE IF c.turn \notin {0, log[s].turn} THEN passed
        ELSE IF (anew \/ c.phase \in {"open", "finalizing"}) /\ ~late /\ qualified
        THEN [passed EXCEPT !.phase = "pending", !.turn = log[s].turn, !.final = s,
                            !.activity = IF anew THEN log[s].at + MaxSpeechMs ELSE @,
                            !.finalization = IF c.phase = "finalizing" THEN @ ELSE log[s].at + FinalizationMs]
        ELSE Terminal(passed)

\* FinalTurnAdmissionAuthority._prune: a pair that has expired takes the choice with it.
Expired == pair # 0 /\ pair < clock

\* consume_final_input_admission
Admits(s) == log[s].kind = "final" /\ s \notin spent /\ ~closed

\* mint_language_recovery: the admission of a final is consumed, whatever becomes of it.
Mints(s) ==
    LET c == IF Expired THEN Terminal(choice) ELSE choice IN
    /\ Admits(s)
    /\ spent' = spent \cup {s}
    /\ \E qualified \in BOOLEAN :
          choice' = IF s \in Retained /\ s > c.cursor THEN Staged(c, s, qualified) ELSE c
    /\ prompt' = IF choice'.phase \in {"pending", "terminal"} THEN Sealed ELSE prompt
    /\ pair' = IF choice'.phase = "pending" /\ c.phase # "pending" THEN clock + TtlMs ELSE IF Expired THEN 0 ELSE pair
    /\ UNCHANGED <<clock, log, transaction, closed, committed, receipt>>

\* advance_time passes over what does not answer, and waits for an answer that came in time. It has nothing
\* to end in the other phases.
AnswersInTime(s) ==
    \/ /\ choice.phase \in Waiting /\ log[s].kind \in {"started", "final"}
       /\ log[s].at <= choice.response
    \/ /\ choice.phase = "open" /\ log[s].turn = choice.turn /\ log[s].kind \in {"ended", "final"}
       /\ log[s].at <= choice.activity
    \/ /\ choice.phase = "finalizing" /\ log[s].turn = choice.turn /\ log[s].kind = "final"
       /\ log[s].at <= choice.finalization

IsOver ==
    \/ choice.phase \in Waiting /\ clock > choice.response
    \/ choice.phase = "open" /\ clock > choice.activity
    \/ choice.phase = "finalizing" /\ clock > choice.finalization

AdvancesTime ==
    LET waits == {s \in After(choice.cursor) : AnswersInTime(s)}
        passed == {s \in After(choice.cursor) : \A r \in waits : s < r}
        latest == {s \in passed : \A r \in passed : r <= s}
        cursor == IF passed = {} THEN choice.cursor ELSE CHOOSE s \in latest : TRUE
    IN  /\ choice.phase \in {"presenting", "open", "finalizing"} \cup Waiting
        /\ IF Gap \/ (waits = {} /\ IsOver)
           THEN choice' = Terminal([choice EXCEPT !.cursor = IF Gap THEN @ ELSE cursor]) /\ prompt' = Sealed
           ELSE choice' = [choice EXCEPT !.cursor = cursor] /\ UNCHANGED prompt
        /\ UNCHANGED <<clock, log, pair, spent, transaction, closed, committed, receipt>>

------------------------------------------------------------------------------
(* The recovery: execute_language_recovery.                                 *)

\* consume_language_recovery, of the pair that was minted
PairIsGood == ~Expired /\ ~closed /\ choice.phase = "pending"

\* execute_language_recovery: the pair is consumed, then the turn is admitted and supersedes what is pending. A prompt that the
\* caller cut short is still pending, and its batch is gone: superseding it fails.
Consumes ==
    /\ pair # 0 /\ transaction \in {"idle", "pending"}
    /\ pair' = 0
    /\ \/ Terminalizes /\ UNCHANGED <<transaction, closed>>
       \/ /\ PairIsGood
          /\ IF transaction = "pending" THEN GivesUp
             ELSE /\ choice' = [choice EXCEPT !.phase = "consumed"] /\ transaction' = "extract"
                  /\ UNCHANGED <<prompt, closed>>
    /\ UNCHANGED <<clock, log, spent, committed, receipt>>

Fails == Terminalizes /\ transaction' = "idle" /\ UNCHANGED committed

\* extract and validate_recovery_locale
Extracts ==
    /\ transaction = "extract"
    /\ \/ Fails
       \/ /\ choice.phase = "consumed"
          /\ choice' = [choice EXCEPT !.phase = "validated"] /\ transaction' = "commit"
          /\ UNCHANGED <<prompt, committed>>
    /\ UNCHANGED <<clock, log, pair, spent, closed, receipt>>

\* commit_facts
Commits ==
    /\ transaction = "commit"
    /\ \/ Fails
       \/ transaction' = "publish" /\ committed' = TRUE /\ UNCHANGED <<choice, prompt>>
    /\ UNCHANGED <<clock, log, pair, spent, closed, receipt>>

\* commit_recovery
Publishes ==
    /\ transaction = "publish" /\ transaction' = "idle"
    /\ IF choice.phase = "validated" THEN choice' = [choice EXCEPT !.phase = "recovered"] /\ UNCHANGED prompt
       ELSE Terminalizes
    /\ UNCHANGED <<clock, log, pair, spent, closed, committed, receipt>>

------------------------------------------------------------------------------
(* The end.                                                                 *)

\* TurnCompositionTransaction.abort and hard_terminalize_live_receipts
Aborts ==
    /\ transaction \in {"idle", "pending"} /\ ~closed
    /\ closed' = TRUE /\ pair' = 0 /\ transaction' = "idle"
    /\ IF pair # 0 \/ transaction = "pending" THEN Terminalizes ELSE UNCHANGED <<choice, prompt>>
    /\ UNCHANGED <<clock, log, spent, committed, receipt>>

\* issue_terminal_receipt, on an inventory that is sealed.
Issues ==
    /\ ~receipt /\ choice.phase = "terminal"
    /\ closed /\ pair = 0 /\ transaction = "idle" /\ prompt # "speaking"
    /\ receipt' = TRUE
    /\ UNCHANGED <<clock, log, choice, prompt, pair, spent, transaction, closed, committed>>

\* Nothing is timed before the prompt.
TimePasses ==
    /\ clock < LastMs /\ choice.phase # "available" /\ clock' = clock + 1
    /\ UNCHANGED <<log, choice, prompt, pair, spent, transaction, closed, committed, receipt>>

ChoiceNext ==
    \/ \E turn \in Turns, kind \in Kinds : Ingests(turn, kind)
    \/ \E s \in DOMAIN log : Observes(s) \/ Starts(s) \/ Ends(s) \/ Mints(s)
    \/ Prepares \/ Plays \/ Completes \/ AdvancesTime
    \/ Consumes \/ Extracts \/ Commits \/ Publishes
    \/ Aborts \/ Issues \/ TimePasses

------------------------------------------------------------------------------
(* Properties.                                                              *)

Admitted == {"pending", "consumed", "validated", "recovered"}

ChoiceTypeOK ==
    /\ {clock, pair} \subseteq Nat /\ spent \subseteq DOMAIN log /\ {closed, committed, receipt} \subseteq BOOLEAN
    /\ log \in Seq([kind : {"started", "ended", "partial", "final", "played"}, turn : Nat, at : Nat])
    /\ choice \in [phase : {"available", "presenting", "open", "finalizing", "terminal"} \cup Waiting \cup Admitted,
                   observed : 0..Segments, begun : Nat, cursor : 0..Len(log), turn : Turns \cup {0}, final : Nat,
                   response : Nat, activity : Nat, finalization : Nat]
    /\ prompt \in {"none", "speaking", "sealed"}
    /\ transaction \in {"idle", "pending", "finishing", "extract", "commit", "publish"}

\* The index of the observation that opened the window, if it did.
Heard == {s \in DOMAIN log : log[s].kind = "played" /\ log[s].turn = Segments /\ choice.observed = Segments}

\* An answer is admitted only if the caller began it after the prompt began, within the window once the prompt
\* was heard, and ended it in time (_response_deadline_ms, _activity_deadline_ms, _finalization_deadline_ms).
AnswerWasInTime ==
    choice.phase \in Admitted =>
        \E s \in (choice.begun + 1)..choice.final :
            /\ log[choice.final].kind = "final" /\ log[s].turn = log[choice.final].turn
            /\ log[s].kind \in {"started", "final"}
            /\ log[choice.final].at <= log[s].at + MaxSpeechMs + FinalizationMs
            /\ \A p \in Heard : p < s /\ log[s].at <= log[p].at + ResponseMs

\* However late it is handed over, an answer that came in time is not passed over by the clock or by
\* other events (advance_time, _is_next_input_locked).
TimelyAnswerIsKept ==
    \A s \in Inputs :
        /\ \A p \in Heard : choice.phase \in Waiting /\ p < s /\ AnswersInTime(s) => s > choice.cursor
        /\ choice.phase \in {"open", "finalizing"} /\ log[s].kind = "final" /\ AnswersInTime(s) => s > choice.cursor

\* Once the caller answers, or the choice ends, the prompt is silent; a pair exists while it is owed; a choice is
\* recovered with its facts, and only after its whole prompt; the receipt says that nothing is left.
ChoiceIsSealed ==
    /\ choice.phase \notin {"available", "presenting", "cleanup"} => prompt # "speaking"
    /\ choice.phase = "pending" => pair # 0
    /\ choice.phase = "recovered" => committed /\ choice.observed = Segments
    /\ receipt => choice.phase = "terminal" /\ pair = 0 /\ transaction = "idle" /\ prompt # "speaking"

\* A choice that has ended does not begin again, and no authority returns after the receipt (issue_terminal_receipt).
ChoiceEndsOnce ==
    [][/\ choice.phase = "terminal" => choice'.phase = "terminal" /\ prompt' # "speaking"
       /\ receipt => pair' = 0 /\ transaction' = "idle"]_language
=============================================================================
