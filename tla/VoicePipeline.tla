------------------------------ MODULE VoicePipeline ------------------------------
(***************************************************************************)
(* One call on the ElevenLabs pipeline (src/app/services/voice_pipeline.py): *)
(* the Deepgram receive loop that hears the caller, the replies (Claude,     *)
(* then speech), the watchdog for a silent caller, and the delivery of the   *)
(* owner's message instruction. All are tasks of one event loop, and         *)
(* _response_lock, which is fair, lets one of them speak at a time. The      *)
(* delivery takes that lock in one coroutine and gives it back in another.   *)
(* What Kevin says is told apart by what the code looks for in it; the       *)
(* seconds of the watchdog and of the timer pass at any pace.                *)
(***************************************************************************)
EXTENDS Naturals, Sequences

CONSTANTS
    MaxHeard,     \* bound on the transcripts that Deepgram sends
    MaxBuffer,    \* segments that are flushed at once, 15 in the code
    MaxChunks,    \* chunks of one speech
    MaxReconnects,\* _max_reconnect_attempts
    MaxFaults,    \* bound on failures of a provider
    Spent         \* what is used up of MaxHeard and MaxFaults when a history begins

VARIABLES
    line,    \* the flags of VoicePipeline, and how often an instruction began to sound
    ears,    \* the Deepgram receive loop, and the segments it has accumulated
    lock,    \* _response_lock: the task that holds it
    queue,   \* and those that wait for it
    reply,   \* the utterance task that holds the lock
    silence, \* _silence_check_loop
    desk,    \* the consumption of the owner's intent
    timer,   \* _unavailable_task
    voice,   \* each speaker's call of _speak
    owner,   \* the durable intent
    heard, faults

voices == <<line, ears, lock, queue, reply, silence, desk, timer, voice, owner, heard, faults>>

Speakers == {"greeting", "reply", "silence", "desk"}
Mute == [at |-> "none", text |-> "none", chunks |-> 0, cut |-> FALSE, ok |-> FALSE]
Guarded == {"desk"}

PipeInit ==
    /\ line = [connected |-> TRUE, speaking |-> TRUE, interrupt |-> FALSE, said |-> FALSE, pending |-> FALSE,
               waiting |-> FALSE, fresh |-> FALSE, urgent |-> FALSE,
               last |-> "none", prompted |-> FALSE, completed |-> FALSE, told |-> 0]
    /\ ears = [at |-> "read", buffer |-> 0, reconnects |-> 0]
    /\ lock = "greeting" /\ queue = <<>>
    /\ reply = [at |-> "none", rounds |-> 0, text |-> "none"]
    /\ silence = "watch" /\ desk = [at |-> "idle", by |-> "none"] /\ timer = "none"
    /\ voice = [s \in Speakers |-> IF s = "greeting" THEN [Mute EXCEPT !.at = "tts", !.text = "plain"] ELSE Mute]
    /\ owner = "none" /\ (\E s \in Spent : heard = s[1] /\ faults = s[2])

Fault == faults < MaxFaults /\ faults' = faults + 1

------------------------------------------------------------------------------
(* The response lock. A task that waits is woken in its turn.               *)

\* What a task does with the lock in its hands.
Wakes(task) ==
    CASE task = "reply" -> reply' = [at |-> "think", rounds |-> 0, text |-> "none"] /\ UNCHANGED <<desk>>
      [] task = "desk"  -> desk' = [desk EXCEPT !.at = "guard"] /\ UNCHANGED reply
      [] OTHER          -> UNCHANGED <<reply, desk>>

Released == lock' = (IF queue = <<>> THEN "free" ELSE Head(queue)) /\ queue' = (IF queue = <<>> THEN <<>> ELSE Tail(queue))
Next1 == IF queue = <<>> THEN "free" ELSE Head(queue)
Free == lock = "free"

------------------------------------------------------------------------------
(* _speak *)

Speech(s, text) == [voice EXCEPT ![s] = [Mute EXCEPT !.at = "tts", !.text = text]]
Speaks(p) == [p EXCEPT !.speaking = TRUE, !.interrupt = FALSE]
Hushed(p) == [p EXCEPT !.speaking = FALSE, !.interrupt = FALSE]
SpeechOver(s, ok) == voice' = [voice EXCEPT ![s].at = "over", ![s].ok = ok]
Stays == UNCHANGED <<ears, lock, queue, reply, silence, desk, timer, owner, heard>>

\* The owner's decision stands: the guard of a message instruction.
Authorised == owner = "requested"

\* ElevenLabs fails, or answers without audio.
SpeechFails(s) ==
    /\ voice[s].at = "tts"
    /\ IF line.connected THEN Fault ELSE UNCHANGED faults
    /\ SpeechOver(s, FALSE) /\ line' = Hushed(line) /\ Stays

\* Seeded fault: the instruction counts as given only when it was heard to its end.
StartedQuietly(s, p) == p
\* The first chunk was taken: an instruction counts as given.
Started(s, p) ==
    IF voice[s].text = "message" THEN [p EXCEPT !.said = TRUE, !.waiting = FALSE, !.prompted = FALSE] ELSE p

\* A chunk is taken, or refused: then the call is over.
Chunk(s) ==
    \/ /\ voice' = [voice EXCEPT ![s].chunks = @ + 1,
                                 ![s].at = IF voice[s].chunks = 0 /\ s \in Guarded THEN "guardFirst" ELSE "pace"]
       /\ line' = IF voice[s].chunks = 0 THEN Started(s, [line EXCEPT !.told = @ + IF voice[s].text = "message" THEN 1 ELSE 0]) ELSE line
       /\ UNCHANGED faults
    \/ /\ Fault /\ SpeechOver(s, FALSE)
       /\ line' = [Hushed(line) EXCEPT !.connected = FALSE, !.completed = TRUE]
Drops(s) == SpeechOver(s, FALSE) /\ line' = Hushed(line) /\ UNCHANGED faults
Waits(s, at) == voice' = [voice EXCEPT ![s].at = at] /\ UNCHANGED <<line, faults>>

\* Seeded fault: only an instruction that was given suppresses an offer.
SuppressedOnceSaid(s) == voice[s].text = "hold" /\ line.said
\* An offer to fetch the owner that has been overtaken by the owner's answer.
Suppressed(s) == voice[s].text = "hold" /\ (line.pending \/ line.said)

\* Seeded fault: what was queued is played out.
PlaysOut(s) == ~line.connected
\* Nobody listens, or the caller has talked into it.
CutOff(s) == ~line.connected \/ line.interrupt

\* The audio is there.
Synthesized(s) ==
    /\ voice[s].at = "tts"
    /\ CASE Suppressed(s) -> Drops(s)
         [] ~Suppressed(s) /\ s \in Guarded -> Waits(s, "guard")
         [] ~Suppressed(s) /\ s \notin Guarded -> IF CutOff(s) THEN Drops(s) ELSE Chunk(s)
    /\ Stays

\* The guard before the first chunk, after it, and between two: only the first looks at the caller again.
GuardAnswers(s) ==
    /\ voice[s].at \in {"guard", "guardNext", "guardFirst"}
    /\ IF ~Authorised \/ (voice[s].at = "guard" /\ CutOff(s)) THEN Drops(s)
       ELSE IF voice[s].at = "guardFirst" THEN Waits(s, "pace") ELSE Chunk(s)
    /\ Stays

\* Between two chunks and while the last one plays: on, or off at an interruption.
Paced(s) ==
    /\ voice[s].at = "pace"
    /\ IF voice[s].chunks < MaxChunks /\ ~CutOff(s)
       THEN IF s \in Guarded THEN Waits(s, "guardNext") ELSE Chunk(s)
       ELSE /\ SpeechOver(s, line.connected)
            /\ line' = [Hushed(line) EXCEPT !.last = "kevin"] /\ UNCHANGED faults
    /\ Stays

Speaking == \E s \in Speakers : Synthesized(s) \/ GuardAnswers(s) \/ Paced(s)

------------------------------------------------------------------------------
(* Greeting and replies *)

\* The greeting is over: the lock goes to who waits for it.
GreetingOver ==
    /\ voice["greeting"].at = "over"
    /\ voice' = [voice EXCEPT !["greeting"] = Mute]
    /\ Released /\ Wakes(Next1)
    /\ UNCHANGED <<line, ears, silence, timer, owner, heard, faults>>

ReplyOver == voice["reply"].at \in {"none", "over"}
ReplyEnds ==
    /\ voice' = [voice EXCEPT !["reply"] = Mute]
    /\ Released
    /\ IF Next1 = "desk" THEN desk' = [desk EXCEPT !.at = "guard"] /\ reply' = [reply EXCEPT !.at = "none"]
       ELSE reply' = [at |-> IF Next1 = "reply" THEN "think" ELSE "none", rounds |-> 0, text |-> "none"] /\ UNCHANGED desk

\* Claude answers with text; an offer that was overtaken is not even spoken.
Answers(text) ==
    /\ reply.at = "think"
    /\ IF text = "nothing" \/ (text = "hold" /\ (line.pending \/ line.said))
       THEN ReplyEnds /\ UNCHANGED line
       ELSE /\ reply' = [reply EXCEPT !.at = "speak", !.text = text]
            /\ voice' = Speech("reply", text) /\ line' = Speaks(line)
            /\ UNCHANGED <<lock, queue, desk>>
    /\ UNCHANGED <<ears, silence, timer, owner, heard, faults>>

\* Claude fails twice: an apology, unless the caller is gone.
ClaudeFails ==
    /\ reply.at = "think" /\ Fault
    /\ IF line.connected
       THEN /\ reply' = [reply EXCEPT !.at = "speak", !.text = "plain"]
            /\ voice' = Speech("reply", "plain") /\ line' = Speaks(line)
            /\ UNCHANGED <<lock, queue, desk>>
       ELSE ReplyEnds /\ UNCHANGED line
    /\ UNCHANGED <<ears, silence, timer, owner, heard>>

\* Claude asks for a tool: a filler first, unless a message is to be taken.
ToolUse ==
    /\ reply.at = "think" /\ reply.rounds = 0
    /\ IF line.pending THEN reply' = [reply EXCEPT !.at = "tool", !.rounds = 1] /\ UNCHANGED <<voice, line>>
       ELSE /\ reply' = [reply EXCEPT !.at = "filler", !.rounds = 1]
            /\ voice' = Speech("reply", "plain") /\ line' = Speaks(line)
    /\ UNCHANGED <<ears, lock, queue, silence, desk, timer, owner, heard, faults>>

FillerOver ==
    /\ reply.at = "filler" /\ voice["reply"].at = "over"
    /\ reply' = [reply EXCEPT !.at = "tool"]
    /\ UNCHANGED <<line, ears, lock, queue, silence, desk, timer, voice, owner, heard, faults>>

\* The tool has run: Claude is asked again, or a failure ends the turn with an excuse.
ToolDone ==
    /\ reply.at = "tool"
    /\ reply' = [reply EXCEPT !.at = "think"]
    /\ UNCHANGED <<line, ears, lock, queue, silence, desk, timer, voice, owner, heard, faults>>
ToolFails ==
    /\ reply.at = "tool" /\ Fault
    /\ reply' = [reply EXCEPT !.at = "speak", !.text = "plain"]
    /\ voice' = Speech("reply", "plain") /\ line' = Speaks(line)
    /\ UNCHANGED <<ears, lock, queue, silence, desk, timer, owner, heard>>

\* _start_owner_availability_wait
MayWait(p) == p.connected /\ ~p.said /\ ~p.pending

ReplySpoken ==
    /\ reply.at = "speak" /\ voice["reply"].at = "over"
    /\ IF reply.text = "bye"
       THEN /\ reply' = [reply EXCEPT !.at = "bye"] /\ voice' = [voice EXCEPT !["reply"] = Mute]
            /\ UNCHANGED <<line, lock, queue, desk, timer>>
       ELSE /\ ReplyEnds
            /\ IF reply.text = "hold" /\ voice["reply"].ok /\ MayWait(line)
               THEN /\ line' = [line EXCEPT !.waiting = TRUE, !.fresh = FALSE, !.prompted = FALSE]
                    /\ timer' = IF timer \in {"none", "done"} THEN "running" ELSE timer
               ELSE UNCHANGED <<line, timer>>
    /\ UNCHANGED <<ears, silence, owner, heard, faults>>

\* Two seconds after the goodbye, whatever was said in them.
SaidGoodbye ==
    /\ reply.at = "bye"
    /\ ReplyEnds /\ line' = [line EXCEPT !.completed = TRUE]
    /\ UNCHANGED <<ears, silence, timer, owner, heard, faults>>

Replying == \/ \E text \in {"plain", "hold", "bye", "nothing"} : Answers(text)
            \/ ToolUse \/ FillerOver \/ ToolDone \/ ReplySpoken \/ SaidGoodbye \/ GreetingOver

------------------------------------------------------------------------------
(* Hearing *)

CallerActive(p) == [p EXCEPT !.last = "caller", !.fresh = TRUE, !.prompted = FALSE]

\* A caller who talks into a speech stops it, and what is queued at Twilio is cleared.
BargeIn(p) ==
    /\ line' = IF p.speaking THEN [p EXCEPT !.interrupt = TRUE] ELSE p
    /\ voice' = [s \in Speakers |-> IF p.speaking /\ lock = s THEN [voice[s] EXCEPT !.cut = TRUE] ELSE voice[s]]

\* A transcript: interim, a final segment, or the end of the utterance.
Hears(kind) ==
    /\ ears.at = "read" /\ line.connected /\ heard < MaxHeard
    /\ heard' = heard + 1
    /\ BargeIn(CallerActive(line))
    /\ ears' = [ears EXCEPT !.buffer = IF kind = "interim" THEN @ ELSE @ + 1,
                            !.at = CASE kind = "interim" -> "read"
                                     [] kind = "end" -> "flush"
                                     [] OTHER -> IF ears.buffer + 1 = MaxBuffer THEN "flush" ELSE "read"]
    /\ UNCHANGED <<lock, queue, reply, silence, desk, timer, owner, faults>>

\* UtteranceEnd, or an empty final segment.
UtteranceEnd ==
    /\ ears.at = "read" /\ ears.buffer > 0
    /\ ears' = [ears EXCEPT !.at = "flush"]
    /\ UNCHANGED <<line, lock, queue, reply, silence, desk, timer, voice, owner, heard, faults>>

\* _flush_utterance: a task of its own asks for the lock; an emergency starts the timer.
Flushes(urgent) ==
    /\ ears.at = "flush"
    /\ urgent => ~line.urgent
    /\ ears' = [ears EXCEPT !.at = "read", !.buffer = 0]
    /\ IF urgent THEN BargeIn([line EXCEPT !.urgent = TRUE]) ELSE UNCHANGED <<line, voice>>
    /\ timer' = IF urgent /\ timer \in {"none", "done"} THEN "running" ELSE timer
    /\ IF Free THEN lock' = "reply" /\ UNCHANGED queue /\ Wakes("reply")
       ELSE queue' = Append(queue, "reply") /\ UNCHANGED <<lock, reply, desk>>
    /\ UNCHANGED <<silence, owner, heard, faults>>

\* Thirty seconds without a message: another connection, twice at most.
DeepgramSilent(connects) ==
    /\ ears.at = "read" /\ line.connected /\ Fault
    /\ IF ears.reconnects = MaxReconnects \/ ~connects
       THEN ears' = [ears EXCEPT !.at = "ended"] /\ line' = [line EXCEPT !.completed = TRUE]
       ELSE ears' = [ears EXCEPT !.reconnects = @ + 1] /\ UNCHANGED line
    /\ UNCHANGED <<lock, queue, reply, silence, desk, timer, voice, owner, heard>>

\* A connection that is closed is not replaced.
DeepgramCloses ==
    /\ ears.at = "read" /\ Fault
    /\ ears' = [ears EXCEPT !.at = "ended"]
    /\ UNCHANGED <<line, lock, queue, reply, silence, desk, timer, voice, owner, heard>>

------------------------------------------------------------------------------
(* Silence *)

\* Kevin spoke last, and no owner is being looked for since.
WaitingOnCaller ==
    /\ line.last = "kevin" /\ ~line.speaking /\ Free
    /\ ~line.pending /\ (line.waiting => line.fresh)

SilenceSpeaks(text) ==
    /\ lock' = "silence" /\ UNCHANGED queue
    /\ voice' = Speech("silence", text) /\ line' = [Speaks(line) EXCEPT !.prompted = TRUE]

StillThere ==
    /\ silence = "watch" /\ line.connected /\ WaitingOnCaller /\ ~line.prompted
    /\ silence' = "prompt" /\ SilenceSpeaks("plain")
    /\ UNCHANGED <<ears, reply, desk, timer, owner, heard, faults>>

\* Seeded fault: the watchdog forgets that it asked.
PromptForgotten(p) == FALSE
\* Asked, unless the caller has answered meanwhile.
PromptStands(p) == p.prompted

Prompted ==
    /\ silence = "prompt" /\ voice["silence"].at = "over"
    /\ silence' = "watch"
    /\ voice' = [voice EXCEPT !["silence"] = Mute]
    /\ line' = [line EXCEPT !.prompted = PromptStands(line)]
    /\ Released /\ Wakes(Next1)
    /\ UNCHANGED <<ears, timer, owner, heard, faults>>

HangsUp ==
    /\ silence = "watch" /\ line.connected /\ WaitingOnCaller /\ line.prompted
    /\ silence' = "farewell" /\ SilenceSpeaks("bye")
    /\ UNCHANGED <<ears, reply, desk, timer, owner, heard, faults>>

FarewellOver ==
    /\ silence = "farewell" /\ voice["silence"].at = "over"
    /\ silence' = "goodbye"
    /\ voice' = [voice EXCEPT !["silence"] = Mute]
    /\ Released /\ Wakes(Next1)
    /\ UNCHANGED <<line, ears, timer, owner, heard, faults>>

HungUp ==
    /\ silence = "goodbye"
    /\ silence' = "ended" /\ line' = [line EXCEPT !.completed = TRUE]
    /\ UNCHANGED <<ears, lock, queue, reply, desk, timer, voice, owner, heard, faults>>

Silence == StillThere \/ Prompted \/ HangsUp \/ FarewellOver \/ HungUp

------------------------------------------------------------------------------
(* The owner's decision, and its delivery *)

\* The owner declines or picks up; a pickup ends the pipeline.
OwnerDecides ==
    /\ owner = "none" /\ line.connected
    /\ owner' \in {"requested", "accepted"}
    /\ UNCHANGED <<line, ears, lock, queue, reply, silence, desk, timer, voice, heard, faults>>

\* The owner did not answer in time.
TimerDecides ==
    /\ timer = "running" /\ line.connected
    /\ owner' = IF owner = "none" THEN "requested" ELSE owner
    /\ timer' = IF owner' = "requested" THEN "decided" ELSE "done"
    /\ UNCHANGED <<line, ears, lock, queue, reply, silence, desk, voice, heard, faults>>

\* consume_message_intent, one at a time: by the poll, or by the timer that decided.
Consumes(by) ==
    /\ desk.at = "idle" /\ owner = "requested" /\ line.connected
    /\ by = "timer" => timer = "decided"
    /\ timer' = IF by = "poll" /\ timer # "none" THEN "done" ELSE timer
    /\ IF Free THEN lock' = "desk" /\ UNCHANGED queue /\ desk' = [at |-> "guard", by |-> by]
       ELSE queue' = Append(queue, "desk") /\ UNCHANGED lock /\ desk' = [at |-> "lock", by |-> by]
    /\ line' = [line EXCEPT !.pending = TRUE]
    /\ UNCHANGED <<ears, reply, silence, voice, owner, heard, faults>>

\* Seeded fault: the lock is released whoever holds it.
LockIsOurs(d) == d.at # "none"
\* _transition_lock_held
HoldsLock(d) == d.at \in {"guard", "settle", "say"}

\* _finish_message_delivery_attempt: the lock goes back, whatever came of it.
Finishes ==
    /\ line' = [line EXCEPT !.pending = FALSE]
    /\ timer' = IF desk.by = "timer" /\ timer = "decided" THEN "done" ELSE timer
    /\ voice' = [voice EXCEPT !["desk"] = Mute]
    /\ Released
    /\ reply' = IF Next1 = "reply" THEN [at |-> "think", rounds |-> 0, text |-> "none"] ELSE reply
    /\ desk' = [at |-> "idle", by |-> "none"]

\* The guard with the lock in hand, then the grace, and an utterance that is being heard is let settle.
Prepares ==
    /\ desk.at = "guard"
    /\ IF line.connected /\ Authorised
       THEN desk' = [desk EXCEPT !.at = "settle"] /\ UNCHANGED <<line, lock, queue, reply, timer, voice>>
       ELSE Finishes
    /\ UNCHANGED <<ears, silence, owner, heard, faults>>

\* The instruction, unless it was given before.
Delivers ==
    /\ desk.at = "settle"
    /\ IF ~line.connected \/ ~Authorised THEN Finishes /\ UNCHANGED owner
       ELSE IF line.said THEN Finishes /\ owner' = "acked"
       ELSE /\ desk' = [desk EXCEPT !.at = "say"]
            /\ voice' = Speech("desk", "message") /\ line' = Speaks(line)
            /\ UNCHANGED <<lock, queue, reply, timer, owner>>
    /\ UNCHANGED <<ears, silence, heard, faults>>

\* Acknowledged when it was said, or had begun to be; the acknowledgment may fail.
Delivered ==
    /\ desk.at = "say" /\ voice["desk"].at = "over"
    /\ \/ owner' = (IF line.said /\ owner = "requested" THEN "acked" ELSE owner) /\ UNCHANGED faults
       \/ line.said /\ owner = "requested" /\ Fault /\ UNCHANGED owner
    /\ Finishes
    /\ UNCHANGED <<ears, silence, heard>>

Delivery == Prepares \/ Delivers \/ Delivered

\* The record of the call is gone, or the owner's answer is taken back.
RecordGoes ==
    /\ owner = "requested" /\ Fault
    /\ owner' = "gone"
    /\ UNCHANGED <<line, ears, lock, queue, reply, silence, desk, timer, voice, heard>>

\* stop(): the media stream is over. A reply that runs goes on to its next look.
Stops ==
    /\ line.connected \/ line.completed
    /\ ears.at # "stopped"
    /\ line' = [line EXCEPT !.connected = FALSE, !.interrupt = TRUE, !.pending = FALSE]
    /\ ears' = [ears EXCEPT !.at = "stopped"]
    /\ silence' = "ended" /\ timer' = "done" /\ desk' = [at |-> "idle", by |-> "none"]
    /\ voice' = [voice EXCEPT !["desk"] = Mute, !["silence"] = Mute]
    /\ LET waits == SelectSeq(queue, LAMBDA t : t # "desk")
           gone == HoldsLock(desk) \/ lock = "silence"
       IN  /\ lock' = IF ~gone THEN lock ELSE IF waits = <<>> THEN "free" ELSE Head(waits)
           /\ queue' = IF gone /\ waits # <<>> THEN Tail(waits) ELSE waits
           /\ reply' = IF gone /\ waits # <<>> THEN [at |-> "think", rounds |-> 0, text |-> "none"] ELSE reply
    /\ UNCHANGED <<owner, heard, faults>>

------------------------------------------------------------------------------
\* A pickup, or a completed call, closes the media stream.
CallEnds == (line.completed \/ owner = "accepted") /\ Stops

PipeNext ==
    \/ Speaking \/ (\E s \in Speakers : SpeechFails(s))
    \/ Replying \/ ClaudeFails \/ ToolFails
    \/ (\E kind \in {"interim", "part", "end"} : Hears(kind)) \/ UtteranceEnd
    \/ (\E urgent \in BOOLEAN : Flushes(urgent)) \/ (\E connects \in BOOLEAN : DeepgramSilent(connects)) \/ DeepgramCloses
    \/ Silence \/ OwnerDecides \/ TimerDecides \/ Consumes("poll") \/ Consumes("timer") \/ Delivery \/ RecordGoes
    \/ Stops

PipeSpec == PipeInit /\ [][PipeNext]_voices

\* A task that can go on does, a timer runs out, the poll sees the owner's word, and a call that is over is closed.
FlushRuns == \E urgent \in BOOLEAN : Flushes(urgent)
Polls == Consumes("poll") \/ Consumes("timer")
PipeFairSpec ==
    /\ PipeSpec
    /\ WF_voices(Speaking) /\ WF_voices(Replying) /\ WF_voices(FlushRuns)
    /\ WF_voices(Silence) /\ WF_voices(TimerDecides) /\ WF_voices(Polls) /\ WF_voices(Delivery) /\ WF_voices(CallEnds)

------------------------------------------------------------------------------
(* Properties *)

Texts == {"none", "plain", "hold", "bye", "message"}
PipeTypeOK ==
    /\ line \in [connected : BOOLEAN, speaking : BOOLEAN, interrupt : BOOLEAN, said : BOOLEAN, pending : BOOLEAN,
                 waiting : BOOLEAN, fresh : BOOLEAN, urgent : BOOLEAN,
                 last : {"none", "caller", "kevin"}, prompted : BOOLEAN, completed : BOOLEAN,
                 told : 0..2]
    /\ ears.at \in {"read", "flush", "ended", "stopped"} /\ ears.buffer \in 0..MaxBuffer /\ ears.reconnects \in 0..MaxReconnects
    /\ lock \in Speakers \cup {"free"} /\ queue \in Seq({"reply", "desk"})
    /\ reply.at \in {"none", "think", "filler", "tool", "speak", "bye"} /\ reply.text \in Texts
    /\ silence \in {"watch", "prompt", "farewell", "goodbye", "ended"}
    /\ desk.at \in {"idle", "lock", "guard", "settle", "say"} /\ timer \in {"none", "running", "decided", "done"}
    /\ \A s \in Speakers : voice[s].text \in Texts /\ voice[s].chunks \in 0..MaxChunks
    /\ owner \in {"none", "requested", "accepted", "acked", "gone"} /\ heard \in 0..MaxHeard /\ faults \in 0..MaxFaults

\* One task at a time speaks, and who speaks holds the lock, although the delivery takes it in one
\* coroutine and gives it back in another (_prepare_message_delivery, _finish_message_delivery_attempt).
OneVoice ==
    /\ \A s \in Speakers : voice[s].at # "none" => lock = s
    /\ lock = "desk" <=> desk.at \in {"guard", "settle", "say"}
    /\ (reply.at # "none") = (lock = "reply")

\* A caller is not told that the owner is being fetched once the owner's answer is being delivered
\* (the suppression in _speak and in _handle_caller_speech).
HoldOfferIsTimely ==
    [][\A s \in Speakers : voice[s].text = "hold" /\ voice[s].chunks = 0 /\ voice'[s].chunks = 1
          => ~line.pending /\ ~line.said]_voices

\* The instruction begins to sound once in a call, however often its delivery is retried (_unavailable_said).
InstructionSoundsOnce == line.told <= 1

\* A speech that the caller talked into gets no further chunk, if no guard stands between two (_speak).
CutSpeechEnds ==
    [][\A s \in Speakers \ Guarded : voice[s].cut /\ voice[s].chunks > 0 => voice'[s].chunks <= voice[s].chunks]_voices

\* A caller whom Kevin spoke to last, and who stays silent, is asked, and the call is ended if the
\* caller says nothing (_silence_check_loop).
CallerSilent == line.connected /\ WaitingOnCaller
CallerMinded == ~line.connected \/ line.completed \/ line.last = "caller" \/ line.pending \/ (line.waiting /\ ~line.fresh)
SilentCallerIsMinded == CallerSilent ~> CallerMinded
==============================================================================
