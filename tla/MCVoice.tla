-------------------------------- MODULE MCVoice --------------------------------
(***************************************************************************)
(* The pipelines that speak with a caller, on small instances: Gemini Live  *)
(* (GeminiCall), Twilio's ConversationRelay (RelayPipeline) and Deepgram     *)
(* with ElevenLabs (VoicePipeline). A call runs on one of them; the others   *)
(* stay as they began.                                                      *)
(***************************************************************************)
EXTENDS GeminiCall

CONSTANTS MaxPrompts, MaxFailures, MaxHeard, MaxBuffer, MaxChunks, MaxReconnects, MaxFaults, Spent

\* Two transcripts and no fault, or one of each.
OneOrTheOther == {<<0, 1>>, <<1, 0>>}

VARIABLES part, session, reply, streamed, delivery, hold, watchdog, idle, intent, prompts, failures, owed, unheeded,
          line, ears, lock, waiting, answer, silence, handover, timer, voice, owner, heard, faults

Relay == INSTANCE RelayPipeline
relay == <<session, reply, streamed, delivery, hold, watchdog, idle, intent, prompts, failures, owed, unheeded>>
Pipe == INSTANCE VoicePipeline WITH queue <- waiting, reply <- answer, desk <- handover
voices == <<line, ears, lock, waiting, answer, silence, handover, timer, voice, owner, heard, faults>>

VoiceInit ==
    /\ part \in {"gemini", "relay", "eleven"}
    /\ Init
    /\ part = "gemini" <=> cast # {}
    /\ Relay!RelayInit
    /\ Pipe!PipeInit
    /\ part # "eleven" => heard = 0

VoiceNext ==
    \/ part = "gemini" /\ Next /\ UNCHANGED <<part, relay, voices>>
    \/ part = "relay" /\ Relay!RelayNext /\ UNCHANGED <<part, vars, voices>>
    \/ part = "eleven" /\ Pipe!PipeNext /\ UNCHANGED <<part, vars, relay>>

VoiceSpec == VoiceInit /\ [][VoiceNext]_<<part, vars, relay, voices>>

(***************************************************************************)
(* The fairness of each pipeline. Nothing of a Gemini call can go on before *)
(* it starts, so it asks nothing of a history of another part; the other    *)
(* two run from the first state.                                            *)
(***************************************************************************)
OnRelay(A) == part = "relay" /\ A
OnEleven(A) == part = "eleven" /\ A
VoiceFairSpec ==
    /\ VoiceSpec
    /\ GeminiFairness
    /\ WF_relay(OnRelay(Relay!Replies)) /\ WF_relay(OnRelay(Relay!Consumes)) /\ WF_relay(OnRelay(Relay!Timer))
    /\ WF_relay(OnRelay(Relay!Watch)) /\ WF_relay(OnRelay(Relay!Tick))
    /\ WF_relay(OnRelay(Relay!OwnerSettles)) /\ WF_relay(OnRelay(Relay!CallCloses))
    /\ WF_voices(OnEleven(Pipe!Speaking)) /\ WF_voices(OnEleven(Pipe!Replying)) /\ WF_voices(OnEleven(Pipe!FlushRuns))
    /\ WF_voices(OnEleven(Pipe!Silence)) /\ WF_voices(OnEleven(Pipe!TimerDecides)) /\ WF_voices(OnEleven(Pipe!Polls))
    /\ WF_voices(OnEleven(Pipe!Delivery)) /\ WF_voices(OnEleven(Pipe!CallEnds))

\* The owner's clock runs from a hold the caller was offered, and Kevin is silent while the owner is
\* looked for (GeminiPipeline._pending_hold_offer_turns, RelayPipeline._maybe_start_owner_hold). On the
\* ElevenLabs pipeline one task speaks at a time, and an instruction begins to sound once.
HoldIsHonest ==
    /\ TypeOK /\ HoldWasHeard /\ Relay!RelayTypeOK /\ Relay!HoldIsSilent
    /\ Pipe!PipeTypeOK /\ Pipe!OneVoice /\ Pipe!InstructionSoundsOnce

\* Speech keeps its order: what was cut off stays cut off, the receipt follows the last frame, the
\* caller's held audio comes first, a goodbye ends the call only if nothing was said since, and who
\* spoke during the message instruction is answered (gemini_pipeline.py, relay_pipeline.py); the owner is
\* not offered once the owner's answer is being delivered (VoicePipeline._speak).
SpeechKeepsItsOrder ==
    /\ CutSpeechStaysCut /\ EndMarkFollowsLastFrame /\ HeldAudioComesFirst
    /\ Relay!GoodbyeIsUnanswered /\ Relay!MessageSpeakerIsAnswered
    /\ Pipe!HoldOfferIsTimely /\ Pipe!CutSpeechEnds

\* A lost session is replaced or the call given up, and a caller who spoke is spoken to,
\* and one who says nothing is asked and let go (GeminiPipeline._recover_receive_loop,
\* RelayPipeline._silence_watchdog_loop, VoicePipeline._silence_check_loop).
CallerIsNotLeft ==
    LET Waits == (part = "gemini" /\ pipe.reconnecting) \/ (part = "relay" /\ owed) \/ (part = "eleven" /\ Pipe!CallerSilent)
        Served == (part = "gemini" /\ RecoverySettled) \/ (part = "relay" /\ Relay!CallerHeard)
                  \/ (part = "eleven" /\ Pipe!CallerMinded)
    IN  Waits ~> Served
=============================================================================
