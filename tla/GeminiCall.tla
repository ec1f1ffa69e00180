------------------------------- MODULE GeminiCall -------------------------------
(***************************************************************************)
(* One call on the Gemini Live pipeline: the receive loop of each session,  *)
(* the paced player that sends the answer to Twilio, the recovery of a lost *)
(* session, the background tool batch, the silence watchdog and the message *)
(* delivery that an owner's decision starts.                                *)
(*                                                                          *)
(* All of them are tasks of one event loop, so a step runs from one await   *)
(* to the next. A frame of the answer stands for its audio, a caller frame  *)
(* for its number; the text of a turn is only told apart by what the code   *)
(* looks for in it. Live intake, which injects text and changes no state    *)
(* of the call, is left out.                                                *)
(***************************************************************************)
EXTENDS Integers, Sequences, FiniteSets

CONSTANTS
    Casts,          \* what may happen in a history, see Init
    None,
    MaxSessions,    \* MAX_RECONNECT_ATTEMPTS + 1
    MaxTurns,       \* answers Gemini begins
    MaxFrames,      \* frames of an answer
    MaxBacklog,     \* MAX_AUDIO_BACKLOG_BYTES, in frames
    MaxRecoveries,  \* MAX_AUDIO_BACKLOG_RECOVERIES
    MaxMic,         \* frames the caller sends
    MaxHeld,        \* MAX_RECONNECT_AUDIO_BUFFER_BYTES, in frames
    MaxWords,       \* times the caller speaks
    MaxDeliveries   \* attempts to deliver the message instruction

Sessions == 1..MaxSessions

ASSUME GeminiAssumption ==
    /\ MaxSessions \in Nat \ {0} /\ MaxBacklog \in Nat \ {0}
    /\ {MaxTurns, MaxFrames, MaxRecoveries, MaxMic, MaxHeld, MaxWords, MaxDeliveries} \subseteq Nat
    /\ None \notin Nat

VARIABLES
    pipe,       \* the flags of GeminiPipeline
    queue,      \* _audio_queue
    player,     \* _audio_playout_task
    loop,       \* the receive loop of each session
    gemini,     \* the other end of each session
    recovery,   \* _recover_receive_loop, and the caller audio it holds back
    tool, watch, desk,
    mic,        \* caller frames taken from the ingress queue
    call,       \* what became of the call at Twilio
    cut,        \* answers whose output was cleared (history)
    cast

tasks == <<player, loop, recovery, tool, watch, desk>>
vars == <<pipe, queue, tasks, gemini, mic, call, cut, cast>>

Init ==
    /\ cast \in Casts
    /\ pipe = [connected |-> FALSE, ready |-> FALSE, ws |-> 0, reconnecting |-> FALSE, attempts |-> 0,
               speaking |-> FALSE, interrupt |-> FALSE, epoch |-> 0, turn |-> 0, started |-> FALSE,
               generating |-> FALSE, suppressed |-> FALSE, asked |-> FALSE, pending |-> FALSE,
               allowed |-> FALSE, said |-> FALSE, overflowed |-> FALSE, recoveries |-> 0,
               firstSent |-> 0, endSent |-> 0, endMark |-> None, offered |-> FALSE, offers |-> {},
               waiting |-> FALSE, fresh |-> FALSE, last |-> "none", prompted |-> FALSE, text |-> "none"]
    /\ queue = <<>>
    /\ player = [at |-> "none", chunk |-> None]
    /\ loop = [s \in Sessions |-> "none"]
    /\ gemini = [s \in Sessions |-> [link |-> "none", owes |-> 0, turn |-> "none", id |-> 0, frames |-> 0, text |-> "none"]]
    /\ recovery = [at |-> "none", close |-> FALSE, held |-> <<>>, overflowed |-> FALSE, task |-> "none"]
    /\ tool = [at |-> "none", epoch |-> 0, session |-> 0, current |-> 0]
    /\ watch = "none"
    /\ desk = [at |-> "idle", round |-> 1, tries |-> 0]
    /\ mic = [taken |-> 0, expect |-> None, words |-> 0, turns |-> 0]
    /\ call = [fate |-> "live", knows |-> FALSE, stopped |-> FALSE, completed |-> 0, heard |-> {}]
    /\ cut = {}

-----------------------------------------------------------------------------
(* Shared by the tasks.                                                     *)

\* PublicDemoGeminiPipeline: a start buffer, no local pacing, and no second session.
Demo == "demo" \in cast

\* _audio_output_lock is held over a send to Twilio and over a remote clear.
OutputFree ==
    /\ player.at # "sending"
    /\ \A s \in Sessions : loop[s] \notin {"clearing", "overClearing"}
    /\ recovery.at # "clearing"

\* _inbound_audio_lock is held while the caller audio held back is replayed.
InputFree == recovery.at # "flush"

Busy == queue # <<>> \/ player.at \in {"took", "sending", "pace"}
TurnInProgress == pipe.generating \/ pipe.asked \/ Busy \/ pipe.speaking
SpeechStarted == TurnInProgress /\ pipe.turn > 0 /\ pipe.firstSent = pipe.turn
OldTurnOver == ~pipe.generating /\ ~pipe.asked
Usable(p) == p.connected /\ p.ws # 0

\* Kevin spoke last and nothing else is under way; an owner who is being asked buys silence.
WaitingOnCaller ==
    /\ pipe.last = "kevin"
    /\ ~pipe.speaking /\ ~pipe.asked /\ ~pipe.pending
    /\ pipe.waiting => pipe.fresh

CallerActive(p) == [p EXCEPT !.last = "caller", !.fresh = TRUE, !.prompted = FALSE]
ResetMetrics(p) == [p EXCEPT !.started = FALSE]
\* Clearing the queue forgets the marks and hold offers that were waiting for it.
Cleared(p) == [p EXCEPT !.endMark = None, !.offers = {}, !.speaking = FALSE]

OfferHold(p) ==
    IF ~p.connected \/ p.said \/ p.pending THEN [p EXCEPT !.offered = TRUE]
    ELSE [p EXCEPT !.offered = TRUE, !.waiting = TRUE, !.fresh = FALSE, !.prompted = FALSE]
FinishWait(p) == [p EXCEPT !.waiting = FALSE, !.prompted = FALSE]

\* A cancelled batch never answers: its epoch is over.
InvalidateTool == tool' = [tool EXCEPT !.current = @ + 1, !.at = "none"]

\* on_call_complete: Twilio is told to hang up unless the stream's stop said the owner has the call.
Complete(c) ==
    IF c.knows THEN [c EXCEPT !.completed = @ + 1]
    ELSE [c EXCEPT !.fate = "hungup", !.completed = @ + 1]

LinkUp(s) == gemini[s].link = "open"
\* A text instruction that ends the turn asks Gemini for one more answer.
Instruct(s) == gemini' = [gemini EXCEPT ![s].owes = @ + 1]

\* The answers whose frames may still be about.
Answers == {queue[i].id : i \in DOMAIN queue} \cup {gemini[s].id : s \in {r \in Sessions : gemini[r].turn # "none"}}

\* Seeded fault: the end of the turn is taken for the end of its audio.
EndMarkAtOnce(p, q) == p.endMark # None /\ p.endMark[2] = p.epoch /\ ~p.interrupt

EndMarkDue(p, q) ==
    /\ p.endMark # None /\ p.endMark[2] = p.epoch
    /\ ~p.interrupt /\ ~p.speaking /\ q = <<>>
SendEndMark(p, q) == IF EndMarkDue(p, q) THEN [p EXCEPT !.endSent = p.endMark[1], !.endMark = None] ELSE p

-----------------------------------------------------------------------------
(* The stream opens, and Twilio's side of the call.                         *)

\* start: the session answers the setup, its loop and the background tasks begin.
Starts ==
    /\ pipe.ws = 0 /\ ~pipe.ready /\ call.fate = "live"
    /\ pipe' = [pipe EXCEPT !.connected = TRUE, !.ready = TRUE, !.ws = 1]
    /\ gemini' = [gemini EXCEPT ![1].link = "open", ![1].owes = 1]
    /\ loop' = [loop EXCEPT ![1] = "read"]
    /\ player' = [player EXCEPT !.at = "idle"]
    /\ watch' = IF "quiet" \in cast THEN "watch" ELSE "none"
    /\ UNCHANGED <<queue, recovery, tool, desk, mic, call, cut, cast>>

OwnerPicksUp ==
    /\ "owner" \in cast /\ pipe.ready /\ call.fate = "live"
    /\ call' = [call EXCEPT !.fate = "redirected"]
    /\ UNCHANGED <<pipe, queue, tasks, gemini, mic, cut, cast>>

\* on_stream_stop reads whether the owner accepted; then stop cancels every task.
StreamStops ==
    /\ pipe.ready /\ call.fate # "live" /\ ~call.stopped
    /\ call' = [call EXCEPT !.stopped = TRUE, !.knows = call.fate = "redirected"]
    /\ pipe' = Cleared([ResetMetrics(pipe) EXCEPT !.connected = FALSE, !.reconnecting = FALSE, !.interrupt = TRUE,
                            !.suppressed = FALSE, !.generating = FALSE, !.asked = FALSE, !.pending = FALSE, !.allowed = FALSE])
    /\ queue' = <<>>
    /\ player' = [at |-> "ended", chunk |-> None]
    /\ loop' = [s \in Sessions |-> IF loop[s] = "none" THEN "none" ELSE "ended"]
    /\ recovery' = [recovery EXCEPT !.at = "none", !.held = <<>>, !.overflowed = FALSE, !.task = "none"]
    /\ InvalidateTool
    /\ watch' = "ended"
    /\ desk' = [desk EXCEPT !.at = IF @ = "done" THEN @ ELSE "stopped"]
    /\ gemini' = [s \in Sessions |-> [gemini[s] EXCEPT !.link = IF @ = "none" THEN @ ELSE "closed"]]
    /\ UNCHANGED <<mic, cut, cast>>

-----------------------------------------------------------------------------
(* What the receive loop of session s reads.                                *)

\* A session that broke or is being closed still hands out what had arrived.
Reads(s) == loop[s] = "read" /\ gemini[s].link \in {"open", "broken", "closing"} /\ pipe.connected

\* Input transcription; what the caller says wants an answer.
Hear(s) ==
    /\ "talk" \in cast /\ Reads(s) /\ mic.words < MaxWords /\ gemini[s].turn = "none"
    /\ pipe' = CallerActive(pipe)
    /\ gemini' = [gemini EXCEPT ![s].owes = @ + 1]
    /\ mic' = [mic EXCEPT !.words = @ + 1]
    /\ UNCHANGED <<queue, tasks, call, cut, cast>>

\* serverContent.interrupted, with the caller's words.
BargeIn(s) ==
    /\ "barge" \in cast /\ Reads(s) /\ mic.words < MaxWords /\ gemini[s].turn = "talk"
    /\ InvalidateTool
    /\ pipe' = [CallerActive(pipe) EXCEPT !.interrupt = TRUE, !.epoch = @ + 1, !.endMark = None, !.asked = FALSE,
                    !.generating = FALSE, !.suppressed = FALSE, !.text = "none"]
    /\ loop' = [loop EXCEPT ![s] = "cut"]
    /\ gemini' = [gemini EXCEPT ![s].turn = "cut", ![s].owes = @ + 1]
    /\ mic' = [mic EXCEPT !.words = @ + 1]
    /\ UNCHANGED <<queue, player, recovery, watch, desk, call, cut, cast>>

ClearsFor(s, at, next) ==
    /\ loop[s] = at /\ OutputFree
    /\ queue' = <<>>
    /\ pipe' = Cleared(pipe)
    /\ loop' = [loop EXCEPT ![s] = next]
    /\ cut' = cut \cup Answers
    /\ UNCHANGED <<player, recovery, tool, watch, desk, gemini, mic, call, cast>>

BargeInClears(s) == ClearsFor(s, "cut", "clearing")
OverflowClears(s) == ClearsFor(s, "over", "overClearing")

\* The transport took the clear frame, or refused it: the loop goes on.
RemoteCleared(s) ==
    /\ loop[s] \in {"clearing", "overClearing"}
    /\ loop' = [loop EXCEPT ![s] = "read"]
    /\ UNCHANGED <<pipe, queue, player, recovery, tool, watch, desk, gemini, mic, call, cut, cast>>

\* An answer that must not be heard: the message has to come first.
Suppresses(p) == p.suppressed \/ (p.pending /\ ~p.said /\ ~p.allowed /\ ~p.started)

BeginTurn(p) == IF p.started THEN p ELSE [p EXCEPT !.turn = @ + 1, !.started = TRUE]

\* Text is only kept when its audio may be heard.
KeepText(p, t) == IF p.interrupt \/ Suppresses(p) THEN p ELSE [p EXCEPT !.text = t]

\* Gemini begins an answer it owes, or goes on with one.
Talks(s, t, id) ==
    LET g == gemini[s] IN
    \/ /\ g.turn = "none" /\ g.owes > 0 /\ mic.turns < MaxTurns /\ id = mic.turns + 1
       /\ t \in {"talk"} \cup (IF "hold" \in cast THEN {"hold"} ELSE {}) \cup (IF "bye" \in cast THEN {"bye"} ELSE {})
       /\ gemini' = [gemini EXCEPT ![s] = [g EXCEPT !.turn = "talk", !.owes = @ - 1, !.id = id, !.frames = 1, !.text = t]]
       /\ mic' = [mic EXCEPT !.turns = id]
    \/ /\ g.turn \in {"talk", "cut"} /\ g.frames < MaxFrames /\ t = g.text /\ id = g.id
       /\ gemini' = [gemini EXCEPT ![s].frames = @ + 1]
       /\ UNCHANGED mic

\* modelTurn with audio: dropped, queued for the player, or too much.
Frame(s) == \E t \in {"talk", "hold", "bye"}, id \in 1..MaxTurns :
    /\ Reads(s) /\ Talks(s, t, id)
    /\ LET p == [pipe EXCEPT !.generating = TRUE] IN
       IF Suppresses(p)
       THEN /\ pipe' = [p EXCEPT !.suppressed = TRUE]
            /\ UNCHANGED <<queue, loop>>
       ELSE LET b == BeginTurn(p) IN
            IF b.overflowed THEN pipe' = KeepText(b, t) /\ UNCHANGED <<queue, loop>>
            ELSE IF Len(queue) + 1 > MaxBacklog
            THEN /\ pipe' = [b EXCEPT !.overflowed = TRUE, !.interrupt = TRUE, !.epoch = @ + 1]
                 /\ loop' = [loop EXCEPT ![s] = "over"]
                 /\ UNCHANGED queue
            ELSE /\ pipe' = KeepText(b, t)
                 /\ queue' = Append(queue, [epoch |-> b.epoch, turn |-> b.turn, id |-> id, session |-> s, text |-> t])
                 /\ UNCHANGED loop
    /\ UNCHANGED <<player, recovery, tool, watch, desk, call, cut, cast>>

Recoverable(p) == p.recoveries < MaxRecoveries

\* The answer was too long to play: ask for a shorter one, once.
AfterOverflow(s, p) ==
    IF Recoverable(p)
    THEN /\ pipe' = [p EXCEPT !.overflowed = FALSE, !.recoveries = @ + 1, !.asked = Usable(p)]
         /\ loop' = [loop EXCEPT ![s] = "read"]
         /\ gemini' = IF Usable(p) THEN [gemini EXCEPT ![p.ws].owes = @ + 1, ![s].turn = "none"]
                      ELSE [gemini EXCEPT ![s].turn = "none"]
         /\ UNCHANGED call
    ELSE /\ pipe' = [p EXCEPT !.overflowed = FALSE]
         /\ loop' = [loop EXCEPT ![s] = "ended"]
         /\ gemini' = [gemini EXCEPT ![s].turn = "none"]
         /\ call' = Complete(call)

\* Asking for a receipt of the turn that just ended.
ArmEndMark(p) == IF p.started /\ p.turn > p.endSent THEN [p EXCEPT !.endMark = <<p.turn, p.epoch>>] ELSE p

\* Seeded fault: an offer counts as soon as its text is complete.
FlushKevinEagerly(p) ==
    IF p.text = "none" THEN p
    ELSE LET q == [p EXCEPT !.text = "none", !.last = "kevin"] IN
         IF p.text # "hold" \/ p.said \/ ~p.started THEN q ELSE OfferHold(q)

\* _flush_kevin_transcript: what Kevin said counts, a hold offer from its first heard frame on.
FlushKevin(p) ==
    IF p.text = "none" THEN p
    ELSE LET q == [p EXCEPT !.text = "none", !.last = "kevin"] IN
         IF p.text # "hold" \/ p.said \/ ~p.started THEN q
         ELSE IF p.turn = p.firstSent THEN OfferHold(q)
         ELSE [q EXCEPT !.offers = @ \cup {<<p.epoch, p.turn>>}]

\* turnComplete.
TurnEnds(s) ==
    /\ Reads(s) /\ gemini[s].turn # "none"
    /\ LET p == [pipe EXCEPT !.generating = FALSE]
           Waits(q, at) ==
               /\ pipe' = [q EXCEPT !.text = "none"]
               /\ loop' = [loop EXCEPT ![s] = at]
               /\ gemini' = [gemini EXCEPT ![s].turn = "none"]
               /\ UNCHANGED call
       IN IF p.suppressed THEN Waits([p EXCEPT !.suppressed = FALSE], "drop")
          ELSE IF p.interrupt THEN Waits([p EXCEPT !.epoch = @ + 1], "cutEnd")
          ELSE IF p.overflowed THEN AfterOverflow(s, [p EXCEPT !.asked = FALSE])
          ELSE /\ pipe' = SendEndMark(ResetMetrics(FlushKevin(ArmEndMark([p EXCEPT !.asked = FALSE]))), queue)
               /\ loop' = [loop EXCEPT ![s] = IF p.text = "bye" THEN "bye" ELSE "read"]
               /\ gemini' = [gemini EXCEPT ![s].turn = "none"]
               /\ UNCHANGED call
    /\ UNCHANGED <<queue, player, recovery, tool, watch, desk, mic, cut, cast>>

\* The end of a suppressed answer.
DropEnds(s) ==
    /\ loop[s] = "drop" /\ OutputFree
    /\ queue' = <<>>
    /\ pipe' = ResetMetrics([Cleared(pipe) EXCEPT !.asked = FALSE])
    /\ loop' = [loop EXCEPT ![s] = "read"]
    /\ UNCHANGED <<player, recovery, tool, watch, desk, gemini, mic, call, cut, cast>>

\* The end of an answer that was cut off: what came after the cut goes too.
CutEnds(s) ==
    /\ loop[s] = "cutEnd" /\ OutputFree
    /\ queue' = <<>>
    /\ LET p == ResetMetrics([Cleared(pipe) EXCEPT !.interrupt = FALSE, !.asked = FALSE]) IN
       IF p.overflowed THEN AfterOverflow(s, p)
       ELSE /\ pipe' = p
            /\ loop' = [loop EXCEPT ![s] = "read"]
            /\ UNCHANGED <<gemini, call>>
    /\ UNCHANGED <<player, recovery, tool, watch, desk, mic, cut, cast>>

\* Kevin said goodbye: the loop waits for the playout, or 6 s, and hangs up.
SaidGoodbye(s) ==
    /\ loop[s] = "bye"
    /\ loop' = [loop EXCEPT ![s] = "ended"]
    /\ call' = Complete(call)
    /\ UNCHANGED <<pipe, queue, player, recovery, tool, watch, desk, gemini, mic, cut, cast>>

-----------------------------------------------------------------------------
(* The player.                                                              *)

\* The end of one frame: an empty queue ends Kevin's turn at speaking.
FrameDone(p, sent) ==
    IF queue # <<>> THEN p
    ELSE LET q == [p EXCEPT !.speaking = FALSE] IN
         IF sent /\ ~q.interrupt /\ player.chunk.epoch = q.epoch THEN SendEndMark([q EXCEPT !.last = "kevin"], queue) ELSE q

\* Seeded fault: the player trusts the epoch alone.
InItsEpoch(p, chunk) == chunk.epoch = p.epoch

\* A frame is sent only in the epoch it was queued in.
MayPlay(p, chunk) == ~p.interrupt /\ chunk.epoch = p.epoch

Decide(chunk, q) ==
    /\ queue' = q
    /\ IF MayPlay(pipe, chunk)
       THEN pipe' = [pipe EXCEPT !.speaking = TRUE] /\ player' = [at |-> "sending", chunk |-> chunk]
       ELSE /\ pipe' = IF q = <<>> THEN [pipe EXCEPT !.speaking = FALSE] ELSE pipe
            /\ player' = [at |-> "idle", chunk |-> None]

\* The first frame of an answer waits for AUDIO_START_BUFFER_SECONDS.
Buffers(chunk) == Demo /\ chunk.turn > pipe.firstSent

Take ==
    /\ player.at = "idle" /\ pipe.connected /\ queue # <<>>
    /\ IF OutputFree /\ ~Buffers(Head(queue)) THEN Decide(Head(queue), Tail(queue))
       ELSE /\ player' = [at |-> "took", chunk |-> Head(queue)]
            /\ queue' = Tail(queue)
            /\ UNCHANGED pipe
    /\ UNCHANGED <<loop, recovery, tool, watch, desk, gemini, mic, call, cut, cast>>

Plays ==
    /\ player.at = "took" /\ OutputFree
    /\ Decide(player.chunk, queue)
    /\ UNCHANGED <<loop, recovery, tool, watch, desk, gemini, mic, call, cut, cast>>

\* Seeded fault: the mark of the first frame is set one turn ahead.
FirstMediaOfTheTurn(p, chunk) ==
    IF chunk.turn <= p.firstSent THEN p ELSE [p EXCEPT !.firstSent = chunk.turn + 1]

\* The first frame of a turn starts the hold its text offered.
FirstMedia(p, chunk) ==
    IF chunk.turn <= p.firstSent THEN p
    ELSE LET q == [p EXCEPT !.firstSent = chunk.turn, !.offers = @ \ {<<chunk.epoch, chunk.turn>>}] IN
         IF <<chunk.epoch, chunk.turn>> \in p.offers /\ ~p.said THEN OfferHold(q) ELSE q

NextFrame == [at |-> IF pipe.connected THEN "idle" ELSE "ended", chunk |-> None]

Sent ==
    /\ player.at = "sending"
    /\ IF Demo
       THEN pipe' = FrameDone(FirstMedia(pipe, player.chunk), TRUE) /\ player' = NextFrame
       ELSE pipe' = FirstMedia(pipe, player.chunk) /\ player' = [player EXCEPT !.at = "pace"]
    /\ call' = [call EXCEPT !.heard = @ \cup {player.chunk.text}]
    /\ UNCHANGED <<queue, loop, recovery, tool, watch, desk, gemini, mic, cut, cast>>

\* Twilio refused the frame: nobody is there to hear the rest.
SendFails ==
    /\ "break" \in cast /\ player.at = "sending"
    /\ pipe' = FrameDone([pipe EXCEPT !.connected = FALSE], FALSE)
    /\ player' = [at |-> "ended", chunk |-> None]
    /\ call' = Complete(call)
    /\ UNCHANGED <<queue, loop, recovery, tool, watch, desk, gemini, mic, cut, cast>>

Paced ==
    /\ player.at = "pace"
    /\ pipe' = FrameDone(pipe, TRUE)
    /\ player' = NextFrame
    /\ UNCHANGED <<queue, loop, recovery, tool, watch, desk, gemini, mic, call, cut, cast>>

-----------------------------------------------------------------------------
(* Losing the session.                                                      *)

Breaks(s) ==
    /\ "break" \in cast /\ LinkUp(s)
    /\ gemini' = [gemini EXCEPT ![s].link = "broken"]
    /\ UNCHANGED <<pipe, queue, tasks, mic, call, cut, cast>>

\* At most one recovery is scheduled from the audio path or a tool batch.
Schedule(r) == IF pipe.connected /\ r.task = "none" THEN [r EXCEPT !.task = "due"] ELSE r

MayRecover == pipe.connected /\ ~pipe.reconnecting

\* What a recovery invalidates before it waits for the output lock.
Enter(close, task) ==
    /\ pipe' = ResetMetrics([pipe EXCEPT !.reconnecting = TRUE, !.interrupt = TRUE, !.epoch = @ + 1, !.asked = FALSE,
                    !.suppressed = FALSE, !.generating = FALSE, !.allowed = FALSE, !.text = "none"])
    /\ recovery' = [recovery EXCEPT !.at = "clear", !.close = close, !.task = task]
    /\ mic' = [mic EXCEPT !.expect = mic.taken + 1]
    /\ InvalidateTool

\* The loop finds its session gone; it recovers unless somebody else does.
LoopFails(s) ==
    /\ loop[s] = "read" /\ gemini[s].link \in {"broken", "closed"} /\ InputFree
    /\ loop' = [loop EXCEPT ![s] = IF MayRecover THEN "recovers" ELSE "ended"]
    /\ IF MayRecover THEN Enter(FALSE, recovery.task) ELSE UNCHANGED <<pipe, recovery, mic, tool>>
    /\ UNCHANGED <<queue, player, watch, desk, gemini, call, cut, cast>>

\* A session we closed normally just ends the loop.
LoopEnds(s) ==
    /\ loop[s] = "read" /\ gemini[s].link = "closed"
    /\ loop' = [loop EXCEPT ![s] = "ended"]
    /\ UNCHANGED <<pipe, queue, player, recovery, tool, watch, desk, gemini, mic, call, cut, cast>>

TaskRecovers ==
    /\ recovery.task = "due" /\ InputFree /\ MayRecover
    /\ Enter(TRUE, "runs")
    /\ UNCHANGED <<queue, player, loop, watch, desk, gemini, call, cut, cast>>

\* Somebody else recovers, or nothing is left to recover.
TaskYields ==
    /\ recovery.task = "due" /\ InputFree /\ ~MayRecover
    /\ recovery' = [recovery EXCEPT !.task = "none"]
    /\ UNCHANGED <<pipe, queue, player, loop, tool, watch, desk, gemini, mic, call, cut, cast>>

RecoveryClears ==
    /\ recovery.at = "clear" /\ OutputFree
    /\ queue' = <<>>
    /\ pipe' = Cleared(pipe)
    /\ cut' = cut \cup Answers
    /\ recovery' = [recovery EXCEPT !.at = "clearing"]
    /\ UNCHANGED <<player, loop, tool, watch, desk, gemini, mic, call, cast>>

\* The recovery is over: its loop ends, and so does its task.
Over(r) == [r EXCEPT !.at = "none", !.held = <<>>, !.overflowed = FALSE, !.task = IF @ = "runs" THEN "none" ELSE @]
LoopsOver == [s \in Sessions |-> IF loop[s] = "recovers" THEN "ended" ELSE loop[s]]

\* Seeded fault: the pipeline gives up and tells nobody.
GiveUpQuietly(p) ==
    /\ pipe' = [p EXCEPT !.connected = FALSE, !.reconnecting = FALSE]
    /\ recovery' = Over(recovery)
    /\ loop' = LoopsOver
    /\ UNCHANGED call

\* _complete_after_receive_failure, and the audio held back is discarded.
GiveUp(p) ==
    /\ pipe' = [p EXCEPT !.connected = FALSE, !.reconnecting = FALSE]
    /\ call' = Complete(call)
    /\ recovery' = Over(recovery)
    /\ loop' = LoopsOver

\* One bounded attempt.
Attempt(p) ==
    IF Demo \/ p.attempts + 1 > MaxSessions - 1 THEN GiveUp(p)
    ELSE /\ pipe' = [p EXCEPT !.attempts = @ + 1]
         /\ recovery' = [recovery EXCEPT !.at = "connect"]
         /\ UNCHANGED <<call, loop>>

RecoveryCleared ==
    /\ recovery.at = "clearing"
    /\ LET p == [pipe EXCEPT !.interrupt = FALSE, !.ws = 0] IN
       IF recovery.close /\ pipe.ws # 0
       THEN /\ pipe' = p
            /\ recovery' = [recovery EXCEPT !.at = "closing"]
            /\ gemini' = [gemini EXCEPT ![pipe.ws].link = "closing"]
            /\ UNCHANGED <<call, loop>>
       ELSE Attempt(p) /\ UNCHANGED gemini
    /\ UNCHANGED <<queue, player, tool, watch, desk, mic, cut, cast>>

RecoveryClosed ==
    /\ recovery.at = "closing"
    /\ gemini' = [s \in Sessions |-> [gemini[s] EXCEPT !.link = IF @ = "closing" THEN "closed" ELSE @]]
    /\ Attempt(pipe)
    /\ UNCHANGED <<queue, player, tool, watch, desk, mic, cut, cast>>

\* A task that only waits for the output lock runs before a connection is made.
NobodyReady == OutputFree => \A s \in Sessions : loop[s] \notin {"cut", "over", "drop", "cutEnd"}

Connects ==
    /\ recovery.at = "connect" /\ NobodyReady
    /\ pipe' = [pipe EXCEPT !.ws = pipe.attempts + 1]
    /\ gemini' = [gemini EXCEPT ![pipe.attempts + 1].link = "open"]
    /\ recovery' = [recovery EXCEPT !.at = "setup"]
    /\ UNCHANGED <<queue, player, loop, tool, watch, desk, mic, call, cut, cast>>

SetupDone ==
    /\ recovery.at = "setup" /\ LinkUp(pipe.ws) /\ ~recovery.overflowed
    /\ pipe' = [pipe EXCEPT !.connected = TRUE]
    /\ loop' = [loop EXCEPT ![pipe.ws] = "read"]
    /\ player' = IF player.at = "ended" THEN [at |-> "idle", chunk |-> None] ELSE player
    /\ recovery' = [recovery EXCEPT !.at = "flush"]
    /\ UNCHANGED <<queue, tool, watch, desk, gemini, mic, call, cut, cast>>

\* The connection or its setup failed, or too much was said meanwhile.
RecoveryFails ==
    /\ recovery.at \in {"connect", "setup"}
    /\ gemini' = IF pipe.ws = 0 THEN gemini ELSE [gemini EXCEPT ![pipe.ws].link = "closed"]
    /\ GiveUp([pipe EXCEPT !.ws = 0])
    /\ UNCHANGED <<queue, player, tool, watch, desk, mic, cut, cast>>

-----------------------------------------------------------------------------
(* Caller audio. A frame is n, the n-th the pipeline was given.             *)

\* The frames Gemini hears after a recovery began are those that came since, in order.
Forwarded(n) == mic' = [mic EXCEPT !.taken = IF n > @ THEN n ELSE @, !.expect = IF @ = None THEN None ELSE n + 1]

\* Seeded fault: a full buffer forgets the newest frame and says nothing.
HoldSome(r, n) == IF Len(r.held) + 1 > MaxHeld THEN r ELSE [r EXCEPT !.held = Append(@, n)]

\* A buffer that overflowed holds nothing more: the recovery will be given up.
Hold(r, n) ==
    IF r.overflowed THEN r
    ELSE IF Len(r.held) + 1 > MaxHeld THEN [r EXCEPT !.overflowed = TRUE, !.held = <<>>]
    ELSE [r EXCEPT !.held = Append(@, n)]

\* process_audio_in: to the session, behind the lock, or into the recovery's buffer.
Mic ==
    /\ "mic" \in cast /\ pipe.ready /\ ~call.stopped /\ mic.taken < MaxMic
    /\ IF pipe.connected THEN InputFree ELSE TRUE
    /\ LET n == mic.taken + 1 IN
       IF ~pipe.connected \/ (~pipe.reconnecting /\ pipe.ws = 0)
       THEN mic' = [mic EXCEPT !.taken = n] /\ UNCHANGED recovery
       ELSE IF pipe.reconnecting
       THEN /\ mic' = [mic EXCEPT !.taken = n]
            /\ recovery' = Hold(recovery, n)
       ELSE IF LinkUp(pipe.ws) THEN Forwarded(n) /\ UNCHANGED recovery
       ELSE /\ mic' = [mic EXCEPT !.taken = n, !.expect = None]
            /\ recovery' = Schedule(recovery)
    /\ UNCHANGED <<pipe, queue, player, loop, tool, watch, desk, gemini, call, cut, cast>>

\* _flush_reconnect_audio, one frame after another, before any new one.
Replay ==
    /\ recovery.at = "flush" /\ recovery.held # <<>> /\ LinkUp(pipe.ws)
    /\ Forwarded(Head(recovery.held))
    /\ recovery' = [recovery EXCEPT !.held = Tail(@)]
    /\ UNCHANGED <<pipe, queue, player, loop, tool, watch, desk, gemini, call, cut, cast>>

ReplayFails ==
    /\ recovery.at = "flush" /\ recovery.held # <<>> /\ ~LinkUp(pipe.ws)
    /\ gemini' = [gemini EXCEPT ![pipe.ws].link = "closed"]
    /\ GiveUp([pipe EXCEPT !.ws = 0])
    /\ UNCHANGED <<queue, player, tool, watch, desk, mic, cut, cast>>

Recovered ==
    /\ recovery.at = "flush" /\ recovery.held = <<>>
    /\ pipe' = [pipe EXCEPT !.reconnecting = FALSE]
    /\ recovery' = Over(recovery)
    /\ loop' = LoopsOver
    /\ UNCHANGED <<queue, player, tool, watch, desk, gemini, mic, call, cut, cast>>

-----------------------------------------------------------------------------
(* Tools. A batch answers the session that asked, in the epoch it asked in. *)

ToolCall(s) ==
    /\ "tool" \in cast /\ Reads(s) /\ gemini[s].turn = "none" /\ gemini[s].owes > 0 /\ pipe.ws # 0
    /\ LET epoch == IF tool.at = "runs" THEN tool.current + 1 ELSE tool.current IN
       tool' = [at |-> "runs", epoch |-> epoch, session |-> pipe.ws, current |-> epoch]
    /\ gemini' = [gemini EXCEPT ![s].owes = @ - 1]
    /\ UNCHANGED <<pipe, queue, player, loop, recovery, watch, desk, mic, call, cut, cast>>

Stale(t) == t.epoch # t.current \/ t.session # pipe.ws \/ ~pipe.connected \/ pipe.reconnecting

\* The batch is done, its calls answered or timed out.
ToolDone ==
    /\ tool.at = "runs"
    /\ tool' = [tool EXCEPT !.at = "none"]
    /\ IF Stale(tool) THEN UNCHANGED <<gemini, recovery>>
       ELSE IF LinkUp(tool.session)
       THEN gemini' = [gemini EXCEPT ![tool.session].owes = @ + 1] /\ UNCHANGED recovery
       ELSE recovery' = Schedule(recovery) /\ UNCHANGED gemini
    /\ UNCHANGED <<pipe, queue, player, loop, watch, desk, mic, call, cut, cast>>

-----------------------------------------------------------------------------
(* The silence watchdog.                                                    *)

\* _send_client_instruction: Gemini is asked, or the send raises and nothing is pending.
Asks(p, failed) ==
    IF LinkUp(p.ws) THEN pipe' = [p EXCEPT !.asked = TRUE] /\ Instruct(p.ws)
    ELSE pipe' = [p EXCEPT !.asked = FALSE] /\ failed /\ UNCHANGED gemini

\* Ten silent seconds. The watchdog does not outlive a send that raises.
StillThere ==
    /\ watch = "watch" /\ pipe.connected /\ WaitingOnCaller /\ ~pipe.prompted /\ pipe.ws # 0
    /\ Asks([pipe EXCEPT !.prompted = TRUE], watch' = "dead")
    /\ LinkUp(pipe.ws) => UNCHANGED watch
    /\ UNCHANGED <<queue, player, loop, recovery, tool, desk, mic, call, cut, cast>>

\* Ten more: goodbye. Without a session the watchdog just ends.
HangUp ==
    /\ watch = "watch" /\ pipe.connected /\ WaitingOnCaller /\ pipe.prompted
    /\ IF pipe.ws = 0 THEN watch' = "ended" /\ UNCHANGED <<pipe, gemini>>
       ELSE /\ Asks(pipe, watch' = "dead")
            /\ LinkUp(pipe.ws) => watch' = "goodbye"
    /\ UNCHANGED <<queue, player, loop, recovery, tool, desk, mic, call, cut, cast>>

HungUp ==
    /\ watch = "goodbye"
    /\ watch' = "ended"
    /\ call' = Complete(call)
    /\ UNCHANGED <<pipe, queue, player, loop, recovery, tool, desk, gemini, mic, cut, cast>>

-----------------------------------------------------------------------------
(* Delivering the message instruction.                                      *)

\* The guard of an attempt: the owner has not taken the call.
Guard == call.fate # "redirected"

\* Waits for an answer the caller already hears, suppresses one that has not begun to sound.
Boundary(p, round, free) ==
    LET To(at) == desk' = [desk EXCEPT !.at = at, !.round = round, !.tries = IF desk.at \in {"idle", "failed"} THEN @ + 1 ELSE @] IN
    IF SpeechStarted THEN To("settle") /\ pipe' = p
    ELSE IF TurnInProgress
    THEN To("drop") /\ pipe' = [p EXCEPT !.suppressed = TRUE, !.epoch = @ + 1, !.text = "none"]
    ELSE To(free) /\ pipe' = p

\* _finish_message_delivery_attempt.
Finish(p, at) ==
    /\ pipe' = [p EXCEPT !.pending = FALSE, !.allowed = FALSE]
    /\ desk' = [desk EXCEPT !.at = at]

Active == {"settle", "drop", "oldturn", "grace", "deliver", "send"}

\* The owner declined, or the wait for an answer ran out.
DeliveryBegins ==
    /\ "desk" \in cast /\ pipe.ready /\ ~call.stopped
    /\ desk.at \in {"idle", "failed"} /\ desk.tries < MaxDeliveries /\ Usable(pipe)
    /\ Boundary([pipe EXCEPT !.pending = TRUE], 1, "grace")
    /\ UNCHANGED <<queue, player, loop, recovery, tool, watch, gemini, mic, call, cut, cast>>

\* The first clearing also ends the turn for the player; the second leaves it to turnComplete.
DeliveryDrops ==
    /\ desk.at = "drop" /\ OutputFree
    /\ queue' = <<>>
    /\ pipe' = IF desk.round = 1 THEN ResetMetrics(Cleared(pipe)) ELSE Cleared(pipe)
    /\ cut' = cut \cup Answers
    /\ desk' = [desk EXCEPT !.at = "oldturn"]
    /\ UNCHANGED <<player, loop, recovery, tool, watch, gemini, mic, call, cast>>

Passes == IF desk.round = 1 THEN "grace" ELSE "deliver"
WaitOver == (desk.at = "settle" /\ ~TurnInProgress) \/ (desk.at = "oldturn" /\ OldTurnOver)

DeliveryWaits ==
    /\ WaitOver /\ Usable(pipe)
    /\ desk' = [desk EXCEPT !.at = Passes]
    /\ UNCHANGED <<pipe, queue, player, loop, recovery, tool, watch, gemini, mic, call, cut, cast>>

\* Fifteen seconds, a lost session or a stopped pipeline end the attempt.
DeliveryFails ==
    /\ \/ desk.at \in {"settle", "oldturn"}
       \/ desk.at \in {"grace", "deliver", "send"} /\ ~Usable(pipe)
       \/ desk.at \in {"deliver", "send"} /\ ~Guard
    /\ Finish(pipe, "failed")
    /\ UNCHANGED <<queue, player, loop, recovery, tool, watch, gemini, mic, call, cut, cast>>

\* The grace is over: an answer that began meanwhile is a boundary again.
GraceEnds ==
    /\ desk.at = "grace" /\ Usable(pipe)
    /\ Boundary(pipe, 2, "deliver")
    /\ UNCHANGED <<queue, player, loop, recovery, tool, watch, gemini, mic, call, cut, cast>>

Deliver ==
    /\ desk.at = "deliver" /\ Guard /\ Usable(pipe)
    /\ pipe' = [pipe EXCEPT !.suppressed = FALSE]
    /\ desk' = [desk EXCEPT !.at = "send"]
    /\ UNCHANGED <<queue, player, loop, recovery, tool, watch, gemini, mic, call, cut, cast>>

\* The second guard passed: the instruction goes out, or its send fails.
Instructs ==
    /\ desk.at = "send" /\ Guard /\ Usable(pipe)
    /\ IF LinkUp(pipe.ws)
       THEN /\ Finish(FinishWait([pipe EXCEPT !.said = TRUE, !.asked = TRUE]), "done")
            /\ Instruct(pipe.ws)
       ELSE Finish([pipe EXCEPT !.asked = FALSE], "failed") /\ UNCHANGED gemini
    /\ UNCHANGED <<queue, player, loop, recovery, tool, watch, mic, call, cut, cast>>

-----------------------------------------------------------------------------

ReceiveLoop(s) ==
    \/ Hear(s) \/ BargeIn(s) \/ BargeInClears(s) \/ OverflowClears(s) \/ RemoteCleared(s) \/ Frame(s)
    \/ TurnEnds(s) \/ DropEnds(s) \/ CutEnds(s) \/ SaidGoodbye(s) \/ LoopFails(s) \/ LoopEnds(s) \/ ToolCall(s)
Player == Take \/ Plays \/ Sent \/ SendFails \/ Paced
Recovery ==
    \/ TaskRecovers \/ TaskYields \/ RecoveryClears \/ RecoveryCleared \/ RecoveryClosed \/ Connects
    \/ SetupDone \/ RecoveryFails \/ Replay \/ ReplayFails \/ Recovered
Silence == StillThere \/ HangUp \/ HungUp
Delivery ==
    \/ DeliveryBegins \/ DeliveryDrops \/ DeliveryWaits \/ DeliveryFails \/ GraceEnds \/ Deliver \/ Instructs

Next ==
    \/ Starts \/ OwnerPicksUp \/ StreamStops \/ Mic \/ ToolDone
    \/ \E s \in Sessions : ReceiveLoop(s) \/ Breaks(s)
    \/ Player \/ Recovery \/ Silence \/ Delivery

Spec == Init /\ [][Next]_vars

(***************************************************************************)
(* A task that can go on does, an open session answers what it owes, and a  *)
(* connection attempt ends (OPEN_TIMEOUT_SECONDS, SETUP_TIMEOUT_SECONDS).   *)
(***************************************************************************)
GeminiFairness ==
    /\ WF_vars(Player) /\ SF_vars(RecoveryClears) /\ WF_vars(Recovery)
    /\ \A s \in Sessions : WF_vars(ReceiveLoop(s))
    /\ WF_vars(StreamStops)

FairSpec == Spec /\ GeminiFairness

-----------------------------------------------------------------------------
(* Properties.                                                              *)

TypeOK ==
    /\ cast \in Casts
    /\ pipe.ws \in 0..MaxSessions /\ pipe.attempts \in 0..(MaxSessions - 1)
    /\ pipe.last \in {"none", "kevin", "caller"} /\ pipe.text \in {"none", "talk", "hold", "bye"}
    /\ pipe.endMark = None \/ pipe.endMark \in Nat \X Nat
    /\ pipe.firstSent <= pipe.turn /\ pipe.endSent <= pipe.turn
    /\ Len(queue) <= MaxBacklog /\ Len(recovery.held) <= MaxHeld
    /\ player.at \in {"none", "idle", "took", "sending", "pace", "ended"}
    /\ loop \in [Sessions -> {"none", "read", "cut", "clearing", "over", "overClearing", "drop", "cutEnd", "bye",
                               "recovers", "ended"}]
    /\ recovery.at \in {"none", "clear", "clearing", "closing", "connect", "setup", "flush"}
    /\ desk.at \in {"idle", "done", "failed", "stopped"} \cup Active
    /\ watch \in {"none", "watch", "goodbye", "ended", "dead"}
    /\ call.fate \in {"live", "redirected", "hungup"}

\* The session in use, not one that a recovery has abandoned.
Live(s) == s = pipe.ws /\ recovery.at \notin {"clear", "clearing"}

SendsFrame == player.at # "sending" /\ player'.at = "sending"

(***************************************************************************)
(* An answer the caller talked over, that grew too long, or that the        *)
(* owner's decision held back stays unheard: once its output was cleared    *)
(* no frame of it goes to Twilio, whichever task queued it and however the  *)
(* clear raced the player. (The frames of a session that a recovery       *)
(* abandoned are left out: one in the player's hands may still be sent.)    *)
(***************************************************************************)
CutSpeechStaysCut ==
    [][SendsFrame /\ Live(player'.chunk.session) => player'.chunk.id \notin cut]_vars

(***************************************************************************)
(* The receipt for the end of an answer is asked for after its last frame,  *)
(* never from Gemini's completion alone: nothing of the turn is queued or   *)
(* on its way when its mark goes out. Excepted is the frame that waits in   *)
(* the start buffer of the public demo, which neither the queue nor         *)
(* _is_speaking tells of (_maybe_send_response_end_playback_mark): the mark *)
(* of an answer of one frame may go out before it.                          *)
(***************************************************************************)
EndMarkFollowsLastFrame ==
    [][pipe'.endSent # pipe.endSent =>
        LET Left == {queue'[i] : i \in DOMAIN queue'}
                    \cup (IF player'.at = "sending" \/ (player'.at = "took" /\ ~Demo) THEN {player'.chunk} ELSE {})
        IN \A chunk \in Left : chunk.turn = pipe'.endSent => ~Live(chunk.session)]_vars

(***************************************************************************)
(* What the caller says while a session is replaced reaches the new one     *)
(* complete and in order, before anything said later; otherwise the call is *)
(* given up.                                                                *)
(***************************************************************************)
HeldAudioComesFirst ==
    [][\A n \in 1..MaxMic :
        (call.completed = 0 /\ mic.expect # None /\ mic'.expect = n + 1 /\ mic'.expect # mic.expect /\ recovery'.at # "clear") => n = mic.expect]_vars

(***************************************************************************)
(* The owner's clock and the wording of the message depend on a hold the    *)
(* caller was offered: it counts as offered only once an answer that offers *)
(* it began to sound, whether its text or its first frame came first.       *)
(***************************************************************************)
HoldWasHeard == pipe.offered \/ pipe.waiting => "hold" \in call.heard

(***************************************************************************)
(* A recovery ends: the call goes on with a session that listens, or it is  *)
(* given up and Twilio was told.                                            *)
(***************************************************************************)
RecoverySettled == call.stopped \/ call.completed > 0 \/ (~pipe.reconnecting /\ pipe.ws # 0)
RecoveryIsSettled == pipe.reconnecting ~> RecoverySettled
=============================================================================
