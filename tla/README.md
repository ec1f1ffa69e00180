# Hey Kevin: a verification project

Hey Kevin answers a contractor's calls. When a call comes in, the owner's phone
rings or an assistant ("Kevin") screens the caller, and while that goes on the
owner may pick the call up, decline it, or do nothing. Behind the calls a set of
background jobs files summaries, releases numbers, retries what failed.

Almost all of that is distributed: every webhook, every POST of the owner's app
and every media stream may be served by another Cloud Run instance, and they meet
in a few durable documents (RTDB `/active_calls/{sid}`, Firestore
`private_background_jobs/*` and others) that are changed by compare-and-swap
transactions. This directory models those protocols in TLA+, checks them with TLC
on small instances and proves the properties that matter most with TLAPS.

Paths below are relative to the repository, `src/` in the map.

## 1. Inventory

### 1.1 Owner call actions (`app/services/owner_call_actions.py`, `legacy_call_commands.py`, `conference_registry.py`, `app/db/cache.py`)

*State.* The call's record: its state, who claimed it (`owner_action`,
`owner_operation_id`, `claim_nonce`), how far the claim is
(`owner_action_status`, `redirect_started`), the conference the caller waits or
talks in, the token and nonce of the redirect to Kevin, the publication of a message
(`projection_*`). Beside it the command node `/call_commands/{sid}`, the conference
registry, and the call's real place at Twilio, which nobody can read atomically
with any of these.

*Operations.* `handle_owner_call_action` (accept, decline), the status GET,
`arbitrate_owner_timeout` and `run_owner_timeout` (the caller on hold),
`publish_message_intent`, `consume_message_intent`,
`adopt_legacy_message_intent`, `release_stranded_fallback_redirect`,
`confirm_fallback_stream`.

*Partners.* `twilio_incoming.py` (the ringing task and its hand-off to Kevin),
`media_stream.py` (the token check of a stream), `relay_pipeline.py` (the pipeline
that holds the caller and speaks), `voip.py` (the older decline).

*Hard behaviour.* Every step is an await: POSTs, retries, the timer, the ringing
task, the streams and the caller interleave at each of them. Storage and provider
calls fail, or act and lose their answer. A caller who is told "the owner is not
available" and then put through, two redirects of one caller, credentials for an
empty room, a caller who rings or holds for ever: each needs several actors.

*Correct when.* One decision per call, which stays; a pickup that is promised
happened; nobody takes a caller from the owner; every wait ends.

### 1.2 Background-worker cutover and ledger (`app/db/background_jobs.py`, `app/worker_main.py`, `app/main.py`, `app/services/background_dispatch.py`)

*State.* The control document (`absent`, `embedded`, `external_requested`,
`external_active`, `external_draining`; generation; lease) and one ledger row per
job (`running`, `completed`, `needs_attention`; nonce; next due time).

*Operations.* `prepare_external` (an operator), `activate_external`,
`begin_embedded`, `external_active` (API instances), `admit` and `finish` (the
worker).

*Hard behaviour.* The embedded loops know nothing of the ledger. They start on an
answer of `begin_embedded`, while deliveries, prepares and other instances go on.
The worker may die with its child, be cancelled at any await, or lose the answer to
an admission or a completion.

*Correct when.* Loops and worker never work at once; work of unknown outcome is not
repeated; jobs come back by themselves when the external lease ends.

### 1.3 Post-call handoff outbox (`app/db/post_call_handoffs.py`, `app/services/post_call_handoff.py`)

*State.* One row per call, `post_call_handoffs/{sid}`: a status (`pending`,
`in_progress`, `completed`, `needs_attention`, `acknowledged`), the contractor it was
created for, its age, the lease of its claim. A mirror of the status on `calls/{sid}`.
The sweeps' cursors: a module variable in the embedded loop, the job ledger's
continuation in the worker; beside it the ledger row of the worker's job, which is held when the
job fails.

*Operations.* `enqueue_and_run_post_call` (a media stream that closes),
`run_post_call_handoff`, `run_pending_post_calls_once` (the embedded loop),
`run_bounded_post_calls_once` (the worker), `admin_acknowledge_post_call_handoff`.

*Partners.* `handle_status` in `twilio_incoming.py` puts the end of the call on record,
the routing task its contractor; `process_post_call` has the effects (messages, job
records, leads).

*Hard behaviour.* Streams and sweeps meet on a row. A claim or a finish can commit and
lose its answer; a cancelled task leaves a finishing transaction behind in its executor
thread; a crash leaves effects of unknown extent; a failed read of the call looks like a
call that is not there; the mirror is a write of its own.

*Correct when.* The effects begin at most once, for a call that is over and belongs to
the row's contractor; what is settled stays so; ready work is not put aside; the
mirror never claims more than the row; whatever can be settled is.

### 1.4 What an account owns outside (`app/db/contractors.py`, `number_release.py`, `integration_token_mutations.py`, `jobber_*.py`)

*State.* A contractor's profile holds the claim on its Twilio number, the token pair of
its Google Calendar with the intents of the operations that use it, and its Jobber
binding. Beside it: the barrier and the receipts of a Jobber account.

*Operations.* Buying, keeping and releasing a number, by the owner, the embedded sweep
or the strict worker; refreshing, using, re-consenting, reconciling and disconnecting a
calendar grant, rescheduling with it; admitting, using, renewing, authorising and
removing a Jobber connection, `appDisconnect`, the webhook and its recovery worker.

*Hard behaviour.* A DELETE at Twilio, a refresh at Google and a disconnect at Jobber
cannot join the transaction that decided them: the answer may be lost after the fact,
and every other write of the profile may fall between. A refresh token may be spent
once.

*Correct when.* A number is handed back once, and never while acknowledged evidence
speaks for it; a pair sent to Google is fenced as long as it is stored; after an
`APP_DISCONNECT` only a later consent makes a credential of the account usable.

### 1.5 Service requests (`app/services/service_request*.py`, `app/db/service_requests.py`, `google_calendar_request_provider.py`)

*State.* A customer's request with its canonical values, a proposal under way, its
recovery lease and attempt count; the event in the contractor's calendar.

*Operations.* Commands on a local and on a calendar-backed request, creation, and the
recovery worker: `claim_due_provider_recoveries`, reconciliation, finalisation, release.

*Hard behaviour.* A saga over Firestore and Google: a process may stop between any two
steps, a PATCH may act without an answer, the worker meets the live call.

*Correct when.* Who is told "applied" finds the change on the canonical request; what is
canonical was in the calendar; at rest the two agree, unless a finished operation is made
again; every proposal is settled.

### 1.6 Subscription and App Store (`app/services/subscription.py`, `appstore_replay.py`, `subscription_recheck.py`, `app/webhooks/appstore.py`, `app/api/subscription.py`)

*State.* An account's tier, receipt, renewal status and clock; the tombstone of a
deleted account that counts later charges; the record of each receipt; on the phone, the
transactions it has not finished.

*Operations.* Purchase and verification (with the lazy repair of an unknown receipt),
notifications for live and deleted accounts, the re-check of a stale account, the trial
sweep, the replay.

*Hard behaviour.* Notifications come late, twice, reordered or never; verification races
them; the account is deleted, or another one claims the receipt.

*Correct when.* What is on record of a receipt is of that receipt and of one account; who
has paid is served; a renewal status does not go back; charges after a deletion count.

### 1.7 Voice pipelines (`gemini_pipeline.py`, `relay_pipeline.py`, `voice_pipeline.py`)

*State.* Of one call: the sessions of the provider, what is queued and playing, who
spoke last, the hold and its clock, the delivery of the owner's instruction.

*Operations.* Receive loops, the paced player, replies and their interruption, recovery
of a lost session, tool batches, silence watchdogs, the delivery of a message
instruction, the end of the call.

*Hard behaviour.* All are tasks of one event loop and interleave at each await: the
caller barges in while a reply, a recovery or a delivery is between two of them.

*Correct when.* What was cut off stays cut off, speech and receipts keep their order, a
hold's clock runs only from an offer the caller heard, and no caller is left in silence.

### 1.8 Around a call (`visual_diagnosis_state.py`, `sms_sender_enrollment.py`, `db/owner_sms.py`, `api/estimates.py`, `public_demo*.py`, `voice_bakeoff_*.py`)

- *Visual diagnosis*: a case with 28 kinds of events, two receipt lanes, an analysis, a
  deletion. Correct when the offer made to the customer is one the case accepts, and a
  case that ended waits for nothing.
- *Sender enrolment*: every precondition is read, read again, the membership created
  once, all read back, in a thread the caller may give up on.
- *Owner texting*: STOP, START, refusals (21610) that come late, a consent; each counts
  one revision. Correct when a text goes out only on what still holds.
- *Voice bakeoff* (an offline harness): one call's final turns, acts and permits, the
  silence controller, and the session driver with the authority that lets a session end
  with one local frame. Correct when nobody holds an authority to speak that is not
  waited for, and a closure frame is returned with its evidence or not at all.
- *Language choice* (the same harness): a caller of an unlisted language is offered one
  prompt and one window; the canonical events may be handed over late. Correct when an
  answer that came in time is the one that is admitted, however late it is seen, and the
  choice ends once, silent and without authority.
- *Estimates*: media is uploaded to a link, analysed and answered by text, by the handler
  or by a sweep that takes over an attempt whose lease ran out. Correct when each attempt
  is told once, the answer is of the media on record, and a text of unknown outcome is
  kept for an operator.
- *Public demo*: a lease of a call slot, a daily budget, a single-use stream token, and the
  usage callback that suspends the provider's account. Correct when who is served holds a
  live lease and was counted, and only an operator restores the account.

### 1.9 The rest

| Part | Here |
| --- | --- |
| Dial-in, urgent hand-off, status callbacks; call states beside the owner's | partly, with 1.1: they are not actions of `OwnerCall` |
| Push notifications; rate limits of other endpoints; the language model's circuit breaker | no: best-effort sends, counters of their own |
| Customer memory, knowledge, acquisition | no: data shaping, little control |
| Dialogue, turns, prompts | no: about language |
| iOS client | no: its requests are the environment of `OwnerPickup` and `AppStoreEntitlement` |
| Scripts, docs, static pages | no |

`PROJECT.json` lists each part with its sources, and under `hazards` the forty that say
most, each at its line with the properties that would show it going wrong. Seen and not
covered by a property:

- the answer to a claim is lost and its client only polls: the record stays `accepting`
  until the call ends (`owner_call_actions.py:263`);
- a dial-in of the owner redirects a screened call without asking `owner_action`
  (`twilio_incoming.py:1180`);
- `prepare_external` takes the drain confirmation at its word (`background_jobs.py:248`);
- a failed control read at startup leaves an instance without loops until it restarts,
  as documented (`main.py:345`);
- a sweep's mirror overtakes an acknowledgement and understates the row
  (`post_call_handoff.py:418`).

## 2. Modules

| Module | Models | Extends |
| --- | --- | --- |
| `ActiveCall` | the call's record, the caller's place, the callbacks of the transactions | |
| `OwnerPickup` | accept POSTs and status GETs | `ActiveCall` |
| `KevinFallback` | the ringing task, redirects to Kevin, media streams | `ActiveCall` |
| `MessageRequest` | declines, the owner timeout, publication and delivery of a message | `ActiveCall` |
| `OwnerCall` | all of them together, fairness, the properties | the three above |
| `CallArbitration` | what the engine promises, without its mechanism | |
| `BackgroundCutover` | control document, ledger, API instances, worker | |
| `BackgroundWork` | what the cutover promises | |
| `PostCallHandoff` | the outbox, its sweeps, streams and operators | |
| `NumberRelease`, `CalendarGrant`, `JobberGrant` | the three of 1.4 | |
| `Account` | the three together: a history is about one of them | `NumberRelease`, instances of the others |
| `ServiceRequests` | the saga of 1.5 | |
| `AppStoreEntitlement` | 1.6: Apple, the phones, the accounts | |
| `GeminiCall`, `RelayPipeline`, `VoicePipeline` | the pipelines of 1.7 | |
| `VisualTriage`, `SenderEnrollment`, `OwnerSms` | the first three of 1.8 | |
| `Estimates`, `PublicDemo` | the last two of 1.8 | |
| `SilenceCycle`, `SpokenActs` | the bakeoff's reducers, as pure operators on one record | the second extends the first |
| `BakeoffCall` | the composition and the silence controller on that record | `SpokenActs` |
| `LanguageChoice` | the one choice of language in a bakeoff call | |
| `ClosureAuthority`, `ClosureDriver` | the holds of the closure latch; leases and runs that take them | the second extends the first |
| `MCOwnerCall`, `MCBackgroundCutover`, `MCPostCallHandoff`, `MCAccount`, `MCServiceRequests`, `MCAppStoreEntitlement`, `MCVoice`, `MCDesk`, `MCBakeoffCall` | constants for TLC; `MCVoice` and `MCDesk` put their components side by side, as `Account` does | |
| `OwnerCallProofs` | theorems about `OwnerCall` | `OwnerCall` |
| `BackgroundCutoverProofs`, `PostCallHandoffProofs`, `AccountProofs`, `JobberProofs`, `ServiceRequestProofs`, `StoreProofs` | theorems about `BackgroundCutover`, `PostCallHandoff`, `Account`, its Jobber part, `ServiceRequests`, `AppStoreEntitlement` | the module they are about |
| `DeskProofs` | theorems about the components of 1.8, side by side as `DeskSpec` | `MCDesk` |

The components that are put side by side share no state, so a history is about one of
them (`part`) and the others stay as they began.

### 2.1 From the code to the engine's modules

The record is one TLA+ record with the code's field names. States that the owner's
actions do not tell apart are one: `decision` (`screening`, `incoming`, `ringing`),
`later`, `gone` (deleted). The age of `live_record` is `fresh`, `stale` (ten
minutes without a write) or `renewed`. A POST is named by itself: its claim nonce
and its conference, both random in the code, are its name. A conference, a token
and a redirect attempt are members of small sets.

A transaction is one step with an outcome: it commits, fails, or commits and loses
its answer (`Commit`); a provider call likewise (`Redirect`). Every await of a
handler is a boundary between two steps, and each handler has a variable that says
where it is (`accept`, `poll`, `publish`, `timer`, `consume`, `ring`). What runs
between two awaits is one step. In particular:

- the preparation of a pickup: registering the conference, resolving the call's own leg
  and issuing the access token (`AcceptPrepare`) are one step, because only its success
  or failure reaches the record;
- adopting a bare legacy command is three steps, for the consumer and for the ringing task
  alike: the read of the command, the read of the record, and the transaction; the
  live binding is asked of the record in both of the last two;
- each read of the record by a consumer is a step: for the intent, for what is owed, for the
  confirmation, for the guard before the announcement, and for the guard after it; the
  announcement itself (`ConsumeDeliver`), which may be interrupted, and the transaction of the
  acknowledgement are steps of their own; what an attempt has read (`adopted`, `intent`) is
  local to it and forgotten when it ends (`Remembers`).

The timer's own call of `consume_message_intent` is folded into the pipeline's
consumer, which the same lock serialises. The caller's place is a variable of the
environment: a redirect moves it when Twilio acts on it, the caller hangs up at any
time.

Not modelled: dial-in and urgent hand-off (they move the caller without asking the
record), the text and voicemail answers, joining a conference by the legacy app,
the deadline's value, the lifetime of a conference binding (a docstring of
`conference_registry.py` says one hour, the constant two), and the screening reason.

### 2.2 From the code to the cutover's modules

Each API instance is a phase of `_configure_background_workers` and of the task it
leaves behind: `activate`, `begin`, `watch`, `wait`, `start` (told that it may start the
loops), `loops`, `unavailable`. Each scheduler delivery is one execution of
`task(job)`, and names the nonce of its admission: `admitted`, `run` (the child
process lives), `complete`, `attention`, `answered`. The child is reaped before its
delivery goes on, so it lives exactly in `run`. A container's death takes it along.

Time is two actions: `LeaseExpires` and `BecomesDue`. The age of a running row
(300 seconds) only chooses between two refusals and is left out, as are malformed
rows, which the program never writes, and cursors. The ledger may hold jobs of an
earlier candidate when the control document is first written (`Init`).

The operator is environment: `Prepare` takes the confirmation of
`embedded_instances_drained` at its word, which here means that no instance runs the
loops *or was told that it may*; `Reconciles` completes an uncertain row when
nothing executes, as `docs/cloud-run-background-workers.md` prescribes. The proofs
depend on both.

### 2.3 From the code to the outbox's module

A process (a stream, a sweeper, an operator) is at a place of the code between two
awaits, with the call it deals with: `get`, `read`, `unconfirmed` and `mismatch` (the two
codes of a quarantine), `claim`, `claimed`, `work`, `finish`, `mark`, `mirror`, and in a
sweep's second pass `reclaim`, `recheck`. Decisions are taken where the code takes them, on
what it has read by then, and the transactions read again what they read in the code:
the claim reads the row only, the quarantine the row and the call.

A call is over or not, and its contractor is unknown, the row's, or another one. The
row's own contractor and the stream's are the same one, known or not, as
`enqueue_and_run_post_call` is given both. Time is `LeaseExpires` and `Ages` (a day). The
effects are a counter of how often they were begun (`Begins`); a sweep that finds no
transcript or contractor does not begin them.

A sweeper is an embedded loop or the worker's job (`Workers`); a history has one kind or the
other. They differ in the wrap-around of their page (fill up, or start again when empty), in
where the cursor lives (the loop's is moved on at once and lost with the process, the worker's
returns with its completion), and in what an exception or a crash means: the loop goes on, while
the worker's ledger row stays `running` or becomes `needs_attention` and the job is not admitted
again (`held`) until an operator reconciles it (`Reconciles`). The run has both; the theorems
hold for any number of each. A query of a sweep is one step and may fail (`ListingFails`), its rows
are taken one by one, in any order. The second pass lists all rows in progress that lie after the
worker's second cursor: the code's limit is 25 or 50, more than the instances have.

Left out: the branch `invalid_reclaim`, which no row reaches (`_claim_transition` never
claims a row in progress), malformed rows, the retention deadline, the administrators'
lists, and the acquisition measurement scheduled after a completed record.
### 2.4 From the code to `Account`

*Number.* A transaction of `contractors.py` is one step on `profile`, a call at Twilio
another, with the outcomes ok, failed, and acted without an answer. A release is a
process with a `Kind` (deletion by the owner, release from the app, embedded sweep, worker) at a
place between two of them, and `ReleaseCasts` says which may meet in a history. The
observation window, the page cursor and the cap per run are left out: they only delay a
release.

*Calendar grant.* `grant` is the contractor's fields that
`integration_token_mutations.py` writes: the pair, its revision, quarantine, the operation
intents. A handler (refresh, call, rescheduling, consent, disconnect, reconciliation)
is a process; each compare-and-swap is a step. A pair is a number, so a refresh is a new
number; the module's long validation of each field is the question whether a record is
whole. Google keeps what it did (`presented`, `moved`).

*Jobber.* A binding per contractor, a barrier and a list of receipts per Jobber account.
A use, an authorisation, a removal and a worker are processes; a worker takes a page of
contractors. A database without the control record and deactivated contractors are not
modelled.

### 2.5 From the code to `ServiceRequests`

`doc` is the request with its canonical values, proposal, lease and attempts; `event` the
appointment at Google; `wire` the requests that are on their way there and may arrive
after their caller has given up, or never. A caller is one command (`Cmd`: kind, slot,
services, idempotency key) and its place between two awaits. The repository's operations
carry the code's names and are one transaction each. History is `shown`, the operations whose effect
the calendar has had, and `event.repeated`, whether it has had one of them applied again. What
the operation intents of the grant allow is `CalendarGrant`'s subject: here a call to Google may always be refused.

### 2.6 From the code to `AppStoreEntitlement`

Apple keeps `txs` and the notifications it signed (`notes`), Kevin the `accounts` and
which account a receipt chain is bound to, the phone what it has not finished. A handler
of a notification, a verification, the re-check and the replay each are a sequence of
steps with a transaction each. All accounts belong to one person: after a deletion the
next one is the person's rebound. A world (`Worlds`) says what may happen: how many
purchases, which events, who may be deleted, whether a release is under way. Certificate
chains, promotional offers and the record of unmatched notifications are left out.

### 2.7 From the code to the pipelines' modules

A pipeline is asyncio tasks of one thread, so a step is what runs between two awaits. What
is said is told apart by what the code looks for in it (an offer to hold, a goodbye,
neither). In `GeminiCall` a frame stands for its audio; tool batches and recoveries are
tasks of their own. `RelayPipeline`'s unit of time is the watchdog's fifteen seconds; a
cancelled reply sends nothing any more. `VoicePipeline` has the fair `_response_lock` as
a queue; the delivery of an instruction takes it in one coroutine and gives it back in
another, as in the code. The note of a sentence in the transcript (`on_transcript`, awaited under
the lock, `voice_pipeline.py:2160` and `:2329`) is one step with the sentence it announces.

The public demo's pipeline is a cast of `GeminiCall` (`"demo"`): the first frame of an answer waits
for 0.8 seconds in the start buffer (`public_demo_pipeline.py:93`), frames are not paced, and a lost
session is not replaced. Its tools and its reframing of the audio are left out.

Assumed of the environment: an interrupted answer of Gemini is followed by
`turnComplete`; messages buffered by a session that breaks are still read; tasks that
are ready run before a network connection completes. Abstracted: tool rounds, live
intake, the bounds of the ingress queue; the urgent prompt's `sleep(0)` is no step.

### 2.8 From the code to the modules of 1.8

`VisualTriage` has one operator per event kind; `apply` rolls a rejected event back, so
a rejection is no step, and an event built against an old revision or delivered twice is
one. Identifiers and digests are abstracted: an event that names the wrong one is
rejected. In `SenderEnrollment` a value is "bad" when its validator refuses it, `v1` and
`v2` are two it accepts; the reads happen in an executor thread that goes on when its
caller gave up. In `OwnerSms` every transition counts a revision, a refusal carries the
one its message was sent under, and the delivery reads twice.

The bakeoff is offline. Each lock's call is one step of `BakeoffCall`, on the record that
`SilenceCycle` and `SpokenActs` reduce; what an adapter or the telephone reports is
nondeterministic. Digests, bindings and texts are their act's identity. Ends of a life
that the code reaches and the model keeps: a question that was delivered keeps its slot
reserved; `ACT_FAILED` is refused after a reconnected playout, so the cleanup reports a
failure although everything is sealed; a second plan while a timer is armed fails; a
supersession after an expired deadline ends the session hard; a `GO_AWAY` revokes
permits too.

In `ClosureDriver` the driver's lock is taken without waiting, so two operations never
overlap in it, while `withdraw` takes only the latch and falls between any two holds of
a run. `commit` takes two holds and is the point of no return: consuming a frame and
marking it do not look at `withdrawn`. A second confirmation is refused and replaces the
driver's receipt by `None`. Journeys that cannot close are one step (`plain`), the
composition's success is a choice, and the logical clock may pass an expiry between any
two steps.

`LanguageChoice` has the log of the call's canonical events, of which the lifecycle
retains the last few; the choice works through them with a cursor. What is heard is told
apart by kind and turn. Its operations, those of the admission authority and those of the
lifecycle are atomic; the recovery of the transaction is a sequence of steps. A
partial transcript is passed over exactly as an activity of another turn is, so the
instance leaves it out.

`Estimates` names an attempt by its media. The document's four transactions (claim,
complete, fail, and the sweep's own) each may fail or lose their answer; the photo handler
writes without one, as the code does. `PublicDemo` is two protocols on one clock: a call
(lease, daily count, token, stream) and the usage callback with its breaker. A lease, a
token or a claim is the instant at which it expires; that the provider opens a stream
before the set-up margin ends is assumed, and the safety check of the configuration is
`DemoAssumption`.

## 3. Runs

| Run | Instance | States | Shows |
| --- | --- | --- | --- |
| `pickup` | screened call; an accept POST, its retry, a GET; ageing; one fault | 1.8 M | `OnePickupRedirect`, `AnswersAreTrue`, `DecisionIsFinal`, and the refinement of `CallArbitration` |
| `message` | screened call; accept, old-style decline, timeout, old server; one fault; fair | 0.7 M | refused and put through exclude each other; an acknowledgement follows an announcement; a hold ends |
| `ring` | ringing call; accept, old server, two attempts, two recoveries; one fault; fair | 0.5 M | types; the stream that serves owns the token; a pickup is kept; a ring is answered |
| `cutover` | an embedded and an external instance, two deliveries of one job, two prepares, two faults; fair | 0.5 M | loops and worker take turns, uncertain work is not repeated, completed work is not held, `BackgroundWork`; the loops come back |
| `handoff` | two histories: streams close for one call while an operator looks on, or two calls are left pending; each with the embedded loop and with the worker, pages of one, two faults; fair | 0.9 M | effects at most once and only when due, an honest mirror, settled rows stay, ready rows are not put aside; what can be settled is settled, past rows that never are, unless the worker's job is held |
| `account` | a number with a purchase, a call and a renewal, and the releases of the worker, the owner's deletion and the app, or the embedded sweep with one of them; a calendar grant in seven casts; Jobber in eight, with a second receipt while a worker has a page open; one fault each | 1.6 M | `NumberIsReleasedOnce`, `GrantIsFenced`, `DisconnectFencesAccount`, `ChangesAreJustified` |
| `saga` | ten casts of two or three callers and the recovery worker; one crash or lost answer; fair | 0.3 M | `RequestIsTrue`, `ProposalIsOwned`, `PendingIsSettled` |
| `replay` | two additions of a service that meet the recovery worker | | **violated**: see findings |
| `store` | five worlds | 1.4 M | `RecordIsOfReceipt`, `PaidIsServed`, `RenewalClockNeverBack` |
| `voice` | the three pipelines, Gemini's in six casts and the demo's, three prompts, two transcripts; fair | 0.7 M | `HoldIsHonest`, `SpeechKeepsItsOrder`, `CallerIsNotLeft` |
| `desk` | a case, two enrolments, an owner's texts, an estimate, two demo calls, two usage callbacks, a bakeoff call, a language choice, three leases | 2.6 M | `DeskIsOnRecord`, `SpeechIsAnswerable`, `DecisionsStand` |
| `bakeoff` | a bakeoff call alone | | **violated**: see findings |

*Bounds of the engine.* Conflicts are between two claims: two accepts (the retry carries
the same operation id), an accept and a decline, an accept and the timer, a POST and the
ringing task. A third POST meets a record that is claimed, as the second did. One fault
per run separates "failed" from "lost" at every call. Two redirect attempts let an old
stream meet a new token.

*Bounds of the background.* In the cutover two deliveries of one job overlap or follow
each other, and the second prepare meets what the first left behind. `handoff` has two histories
(`history`), each with the embedded loop and with the worker. In the first, streams close for one
call, one after the other begins (they are alike; two beside the loop, one beside the worker), and
a sweeper and an operator join; rows of different calls never meet in a
transaction, so one call is enough for safety. In the second, two rows are left by streams
(`LeftInit`), one of which may stay pending for ever, and the page is shorter than the list.
Two faults allow a lost claim and a cancelled finish in one behaviour.

*Bounds of the account.* A cast is a set of handlers that meet: a release is tried
against another release, a new purchase and evidence that it must not lose; a refresh
against a call, a consent, a disconnect, and a rescheduling with its reconciliation; a
Jobber use against a disconnect, an authorisation, a removal and two workers whose pages
of one contractor leave the other behind the cursor. A second receipt comes only while a page is
open (hazard of `jobber_disconnect_recovery.py:394`): at other times it finds what the first one
found. Casts and not all subsets, because
handlers that do not conflict only multiply the states. In `saga` likewise: casts of
commands with the same key, with another key on the same slot, and creations, with
`MaxAttempts = 2`, so that a proposal can be given up.

*Bounds of the store.* `Bought`: one purchase, all that can happen to it. `Clocks`: two
receipts, renewals switched off and on. `Deletion`: the account is deleted and Apple goes
on charging. `TwoClaims`: two accounts, one receipt. `Replayed`: notifications not
accepted at first.

*Bounds of voice and desk.* Two answers of two frames and a backlog of one let a frame be
in the player's hands, one queued, and another on its way; one recovery separates a lost
session from a call that is given up. A bakeoff call has two final turns, so that the
second meets what the first left, and then three acts; with one turn it has four
(`Short`). A case has a question, a retry
of the analysis and one of the deletion in one instant, or one of the three in two instants
(`Short`; the proofs are about `DeskSpec`, which has neither bound); the ordinary
lane keeps the code's 64 receipts, the control lane has 4 for the one retry of the deletion, as the
code's 6 are for three. Three leases let a
receipt of the first meet the third. An estimate has a video, a photo, an embedded and a
strict sweep, so that every pair of them meets on one link. Of two demo calls one token is
presented twice, with one slot, a budget of two and instants past every expiry. The
language choice has two turns, a retained history of two of its four inputs, so that a
late reader meets a gap, and a prompt of one segment.

`CHECK_DEADLOCK FALSE` where calls, handlers or cases end: then nothing is left to do.

*Fairness.* An admitted handler runs on to its answer (weak fairness of each handler);
the ringing task, the timer, the consumers and the watch and wait tasks are supervised
loops. The ringing task polls ten times, two seconds apart, and then its time is over, whatever
it read each time: the end of the ring is strongly fair. In `handoff` the embedded loop runs again
whatever became of its last sweep (it is supervised); the worker's job runs again unless its ledger
row is held, and no operator has to reconcile it: `DueIsSettled` promises nothing while the only
sweeper is a held job. A caller's pipeline retries an interrupted announcement, so speaking and
delivering are strongly fair. In `saga` the callers under way go on, the recovery loop
runs again and time passes; nothing is asked of Google or the network. In `voice` a task
that can go on does, an open session answers what it owes and a connection attempt ends
(the code's timeouts); the recovery's step behind the session lock is strongly fair. Nobody has
to POST, poll, decline, hang up, boot, prepare, deliver, reconcile or speak, and no fault
is excluded before its bound.

*Liveness bounds.* The bounds on faults, attempts, prepares, sessions and recoveries make
"eventually" mean: after the last fault.

## 4. Findings

`bakeoff` violates `AnswerStopsTheClock`. `_supersede_pending`
(`voice_bakeoff_turn_composition.py`) cancels the call's timer only in its loop over the
pending responses. Once the question was heard nothing is pending, the first timer is
armed, and the answer to the caller's next turn is reserved with the timer running, which
`docs/voice-architecture-caller-ux-acceptance.md:102` excludes. When it fires, its
presence act is refused as an act of an old turn and the whole call is sealed.

`replay` violates `EachChangesProviderOnce`. `set_appointment_service_metadata`
(`calendar.py:2247`) reads the event and writes the list of services of its proposal with the
etag it has just read, without asking whether the proposal is still pending. A new proposal
is due at once, so the recovery worker can make and finalize it while its caller has yet to
read; if another service is added meanwhile, the caller finds a list that is not its own,
writes its own again, and the later service is gone from the calendar but stays on the
request. `docs/customer-memory-rollout.md:91` asks that each command "change the provider
once", `service_request_repository.py:75` calls the mutations idempotent. An appointment moved
away and back is moved again in the same way, because the times alone do not tell.

Other behaviour met while modelling that a reader of the code may want to know. The models
have it; the properties are stated so as not to depend on it.

- *Engine.* `run_owner_timeout` keeps a timeout that lost to a pickup alive only if the
  record it reads afterwards still shows the pickup settling: a preparation released in
  between leaves the caller on hold (`owner_call_actions.py:719`). The ringing task leaves
  when a pickup holds its claim at the end of the ring; if its preparation then fails,
  nobody hands the caller on (`twilio_incoming.py:829`). `HoldEnds` and `RingIsAnswered`
  are about the other cases. A redirect mark that commits and loses its answer stays
  pending for ever.
- *Account.* The embedded sweep reads evidence of use before it claims
  (`number_release.py:379`), so it can hand back a number whose evidence came in between,
  although "a still-forwarded number is never handed back to Twilio" (`number_release.py:3-5`).
  The casts of `account` have the sweep; `QuietNumbersOnly`, in `ChangesAreJustified`, is about
  the external worker, whose transaction asks again (`same_strict_release_snapshot`). A Jobber
  connection renewed between the admission of a removal and `appDisconnect` would lose the new
  grant. Lost answers leave started claims, which quarantine later.
- *Store.* An expiry of the old term that arrives after the purchase of the new one takes
  the service away, and so does a replayed expiry that a renewal overtakes before it is
  written; whoever deletes an account, makes a new one and buys again gets Apple's old
  receipt chain, which belongs to the former account. A handler that stops between the
  evidence on a deleted account and the forward to the next one leaves the forward undone.
  `PaidIsActive` therefore speaks of histories in which Apple's notifications arrived in
  order and all are handled, and replays happen in a quiet moment. Two requests that find no
  `subscription_uuid` may each make one; transactions bought under the loser name no
  account, and are not counted after a deletion. The proof's `TokensStand` excludes this.
- *Service requests.* Because of the second finding `CalendarAgrees` and `CanonicalWasShown`
  speak of histories in which nothing was made twice (`~event.repeated`); that they hold in
  all of those is proved. A caller that claims a rescheduling which the worker has just made
  may leave the claim behind.
- *Enrolment and texting.* While the thread creates a Canadian membership, its caller may
  be told that nothing changed. STOP and START webhooks out of order leave the earlier
  word until the next refusal heals it.
- *Gemini.* In the public demo the first frame of an answer waits in the start buffer while
  `_is_speaking` is still false. If it is the only one, the queue is empty too, so Gemini's
  `turnComplete` sends the end mark at once and the frame follows it, although
  `_maybe_send_response_end_playback_mark` promises a receipt "after the final frame, never from
  local completion alone" (`gemini_pipeline.py:1299`). It takes an answer of a single frame of 20 ms;
  `EndMarkFollowsLastFrame` excepts that frame. The silence watchdog ends when its send raises; a failed delivery leaves
  `suppressed` set; a normal close (1000) ends the loop until the next caller frame.
- *Relay.* A delivery that times out after 20 seconds drops the words spoken meanwhile
  from the history and repeats the announcement; a failed reply longer than 15 seconds
  lets the watchdog end the call without a new farewell; an exception of the
  acknowledgement leaves the timer holding.
- *ElevenLabs.* A failed or empty answer after the caller spoke leaves the caller as last
  speaker, so the watchdog never prompts (docstring `voice_pipeline.py:2294`); a barge-in
  during the guard's await still sends one chunk; a closed Deepgram connection ends the
  hearing; goodbye and farewell hang up without asking whether the caller spoke.
- *Language choice.* A caller who answers while the prompt is still played is admitted, and
  the choice seals the prompt by retiring its batch; `execute_language_recovery` then
  supersedes the pending prompt, `retire_batch` finds the batch gone, and the call is
  terminalized with `supersede_compensation_failed`: only an answer after the whole prompt
  recovers, which `ChoiceIsSealed` states. An answer between the last segment's
  observation and `complete_prompt_cleanup` ends in the same way. A final that is handed over
  out of turn has used up its admission and can never be staged, so `advance_time` waits
  for it until the call is aborted.
- *Estimates.* The photo handler writes its result without a transaction and without
  looking at the media on record: one that outlives its lease overwrites a later attempt
  and texts a second time (`ToldOnce` and `AnswerIsOfMedia` are about the
  links it does not do this to). Attempts are
  counted over all uploads of a link. A contractor that cannot be read after the claim of a
  notification loses the text.
- *Demo.* An acquisition that commits and loses its answer holds a slot, until the status
  callback or the lease's end.
- *Bakeoff.* `reserve_repair` leaks its reservation when the intent raises; two live
  permits are possible while a presence act is pending and a new turn is permitted.

## 5. Proofs

All theorems hold for every value of the constants that satisfies the `ASSUME`s of the
modules they are about: any number of POSTs, operation ids, instances, jobs, calls, streams,
releases, handlers, contractors, callers, accounts, receipts, any casts or worlds, and
any bounds. The assumptions are those a configuration must meet to be one of the
program's: processes have one role, pages are not empty, a bound is a natural number. One
theorem has a hypothesis of its own, named below.

Every proof has the same plan: facts about the operators first (a transaction gives a
well-formed record and keeps what it must), then a step of each actor, then the
composition. No property is inductive by itself, because a handler acts on what it read
earlier: the invariant says what such a handler may still rely on.

`OwnerCallProofs`: `TypeCorrect`, `OneRedirect`, `NoMixedAnswer`, `DecisionStays`.
The callbacks come first: each gives a well-formed record (`ClaimShape`: the fields of a
claim come together and name its POST) and takes back no decision (`Keeps`).
`StepEvolves` lifts that to every step of every actor. `IInv` adds `RedirectOwns` (a POST
past its mark owns the record, with `redirect_started`), `MessageOwns` (whoever read an
intent, or announced one, read it off a message claim), `PublisherHolds` and `PollHolds`
(what publishers and GETs remember is well formed). `OnePickupRedirect` and
`MessageExcludesPickup` follow because a started redirect and a message claim each stay
on the record, and the record has room for one.

Its second half: `AnswersTrue`, `TakingMessageAnnounced`, `ServedStreamOwns`, `PickupKept`,
`ArbitrationIsImplemented`. `CallInv` adds to `IInv` what joins the record to the caller
and to the streams: a claim and a nonce are of their POST, an owner in a conference is
with the caller, a token is of its attempt, the ring keeps the caller until a redirect, an
announcement fits the record. Each actor leaves a footprint (`CallerSteps`, `StreamSteps`,
`ClaimSteps`, `FallbackSteps`, `ConsumerSteps`), so a conjunct is only proved where its
variables move. The refinement of `CallArbitration` maps the record to a decision and the
caller's place: `DecisionFits` and `PlaceFits` say which readings occur, `HeardMoves` and
`DecisionMoves` how they move, `ArbitrationStep` puts them together.

`BackgroundCutoverProofs`: `CutoverTypes`, `LoopsAreAlone`, `NoReplay`, `NoLateHold`,
`HandOffImplementsWork`. `CutoverInv` says that the row belongs to the
delivery that runs (`Running`), keeps its nonce and stays `running` or
`needs_attention` while the outcome is unknown (`Kept`), and that an instance told to
embed saw all rows settled under an `embedded` control document, which no admission
and no prepare gets past (`EmbeddedHolds`). The refinement of `BackgroundWork`
follows step by step.

`PostCallHandoffProofs`: `HandoffTypes`, `EffectsAtMostOnce`, `EffectsOnlyWhenDue`,
`MirrorIsHonest`, `SettledForGood`, `ReadyIsKept`. A row only moves along `Later`
(`Evolves`), and a call that is over and has its contractor stays so (`CallsEvolve`), so
what a process has read of them remains true although it acts on it later. `HandoffInv`:
a process on its way to claim has seen a ready call (`Cleared`), what it is about to
mirror as settled is settled (`Mirrored`), and, the heart of it, a process between claim
and effects is alone with its call, whose effects have not begun (`ClaimedOnce`); a row
that is still pending has had none (`Fresh`). `ReadyIsKept` needs that a process that
gives a call up has claimed it (`Underway`), for `_attention_transition` by itself would
put a pending row aside.

`AccountProofs`: `NumberReleased`, `GrantFenced`, `ChangesJustified`. `NumberInv` says that
a claim names the number of its profile, that who committed owns the claim and is the
only one (`CommittedOwns`, `OneRelease`), that a number deleted at Twilio is still claimed
on the profile (`DeletedIsClaimed`), that what was bought is not yet anybody's, and that
held and applied evidence is kept. `GrantInv` says that a pair that was presented is
fenced (`PairsAreFenced`), that a PATCH and a request under way are announced by an
intent (`PatchesAreHeld`, `RequestsAreAnnounced`), that a consent is for the grant its
page showed (`ConsentFits`), and that the fields of the record fit each other
(`GrantIsWhole`, `RecordsStand`). The first part of `ChangesJustified` is about numbers that the
worker hands back, whoever else releases: the profile is quiet while a worker holds the claim
(`WorkerIsQuiet`), as evidence that comes cancels the reservation or is held back. It says nothing
of the embedded sweep (section 4).

`JobberProofs`: `DisconnectFenced`. `JobberInv` relates the barrier to its receipts
(`BarriersFit`), lead capture to its account (`CaptureFits`), completed work to all the
account's contractors (`WorkFits`), what the outbox says to what was attempted
(`RevocationFits`), and keeps token pairs apart (`PairsAreUnique`, `RenewalsFit`,
`ClaimsFit`). A binding changes in nine ways (`Drops`, `Fails`, `Takes`, `Marks`,
`Captures`, `Renews`, `Suspends`, `Deletes`, `Connects`), whoever does it: `BindingStep`
covers them once, and each action is shown to be one of them.

`ServiceRequestProofs`: `ProposalOwned`, `AppliedHolds`, `RequestHolds`. `SagaInv` says what
a document is (`DocFits`: a proposal pending or finished, its lease, its attempts) and what a
run remembers of it (`RunFits`); `DocSteps` is the footprint of the repository's transactions.
`RequestHolds` adds `TracksInv`, about request and calendar together: the calendar shows the
canonical values or those of the pending proposal, so it is at most one operation ahead
(`CalendarTracks`); what a caller or the worker takes for confirmed was shown (`RunTracks`);
and every operation that somebody still holds, or that is on the wire, is the pending one or
was shown already (`Live`). A request on the wire may arrive at any time, even when nobody
waits for it: `FirstEffect` says that one which was not applied before belongs to the
pending proposal, and one that was makes the history `repeated`. The argument needs no
reasoning about etags, so it would survive a calendar that ignores them.

`StoreProofs`: `ReceiptsAndGrants`, `ClockNeverBack`, `RecordOfReceipt`. `StoreInv` joins
Apple's transactions, the claims of receipts and the accounts: a bound receipt is one that
was sold and is claimed for that account (`ClaimsHeld`, `BoundToSold`, `SeenIsSold`), what a
handler, the re-check and the phone remember was so when they read it (`CallsFit`,
`RecheckFits`, `PhoneFits`), and a transaction marked as processed had been granted
(`MarkedWasGranted`). An account changes in six ways (`Serves`, `Binds`, `Learns`, `Tokened`,
`Deletes`, `Records`). `RecordOfReceipt` adds `EvidenceInv`: the count on a deleted account is
at least the number of charges on record, answered or being forwarded (`AllOnRecord`).
It assumes `TokensStand`: where an account begins without a token, none is deleted. Without it a token made twice leaves transactions that name no account (section 4);
every world of the run satisfies it.

`DeskProofs`: `DeskHolds`, `DecisionsHold`, both of `DeskSpec`, without the bounds of the
run. Each part has an inductive invariant of its own, and `DeskInv` is their conjunction.

- `SmsInv`: a consent is no newer than the owner's last word (`ConsentIsOfItsRevision`), a
  handler and a text work with the consent of the revision they read (`AcceptedAsShown`), and the
  revision counts each recorded word and refusal once.
- `EnrollInv`: a run of the US service that has noted no creation has made none and has none under
  way, and what it noted was created (`KnowsWhatItDid`).
- `LinkInv`: what an upload's handler and a sweep may still do fits the document and the texts
  sent (`UploadFits`, `SweepFits`, `DocumentFits`), and an announcement is claimed by one sweep
  (`SweepsApart`).
- `CaseInv`: the status vector, the open action, the assets and the receipt lanes fit each other
  (`StageFits`, `ActionFits`, `AssetsFit`). That an offered action is accepted
  (`OfferIsAccepted`) needs room in the ordinary lane: `BudgetsFit` bounds the receipts there
  plus those still to come by what was granted, 28 in all, 4 more for each question and 3 for
  each retry. `TriageAssumption` asks for that much room; the code's lane has 64, the sum of its
  own limits is 45.
- `CallInv`: while a line waits it has waited less than the set-up margin, and its lease and its
  token cover the rest (`LineFits`); while a stream is open the lease outlives it (`StreamFits`).
  `BreakerInv`: a delivery is of a trigger that fired not long before it, what came past the
  suspension found it made, and an account is restored when no delivery is fresh any more.
- `AuthorityInv`: a closed adapter admits nobody, an adapter that admits nobody holds no
  permit, a silenced act holds none, and what is permitted of a waiting response is on its
  record (`PendFits`). The reducers are pure, so each operator is shown once to give a speech that
  is `Later` than its argument: of the same acts, with nothing regained and nothing newly
  permitted. Operators that are built from others follow by composition.
- `ChoiceEnded`: a choice that ended speaks no more, and its receipt was issued when its
  transaction was over and its pair retired.

*Model-checked only.*

- Liveness (fairness and `ENABLED` are beyond the prover): `HoldEnds`, `RingIsAnswered`,
  `RecoveryResumes`, `DueIsSettled`, `PendingIsSettled`, `CallerIsNotLeft`.
- Of `PaidIsServed` the part `PaidIsActive`, which does not hold in general: another
  account's claim of the receipt is one of the ways. The other half is in `ReceiptsAndGrants`.
- `HoldIsHonest`, `SpeechKeepsItsOrder` and `SpeechIsAnswerable`: not proved. The first two are
  about the three pipelines, the third about the order of acts, timers and permits.

Each invariant above was checked with TLC on the instances of the runs before it was
proved.

## 6. Plan

1. Proofs: `SpeechIsAnswerable`, from `AuthorityInv`; then `HoldIsHonest`.
2. `OwnerDialIn`: dial-in, urgent hand-off and status callbacks as further actors of
   `OwnerCall`.
3. The session authentication and the scripted journeys of the bakeoff; customer memory.
