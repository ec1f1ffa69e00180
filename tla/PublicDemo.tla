------------------------------- MODULE PublicDemo -------------------------------
(***************************************************************************)
(* The public phone demo (src/app/webhooks/public_demo.py): a call is       *)
(* admitted against a daily budget and a concurrency lease, its stream is   *)
(* claimed once and cut off after a fixed time, and the usage trigger of    *)
(* the provider suspends the account, which only an operator restores       *)
(* (src/app/services/public_demo.py, public_demo_breaker.py).               *)
(*                                                                          *)
(* A lease, a claim or a token is the instant it expires at, 0 for none. A  *)
(* transaction may fail, or commit and lose its answer. Signatures and the  *)
(* limit per caller are choices: what they refuse changes nothing else.     *)
(***************************************************************************)
EXTENDS Naturals, FiniteSets

CONSTANTS
    DemoCalls,
    Replayed,               \* the calls whose token a second WebSocket presents
    Deliveries,             \* of the usage callback: Twilio repeats what was not answered with 200
    ConcurrencyLimit, DailyLimit,
    MaxDuration,            \* public_demo_max_call_duration_seconds
    Setup,                  \* the margin in which a stream is opened
    LeaseTTL,               \* public_demo_lease_ttl_seconds
    MaxAge, Skew,           \* PUBLIC_DEMO_USAGE_TRIGGER_MAX_AGE_SECONDS and the accepted clock skew
    LastInstant, MaxDemoFaults  \* bounds

\* What the service refuses to start without.
validate_runtime_safety ==
    /\ {ConcurrencyLimit, DailyLimit, MaxDuration, Setup} \subseteq Nat \ {0}
    /\ {LeaseTTL, MaxAge, Skew, LastInstant, MaxDemoFaults} \subseteq Nat
    /\ LeaseTTL >= MaxDuration + Setup
    /\ Replayed \subseteq DemoCalls

ASSUME DemoAssumption == validate_runtime_safety

\* The WebSockets that present the token of a call: pairs <<call, number>>.
Streams == {<<c, 1>> : c \in DemoCalls} \cup {<<c, 2>> : c \in Replayed}

VARIABLES
    now,
    leases, used,       \* the documents concurrency_v1 and the bucket of the day
    claims,             \* public_demo_stream_claims of the calls
    line,               \* each call at Twilio: where it is, since when, and its token
    handler,            \* handle_public_demo_incoming, for each call
    stream,             \* public_demo_stream_ws
    served,             \* how many streams of each call were served
    account, seal,      \* the Twilio child; the claim of the usage callback
    fired, heard,       \* when the trigger says it fired, and its last delivery
    delivery, restored,
    demoFaults

calls == <<leases, used, claims, line, handler, stream, served>>
breaker == <<account, seal, fired, heard, delivery, restored>>
demo == <<now, calls, breaker, demoFaults>>

DemoInit ==
    /\ now = 0
    /\ leases = [c \in DemoCalls |-> 0] /\ used = 0 /\ claims = [c \in DemoCalls |-> 0]
    /\ line = [c \in DemoCalls |-> [at |-> "none", since |-> 0, token |-> 0]]
    /\ handler = [c \in DemoCalls |-> "idle"]
    /\ stream = [s \in Streams |-> [at |-> "idle", since |-> 0]]
    /\ served = [c \in DemoCalls |-> 0]
    /\ account = "active" /\ seal = "absent" /\ fired = 0 /\ heard = 0
    /\ delivery = [d \in Deliveries |-> "idle"] /\ restored = FALSE
    /\ demoFaults = 0

\* A transaction or a request is answered, fails, or is carried out and its answer lost.
Answered(answer) ==
    /\ answer = "ok" \/ demoFaults < MaxDemoFaults
    /\ demoFaults' = IF answer = "ok" THEN demoFaults ELSE demoFaults + 1

Outcomes == {"ok", "failed", "lost"}

------------------------------------------------------------------------------
(* The leases.                                                              *)

\* prune_public_demo_leases
LiveLeases == {c \in DemoCalls : leases[c] > now}
Pruned == [c \in DemoCalls |-> IF c \in LiveLeases THEN leases[c] ELSE 0]

\* apply_public_demo_lease_acquire: a call renews its own lease.
Acquirable(c) == c \in LiveLeases \/ Cardinality(LiveLeases) < ConcurrencyLimit
Acquired(c) == IF Acquirable(c) THEN [Pruned EXCEPT ![c] = now + LeaseTTL] ELSE Pruned

\* release_public_demo_lease: an uncertain release is not repeated.
Releases(c) ==
    \E answer \in Outcomes :
        /\ Answered(answer)
        /\ leases' = IF answer = "failed" THEN leases ELSE [Pruned EXCEPT ![c] = 0]

------------------------------------------------------------------------------
(* A call at Twilio.                                                        *)

LineGoes(c, at) == line' = [line EXCEPT ![c].at = at, ![c].since = 0]

\* A suspended account takes no calls.
Rings(c) ==
    /\ line[c].at = "none" /\ account = "active"
    /\ line' = [line EXCEPT ![c] = [at |-> "asking", since |-> now, token |-> 0]]
    /\ handler' = [handler EXCEPT ![c] = "acquire"]
    /\ UNCHANGED <<now, leases, used, claims, stream, served, breaker, demoFaults>>

\* Twilio tires of the incoming webhook; handle_public_demo_fallback releases and hangs up.
FallsBack(c) ==
    /\ line[c].at = "asking"
    /\ Releases(c) /\ LineGoes(c, "over")
    /\ UNCHANGED <<now, used, claims, handler, stream, served, breaker>>

HangsUp(c) ==
    /\ line[c].at \in {"asking", "told", "streaming"}
    /\ LineGoes(c, "over")
    /\ UNCHANGED <<now, leases, used, claims, handler, stream, served, breaker, demoFaults>>

\* handle_public_demo_status, once: the status of a call that is over.
Reports(c) ==
    /\ line[c].at = "over"
    /\ Releases(c) /\ LineGoes(c, "reported")
    /\ UNCHANGED <<now, used, claims, handler, stream, served, breaker>>

------------------------------------------------------------------------------
(* handle_public_demo_incoming                                              *)

\* A TwiML that hangs up; it comes too late for a line that has fallen back.
Refuse(c) ==
    /\ handler' = [handler EXCEPT ![c] = "done"]
    /\ IF line[c].at = "asking" THEN LineGoes(c, "over") ELSE UNCHANGED line

\* check_and_increment for the caller, then acquire_public_demo_lease.
Acquires(c) ==
    /\ handler[c] = "acquire"
    /\ \/ Refuse(c) /\ UNCHANGED <<leases, demoFaults>>
       \/ \E answer \in Outcomes :
             /\ Answered(answer)
             /\ leases' = IF answer = "failed" THEN leases ELSE Acquired(c)
             /\ IF answer = "ok" /\ Acquirable(c)
                THEN handler' = [handler EXCEPT ![c] = "count"] /\ UNCHANGED line
                ELSE Refuse(c)
    /\ UNCHANGED <<now, used, claims, stream, served, breaker>>

\* check_and_increment for the day, then the token and the TwiML that opens the stream.
Counts(c) ==
    /\ handler[c] = "count"
    /\ \E answer \in Outcomes :
          /\ Answered(answer)
          /\ used' = IF answer # "failed" /\ used < DailyLimit THEN used + 1 ELSE used
          /\ IF answer = "ok" /\ used < DailyLimit
             THEN /\ handler' = [handler EXCEPT ![c] = "done"]
                  /\ line' = IF line[c].at = "asking"
                             THEN [line EXCEPT ![c].at = "told", ![c].token = now + MaxDuration + Setup] ELSE line
             ELSE /\ handler' = [handler EXCEPT ![c] = "giveback"] /\ UNCHANGED line
    /\ UNCHANGED <<now, leases, claims, stream, served, breaker>>

GivesBack(c) ==
    /\ handler[c] = "giveback"
    /\ Releases(c) /\ Refuse(c)
    /\ UNCHANGED <<now, used, claims, stream, served, breaker>>

------------------------------------------------------------------------------
(* public_demo_stream_ws                                                    *)

StreamGoes(s, at) == stream' = [stream EXCEPT ![s] = [at |-> at, since |-> IF at = "claim" THEN now ELSE 0]]

\* verify_public_demo_stream_token
TokenIsGood(c) == now < line[c].token

\* The first stream is opened by the line; another one presents the token again.
Opens(s) ==
    LET c == s[1] IN
    /\ stream[s].at = "idle"
    /\ \/ line[c].at = "told" /\ LineGoes(c, "streaming")
       \/ \E other \in Streams : other[1] = c /\ stream[other].at # "idle" /\ UNCHANGED line
    /\ StreamGoes(s, IF TokenIsGood(c) THEN "claim" ELSE "over")
    /\ UNCHANGED <<now, leases, used, claims, handler, served, breaker, demoFaults>>

\* claim_public_demo_stream; one that is refused closes its socket, which ends a line that has no other.
Claims(s) ==
    LET c == s[1]
        free == claims[c] <= now
        alone == \A other \in Streams \ {s} : other[1] = c => stream[other].at \in {"idle", "over"}
    IN  /\ stream[s].at = "claim"
        /\ \E answer \in Outcomes :
              /\ Answered(answer)
              /\ claims' = IF answer # "failed" /\ free THEN [claims EXCEPT ![c] = now + MaxDuration + Setup] ELSE claims
              /\ IF answer = "ok" /\ free
                 THEN /\ stream' = [stream EXCEPT ![s].at = "serving"]
                      /\ served' = [served EXCEPT ![c] = @ + 1] /\ UNCHANGED line
                 ELSE /\ StreamGoes(s, "over") /\ UNCHANGED served
                      /\ IF alone /\ line[c].at = "streaming" THEN LineGoes(c, "over") ELSE UNCHANGED line
        /\ UNCHANGED <<now, leases, used, handler, breaker>>

\* The pipeline ends: the caller is gone, the provider fails, or _enforce_public_demo_max_duration.
Stops(s) ==
    /\ stream[s].at = "serving"
    /\ StreamGoes(s, "closing")
    /\ IF line[s[1]].at = "streaming" THEN LineGoes(s[1], "over") ELSE UNCHANGED line
    /\ UNCHANGED <<now, leases, used, claims, handler, served, breaker, demoFaults>>

Closes(s) ==
    /\ stream[s].at = "closing"
    /\ Releases(s[1]) /\ StreamGoes(s, "over")
    /\ UNCHANGED <<now, used, claims, line, handler, served, breaker>>

------------------------------------------------------------------------------
(* The usage trigger: handle_public_demo_usage_limit and the private breaker. *)

DeliveryGoes(d, at) == delivery' = [delivery EXCEPT ![d] = at]

\* The clock of the provider may be ahead.
Fires ==
    /\ fired = 0
    /\ \E ahead \in 0..Skew : fired' = now + ahead + 1
    /\ UNCHANGED <<now, calls, account, seal, heard, delivery, restored, demoFaults>>

\* _public_demo_usage_callback_age_is_fresh (instants of the trigger count from 1)
CallbackIsFresh == now + 1 < fired + MaxAge

Delivers(d) ==
    /\ fired > 0 /\ delivery[d] = "idle" /\ "200" \notin {delivery[other] : other \in Deliveries}
    /\ DeliveryGoes(d, IF CallbackIsFresh THEN "trip" ELSE "rejected") /\ heard' = now
    /\ UNCHANGED <<now, calls, account, seal, fired, restored, demoFaults>>

\* trip_public_demo_breaker, suspend_public_demo: the provider is asked before anything is stored.
\* An unanswered request is settled by reading the account.
Trips(d) ==
    /\ delivery[d] = "trip"
    /\ \E answer \in Outcomes :
          /\ Answered(answer)
          /\ account' = IF answer = "failed" \/ ~CallbackIsFresh THEN account ELSE "suspended"
          /\ \E next \in {"claim" : x \in {account'} \cap (IF CallbackIsFresh THEN {"suspended"} ELSE {})}
                        \cup (IF answer = "ok" /\ CallbackIsFresh THEN {} ELSE {"later"}) : DeliveryGoes(d, next)
    /\ UNCHANGED <<now, calls, seal, fired, heard, restored>>

\* claim_public_demo_usage_trigger
Seals(d) ==
    /\ delivery[d] = "claim"
    /\ \E answer \in Outcomes :
          /\ Answered(answer)
          /\ seal' = IF answer # "failed" /\ seal = "absent" THEN "pending" ELSE seal
          /\ DeliveryGoes(d, IF answer # "ok" THEN "later" ELSE IF seal = "completed" THEN "200" ELSE "complete")
    /\ UNCHANGED <<now, calls, account, fired, heard, restored>>

\* complete_public_demo_usage_trigger
Completes(d) ==
    /\ delivery[d] = "complete"
    /\ \E answer \in Outcomes :
          /\ Answered(answer)
          /\ seal' = IF answer = "failed" THEN seal ELSE "completed"
          /\ DeliveryGoes(d, IF answer = "ok" THEN "200" ELSE "later")
    /\ UNCHANGED <<now, calls, account, fired, heard, restored>>

IsTripping(d) == delivery[d] \in {"trip", "claim", "complete"}

\* docs/public-call-demo.md: the operator waits for the age limit and the clock skew after the last delivery.
Restores ==
    /\ account = "suspended" /\ ~restored
    /\ now > heard + MaxAge + Skew /\ \A d \in Deliveries : ~IsTripping(d)
    /\ account' = "active" /\ restored' = TRUE
    /\ UNCHANGED <<now, calls, seal, fired, heard, delivery, demoFaults>>

------------------------------------------------------------------------------

\* Time passes while nothing is overdue: Twilio has its answer and opens the stream before the margin ends,
\* and a stream is cut off in time.
Passes ==
    /\ now < LastInstant
    /\ \A c \in DemoCalls : line[c].at \in {"asking", "told"} => now + 1 < line[c].since + Setup
    /\ \A s \in Streams :
          /\ stream[s].at = "serving" => now < stream[s].since + MaxDuration
          /\ stream[s].at # "claim"
    /\ now' = now + 1
    /\ UNCHANGED <<calls, breaker, demoFaults>>

CallStep(c) == Rings(c) \/ FallsBack(c) \/ HangsUp(c) \/ Reports(c) \/ Acquires(c) \/ Counts(c) \/ GivesBack(c)
StreamStep(s) == Opens(s) \/ Claims(s) \/ Stops(s) \/ Closes(s)
DeliveryStep(d) == Delivers(d) \/ Trips(d) \/ Seals(d) \/ Completes(d)

CallNext ==
    \/ \E c \in DemoCalls : CallStep(c)
    \/ \E s \in Streams : StreamStep(s)
    \/ Passes

BreakerNext ==
    \/ \E d \in Deliveries : DeliveryStep(d)
    \/ Fires \/ Restores \/ Passes

DemoNext == CallNext \/ BreakerNext

------------------------------------------------------------------------------
(* Properties.                                                              *)

DemoTypeOK ==
    /\ now \in Nat /\ leases \in [DemoCalls -> Nat] /\ used \in Nat /\ claims \in [DemoCalls -> Nat]
    /\ line \in [DemoCalls -> [at : {"none", "asking", "told", "streaming", "over", "reported"}, since : Nat, token : Nat]]
    /\ handler \in [DemoCalls -> {"idle", "acquire", "count", "giveback", "done"}]
    /\ stream \in [Streams -> [at : {"idle", "claim", "serving", "closing", "over"}, since : Nat]]
    /\ served \in [DemoCalls -> Nat]
    /\ account \in {"active", "suspended"} /\ seal \in {"absent", "pending", "completed"}
    /\ fired \in Nat /\ heard \in Nat
    /\ delivery \in [Deliveries -> {"idle", "trip", "claim", "complete", "200", "later", "rejected"}]
    /\ restored \in BOOLEAN /\ demoFaults \in Nat

Served(c) == line[c].at = "streaming" /\ \E s \in Streams : s[1] = c /\ stream[s].at = "serving"

\* Callers who are served hold live leases, so there are never more of them than the limit: no lease expires
\* under a call, and nothing but the end of its call gives it back (acquire_public_demo_lease, LeaseTTL).
ServedWithinLimit ==
    /\ \A c \in DemoCalls : Served(c) => c \in LiveLeases
    /\ Cardinality({c \in DemoCalls : Served(c)}) <= ConcurrencyLimit

\* A token serves one stream, although a claim expires, and whoever is served was counted
\* (claim_public_demo_stream, check_and_increment).
ServedOnceAndCounted ==
    /\ \A c \in DemoCalls : served[c] <= 1
    /\ Cardinality({c \in DemoCalls : served[c] > 0}) <= used /\ used <= DailyLimit

\* A callback that is answered or sealed has suspended the account, until the operator restores it.
SealedIsSuspended ==
    (seal # "absent" \/ \E d \in Deliveries : delivery[d] = "200") => account = "suspended" \/ restored

\* No late delivery suspends the account that the operator has restored.
RestoredStaysRestored == [][restored => account' = account]_demo
=============================================================================
