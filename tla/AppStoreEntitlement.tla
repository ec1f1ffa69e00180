-------------------------- MODULE AppStoreEntitlement --------------------------
(***************************************************************************)
(* What Apple sells and what Kevin serves: subscriptions bought on the      *)
(* phone, the notifications Apple sends about them, the phone's own         *)
(* verification of its transactions, the re-check of a stale account and    *)
(* the replay of notifications that were never accepted.                    *)
(*                                                                          *)
(* Apple keeps the transactions; each belongs to a receipt chain, which     *)
(* Kevin binds to the first account that claims it. An account's token      *)
(* (appAccountToken, the account's subscription_uuid) is in the transaction *)
(* since the purchase. All accounts here belong to one person: after a      *)
(* deletion the next account is the person's rebound.                       *)
(***************************************************************************)
EXTENDS Integers, Sequences, FiniteSets

CONSTANTS
    Worlds,         \* what a history may be about: the fields of world
    None

VARIABLES
    world,          \* the one of Worlds a history takes place in
    now,            \* one tick is the shortest paid term
    txs,            \* Apple's transactions, oldest first
    notes,          \* Apple's notifications, in the order of signedDate
    renews,         \* whether a chain is set to renew
    outbox,         \* the notifications Apple still tries to deliver
    failed,         \* those it has given up
    accepted,       \* those answered 200
    handlers,       \* the webhook's calls, by notification
    accounts,       \* contractors/{id}
    claims,         \* apple_transactions/{original_transaction_id}
    seen,           \* contractors/{id}/transactions/{transaction_id}
    release,        \* the number-release claim of an account, as seen by an update
    phone,          \* the person's phone: StoreKit's queue and what it verifies
    verifies,       \* the calls of /api/subscription/verify, by transaction
    recheck,        \* the background re-check of one account
    ensuring,       \* requests that found an account without subscription_uuid, and the token each makes
    granted,        \* which transaction activated which account (history)
    faults

Accounts  == world.accounts
Receipts  == world.receipts
Tiers     == world.tiers
Deleted   == world.deleted      \* the accounts that are deleted at the start
Untokened == world.untokened    \* legacy accounts without a subscription_uuid
Unbound   == world.unbound      \* legacy subscribers: a processed transaction, no bound receipt
Releasing == world.releasing    \* accounts whose number may be in the middle of a release
Events    == world.events       \* what Apple and the person may do
InOrder   == world.inOrder      \* Apple's notifications arrive one by one, in order
ReplayWhen == world.replay      \* "never", "quiet": while nothing else goes on, "any"
MaxTx     == world.bounds.tx
MaxNotes  == world.bounds.notes
MaxTime   == world.bounds.time
MaxFaults == world.bounds.faults
MaxAttempts == world.bounds.attempts
MaxRechecks == world.bounds.rechecks

\* The worlds make sense.
ASSUME WorldsAssumption ==
  /\ None \notin {"active", "inactive"}
  /\ \A w \in Worlds :
        /\ w.inOrder \in BOOLEAN /\ w.replay \in {"never", "quiet", "any"}
        /\ w.deleted \cup w.untokened \cup w.unbound \cup w.releasing \subseteq w.accounts
        /\ w.unbound # {} => w.receipts # {} /\ w.tiers # {} /\ w.bounds.tx > 0
        /\ None \notin w.accounts \cup w.receipts \cup w.tiers
        /\ w.bounds \in [{"tx", "notes", "time", "faults", "attempts", "rechecks"} -> Nat]

apple == <<txs, notes, renews>>
delivery == <<outbox, failed, accepted, handlers>>
device == <<phone, verifies>>
vars == <<world, now, apple, delivery, accounts, claims, seen, release, device, recheck, ensuring, granted, faults>>

Charges == {"DID_RENEW", "SUBSCRIBED"}
Terminal == {"EXPIRED", "REFUND"}
NoteTypes == Charges \cup Terminal \cup {"UPGRADE", "DID_FAIL_TO_RENEW", "DID_CHANGE_RENEWAL_STATUS"}

\* post_deletion_billing of an account that has no notification yet.
NoBilling == [count |-> 0, charges |-> 0, tx |-> 0, type |-> None, orig |-> None, auto |-> None, clock |-> 0]

\* An account as it is created: on trial for one tick, with a token unless it is an old one.
NewAccount(c) ==
    [active |-> c \notin Deleted, uuid |-> IF c \in Untokened THEN 0 ELSE 1, status |-> "trial", tier |-> None,
     expires |-> 1, orig |-> None, auto |-> None, clock |-> 0, from |-> None, deletedAt |-> 0, bill |-> NoBilling]

Tx(t) == txs[t]
Chain(r) == {t \in DOMAIN txs : txs[t].orig = r}
Last(r) == CHOOSE t \in Chain(r) : \A u \in Chain(r) : u <= t
Owner(t) == txs[t].token.acct

\* What Apple would say of a transaction now.
Current(t) == ~txs[t].revoked /\ txs[t].expires > now
PaidFor(c) == {t \in DOMAIN txs : Current(t) /\ txs[t].token = [acct |-> c, uuid |-> accounts[c].uuid] /\ t = Last(txs[t].orig)}

Idle == [pc |-> "idle"]
Init ==
    /\ world \in Worlds
    /\ LET earlier == [orig |-> CHOOSE x \in Receipts : TRUE, tier |-> CHOOSE x \in Tiers : TRUE,
                       token |-> [acct |-> CHOOSE c \in Unbound : TRUE, uuid |-> 1],
                       purchase |-> 0, expires |-> 2, revoked |-> FALSE]
       IN  /\ now = 0
           /\ txs = IF Unbound = {} THEN << >> ELSE <<earlier>>
           /\ notes = << >>
           /\ renews = [r \in Receipts |-> TRUE]
           /\ outbox = {} /\ failed = {} /\ accepted = {}
           /\ handlers = [i \in 1..MaxNotes |-> Idle]
           /\ accounts = [c \in Accounts |->
                   IF c \in Unbound THEN [NewAccount(c) EXCEPT !.status = "active", !.tier = txs[1].tier, !.expires = 2]
                                    ELSE NewAccount(c)]
           /\ claims = [r \in Receipts |-> None]
           /\ seen = [c \in Accounts |-> [t \in 1..MaxTx |-> IF c \in Unbound /\ t = 1 THEN "active" ELSE None]]
           /\ release = [c \in Accounts |-> "free"]
           /\ phone = [acct |-> IF Accounts \subseteq Deleted THEN None ELSE CHOOSE c \in Accounts : c \notin Deleted,
                       token |-> 0, queue |-> DOMAIN txs, todo |-> [t \in 1..MaxTx |-> IF t \in DOMAIN txs THEN MaxAttempts ELSE 0]]
           /\ verifies = [t \in 1..MaxTx |-> Idle]
           /\ recheck = [pc |-> "idle", left |-> MaxRechecks, acct |-> None, expires |-> 0, orig |-> None, tx |-> 0]
           /\ ensuring = {}
           /\ granted = {<<c, 1>> : c \in Unbound}
           /\ faults = 0

-----------------------------------------------------------------------------
(* Apple, and the person.                                                   *)

Calm == ReplayWhen = "quiet" => \A i \in DOMAIN handlers : handlers[i].pc = "idle"

\* Apple signs a notification about a transaction.
Signed(type, t, auto) == [type |-> type, tx |-> t, auto |-> auto]
Emit(note) ==
    /\ Len(notes) < MaxNotes
    /\ notes' = Append(notes, note)
    /\ outbox' = outbox \cup {Len(notes) + 1}
    /\ UNCHANGED <<failed, accepted, handlers>>

\* A transaction of the chain; the phone hears of it through Transaction.updates.
Sold(r, tier, token, type) ==
    LET t == Len(txs) + 1
    IN  /\ t <= MaxTx
        /\ txs' = Append(txs, [orig |-> r, tier |-> tier, token |-> token, purchase |-> now,
                               expires |-> now + 2, revoked |-> FALSE])
        /\ phone' = [phone EXCEPT !.queue = @ \cup {t}, !.todo[t] = MaxAttempts]
        /\ Emit(Signed(type, t, TRUE))
        /\ renews' = [renews EXCEPT ![r] = TRUE]

\* purchase(): with the token of the account that the phone's profile names.
purchase(r, tier) ==
    /\ "SUBSCRIBED" \in Events /\ Calm
    /\ phone.acct # None /\ phone.token # 0
    /\ Chain(r) # {} => ~Current(Last(r)) /\ now > txs[Last(r)].purchase
    /\ Sold(r, tier, [acct |-> phone.acct, uuid |-> phone.token], "SUBSCRIBED")
    /\ UNCHANGED <<now, accounts, claims, seen, release, verifies, recheck, ensuring, granted, faults>>

\* A renewal comes in the last tick of the term or after a billing retry; an upgrade at once.
Renew(r, tier, type) ==
    /\ type \in Events /\ Calm
    /\ Chain(r) # {} /\ renews[r]
    /\ LET l == txs[Last(r)]
       IN  /\ ~l.revoked /\ now > l.purchase
           /\ type = "DID_RENEW" => tier = l.tier
           /\ type = "UPGRADE" => tier # l.tier /\ l.expires > now
           /\ Sold(r, tier, l.token, type)
    /\ UNCHANGED <<now, accounts, claims, seen, release, verifies, recheck, ensuring, granted, faults>>

\* The term of a chain is over, its payment fails, it is refunded, or its renewal is switched.
Ends(r, type) ==
    /\ type \in Events /\ Calm
    /\ Chain(r) # {}
    /\ LET l == Last(r)
       IN  /\ \A i \in DOMAIN notes : notes[i].tx = l => notes[i].type \notin Terminal
           /\ CASE type = "EXPIRED" -> txs[l].expires <= now /\ UNCHANGED <<txs, renews>>
                [] type = "DID_FAIL_TO_RENEW" -> txs[l].expires <= now /\ UNCHANGED <<txs, renews>>
                [] type = "REFUND" -> Current(l) /\ txs' = [txs EXCEPT ![l].revoked = TRUE] /\ UNCHANGED renews
                [] OTHER -> renews' = [renews EXCEPT ![r] = ~@] /\ UNCHANGED txs
           /\ Emit(Signed(type, l, IF type = "DID_CHANGE_RENEWAL_STATUS" THEN ~renews[r] ELSE FALSE))
    /\ UNCHANGED <<now, accounts, claims, seen, release, device, recheck, ensuring, granted, faults>>

Tick ==
    /\ now < MaxTime /\ Calm
    /\ now' = now + 1
    /\ UNCHANGED <<apple, delivery, accounts, claims, seen, release, device, recheck, ensuring, granted, faults>>

\* ensure_subscription_uuid: a profile request reads the account and, without a token, makes one.
\* The write is not a transaction: it replaces whatever a request in between has written.
ReadProfile(p) ==
    LET c == phone.acct
    IN  /\ c # None
        /\ IF accounts[c].uuid = 0
           THEN <<c, p>> \notin ensuring /\ ensuring' = ensuring \cup {<<c, p>>} /\ UNCHANGED phone
           ELSE /\ phone.token # accounts[c].uuid /\ phone' = [phone EXCEPT !.token = accounts[c].uuid]
                /\ UNCHANGED ensuring
        /\ UNCHANGED <<now, apple, delivery, accounts, claims, seen, release, verifies, recheck, granted, faults>>

ensure_subscription_uuid(c, p) ==
    /\ <<c, p>> \in ensuring
    /\ ensuring' = ensuring \ {<<c, p>>}
    /\ accounts' = [accounts EXCEPT ![c].uuid = p]
    /\ phone' = [phone EXCEPT !.token = IF c = phone.acct THEN p ELSE @]
    /\ UNCHANGED <<now, apple, delivery, claims, seen, release, verifies, recheck, granted, faults>>

\* The account is deleted; a phone that was signed in to it goes on with the person's next one.
deactivate_contractor(c) ==
    /\ "delete" \in Events
    /\ accounts[c].active /\ release[c] = "free"
    /\ accounts' = [accounts EXCEPT ![c].active = FALSE, ![c].deletedAt = now]
    /\ LET rest == {d \in Accounts \ {c} : accounts[d].active}
       IN  phone' = IF c # phone.acct THEN phone
                    ELSE [phone EXCEPT !.acct = IF rest = {} THEN None ELSE CHOOSE d \in rest : TRUE,
                                       !.token = 0, !.todo = [t \in 1..MaxTx |-> 0]]
    /\ UNCHANGED <<now, apple, delivery, claims, seen, release, verifies, recheck, ensuring, granted, faults>>

\* A number release crosses the point of no return, and is finished unless an update came in between.
BeginRelease(c) ==
    /\ c \in Releasing /\ release[c] = "free"
    /\ release' = [release EXCEPT ![c] = "deleting"]
    /\ UNCHANGED <<now, apple, delivery, accounts, claims, seen, device, recheck, ensuring, granted, faults>>

EndRelease(c) ==
    /\ release[c] = "deleting"
    /\ release' = [release EXCEPT ![c] = "free"]
    /\ UNCHANGED <<now, apple, delivery, accounts, claims, seen, device, recheck, ensuring, granted, faults>>

-----------------------------------------------------------------------------
(* Writes to the account, each one transaction.                             *)

Held(c) == release[c] # "free"
\* apply_release_aware_contractor_update: an update during a deletion is kept for an operator.
Update(c, new) ==
    IF Held(c)
    THEN release' = [release EXCEPT ![c] = "needs_attention"] /\ UNCHANGED accounts
    ELSE accounts' = [accounts EXCEPT ![c] = new] /\ UNCHANGED release

\* Seeded fault: a receipt goes to whoever asks for it.
MayTakeOver(r, c) == r \in Receipts /\ c \in Accounts
\* claim_transaction: the first account to claim a receipt keeps it.
MayClaim(r, c) == claims[r] \in {None, c}
Claimed(r, c) == [claims EXCEPT ![r] = c]

\* Seeded fault: a term is added to the one on record.
Extended(a, t) == [a EXCEPT !.tier = txs[t].tier, !.status = "active", !.expires = @ + 2]

\* The fields that a paid term sets.
Renewed(a, t) == [a EXCEPT !.tier = txs[t].tier, !.status = "active", !.expires = txs[t].expires]
\* Seeded fault: the renewal status of the former receipt stays.
BoundOverStatus(a, r) == [a EXCEPT !.orig = r]
\* An account that changes its receipt forgets the renewal status of the former one.
Bound(a, r) == [a EXCEPT !.orig = r, !.auto = None, !.clock = 0]
Activation(a, t) ==
    [Renewed(IF a.orig = txs[t].orig THEN a ELSE Bound(a, txs[t].orig), t) EXCEPT !.from = None]
Ended(a) == [a EXCEPT !.status = "expired"]

\* conditionally_backfill_subscription_binding: only for the term that is on record.
SameTerm(a, t) == a.status = "active" /\ a.tier = txs[t].tier /\ a.expires = txs[t].expires
Backfilled(c, t) ==
    accounts[c].active /\ accounts[c].uuid = txs[t].token.uuid /\ SameTerm(accounts[c], t) /\ accounts[c].orig = None

-----------------------------------------------------------------------------
(* The webhook: handle_appstore_notification, read by read.                 *)

Note(i) == notes[i]
Done(i) ==
    /\ handlers' = [handlers EXCEPT ![i] = Idle]
    /\ outbox' = outbox \ {i} /\ failed' = failed \ {i}
    /\ accepted' = accepted \cup {i}
At(i, pc) == handlers[i].pc = pc
GoTo(i, pc) == handlers' = [handlers EXCEPT ![i].pc = pc] /\ UNCHANGED <<outbox, failed, accepted>>

\* The person's account that is live now, found by the Apple user.
Rebound(c) == IF \E d \in Accounts \ {c} : accounts[d].active
              THEN CHOOSE d \in Accounts \ {c} : accounts[d].active ELSE None

\* The account is looked up by its token: live, deleted (with its rebound), or not at all.
LookUp(i) ==
    LET t == Note(i).tx
        c == Owner(t)
        b == Rebound(c)
        live == [pc |-> "claim", legacy |-> accounts[c].orig = None /\ SameTerm(accounts[c], t)]
        gone == [pc |-> "record", rebound |-> b, rstatus |-> IF b = None THEN None ELSE accounts[b].status,
                 rfrom |-> IF b = None THEN None ELSE accounts[b].from]
    IN  IF accounts[c].uuid # txs[t].token.uuid
        THEN Done(i)
        ELSE /\ handlers' = [handlers EXCEPT ![i] = IF accounts[c].active THEN live ELSE gone]
             /\ UNCHANGED <<outbox, failed, accepted>>

Deliver(i) ==
    /\ i \in outbox /\ At(i, "idle")
    /\ InOrder => /\ \A j \in outbox : i <= j
                  /\ \A j \in DOMAIN handlers : At(j, "idle")
    /\ LookUp(i)
    /\ UNCHANGED <<now, apple, accounts, claims, seen, release, device, recheck, ensuring, granted, faults>>

claim_transaction(i) ==
    /\ At(i, "claim")
    /\ LET t == Note(i).tx
           r == txs[t].orig
       IN  IF MayClaim(r, Owner(t))
           THEN /\ claims' = Claimed(r, Owner(t))
                /\ GoTo(i, IF Note(i).type = "DID_CHANGE_RENEWAL_STATUS" THEN "backfill" ELSE "write")
           ELSE Done(i) /\ UNCHANGED claims
    /\ UNCHANGED <<now, apple, accounts, seen, release, device, recheck, ensuring, granted, faults>>

\* A subscriber from before receipts were bound: the binding is filled in from a notification.
conditionally_backfill(i) ==
    /\ At(i, "backfill")
    /\ LET t == Note(i).tx
       IN  IF handlers[i].legacy /\ Current(t) /\ Backfilled(Owner(t), t)
           THEN Update(Owner(t), Bound(accounts[Owner(t)], txs[t].orig))
           ELSE UNCHANGED <<accounts, release>>
    /\ GoTo(i, "renewal")
    /\ UNCHANGED <<now, apple, claims, seen, device, recheck, ensuring, granted, faults>>

\* Seeded fault: the time of signing is not compared.
record_any_renewal_status(i) ==
    /\ At(i, "renewal")
    /\ LET t == Note(i).tx
           a == accounts[Owner(t)]
       IN  IF a.active /\ a.orig = txs[t].orig
           THEN Update(Owner(t), [a EXCEPT !.auto = Note(i).auto, !.clock = i])
           ELSE UNCHANGED <<accounts, release>>
    /\ Done(i)
    /\ UNCHANGED <<now, apple, claims, seen, device, recheck, ensuring, granted, faults>>
\* Only for the receipt the account is bound to, and only if it was signed later.
record_active_renewal_status(i) ==
    /\ At(i, "renewal")
    /\ LET t == Note(i).tx
           a == accounts[Owner(t)]
       IN  IF a.active /\ a.orig = txs[t].orig /\ i > a.clock
           THEN Update(Owner(t), [a EXCEPT !.auto = Note(i).auto, !.clock = i])
           ELSE UNCHANGED <<accounts, release>>
    /\ Done(i)
    /\ UNCHANGED <<now, apple, claims, seen, device, recheck, ensuring, granted, faults>>

\* The write of the other notifications: neither the account's state nor its term is looked at again.
update_contractor(i) ==
    /\ At(i, "write")
    /\ LET t == Note(i).tx
           type == Note(i).type
       IN  CASE type \in Charges \cup {"UPGRADE"} /\ txs[t].expires > now -> Update(Owner(t), Renewed(accounts[Owner(t)], t))
             [] type \in Terminal -> Update(Owner(t), Ended(accounts[Owner(t)]))
             [] OTHER -> UNCHANGED <<accounts, release>>
    /\ Done(i)
    /\ UNCHANGED <<now, apple, claims, seen, device, recheck, ensuring, granted, faults>>

\* Evidence for a deleted account. A repetition of the last one is dropped; the clock of its
\* renewal status moves forward within a chain.
NewerRenewal(a, r, i) ==
    /\ Note(i).type = "DID_CHANGE_RENEWAL_STATUS"
    /\ IF a.bill.orig = r THEN i > a.bill.clock ELSE a.orig = r
\* Seeded fault: the type alone tells a repetition.
RepeatedType(a, i) == a.bill.type = <<Note(i).type, Note(i).auto>>
Repeated(a, i) == a.bill.tx = Note(i).tx /\ a.bill.type = <<Note(i).type, Note(i).auto>>
ChargedAfter(a, i) == Note(i).type \in Charges /\ txs[Note(i).tx].purchase > a.deletedAt
Recorded(a, i) ==
    LET r == txs[Note(i).tx].orig
        b == IF NewerRenewal(a, r, i) THEN [a.bill EXCEPT !.orig = r, !.auto = Note(i).auto, !.clock = i] ELSE a.bill
    IN  IF Repeated(a, i) THEN b
        ELSE [b EXCEPT !.count = @ + 1, !.charges = @ + IF ChargedAfter(a, i) THEN 1 ELSE 0,
                       !.tx = Note(i).tx, !.type = <<Note(i).type, Note(i).auto>>]

record_inactive_notification(i) ==
    /\ At(i, "record")
    /\ LET c == Owner(Note(i).tx)
           h == handlers[i]
           forward == \/ Note(i).type \in Charges /\ h.rstatus # "active" /\ txs[Note(i).tx].expires > now
                      \/ Note(i).type \in Terminal /\ h.rfrom = c
       IN  /\ accounts' = [accounts EXCEPT ![c].bill = Recorded(accounts[c], i)]
           /\ IF h.rebound # None /\ forward /\ ~Repeated(accounts[c], i) THEN GoTo(i, "forward") ELSE Done(i)
    /\ UNCHANGED <<now, apple, claims, seen, release, device, recheck, ensuring, granted, faults>>

\* The person's next account gets what the deleted one pays for, and loses it with it.
Forward(i) ==
    /\ At(i, "forward")
    /\ LET t == Note(i).tx
           d == handlers[i].rebound
       IN  Update(d, IF Note(i).type \in Charges THEN [Renewed(accounts[d], t) EXCEPT !.from = Owner(t)]
                                                 ELSE Ended(accounts[d]))
    /\ Done(i)
    /\ UNCHANGED <<now, apple, claims, seen, device, recheck, ensuring, granted, faults>>

\* The call dies or answers 500: Apple tries again. A failed forward is caught and answered 200.
Crash(i) ==
    /\ faults < MaxFaults /\ ~At(i, "idle")
    /\ faults' = faults + 1
    /\ handlers' = [handlers EXCEPT ![i] = Idle]
    /\ outbox' = IF i \in failed THEN outbox ELSE outbox \cup {i}
    /\ UNCHANGED <<failed, accepted, now, apple, accounts, claims, seen, release, device, recheck, ensuring, granted>>

ForwardFails(i) ==
    /\ faults < MaxFaults /\ At(i, "forward")
    /\ faults' = faults + 1
    /\ Done(i)
    /\ UNCHANGED <<now, apple, accounts, claims, seen, release, device, recheck, ensuring, granted>>

\* The answer is lost and the notification comes again; or Apple gives it up.
Redeliver(i) ==
    /\ ~InOrder /\ faults < MaxFaults
    /\ i \in accepted /\ i \notin outbox /\ At(i, "idle")
    /\ faults' = faults + 1
    /\ outbox' = outbox \cup {i}
    /\ UNCHANGED <<failed, accepted, handlers, now, apple, accounts, claims, seen, release, device, recheck, ensuring, granted>>

GiveUp(i) ==
    /\ faults < MaxFaults
    /\ i \in outbox /\ i \notin accepted /\ At(i, "idle")
    /\ faults' = faults + 1
    /\ outbox' = outbox \ {i} /\ failed' = failed \cup {i}
    /\ UNCHANGED <<accepted, handlers, now, apple, accounts, claims, seen, release, device, recheck, ensuring, granted>>

-----------------------------------------------------------------------------
(* replay: the owner runs the notifications that failed through the handler. *)

\* Seeded fault: no deactivation is stale.
is_never_stale(i) == i \notin DOMAIN notes
\* A deactivation older than the term on record is skipped.
is_stale_deactivation(i) ==
    LET t == Note(i).tx
        c == Owner(t)
    IN  /\ Note(i).type \in Terminal \cup {"DID_FAIL_TO_RENEW"}
        /\ accounts[c].active /\ accounts[c].uuid = txs[t].token.uuid
        /\ accounts[c].expires > txs[t].expires

replay(i) ==
    /\ i \in failed /\ At(i, "idle") /\ \A j \in failed : i <= j
    /\ CASE ReplayWhen = "never" -> FALSE
         [] ReplayWhen = "quiet" -> outbox = {} /\ \A j \in DOMAIN handlers : At(j, "idle")
         [] OTHER -> \A j \in failed : At(j, "idle")
    /\ IF is_stale_deactivation(i)
       THEN failed' = failed \ {i} /\ UNCHANGED <<outbox, accepted, handlers>>
       ELSE handlers' = [handlers EXCEPT ![i] = [pc |-> "replayed"]] /\ UNCHANGED <<outbox, failed, accepted>>
    /\ UNCHANGED <<now, apple, accounts, claims, seen, release, device, recheck, ensuring, granted, faults>>

Handle(i) ==
    /\ At(i, "replayed")
    /\ LookUp(i)
    /\ UNCHANGED <<now, apple, accounts, claims, seen, release, device, recheck, ensuring, granted, faults>>

-----------------------------------------------------------------------------
(* The phone and /api/subscription/verify.                                  *)

Asked(t, pc) == verifies[t].pc = pc
Step(t, pc) == verifies' = [verifies EXCEPT ![t].pc = pc]

\* verifyWithServer, and the lookup of a transaction that was processed before.
verify(t) ==
    LET c == phone.acct
        known == seen[c][t]
    IN  /\ "verify" \in Events
        /\ c # None /\ phone.todo[t] > 0 /\ Asked(t, "idle")
        /\ verifies' = [verifies EXCEPT ![t] =
               [acct |-> c, revoked |-> FALSE,
                mine |-> txs[t].token = [acct |-> c, uuid |-> accounts[c].uuid], same |-> SameTerm(accounts[c], t),
                pc |-> CASE known = "inactive" -> "inactive"
                         [] known = "active" /\ accounts[c].orig # None -> "active"
                         [] known = "active" /\ accounts[c].orig = None -> "repair"
                         [] OTHER -> "apple"]]
        /\ UNCHANGED <<now, apple, delivery, accounts, claims, seen, release, phone, recheck, ensuring, granted, faults>>

\* verify_transaction_strict: Apple is asked, and answers.
AskApple(t) ==
    /\ \E next \in {<<"apple", "claim">>, <<"repair", "check">>} :
          Asked(t, next[1]) /\ verifies' = [verifies EXCEPT ![t].pc = next[2], ![t].revoked = txs[t].revoked]
    /\ UNCHANGED <<now, apple, delivery, accounts, claims, seen, release, phone, recheck, ensuring, granted, faults>>

\* Apple cannot be reached, the limiter refuses, or the request is lost on the way.
Unanswered(t) ==
    /\ faults < MaxFaults /\ verifies[t].pc \notin {"idle", "active", "inactive", "rejected", "retry"}
    /\ faults' = faults + 1
    /\ Step(t, "retry")
    /\ UNCHANGED <<now, apple, delivery, accounts, claims, seen, release, phone, recheck, ensuring, granted>>

\* update_subscription_from_transaction: ownership, then the claim of the receipt.
ClaimVerified(t) ==
    /\ Asked(t, "claim")
    /\ LET c == verifies[t].acct
       IN  IF txs[t].token = [acct |-> c, uuid |-> accounts[c].uuid] /\ MayClaim(txs[t].orig, c)
           THEN claims' = Claimed(txs[t].orig, c) /\ Step(t, "activate")
           ELSE Step(t, "rejected") /\ UNCHANGED claims
    /\ UNCHANGED <<now, apple, delivery, accounts, seen, release, phone, recheck, ensuring, granted, faults>>

\* Seeded fault: an activation held for a number release counts as done.
activate_or_hold(t) ==
    /\ Asked(t, "activate")
    /\ LET c == verifies[t].acct
           over == verifies[t].revoked \/ txs[t].expires <= now
       IN  IF over THEN Step(t, "markinactive") /\ UNCHANGED <<accounts, release, granted>>
           ELSE /\ Update(c, Activation(accounts[c], t))
                /\ granted' = IF Held(c) THEN granted ELSE granted \cup {<<c, t>>}
                /\ Step(t, "markactive")
    /\ UNCHANGED <<now, apple, delivery, claims, seen, phone, recheck, ensuring, faults>>
\* activate_subscription_entitlement; a revoked or ended transaction is acknowledged only.
activate(t) ==
    /\ Asked(t, "activate")
    /\ LET c == verifies[t].acct
           over == verifies[t].revoked \/ txs[t].expires <= now
           mine == accounts[c].active /\ accounts[c].uuid = txs[t].token.uuid
       IN  CASE over -> Step(t, "markinactive") /\ UNCHANGED <<accounts, release, granted>>
             [] ~over /\ ~mine -> Step(t, "rejected") /\ UNCHANGED <<accounts, release, granted>>
             [] OTHER -> /\ Update(c, Activation(accounts[c], t))
                         /\ granted' = IF Held(c) THEN granted ELSE granted \cup {<<c, t>>}
                         /\ Step(t, IF Held(c) THEN "retry" ELSE "markactive")
    /\ UNCHANGED <<now, apple, delivery, claims, seen, phone, recheck, ensuring, faults>>

mark_transaction_seen(t) ==
    /\ \E o \in {<<"markactive", "active">>, <<"markinactive", "inactive">>} :
          /\ Asked(t, o[1])
          /\ seen' = [seen EXCEPT ![verifies[t].acct][t] = o[2]]
          /\ Step(t, o[2])
    /\ UNCHANGED <<now, apple, delivery, accounts, claims, release, phone, recheck, ensuring, granted, faults>>

\* The repair of a processed transaction whose account has no receipt.
CheckRepair(t) ==
    /\ Asked(t, "check")
    /\ LET v == verifies[t]
           over == v.revoked \/ txs[t].expires <= now
           claim == v.mine /\ (over \/ v.same)
       IN  IF claim /\ MayClaim(txs[t].orig, v.acct)
           THEN claims' = Claimed(txs[t].orig, v.acct) /\ Step(t, IF over THEN "markinactive" ELSE "backfill")
           ELSE Step(t, IF claim \/ ~v.mine THEN "rejected" ELSE "active") /\ UNCHANGED claims
    /\ UNCHANGED <<now, apple, delivery, accounts, seen, release, phone, recheck, ensuring, granted, faults>>

BackfillVerified(t) ==
    /\ Asked(t, "backfill")
    /\ LET c == verifies[t].acct
       IN  IF Backfilled(c, t)
           THEN Update(c, Bound(accounts[c], txs[t].orig)) /\ Step(t, IF Held(c) THEN "rejected" ELSE "active")
           ELSE Step(t, "active") /\ UNCHANGED <<accounts, release>>
    /\ UNCHANGED <<now, apple, delivery, claims, seen, phone, recheck, ensuring, granted, faults>>

\* Seeded fault: every answer counts as an attempt.
ResolveCounting(t) ==
    /\ verifies[t].pc \in {"active", "inactive", "rejected", "retry"}
    /\ verifies' = [verifies EXCEPT ![t] = Idle]
    /\ phone' = [phone EXCEPT !.queue = IF Asked(t, "retry") THEN @ ELSE @ \ {t}, !.todo[t] = @ - 1]
    /\ UNCHANGED <<now, apple, delivery, accounts, claims, seen, release, recheck, ensuring, granted, faults>>
\* handleVerificationResolution: active and inactive finish the transaction, unless the
\* account has changed; a retry is scheduled up to its limit, a rejection is left for the next launch.
Resolve(t) ==
    /\ verifies[t].pc \in {"active", "inactive", "rejected", "retry"}
    /\ verifies' = [verifies EXCEPT ![t] = Idle]
    /\ phone' = CASE verifies[t].acct # phone.acct \/ Asked(t, "rejected") -> [phone EXCEPT !.todo[t] = 0]
                  [] verifies[t].acct = phone.acct /\ Asked(t, "retry") -> [phone EXCEPT !.todo[t] = @ - 1]
                  [] OTHER -> [phone EXCEPT !.queue = @ \ {t}, !.todo[t] = 0]
    /\ UNCHANGED <<now, apple, delivery, accounts, claims, seen, release, recheck, ensuring, granted, faults>>

\* Seeded fault: only what Apple calls current is looked at again.
verifyCurrentOnly ==
    /\ "verify" \in Events /\ phone.acct # None
    /\ LET again == {t \in DOMAIN txs : Current(t) /\ t = Last(txs[t].orig)}
           todo == [t \in 1..MaxTx |-> IF t \in again THEN MaxAttempts ELSE phone.todo[t]]
       IN  phone.todo # todo /\ phone' = [phone EXCEPT !.todo = todo]
    /\ UNCHANGED <<now, apple, delivery, accounts, claims, seen, release, verifies, recheck, ensuring, granted, faults>>
\* A launch: what is unfinished and what is current is verified again.
verifyCurrentEntitlements ==
    /\ "verify" \in Events /\ phone.acct # None
    /\ LET again == phone.queue \cup {t \in DOMAIN txs : Current(t) /\ t = Last(txs[t].orig)}
           todo == [t \in 1..MaxTx |-> IF t \in again THEN MaxAttempts ELSE phone.todo[t]]
       IN  phone.todo # todo /\ phone' = [phone EXCEPT !.todo = todo]
    /\ UNCHANGED <<now, apple, delivery, accounts, claims, seen, release, verifies, recheck, ensuring, granted, faults>>

-----------------------------------------------------------------------------
(* The call gate, the trial sweep and the re-check.                         *)

\* evaluate_subscription_access: an "active" account is served whatever its expiry says.
Access(a) == a.status = "active" \/ a.expires > now

lapsed_trials_once(c) ==
    /\ accounts[c].status = "trial" /\ accounts[c].expires <= now
    /\ Update(c, Ended(accounts[c]))
    /\ UNCHANGED <<now, apple, delivery, claims, seen, device, recheck, ensuring, granted, faults>>

\* A call reaches an account that is active beyond its term.
stale_expiry(c) == accounts[c].status = "active" /\ now > accounts[c].expires
schedule_recheck(c) ==
    /\ recheck.pc = "idle" /\ recheck.left > 0
    /\ accounts[c].active /\ stale_expiry(c) /\ accounts[c].from = None
    /\ accounts[c].orig # None /\ claims[accounts[c].orig] = c
    /\ recheck' = [recheck EXCEPT !.pc = "ask", !.left = @ - 1, !.acct = c, !.expires = accounts[c].expires,
                                   !.orig = accounts[c].orig]
    /\ UNCHANGED <<now, apple, delivery, accounts, claims, seen, release, device, ensuring, granted, faults>>

\* Seeded fault: only a revoked term is over.
VerdictOfRevocation(t) == IF txs[t].revoked THEN "expired" ELSE "renewed"
\* Apple's last transaction of the receipt; only an explicit answer is applied.
Verdict(t) == IF txs[t].revoked \/ txs[t].expires <= now THEN "expired" ELSE "renewed"
recheck_asks ==
    /\ recheck.pc = "ask"
    /\ recheck' = LET t == Last(recheck.orig)
                  IN  IF txs[t].token.acct = recheck.acct
                      THEN [recheck EXCEPT !.pc = Verdict(t), !.tx = t]
                      ELSE [recheck EXCEPT !.pc = "idle"]
    /\ UNCHANGED <<now, apple, delivery, accounts, claims, seen, release, device, ensuring, granted, faults>>

\* Seeded fault: the answer is written whatever the account has become.
update_any_subscription ==
    /\ recheck.pc \in {"expired", "renewed"}
    /\ LET c == recheck.acct
       IN  Update(c, IF recheck.pc = "renewed" THEN Renewed(accounts[c], recheck.tx) ELSE Ended(accounts[c]))
    /\ recheck' = [recheck EXCEPT !.pc = "idle"]
    /\ UNCHANGED <<now, apple, delivery, claims, seen, device, ensuring, granted, faults>>
\* Written only if the account is still the one that was asked about.
update_stale_subscription ==
    /\ recheck.pc \in {"expired", "renewed"}
    /\ LET c == recheck.acct
       IN  IF accounts[c].active /\ accounts[c].status = "active" /\ accounts[c].expires = recheck.expires
           THEN Update(c, IF recheck.pc = "renewed" THEN Renewed(accounts[c], recheck.tx) ELSE Ended(accounts[c]))
           ELSE UNCHANGED <<accounts, release>>
    /\ recheck' = [recheck EXCEPT !.pc = "idle"]
    /\ UNCHANGED <<now, apple, delivery, claims, seen, device, ensuring, granted, faults>>

-----------------------------------------------------------------------------
World ==
    \/ \E r \in Receipts, tier \in Tiers : purchase(r, tier) \/ \E ty \in {"DID_RENEW", "UPGRADE"} : Renew(r, tier, ty)
    \/ \E r \in Receipts, ty \in Terminal \cup {"DID_FAIL_TO_RENEW", "DID_CHANGE_RENEWAL_STATUS"} : Ends(r, ty)
    \/ Tick
    \/ \E p \in 1..2 : ReadProfile(p)
    \/ \E c \in Accounts, p \in 1..2 : ensure_subscription_uuid(c, p)
    \/ \E c \in Accounts : deactivate_contractor(c) \/ BeginRelease(c) \/ EndRelease(c)
Webhook(i) ==
    \/ Deliver(i) \/ claim_transaction(i) \/ conditionally_backfill(i) \/ record_active_renewal_status(i)
    \/ update_contractor(i) \/ record_inactive_notification(i) \/ Forward(i)
Faults(i) == Crash(i) \/ ForwardFails(i) \/ Redeliver(i) \/ GiveUp(i)
Verify(t) ==
    \/ verify(t) \/ AskApple(t) \/ ClaimVerified(t) \/ activate(t) \/ mark_transaction_seen(t)
    \/ CheckRepair(t) \/ BackfillVerified(t) \/ Resolve(t)
Reconcile ==
    \/ \E c \in Accounts : schedule_recheck(c) \/ lapsed_trials_once(c)
    \/ recheck_asks \/ update_stale_subscription
Next ==
    \/ World /\ UNCHANGED world
    \/ \E i \in DOMAIN notes : (Webhook(i) \/ Faults(i) \/ replay(i) \/ Handle(i)) /\ UNCHANGED world
    \/ \E t \in DOMAIN txs : (Verify(t) \/ Unanswered(t)) /\ UNCHANGED world
    \/ verifyCurrentEntitlements /\ UNCHANGED world
    \/ Reconcile /\ UNCHANGED world

Spec == Init /\ [][Next]_vars

-----------------------------------------------------------------------------
(* Properties.                                                              *)

AccountType ==
    [active : BOOLEAN, uuid : 0..2, status : {"trial", "active", "expired"}, tier : Tiers \cup {None},
     expires : 1..MaxTime + 2, orig : Receipts \cup {None}, auto : BOOLEAN \cup {None}, clock : 0..MaxNotes,
     from : Accounts \cup {None}, deletedAt : 0..MaxTime,
     bill : [count : Nat, charges : Nat, tx : 0..MaxTx, type : {None} \cup (NoteTypes \X BOOLEAN),
             orig : Receipts \cup {None}, auto : BOOLEAN \cup {None}, clock : 0..MaxNotes]]

\* The state is well formed: the account records are what update_contractor and the
\* transactions of app/db/contractors.py write.
TypeOK ==
    /\ now \in 0..MaxTime
    /\ accounts \in [Accounts -> AccountType]
    /\ claims \in [Receipts -> Accounts \cup {None}]
    /\ seen \in [Accounts -> [1..MaxTx -> {None, "active", "inactive"}]]
    /\ release \in [Accounts -> {"free", "deleting", "needs_attention"}]
    /\ outbox \cup failed \cup accepted \subseteq DOMAIN notes
    /\ phone.queue \subseteq DOMAIN txs /\ phone.todo \in [1..MaxTx -> 0..MaxAttempts]

\* All that Apple has sent is handled, by the webhook or by the replay.
Quiet == outbox = {} /\ failed = {} /\ \A i \in DOMAIN handlers : At(i, "idle")

\* When all notifications are handled, and Apple's arrived in order, an account with a paid term
\* is active: neither the re-check nor the replay takes away what a later notification gave.
PaidIsActive ==
    Quiet /\ InOrder => \A c \in Accounts : accounts[c].active /\ PaidFor(c) # {} /\ ~Held(c) => accounts[c].status = "active"

\* An account is bound to a receipt only if the receipt is claimed for it, and no receipt serves
\* two accounts (claim_transaction, "two concurrent verify/notification flows cannot both succeed").
ReceiptHasOneOwner == \A c \in Accounts : accounts[c].orig # None => claims[accounts[c].orig] = c

\* A processed transaction that answers "active" without asking Apple has activated the account once:
\* a write that was held for a number release is not remembered as done.
SeenWasGranted == \A c \in Accounts : \A t \in DOMAIN txs : seen[c][t] = "active" => <<c, t>> \in granted

\* The renewal status on record is what Apple signed, at the time on record, of the receipt that the
\* account is bound to, for a live account and in the evidence of a deleted one.
RenewalStatusIsOfReceipt ==
    LET of(r, auto, clock) == clock \in DOMAIN notes /\ notes[clock].auto = auto /\ txs[notes[clock].tx].orig = r
                              /\ notes[clock].type = "DID_CHANGE_RENEWAL_STATUS"
    IN  \A c \in Accounts :
          LET a == accounts[c]
          IN  /\ a.clock # 0 => of(a.orig, a.auto, a.clock)
              /\ a.bill.clock # 0 => of(a.bill.orig, a.bill.auto, a.bill.clock)

\* While an account keeps its receipt, its renewal status never goes back to an older one.
RenewalClockNeverBack ==
    [][\A c \in Accounts :
          /\ accounts'[c].orig = accounts[c].orig /\ accounts[c].orig # None => accounts'[c].clock >= accounts[c].clock
          /\ accounts'[c].bill.orig = accounts[c].bill.orig => accounts'[c].bill.clock >= accounts[c].bill.clock]_vars

\* Every charge after the deletion that Apple reported and Kevin accepted is counted.
LateCharges(c) == {notes[i].tx : i \in {j \in accepted : /\ ~accounts[c].active
                                                         /\ Owner(notes[j].tx) = c /\ ChargedAfter(accounts[c], j)}}
ChargesAreCounted == \A c \in Accounts : accounts[c].bill.charges >= Cardinality(LateCharges(c))


\* Whoever has paid is served, and is so once its transaction was granted.
PaidIsServed == PaidIsActive /\ SeenWasGranted

\* What is on record of a receipt is of that receipt, of one account, and complete.
RecordIsOfReceipt == TypeOK /\ ReceiptHasOneOwner /\ RenewalStatusIsOfReceipt /\ ChargesAreCounted
=============================================================================
