----------------------------- MODULE StoreProofs -----------------------------
(***************************************************************************)
(* Proofs about AppStoreEntitlement: for any worlds, whatever Apple sends   *)
(* and in whatever order it arrives, the record of a subscription is of the *)
(* receipt it names and of one account; the time of a renewal status never  *)
(* goes back; what is remembered as processed was granted; and no charge    *)
(* after a deletion is lost.                                                *)
(***************************************************************************)
EXTENDS AppStoreEntitlement, FiniteSetTheorems, TLAPS

-----------------------------------------------------------------------------
(* The invariant.                                                           *)

Tokens == [acct : Accounts, uuid : 0..2]
Transactions ==
    [orig : Receipts, tier : Tiers, token : Tokens, purchase : 0..MaxTime, expires : 2..MaxTime + 2, revoked : BOOLEAN]
Notifications == [type : NoteTypes, tx : 1..MaxTx, auto : BOOLEAN]

\* A call of the webhook, before it has found the account, about a live and about a deleted one.
LivePcs == {"claim", "backfill", "renewal", "write"}
Unread == [pc : {"idle", "replayed"}]
Live == [pc : LivePcs, legacy : BOOLEAN]
Gone == [pc : {"record", "forward"}, rebound : Accounts \cup {None},
         rstatus : {None, "trial", "active", "expired"}, rfrom : Accounts \cup {None}]
Asking == [acct : Accounts, revoked : BOOLEAN, mine : BOOLEAN, same : BOOLEAN,
           pc : {"inactive", "active", "repair", "apple", "claim", "check", "retry", "activate", "rejected",
                 "markinactive", "markactive", "backfill"}]
Verifications == [pc : {"idle"}] \cup Asking
Rechecks == [pc : {"idle", "ask", "expired", "renewed"}, left : Nat, acct : Accounts \cup {None},
             expires : Int, orig : Receipts \cup {None}, tx : 0..MaxTx]
Phones == [acct : Accounts \cup {None}, token : 0..2, queue : SUBSET Nat, todo : [1..MaxTx -> 0..MaxAttempts]]

\* What Apple keeps: a notification is about a transaction, and a chain has a last one.
AppleFits ==
    /\ txs \in Seq(Transactions) /\ Len(txs) <= MaxTx
    /\ notes \in Seq(Notifications) /\ Len(notes) <= MaxNotes
    /\ renews \in [Receipts -> BOOLEAN]
    /\ \A i \in DOMAIN notes : notes[i].tx \in DOMAIN txs
    /\ \A t \in DOMAIN txs : txs[t].purchase <= now
    /\ \A r \in Receipts : Chain(r) # {} => \E t \in Chain(r) : \A u \in Chain(r) : u <= t

\* The types of the calls in progress; there is none about what Apple has not sent.
CallsFit ==
    /\ handlers \in [1..MaxNotes -> Unread \cup Live \cup Gone]
    /\ \A i \in 1..MaxNotes : i \notin DOMAIN notes => handlers[i].pc = "idle"
    /\ \A i \in 1..MaxNotes : handlers[i].pc = "forward" => handlers[i].rebound \in Accounts
    /\ verifies \in [1..MaxTx -> Verifications]
    /\ \A t \in 1..MaxTx : t \notin DOMAIN txs => verifies[t].pc = "idle"
    /\ ensuring \subseteq Accounts \X (1..2)

\* The re-check asks about a receipt that has transactions, and writes one of them.
RecheckFits ==
    /\ recheck \in Rechecks
    /\ recheck.pc # "idle" => recheck.acct \in Accounts /\ recheck.orig \in Receipts /\ Chain(recheck.orig) # {}
    /\ recheck.pc \in {"expired", "renewed"} => recheck.tx \in DOMAIN txs

\* A call for the phone's account is an attempt that is still to be counted.
PhoneFits ==
    /\ phone \in Phones
    /\ phone.acct # None => accounts[phone.acct].active
    /\ \A t \in DOMAIN txs :
          verifies[t].pc # "idle" =>
              \/ verifies[t].acct = phone.acct /\ phone.todo[t] > 0
              \/ ~accounts[verifies[t].acct].active

\* Whoever is about to bind a receipt holds its claim.
ClaimsHeld ==
    /\ \A i \in DOMAIN notes : handlers[i].pc \in {"backfill", "renewal", "write"} =>
          claims[txs[notes[i].tx].orig] = Owner(notes[i].tx)
    /\ \A t \in DOMAIN txs : verifies[t].pc \in {"activate", "backfill"} =>
          claims[txs[t].orig] = verifies[t].acct
    /\ \A i \in DOMAIN notes : handlers[i].pc \in {"backfill", "renewal"} =>
          notes[i].type = "DID_CHANGE_RENEWAL_STATUS"

\* An account is bound to a receipt that Apple has sold.
BoundToSold == \A c \in Accounts : accounts[c].orig # None => Chain(accounts[c].orig) # {}

\* No transaction is remembered before it was sold.
SeenIsSold == \A c \in Accounts, t \in 1..MaxTx : seen[c][t] = "active" => t \in DOMAIN txs

\* An activation is acknowledged only after it was written.
MarkedWasGranted == \A t \in DOMAIN txs : verifies[t].pc = "markactive" => <<verifies[t].acct, t>> \in granted

StoreInv ==
    /\ world \in Worlds
    /\ TypeOK /\ AppleFits /\ CallsFit /\ RecheckFits /\ PhoneFits
    /\ ReceiptHasOneOwner /\ RenewalStatusIsOfReceipt /\ SeenWasGranted
    /\ ClaimsHeld /\ BoundToSold /\ SeenIsSold /\ MarkedWasGranted

-----------------------------------------------------------------------------
(* The evidence of a deleted account.                                       *)

\* An account without a token is not deleted: a token made for it twice would leave transactions
\* that name neither its record nor another one's.
TokensStand == \A w \in Worlds : w.untokened # {} => "delete" \notin w.events /\ w.deleted = {}

\* Where accounts are deleted, each keeps its one token.
OneToken ==
    \/ Untokened # {} /\ \A c \in Accounts : accounts[c].active
    \/ /\ \A c \in Accounts : accounts[c].uuid = 1
       /\ \A t \in DOMAIN txs : txs[t].token.uuid = 1
       /\ ensuring = {} /\ phone.token \in 0..1

\* A live account has no evidence; a call that found an account alive is about what was bought before
\* its deletion, and the deletion is past.
EvidenceIsOfDeleted ==
    /\ \A c \in Accounts : accounts[c].active => accounts[c].bill = NoBilling
    /\ \A c \in Accounts : accounts[c].deletedAt <= now /\ accounts[c].bill.tx \in {0} \cup DOMAIN txs
    /\ \A i \in DOMAIN notes :
          LET c == Owner(notes[i].tx)
          IN  /\ handlers[i].pc \in LivePcs => accounts[c].active \/ txs[notes[i].tx].purchase <= accounts[c].deletedAt
              /\ handlers[i].pc \in {"record", "forward"} => ~accounts[c].active

\* The charges after its deletion that are on the record of an account: those of the notifications
\* that were answered, or are about to be, and the one of the last notification.
Charge(c, j) ==
    notes[j].type \in Charges /\ Owner(notes[j].tx) = c /\ txs[notes[j].tx].purchase > accounts[c].deletedAt
Answered(j) == j \in accepted \/ handlers[j].pc = "forward"
LastCharged(c, t) ==
    /\ accounts[c].bill.tx = t /\ txs[t].purchase > accounts[c].deletedAt
    /\ \E type \in Charges, auto \in BOOLEAN : accounts[c].bill.type = <<type, auto>>
OnRecord(c) ==
    {t \in DOMAIN txs : LastCharged(c, t) \/ \E j \in DOMAIN notes : Answered(j) /\ Charge(c, j) /\ notes[j].tx = t}
AllOnRecord == \A c \in Accounts : ~accounts[c].active => accounts[c].bill.charges >= Cardinality(OnRecord(c))

EvidenceInv == OneToken /\ EvidenceIsOfDeleted /\ AllOnRecord

-----------------------------------------------------------------------------
(* What stands still, and what Apple keeps.                                 *)

\* The bounds of a world are numbers, and None is none of its members.
LEMMA WorldFacts ==
    ASSUME world \in Worlds
    PROVE  /\ MaxTx \in Nat /\ MaxNotes \in Nat /\ MaxTime \in Nat /\ MaxAttempts \in Nat /\ MaxRechecks \in Nat
           /\ None \notin Accounts /\ None \notin Receipts /\ None \notin Tiers
           /\ Deleted \subseteq Accounts /\ Untokened \subseteq Accounts /\ Unbound \subseteq Accounts
           /\ Unbound # {} => Receipts # {} /\ Tiers # {} /\ MaxTx > 0
BY WorldsAssumption DEF MaxTx, MaxNotes, MaxTime, MaxAttempts, MaxRechecks, Accounts, Receipts, Tiers, Deleted,
                        Untokened, Unbound

\* The world of a history does not change.
WorldStands ==
    /\ Accounts' = Accounts /\ Receipts' = Receipts /\ Tiers' = Tiers /\ Untokened' = Untokened
    /\ MaxTx' = MaxTx /\ MaxNotes' = MaxNotes /\ MaxTime' = MaxTime /\ MaxAttempts' = MaxAttempts

LEMMA WorldSteady ==
    ASSUME Next
    PROVE  world' = world /\ WorldStands
<1>1. world' = world
  BY Zenon DEF Next
<1> QED
  BY <1>1 DEF WorldStands, Accounts, Receipts, Tiers, Untokened, MaxTx, MaxNotes, MaxTime, MaxAttempts

\* A transaction and a notification stay, but for a refund.
Grown ==
    /\ now <= now' /\ now' <= MaxTime
    /\ Len(txs) <= Len(txs') /\ Len(notes) <= Len(notes')
    /\ \A i \in DOMAIN notes : notes'[i] = notes[i]
    /\ \A t \in DOMAIN txs : /\ txs'[t].orig = txs[t].orig /\ txs'[t].tier = txs[t].tier
                             /\ txs'[t].token = txs[t].token /\ txs'[t].purchase = txs[t].purchase
                             /\ txs'[t].expires = txs[t].expires

\* The token of a new transaction is the phone's or that of an earlier one.
TokensKept ==
    \A t \in DOMAIN txs' : t \notin DOMAIN txs =>
        \/ phone.token # 0 /\ txs'[t].token.uuid = phone.token
        \/ \E u \in DOMAIN txs : txs'[t].token = txs[u].token

SameApple == UNCHANGED <<txs, notes, renews>>

\* A transaction is sold with a notification of its own.
Sells(tx, note) ==
    /\ txs' = Append(txs, tx) /\ notes' = Append(notes, note)
    /\ Len(txs) < MaxTx /\ Len(notes) < MaxNotes
    /\ tx \in Transactions /\ tx.purchase = now
    /\ \/ tx.token.uuid = phone.token /\ phone.token # 0
       \/ \E u \in DOMAIN txs : tx.token = txs[u].token
    /\ note \in Notifications /\ note.tx = Len(txs) + 1
    /\ \E r \in Receipts : renews' = [renews EXCEPT ![r] = TRUE]

\* Apple tells of a transaction that it has sold.
Tells(note) ==
    /\ notes' = Append(notes, note) /\ Len(notes) < MaxNotes
    /\ note \in Notifications /\ note.tx \in DOMAIN txs
    /\ txs' = txs \/ txs' = [txs EXCEPT ![note.tx].revoked = TRUE]
    /\ renews' = renews \/ \E r \in Receipts : renews' = [renews EXCEPT ![r] = ~@]

\* The last transaction of a chain is one of it.
LEMMA LastOfChain ==
    ASSUME AppleFits, NEW r \in Receipts, Chain(r) # {}
    PROVE  Last(r) \in DOMAIN txs /\ txs[Last(r)].orig = r
<1>1. \E t \in Chain(r) : \A u \in Chain(r) : u <= t
  BY DEF AppleFits
<1>2. Last(r) \in Chain(r)
  BY <1>1, Zenon DEF Last
<1> QED
  BY <1>2 DEF Chain

LEMMA SoldSells ==
    ASSUME StoreInv, NEW r \in Receipts, NEW tier \in Tiers, NEW token \in Tokens, NEW type \in NoteTypes,
           Sold(r, tier, token, type),
           (token.uuid = phone.token /\ phone.token # 0) \/ \E u \in DOMAIN txs : token = txs[u].token
    PROVE  \E tx, note : Sells(tx, note)
<1> DEFINE tx == [orig |-> r, tier |-> tier, token |-> token, purchase |-> now, expires |-> now + 2, revoked |-> FALSE]
           note == Signed(type, Len(txs) + 1, TRUE)
<1>0. now \in 0..MaxTime /\ MaxTx \in Nat /\ MaxTime \in Nat /\ txs \in Seq(Transactions) /\ notes \in Seq(Notifications)
  BY WorldFacts DEF StoreInv, TypeOK, AppleFits
<1>1. txs' = Append(txs, tx) /\ notes' = Append(notes, note) /\ Len(txs) + 1 <= MaxTx /\ Len(notes) < MaxNotes
  BY DEF Sold, Emit
<1>2. now + 2 \in 2..MaxTime + 2
  BY <1>0
<1>3. tx \in Transactions
  BY <1>0, <1>2 DEF Transactions
<1>4. note \in Notifications
  BY <1>0, <1>1 DEF Notifications, Signed
<1>5. renews' = [renews EXCEPT ![r] = TRUE]
  BY DEF Sold
<1>6. tx.token = token /\ tx.purchase = now /\ note.tx = Len(txs) + 1
  BY DEF Signed
<1> HIDE DEF tx, note
<1>7. Len(txs) < MaxTx
  BY <1>0, <1>1
<1>8. Sells(tx, note)
  BY <1>1, <1>3, <1>4, <1>5, <1>6, <1>7, Zenon DEF Sells
<1> QED
  BY <1>8

LEMMA PurchaseSells ==
    ASSUME StoreInv, NEW r \in Receipts, NEW tier \in Tiers, purchase(r, tier)
    PROVE  \E tx, note : Sells(tx, note)
<1> DEFINE token == [acct |-> phone.acct, uuid |-> phone.token]
<1>1. phone.acct # None /\ phone.token # 0 /\ Sold(r, tier, token, "SUBSCRIBED")
  BY DEF purchase
<1>2. token \in Tokens /\ token.uuid = phone.token
  BY <1>1 DEF StoreInv, PhoneFits, Phones, Tokens
<1>3. "SUBSCRIBED" \in NoteTypes
  BY DEF NoteTypes, Charges
<1> HIDE DEF token
<1> QED
  BY <1>1, <1>2, <1>3, SoldSells

LEMMA RenewSells ==
    ASSUME StoreInv, NEW r \in Receipts, NEW tier \in Tiers, NEW type \in {"DID_RENEW", "UPGRADE"},
           Renew(r, tier, type)
    PROVE  \E tx, note : Sells(tx, note)
<1> DEFINE token == txs[Last(r)].token
<1>1. Chain(r) # {} /\ Sold(r, tier, token, type)
  BY DEF Renew
<1>2. Last(r) \in DOMAIN txs
  BY <1>1, LastOfChain DEF StoreInv
<1>3. token \in Tokens
  <2>1. txs[Last(r)] \in Transactions
    BY <1>2 DEF StoreInv, AppleFits
  <2> QED
    BY <2>1 DEF Transactions
<1>4. type \in NoteTypes
  BY DEF NoteTypes, Charges
<1>5. \E u \in DOMAIN txs : token = txs[u].token
  BY <1>2
<1> HIDE DEF token
<1> QED
  BY <1>1, <1>3, <1>4, <1>5, SoldSells

LEMMA EndsTells ==
    ASSUME StoreInv, NEW r \in Receipts,
           NEW type \in Terminal \cup {"DID_FAIL_TO_RENEW", "DID_CHANGE_RENEWAL_STATUS"}, Ends(r, type)
    PROVE  \E note : Tells(note)
<1> DEFINE l == Last(r)
           note == Signed(type, l, IF type = "DID_CHANGE_RENEWAL_STATUS" THEN ~renews[r] ELSE FALSE)
<1>1. Chain(r) # {} /\ Emit(note)
  BY DEF Ends
<1>2. l \in DOMAIN txs
  BY <1>1, LastOfChain DEF StoreInv
<1>3. /\ txs' = txs \/ txs' = [txs EXCEPT ![l].revoked = TRUE]
      /\ renews' = renews \/ renews' = [renews EXCEPT ![r] = ~@]
  <2>1. Ends(r, type) => \/ UNCHANGED <<txs, renews>>
                         \/ txs' = [txs EXCEPT ![l].revoked = TRUE] /\ UNCHANGED renews
                         \/ renews' = [renews EXCEPT ![r] = ~@] /\ UNCHANGED txs
    BY Zenon DEF Ends
  <2> QED
    BY <2>1
<1>4. l \in 1..MaxTx
  <2>1. txs \in Seq(Transactions) /\ Len(txs) <= MaxTx /\ MaxTx \in Nat
    BY WorldFacts DEF StoreInv, AppleFits
  <2> QED
    BY <1>2, <2>1
<1>5. type \in NoteTypes
  BY DEF NoteTypes, Terminal
<1>6. note \in Notifications /\ note.tx = l
  <2>1. renews[r] \in BOOLEAN
    BY DEF StoreInv, AppleFits
  <2> QED
    BY <1>4, <1>5, <2>1 DEF Signed, Notifications
<1>7. notes' = Append(notes, note) /\ Len(notes) < MaxNotes
  BY <1>1 DEF Emit
<1> HIDE DEF l, note
<1>8. Tells(note)
  BY <1>2, <1>3, <1>6, <1>7 DEF Tells
<1> QED
  BY <1>8

\* A step is Apple's, the clock's, or one of neither.
LEMMA AppleSteps ==
    ASSUME StoreInv, Next
    PROVE  \/ SameApple /\ (now' = now \/ (now < MaxTime /\ now' = now + 1))
           \/ now' = now /\ \E tx, note : Sells(tx, note)
           \/ now' = now /\ \E note : Tells(note)
<1>1. CASE \E r \in Receipts, tier \in Tiers : purchase(r, tier) \/ \E ty \in {"DID_RENEW", "UPGRADE"} : Renew(r, tier, ty)
  <2>1. PICK r \in Receipts, tier \in Tiers : purchase(r, tier) \/ \E ty \in {"DID_RENEW", "UPGRADE"} : Renew(r, tier, ty)
    BY <1>1
  <2>2. CASE purchase(r, tier)
    <3>1. now' = now
      BY <2>2 DEF purchase
    <3> QED
      BY <2>2, <3>1, PurchaseSells
  <2>3. CASE \E ty \in {"DID_RENEW", "UPGRADE"} : Renew(r, tier, ty)
    <3>1. PICK ty \in {"DID_RENEW", "UPGRADE"} : Renew(r, tier, ty)
      BY <2>3
    <3>2. now' = now
      BY <3>1 DEF Renew
    <3> QED
      BY <3>1, <3>2, RenewSells
  <2> QED
    BY <2>1, <2>2, <2>3
<1>2. CASE \E r \in Receipts, ty \in Terminal \cup {"DID_FAIL_TO_RENEW", "DID_CHANGE_RENEWAL_STATUS"} : Ends(r, ty)
  <2>1. PICK r \in Receipts, ty \in Terminal \cup {"DID_FAIL_TO_RENEW", "DID_CHANGE_RENEWAL_STATUS"} : Ends(r, ty)
    BY <1>2
  <2>2. now' = now
    BY <2>1 DEF Ends
  <2> QED
    BY <2>1, <2>2, EndsTells
<1>3. CASE Tick
  BY <1>3 DEF Tick, apple, SameApple
<1>4. ASSUME NEW c \in Accounts, \/ \E p \in 1..2 : ensure_subscription_uuid(c, p)
                                 \/ deactivate_contractor(c) \/ BeginRelease(c) \/ EndRelease(c)
      PROVE  SameApple /\ now' = now
  <2>1. ASSUME NEW p \in 1..2, ensure_subscription_uuid(c, p) PROVE SameApple /\ now' = now
    BY <2>1 DEF ensure_subscription_uuid, apple, SameApple
  <2>2. deactivate_contractor(c) => SameApple /\ now' = now
    BY Zenon DEF deactivate_contractor, apple, SameApple
  <2>3. BeginRelease(c) \/ EndRelease(c) => SameApple /\ now' = now
    BY Zenon DEF BeginRelease, EndRelease, apple, SameApple
  <2> QED
    BY <1>4, <2>1, <2>2, <2>3
<1>4a. ASSUME NEW p \in 1..2, ReadProfile(p)
       PROVE  SameApple /\ now' = now
  BY <1>4a DEF ReadProfile, apple, SameApple
<1>5. ASSUME NEW i \in DOMAIN notes, Webhook(i) \/ Faults(i) \/ replay(i) \/ Handle(i)
      PROVE  SameApple /\ now' = now
  <2>1. Webhook(i) => SameApple /\ now' = now
    BY Zenon DEF Webhook, Deliver, claim_transaction, conditionally_backfill, record_active_renewal_status,
              update_contractor, record_inactive_notification, Forward, apple, SameApple
  <2>2. Faults(i) => SameApple /\ now' = now
    BY Zenon DEF Faults, Crash, ForwardFails, Redeliver, GiveUp, apple, SameApple
  <2>3. replay(i) \/ Handle(i) => SameApple /\ now' = now
    BY Zenon DEF replay, Handle, apple, SameApple
  <2> QED
    BY <1>5, <2>1, <2>2, <2>3
<1>6. ASSUME NEW t \in DOMAIN txs, Verify(t) \/ Unanswered(t)
      PROVE  SameApple /\ now' = now
  BY <1>6, Zenon DEF Verify, Unanswered, verify, AskApple, ClaimVerified, activate, mark_transaction_seen, CheckRepair,
                     BackfillVerified, Resolve, apple, SameApple
<1>7. ASSUME verifyCurrentEntitlements \/ Reconcile
      PROVE  SameApple /\ now' = now
  <2>1. verifyCurrentEntitlements => SameApple /\ now' = now
    BY Zenon DEF verifyCurrentEntitlements, apple, SameApple
  <2>2. ASSUME NEW c \in Accounts, schedule_recheck(c) \/ lapsed_trials_once(c)
        PROVE  SameApple /\ now' = now
    BY <2>2, Zenon DEF schedule_recheck, lapsed_trials_once, apple, SameApple
  <2>3. recheck_asks => SameApple /\ now' = now
    BY Zenon DEF recheck_asks, apple, SameApple
  <2>4. update_stale_subscription => SameApple /\ now' = now
    BY Zenon DEF update_stale_subscription, apple, SameApple
  <2> QED
    BY <1>7, <2>1, <2>2, <2>3, <2>4, Zenon DEF Reconcile
<1>8. World => \/ \E r \in Receipts, tier \in Tiers : purchase(r, tier) \/ \E ty \in {"DID_RENEW", "UPGRADE"} : Renew(r, tier, ty)
               \/ \E r \in Receipts, ty \in Terminal \cup {"DID_FAIL_TO_RENEW", "DID_CHANGE_RENEWAL_STATUS"} : Ends(r, ty)
               \/ Tick \/ (SameApple /\ now' = now)
  BY <1>4, <1>4a, Zenon DEF World
<1> QED
  BY <1>1, <1>2, <1>3, <1>5, <1>6, <1>7, <1>8, Zenon DEF Next

LEMMA AppleGrows ==
    ASSUME StoreInv, Next
    PROVE  Grown /\ now \in 0..MaxTime /\ now' \in 0..MaxTime
<1>0. /\ now \in 0..MaxTime /\ MaxTime \in Nat
      /\ txs \in Seq(Transactions) /\ notes \in Seq(Notifications)
  BY WorldFacts DEF StoreInv, TypeOK, AppleFits
<1>1. CASE SameApple /\ (now' = now \/ (now < MaxTime /\ now' = now + 1))
  BY <1>0, <1>1 DEF SameApple, Grown
<1>2. CASE now' = now /\ \E tx, note : Sells(tx, note)
  <2>1. PICK tx, note : Sells(tx, note)
    BY <1>2
  <2>2. txs' = Append(txs, tx) /\ notes' = Append(notes, note) /\ tx \in Transactions /\ note \in Notifications
    BY <2>1 DEF Sells
  <2>3. Len(txs') = Len(txs) + 1 /\ \A t \in DOMAIN txs : txs'[t] = txs[t]
    BY <1>0, <2>2
  <2>4. Len(notes') = Len(notes) + 1 /\ \A t \in DOMAIN notes : notes'[t] = notes[t]
    BY <1>0, <2>2
  <2>5. Len(txs) \in Nat /\ Len(notes) \in Nat
    BY <1>0
  <2> QED
    BY <1>0, <1>2, <2>3, <2>4, <2>5 DEF Grown
<1>3. CASE now' = now /\ \E note : Tells(note)
  <2>1. PICK note : Tells(note)
    BY <1>3
  <2>2. notes' = Append(notes, note) /\ note \in Notifications /\ note.tx \in DOMAIN txs
        /\ (txs' = txs \/ txs' = [txs EXCEPT ![note.tx].revoked = TRUE])
    BY <2>1 DEF Tells
  <2>4. Len(notes') = Len(notes) + 1 /\ \A t \in DOMAIN notes : notes'[t] = notes[t]
    BY <1>0, <2>2
  <2>5. Len(txs) \in Nat /\ Len(notes) \in Nat
    BY <1>0
  <2>6. \A t \in DOMAIN txs : txs[t] \in Transactions
    BY <1>0
  <2>7. /\ Len(txs') = Len(txs)
        /\ \A t \in DOMAIN txs : /\ txs'[t].orig = txs[t].orig /\ txs'[t].tier = txs[t].tier
                             /\ txs'[t].token = txs[t].token /\ txs'[t].purchase = txs[t].purchase
                             /\ txs'[t].expires = txs[t].expires
    <3>1. CASE txs' = txs
      BY <3>1
    <3>2. CASE txs' = [txs EXCEPT ![note.tx].revoked = TRUE]
      <4>1. Len(txs') = Len(txs)
        BY <1>0, <3>2
      <4>2. \A t \in DOMAIN txs : txs'[t] = txs[t] \/ txs'[t] = [txs[t] EXCEPT !.revoked = TRUE]
        BY <3>2
      <4> QED
        BY <2>6, <4>1, <4>2 DEF Transactions
    <3> QED
      BY <2>2, <3>1, <3>2
  <2> QED
    BY <1>0, <1>3, <2>4, <2>5, <2>7 DEF Grown
<1> QED
  BY <1>1, <1>2, <1>3, AppleSteps

LEMMA AppleTokens ==
    ASSUME StoreInv, Next
    PROVE  TokensKept
<1>0. txs \in Seq(Transactions)
  BY DEF StoreInv, AppleFits
<1>1. CASE SameApple
  BY <1>1 DEF SameApple, TokensKept
<1>2. CASE \E tx, note : Sells(tx, note)
  <2>1. PICK tx, note : Sells(tx, note)
    BY <1>2
  <2>2. txs' = Append(txs, tx) /\ tx \in Transactions
        /\ ((tx.token.uuid = phone.token /\ phone.token # 0) \/ \E u \in DOMAIN txs : tx.token = txs[u].token)
    BY <2>1 DEF Sells
  <2>3. \A t \in DOMAIN txs' : t \notin DOMAIN txs => txs'[t] = tx
    BY <1>0, <2>2
  <2> QED
    BY <2>2, <2>3, Zenon DEF TokensKept
<1>3. CASE \E note : Tells(note)
  <2>1. PICK note : Tells(note)
    BY <1>3
  <2>2. DOMAIN txs' = DOMAIN txs
    BY <2>1 DEF Tells
  <2> QED
    BY <2>2, Zenon DEF TokensKept
<1> QED
  BY <1>1, <1>2, <1>3, AppleSteps

\* What was in a chain stays in it.
LEMMA ChainsGrow ==
    ASSUME StoreInv, Next, NEW r
    PROVE  Chain(r) \subseteq Chain(r)' /\ (Chain(r) # {} => Chain(r)' # {})
<1>1. \A t \in DOMAIN txs : t \in DOMAIN txs' /\ txs'[t].orig = txs[t].orig
  <2>1. txs \in Seq(Transactions) /\ Grown
    BY AppleGrows DEF StoreInv, AppleFits
  <2>2. txs' \in Seq(Transactions) \/ DOMAIN txs \subseteq DOMAIN txs'
    <3>1. CASE SameApple
      BY <3>1 DEF SameApple
    <3>2. CASE \E tx, note : Sells(tx, note)
      BY <2>1, <3>2 DEF Sells
    <3>3. CASE \E note : Tells(note)
      BY <2>1, <3>3 DEF Tells
    <3> QED
      BY <3>1, <3>2, <3>3, AppleSteps
  <2>3. DOMAIN txs \subseteq DOMAIN txs'
    BY <2>1, <2>2 DEF Grown
  <2> QED
    BY <2>1, <2>3 DEF Grown
<1> QED
  BY <1>1 DEF Chain

LEMMA AppleKept ==
    ASSUME StoreInv, Next
    PROVE  AppleFits'
<1>0. /\ now \in 0..MaxTime /\ now' \in 0..MaxTime /\ MaxTime \in Nat /\ MaxTx \in Nat /\ MaxNotes \in Nat
      /\ now <= now'
      /\ txs \in Seq(Transactions) /\ notes \in Seq(Notifications) /\ renews \in [Receipts -> BOOLEAN]
      /\ Len(txs) <= MaxTx /\ Len(notes) <= MaxNotes
      /\ \A i \in DOMAIN notes : notes[i].tx \in DOMAIN txs
      /\ \A t \in DOMAIN txs : txs[t].purchase <= now /\ txs[t] \in Transactions
      /\ \A r \in Receipts : Chain(r) # {} => \E t \in Chain(r) : \A u \in Chain(r) : u <= t
  <2>1. AppleFits /\ txs \in Seq(Transactions) /\ now \in 0..MaxTime
    BY DEF StoreInv, AppleFits, TypeOK
  <2>2. \A t \in DOMAIN txs : txs[t] \in Transactions
    BY <2>1
  <2>3. MaxTime \in Nat /\ MaxTx \in Nat /\ MaxNotes \in Nat
    BY WorldFacts DEF StoreInv
  <2> QED
    BY <2>1, <2>2, <2>3, AppleGrows DEF AppleFits, Grown
<1>w. WorldStands
  BY WorldSteady
<1>t. Transactions' = Transactions /\ Notifications' = Notifications /\ Tokens' = Tokens
  BY <1>w, Zenon DEF Transactions, Notifications, Tokens, WorldStands, NoteTypes, Charges, Terminal
<1>g. \A t \in DOMAIN txs : txs[t].purchase \in 0..MaxTime
  BY <1>0 DEF Transactions
<1> DEFINE Typed == /\ txs' \in Seq(Transactions) /\ Len(txs') <= MaxTx
                    /\ notes' \in Seq(Notifications) /\ Len(notes') <= MaxNotes
                    /\ renews' \in [Receipts -> BOOLEAN]
           Known == /\ \A i \in DOMAIN notes' : notes'[i].tx \in DOMAIN txs'
                    /\ \A t \in DOMAIN txs' : txs'[t].purchase <= now'
           Chained == \A r \in Receipts : (\E v \in DOMAIN txs' : txs'[v].orig = r) =>
             \E t \in DOMAIN txs' : txs'[t].orig = r /\ \A u \in DOMAIN txs' : txs'[u].orig = r => u <= t
<1>c. \A r \in Receipts : (\E v \in DOMAIN txs : txs[v].orig = r) =>
         \E t \in DOMAIN txs : txs[t].orig = r /\ \A u \in DOMAIN txs : txs[u].orig = r => u <= t
  BY <1>0 DEF Chain
<1>1. ASSUME SameApple PROVE Typed /\ Known /\ Chained
  <2>1. \A t \in DOMAIN txs : txs[t].purchase <= now'
    BY <1>0, <1>g
  <2>2. txs' = txs /\ notes' = notes /\ renews' = renews
    BY <1>1 DEF SameApple
  <2>3. Typed
    BY <1>0, <2>2
  <2>4. Known
    BY <1>0, <2>1, <2>2
  <2>5. Chained
    BY <1>c, <2>2
  <2> QED
    BY <2>3, <2>4, <2>5
<1>2. ASSUME now' = now /\ \E tx, note : Sells(tx, note) PROVE Typed /\ Known /\ Chained
  <2>1. PICK tx, note : Sells(tx, note)
    BY <1>2
  <2>2. /\ txs' = Append(txs, tx) /\ notes' = Append(notes, note) /\ tx \in Transactions /\ note \in Notifications
        /\ Len(txs) < MaxTx /\ Len(notes) < MaxNotes /\ tx.purchase = now /\ note.tx = Len(txs) + 1
    BY <2>1 DEF Sells
  <2>3. txs' \in Seq(Transactions) /\ notes' \in Seq(Notifications) /\ Len(txs') = Len(txs) + 1 /\ Len(notes') = Len(notes) + 1
    BY <1>0, <2>2
  <2>4. DOMAIN txs' = DOMAIN txs \cup {Len(txs) + 1} /\ txs'[Len(txs) + 1] = tx /\ \A t \in DOMAIN txs : txs'[t] = txs[t] /\ t < Len(txs) + 1
    BY <1>0, <2>2
  <2>5. DOMAIN notes' = DOMAIN notes \cup {Len(notes) + 1} /\ notes'[Len(notes) + 1] = note /\ \A t \in DOMAIN notes : notes'[t] = notes[t]
    BY <1>0, <2>2
  <2>6. renews' \in [Receipts -> BOOLEAN]
    BY <1>0, <2>1 DEF Sells
  <2>7. Len(txs') <= MaxTx /\ Len(notes') <= MaxNotes /\ Len(txs) \in Nat
    BY <1>0, <2>2, <2>3
  <2>8. \A i \in DOMAIN notes' : notes'[i].tx \in DOMAIN txs'
    BY <1>0, <2>2, <2>4, <2>5
  <2>9. \A t \in DOMAIN txs' : txs'[t].purchase <= now'
    BY <1>0, <1>2, <2>2, <2>4
  <2>10. ASSUME NEW r \in Receipts, NEW v \in DOMAIN txs', txs'[v].orig = r
         PROVE  \E t \in DOMAIN txs' : txs'[t].orig = r /\ \A u \in DOMAIN txs' : txs'[u].orig = r => u <= t
    <3>0. DOMAIN txs \subseteq Nat
      BY <1>0
    <3>1. CASE tx.orig = r
      BY <2>4, <2>7, <3>0, <3>1
    <3>2. CASE tx.orig # r
      <4>1. v \in DOMAIN txs /\ txs[v].orig = r
        BY <2>4, <2>10, <3>2
      <4>2. PICK t \in DOMAIN txs : txs[t].orig = r /\ \A u \in DOMAIN txs : txs[u].orig = r => u <= t
        BY <1>c, <4>1
      <4> QED
        BY <2>4, <3>2, <4>2
    <3> QED
      BY <3>1, <3>2
  <2>11. Typed
    BY <2>3, <2>6, <2>7
  <2>12. Known
    BY <2>8, <2>9
  <2>13. Chained
    BY <2>10
  <2> QED
    BY <2>11, <2>12, <2>13
<1>3. ASSUME now' = now /\ \E note : Tells(note) PROVE Typed /\ Known /\ Chained
  <2>1. PICK note : Tells(note)
    BY <1>3
  <2>2. notes' = Append(notes, note) /\ note \in Notifications /\ note.tx \in DOMAIN txs /\ Len(notes) < MaxNotes
        /\ (txs' = txs \/ txs' = [txs EXCEPT ![note.tx].revoked = TRUE])
    BY <2>1 DEF Tells
  <2>3. renews' \in [Receipts -> BOOLEAN]
    BY <1>0, <2>1 DEF Tells
  <2>4. notes' \in Seq(Notifications) /\ Len(notes') = Len(notes) + 1 /\ Len(notes) \in Nat
    BY <1>0, <2>2
  <2>5. DOMAIN notes' = DOMAIN notes \cup {Len(notes) + 1} /\ notes'[Len(notes) + 1] = note /\ \A t \in DOMAIN notes : notes'[t] = notes[t]
    BY <1>0, <2>2
  <2>6. /\ DOMAIN txs' = DOMAIN txs /\ Len(txs') = Len(txs)
        /\ \A t \in DOMAIN txs : txs'[t] \in Transactions /\ txs'[t].orig = txs[t].orig /\ txs'[t].purchase = txs[t].purchase
    <3>1. CASE txs' = txs
      BY <1>0, <3>1
    <3>2. CASE txs' = [txs EXCEPT ![note.tx].revoked = TRUE]
      <4>1. Len(txs') = Len(txs) /\ DOMAIN txs' = DOMAIN txs
        BY <1>0, <3>2
      <4>2. \A t \in DOMAIN txs : txs'[t] = txs[t] \/ txs'[t] = [txs[t] EXCEPT !.revoked = TRUE]
        BY <3>2
      <4> QED
        BY <1>0, <4>1, <4>2 DEF Transactions
    <3> QED
      BY <2>2, <3>1, <3>2
  <2>7. txs' \in Seq(Transactions)
    <3>1. DOMAIN txs = 1..Len(txs) /\ Len(txs) \in Nat
      BY <1>0
    <3>2. txs' = [t \in 1..Len(txs) |-> txs'[t]]
      <4>1. CASE txs' = txs
        BY <1>0, <4>1
      <4>2. CASE txs' = [txs EXCEPT ![note.tx].revoked = TRUE]
        <5>1. txs = [t \in 1..Len(txs) |-> txs[t]]
          BY <1>0
        <5> QED
          BY <4>2, <5>1
      <4> QED
        BY <2>2, <4>1, <4>2
    <3>3. \A t \in 1..Len(txs) : txs'[t] \in Transactions
      BY <2>6, <3>1
    <3> QED
      BY <3>1, <3>2, <3>3
  <2>8. \A i \in DOMAIN notes' : notes'[i].tx \in DOMAIN txs'
    BY <1>0, <2>2, <2>5, <2>6
  <2>9. \A t \in DOMAIN txs' : txs'[t].purchase <= now'
    BY <1>0, <1>3, <2>6
  <2>10. Len(txs') <= MaxTx /\ Len(notes') <= MaxNotes
    BY <1>0, <2>2, <2>4, <2>6
  <2>11. Typed
    BY <2>3, <2>4, <2>7, <2>10
  <2>12. Known
    BY <2>8, <2>9
  <2>13. Chained
    BY <1>c, <2>6
  <2> QED
    BY <2>11, <2>12, <2>13
<1>4. Typed /\ Known /\ Chained
  <2> HIDE DEF Typed, Known, Chained
  <2> QED
    BY <1>1, <1>2, <1>3, AppleSteps
<1> QED
  BY <1>4, <1>w, <1>t DEF AppleFits, Chain, WorldStands

-----------------------------------------------------------------------------
(* How an account changes.                                                  *)

\* The evidence of an account, and its binding, stand.
SameEvidence(a, b) == b.active = a.active /\ b.deletedAt = a.deletedAt /\ b.bill = a.bill
SameBinding(a, b) == b.orig = a.orig /\ b.auto = a.auto /\ b.clock = a.clock
Serves(a, b) == SameEvidence(a, b) /\ SameBinding(a, b) /\ b.uuid = a.uuid

\* The account is bound to another receipt, whose claim it holds.
Binds(c, a, b) ==
    /\ SameEvidence(a, b) /\ b.uuid = a.uuid
    /\ b.orig # a.orig /\ b.auto = None /\ b.clock = 0
    /\ \E t \in DOMAIN txs : b.orig = txs[t].orig /\ claims[txs[t].orig] = c

\* A later renewal status of its receipt is recorded.
Learns(a, b) ==
    /\ SameEvidence(a, b) /\ b.uuid = a.uuid /\ b.orig = a.orig
    /\ \E i \in DOMAIN notes : /\ b.clock = i /\ b.auto = notes[i].auto /\ i > a.clock
                               /\ txs[notes[i].tx].orig = a.orig
                               /\ notes[i].type = "DID_CHANGE_RENEWAL_STATUS"

Tokened(c, a, b) == SameEvidence(a, b) /\ SameBinding(a, b) /\ <<c, b.uuid>> \in ensuring
Deletes(c, a, b) ==
    /\ deactivate_contractor(c)
    /\ SameBinding(a, b) /\ b.uuid = a.uuid /\ a.active /\ ~b.active /\ b.deletedAt = now /\ b.bill = a.bill
Records(c, a, b) ==
    /\ SameBinding(a, b) /\ b.uuid = a.uuid /\ b.active = a.active /\ b.deletedAt = a.deletedAt
    /\ \E i \in DOMAIN notes :
          record_inactive_notification(i) /\ Owner(notes[i].tx) = c /\ b = [a EXCEPT !.bill = Recorded(a, i)]

AccountMoves(c, a, b) ==
    Serves(a, b) \/ Binds(c, a, b) \/ Learns(a, b) \/ Tokened(c, a, b) \/ Deletes(c, a, b) \/ Records(c, a, b)

\* Every account moves in one of these ways, and stays well formed.
AccountsMove ==
    /\ accounts' \in [Accounts -> AccountType]
    /\ \A c \in Accounts : AccountMoves(c, accounts[c], accounts'[c])
    /\ release' \in [Accounts -> {"free", "deleting", "needs_attention"}]

\* The state as these proofs use it.
StoreFacts ==
    /\ accounts \in [Accounts -> AccountType] /\ release \in [Accounts -> {"free", "deleting", "needs_attention"}]
    /\ \A t \in DOMAIN txs : /\ t \in 1..MaxTx /\ txs[t] \in Transactions /\ txs[t].tier \in Tiers
                             /\ txs[t].orig \in Receipts
                             /\ txs[t].expires \in 1..MaxTime + 2 /\ Owner(t) \in Accounts
                             /\ txs[t].token.uuid \in 0..2 /\ txs[t].purchase \in 0..MaxTime
    /\ \A i \in DOMAIN notes : /\ i \in 1..MaxNotes /\ notes[i] \in Notifications /\ notes[i].tx \in DOMAIN txs
                               /\ notes[i].type \in NoteTypes /\ notes[i].auto \in BOOLEAN
                               /\ Owner(notes[i].tx) \in Accounts
    /\ MaxTime \in Nat /\ MaxTx \in Nat /\ MaxNotes \in Nat /\ MaxAttempts \in Nat
    /\ now \in 0..MaxTime
    /\ None \notin Accounts /\ None \notin Receipts

LEMMA FactsHold == ASSUME StoreInv PROVE StoreFacts
<1>1. /\ world \in Worlds /\ TypeOK /\ txs \in Seq(Transactions) /\ notes \in Seq(Notifications)
      /\ Len(txs) <= MaxTx /\ Len(notes) <= MaxNotes
      /\ \A i \in DOMAIN notes : notes[i].tx \in DOMAIN txs
  BY DEF StoreInv, AppleFits
<1>2. MaxTime \in Nat /\ MaxTx \in Nat /\ MaxNotes \in Nat /\ MaxAttempts \in Nat /\ None \notin Accounts /\ None \notin Receipts
  BY <1>1, WorldFacts
<1>3. \A t \in DOMAIN txs : t \in 1..MaxTx /\ txs[t] \in Transactions
  BY <1>1, <1>2
<1>4. \A i \in DOMAIN notes : i \in 1..MaxNotes /\ notes[i] \in Notifications
  BY <1>1, <1>2
<1>5. \A t \in DOMAIN txs : /\ txs[t].tier \in Tiers /\ txs[t].expires \in 1..MaxTime + 2 /\ Owner(t) \in Accounts
                            /\ txs[t].token.uuid \in 0..2 /\ txs[t].purchase \in 0..MaxTime /\ txs[t].orig \in Receipts
  BY <1>2, <1>3 DEF Transactions, Tokens, Owner
<1>6. \A i \in DOMAIN notes : notes[i].type \in NoteTypes /\ notes[i].auto \in BOOLEAN
  BY <1>4 DEF Notifications
<1> QED
  BY <1>1, <1>2, <1>3, <1>4, <1>5, <1>6 DEF StoreFacts, TypeOK

\* A step that leaves the accounts alone, and one that updates one of them.
LEMMA Unmoved ==
    ASSUME StoreFacts, accounts' = accounts, release' = release
    PROVE  AccountsMove
BY DEF StoreFacts, AccountsMove, AccountMoves, Serves, SameEvidence, SameBinding

LEMMA OneMoves ==
    ASSUME StoreFacts, NEW c \in Accounts, NEW new \in AccountType, AccountMoves(c, accounts[c], new),
           accounts' = [accounts EXCEPT ![c] = new], release' = release
    PROVE  AccountsMove
<1>1. accounts' \in [Accounts -> AccountType]
  BY DEF StoreFacts
<1>2. \A d \in Accounts : accounts'[d] = IF d = c THEN new ELSE accounts[d]
  BY DEF StoreFacts
<1>3. \A d \in Accounts : AccountMoves(d, accounts[d], accounts'[d])
  <2> TAKE d \in Accounts
  <2>1. CASE d = c
    BY <1>2, <2>1
  <2>2. CASE d # c
    BY <1>2, <2>2 DEF AccountMoves, Serves, SameEvidence, SameBinding
  <2> QED
    BY <2>1, <2>2
<1> QED
  BY <1>1, <1>3 DEF AccountsMove, StoreFacts

LEMMA UpdateMoves ==
    ASSUME StoreFacts, NEW c \in Accounts, NEW new \in AccountType, AccountMoves(c, accounts[c], new), Update(c, new)
    PROVE  AccountsMove
<1>1. \/ release' = [release EXCEPT ![c] = "needs_attention"] /\ accounts' = accounts
      \/ accounts' = [accounts EXCEPT ![c] = new] /\ release' = release
  BY Zenon DEF Update
<1>2. CASE release' = [release EXCEPT ![c] = "needs_attention"] /\ accounts' = accounts
  BY <1>2 DEF StoreFacts, AccountsMove, AccountMoves, Serves, SameEvidence, SameBinding
<1>3. CASE accounts' = [accounts EXCEPT ![c] = new] /\ release' = release
  BY <1>3, OneMoves
<1> QED
  BY <1>1, <1>2, <1>3

\* What a paid term, an end and a forward make of an account.
LEMMA RenewedServes ==
    ASSUME StoreFacts, NEW a \in AccountType, NEW t \in DOMAIN txs, NEW b, b = Renewed(a, t)
    PROVE  b \in AccountType /\ Serves(a, b) /\ b.from = a.from
<1>1. txs[t].tier \in Tiers /\ txs[t].expires \in 1..MaxTime + 2
  BY DEF StoreFacts
<1>2. b = [a EXCEPT !.tier = txs[t].tier, !.status = "active", !.expires = txs[t].expires]
  BY DEF Renewed
<1>3. b \in AccountType
  BY <1>1, <1>2 DEF AccountType
<1>4. Serves(a, b) /\ b.from = a.from
  BY <1>2 DEF AccountType, Serves, SameEvidence, SameBinding
<1> QED
  BY <1>3, <1>4

LEMMA EndedServes ==
    ASSUME NEW a \in AccountType, NEW b, b = Ended(a)
    PROVE  b \in AccountType /\ Serves(a, b)
BY DEF Ended, AccountType, Serves, SameEvidence, SameBinding

LEMMA FromServes ==
    ASSUME NEW a \in AccountType, NEW f \in Accounts \cup {None}, NEW b, b = [a EXCEPT !.from = f]
    PROVE  b \in AccountType /\ Serves(a, b) /\ b.orig = a.orig
BY DEF AccountType, Serves, SameEvidence, SameBinding

LEMMA BoundBinds ==
    ASSUME StoreFacts, NEW c \in Accounts, NEW a \in AccountType, NEW t \in DOMAIN txs, a.orig # txs[t].orig,
           claims[txs[t].orig] = c, NEW b, b = Bound(a, txs[t].orig)
    PROVE  b \in AccountType /\ Binds(c, a, b) /\ b.orig = txs[t].orig
<1>1. txs[t].orig \in Receipts /\ MaxNotes \in Nat
  BY DEF StoreFacts
<1>2. b = [a EXCEPT !.orig = txs[t].orig, !.auto = None, !.clock = 0]
  BY DEF Bound
<1>3. b \in AccountType
  <2>1. 0 \in 0..MaxNotes /\ None \in BOOLEAN \cup {None} /\ txs[t].orig \in Receipts \cup {None}
    BY <1>1
  <2> QED
    BY <1>2, <2>1 DEF AccountType
<1>4. /\ b.active = a.active /\ b.deletedAt = a.deletedAt /\ b.bill = a.bill /\ b.uuid = a.uuid
      /\ b.orig = txs[t].orig /\ b.auto = None /\ b.clock = 0
  BY <1>2 DEF AccountType
<1> QED
  BY <1>3, <1>4 DEF Binds, SameEvidence

LEMMA ServesAfter ==
    ASSUME NEW c, NEW a, NEW b, NEW d, Serves(b, d), Serves(a, b) \/ Binds(c, a, b)
    PROVE  Serves(a, d) \/ Binds(c, a, d)
BY DEF Serves, Binds, SameEvidence, SameBinding

LEMMA ActivationMoves ==
    ASSUME StoreFacts, NEW c \in Accounts, NEW a \in AccountType, NEW t \in DOMAIN txs, claims[txs[t].orig] = c,
           NEW d, d = Activation(a, t)
    PROVE  d \in AccountType /\ AccountMoves(c, a, d)
<1> DEFINE m == IF a.orig = txs[t].orig THEN a ELSE Bound(a, txs[t].orig)
           b == Renewed(m, t)
<1>1. m \in AccountType /\ (Serves(a, m) \/ Binds(c, a, m))
  <2>1. CASE a.orig = txs[t].orig
    BY <2>1 DEF Serves, SameEvidence, SameBinding
  <2>2. CASE a.orig # txs[t].orig
    <3>1. m = Bound(a, txs[t].orig)
      BY <2>2
    <3> HIDE DEF m
    <3> QED
      BY <2>2, <3>1, BoundBinds
  <2> QED
    BY <2>1, <2>2
<1>2. d = [b EXCEPT !.from = None]
  BY DEF Activation
<1> HIDE DEF m
<1>3. b \in AccountType /\ Serves(m, b)
  BY <1>1, RenewedServes
<1> HIDE DEF b
<1>4. d \in AccountType /\ Serves(b, d)
  BY <1>2, <1>3, FromServes
<1>5. Serves(a, d) \/ Binds(c, a, d)
  BY <1>1, <1>3, <1>4, ServesAfter
<1> QED
  BY <1>4, <1>5 DEF AccountMoves

LEMMA RecordedFits ==
    ASSUME StoreFacts, NEW a \in AccountType, NEW i \in DOMAIN notes, NEW b, b = Recorded(a, i)
    PROVE  /\ b \in [count : Nat, charges : Nat, tx : 0..MaxTx, type : {None} \cup (NoteTypes \X BOOLEAN),
                     orig : Receipts \cup {None}, auto : BOOLEAN \cup {None}, clock : 0..MaxNotes]
           /\ \/ b.orig = a.bill.orig /\ b.auto = a.bill.auto /\ b.clock = a.bill.clock
              \/ /\ NewerRenewal(a, txs[notes[i].tx].orig, i)
                 /\ b.orig = txs[notes[i].tx].orig /\ b.auto = notes[i].auto /\ b.clock = i
           /\ \/ Repeated(a, i) /\ b.charges = a.bill.charges /\ b.tx = a.bill.tx /\ b.type = a.bill.type
              \/ /\ ~Repeated(a, i) /\ b.tx = notes[i].tx /\ b.type = <<notes[i].type, notes[i].auto>>
                 /\ b.charges = a.bill.charges + IF ChargedAfter(a, i) THEN 1 ELSE 0
<1> DEFINE r == txs[notes[i].tx].orig
           m == IF NewerRenewal(a, r, i) THEN [a.bill EXCEPT !.orig = r, !.auto = notes[i].auto, !.clock = i] ELSE a.bill
           Bill == [count : Nat, charges : Nat, tx : 0..MaxTx, type : {None} \cup (NoteTypes \X BOOLEAN),
                     orig : Receipts \cup {None}, auto : BOOLEAN \cup {None}, clock : 0..MaxNotes]
           ch == IF ChargedAfter(a, i) THEN 1 ELSE 0
           ty == <<notes[i].type, notes[i].auto>>
<1>0. /\ r \in Receipts /\ notes[i].auto \in BOOLEAN /\ i \in 0..MaxNotes /\ notes[i].tx \in 0..MaxTx
      /\ notes[i].type \in NoteTypes
  BY DEF StoreFacts
<1>1. a.bill \in Bill
  BY DEF AccountType
<1>2. /\ m \in Bill /\ m.charges = a.bill.charges /\ m.tx = a.bill.tx /\ m.type = a.bill.type
      /\ \/ m.orig = a.bill.orig /\ m.auto = a.bill.auto /\ m.clock = a.bill.clock
         \/ NewerRenewal(a, r, i) /\ m.orig = r /\ m.auto = notes[i].auto /\ m.clock = i
  <2>1. CASE NewerRenewal(a, r, i)
    <3>1. m = [a.bill EXCEPT !.orig = r, !.auto = notes[i].auto, !.clock = i]
      BY <2>1
    <3> HIDE DEF m
    <3> QED
      BY <1>0, <1>1, <2>1, <3>1
  <2>2. CASE ~NewerRenewal(a, r, i)
    BY <1>1, <2>2
  <2> QED
    BY <2>1, <2>2
<1>3. b = IF Repeated(a, i) THEN m ELSE [m EXCEPT !.count = @ + 1, !.charges = @ + ch, !.tx = notes[i].tx, !.type = ty]
  BY DEF Recorded, Note
<1>4. ch \in {0, 1} /\ ty \in NoteTypes \X BOOLEAN
  BY <1>0
<1> HIDE DEF m, ch, ty
<1>5. CASE Repeated(a, i)
  BY <1>2, <1>3, <1>5
<1>6. CASE ~Repeated(a, i)
  <2>1. b = [m EXCEPT !.count = m.count + 1, !.charges = m.charges + ch, !.tx = notes[i].tx, !.type = ty]
    BY <1>3, <1>6
  <2>2. m.count + 1 \in Nat /\ m.charges + ch \in Nat
    BY <1>2, <1>4
  <2>3. b \in Bill
    BY <1>0, <1>2, <1>4, <2>1, <2>2
  <2>4. /\ b.charges = m.charges + ch /\ b.tx = notes[i].tx /\ b.type = ty
        /\ b.orig = m.orig /\ b.auto = m.auto /\ b.clock = m.clock
    BY <1>2, <2>1
  <2> QED
    BY <1>2, <1>6, <2>3, <2>4 DEF ch, ty
<1> QED
  BY <1>5, <1>6

\* A step of the webhook, of the phone's verification, and of the rest, as the accounts see it.
LEMMA WebhookMoves ==
    ASSUME StoreInv, StoreFacts, NEW i \in DOMAIN notes, Webhook(i)
    PROVE  AccountsMove
<1> DEFINE t == notes[i].tx
           c == Owner(t)
<1>0. t \in DOMAIN txs /\ c \in Accounts /\ accounts[c] \in AccountType /\ i \in 1..MaxNotes
  BY DEF StoreFacts
<1>1. CASE Deliver(i) \/ claim_transaction(i)
  BY <1>1, Unmoved DEF Deliver, claim_transaction
<1>2. CASE conditionally_backfill(i)
  <2> DEFINE n == Bound(accounts[c], txs[t].orig)
  <2>1. \/ Backfilled(c, t) /\ Update(c, n)
        \/ accounts' = accounts /\ release' = release
    BY <1>2, Zenon DEF conditionally_backfill, Note
  <2>2. CASE Backfilled(c, t) /\ Update(c, n)
    <3>1. accounts[c].orig = None /\ txs[t].orig # None
      BY <1>0, <2>2 DEF Backfilled, StoreFacts
    <3>2. claims[txs[t].orig] = c
      BY <1>2 DEF conditionally_backfill, StoreInv, ClaimsHeld, At
    <3> HIDE DEF t, c, n
    <3>3. n = Bound(accounts[c], txs[t].orig)
      BY DEF n
    <3>4. n \in AccountType /\ Binds(c, accounts[c], n)
      BY <1>0, <3>1, <3>2, <3>3, BoundBinds
    <3>5. AccountMoves(c, accounts[c], n)
      BY <3>4 DEF AccountMoves
    <3> QED
      BY <1>0, <2>2, <3>4, <3>5, UpdateMoves
  <2> QED
    BY <2>1, <2>2, Unmoved
<1>3. CASE record_active_renewal_status(i)
  <2> DEFINE n == [accounts[c] EXCEPT !.auto = notes[i].auto, !.clock = i]
  <2>1. \/ accounts[c].orig = txs[t].orig /\ i > accounts[c].clock /\ Update(c, n)
        \/ accounts' = accounts /\ release' = release
    BY <1>3, Zenon DEF record_active_renewal_status, Note
  <2>2. CASE accounts[c].orig = txs[t].orig /\ i > accounts[c].clock /\ Update(c, n)
    <3>1. notes[i].type = "DID_CHANGE_RENEWAL_STATUS"
      BY <1>3 DEF record_active_renewal_status, StoreInv, ClaimsHeld, At
    <3>2. i \in 0..MaxNotes /\ notes[i].auto \in BOOLEAN \cup {None}
      BY <1>0 DEF StoreFacts
    <3>3. n \in AccountType
      BY <1>0, <3>2 DEF AccountType
    <3>4. /\ n.active = accounts[c].active /\ n.deletedAt = accounts[c].deletedAt /\ n.bill = accounts[c].bill
          /\ n.uuid = accounts[c].uuid /\ n.orig = accounts[c].orig /\ n.clock = i /\ n.auto = notes[i].auto
      BY <1>0 DEF AccountType
    <3> HIDE DEF n
    <3>5. Learns(accounts[c], n)
      BY <1>0, <2>2, <3>1, <3>4 DEF Learns, SameEvidence
    <3>6. AccountMoves(c, accounts[c], n)
      BY <3>5 DEF AccountMoves
    <3> HIDE DEF t, c
    <3> QED
      BY <1>0, <2>2, <3>3, <3>6, UpdateMoves
  <2> QED
    BY <2>1, <2>2, Unmoved
<1>4. CASE update_contractor(i)
  <2> DEFINE p == Renewed(accounts[c], t)
             e == Ended(accounts[c])
  <2>1. Update(c, p) \/ Update(c, e) \/ (accounts' = accounts /\ release' = release)
    BY <1>4, Zenon DEF update_contractor, Note
  <2> HIDE DEF p, e, t, c
  <2>2. p \in AccountType /\ Serves(accounts[c], p)
    BY <1>0, RenewedServes DEF p
  <2>3. e \in AccountType /\ Serves(accounts[c], e)
    BY <1>0, EndedServes DEF e
  <2>4. AccountMoves(c, accounts[c], p) /\ AccountMoves(c, accounts[c], e)
    BY <2>2, <2>3 DEF AccountMoves
  <2> QED
    BY <1>0, <2>1, <2>2, <2>3, <2>4, Unmoved, UpdateMoves
<1>5. CASE record_inactive_notification(i)
  <2> DEFINE b == Recorded(accounts[c], i)
             n == [accounts[c] EXCEPT !.bill = b]
  <2>1. At(i, "record") /\ accounts' = [accounts EXCEPT ![c].bill = b] /\ release' = release
    BY <1>5, Zenon DEF record_inactive_notification, Note
  <2>2. accounts' = [accounts EXCEPT ![c] = n]
    BY <1>0, <2>1 DEF StoreFacts
  <2>3. n \in AccountType
    <3>1. b \in [count : Nat, charges : Nat, tx : 0..MaxTx, type : {None} \cup (NoteTypes \X BOOLEAN),
                 orig : Receipts \cup {None}, auto : BOOLEAN \cup {None}, clock : 0..MaxNotes]
      BY <1>0, RecordedFits
    <3> HIDE DEF b
    <3> QED
      BY <1>0, <3>1 DEF AccountType
  <2>4. /\ n.active = accounts[c].active /\ n.deletedAt = accounts[c].deletedAt /\ n.uuid = accounts[c].uuid
        /\ n.orig = accounts[c].orig /\ n.auto = accounts[c].auto /\ n.clock = accounts[c].clock
    <3> HIDE DEF b
    <3> QED
      BY <1>0 DEF AccountType
  <2>5. n = [accounts[c] EXCEPT !.bill = Recorded(accounts[c], i)]
    OBVIOUS
  <2> HIDE DEF n, b
  <2>6. Records(c, accounts[c], n)
    BY <1>5, <2>1, <2>4, <2>5 DEF Records, SameBinding
  <2>7. AccountMoves(c, accounts[c], n)
    BY <2>6 DEF AccountMoves
  <2> HIDE DEF c
  <2> QED
    BY <1>0, <2>1, <2>2, <2>3, <2>7, OneMoves
<1>6. CASE Forward(i)
  <2> DEFINE d == handlers[i].rebound
             p == Renewed(accounts[d], t)
             f == [p EXCEPT !.from = c]
             e == Ended(accounts[d])
  <2>1. Update(d, f) \/ Update(d, e)
    BY <1>6, Zenon DEF Forward, Note
  <2>2. d \in Accounts
    BY <1>0, <1>6 DEF Forward, At, StoreInv, CallsFit
  <2> HIDE DEF d, p, f, e, t, c
  <2>3. accounts[d] \in AccountType
    BY <2>2 DEF StoreFacts
  <2>4. p \in AccountType /\ Serves(accounts[d], p)
    BY <1>0, <2>3, RenewedServes DEF p
  <2>5. f \in AccountType /\ Serves(p, f)
    BY <1>0, <2>4, FromServes DEF f
  <2>6. e \in AccountType /\ Serves(accounts[d], e)
    BY <2>3, EndedServes DEF e
  <2>7. Serves(accounts[d], f)
    BY <2>4, <2>5 DEF Serves, SameEvidence, SameBinding
  <2>8. AccountMoves(d, accounts[d], f) /\ AccountMoves(d, accounts[d], e)
    BY <2>6, <2>7 DEF AccountMoves
  <2> QED
    BY <2>1, <2>2, <2>5, <2>6, <2>8, UpdateMoves
<1> QED
  BY <1>1, <1>2, <1>3, <1>4, <1>5, <1>6, Zenon DEF Webhook

LEMMA VerifyMoves ==
    ASSUME StoreInv, StoreFacts, NEW t \in DOMAIN txs, Verify(t) \/ Unanswered(t)
    PROVE  AccountsMove
<1> DEFINE c == verifies[t].acct
<1>0. t \in 1..MaxTx
  BY DEF StoreFacts
<1>a. \A pc \in {"activate", "backfill"} : Asked(t, pc) =>
         c \in Accounts /\ accounts[c] \in AccountType /\ claims[txs[t].orig] = c
  <2> SUFFICES ASSUME NEW pc \in {"activate", "backfill"}, verifies[t].pc = pc
               PROVE  c \in Accounts /\ accounts[c] \in AccountType /\ claims[txs[t].orig] = c
    BY DEF Asked
  <2>1. verifies[t] \in Verifications /\ claims[txs[t].orig] = c
    BY <1>0 DEF StoreInv, CallsFit, ClaimsHeld
  <2>2. c \in Accounts
    BY <2>1 DEF Verifications, Asking
  <2> QED
    BY <2>1, <2>2 DEF StoreFacts
<1>1. CASE verify(t) \/ AskApple(t) \/ ClaimVerified(t) \/ mark_transaction_seen(t) \/ CheckRepair(t) \/ Resolve(t) \/ Unanswered(t)
  <2>1. accounts' = accounts /\ release' = release
    BY <1>1, Zenon DEF verify, AskApple, ClaimVerified, mark_transaction_seen, CheckRepair, Resolve, Unanswered
  <2> QED
    BY <2>1, Unmoved
<1>2. CASE activate(t)
  <2> DEFINE n == Activation(accounts[c], t)
  <2>1. Asked(t, "activate") /\ (Update(c, n) \/ (accounts' = accounts /\ release' = release))
    BY <1>2, Zenon DEF activate
  <2>2. c \in Accounts /\ accounts[c] \in AccountType /\ claims[txs[t].orig] = c
    BY <1>a, <2>1
  <2> HIDE DEF n, c
  <2>3. n = Activation(accounts[c], t)
    BY DEF n
  <2>4. n \in AccountType /\ AccountMoves(c, accounts[c], n)
    BY <2>2, <2>3, ActivationMoves
  <2> QED
    BY <2>1, <2>2, <2>4, Unmoved, UpdateMoves
<1>3. CASE BackfillVerified(t)
  <2> DEFINE n == Bound(accounts[c], txs[t].orig)
  <2>1. /\ Asked(t, "backfill")
        /\ \/ Backfilled(c, t) /\ Update(c, n)
           \/ accounts' = accounts /\ release' = release
    BY <1>3, Zenon DEF BackfillVerified
  <2>2. c \in Accounts /\ accounts[c] \in AccountType /\ claims[txs[t].orig] = c
    BY <1>a, <2>1
  <2> HIDE DEF n, c
  <2>3. CASE Backfilled(c, t) /\ Update(c, n)
    <3>1. accounts[c].orig = None /\ txs[t].orig # None
      BY <2>3 DEF Backfilled, StoreFacts
    <3>2. n \in AccountType /\ Binds(c, accounts[c], n)
      BY <2>2, <3>1, BoundBinds DEF n
    <3>3. AccountMoves(c, accounts[c], n)
      BY <3>2 DEF AccountMoves
    <3> QED
      BY <2>2, <2>3, <3>2, <3>3, UpdateMoves
  <2> QED
    BY <2>1, <2>3, Unmoved
<1> QED
  BY <1>1, <1>2, <1>3, Zenon DEF Verify

LEMMA PersonMoves ==
    ASSUME StoreInv, StoreFacts, NEW c \in Accounts,
           \/ \E p \in 1..2 : ensure_subscription_uuid(c, p)
           \/ deactivate_contractor(c) \/ BeginRelease(c) \/ EndRelease(c) \/ lapsed_trials_once(c)
    PROVE  AccountsMove
<1>0. accounts[c] \in AccountType
  BY DEF StoreFacts
<1>1. ASSUME NEW p \in 1..2, ensure_subscription_uuid(c, p) PROVE AccountsMove
  <2> DEFINE n == [accounts[c] EXCEPT !.uuid = p]
  <2>1. <<c, p>> \in ensuring /\ accounts' = [accounts EXCEPT ![c] = n] /\ release' = release
    BY <1>1 DEF ensure_subscription_uuid, StoreFacts
  <2>2. n \in AccountType
    BY <1>0 DEF AccountType
  <2>3. Tokened(c, accounts[c], n)
    BY <1>0, <2>1 DEF AccountType, Tokened, SameEvidence, SameBinding
  <2> HIDE DEF n
  <2>4. AccountMoves(c, accounts[c], n)
    BY <2>3 DEF AccountMoves
  <2> QED
    BY <2>1, <2>2, <2>4, OneMoves
<1>2. CASE deactivate_contractor(c)
  <2> DEFINE n == [accounts[c] EXCEPT !.active = FALSE, !.deletedAt = now]
  <2>1. /\ "delete" \in Events /\ accounts[c].active /\ release' = release
        /\ accounts' = [accounts EXCEPT ![c].active = FALSE, ![c].deletedAt = now]
    BY <1>2, Zenon DEF deactivate_contractor
  <2>2. accounts' = [accounts EXCEPT ![c] = n]
    BY <2>1 DEF StoreFacts
  <2>3. n \in AccountType
    <3>1. now \in 0..MaxTime
      BY DEF StoreFacts
    <3> QED
      BY <1>0, <3>1 DEF AccountType
  <2>4. Deletes(c, accounts[c], n)
    BY <1>0, <1>2, <2>1 DEF AccountType, Deletes, SameBinding
  <2> HIDE DEF n
  <2>5. AccountMoves(c, accounts[c], n)
    BY <2>4 DEF AccountMoves
  <2> QED
    BY <2>1, <2>2, <2>3, <2>5, OneMoves
<1>3. CASE BeginRelease(c) \/ EndRelease(c)
  <2>1. accounts' = accounts /\ release' \in [Accounts -> {"free", "deleting", "needs_attention"}]
    BY <1>3 DEF BeginRelease, EndRelease, StoreFacts
  <2> QED
    BY <2>1 DEF StoreFacts, AccountsMove, AccountMoves, Serves, SameEvidence, SameBinding
<1>4. CASE lapsed_trials_once(c)
  <2> DEFINE e == Ended(accounts[c])
  <2>1. Update(c, e)
    BY <1>4, Zenon DEF lapsed_trials_once
  <2> HIDE DEF e
  <2>2. e \in AccountType /\ Serves(accounts[c], e)
    BY <1>0, EndedServes DEF e
  <2>3. AccountMoves(c, accounts[c], e)
    BY <2>2 DEF AccountMoves
  <2> QED
    BY <2>1, <2>2, <2>3, UpdateMoves
<1> QED
  BY <1>1, <1>2, <1>3, <1>4

LEMMA RecheckMoves ==
    ASSUME StoreInv, StoreFacts, update_stale_subscription
    PROVE  AccountsMove
<1> DEFINE c == recheck.acct
           p == Renewed(accounts[c], recheck.tx)
           e == Ended(accounts[c])
<1>1. /\ recheck.pc \in {"expired", "renewed"}
      /\ Update(c, p) \/ Update(c, e) \/ (accounts' = accounts /\ release' = release)
  BY Zenon DEF update_stale_subscription
<1>2. c \in Accounts /\ recheck.tx \in DOMAIN txs
  BY <1>1 DEF StoreInv, RecheckFits
<1> HIDE DEF c, p, e
<1>3. accounts[c] \in AccountType
  BY <1>2 DEF StoreFacts
<1>4. p \in AccountType /\ Serves(accounts[c], p)
  BY <1>2, <1>3, RenewedServes DEF p
<1>5. e \in AccountType /\ Serves(accounts[c], e)
  BY <1>3, EndedServes DEF e
<1>6. AccountMoves(c, accounts[c], p) /\ AccountMoves(c, accounts[c], e)
  BY <1>4, <1>5 DEF AccountMoves
<1> QED
  BY <1>1, <1>2, <1>4, <1>5, <1>6, Unmoved, UpdateMoves

LEMMA AccountSteps ==
    ASSUME StoreInv, Next
    PROVE  AccountsMove
<1>0. StoreFacts
  BY FactsHold
<1>1. ASSUME NEW i \in DOMAIN notes, Faults(i) \/ replay(i) \/ Handle(i)
      PROVE  accounts' = accounts /\ release' = release
  <2>1. Faults(i) => accounts' = accounts /\ release' = release
    BY Zenon DEF Faults, Crash, ForwardFails, Redeliver, GiveUp
  <2>2. replay(i) \/ Handle(i) => accounts' = accounts /\ release' = release
    BY Zenon DEF replay, Handle
  <2> QED
    BY <1>1, <2>1, <2>2
<1>2. ASSUME World PROVE AccountsMove
  <2>1. ASSUME NEW r \in Receipts, NEW tier \in Tiers,
               purchase(r, tier) \/ \E ty \in {"DID_RENEW", "UPGRADE"} : Renew(r, tier, ty)
        PROVE  accounts' = accounts /\ release' = release
    BY <2>1, Zenon DEF purchase, Renew
  <2>2. ASSUME NEW r \in Receipts, NEW ty \in Terminal \cup {"DID_FAIL_TO_RENEW", "DID_CHANGE_RENEWAL_STATUS"}, Ends(r, ty)
        PROVE  accounts' = accounts /\ release' = release
    BY <2>2, Zenon DEF Ends
  <2>3. Tick => accounts' = accounts /\ release' = release
    BY Zenon DEF Tick
  <2>4. ASSUME NEW p \in 1..2, ReadProfile(p) PROVE accounts' = accounts /\ release' = release
    BY <2>4, Zenon DEF ReadProfile
  <2>5. \/ accounts' = accounts /\ release' = release
        \/ \E c \in Accounts, p \in 1..2 : ensure_subscription_uuid(c, p)
        \/ \E c \in Accounts : deactivate_contractor(c) \/ BeginRelease(c) \/ EndRelease(c)
    BY <1>2, <2>1, <2>2, <2>3, <2>4, Zenon DEF World
  <2>6. CASE accounts' = accounts /\ release' = release
    BY <1>0, <2>6, Unmoved
  <2> QED
    BY <1>0, <2>5, <2>6, PersonMoves
<1>3. ASSUME Reconcile PROVE AccountsMove
  <2>1. ASSUME NEW c \in Accounts, schedule_recheck(c) PROVE AccountsMove
    BY <1>0, <2>1, Unmoved DEF schedule_recheck
  <2>2. recheck_asks => AccountsMove
    BY <1>0, Unmoved DEF recheck_asks
  <2> QED
    BY <1>0, <1>3, <2>1, <2>2, PersonMoves, RecheckMoves DEF Reconcile
<1>4. verifyCurrentEntitlements => AccountsMove
  <2>1. verifyCurrentEntitlements => accounts' = accounts /\ release' = release
    BY Zenon DEF verifyCurrentEntitlements
  <2> QED
    BY <1>0, <2>1, Unmoved
<1>5. ASSUME NEW i \in DOMAIN notes, Webhook(i) \/ Faults(i) \/ replay(i) \/ Handle(i) PROVE AccountsMove
  BY <1>0, <1>1, <1>5, Unmoved, WebhookMoves
<1>6. ASSUME NEW t \in DOMAIN txs, Verify(t) \/ Unanswered(t) PROVE AccountsMove
  BY <1>0, <1>6, VerifyMoves
<1> QED
  BY <1>2, <1>3, <1>4, <1>5, <1>6, Zenon DEF Next

-----------------------------------------------------------------------------
(* How the calls of the webhook go on.                                      *)

Calls == Unread \cup Live \cup Gone

\* Where a call goes from where it is, with what it has found.
HandlerTo(i, h) ==
    \/ h = Idle
    \/ h = [pc |-> "replayed"]
    \/ h \in Live /\ h.pc = "claim" /\ accounts[Owner(notes[i].tx)].active
    \/ h \in Gone /\ h.pc = "record" /\ ~accounts[Owner(notes[i].tx)].active
    \/ /\ handlers[i].pc = "claim" /\ h \in Live /\ h.pc \in {"backfill", "write"}
       /\ claims'[txs[notes[i].tx].orig] = Owner(notes[i].tx)
       /\ h.pc = "backfill" => notes[i].type = "DID_CHANGE_RENEWAL_STATUS"
    \/ handlers[i].pc = "backfill" /\ h \in Live /\ h.pc = "renewal"
    \/ handlers[i].pc = "record" /\ h \in Gone /\ h.pc = "forward" /\ h.rebound \in Accounts

SameCalls == UNCHANGED <<handlers, accepted>>

\* One call goes on; what is answered is done.
CallGoes(i) ==
    /\ \E h \in Calls : handlers' = [handlers EXCEPT ![i] = h] /\ HandlerTo(i, h)
    /\ outbox' \subseteq outbox \cup {i} /\ failed' \subseteq failed \cup {i} /\ accepted' \subseteq accepted \cup {i}

\* The calls and the notes that are under way.
LEMMA CallTypes ==
    ASSUME StoreInv
    PROVE  /\ handlers \in [1..MaxNotes -> Calls]
           /\ \A i \in 1..MaxNotes : /\ handlers[i].pc \in LivePcs => handlers[i] \in Live
                                     /\ handlers[i].pc \in {"record", "forward"} => handlers[i] \in Gone
           /\ outbox \cup failed \cup accepted \subseteq DOMAIN notes
<1>1. handlers \in [1..MaxNotes -> Calls]
  BY DEF StoreInv, CallsFit, Calls
<1>2. \A h \in Calls : /\ h.pc \in LivePcs => h \in Live
                       /\ h.pc \in {"record", "forward"} => h \in Gone
  BY DEF Calls, Unread, Live, Gone, LivePcs
<1> QED
  BY <1>1, <1>2 DEF StoreInv, TypeOK

LEMMA GoesOn ==
    ASSUME NEW i, NEW h \in Calls, handlers' = [handlers EXCEPT ![i] = h], HandlerTo(i, h),
           outbox' \subseteq outbox \cup {i}, failed' \subseteq failed \cup {i}, accepted' \subseteq accepted \cup {i}
    PROVE  CallGoes(i)
BY Zenon DEF CallGoes

LEMMA IdleIsCall ==
    Idle \in Calls /\ [pc |-> "replayed"] \in Calls /\ Idle.pc = "idle"
BY DEF Idle, Calls, Unread

LEMMA DoneGoes ==
    ASSUME NEW i, Done(i)
    PROVE  CallGoes(i)
<1> DEFINE h == Idle
<1>1. h \in Calls /\ HandlerTo(i, h)
  BY IdleIsCall DEF HandlerTo
<1>2. /\ handlers' = [handlers EXCEPT ![i] = h]
      /\ outbox' \subseteq outbox \cup {i} /\ failed' \subseteq failed \cup {i} /\ accepted' \subseteq accepted \cup {i}
  BY DEF Done
<1> HIDE DEF h
<1> QED
  BY <1>1, <1>2, GoesOn

LEMMA LookUpGoes ==
    ASSUME StoreInv, StoreFacts, NEW i \in DOMAIN notes, LookUp(i)
    PROVE  CallGoes(i)
<1> DEFINE t == notes[i].tx
           c == Owner(t)
           b == Rebound(c)
           live == [pc |-> "claim", legacy |-> accounts[c].orig = None /\ SameTerm(accounts[c], t)]
           gone == [pc |-> "record", rebound |-> b, rstatus |-> IF b = None THEN None ELSE accounts[b].status,
                    rfrom |-> IF b = None THEN None ELSE accounts[b].from]
           h == IF accounts[c].active THEN live ELSE gone
<1>0. c \in Accounts /\ accounts[c] \in AccountType
  BY DEF StoreFacts
<1>1. Done(i) \/ (handlers' = [handlers EXCEPT ![i] = h] /\ UNCHANGED <<outbox, failed, accepted>>)
  BY Zenon DEF LookUp, Note
<1>2. live \in Live /\ live.pc = "claim"
  <2>1. (accounts[c].orig = None /\ SameTerm(accounts[c], t)) \in BOOLEAN
    BY Zenon DEF SameTerm
  <2> QED
    BY <2>1 DEF Live, LivePcs
<1>3. gone \in Gone /\ gone.pc = "record"
  <2>1. b \in Accounts \cup {None}
    BY Zenon DEF Rebound
  <2>2. b \in Accounts => accounts[b] \in AccountType
    BY DEF StoreFacts
  <2>3. None \notin Accounts
    BY DEF StoreFacts
  <2> HIDE DEF b
  <2>4. (IF b = None THEN None ELSE accounts[b].status) \in {None, "trial", "active", "expired"}
    BY <2>1, <2>2 DEF AccountType
  <2>5. (IF b = None THEN None ELSE accounts[b].from) \in Accounts \cup {None}
    BY <2>1, <2>2 DEF AccountType
  <2> QED
    BY <2>1, <2>4, <2>5 DEF Gone
<1> HIDE DEF live, gone
<1>4. h \in Calls
  BY <1>2, <1>3 DEF Calls
<1>5. HandlerTo(i, h)
  BY <1>2, <1>3 DEF HandlerTo
<1> HIDE DEF h
<1>6. CASE handlers' = [handlers EXCEPT ![i] = h] /\ UNCHANGED <<outbox, failed, accepted>>
  BY <1>4, <1>5, <1>6, GoesOn
<1> QED
  BY <1>1, <1>6, DoneGoes

\* A call that goes to its next read or write.
LEMMA GoToGoes ==
    ASSUME StoreInv, NEW i \in 1..MaxNotes, NEW pc, GoTo(i, pc),
           NEW h, h = [handlers[i] EXCEPT !.pc = pc], h \in Calls, HandlerTo(i, h)
    PROVE  CallGoes(i)
<1>1. handlers' = [handlers EXCEPT ![i] = h] /\ UNCHANGED <<outbox, failed, accepted>>
  BY CallTypes DEF GoTo
<1> QED
  BY <1>1, GoesOn

LEMMA WebhookGoes ==
    ASSUME StoreInv, StoreFacts, NEW i \in DOMAIN notes, Webhook(i) \/ Faults(i) \/ replay(i) \/ Handle(i)
    PROVE  CallGoes(i)
<1> DEFINE t == notes[i].tx
           c == Owner(t)
<1>0. t \in DOMAIN txs /\ c \in Accounts /\ i \in 1..MaxNotes /\ txs[t].orig \in Receipts
  BY DEF StoreFacts
<1>a. /\ handlers[i].pc \in LivePcs => handlers[i] \in Live
      /\ handlers[i].pc \in {"record", "forward"} => handlers[i] \in Gone
      /\ i \in DOMAIN handlers
  BY <1>0, CallTypes
<1>1. CASE Deliver(i) \/ Handle(i)
  BY <1>1, LookUpGoes DEF Deliver, Handle
<1>2. CASE claim_transaction(i)
  <2> DEFINE pc == IF notes[i].type = "DID_CHANGE_RENEWAL_STATUS" THEN "backfill" ELSE "write"
             h == [handlers[i] EXCEPT !.pc = pc]
  <2>1. /\ handlers[i].pc = "claim"
        /\ Done(i) \/ (claims' = Claimed(txs[t].orig, c) /\ GoTo(i, pc))
    BY <1>2, Zenon DEF claim_transaction, Note, At
  <2>2. CASE claims' = Claimed(txs[t].orig, c) /\ GoTo(i, pc)
    <3>1. handlers[i] \in Live
      BY <1>a, <2>1 DEF LivePcs
    <3>2. h \in Live /\ h.pc = pc
      BY <3>1 DEF Live, LivePcs
    <3>3. claims'[txs[t].orig] = c
      BY <1>0, <2>2 DEF Claimed, StoreInv, TypeOK
    <3>4. h = [handlers[i] EXCEPT !.pc = pc]
      OBVIOUS
    <3>5. pc \in {"backfill", "write"} /\ (pc = "backfill" => notes[i].type = "DID_CHANGE_RENEWAL_STATUS")
      OBVIOUS
    <3> HIDE DEF pc, h
    <3>6. HandlerTo(i, h)
      BY <2>1, <3>2, <3>3, <3>5 DEF HandlerTo
    <3>7. h \in Calls
      BY <3>2 DEF Calls
    <3> QED
      BY <1>0, <2>2, <3>4, <3>6, <3>7, GoToGoes
  <2> QED
    BY <2>1, <2>2, DoneGoes
<1>3. CASE conditionally_backfill(i)
  <2> DEFINE h == [handlers[i] EXCEPT !.pc = "renewal"]
  <2>1. handlers[i].pc = "backfill" /\ GoTo(i, "renewal")
    BY <1>3, Zenon DEF conditionally_backfill, At
  <2>2. h \in Live /\ h.pc = "renewal"
    BY <1>a, <2>1 DEF Live, LivePcs
  <2>3. h = [handlers[i] EXCEPT !.pc = "renewal"]
    OBVIOUS
  <2> HIDE DEF h
  <2>4. HandlerTo(i, h) /\ h \in Calls
    BY <2>1, <2>2 DEF HandlerTo, Calls
  <2> QED
    BY <1>0, <2>1, <2>3, <2>4, GoToGoes
<1>4. CASE record_active_renewal_status(i) \/ update_contractor(i) \/ Forward(i) \/ ForwardFails(i)
  <2>1. Done(i)
    BY <1>4, Zenon DEF record_active_renewal_status, update_contractor, Forward, ForwardFails
  <2> QED
    BY <2>1, DoneGoes
<1>5. CASE record_inactive_notification(i)
  <2> DEFINE h == [handlers[i] EXCEPT !.pc = "forward"]
  <2>1. /\ handlers[i].pc = "record"
        /\ Done(i) \/ (handlers[i].rebound # None /\ GoTo(i, "forward"))
    BY <1>5, Zenon DEF record_inactive_notification, At
  <2>2. CASE handlers[i].rebound # None /\ GoTo(i, "forward")
    <3>1. handlers[i] \in Gone
      BY <1>a, <2>1
    <3>2. h \in Gone /\ h.pc = "forward" /\ h.rebound \in Accounts
      BY <2>2, <3>1 DEF Gone
    <3>3. h = [handlers[i] EXCEPT !.pc = "forward"]
      OBVIOUS
    <3> HIDE DEF h
    <3>4. HandlerTo(i, h) /\ h \in Calls
      BY <2>1, <3>2 DEF HandlerTo, Calls
    <3> QED
      BY <1>0, <2>2, <3>3, <3>4, GoToGoes
  <2> QED
    BY <2>1, <2>2, DoneGoes
<1>6. CASE Crash(i)
  <2> DEFINE h == Idle
  <2>1. handlers' = [handlers EXCEPT ![i] = h]
        /\ (outbox' = outbox \/ outbox' = outbox \cup {i}) /\ failed' = failed /\ accepted' = accepted
    BY <1>6, Zenon DEF Crash
  <2>2. h \in Calls /\ HandlerTo(i, h)
    BY IdleIsCall DEF HandlerTo
  <2> HIDE DEF h
  <2> QED
    BY <2>1, <2>2, GoesOn
<1>7. CASE Redeliver(i) \/ GiveUp(i)
  <2> DEFINE h == Idle
  <2>1. /\ handlers[i].pc = "idle" /\ handlers' = handlers /\ accepted' = accepted
        /\ outbox' \subseteq outbox \cup {i} /\ failed' \subseteq failed \cup {i}
    BY <1>7 DEF Redeliver, GiveUp, At
  <2>2. handlers[i] = Idle
    <3>1. handlers[i] \in Calls
      BY <1>0, CallTypes
    <3> QED
      BY <2>1, <3>1 DEF Calls, Unread, Live, Gone, LivePcs, Idle
  <2>3. handlers' = [handlers EXCEPT ![i] = h]
    BY <1>0, <2>1, <2>2, CallTypes
  <2>4. h \in Calls /\ HandlerTo(i, h)
    BY IdleIsCall DEF HandlerTo
  <2> HIDE DEF h
  <2> QED
    BY <2>1, <2>3, <2>4, GoesOn
<1>8. CASE replay(i)
  <2> DEFINE h == [pc |-> "replayed"]
             k == Idle
  <2>1. /\ handlers[i].pc = "idle"
        /\ \/ failed' = failed \ {i} /\ UNCHANGED <<outbox, accepted, handlers>>
           \/ handlers' = [handlers EXCEPT ![i] = h] /\ UNCHANGED <<outbox, failed, accepted>>
    BY <1>8, Zenon DEF replay, At
  <2>2. h \in Calls /\ HandlerTo(i, h) /\ k \in Calls /\ HandlerTo(i, k)
    BY IdleIsCall DEF HandlerTo
  <2>3. handlers[i] = Idle
    <3>1. handlers[i] \in Calls
      BY <1>0, CallTypes
    <3> QED
      BY <2>1, <3>1 DEF Calls, Unread, Live, Gone, LivePcs, Idle
  <2>4. handlers' = handlers => handlers' = [handlers EXCEPT ![i] = k]
    BY <1>0, <2>3, CallTypes
  <2> HIDE DEF h, k
  <2>5. CASE failed' = failed \ {i} /\ UNCHANGED <<outbox, accepted, handlers>>
    BY <2>2, <2>4, <2>5, GoesOn
  <2>6. CASE handlers' = [handlers EXCEPT ![i] = h] /\ UNCHANGED <<outbox, failed, accepted>>
    BY <2>2, <2>6, GoesOn
  <2> QED
    BY <2>1, <2>5, <2>6
<1> QED
  BY <1>1, <1>2, <1>3, <1>4, <1>5, <1>6, <1>7, <1>8, Zenon DEF Webhook, Faults

\* A step of one call.
CallActs(i) == Webhook(i) \/ Faults(i) \/ replay(i) \/ Handle(i)

LEMMA CallSteps ==
    ASSUME StoreInv, Next
    PROVE  \/ /\ SameCalls /\ failed' = failed
              /\ \/ outbox' = outbox
                 \/ outbox' = outbox \cup {Len(notes) + 1} /\ \E n : notes' = Append(notes, n)
           \/ \E i \in DOMAIN notes : CallGoes(i) /\ CallActs(i)
<1>1. ASSUME World PROVE /\ SameCalls /\ failed' = failed
                         /\ \/ outbox' = outbox
                            \/ outbox' = outbox \cup {Len(notes) + 1} /\ \E n : notes' = Append(notes, n)
  <2>1. ASSUME NEW note, Emit(note)
        PROVE  /\ SameCalls /\ failed' = failed
               /\ outbox' = outbox \cup {Len(notes) + 1} /\ \E n : notes' = Append(notes, n)
    BY <2>1 DEF Emit, SameCalls
  <2>2. ASSUME NEW r \in Receipts, NEW tier \in Tiers,
               purchase(r, tier) \/ \E ty \in {"DID_RENEW", "UPGRADE"} : Renew(r, tier, ty)
        PROVE  \E note : Emit(note)
    BY <2>2, Zenon DEF purchase, Renew, Sold
  <2>3. ASSUME NEW r \in Receipts, NEW ty \in Terminal \cup {"DID_FAIL_TO_RENEW", "DID_CHANGE_RENEWAL_STATUS"}, Ends(r, ty)
        PROVE  \E note : Emit(note)
    BY <2>3, Zenon DEF Ends
  <2>4. Tick => SameCalls /\ failed' = failed /\ outbox' = outbox
    BY DEF Tick, delivery, SameCalls
  <2>5. ASSUME NEW p \in 1..2, ReadProfile(p) PROVE SameCalls /\ failed' = failed /\ outbox' = outbox
    BY <2>5 DEF ReadProfile, delivery, SameCalls
  <2>6. ASSUME NEW c \in Accounts, \/ \E p \in 1..2 : ensure_subscription_uuid(c, p)
                                   \/ deactivate_contractor(c) \/ BeginRelease(c) \/ EndRelease(c)
        PROVE  SameCalls /\ failed' = failed /\ outbox' = outbox
    <3>1. ASSUME NEW p \in 1..2, ensure_subscription_uuid(c, p) PROVE SameCalls /\ failed' = failed /\ outbox' = outbox
      BY <3>1 DEF ensure_subscription_uuid, delivery, SameCalls
    <3>2. deactivate_contractor(c) => SameCalls /\ failed' = failed /\ outbox' = outbox
      BY Zenon DEF deactivate_contractor, delivery, SameCalls
    <3>3. BeginRelease(c) \/ EndRelease(c) => SameCalls /\ failed' = failed /\ outbox' = outbox
      BY Zenon DEF BeginRelease, EndRelease, delivery, SameCalls
    <3> QED
      BY <2>6, <3>1, <3>2, <3>3
  <2>7. (\E note : Emit(note)) \/ (SameCalls /\ failed' = failed /\ outbox' = outbox)
    BY <1>1, <2>2, <2>3, <2>4, <2>5, <2>6, Zenon DEF World
  <2> QED
    BY <2>1, <2>7
<1>2. ASSUME NEW t \in DOMAIN txs, Verify(t) \/ Unanswered(t)
      PROVE  SameCalls /\ failed' = failed /\ outbox' = outbox
  BY <1>2, Zenon DEF Verify, Unanswered, verify, AskApple, ClaimVerified, activate, mark_transaction_seen, CheckRepair,
                     BackfillVerified, Resolve, delivery, SameCalls
<1>3. ASSUME verifyCurrentEntitlements \/ Reconcile
      PROVE  SameCalls /\ failed' = failed /\ outbox' = outbox
  <2>1. verifyCurrentEntitlements => SameCalls /\ failed' = failed /\ outbox' = outbox
    BY Zenon DEF verifyCurrentEntitlements, delivery, SameCalls
  <2>2. ASSUME NEW c \in Accounts, schedule_recheck(c) \/ lapsed_trials_once(c)
        PROVE  SameCalls /\ failed' = failed /\ outbox' = outbox
    BY <2>2, Zenon DEF schedule_recheck, lapsed_trials_once, delivery, SameCalls
  <2>3. recheck_asks \/ update_stale_subscription => SameCalls /\ failed' = failed /\ outbox' = outbox
    BY Zenon DEF recheck_asks, update_stale_subscription, delivery, SameCalls
  <2> QED
    BY <1>3, <2>1, <2>2, <2>3, Zenon DEF Reconcile
<1>4. ASSUME NEW i \in DOMAIN notes, CallActs(i) PROVE CallGoes(i)
  BY <1>4, FactsHold, WebhookGoes DEF CallActs
<1> QED
  BY <1>1, <1>2, <1>3, <1>4, Zenon DEF Next, CallActs

-----------------------------------------------------------------------------
(* How the calls of the phone go on.                                        *)

\* Where a verification goes, and from where it starts.
VerifyTo(t, v) ==
    \/ v = Idle
    \/ /\ verifies[t].pc # "idle" /\ v \in Asking /\ v.acct = verifies[t].acct
       /\ v.pc \in {"activate", "backfill"} => claims'[txs[t].orig] = v.acct
       /\ v.pc = "markactive" => <<v.acct, t>> \in granted'
    \/ /\ verifies[t].pc = "idle" /\ v \in Asking /\ v.acct = phone.acct /\ phone.todo[t] > 0
       /\ v.pc \notin {"activate", "backfill", "markactive"}
VerifyGoes(t) == \E v \in Verifications : verifies' = [verifies EXCEPT ![t] = v] /\ VerifyTo(t, v)

\* What is remembered of a transaction.
SeenMoves ==
    \/ seen' = seen
    \/ \E t \in DOMAIN txs, o \in {"active", "inactive"} :
          /\ verifies[t].acct \in Accounts /\ seen' = [seen EXCEPT ![verifies[t].acct][t] = o]
          /\ o = "active" => verifies[t].pc = "markactive"

LEMMA VerifyTypes ==
    ASSUME StoreInv, StoreFacts, NEW t \in DOMAIN txs
    PROVE  /\ t \in DOMAIN verifies /\ verifies[t] \in Verifications
           /\ verifies[t].pc # "idle" => verifies[t] \in Asking /\ verifies[t].acct \in Accounts
<1>1. t \in 1..MaxTx /\ verifies \in [1..MaxTx -> Verifications]
  BY DEF StoreFacts, StoreInv, CallsFit
<1>2. \A v \in Verifications : v.pc # "idle" => v \in Asking /\ v.acct \in Accounts
  BY DEF Verifications, Asking
<1> QED
  BY <1>1, <1>2

\* A verification that goes to its next read or write.
LEMMA StepGoes ==
    ASSUME StoreInv, StoreFacts, NEW t \in DOMAIN txs, NEW pc, Step(t, pc), verifies[t].pc # "idle",
           pc \in {"inactive", "active", "repair", "apple", "claim", "check", "retry", "activate", "rejected",
                   "markinactive", "markactive", "backfill"},
           pc \in {"activate", "backfill"} => claims'[txs[t].orig] = verifies[t].acct,
           pc = "markactive" => <<verifies[t].acct, t>> \in granted'
    PROVE  VerifyGoes(t)
<1> DEFINE v == [verifies[t] EXCEPT !.pc = pc]
<1>1. verifies[t] \in Asking /\ verifies' = [verifies EXCEPT ![t] = v]
  BY VerifyTypes DEF Step
<1>2. v \in Asking /\ v.acct = verifies[t].acct /\ v.pc = pc
  BY <1>1 DEF Asking
<1> HIDE DEF v
<1>3. v \in Verifications /\ VerifyTo(t, v)
  BY <1>2 DEF Verifications, VerifyTo
<1> QED
  BY <1>1, <1>3 DEF VerifyGoes

\* What a verification step does to what is beyond the accounts.
VerifyStep(t) ==
    /\ VerifyGoes(t)
    /\ claims' = claims \/ \E c \in Accounts, r \in Receipts : MayClaim(r, c) /\ claims' = Claimed(r, c)
    /\ granted \subseteq granted' /\ SeenMoves

LEMMA ClaimedHolds ==
    ASSUME StoreInv, NEW r \in Receipts, NEW c, claims' = Claimed(r, c)
    PROVE  claims'[r] = c
BY DEF Claimed, StoreInv, TypeOK

LEMMA VerifySteps ==
    ASSUME StoreInv, StoreFacts, NEW t \in DOMAIN txs, Verify(t) \/ Unanswered(t)
    PROVE  VerifyStep(t)
<1> DEFINE c == verifies[t].acct
           r == txs[t].orig
<1>0. r \in Receipts /\ t \in 1..MaxTx
  BY DEF StoreFacts
<1>a. \A pc : pc # "idle" /\ Asked(t, pc) => verifies[t].pc # "idle" /\ verifies[t] \in Asking /\ c \in Accounts
  BY VerifyTypes DEF Asked
<1>1. CASE verify(t)
  <2>1. PICK v \in Asking : /\ verifies' = [verifies EXCEPT ![t] = v] /\ v.acct = phone.acct
                            /\ v.pc \notin {"activate", "backfill", "markactive"}
    <3> DEFINE a == phone.acct
               known == seen[a][t]
               mine == txs[t].token = [acct |-> a, uuid |-> accounts[a].uuid]
               same == SameTerm(accounts[a], t)
               pc == CASE known = "inactive" -> "inactive"
                       [] known = "active" /\ accounts[a].orig # None -> "active"
                       [] known = "active" /\ accounts[a].orig = None -> "repair"
                       [] OTHER -> "apple"
               v == [acct |-> a, revoked |-> FALSE, mine |-> mine, same |-> same, pc |-> pc]
    <3>1. verifies' = [verifies EXCEPT ![t] = v] /\ a # None
      BY <1>1, Zenon DEF verify
    <3>2. a \in Accounts
      BY <3>1 DEF StoreInv, PhoneFits, Phones
    <3>3. pc \in {"inactive", "active", "repair", "apple"}
      BY Zenon
    <3>4. mine \in BOOLEAN /\ same \in BOOLEAN
      BY Zenon DEF SameTerm
    <3> HIDE DEF pc, mine, same
    <3>5. v \in Asking
      BY <3>2, <3>3, <3>4 DEF Asking
    <3>6. v.acct = phone.acct /\ v.pc \notin {"activate", "backfill", "markactive"}
      BY <3>3
    <3> HIDE DEF v
    <3> QED
      BY <3>1, <3>5, <3>6
  <2>2. /\ verifies[t].pc = "idle" /\ phone.todo[t] > 0
        /\ claims' = claims /\ granted' = granted /\ seen' = seen
    BY <1>1, Zenon DEF verify, Asked
  <2>3. VerifyTo(t, v)
    BY <2>1, <2>2 DEF VerifyTo
  <2>4. v \in Verifications
    BY <2>1 DEF Verifications
  <2>5. VerifyGoes(t)
    BY <2>1, <2>3, <2>4 DEF VerifyGoes
  <2> QED
    BY <2>2, <2>5 DEF VerifyStep, SeenMoves
<1>2. CASE AskApple(t)
  <2>1. PICK next \in {<<"apple", "claim">>, <<"repair", "check">>} :
            Asked(t, next[1]) /\ verifies' = [verifies EXCEPT ![t].pc = next[2], ![t].revoked = txs[t].revoked]
    BY <1>2 DEF AskApple
  <2> DEFINE v == [verifies[t] EXCEPT !.pc = next[2], !.revoked = txs[t].revoked]
  <2>2. verifies[t].pc # "idle" /\ verifies[t] \in Asking
    BY <1>a, <2>1
  <2>3. verifies' = [verifies EXCEPT ![t] = v]
    BY <2>1, VerifyTypes
  <2>4. txs[t].revoked \in BOOLEAN
    <3>1. txs[t] \in Transactions
      BY DEF StoreFacts
    <3> QED
      BY <3>1 DEF Transactions
  <2>5. next[2] \in {"claim", "check"}
    BY <2>1
  <2>6. v \in Asking /\ v.acct = c /\ v.pc = next[2]
    BY <2>2, <2>4, <2>5 DEF Asking
  <2> HIDE DEF v
  <2>7. v \in Verifications /\ VerifyTo(t, v)
    BY <2>2, <2>5, <2>6 DEF Verifications, VerifyTo
  <2>8. VerifyGoes(t)
    BY <2>3, <2>7 DEF VerifyGoes
  <2>9. claims' = claims /\ granted' = granted /\ seen' = seen
    BY <1>2, Zenon DEF AskApple
  <2> QED
    BY <2>8, <2>9 DEF VerifyStep, SeenMoves
<1>3. CASE Unanswered(t)
  <2>1. verifies[t].pc # "idle" /\ Step(t, "retry") /\ claims' = claims /\ granted' = granted /\ seen' = seen
    BY <1>3 DEF Unanswered
  <2>2. VerifyGoes(t)
    BY <2>1, StepGoes
  <2> QED
    BY <2>1, <2>2 DEF VerifyStep, SeenMoves
<1>4. CASE ClaimVerified(t)
  <2>1. /\ Asked(t, "claim") /\ granted' = granted /\ seen' = seen
        /\ \/ MayClaim(r, c) /\ claims' = Claimed(r, c) /\ Step(t, "activate")
           \/ Step(t, "rejected") /\ claims' = claims
    BY <1>4, Zenon DEF ClaimVerified
  <2>2. verifies[t].pc # "idle" /\ c \in Accounts
    BY <1>a, <2>1
  <2>3. VerifyGoes(t)
    <3>1. CASE claims' = Claimed(r, c) /\ Step(t, "activate")
      <4>1. claims'[r] = c
        BY <1>0, <3>1, ClaimedHolds
      <4> QED
        BY <2>2, <3>1, <4>1, StepGoes
    <3>2. CASE Step(t, "rejected")
      BY <2>2, <3>2, StepGoes
    <3> QED
      BY <2>1, <3>1, <3>2
  <2> QED
    BY <1>0, <2>1, <2>2, <2>3 DEF VerifyStep, SeenMoves
<1>5. CASE activate(t)
  <2>1. /\ Asked(t, "activate") /\ claims' = claims /\ seen' = seen
        /\ \/ Step(t, "markinactive") /\ granted' = granted
           \/ Step(t, "rejected") /\ granted' = granted
           \/ Step(t, "retry") /\ granted \subseteq granted'
           \/ Step(t, "markactive") /\ granted \subseteq granted' /\ <<c, t>> \in granted'
    <3>1. \/ Step(t, "markinactive") /\ granted' = granted
          \/ Step(t, "rejected") /\ granted' = granted
          \/ Held(c) /\ Step(t, "retry") /\ granted' = granted
          \/ ~Held(c) /\ Step(t, "markactive") /\ granted' = granted \cup {<<c, t>>}
      BY <1>5, Zenon DEF activate
    <3>2. Asked(t, "activate") /\ claims' = claims /\ seen' = seen
      BY <1>5, Zenon DEF activate
    <3> QED
      BY <3>1, <3>2
  <2>2. verifies[t].pc # "idle"
    BY <1>a, <2>1
  <2>3. VerifyGoes(t)
    BY <2>1, <2>2, StepGoes
  <2> QED
    BY <2>1, <2>3 DEF VerifyStep, SeenMoves
<1>6. CASE mark_transaction_seen(t)
  <2>1. PICK o \in {<<"markactive", "active">>, <<"markinactive", "inactive">>} :
            Asked(t, o[1]) /\ seen' = [seen EXCEPT ![c][t] = o[2]] /\ Step(t, o[2])
    BY <1>6 DEF mark_transaction_seen
  <2>2. claims' = claims /\ granted' = granted
    BY <1>6 DEF mark_transaction_seen
  <2>3. verifies[t].pc # "idle" /\ c \in Accounts
    BY <1>a, <2>1
  <2>4. o[2] \in {"active", "inactive"} /\ (o[2] = "active" => verifies[t].pc = "markactive")
    BY <2>1 DEF Asked
  <2>5. VerifyGoes(t)
    BY <2>1, <2>3, <2>4, StepGoes
  <2>6. SeenMoves
    BY <2>1, <2>3, <2>4 DEF SeenMoves
  <2> QED
    BY <2>2, <2>5, <2>6 DEF VerifyStep
<1>7. CASE CheckRepair(t)
  <2>1. /\ Asked(t, "check") /\ granted' = granted /\ seen' = seen
        /\ \/ /\ MayClaim(r, c) /\ claims' = Claimed(r, c)
              /\ Step(t, "markinactive") \/ Step(t, "backfill")
           \/ (Step(t, "rejected") \/ Step(t, "active")) /\ claims' = claims
    BY <1>7, Zenon DEF CheckRepair
  <2>2. verifies[t].pc # "idle" /\ c \in Accounts
    BY <1>a, <2>1
  <2>3. VerifyGoes(t)
    <3>1. CASE claims' = Claimed(r, c) /\ Step(t, "backfill")
      <4>1. claims'[r] = c
        BY <1>0, <3>1, ClaimedHolds
      <4> QED
        BY <2>2, <3>1, <4>1, StepGoes
    <3>2. CASE Step(t, "rejected") \/ Step(t, "active") \/ Step(t, "markinactive")
      BY <2>2, <3>2, StepGoes
    <3> QED
      BY <2>1, <3>1, <3>2
  <2> QED
    BY <1>0, <2>1, <2>2, <2>3 DEF VerifyStep, SeenMoves
<1>8. CASE BackfillVerified(t)
  <2>1. /\ Asked(t, "backfill") /\ granted' = granted /\ seen' = seen /\ claims' = claims
        /\ Step(t, "rejected") \/ Step(t, "active")
    BY <1>8, Zenon DEF BackfillVerified
  <2>2. verifies[t].pc # "idle"
    BY <1>a, <2>1
  <2>3. VerifyGoes(t)
    BY <2>1, <2>2, StepGoes
  <2> QED
    BY <2>1, <2>3 DEF VerifyStep, SeenMoves
<1>9. CASE Resolve(t)
  <2> DEFINE v == Idle
  <2>1. verifies' = [verifies EXCEPT ![t] = v] /\ claims' = claims /\ granted' = granted /\ seen' = seen
    BY <1>9, Zenon DEF Resolve
  <2>2. v \in Verifications /\ VerifyTo(t, v)
    BY DEF Verifications, VerifyTo, Idle
  <2> HIDE DEF v
  <2>3. VerifyGoes(t)
    BY <2>1, <2>2 DEF VerifyGoes
  <2> QED
    BY <2>1, <2>3 DEF VerifyStep, SeenMoves
<1> QED
  BY <1>1, <1>2, <1>3, <1>4, <1>5, <1>6, <1>7, <1>8, <1>9, Zenon DEF Verify

\* The rest of the steps leave the verifications alone.
OtherStep ==
    /\ verifies' = verifies /\ granted' = granted /\ seen' = seen
    /\ claims' = claims \/ \E c \in Accounts, r \in Receipts : MayClaim(r, c) /\ claims' = Claimed(r, c)

LEMMA PhoneCallSteps ==
    ASSUME StoreInv, Next
    PROVE  OtherStep \/ \E t \in DOMAIN txs : VerifyStep(t)
<1>0. StoreFacts
  BY FactsHold
<1> DEFINE Same == verifies' = verifies /\ granted' = granted /\ seen' = seen /\ claims' = claims
<1>1. ASSUME World PROVE Same
  <2>1. ASSUME NEW r \in Receipts, NEW tier \in Tiers,
               purchase(r, tier) \/ \E ty \in {"DID_RENEW", "UPGRADE"} : Renew(r, tier, ty)
        PROVE  Same
    BY <2>1, Zenon DEF purchase, Renew
  <2>2. ASSUME NEW r \in Receipts, NEW ty \in Terminal \cup {"DID_FAIL_TO_RENEW", "DID_CHANGE_RENEWAL_STATUS"}, Ends(r, ty)
        PROVE  Same
    BY <2>2, Zenon DEF Ends, device
  <2>3. Tick => Same
    BY DEF Tick, device
  <2>4. ASSUME NEW p \in 1..2, ReadProfile(p) PROVE Same
    BY <2>4, Zenon DEF ReadProfile
  <2>5. ASSUME NEW c \in Accounts, \/ \E p \in 1..2 : ensure_subscription_uuid(c, p)
                                   \/ deactivate_contractor(c) \/ BeginRelease(c) \/ EndRelease(c)
        PROVE  Same
    <3>1. ASSUME NEW p \in 1..2, ensure_subscription_uuid(c, p) PROVE Same
      BY <3>1 DEF ensure_subscription_uuid
    <3>2. deactivate_contractor(c) => Same
      BY Zenon DEF deactivate_contractor
    <3>3. BeginRelease(c) \/ EndRelease(c) => Same
      BY Zenon DEF BeginRelease, EndRelease, device
    <3> QED
      BY <2>5, <3>1, <3>2, <3>3
  <2> HIDE DEF Same
  <2> QED
    BY <1>1, <2>1, <2>2, <2>3, <2>4, <2>5, Zenon DEF World
<1>2. ASSUME NEW i \in DOMAIN notes, Webhook(i) \/ Faults(i) \/ replay(i) \/ Handle(i)
      PROVE  OtherStep
  <2>1. Faults(i) => Same
    BY Zenon DEF Faults, Crash, ForwardFails, Redeliver, GiveUp, device
  <2>2. replay(i) \/ Handle(i) => Same
    BY Zenon DEF replay, Handle, device
  <2>3. Deliver(i) \/ conditionally_backfill(i) \/ record_active_renewal_status(i) \/ update_contractor(i)
        \/ record_inactive_notification(i) \/ Forward(i) => Same
    BY Zenon DEF Deliver, conditionally_backfill, record_active_renewal_status, update_contractor,
                 record_inactive_notification, Forward, device
  <2>4. CASE claim_transaction(i)
    <3> DEFINE r == txs[notes[i].tx].orig
               c == Owner(notes[i].tx)
    <3>1. /\ verifies' = verifies /\ granted' = granted /\ seen' = seen
          /\ claims' = claims \/ (MayClaim(r, c) /\ claims' = Claimed(r, c))
      BY <2>4, Zenon DEF claim_transaction, device, Note
    <3>2. r \in Receipts /\ c \in Accounts
      BY <1>0 DEF StoreFacts
    <3> HIDE DEF r, c
    <3> QED
      BY <3>1, <3>2 DEF OtherStep
  <2>5. Same => OtherStep
    BY DEF OtherStep
  <2> HIDE DEF Same
  <2> QED
    BY <1>2, <2>1, <2>2, <2>3, <2>4, <2>5, Zenon DEF Webhook
<1>3. ASSUME verifyCurrentEntitlements \/ Reconcile PROVE Same
  <2>1. verifyCurrentEntitlements => Same
    BY Zenon DEF verifyCurrentEntitlements
  <2>2. ASSUME NEW c \in Accounts, schedule_recheck(c) \/ lapsed_trials_once(c) PROVE Same
    BY <2>2, Zenon DEF schedule_recheck, lapsed_trials_once, device
  <2>3. recheck_asks \/ update_stale_subscription => Same
    BY Zenon DEF recheck_asks, update_stale_subscription, device
  <2> HIDE DEF Same
  <2> QED
    BY <1>3, <2>1, <2>2, <2>3, Zenon DEF Reconcile
<1>4. ASSUME NEW t \in DOMAIN txs, Verify(t) \/ Unanswered(t) PROVE VerifyStep(t)
  BY <1>0, <1>4, VerifySteps
<1>5. Same => OtherStep
  BY DEF OtherStep
<1> HIDE DEF Same
<1> QED
  BY <1>1, <1>2, <1>3, <1>4, <1>5, Zenon DEF Next

-----------------------------------------------------------------------------
(* The phone, the re-check and the requests for a token.                    *)

\* The phone keeps its account, which stays alive, and every attempt that has not ended; or its
\* account is deleted and it goes on with a live one.
PhoneMoves ==
    /\ phone' \in Phones /\ phone'.queue \subseteq DOMAIN txs'
    /\ \/ /\ phone'.acct = phone.acct
          /\ phone.acct # None => accounts'[phone.acct].active
          /\ \A t \in DOMAIN txs : phone.todo[t] > 0 => phone'.todo[t] > 0 \/ verifies'[t].pc = "idle"
       \/ /\ phone.acct \in Accounts /\ ~accounts'[phone.acct].active
          /\ phone'.acct # None => phone'.acct \in Accounts /\ accounts'[phone'.acct].active
    /\ \/ phone'.token \in {0, phone.token}
       \/ \E c \in Accounts : phone'.token = accounts[c].uuid \/ <<c, phone'.token>> \in ensuring

LEMMA PhoneTypes ==
    ASSUME StoreInv
    PROVE  /\ phone \in Phones /\ phone.queue \subseteq DOMAIN txs /\ phone.todo \in [1..MaxTx -> 0..MaxAttempts]
           /\ phone.acct \in Accounts \cup {None} /\ phone.token \in 0..2
           /\ phone.acct # None => accounts[phone.acct].active
BY DEF StoreInv, PhoneFits, Phones, TypeOK

\* A phone whose queue and attempts change only.
LEMMA PhoneKeeps ==
    ASSUME StoreInv, StoreFacts, NEW q \in SUBSET Nat, NEW d \in [1..MaxTx -> 0..MaxAttempts],
           phone' = [phone EXCEPT !.queue = q, !.todo = d],
           q \subseteq DOMAIN txs', accounts' = accounts,
           \A t \in DOMAIN txs : phone.todo[t] > 0 => d[t] > 0 \/ verifies'[t].pc = "idle"
    PROVE  PhoneMoves
<1>1. phone' \in Phones /\ phone'.queue = q /\ phone'.todo = d /\ phone'.acct = phone.acct /\ phone'.token = phone.token
  BY PhoneTypes DEF Phones
<1> QED
  BY <1>1, PhoneTypes DEF PhoneMoves

LEMMA SoldPhone ==
    ASSUME StoreInv, StoreFacts, NEW r, NEW tier, NEW token, NEW type, Sold(r, tier, token, type), accounts' = accounts
    PROVE  PhoneMoves
<1> DEFINE t == Len(txs) + 1
           q == phone.queue \cup {t}
           d == [phone.todo EXCEPT ![t] = MaxAttempts]
<1>0. txs \in Seq(Transactions) /\ MaxAttempts \in Nat
  BY DEF StoreInv, AppleFits, StoreFacts
<1>1. t <= MaxTx /\ phone' = [phone EXCEPT !.queue = q, !.todo = d] /\ \E x : txs' = Append(txs, x)
  BY PhoneTypes DEF Sold, Phones
<1>2. DOMAIN txs' = DOMAIN txs \cup {t} /\ t \notin DOMAIN txs /\ DOMAIN txs \subseteq Nat /\ t \in Nat
  BY <1>0, <1>1
<1>3. q \in SUBSET Nat /\ q \subseteq DOMAIN txs'
  BY <1>2, PhoneTypes
<1>4. d \in [1..MaxTx -> 0..MaxAttempts] /\ \A u \in DOMAIN txs : d[u] = phone.todo[u]
  <2>1. MaxAttempts \in 0..MaxAttempts /\ phone.todo \in [1..MaxTx -> 0..MaxAttempts]
    BY <1>0, PhoneTypes
  <2>2. d \in [1..MaxTx -> 0..MaxAttempts]
    BY <2>1
  <2>3. \A u \in DOMAIN txs : u # t
    BY <1>2
  <2> HIDE DEF t
  <2>4. \A u : u # t => d[u] = phone.todo[u] \/ u \notin 1..MaxTx
    BY <2>1
  <2>5. \A u \in DOMAIN txs : u \in 1..MaxTx
    BY DEF StoreFacts
  <2> QED
    BY <2>2, <2>3, <2>4, <2>5
<1> HIDE DEF t, q, d
<1>5. \A u \in DOMAIN txs : phone.todo[u] > 0 => d[u] > 0
  BY <1>4
<1> QED
  BY <1>1, <1>3, <1>4, <1>5, PhoneKeeps

LEMMA ResolvePhone ==
    ASSUME StoreInv, StoreFacts, NEW t \in DOMAIN txs, Resolve(t)
    PROVE  PhoneMoves
<1> DEFINE x == phone.todo[t]
           less == [phone.todo EXCEPT ![t] = x - 1]
           none == [phone.todo EXCEPT ![t] = 0]
<1>0. t \in 1..MaxTx /\ MaxAttempts \in Nat /\ verifies[t].acct \in Accounts
  <2>1. verifies[t].pc # "idle"
    BY DEF Resolve
  <2> QED
    BY <2>1, VerifyTypes DEF StoreFacts
<1>1. /\ verifies[t].pc # "idle" /\ verifies' = [verifies EXCEPT ![t] = Idle] /\ accounts' = accounts /\ txs' = txs
      /\ \/ phone' = [phone EXCEPT !.todo[t] = 0]
         \/ verifies[t].acct = phone.acct /\ phone' = [phone EXCEPT !.todo[t] = @ - 1]
         \/ phone' = [phone EXCEPT !.queue = @ \ {t}, !.todo[t] = 0]
  <2>1. /\ verifies' = [verifies EXCEPT ![t] = Idle] /\ accounts' = accounts /\ txs' = txs
        /\ verifies[t].pc \in {"active", "inactive", "rejected", "retry"}
    BY Zenon DEF Resolve, apple
  <2>2. \/ phone' = [phone EXCEPT !.todo[t] = 0]
        \/ verifies[t].acct = phone.acct /\ phone' = [phone EXCEPT !.todo[t] = @ - 1]
        \/ phone' = [phone EXCEPT !.queue = @ \ {t}, !.todo[t] = 0]
    <3>1. CASE verifies[t].acct # phone.acct
      BY <3>1, Zenon DEF Resolve
    <3>4. CASE Asked(t, "rejected")
      <4>1. ~Asked(t, "retry")
        BY <3>4 DEF Asked
      <4> QED
        BY <3>4, <4>1, Zenon DEF Resolve
    <3>2. CASE verifies[t].acct = phone.acct /\ ~Asked(t, "rejected") /\ Asked(t, "retry")
      BY <3>2, Zenon DEF Resolve
    <3>3. CASE verifies[t].acct = phone.acct /\ ~Asked(t, "rejected") /\ ~Asked(t, "retry")
      BY <3>3, Zenon DEF Resolve
    <3> QED
      BY <3>1, <3>2, <3>3, <3>4
  <2> QED
    BY <2>1, <2>2
<1>2. verifies'[t].pc = "idle"
  BY <1>1, VerifyTypes DEF Idle
<1>3. verifies[t].acct = phone.acct => x > 0
  <2> SUFFICES ASSUME verifies[t].acct = phone.acct PROVE x > 0
    OBVIOUS
  <2>1. phone.acct # None /\ accounts[phone.acct].active
    BY <1>0, PhoneTypes DEF StoreFacts
  <2> QED
    BY <1>1, <2>1 DEF StoreInv, PhoneFits
<1>4. none \in [1..MaxTx -> 0..MaxAttempts] /\ \A u \in DOMAIN txs : u # t => none[u] = phone.todo[u]
  BY <1>0, PhoneTypes
<1>5. x \in 0..MaxAttempts
  BY <1>0, PhoneTypes
<1>6. x > 0 => less \in [1..MaxTx -> 0..MaxAttempts] /\ \A u \in DOMAIN txs : u # t => less[u] = phone.todo[u]
  <2>1. x > 0 => x - 1 \in 0..MaxAttempts
    BY <1>0, <1>5
  <2> HIDE DEF x
  <2> QED
    BY <1>0, <2>1, PhoneTypes
<1>q. phone.queue \in SUBSET Nat /\ phone.queue \ {t} \in SUBSET Nat /\ phone.queue \subseteq DOMAIN txs'
  BY <1>1, PhoneTypes DEF Phones
<1>7. \/ phone' = [phone EXCEPT !.queue = phone.queue, !.todo = none]
      \/ x > 0 /\ phone' = [phone EXCEPT !.queue = phone.queue, !.todo = less]
      \/ phone' = [phone EXCEPT !.queue = phone.queue \ {t}, !.todo = none]
  <2>1. phone = [acct |-> phone.acct, token |-> phone.token, queue |-> phone.queue, todo |-> phone.todo]
    BY PhoneTypes DEF Phones
  <2>2. CASE phone' = [phone EXCEPT !.todo[t] = 0]
    BY <2>1, <2>2
  <2>3. CASE verifies[t].acct = phone.acct /\ phone' = [phone EXCEPT !.todo[t] = @ - 1]
    BY <1>3, <2>1, <2>3
  <2>4. CASE phone' = [phone EXCEPT !.queue = @ \ {t}, !.todo[t] = 0]
    BY <2>1, <2>4
  <2> QED
    BY <1>1, <2>2, <2>3, <2>4
<1> HIDE DEF x, less, none
<1>8. CASE phone' = [phone EXCEPT !.queue = phone.queue, !.todo = none]
  <2>1. \A u \in DOMAIN txs : phone.todo[u] > 0 => none[u] > 0 \/ verifies'[u].pc = "idle"
    BY <1>2, <1>4
  <2> QED
    BY <1>1, <1>4, <1>q, <1>8, <2>1, PhoneKeeps
<1>9. CASE x > 0 /\ phone' = [phone EXCEPT !.queue = phone.queue, !.todo = less]
  <2>1. \A u \in DOMAIN txs : phone.todo[u] > 0 => less[u] > 0 \/ verifies'[u].pc = "idle"
    BY <1>2, <1>6, <1>9
  <2> DEFINE q == phone.queue
  <2>2. /\ less \in [1..MaxTx -> 0..MaxAttempts] /\ q \in SUBSET Nat /\ q \subseteq DOMAIN txs'
        /\ phone' = [phone EXCEPT !.queue = q, !.todo = less]
    BY <1>6, <1>q, <1>9
  <2> HIDE DEF q
  <2> QED
    BY <1>1, <2>1, <2>2, PhoneKeeps
<1>10. CASE phone' = [phone EXCEPT !.queue = phone.queue \ {t}, !.todo = none]
  <2>1. \A u \in DOMAIN txs : phone.todo[u] > 0 => none[u] > 0 \/ verifies'[u].pc = "idle"
    BY <1>2, <1>4
  <2>2. phone.queue \ {t} \subseteq DOMAIN txs'
    BY <1>q
  <2> DEFINE q == phone.queue \ {t}
  <2>3. q \in SUBSET Nat /\ q \subseteq DOMAIN txs' /\ phone' = [phone EXCEPT !.queue = q, !.todo = none]
    BY <1>q, <1>10, <2>2
  <2> HIDE DEF q
  <2> QED
    BY <1>1, <1>4, <2>1, <2>3, PhoneKeeps
<1> QED
  BY <1>7, <1>8, <1>9, <1>10

LEMMA LaunchPhone ==
    ASSUME StoreInv, StoreFacts, verifyCurrentEntitlements
    PROVE  PhoneMoves
<1> DEFINE again == phone.queue \cup {t \in DOMAIN txs : Current(t) /\ t = Last(txs[t].orig)}
           d == [t \in 1..MaxTx |-> IF t \in again THEN MaxAttempts ELSE phone.todo[t]]
<1>1. phone' = [phone EXCEPT !.todo = d] /\ accounts' = accounts /\ txs' = txs
  BY Zenon DEF verifyCurrentEntitlements, apple
<1>2. MaxAttempts \in Nat /\ phone.todo \in [1..MaxTx -> 0..MaxAttempts] /\ \A t \in DOMAIN txs : t \in 1..MaxTx
  BY PhoneTypes DEF StoreFacts
<1> HIDE DEF again
<1>3. d \in [1..MaxTx -> 0..MaxAttempts]
  <2>1. MaxAttempts \in 0..MaxAttempts
    BY <1>2
  <2>2. \A t \in 1..MaxTx : (IF t \in again THEN MaxAttempts ELSE phone.todo[t]) \in 0..MaxAttempts
    BY <1>2, <2>1
  <2> QED
    BY <2>2
<1>4. \A t \in DOMAIN txs : phone.todo[t] > 0 => d[t] > 0
  <2> SUFFICES ASSUME NEW t \in DOMAIN txs, phone.todo[t] > 0 PROVE d[t] > 0
    OBVIOUS
  <2>1. phone.todo[t] \in 0..MaxAttempts /\ t \in 1..MaxTx
    BY <1>2
  <2>2. MaxAttempts > 0
    BY <1>2, <2>1
  <2> QED
    BY <2>1, <2>2
<1> HIDE DEF d
<1>5. phone' = [phone EXCEPT !.queue = phone.queue, !.todo = d]
  BY <1>1, PhoneTypes DEF Phones
<1>6. phone.queue \in SUBSET Nat /\ phone.queue \subseteq DOMAIN txs'
  BY <1>1, PhoneTypes DEF Phones
<1> QED
  BY <1>1, <1>3, <1>4, <1>5, <1>6, PhoneKeeps

LEMMA ProfilePhone ==
    ASSUME StoreInv, StoreFacts, NEW c \in Accounts, NEW p \in 1..2, ReadProfile(p) \/ ensure_subscription_uuid(c, p)
    PROVE  PhoneMoves
<1>0. /\ phone \in Phones /\ phone.queue \subseteq DOMAIN txs /\ phone.todo \in [1..MaxTx -> 0..MaxAttempts]
      /\ phone.acct \in Accounts \cup {None} /\ phone.token \in 0..2
      /\ phone.acct # None => accounts[phone.acct].active
  BY PhoneTypes
<1>t. \A d \in Accounts : accounts[d] \in AccountType /\ accounts[d].uuid \in 0..2
  BY DEF StoreFacts, AccountType
<1>1. PICK k \in 0..2 : /\ phone' = [phone EXCEPT !.token = k]
                        /\ k = phone.token \/ \E d \in Accounts : k = accounts[d].uuid \/ <<d, k>> \in ensuring
  <2>1. CASE ReadProfile(p)
    <3>1. phone' = phone \/ phone' = [phone EXCEPT !.token = accounts[phone.acct].uuid]
      BY <2>1, Zenon DEF ReadProfile
    <3>2. phone.acct \in Accounts
      BY <1>0, <2>1 DEF ReadProfile
    <3>3. phone = [phone EXCEPT !.token = phone.token]
      BY <1>0 DEF Phones
    <3> QED
      BY <1>0, <1>t, <3>1, <3>2, <3>3
  <2>2. CASE ensure_subscription_uuid(c, p)
    <3> DEFINE k == IF c = phone.acct THEN p ELSE phone.token
    <3>1. phone' = [phone EXCEPT !.token = k] /\ <<c, p>> \in ensuring
      BY <2>2 DEF ensure_subscription_uuid
    <3>2. k \in 0..2 /\ (k = phone.token \/ \E d \in Accounts : k = accounts[d].uuid \/ <<d, k>> \in ensuring)
      BY <1>0, <3>1
    <3> HIDE DEF k
    <3> QED
      BY <3>1, <3>2
  <2> QED
    BY <2>1, <2>2
<1>2. phone' \in Phones /\ phone'.acct = phone.acct /\ phone'.token = k /\ phone'.queue = phone.queue /\ phone'.todo = phone.todo
  BY <1>0, <1>1 DEF Phones
<1>3. txs' = txs
  BY DEF ReadProfile, ensure_subscription_uuid, apple
<1>4. phone.acct # None => accounts'[phone.acct].active
  <2>1. CASE ReadProfile(p)
    BY <1>0, <2>1 DEF ReadProfile
  <2>2. CASE ensure_subscription_uuid(c, p)
    <3>1. accounts' = [accounts EXCEPT ![c].uuid = p]
      BY <2>2 DEF ensure_subscription_uuid
    <3>2. \A d \in Accounts : accounts'[d].active = accounts[d].active
      BY <1>t, <3>1 DEF StoreFacts, AccountType
    <3> QED
      BY <1>0, <3>2
  <2> QED
    BY <2>1, <2>2
<1>5. /\ phone'.queue \subseteq DOMAIN txs'
      /\ \A t \in DOMAIN txs : phone.todo[t] > 0 => phone'.todo[t] > 0
      /\ \/ phone'.token \in {0, phone.token}
         \/ \E d \in Accounts : phone'.token = accounts[d].uuid \/ <<d, phone'.token>> \in ensuring
  BY <1>0, <1>1, <1>2, <1>3
<1> QED
  BY <1>2, <1>4, <1>5 DEF PhoneMoves

LEMMA DeletedPhone ==
    ASSUME StoreInv, StoreFacts, NEW c \in Accounts, deactivate_contractor(c)
    PROVE  PhoneMoves
<1>0. /\ phone \in Phones /\ phone.queue \subseteq DOMAIN txs /\ phone.todo \in [1..MaxTx -> 0..MaxAttempts]
      /\ phone.acct \in Accounts \cup {None} /\ phone.token \in 0..2 /\ MaxAttempts \in Nat
      /\ phone.acct # None => accounts[phone.acct].active
  BY PhoneTypes DEF StoreFacts
<1> DEFINE rest == {d \in Accounts \ {c} : accounts[d].active}
           n == IF rest = {} THEN None ELSE CHOOSE d \in rest : TRUE
           none == [t \in 1..MaxTx |-> 0]
<1>1. /\ accounts' = [accounts EXCEPT ![c].active = FALSE, ![c].deletedAt = now] /\ txs' = txs /\ verifies' = verifies
      /\ phone' = IF c # phone.acct THEN phone ELSE [phone EXCEPT !.acct = n, !.token = 0, !.todo = none]
  BY Zenon DEF deactivate_contractor, apple
<1>2. \A d \in Accounts : accounts'[d].active = IF d = c THEN FALSE ELSE accounts[d].active
  BY <1>1 DEF StoreFacts, AccountType
<1>3. n = None \/ n \in rest
  OBVIOUS
<1>4. none \in [1..MaxTx -> 0..MaxAttempts]
  BY <1>0
<1>5. n \in Accounts \cup {None} /\ (n # None => accounts'[n].active)
  BY <1>2, <1>3
<1> HIDE DEF n, none
<1>6. CASE c # phone.acct
  <2>1. phone' = phone /\ (phone.acct # None => accounts'[phone.acct].active)
    BY <1>0, <1>1, <1>2, <1>6
  <2> QED
    BY <1>0, <1>1, <2>1 DEF PhoneMoves
<1>7. CASE c = phone.acct
  <2>1. phone' = [phone EXCEPT !.acct = n, !.token = 0, !.todo = none]
    BY <1>1, <1>7
  <2>2. phone' \in Phones /\ phone'.acct = n /\ phone'.token = 0 /\ phone'.queue = phone.queue
    <3>1. n \in Accounts \cup {None} /\ 0 \in 0..2 /\ phone \in Phones
      BY <1>0, <1>5
    <3> QED
      BY <1>4, <2>1, <3>1 DEF Phones
  <2>3. ~accounts'[phone.acct].active
    BY <1>2, <1>7
  <2> QED
    BY <1>0, <1>1, <1>5, <1>7, <2>2, <2>3 DEF PhoneMoves
<1> QED
  BY <1>6, <1>7

\* No account dies but in a deletion.
LEMMA ActiveStays ==
    ASSUME StoreInv, Next, NEW c \in Accounts, ~deactivate_contractor(c)
    PROVE  accounts'[c].active = accounts[c].active /\ accounts'[c].deletedAt = accounts[c].deletedAt
BY AccountSteps DEF AccountsMove, AccountMoves, Serves, Binds, Learns, Tokened, Deletes, Records, SameEvidence

LEMMA PhoneSteps ==
    ASSUME StoreInv, Next
    PROVE  PhoneMoves
<1>0. StoreFacts
  BY FactsHold
<1>1. CASE \E c \in Accounts : deactivate_contractor(c)
  BY <1>0, <1>1, DeletedPhone
<1>2. ASSUME ~\E c \in Accounts : deactivate_contractor(c), phone' = phone PROVE PhoneMoves
  <2>1. \A c \in Accounts : accounts'[c].active = accounts[c].active
    BY <1>2, ActiveStays
  <2>2. DOMAIN txs \subseteq DOMAIN txs'
    <3>1. CASE SameApple
      BY <3>1 DEF SameApple
    <3>2. CASE \E tx, note : Sells(tx, note)
      BY <3>2 DEF Sells, StoreInv, AppleFits
    <3>3. CASE \E note : Tells(note)
      BY <3>3 DEF Tells, StoreInv, AppleFits
    <3> QED
      BY <3>1, <3>2, <3>3, AppleSteps
  <2> QED
    BY <1>2, <2>1, <2>2, PhoneTypes DEF PhoneMoves
<1>3. ASSUME World, ~\E c \in Accounts : deactivate_contractor(c) PROVE PhoneMoves \/ phone' = phone
  <2>1. ASSUME NEW r \in Receipts, NEW tier \in Tiers,
               purchase(r, tier) \/ \E ty \in {"DID_RENEW", "UPGRADE"} : Renew(r, tier, ty)
        PROVE  PhoneMoves
    <3>1. accounts' = accounts /\ \E token, type : Sold(r, tier, token, type)
      BY <2>1, Zenon DEF purchase, Renew
    <3> QED
      BY <1>0, <3>1, SoldPhone
  <2>2. ASSUME NEW r \in Receipts, NEW ty \in Terminal \cup {"DID_FAIL_TO_RENEW", "DID_CHANGE_RENEWAL_STATUS"}, Ends(r, ty)
        PROVE  phone' = phone
    BY <2>2, Zenon DEF Ends, device
  <2>3. Tick => phone' = phone
    BY DEF Tick, device
  <2>4. ASSUME NEW p \in 1..2, ReadProfile(p) PROVE PhoneMoves
    <3>1. phone.acct \in Accounts
      BY <2>4, PhoneTypes DEF ReadProfile
    <3> QED
      BY <1>0, <2>4, <3>1, ProfilePhone
  <2>5. ASSUME NEW c \in Accounts, NEW p \in 1..2, ensure_subscription_uuid(c, p) PROVE PhoneMoves
    BY <1>0, <2>5, ProfilePhone
  <2>6. ASSUME NEW c \in Accounts, BeginRelease(c) \/ EndRelease(c) PROVE phone' = phone
    BY <2>6, Zenon DEF BeginRelease, EndRelease, device
  <2> QED
    BY <1>3, <2>1, <2>2, <2>3, <2>4, <2>5, <2>6, Zenon DEF World
<1>4. ASSUME NEW i \in DOMAIN notes, Webhook(i) \/ Faults(i) \/ replay(i) \/ Handle(i)
      PROVE  phone' = phone
  <2>1. Faults(i) => phone' = phone
    BY Zenon DEF Faults, Crash, ForwardFails, Redeliver, GiveUp, device
  <2>2. replay(i) \/ Handle(i) => phone' = phone
    BY Zenon DEF replay, Handle, device
  <2>3. Webhook(i) => phone' = phone
    BY Zenon DEF Webhook, Deliver, claim_transaction, conditionally_backfill, record_active_renewal_status,
                 update_contractor, record_inactive_notification, Forward, device
  <2> QED
    BY <1>4, <2>1, <2>2, <2>3
<1>5. ASSUME NEW t \in DOMAIN txs, Verify(t) \/ Unanswered(t) PROVE PhoneMoves \/ phone' = phone
  <2>1. Resolve(t) => PhoneMoves
    BY <1>0, ResolvePhone
  <2> QED
    BY <1>5, <2>1, Zenon DEF Verify, Unanswered, verify, AskApple, ClaimVerified, activate, mark_transaction_seen, CheckRepair,
                     BackfillVerified
<1>6. ASSUME Reconcile PROVE phone' = phone
  BY <1>6, Zenon DEF Reconcile, schedule_recheck, lapsed_trials_once, recheck_asks, update_stale_subscription, device
<1>7. verifyCurrentEntitlements => PhoneMoves
  BY <1>0, LaunchPhone
<1>8. (\E c \in Accounts : deactivate_contractor(c)) \/ PhoneMoves \/ phone' = phone
  BY <1>3, <1>4, <1>5, <1>6, <1>7, Zenon DEF Next
<1> QED
  BY <1>1, <1>2, <1>8

\* A request makes a token only for an account that it found without one.
EnsuringMoves ==
    \A q \in ensuring' : q \in ensuring \/ \E c \in Accounts, p \in 1..2 : q = <<c, p>> /\ accounts[c].uuid = 0

LEMMA EnsuringSteps ==
    ASSUME StoreInv, Next
    PROVE  EnsuringMoves
<1>1. ensuring' = ensuring => EnsuringMoves
  BY DEF EnsuringMoves
<1>2. ASSUME World PROVE EnsuringMoves
  <2>1. ASSUME NEW r \in Receipts, NEW tier \in Tiers,
               purchase(r, tier) \/ \E ty \in {"DID_RENEW", "UPGRADE"} : Renew(r, tier, ty)
        PROVE  ensuring' = ensuring
    BY <2>1, Zenon DEF purchase, Renew
  <2>2. ASSUME NEW r \in Receipts, NEW ty \in Terminal \cup {"DID_FAIL_TO_RENEW", "DID_CHANGE_RENEWAL_STATUS"}, Ends(r, ty)
        PROVE  ensuring' = ensuring
    BY <2>2, Zenon DEF Ends
  <2>3. Tick => ensuring' = ensuring
    BY DEF Tick
  <2>4. ASSUME NEW p \in 1..2, ReadProfile(p) PROVE EnsuringMoves
    <3>1. phone.acct \in Accounts
      BY <2>4, PhoneTypes DEF ReadProfile
    <3>2. ensuring' = ensuring \/ (accounts[phone.acct].uuid = 0 /\ ensuring' = ensuring \cup {<<phone.acct, p>>})
      BY <2>4, Zenon DEF ReadProfile
    <3> QED
      BY <3>1, <3>2 DEF EnsuringMoves
  <2>5. ASSUME NEW c \in Accounts, NEW p \in 1..2, ensure_subscription_uuid(c, p) PROVE EnsuringMoves
    BY <2>5 DEF ensure_subscription_uuid, EnsuringMoves
  <2>6. ASSUME NEW c \in Accounts, deactivate_contractor(c) \/ BeginRelease(c) \/ EndRelease(c) PROVE ensuring' = ensuring
    BY <2>6, Zenon DEF deactivate_contractor, BeginRelease, EndRelease
  <2> QED
    BY <1>1, <1>2, <2>1, <2>2, <2>3, <2>4, <2>5, <2>6, Zenon DEF World
<1>4. ASSUME NEW i \in DOMAIN notes, Webhook(i) \/ Faults(i) \/ replay(i) \/ Handle(i)
      PROVE  ensuring' = ensuring
  <2>1. Faults(i) => ensuring' = ensuring
    BY Zenon DEF Faults, Crash, ForwardFails, Redeliver, GiveUp
  <2>2. replay(i) \/ Handle(i) => ensuring' = ensuring
    BY Zenon DEF replay, Handle
  <2>3. Webhook(i) => ensuring' = ensuring
    BY Zenon DEF Webhook, Deliver, claim_transaction, conditionally_backfill, record_active_renewal_status,
                 update_contractor, record_inactive_notification, Forward
  <2> QED
    BY <1>4, <2>1, <2>2, <2>3
<1>5. ASSUME NEW t \in DOMAIN txs, Verify(t) \/ Unanswered(t) PROVE ensuring' = ensuring
  BY <1>5, Zenon DEF Verify, Unanswered, verify, AskApple, ClaimVerified, activate, mark_transaction_seen, CheckRepair,
                     BackfillVerified, Resolve
<1>6. ASSUME verifyCurrentEntitlements \/ Reconcile PROVE ensuring' = ensuring
  BY <1>6, Zenon DEF verifyCurrentEntitlements, Reconcile, schedule_recheck, lapsed_trials_once, recheck_asks, update_stale_subscription
<1> QED
  BY <1>1, <1>2, <1>4, <1>5, <1>6, Zenon DEF Next

\* The re-check goes on with what it knows.
RecheckGoes ==
    \/ recheck' = recheck
    \/ recheck' \in Rechecks /\ recheck'.pc = "idle"
    \/ /\ recheck' \in Rechecks /\ recheck'.acct \in Accounts /\ recheck'.orig \in Receipts /\ Chain(recheck'.orig) # {}
       /\ recheck'.pc = "ask" \/ recheck'.tx \in DOMAIN txs

LEMMA RecheckSteps ==
    ASSUME StoreInv, Next
    PROVE  RecheckGoes
<1>0. StoreFacts /\ recheck \in Rechecks
  BY FactsHold DEF StoreInv, RecheckFits
<1>1. ASSUME NEW c \in Accounts, schedule_recheck(c) PROVE RecheckGoes
  <2> DEFINE x == accounts[c].expires
             o == accounts[c].orig
             l == recheck.left - 1
  <2>1. /\ recheck' = [recheck EXCEPT !.pc = "ask", !.left = l, !.acct = c, !.expires = x, !.orig = o]
        /\ recheck.left > 0 /\ o # None
    BY <1>1 DEF schedule_recheck
  <2>2. accounts[c] \in AccountType /\ recheck.left \in Nat
    BY <1>0 DEF StoreFacts, Rechecks
  <2>3. x \in Int /\ o \in Receipts /\ Chain(o) # {}
    BY <1>0, <2>1, <2>2 DEF AccountType, StoreInv, BoundToSold, StoreFacts
  <2>4. l \in Nat
    BY <2>1, <2>2
  <2> HIDE DEF x, o, l
  <2>5. recheck' \in Rechecks /\ recheck'.pc = "ask" /\ recheck'.acct = c /\ recheck'.orig = o
    BY <1>0, <2>1, <2>3, <2>4 DEF Rechecks
  <2>6. PICK w : w = recheck'.orig
    OBVIOUS
  <2>7. Chain(recheck'.orig) # {}
    BY <2>3, <2>5
  <2> QED
    BY <2>3, <2>5, <2>7 DEF RecheckGoes
<1>2. ASSUME recheck_asks PROVE RecheckGoes
  <2> DEFINE t == Last(recheck.orig)
             v == Verdict(t)
  <2>1. recheck.pc = "ask" /\ ( \/ recheck' = [recheck EXCEPT !.pc = v, !.tx = t]
                                \/ recheck' = [recheck EXCEPT !.pc = "idle"] )
    BY <1>2, Zenon DEF recheck_asks
  <2>2. recheck.acct \in Accounts /\ recheck.orig \in Receipts /\ Chain(recheck.orig) # {}
    BY <2>1 DEF StoreInv, RecheckFits
  <2>3. t \in DOMAIN txs
    BY <2>2, LastOfChain DEF StoreInv
  <2>4. t \in 0..MaxTx /\ v \in {"expired", "renewed"}
    BY <1>0, <2>3 DEF StoreFacts, Verdict
  <2> HIDE DEF t, v
  <2>5. CASE recheck' = [recheck EXCEPT !.pc = v, !.tx = t]
    <3>1. /\ recheck' \in Rechecks /\ recheck'.acct = recheck.acct /\ recheck'.orig = recheck.orig /\ recheck'.tx = t
          /\ Chain(recheck'.orig) = Chain(recheck.orig)
      BY <1>0, <2>4, <2>5 DEF Rechecks
    <3> QED
      BY <2>2, <2>3, <3>1 DEF RecheckGoes
  <2>6. CASE recheck' = [recheck EXCEPT !.pc = "idle"]
    BY <1>0, <2>6 DEF Rechecks, RecheckGoes
  <2> QED
    BY <2>1, <2>5, <2>6
<1>3. ASSUME update_stale_subscription PROVE RecheckGoes
  <2>1. recheck' = [recheck EXCEPT !.pc = "idle"]
    BY <1>3, Zenon DEF update_stale_subscription
  <2> QED
    BY <1>0, <2>1 DEF Rechecks, RecheckGoes
<1>4. recheck' = recheck => RecheckGoes
  BY DEF RecheckGoes
<1>5. ASSUME World PROVE recheck' = recheck
  <2>1. ASSUME NEW r \in Receipts, NEW tier \in Tiers,
               purchase(r, tier) \/ \E ty \in {"DID_RENEW", "UPGRADE"} : Renew(r, tier, ty)
        PROVE  recheck' = recheck
    BY <2>1, Zenon DEF purchase, Renew
  <2>2. ASSUME NEW r \in Receipts, NEW ty \in Terminal \cup {"DID_FAIL_TO_RENEW", "DID_CHANGE_RENEWAL_STATUS"}, Ends(r, ty)
        PROVE  recheck' = recheck
    BY <2>2, Zenon DEF Ends
  <2>3. Tick => recheck' = recheck
    BY DEF Tick
  <2>4. ASSUME NEW p \in 1..2, ReadProfile(p) PROVE recheck' = recheck
    BY <2>4, Zenon DEF ReadProfile
  <2>5. ASSUME NEW c \in Accounts, NEW p \in 1..2, ensure_subscription_uuid(c, p) PROVE recheck' = recheck
    BY <2>5 DEF ensure_subscription_uuid
  <2>6. ASSUME NEW c \in Accounts, deactivate_contractor(c) \/ BeginRelease(c) \/ EndRelease(c) PROVE recheck' = recheck
    BY <2>6, Zenon DEF deactivate_contractor, BeginRelease, EndRelease
  <2> QED
    BY <1>5, <2>1, <2>2, <2>3, <2>4, <2>5, <2>6, Zenon DEF World
<1>6. ASSUME NEW i \in DOMAIN notes, Webhook(i) \/ Faults(i) \/ replay(i) \/ Handle(i)
      PROVE  recheck' = recheck
  <2>1. Faults(i) => recheck' = recheck
    BY Zenon DEF Faults, Crash, ForwardFails, Redeliver, GiveUp
  <2>2. replay(i) \/ Handle(i) => recheck' = recheck
    BY Zenon DEF replay, Handle
  <2>3. Webhook(i) => recheck' = recheck
    BY Zenon DEF Webhook, Deliver, claim_transaction, conditionally_backfill, record_active_renewal_status,
                 update_contractor, record_inactive_notification, Forward
  <2> QED
    BY <1>6, <2>1, <2>2, <2>3
<1>7. ASSUME NEW t \in DOMAIN txs, Verify(t) \/ Unanswered(t) PROVE recheck' = recheck
  BY <1>7, Zenon DEF Verify, Unanswered, verify, AskApple, ClaimVerified, activate, mark_transaction_seen, CheckRepair,
                     BackfillVerified, Resolve
<1>8. ASSUME verifyCurrentEntitlements \/ \E c \in Accounts : lapsed_trials_once(c) PROVE recheck' = recheck
  BY <1>8, Zenon DEF verifyCurrentEntitlements, lapsed_trials_once
<1> QED
  BY <1>1, <1>2, <1>3, <1>4, <1>5, <1>6, <1>7, <1>8, Zenon DEF Next, Reconcile

-----------------------------------------------------------------------------
(* Each part of the invariant is kept.                                      *)

\* What Apple has sold and told stays.
LEMMA Growth ==
    ASSUME StoreInv, Next
    PROVE  /\ DOMAIN txs \subseteq DOMAIN txs' /\ DOMAIN notes \subseteq DOMAIN notes'
           /\ \A i \in DOMAIN notes : notes'[i] = notes[i]
           /\ \A t \in DOMAIN txs : /\ txs'[t].orig = txs[t].orig /\ txs'[t].token = txs[t].token
                                    /\ txs'[t].purchase = txs[t].purchase
<1>1. txs \in Seq(Transactions) /\ notes \in Seq(Notifications)
  BY DEF StoreInv, AppleFits
<1>2. txs' \in Seq(Transactions') /\ notes' \in Seq(Notifications')
  BY AppleKept DEF AppleFits
<1> QED
  BY <1>1, <1>2, AppleGrows DEF Grown

LEMMA ClaimsStay ==
    ASSUME StoreInv, Next
    PROVE  /\ claims' \in [Receipts -> Accounts \cup {None}]
           /\ \A r \in Receipts : claims[r] # None => claims'[r] = claims[r]
<1>1. claims' = claims \/ \E c \in Accounts, r \in Receipts : MayClaim(r, c) /\ claims' = Claimed(r, c)
  BY PhoneCallSteps DEF OtherStep, VerifyStep
<1>2. claims \in [Receipts -> Accounts \cup {None}]
  BY DEF StoreInv, TypeOK
<1> QED
  BY <1>1, <1>2 DEF MayClaim, Claimed

LEMMA OutboxKept ==
    ASSUME StoreInv, Next
    PROVE  outbox' \cup failed' \cup accepted' \subseteq DOMAIN notes'
<1>0. outbox \cup failed \cup accepted \subseteq DOMAIN notes /\ DOMAIN notes \subseteq DOMAIN notes'
  BY Growth, CallTypes
<1>1. CASE SameCalls /\ failed' = failed /\ outbox' = outbox
  BY <1>0, <1>1 DEF SameCalls
<1>2. CASE SameCalls /\ failed' = failed /\ outbox' = outbox \cup {Len(notes) + 1} /\ \E n : notes' = Append(notes, n)
  <2>1. notes \in Seq(Notifications)
    BY DEF StoreInv, AppleFits
  <2>2. Len(notes) + 1 \in DOMAIN notes'
    BY <1>2, <2>1
  <2> QED
    BY <1>0, <1>2, <2>2 DEF SameCalls
<1>3. CASE \E i \in DOMAIN notes : CallGoes(i)
  BY <1>0, <1>3 DEF CallGoes
<1> QED
  BY <1>1, <1>2, <1>3, CallSteps

LEMMA SeenKept ==
    ASSUME StoreInv, Next
    PROVE  /\ seen' \in [Accounts -> [1..MaxTx -> {None, "active", "inactive"}]]
           /\ \A c \in Accounts, t \in 1..MaxTx :
                 seen'[c][t] = "active" => seen[c][t] = "active" \/ (verifies[t].pc = "markactive" /\ verifies[t].acct = c)
<1>1. SeenMoves
  BY PhoneCallSteps DEF OtherStep, VerifyStep, SeenMoves
<1>2. seen \in [Accounts -> [1..MaxTx -> {None, "active", "inactive"}]]
  BY DEF StoreInv, TypeOK
<1>3. CASE seen' = seen
  BY <1>2, <1>3
<1>4. ASSUME NEW t \in DOMAIN txs, NEW o \in {"active", "inactive"}, verifies[t].acct \in Accounts,
             seen' = [seen EXCEPT ![verifies[t].acct][t] = o], o = "active" => verifies[t].pc = "markactive"
      PROVE  /\ seen' \in [Accounts -> [1..MaxTx -> {None, "active", "inactive"}]]
             /\ \A c \in Accounts, u \in 1..MaxTx :
                   seen'[c][u] = "active" => seen[c][u] = "active" \/ (verifies[u].pc = "markactive" /\ verifies[u].acct = c)
  <2> DEFINE a == verifies[t].acct
             f == [seen[a] EXCEPT ![t] = o]
  <2>1. f \in [1..MaxTx -> {None, "active", "inactive"}]
    BY <1>2, <1>4
  <2>2. seen' = [seen EXCEPT ![a] = f]
    BY <1>2, <1>4
  <2>3. \A u \in 1..MaxTx : u # t => f[u] = seen[a][u]
    BY <1>2, <1>4
  <2>4. t \in 1..MaxTx => f[t] = o
    BY <1>2, <1>4
  <2> HIDE DEF f
  <2>5. seen' \in [Accounts -> [1..MaxTx -> {None, "active", "inactive"}]]
    BY <1>2, <2>1, <2>2
  <2>6. \A c \in Accounts : seen'[c] = IF c = a THEN f ELSE seen[c]
    BY <1>2, <2>2
  <2> QED
    BY <1>4, <2>3, <2>4, <2>5, <2>6
<1> QED
  BY <1>1, <1>3, <1>4 DEF SeenMoves

LEMMA TypesKept ==
    ASSUME StoreInv, Next
    PROVE  TypeOK'
<1>w. WorldStands
  BY WorldSteady
<1>1. AccountType' = AccountType
  BY <1>w, Zenon DEF AccountType, WorldStands, NoteTypes, Charges, Terminal
<1>2. now' \in 0..MaxTime
  BY AppleGrows
<1>3. accounts' \in [Accounts -> AccountType] /\ release' \in [Accounts -> {"free", "deleting", "needs_attention"}]
  BY AccountSteps DEF AccountsMove
<1>4. phone' \in Phones /\ phone'.queue \subseteq DOMAIN txs'
  BY PhoneSteps DEF PhoneMoves
<1>5. phone'.todo \in [1..MaxTx -> 0..MaxAttempts]
  BY <1>4 DEF Phones
<1> QED
  BY <1>w, <1>1, <1>2, <1>3, <1>4, <1>5, ClaimsStay, OutboxKept, SeenKept DEF TypeOK, WorldStands

LEMMA HandlersKept ==
    ASSUME StoreInv, Next
    PROVE  /\ handlers' \in [1..MaxNotes -> Calls]
           /\ \A i \in 1..MaxNotes : handlers'[i] = handlers[i] \/ (i \in DOMAIN notes /\ HandlerTo(i, handlers'[i]))
<1>0. handlers \in [1..MaxNotes -> Calls]
  BY CallTypes
<1>1. CASE SameCalls
  BY <1>0, <1>1 DEF SameCalls
<1>2. CASE \E i \in DOMAIN notes : CallGoes(i)
  <2>1. PICK i \in DOMAIN notes : CallGoes(i)
    BY <1>2
  <2>2. PICK h \in Calls : handlers' = [handlers EXCEPT ![i] = h] /\ HandlerTo(i, h)
    BY <2>1 DEF CallGoes
  <2>3. handlers' \in [1..MaxNotes -> Calls] /\ \A j \in 1..MaxNotes : handlers'[j] = IF j = i THEN h ELSE handlers[j]
    BY <1>0, <2>2
  <2> QED
    BY <2>2, <2>3
<1> QED
  BY <1>1, <1>2, CallSteps

LEMMA VerifiesKept ==
    ASSUME StoreInv, Next
    PROVE  /\ verifies' \in [1..MaxTx -> Verifications]
           /\ \A t \in 1..MaxTx : verifies'[t] = verifies[t] \/ (t \in DOMAIN txs /\ VerifyTo(t, verifies'[t]))
           /\ granted \subseteq granted'
<1>0. verifies \in [1..MaxTx -> Verifications]
  BY DEF StoreInv, CallsFit
<1>1. CASE OtherStep
  BY <1>0, <1>1 DEF OtherStep
<1>2. CASE \E t \in DOMAIN txs : VerifyStep(t)
  <2>1. PICK t \in DOMAIN txs : VerifyStep(t)
    BY <1>2
  <2>2. PICK v \in Verifications : verifies' = [verifies EXCEPT ![t] = v] /\ VerifyTo(t, v)
    BY <2>1 DEF VerifyStep, VerifyGoes
  <2>3. verifies' \in [1..MaxTx -> Verifications] /\ \A u \in 1..MaxTx : verifies'[u] = IF u = t THEN v ELSE verifies[u]
    BY <1>0, <2>2
  <2> QED
    BY <2>1, <2>2, <2>3 DEF VerifyStep
<1> QED
  BY <1>1, <1>2, PhoneCallSteps

LEMMA CallsKept ==
    ASSUME StoreInv, Next
    PROVE  CallsFit'
<1>w. WorldStands
  BY WorldSteady
<1>t. Calls' = Calls /\ Verifications' = Verifications
  BY <1>w, Zenon DEF Calls, Unread, Live, Gone, LivePcs, Verifications, Asking, WorldStands
<1>1. handlers' \in [1..MaxNotes -> Calls] /\ verifies' \in [1..MaxTx -> Verifications]
  BY HandlersKept, VerifiesKept
<1>2. \A i \in 1..MaxNotes : i \notin DOMAIN notes' => handlers'[i].pc = "idle"
  BY HandlersKept, Growth DEF StoreInv, CallsFit
<1>3. \A i \in 1..MaxNotes : handlers'[i].pc = "forward" => handlers'[i].rebound \in Accounts
  BY HandlersKept DEF StoreInv, CallsFit, HandlerTo, Idle
<1>4. \A t \in 1..MaxTx : t \notin DOMAIN txs' => verifies'[t].pc = "idle"
  BY VerifiesKept, Growth DEF StoreInv, CallsFit
<1>5. ensuring' \subseteq Accounts \X (1..2)
  BY EnsuringSteps DEF EnsuringMoves, StoreInv, CallsFit
<1> QED
  BY <1>w, <1>t, <1>1, <1>2, <1>3, <1>4, <1>5 DEF CallsFit, WorldStands, Calls

LEMMA RecheckKept ==
    ASSUME StoreInv, Next
    PROVE  RecheckFits'
<1>w. WorldStands
  BY WorldSteady
<1>t. Rechecks' = Rechecks
  BY <1>w, Zenon DEF Rechecks, WorldStands
<1>1. CASE recheck' = recheck
  <2>1. /\ recheck \in Rechecks
        /\ recheck.pc # "idle" => recheck.acct \in Accounts /\ recheck.orig \in Receipts /\ Chain(recheck.orig) # {}
        /\ recheck.pc \in {"expired", "renewed"} => recheck.tx \in DOMAIN txs
    BY DEF StoreInv, RecheckFits
  <2> QED
    BY <1>w, <1>t, <1>1, <2>1, Growth DEF RecheckFits, Chain, WorldStands
<1>2. CASE recheck' \in Rechecks /\ recheck'.pc = "idle"
  BY <1>w, <1>t, <1>2 DEF RecheckFits
<1>3. CASE /\ recheck' \in Rechecks /\ recheck'.acct \in Accounts /\ recheck'.orig \in Receipts /\ Chain(recheck'.orig) # {}
           /\ recheck'.pc = "ask" \/ recheck'.tx \in DOMAIN txs
  BY <1>w, <1>t, <1>3, Growth DEF RecheckFits, Chain, WorldStands
<1> QED
  BY <1>1, <1>2, <1>3, RecheckSteps DEF RecheckGoes

LEMMA PhoneKept ==
    ASSUME StoreInv, Next
    PROVE  PhoneFits'
<1>w. WorldStands
  BY WorldSteady
<1>t. Phones' = Phones
  BY <1>w, Zenon DEF Phones, WorldStands
<1>0. StoreFacts /\ PhoneMoves
  BY FactsHold, PhoneSteps
<1>1. phone' \in Phones /\ (phone'.acct # None => accounts'[phone'.acct].active)
  BY <1>0 DEF PhoneMoves
<1>2. \A c \in Accounts : ~accounts[c].active => ~accounts'[c].active
  <2> TAKE c \in Accounts
  <2>1. CASE deactivate_contractor(c)
    BY <2>1, <1>0 DEF deactivate_contractor
  <2>2. CASE ~deactivate_contractor(c)
    BY <2>2, ActiveStays
  <2> QED
    BY <2>1, <2>2
<1>3. ASSUME NEW t \in DOMAIN txs', verifies'[t].pc # "idle"
      PROVE  \/ verifies'[t].acct = phone'.acct /\ phone'.todo[t] > 0
             \/ ~accounts'[verifies'[t].acct].active
  <2>1. t \in DOMAIN txs /\ t \in 1..MaxTx
    <3>1. t \in 1..MaxTx
      <4>1. txs' \in Seq(Transactions') /\ Len(txs') <= MaxTx' /\ MaxTx' = MaxTx /\ MaxTx \in Nat
        BY <1>0, <1>w, AppleKept DEF AppleFits, WorldStands, StoreFacts
      <4> QED
        BY <1>3, <4>1
    <3>2. t \notin DOMAIN txs => verifies[t].pc = "idle"
      BY <3>1 DEF StoreInv, CallsFit
    <3>3. t \notin DOMAIN txs => verifies'[t] = verifies[t]
      BY <3>1, VerifiesKept
    <3> QED
      BY <1>3, <3>1, <3>2, <3>3
  <2>2. \/ /\ verifies[t].pc # "idle" /\ verifies'[t].acct = verifies[t].acct
        \/ /\ verifies'[t].acct = phone.acct /\ phone.todo[t] > 0
    <3>1. PICK v \in Verifications : v = verifies'[t]
      BY <2>1, VerifiesKept
    <3>2. v = verifies[t] \/ VerifyTo(t, v)
      BY <2>1, <3>1, VerifiesKept
    <3> QED
      BY <1>3, <3>1, <3>2 DEF VerifyTo, Idle
  <2>3. verifies'[t].acct \in Accounts
    <3>1. verifies'[t] \in Verifications
      BY <2>1, VerifiesKept
    <3> QED
      BY <1>3, <3>1 DEF Verifications, Asking
  <2>4. \/ verifies'[t].acct = phone.acct /\ phone.todo[t] > 0
        \/ ~accounts[verifies'[t].acct].active
    <3>1. verifies[t].pc # "idle" => \/ verifies[t].acct = phone.acct /\ phone.todo[t] > 0
                                     \/ ~accounts[verifies[t].acct].active
      BY <2>1 DEF StoreInv, PhoneFits
    <3> QED
      BY <2>2, <3>1
  <2>5. CASE ~accounts[verifies'[t].acct].active
    BY <1>2, <2>3, <2>5
  <2>6. CASE verifies'[t].acct = phone.acct /\ phone.todo[t] > 0
    BY <1>0, <1>3, <2>1, <2>6 DEF PhoneMoves
  <2> QED
    BY <2>4, <2>5, <2>6
<1> QED
  BY <1>t, <1>1, <1>3 DEF PhoneFits

LEMMA ClaimsKept ==
    ASSUME StoreInv, Next
    PROVE  ClaimsHeld'
<1>0. StoreFacts
  BY FactsHold
<1>1. ASSUME NEW i \in DOMAIN notes', handlers'[i].pc \in {"backfill", "renewal", "write"}
      PROVE  /\ claims'[txs'[notes'[i].tx].orig] = txs'[notes'[i].tx].token.acct
             /\ handlers'[i].pc \in {"backfill", "renewal"} => notes'[i].type = "DID_CHANGE_RENEWAL_STATUS"
  <2>1. i \in 1..MaxNotes
    <3>1. notes' \in Seq(Notifications') /\ Len(notes') <= MaxNotes' /\ MaxNotes' = MaxNotes /\ MaxNotes \in Nat
      BY <1>0, WorldSteady, AppleKept DEF AppleFits, WorldStands, StoreFacts
    <3> QED
      BY <1>1, <3>1
  <2>2. i \in DOMAIN notes
    <3>1. i \notin DOMAIN notes => handlers[i].pc = "idle" /\ handlers'[i] = handlers[i]
      BY <2>1, HandlersKept DEF StoreInv, CallsFit
    <3> QED
      BY <1>1, <3>1
  <2>3. /\ notes'[i] = notes[i] /\ txs'[notes[i].tx].orig = txs[notes[i].tx].orig
        /\ txs'[notes[i].tx].token = txs[notes[i].tx].token
        /\ txs[notes[i].tx].orig \in Receipts /\ Owner(notes[i].tx) \in Accounts
    BY <1>0, <2>2, Growth DEF StoreFacts
  <2>4. \/ handlers[i].pc \in {"backfill", "renewal", "write"}
        \/ claims'[txs[notes[i].tx].orig] = Owner(notes[i].tx)
    BY <1>1, <2>1, HandlersKept DEF HandlerTo, Idle
  <2>5. /\ handlers'[i].pc \in {"backfill", "renewal"} =>
              \/ handlers[i].pc \in {"backfill", "renewal"}
              \/ notes[i].type = "DID_CHANGE_RENEWAL_STATUS"
    BY <1>1, <2>1, HandlersKept DEF HandlerTo, Idle
  <2>6. /\ handlers[i].pc \in {"backfill", "renewal", "write"} => claims[txs[notes[i].tx].orig] = Owner(notes[i].tx)
        /\ handlers[i].pc \in {"backfill", "renewal"} => notes[i].type = "DID_CHANGE_RENEWAL_STATUS"
    BY <2>2 DEF StoreInv, ClaimsHeld
  <2>7. claims'[txs[notes[i].tx].orig] = Owner(notes[i].tx)
    BY <1>0, <2>3, <2>4, <2>6, ClaimsStay DEF StoreFacts
  <2> QED
    BY <2>3, <2>5, <2>6, <2>7 DEF Owner
<1>2. ASSUME NEW t \in DOMAIN txs', verifies'[t].pc \in {"activate", "backfill"}
      PROVE  claims'[txs'[t].orig] = verifies'[t].acct
  <2>1. t \in 1..MaxTx
    <3>1. txs' \in Seq(Transactions') /\ Len(txs') <= MaxTx' /\ MaxTx' = MaxTx /\ MaxTx \in Nat
      BY <1>0, WorldSteady, AppleKept DEF AppleFits, WorldStands, StoreFacts
    <3> QED
      BY <1>2, <3>1
  <2>2. t \in DOMAIN txs
    <3>1. t \notin DOMAIN txs => verifies[t].pc = "idle" /\ verifies'[t] = verifies[t]
      BY <2>1, VerifiesKept DEF StoreInv, CallsFit
    <3> QED
      BY <1>2, <3>1
  <2>3. txs'[t].orig = txs[t].orig /\ txs[t].orig \in Receipts
    BY <1>0, <2>2, Growth DEF StoreFacts
  <2>4. claims'[txs[t].orig] = verifies'[t].acct \/ verifies'[t] = verifies[t]
    <3>1. PICK v \in Verifications : v = verifies'[t]
      BY <2>1, VerifiesKept
    <3>2. v = verifies[t] \/ VerifyTo(t, v)
      BY <2>1, <3>1, VerifiesKept
    <3> QED
      BY <1>2, <3>1, <3>2 DEF VerifyTo, Idle
  <2>5. verifies'[t] = verifies[t] => claims[txs[t].orig] = verifies'[t].acct /\ verifies[t].acct \in Accounts
    BY <1>0, <1>2, <2>2, VerifyTypes DEF StoreInv, ClaimsHeld
  <2> QED
    BY <1>0, <2>3, <2>4, <2>5, ClaimsStay DEF StoreFacts
<1> QED
  BY <1>1, <1>2 DEF ClaimsHeld, Owner

LEMMA OwnersKept ==
    ASSUME StoreInv, Next
    PROVE  ReceiptHasOneOwner' /\ BoundToSold'
<1>w. WorldStands
  BY WorldSteady
<1>0. StoreFacts
  BY FactsHold
<1>1. ASSUME NEW c \in Accounts, accounts'[c].orig # None
      PROVE  claims'[accounts'[c].orig] = c /\ \E t \in DOMAIN txs' : txs'[t].orig = accounts'[c].orig
  <2> DEFINE a == accounts[c]
  <2>1. AccountMoves(c, a, accounts'[c])
    BY AccountSteps DEF AccountsMove
  <2>2. CASE accounts'[c].orig = a.orig
    <3>1. claims[a.orig] = c /\ Chain(a.orig) # {}
      BY <1>1, <2>2 DEF StoreInv, ReceiptHasOneOwner, BoundToSold
    <3>2. a.orig \in Receipts
      <4>1. a \in AccountType
        BY <1>0 DEF StoreFacts
      <4> QED
        BY <1>1, <2>2, <4>1 DEF AccountType
    <3>3. claims'[a.orig] = c
      BY <1>0, <3>1, <3>2, ClaimsStay DEF StoreFacts
    <3>4. PICK t \in DOMAIN txs : txs[t].orig = a.orig
      BY <3>1 DEF Chain
    <3>5. t \in DOMAIN txs' /\ txs'[t].orig = txs[t].orig
      BY Growth
    <3> QED
      BY <2>2, <3>3, <3>4, <3>5
  <2>3. CASE Binds(c, a, accounts'[c])
    <3>1. PICK t \in DOMAIN txs : accounts'[c].orig = txs[t].orig /\ claims[txs[t].orig] = c
      BY <2>3 DEF Binds
    <3>2. txs[t].orig \in Receipts
      BY <1>0 DEF StoreFacts
    <3>3. claims'[txs[t].orig] = c
      BY <1>0, <3>1, <3>2, ClaimsStay DEF StoreFacts
    <3>4. t \in DOMAIN txs' /\ txs'[t].orig = txs[t].orig
      BY Growth
    <3> QED
      BY <3>1, <3>3, <3>4
  <2>4. accounts'[c].orig = a.orig \/ Binds(c, a, accounts'[c])
    BY <2>1 DEF AccountMoves, Serves, Learns, Tokened, Deletes, Records, SameBinding
  <2> QED
    BY <2>2, <2>3, <2>4
<1>2. \A c \in Accounts : accounts'[c].orig # None => claims'[accounts'[c].orig] = c
  BY <1>1
<1>3. \A c \in Accounts : accounts'[c].orig # None => \E t \in DOMAIN txs' : txs'[t].orig = accounts'[c].orig
  BY <1>1
<1>4. Accounts' = Accounts
  BY <1>w DEF WorldStands
<1> QED
  BY <1>2, <1>3, <1>4 DEF ReceiptHasOneOwner, BoundToSold, Chain

\* The notification clock says auto of the receipt r.
Signs(r, auto, clock) ==
    /\ clock \in DOMAIN notes /\ notes[clock].auto = auto /\ txs[notes[clock].tx].orig = r
    /\ notes[clock].type = "DID_CHANGE_RENEWAL_STATUS"
StatusIsSigned ==
    \A c \in Accounts :
        /\ accounts[c].clock # 0 => Signs(accounts[c].orig, accounts[c].auto, accounts[c].clock)
        /\ accounts[c].bill.clock # 0 =>
              Signs(accounts[c].bill.orig, accounts[c].bill.auto, accounts[c].bill.clock)

LEMMA SignedIsOfReceipt == RenewalStatusIsOfReceipt <=> StatusIsSigned
BY DEF RenewalStatusIsOfReceipt, StatusIsSigned, Signs

\* What was signed stays signed.
LEMMA SignsStay ==
    ASSUME StoreInv, Next, NEW r, NEW auto, NEW clock, Signs(r, auto, clock)
    PROVE  Signs(r, auto, clock)'
<1>1. clock \in DOMAIN notes /\ notes[clock].tx \in DOMAIN txs
  BY DEF Signs, StoreInv, AppleFits
<1>2. clock \in DOMAIN notes' /\ notes'[clock] = notes[clock] /\ txs'[notes[clock].tx].orig = txs[notes[clock].tx].orig
  BY <1>1, Growth
<1> QED
  BY <1>2 DEF Signs

LEMMA StatusKept ==
    ASSUME StoreInv, Next
    PROVE  RenewalStatusIsOfReceipt'
<1>0. StoreFacts /\ Accounts' = Accounts /\ StatusIsSigned
  BY FactsHold, WorldSteady, SignedIsOfReceipt DEF WorldStands, StoreInv
<1>1. ASSUME NEW c \in Accounts, NEW b, b = accounts'[c]
      PROVE  /\ b.clock # 0 => Signs(b.orig, b.auto, b.clock)'
             /\ b.bill.clock # 0 => Signs(b.bill.orig, b.bill.auto, b.bill.clock)'
  <2> DEFINE a == accounts[c]
  <2>1. AccountMoves(c, a, b)
    BY <1>1, AccountSteps DEF AccountsMove
  <2>2. /\ a.clock # 0 => Signs(a.orig, a.auto, a.clock)
        /\ a.bill.clock # 0 => Signs(a.bill.orig, a.bill.auto, a.bill.clock)
    BY <1>0 DEF StatusIsSigned
  <2>a. a \in AccountType
    BY <1>0 DEF StoreFacts
  <2>3. b.clock # 0 => Signs(b.orig, b.auto, b.clock)
    <3>1. CASE SameBinding(a, b)
      BY <2>2, <3>1 DEF SameBinding
    <3>2. CASE Binds(c, a, b)
      BY <3>2 DEF Binds
    <3>3. CASE Learns(a, b)
      BY <3>3 DEF Learns, Signs
    <3> QED
      BY <2>1, <3>1, <3>2, <3>3 DEF AccountMoves, Serves, Tokened, Deletes, Records
  <2>4. b.bill.clock # 0 => Signs(b.bill.orig, b.bill.auto, b.bill.clock)
    <3>1. CASE b.bill = a.bill
      BY <2>2, <3>1
    <3>2. CASE Records(c, a, b)
      <4>1. PICK i \in DOMAIN notes : b = [a EXCEPT !.bill = Recorded(a, i)]
        BY <3>2 DEF Records
      <4>2. PICK n : n = Recorded(a, i)
        OBVIOUS
      <4>3. b.bill = n
        BY <4>1, <4>2, <2>a DEF AccountType
      <4> HIDE DEF a
      <4>4. \/ n.orig = a.bill.orig /\ n.auto = a.bill.auto /\ n.clock = a.bill.clock
            \/ /\ NewerRenewal(a, txs[notes[i].tx].orig, i)
               /\ n.orig = txs[notes[i].tx].orig /\ n.auto = notes[i].auto /\ n.clock = i
        BY <1>0, <2>a, <4>2, RecordedFits
      <4>5. NewerRenewal(a, txs[notes[i].tx].orig, i) => notes[i].type = "DID_CHANGE_RENEWAL_STATUS"
        BY DEF NewerRenewal, Note
      <4> QED
        BY <2>2, <4>3, <4>4, <4>5 DEF Signs
    <3> QED
      BY <2>1, <3>1, <3>2 DEF AccountMoves, Serves, Binds, Learns, Tokened, Deletes, SameEvidence
  <2>5. ASSUME NEW r, NEW auto, NEW clock, Signs(r, auto, clock) PROVE Signs(r, auto, clock)'
    BY <2>5, SignsStay
  <2>6. PICK r1 : r1 = b.orig
    OBVIOUS
  <2>7. PICK u1 : u1 = b.auto
    OBVIOUS
  <2>8. PICK k1 : k1 = b.clock
    OBVIOUS
  <2>9. k1 # 0 => Signs(r1, u1, k1)'
    BY <2>3, <2>5, <2>6, <2>7, <2>8
  <2>10. PICK r2 : r2 = b.bill.orig
    OBVIOUS
  <2>11. PICK u2 : u2 = b.bill.auto
    OBVIOUS
  <2>12. PICK k2 : k2 = b.bill.clock
    OBVIOUS
  <2>13. k2 # 0 => Signs(r2, u2, k2)'
    BY <2>4, <2>5, <2>10, <2>11, <2>12
  <2> QED
    BY <2>6, <2>7, <2>8, <2>9, <2>10, <2>11, <2>12, <2>13
<1>2. StatusIsSigned'
  BY <1>0, <1>1 DEF StatusIsSigned, Signs
<1> QED
  BY <1>2 DEF RenewalStatusIsOfReceipt, StatusIsSigned, Signs

LEMMA GrantsKept ==
    ASSUME StoreInv, Next
    PROVE  SeenWasGranted' /\ SeenIsSold' /\ MarkedWasGranted'
<1>0. StoreFacts
  BY FactsHold
<1>w. Accounts' = Accounts /\ MaxTx' = MaxTx
  BY WorldSteady DEF WorldStands
<1>d. \A t \in DOMAIN txs' : t \in 1..MaxTx
  <2>1. txs' \in Seq(Transactions') /\ Len(txs') <= MaxTx /\ MaxTx \in Nat
    BY <1>0, <1>w, AppleKept DEF AppleFits, StoreFacts
  <2> QED
    BY <2>1
<1>n. \A t \in 1..MaxTx : t \notin DOMAIN txs => verifies[t].pc = "idle"
  BY DEF StoreInv, CallsFit
<1>g. granted \subseteq granted'
  BY VerifiesKept
<1>s. \A c \in Accounts, t \in DOMAIN txs' : t \notin DOMAIN txs => seen[c][t] # "active"
  BY <1>d DEF StoreInv, SeenIsSold
<1>3. ASSUME NEW c \in Accounts, NEW t \in 1..MaxTx, seen'[c][t] = "active" PROVE t \in DOMAIN txs'
  BY <1>3, <1>n, SeenKept, Growth DEF StoreInv, SeenIsSold
<1>1. ASSUME NEW c \in Accounts, NEW t \in DOMAIN txs', seen'[c][t] = "active" PROVE <<c, t>> \in granted'
  <2>1. t \in DOMAIN txs
    BY <1>1, <1>d, <1>n, <1>s, SeenKept
  <2>2. seen[c][t] = "active" \/ (verifies[t].pc = "markactive" /\ verifies[t].acct = c)
    BY <1>1, <1>d, SeenKept
  <2> QED
    BY <2>1, <2>2, <1>g DEF StoreInv, SeenWasGranted, MarkedWasGranted
<1>2. ASSUME NEW t \in DOMAIN txs', verifies'[t].pc = "markactive" PROVE <<verifies'[t].acct, t>> \in granted'
  <2>1. PICK v \in Verifications : v = verifies'[t]
    BY <1>d, VerifiesKept
  <2>2. v = verifies[t] \/ VerifyTo(t, v)
    BY <1>d, <2>1, VerifiesKept
  <2> QED
    BY <1>2, <1>d, <1>n, <1>g, <2>1, <2>2 DEF VerifyTo, Idle, StoreInv, MarkedWasGranted
<1> QED
  BY <1>w, <1>1, <1>2, <1>3 DEF SeenWasGranted, SeenIsSold, MarkedWasGranted

-----------------------------------------------------------------------------
(* The invariant holds.                                                     *)

LEMMA InitHolds ==
    ASSUME Init
    PROVE  StoreInv
<1>w. world \in Worlds
  BY DEF Init
<1>0. /\ MaxTx \in Nat /\ MaxNotes \in Nat /\ MaxTime \in Nat /\ MaxAttempts \in Nat /\ MaxRechecks \in Nat
      /\ None \notin Accounts /\ None \notin Receipts
      /\ Deleted \subseteq Accounts /\ Untokened \subseteq Accounts /\ Unbound \subseteq Accounts
      /\ Unbound # {} => Receipts # {} /\ Tiers # {} /\ MaxTx > 0
  BY <1>w, WorldFacts
<1> DEFINE earlier == [orig |-> CHOOSE x \in Receipts : TRUE, tier |-> CHOOSE x \in Tiers : TRUE,
                       token |-> [acct |-> CHOOSE c \in Unbound : TRUE, uuid |-> 1],
                       purchase |-> 0, expires |-> 2, revoked |-> FALSE]
           first == IF Accounts \subseteq Deleted THEN None ELSE CHOOSE c \in Accounts : c \notin Deleted
           tries == [t \in 1..MaxTx |-> IF t \in DOMAIN txs THEN MaxAttempts ELSE 0]
<1>1. /\ now = 0 /\ txs = IF Unbound = {} THEN << >> ELSE <<earlier>>
      /\ notes = << >> /\ renews = [r \in Receipts |-> TRUE]
  BY Zenon DEF Init
<1>a. accounts = [c \in Accounts |->
             IF c \in Unbound THEN [NewAccount(c) EXCEPT !.status = "active", !.tier = txs[1].tier, !.expires = 2]
                              ELSE NewAccount(c)]
  BY Zenon DEF Init
<1>b. /\ outbox = {} /\ failed = {} /\ accepted = {}
      /\ claims = [r \in Receipts |-> None] /\ release = [c \in Accounts |-> "free"]
      /\ ensuring = {} /\ granted = {<<c, 1>> : c \in Unbound}
  BY Zenon DEF Init
<1>c. handlers = [i \in 1..MaxNotes |-> Idle] /\ verifies = [t \in 1..MaxTx |-> Idle]
  BY Zenon DEF Init
<1>d. seen = [c \in Accounts |-> [t \in 1..MaxTx |-> IF c \in Unbound /\ t = 1 THEN "active" ELSE None]]
  BY Zenon DEF Init
<1>e. phone = [acct |-> first, token |-> 0, queue |-> DOMAIN txs, todo |-> tries]
  BY Zenon DEF Init
<1>f. recheck = [pc |-> "idle", left |-> MaxRechecks, acct |-> None, expires |-> 0, orig |-> None, tx |-> 0]
  BY Zenon DEF Init
<1>2. Unbound # {} => earlier \in Transactions /\ earlier.purchase = 0 /\ earlier.tier \in Tiers
  <2> SUFFICES ASSUME Unbound # {} PROVE earlier \in Transactions /\ earlier.purchase = 0 /\ earlier.tier \in Tiers
    OBVIOUS
  <2>1. (CHOOSE x \in Receipts : TRUE) \in Receipts /\ (CHOOSE x \in Tiers : TRUE) \in Tiers
    BY <1>0
  <2>2. (CHOOSE c \in Unbound : TRUE) \in Accounts
    BY <1>0
  <2>3. [acct |-> CHOOSE c \in Unbound : TRUE, uuid |-> 1] \in Tokens
    BY <2>2 DEF Tokens
  <2>4. 2 \in 2..MaxTime + 2 /\ 0 \in 0..MaxTime
    BY <1>0
  <2> QED
    BY <2>1, <2>3, <2>4 DEF Transactions
<1> HIDE DEF earlier
<1>3. /\ txs \in Seq(Transactions) /\ Len(txs) <= MaxTx
      /\ DOMAIN txs = IF Unbound = {} THEN {} ELSE {1}
      /\ Unbound # {} => txs[1] = earlier
  <2>1. CASE Unbound = {}
    BY <1>0, <1>1, <2>1
  <2>2. CASE Unbound # {}
    <3>1. txs = <<earlier>>
      BY <1>1, <2>2
    <3>2. earlier \in Transactions
      BY <1>2, <2>2
    <3> QED
      BY <1>0, <2>2, <3>1, <3>2
  <2> QED
    BY <2>1, <2>2
<1>4. AppleFits
  <2>1. \A t \in DOMAIN txs : txs[t].purchase <= now
    BY <1>1, <1>2, <1>3
  <2>2. \A r \in Receipts : Chain(r) # {} => \E t \in Chain(r) : \A u \in Chain(r) : u <= t
    BY <1>3 DEF Chain
  <2> QED
    BY <1>0, <1>1, <1>3, <2>1, <2>2 DEF AppleFits
<1> DEFINE Bills == [count : Nat, charges : Nat, tx : 0..MaxTx, type : {None} \cup (NoteTypes \X BOOLEAN),
             orig : Receipts \cup {None}, auto : BOOLEAN \cup {None}, clock : 0..MaxNotes]
<1>5. NoBilling \in Bills /\ NoBilling.clock = 0
  BY <1>0 DEF NoBilling
<1>6. \A c \in Accounts : /\ NewAccount(c) \in AccountType /\ NewAccount(c).orig = None /\ NewAccount(c).clock = 0
                          /\ NewAccount(c).active = (c \notin Deleted) /\ NewAccount(c).bill = NoBilling
  <2> TAKE c \in Accounts
  <2>1. 1 \in 1..MaxTime + 2 /\ 0 \in 0..MaxNotes /\ 0 \in 0..MaxTime /\ None \in BOOLEAN \cup {None}
    BY <1>0
  <2>2. NoBilling \in Bills
    BY <1>5
  <2> HIDE DEF Bills
  <2>3. AccountType = [active : BOOLEAN, uuid : 0..2, status : {"trial", "active", "expired"}, tier : Tiers \cup {None},
           expires : 1..MaxTime + 2, orig : Receipts \cup {None}, auto : BOOLEAN \cup {None}, clock : 0..MaxNotes,
           from : Accounts \cup {None}, deletedAt : 0..MaxTime, bill : Bills]
    BY Zenon DEF AccountType, Bills
  <2> QED
    BY <2>1, <2>2, <2>3 DEF NewAccount
<1>7. \A c \in Accounts : /\ accounts[c] \in AccountType /\ accounts[c].orig = None /\ accounts[c].clock = 0
                          /\ accounts[c].active = (c \notin Deleted) /\ accounts[c].bill.clock = 0
  <2> TAKE c \in Accounts
  <2> DEFINE n == NewAccount(c)
             u == [n EXCEPT !.status = "active", !.tier = txs[1].tier, !.expires = 2]
  <2>1. accounts[c] = IF c \in Unbound THEN u ELSE n
    BY <1>a
  <2>2. /\ n \in AccountType /\ n.orig = None /\ n.clock = 0 /\ n.active = (c \notin Deleted) /\ n.bill.clock = 0
    BY <1>5, <1>6
  <2>3. CASE c \in Unbound
    <3>1. txs[1].tier \in Tiers /\ 2 \in 1..MaxTime + 2
      BY <1>0, <1>2, <1>3, <2>3
    <3> HIDE DEF n
    <3>2. /\ u \in AccountType /\ u.orig = n.orig /\ u.clock = n.clock /\ u.active = n.active /\ u.bill = n.bill
      BY <2>2, <3>1 DEF AccountType
    <3> QED
      BY <2>1, <2>2, <2>3, <3>2
  <2>4. CASE c \notin Unbound
    BY <2>1, <2>2, <2>4
  <2> QED
    BY <2>3, <2>4
<1> HIDE DEF Bills
<1>8. TypeOK
  <2>1. accounts \in [Accounts -> AccountType]
    <3> DEFINE n(c) == IF c \in Unbound THEN [NewAccount(c) EXCEPT !.status = "active", !.tier = txs[1].tier, !.expires = 2]
                                        ELSE NewAccount(c)
    <3>1. accounts = [c \in Accounts |-> n(c)]
      BY <1>a
    <3> HIDE DEF n
    <3> QED
      BY <1>7, <3>1
  <2>2. seen \in [Accounts -> [1..MaxTx -> {None, "active", "inactive"}]]
    BY <1>d
  <2>3. phone.queue \subseteq DOMAIN txs /\ phone.todo \in [1..MaxTx -> 0..MaxAttempts]
    BY <1>0, <1>e
  <2>4. now \in 0..MaxTime
    BY <1>0, <1>1
  <2>5. /\ claims \in [Receipts -> Accounts \cup {None}]
        /\ release \in [Accounts -> {"free", "deleting", "needs_attention"}]
        /\ outbox \cup failed \cup accepted \subseteq DOMAIN notes
    BY <1>b
  <2> QED
    BY <2>1, <2>2, <2>3, <2>4, <2>5 DEF TypeOK
<1>9. CallsFit
  <2>1. handlers \in [1..MaxNotes -> Unread \cup Live \cup Gone] /\ \A i \in 1..MaxNotes : handlers[i].pc = "idle"
    BY <1>c DEF Unread, Idle
  <2>2. verifies \in [1..MaxTx -> Verifications] /\ \A t \in 1..MaxTx : verifies[t].pc = "idle"
    BY <1>c DEF Verifications, Idle
  <2> QED
    BY <1>b, <2>1, <2>2 DEF CallsFit
<1>10. RecheckFits
  BY <1>0, <1>f DEF RecheckFits, Rechecks
<1>11. PhoneFits
  <2>1. first # None => first \in Accounts /\ first \notin Deleted
    OBVIOUS
  <2>2. first \in Accounts \cup {None}
    BY <2>1
  <2>3. tries \in [1..MaxTx -> 0..MaxAttempts] /\ DOMAIN txs \subseteq Nat
    BY <1>0, <1>3
  <2> HIDE DEF first, tries
  <2>4. phone \in Phones /\ phone.acct = first
    BY <1>e, <2>2, <2>3 DEF Phones
  <2>5. \A t \in DOMAIN txs : verifies[t].pc = "idle"
    BY <1>0, <1>3, <1>c DEF Idle
  <2> QED
    BY <1>7, <2>1, <2>4, <2>5 DEF PhoneFits
<1>12. ReceiptHasOneOwner /\ BoundToSold /\ RenewalStatusIsOfReceipt
  BY <1>7 DEF ReceiptHasOneOwner, BoundToSold, RenewalStatusIsOfReceipt
<1>13. SeenWasGranted /\ SeenIsSold /\ ClaimsHeld /\ MarkedWasGranted
  <2>1. \A c \in Accounts, t \in 1..MaxTx : seen[c][t] = "active" => c \in Unbound /\ t = 1
    <3> SUFFICES ASSUME NEW c \in Accounts, NEW t \in 1..MaxTx, seen[c][t] = "active", ~(c \in Unbound /\ t = 1) PROVE FALSE
      OBVIOUS
    <3>1. seen[c][t] = None
      BY <1>d
    <3> QED
      BY <3>1, WorldsAssumption
  <2>2. \A t \in DOMAIN txs : t \in 1..MaxTx /\ verifies[t].pc = "idle"
    BY <1>0, <1>3, <1>c DEF Idle
  <2>3. DOMAIN notes = {}
    BY <1>1
  <2> QED
    BY <1>b, <1>3, <2>1, <2>2, <2>3 DEF SeenWasGranted, SeenIsSold, ClaimsHeld, MarkedWasGranted
<1> QED
  BY <1>w, <1>4, <1>8, <1>9, <1>10, <1>11, <1>12, <1>13 DEF StoreInv

LEMMA StoreStutters ==
    ASSUME StoreInv, UNCHANGED vars
    PROVE  StoreInv'
<1>1. UNCHANGED <<world, now, txs, notes, renews, outbox, failed, accepted, handlers, accounts, claims, seen, release,
                  phone, verifies, recheck, ensuring, granted>>
  BY Zenon DEF vars, apple, delivery, device
<1>c. /\ Accounts' = Accounts /\ Receipts' = Receipts /\ Tiers' = Tiers /\ MaxTx' = MaxTx /\ MaxTime' = MaxTime
      /\ MaxNotes' = MaxNotes /\ MaxAttempts' = MaxAttempts
  BY <1>1 DEF Accounts, Receipts, Tiers, MaxTx, MaxTime, MaxNotes, MaxAttempts
<1>2. world' \in Worlds /\ TypeOK'
  <2>1. AccountType' = AccountType
    BY <1>c, Zenon DEF AccountType
  <2> QED
    BY <1>1, <1>c, <2>1 DEF StoreInv, TypeOK
<1>6. AppleFits'
  <2>1. Transactions' = Transactions /\ Notifications' = Notifications
    BY <1>c, Zenon DEF Transactions, Tokens, Notifications
  <2>2. \A r \in Receipts : Chain(r)' = Chain(r)
    BY <1>1 DEF Chain
  <2> QED
    BY <1>1, <1>c, <2>1, <2>2 DEF StoreInv, AppleFits
<1>3. CallsFit'
  BY <1>1 DEF StoreInv, CallsFit, Unread, Live, Gone, Verifications, Asking, Accounts, MaxTx, MaxNotes
<1>4. RecheckFits' /\ PhoneFits'
  BY <1>1 DEF StoreInv, RecheckFits, PhoneFits, Rechecks, Phones, Chain, Accounts, Receipts, MaxTx, MaxAttempts
<1>5. /\ ReceiptHasOneOwner' /\ RenewalStatusIsOfReceipt' /\ SeenWasGranted' /\ BoundToSold' /\ SeenIsSold'
      /\ MarkedWasGranted' /\ ClaimsHeld'
  BY <1>1 DEF StoreInv, ReceiptHasOneOwner, RenewalStatusIsOfReceipt, SeenWasGranted, BoundToSold, SeenIsSold,
              MarkedWasGranted, ClaimsHeld, Owner, Chain, Accounts, MaxTx
<1> QED
  BY <1>2, <1>3, <1>4, <1>5, <1>6 DEF StoreInv

LEMMA StoreSteps ==
    ASSUME StoreInv, [Next]_vars
    PROVE  StoreInv'
<1>1. CASE Next
  <2>1. world' \in Worlds
    BY <1>1, WorldSteady DEF StoreInv
  <2> QED
    BY <1>1, <2>1, TypesKept, AppleKept, CallsKept, RecheckKept, PhoneKept, OwnersKept, StatusKept, GrantsKept, ClaimsKept
       DEF StoreInv
<1>2. CASE UNCHANGED vars
  BY <1>2, StoreStutters
<1> QED
  BY <1>1, <1>2

LEMMA StoreInvariant == Spec => []StoreInv
<1>1. Init => StoreInv
  BY InitHolds
<1>2. StoreInv /\ [Next]_vars => StoreInv'
  BY StoreSteps
<1> QED
  BY <1>1, <1>2, PTL DEF Spec

-----------------------------------------------------------------------------
(* The time of a renewal status.                                            *)

LEMMA ClockStep ==
    ASSUME StoreInv, [Next]_vars
    PROVE  \A c \in Accounts :
             /\ accounts'[c].orig = accounts[c].orig /\ accounts[c].orig # None => accounts'[c].clock >= accounts[c].clock
             /\ accounts'[c].bill.orig = accounts[c].bill.orig => accounts'[c].bill.clock >= accounts[c].bill.clock
<1> SUFFICES ASSUME NEW c \in Accounts, NEW a, a = accounts[c], NEW b, b = accounts'[c]
             PROVE  /\ b.orig = a.orig /\ a.orig # None => b.clock >= a.clock
                    /\ b.bill.orig = a.bill.orig => b.bill.clock >= a.bill.clock
  OBVIOUS
<1>0. StoreFacts /\ a \in AccountType
  BY FactsHold DEF StoreFacts
<1>1. a.clock \in Nat /\ a.bill.clock \in Nat
  <2>1. a.clock \in 0..MaxNotes /\ a.bill.clock \in 0..MaxNotes
    BY <1>0 DEF AccountType
  <2> QED
    BY <2>1
<1>2. CASE UNCHANGED vars
  BY <1>1, <1>2 DEF vars
<1>3. CASE Next
  <2>1. AccountMoves(c, a, b)
    BY <1>3, AccountSteps DEF AccountsMove
  <2>2. CASE SameEvidence(a, b) \/ Deletes(c, a, b)
    <3>1. b.bill = a.bill
      BY <2>2 DEF SameEvidence, Deletes
    <3>2. SameBinding(a, b) \/ b.orig # a.orig \/ Learns(a, b)
      BY <2>1, <2>2 DEF AccountMoves, Serves, Binds, Tokened, Deletes, Records
    <3>3. Learns(a, b) => b.clock >= a.clock
      <4>1. DOMAIN notes \subseteq Nat
        BY <1>0 DEF StoreFacts
      <4> QED
        BY <1>1, <4>1 DEF Learns
    <3> QED
      BY <1>1, <3>1, <3>2, <3>3 DEF SameBinding
  <2>3. CASE Records(c, a, b)
    <3>1. PICK i \in DOMAIN notes : b = [a EXCEPT !.bill = Recorded(a, i)]
      BY <2>3 DEF Records
    <3>2. PICK n : n = Recorded(a, i)
      OBVIOUS
    <3>3. b.bill = n /\ b.clock = a.clock
      BY <1>0, <3>1, <3>2 DEF AccountType
    <3>4. \/ n.orig = a.bill.orig /\ n.auto = a.bill.auto /\ n.clock = a.bill.clock
          \/ /\ NewerRenewal(a, txs[notes[i].tx].orig, i)
             /\ n.orig = txs[notes[i].tx].orig /\ n.auto = notes[i].auto /\ n.clock = i
      BY <1>0, <3>2, RecordedFits
    <3>5. NewerRenewal(a, txs[notes[i].tx].orig, i) /\ a.bill.orig = txs[notes[i].tx].orig => i > a.bill.clock
      BY DEF NewerRenewal
    <3>6. i \in Nat
      BY <1>0 DEF StoreFacts
    <3> QED
      BY <1>1, <3>3, <3>4, <3>5, <3>6
  <2> QED
    BY <2>1, <2>2, <2>3 DEF AccountMoves, Serves, Binds, Learns, Tokened
<1> QED
  BY <1>2, <1>3

-----------------------------------------------------------------------------
(* The evidence of a deleted account is complete.                           *)

\* A deletion, as these proofs use it.
LEMMA Deletion ==
    ASSUME NEW c \in Accounts, deactivate_contractor(c)
    PROVE  "delete" \in Events /\ accounts[c].active /\ now' = now /\ SameApple /\ SameCalls
BY Zenon DEF deactivate_contractor, apple, delivery, SameApple, SameCalls

\* Only an account that is alive is deleted, and only that one.
LEMMA DeletedAlive ==
    ASSUME StoreInv, Next, NEW c \in Accounts
    PROVE  \/ /\ accounts'[c].active = accounts[c].active /\ accounts'[c].deletedAt = accounts[c].deletedAt
           \/ Deletes(c, accounts[c], accounts'[c])
<1>1. AccountMoves(c, accounts[c], accounts'[c])
  BY AccountSteps DEF AccountsMove
<1> QED
  BY <1>1 DEF AccountMoves, Serves, Binds, Learns, Tokened, Records, SameEvidence

LEMMA TokenKept ==
    ASSUME StoreInv, TokensStand, OneToken, Next
    PROVE  OneToken'
<1>w. WorldStands
  BY WorldSteady
<1>0. StoreFacts
  BY FactsHold
<1>1. CASE Untokened # {} /\ \A c \in Accounts : accounts[c].active
  <2>1. "delete" \notin Events
    BY <1>1 DEF TokensStand, StoreInv, Untokened, Events
  <2>2. \A c \in Accounts : ~Deletes(c, accounts[c], accounts'[c])
    BY <2>1, Deletion DEF Deletes
  <2>3. \A c \in Accounts : accounts'[c].active
    BY <1>1, <2>2, DeletedAlive
  <2> QED
    BY <1>w, <1>1, <2>3 DEF OneToken, WorldStands
<1>2. CASE /\ \A c \in Accounts : accounts[c].uuid = 1
           /\ \A t \in DOMAIN txs : txs[t].token.uuid = 1
           /\ ensuring = {} /\ phone.token \in 0..1
  <2>1. \A c \in Accounts : accounts'[c].uuid = 1
    <3> TAKE c \in Accounts
    <3>1. AccountMoves(c, accounts[c], accounts'[c])
      BY AccountSteps DEF AccountsMove
    <3> QED
      BY <1>2, <3>1 DEF AccountMoves, Serves, Binds, Learns, Tokened, Deletes, Records
  <2>2. \A t \in DOMAIN txs' : txs'[t].token.uuid = 1
    <3> TAKE t \in DOMAIN txs'
    <3>1. CASE t \in DOMAIN txs
      BY <1>2, <3>1, Growth
    <3>2. CASE t \notin DOMAIN txs
      BY <1>2, <3>2, AppleTokens DEF TokensKept
    <3> QED
      BY <3>1, <3>2
  <2>3. ensuring' = {}
    BY <1>2, EnsuringSteps DEF EnsuringMoves
  <2>4. phone'.token \in 0..1
    <3>1. \/ phone'.token \in {0, phone.token}
          \/ \E c \in Accounts : phone'.token = accounts[c].uuid \/ <<c, phone'.token>> \in ensuring
      BY PhoneSteps DEF PhoneMoves
    <3> QED
      BY <1>2, <3>1
  <2> QED
    BY <1>w, <2>1, <2>2, <2>3, <2>4 DEF OneToken, WorldStands
<1> QED
  BY <1>1, <1>2 DEF OneToken

LEMMA EvidenceKept ==
    ASSUME StoreInv, EvidenceIsOfDeleted, Next
    PROVE  EvidenceIsOfDeleted'
<1>w. Accounts' = Accounts /\ MaxNotes' = MaxNotes
  BY WorldSteady DEF WorldStands
<1>0. StoreFacts /\ now \in Nat /\ now' \in Nat /\ now <= now'
  BY FactsHold, AppleGrows DEF Grown, StoreFacts
<1>1. ASSUME NEW c \in Accounts, NEW a, a = accounts[c], NEW b, b = accounts'[c]
      PROVE  /\ b.active => b.bill = NoBilling
             /\ b.deletedAt <= now' /\ b.bill.tx \in {0} \cup DOMAIN txs'
  <2>1. AccountMoves(c, a, b) /\ a \in AccountType
    BY <1>0, <1>1, AccountSteps DEF AccountsMove, StoreFacts
  <2>2. /\ a.active => a.bill = NoBilling
        /\ a.deletedAt <= now /\ a.bill.tx \in {0} \cup DOMAIN txs
    BY <1>1 DEF EvidenceIsOfDeleted
  <2>3. a.deletedAt \in Nat
    BY <2>1 DEF AccountType
  <2>4. CASE SameEvidence(a, b)
    BY <1>0, <2>2, <2>3, <2>4, Growth DEF SameEvidence
  <2>5. CASE Deletes(c, a, b)
    BY <1>0, <2>2, <2>5, Growth DEF Deletes
  <2>6. CASE Records(c, a, b)
    <3>1. PICK i \in DOMAIN notes : /\ record_inactive_notification(i) /\ Owner(notes[i].tx) = c
                                    /\ b = [a EXCEPT !.bill = Recorded(a, i)]
      BY <2>6 DEF Records
    <3>2. ~a.active
      BY <1>1, <3>1 DEF record_inactive_notification, At, EvidenceIsOfDeleted
    <3>3. b.active = a.active /\ b.deletedAt = a.deletedAt
      BY <2>6 DEF Records
    <3>4. PICK n : n = Recorded(a, i)
      OBVIOUS
    <3>5. b.bill = n
      BY <2>1, <3>1, <3>4 DEF AccountType
    <3>6. n.tx = a.bill.tx \/ n.tx = notes[i].tx
      BY <1>0, <2>1, <3>4, RecordedFits
    <3>7. notes[i].tx \in DOMAIN txs
      BY <1>0 DEF StoreFacts
    <3> QED
      BY <1>0, <2>2, <2>3, <3>2, <3>3, <3>5, <3>6, <3>7, Growth
  <2> QED
    BY <2>1, <2>4, <2>5, <2>6 DEF AccountMoves, Serves, Binds, Learns, Tokened
<1>2. ASSUME NEW i \in DOMAIN notes', NEW c, c = txs'[notes'[i].tx].token.acct
      PROVE  /\ handlers'[i].pc \in LivePcs =>
                   accounts'[c].active \/ txs'[notes'[i].tx].purchase <= accounts'[c].deletedAt
             /\ handlers'[i].pc \in {"record", "forward"} => ~accounts'[c].active
  <2>1. i \in 1..MaxNotes
    <3>1. notes' \in Seq(Notifications') /\ Len(notes') <= MaxNotes' /\ MaxNotes \in Nat
      BY <1>0, AppleKept DEF AppleFits, StoreFacts
    <3> QED
      BY <1>w, <1>2, <3>1
  <2>2. CASE i \notin DOMAIN notes
    <3>1. handlers[i].pc = "idle" /\ handlers'[i] = handlers[i]
      BY <2>1, <2>2, HandlersKept DEF StoreInv, CallsFit
    <3> QED
      BY <3>1 DEF LivePcs
  <2>3. CASE i \in DOMAIN notes
    <3> DEFINE t == notes[i].tx
    <3>1. /\ t \in DOMAIN txs /\ notes'[i] = notes[i] /\ txs'[t].purchase = txs[t].purchase /\ c = Owner(t) /\ c \in Accounts
          /\ txs[t].purchase \in Nat /\ txs[t].purchase <= now
      <4>1. t \in DOMAIN txs /\ Owner(t) \in Accounts /\ txs[t].purchase \in 0..MaxTime
        BY <1>0, <2>3 DEF StoreFacts
      <4>2. txs[t].purchase <= now
        BY <4>1 DEF StoreInv, AppleFits
      <4>3. notes'[i] = notes[i] /\ txs'[t].purchase = txs[t].purchase /\ txs'[t].token = txs[t].token
        BY <2>3, <4>1, Growth
      <4> QED
        BY <1>0, <1>2, <4>1, <4>2, <4>3 DEF Owner
    <3>2. /\ handlers[i].pc \in LivePcs => accounts[c].active \/ txs[t].purchase <= accounts[c].deletedAt
          /\ handlers[i].pc \in {"record", "forward"} => ~accounts[c].active
      BY <2>3, <3>1 DEF EvidenceIsOfDeleted
    <3>3. handlers'[i] = handlers[i] \/ HandlerTo(i, handlers'[i])
      BY <2>1, HandlersKept
    <3>4. /\ handlers'[i].pc \in LivePcs => accounts[c].active \/ txs[t].purchase <= accounts[c].deletedAt
          /\ handlers'[i].pc \in {"record", "forward"} => ~accounts[c].active
      BY <3>1, <3>2, <3>3 DEF HandlerTo, LivePcs, Idle
    <3>5. \/ accounts'[c].active = accounts[c].active /\ accounts'[c].deletedAt = accounts[c].deletedAt
          \/ accounts[c].active /\ ~accounts'[c].active /\ accounts'[c].deletedAt = now
      BY <3>1, DeletedAlive DEF Deletes
    <3> QED
      BY <3>1, <3>4, <3>5
  <2> QED
    BY <2>2, <2>3
<1> QED
  BY <1>w, <1>1, <1>2 DEF EvidenceIsOfDeleted, Owner

\* An answer comes from where the call is; what was answered stays so, unless it is to come again.
LEMMA AnswerSteps ==
    ASSUME StoreInv, Next, NEW j \in DOMAIN notes, Answered(j)'
    PROVE  \/ Answered(j)
           \/ handlers[j].pc \in LivePcs
           \/ accounts[Owner(notes[j].tx)].uuid # txs[notes[j].tx].token.uuid
           \/ record_inactive_notification(j)
<1>0. StoreFacts /\ handlers \in [1..MaxNotes -> Calls]
  BY FactsHold, CallTypes
<1>1. CASE SameCalls
  BY <1>1 DEF SameCalls, Answered
<1>2. ASSUME NEW i \in DOMAIN notes, CallGoes(i), CallActs(i), i # j PROVE Answered(j)
  <2>1. PICK h : handlers' = [handlers EXCEPT ![i] = h] /\ accepted' \subseteq accepted \cup {i}
    BY <1>2 DEF CallGoes
  <2>2. handlers'[j] = handlers[j]
    BY <1>0, <1>2, <2>1 DEF StoreFacts
  <2> QED
    BY <1>2, <2>1, <2>2 DEF Answered
<1>3. CASE CallActs(j)
  <2>1. j \in 1..MaxNotes
    BY <1>0 DEF StoreFacts
  <2>2. CASE Deliver(j) \/ Handle(j)
    <3>1. LookUp(j)
      BY <2>2, Zenon DEF Deliver, Handle
    <3>2. \/ accounts[Owner(notes[j].tx)].uuid # txs[notes[j].tx].token.uuid
          \/ accepted' = accepted /\ \E h : handlers' = [handlers EXCEPT ![j] = h] /\ h.pc \in {"claim", "record"}
      <4> DEFINE c == Owner(notes[j].tx)
                 b == Rebound(c)
                 live == [pc |-> "claim", legacy |-> accounts[c].orig = None /\ SameTerm(accounts[c], notes[j].tx)]
                 gone == [pc |-> "record", rebound |-> b, rstatus |-> IF b = None THEN None ELSE accounts[b].status,
                          rfrom |-> IF b = None THEN None ELSE accounts[b].from]
      <4>1. \/ accounts[c].uuid # txs[notes[j].tx].token.uuid
            \/ accepted' = accepted /\ handlers' = [handlers EXCEPT ![j] = live]
            \/ accepted' = accepted /\ handlers' = [handlers EXCEPT ![j] = gone]
        BY <3>1, Zenon DEF LookUp, Note
      <4>2. live.pc \in {"claim", "record"} /\ gone.pc \in {"claim", "record"}
        OBVIOUS
      <4> HIDE DEF live, gone
      <4> QED
        BY <4>1, <4>2
    <3> QED
      BY <1>0, <2>1, <3>2 DEF Answered
  <2>3. CASE claim_transaction(j) \/ conditionally_backfill(j) \/ record_active_renewal_status(j) \/ update_contractor(j)
    <3>1. handlers[j].pc \in {"claim", "backfill", "renewal", "write"}
      BY <2>3 DEF claim_transaction, conditionally_backfill, record_active_renewal_status, update_contractor, At
    <3> QED
      BY <3>1 DEF LivePcs
  <2>4. CASE Forward(j) \/ ForwardFails(j)
    BY <2>4 DEF Forward, ForwardFails, At, Answered
  <2>5. CASE Crash(j)
    BY <1>0, <2>1, <2>5 DEF Crash, Idle, Answered
  <2>6. CASE Redeliver(j) \/ GiveUp(j)
    BY <2>6 DEF Redeliver, GiveUp, Answered
  <2>7. CASE replay(j)
    <3> DEFINE h == [pc |-> "replayed"]
    <3>1. accepted' = accepted /\ (handlers' = handlers \/ handlers' = [handlers EXCEPT ![j] = h])
      BY <2>7, Zenon DEF replay
    <3>2. h.pc = "replayed"
      OBVIOUS
    <3> HIDE DEF h
    <3> QED
      BY <1>0, <2>1, <3>1, <3>2 DEF Answered
  <2> QED
    BY <1>3, <2>2, <2>3, <2>4, <2>5, <2>6, <2>7, Zenon DEF CallActs, Webhook, Faults
<1> QED
  BY <1>1, <1>2, <1>3, CallSteps

\* Nothing is answered before it has come.
LEMMA AnsweredIsOld ==
    ASSUME StoreInv, Next, NEW j \in DOMAIN notes', Answered(j)'
    PROVE  j \in DOMAIN notes
<1>0. StoreFacts /\ accepted \subseteq DOMAIN notes
  BY FactsHold, CallTypes
<1>1. j \in 1..MaxNotes
  <2>1. notes' \in Seq(Notifications') /\ Len(notes') <= MaxNotes' /\ MaxNotes' = MaxNotes /\ MaxNotes \in Nat
    BY <1>0, AppleKept, WorldSteady DEF AppleFits, StoreFacts, WorldStands
  <2> QED
    BY <2>1
<1>2. j \notin DOMAIN notes => handlers'[j].pc = "idle"
  BY <1>1, HandlersKept DEF StoreInv, CallsFit
<1>3. accepted' \subseteq DOMAIN notes
  BY <1>0, CallSteps DEF SameCalls, CallGoes
<1> QED
  BY <1>2, <1>3 DEF Answered

\* What the write of the evidence does.
LEMMA RecordActs ==
    ASSUME StoreInv, StoreFacts, NEW i \in DOMAIN notes, record_inactive_notification(i),
           NEW n, n = Recorded(accounts[Owner(notes[i].tx)], i)
    PROVE  /\ txs' = txs /\ notes' = notes
           /\ accounts' = [accounts EXCEPT ![Owner(notes[i].tx)].bill = n]
           /\ \A j \in DOMAIN notes : j # i => (Answered(j)' => Answered(j))
<1>1. /\ txs' = txs /\ notes' = notes /\ accounts' = [accounts EXCEPT ![Owner(notes[i].tx)].bill = n]
      /\ GoTo(i, "forward") \/ Done(i)
  BY Zenon DEF record_inactive_notification, apple, Note
<1>2. accepted' \subseteq accepted \cup {i} /\ \E h : handlers' = [handlers EXCEPT ![i] = h]
  <2>1. Done(i) => accepted' \subseteq accepted \cup {i} /\ \E h : handlers' = [handlers EXCEPT ![i] = h]
    BY DEF Done
  <2>2. GoTo(i, "forward") => accepted' = accepted /\ \E h : handlers' = [handlers EXCEPT ![i] = h]
    <3> SUFFICES ASSUME GoTo(i, "forward") PROVE accepted' = accepted /\ \E h : handlers' = [handlers EXCEPT ![i] = h]
      OBVIOUS
    <3> DEFINE h == [handlers[i] EXCEPT !.pc = "forward"]
    <3>1. handlers' = [handlers EXCEPT ![i] = h] /\ accepted' = accepted
      BY DEF GoTo
    <3> HIDE DEF h
    <3> QED
      BY <3>1
  <2> QED
    BY <1>1, <2>1, <2>2
<1>3. \A j \in DOMAIN notes : j # i => handlers'[j] = handlers[j]
  BY <1>2, CallTypes DEF StoreFacts
<1> QED
  BY <1>1, <1>2, <1>3 DEF Answered

\* A charge is about the same account and the same purchase as before.
LEMMA ChargeStays ==
    ASSUME StoreInv, Next, NEW c \in Accounts, NEW j \in DOMAIN notes, accounts'[c].deletedAt = accounts[c].deletedAt,
           Charge(c, j)'
    PROVE  Charge(c, j) /\ notes'[j] = notes[j] /\ notes[j].tx \in DOMAIN txs
<1>1. notes[j].tx \in DOMAIN txs
  BY FactsHold DEF StoreFacts
<1>2. notes'[j] = notes[j] /\ txs'[notes[j].tx].purchase = txs[notes[j].tx].purchase
      /\ txs'[notes[j].tx].token = txs[notes[j].tx].token
  BY <1>1, Growth
<1> QED
  BY <1>1, <1>2 DEF Charge, Owner

LEMMA OnRecordFinite ==
    ASSUME StoreInv, NEW c
    PROVE  IsFiniteSet(OnRecord(c)) /\ Cardinality(OnRecord(c)) \in Nat
<1>1. txs \in Seq(Transactions)
  BY DEF StoreInv, AppleFits
<1>2. DOMAIN txs = 1..Len(txs) /\ Len(txs) \in Nat
  BY <1>1
<1>3. IsFiniteSet(DOMAIN txs)
  BY <1>2, FS_Interval
<1>4. OnRecord(c) \subseteq DOMAIN txs
  BY DEF OnRecord
<1>5. IsFiniteSet(OnRecord(c))
  BY <1>3, <1>4, FS_Subset
<1> QED
  BY <1>5, FS_CardinalityType

LEMMA RecordKept ==
    ASSUME StoreInv, TokensStand, EvidenceInv, Next
    PROVE  AllOnRecord'
<1>w. Accounts' = Accounts
  BY WorldSteady DEF WorldStands
<1>0. StoreFacts
  BY FactsHold
<1>1. SUFFICES ASSUME NEW c \in Accounts, ~accounts'[c].active
               PROVE  accounts'[c].bill.charges >= Cardinality(OnRecord(c)')
  BY <1>w DEF AllOnRecord
<1> DEFINE Old == OnRecord(c)
<1>2. IsFiniteSet(Old) /\ Cardinality(Old) \in Nat /\ accounts[c].bill.charges \in Nat
  <2>1. accounts[c] \in AccountType
    BY <1>0 DEF StoreFacts
  <2> QED
    BY <2>1, OnRecordFinite DEF AccountType
<1>3. CASE accounts[c].active
  <2>1. Deletes(c, accounts[c], accounts'[c])
    BY <1>1, <1>3, DeletedAlive
  <2>2. txs' = txs /\ notes' = notes /\ accounts'[c].deletedAt = now /\ accounts'[c].bill = accounts[c].bill
    BY <2>1, Deletion DEF Deletes, SameApple
  <2>3. \A t \in DOMAIN txs : ~(txs'[t].purchase > accounts'[c].deletedAt)
    <3>1. \A t \in DOMAIN txs : txs[t].purchase <= now /\ txs[t].purchase \in 0..MaxTime /\ now \in 0..MaxTime
      BY <1>0 DEF StoreInv, AppleFits, StoreFacts
    <3> QED
      BY <2>2, <3>1
  <2>4. OnRecord(c)' = {}
    <3>1. \A j \in DOMAIN notes : notes[j].tx \in DOMAIN txs
      BY <1>0 DEF StoreFacts
    <3> QED
      BY <2>2, <2>3, <3>1 DEF OnRecord, LastCharged, Charge
  <2> QED
    BY <1>2, <2>2, <2>4, FS_EmptySet
<1>4. CASE ~accounts[c].active
  <2>1. accounts'[c].deletedAt = accounts[c].deletedAt
    BY <1>4, DeletedAlive DEF Deletes
  <2>2. accounts[c].bill.charges >= Cardinality(Old)
    BY <1>4 DEF EvidenceInv, AllOnRecord
  <2>3. ASSUME NEW j \in DOMAIN notes', Answered(j)', Charge(c, j)'
        PROVE  /\ j \in DOMAIN notes /\ Charge(c, j) /\ notes'[j] = notes[j] /\ notes[j].tx \in DOMAIN txs
               /\ Answered(j) \/ record_inactive_notification(j)
    <3>1. j \in DOMAIN notes
      BY <2>3, AnsweredIsOld
    <3>2. Charge(c, j) /\ notes'[j] = notes[j] /\ notes[j].tx \in DOMAIN txs
      BY <2>1, <2>3, <3>1, ChargeStays
    <3>3. handlers[j].pc \notin LivePcs
      <4>1. handlers[j].pc \in LivePcs =>
                 accounts[c].active \/ txs[notes[j].tx].purchase <= accounts[c].deletedAt
        BY <3>1, <3>2 DEF EvidenceInv, EvidenceIsOfDeleted, Charge
      <4>2. txs[notes[j].tx].purchase > accounts[c].deletedAt
        BY <3>2 DEF Charge
      <4>3. txs[notes[j].tx].purchase \in 0..MaxTime /\ accounts[c].deletedAt \in 0..MaxTime
        BY <1>0, <3>2 DEF StoreFacts, AccountType
      <4> QED
        BY <1>4, <4>1, <4>2, <4>3
    <3>4. accounts[Owner(notes[j].tx)].uuid = txs[notes[j].tx].token.uuid
      BY <1>4, <3>2 DEF EvidenceInv, OneToken, Charge
    <3> QED
      BY <2>3, <3>1, <3>2, <3>3, <3>4, AnswerSteps
  <2>4. ASSUME NEW t \in DOMAIN txs', LastCharged(c, t)', accounts'[c].bill.tx = accounts[c].bill.tx,
               accounts'[c].bill.type = accounts[c].bill.type
        PROVE  t \in DOMAIN txs /\ LastCharged(c, t)
    <3>1. t # 0
      <4>1. txs' \in Seq(Transactions')
        BY AppleKept DEF AppleFits
      <4> QED
        BY <2>4, <4>1
    <3>2. t \in DOMAIN txs
      BY <2>4, <3>1 DEF LastCharged, EvidenceInv, EvidenceIsOfDeleted
    <3>3. txs'[t].purchase = txs[t].purchase
      BY <3>2, Growth
    <3> QED
      BY <2>1, <2>4, <3>2, <3>3 DEF LastCharged
  <2>5. CASE \A i \in DOMAIN notes : record_inactive_notification(i) => Owner(notes[i].tx) # c
    <3>1. accounts'[c].bill = accounts[c].bill
      <4>1. AccountMoves(c, accounts[c], accounts'[c])
        BY AccountSteps DEF AccountsMove
      <4> QED
        BY <2>5, <4>1 DEF AccountMoves, Serves, Binds, Learns, Tokened, Deletes, Records, SameEvidence
    <3>2. OnRecord(c)' \subseteq Old
      <4>1. ASSUME NEW t \in DOMAIN txs', LastCharged(c, t)' PROVE t \in Old
        BY <2>4, <3>1, <4>1 DEF OnRecord
      <4>2. ASSUME NEW t \in DOMAIN txs', NEW j \in DOMAIN notes', Answered(j)', Charge(c, j)', notes'[j].tx = t
            PROVE  t \in Old
        <5>1. Answered(j)
          BY <2>3, <2>5, <4>2 DEF Charge
        <5> QED
          BY <2>3, <4>2, <5>1 DEF OnRecord
      <4> QED
        BY <4>1, <4>2 DEF OnRecord
    <3>3. Cardinality(OnRecord(c)') <= Cardinality(Old) /\ Cardinality(OnRecord(c)') \in Nat
      BY <1>2, <3>2, FS_Subset, FS_CardinalityType
    <3> HIDE DEF Old
    <3> QED
      BY <1>2, <2>2, <3>1, <3>3
  <2>6. ASSUME NEW i \in DOMAIN notes, record_inactive_notification(i), Owner(notes[i].tx) = c
        PROVE  accounts'[c].bill.charges >= Cardinality(OnRecord(c)')
    <3> DEFINE a == accounts[c]
               x == notes[i].tx
    <3>1. PICK n : n = Recorded(a, i)
      OBVIOUS
    <3>2. /\ txs' = txs /\ notes' = notes /\ accounts' = [accounts EXCEPT ![c].bill = n]
          /\ \A j \in DOMAIN notes : j # i => (Answered(j)' => Answered(j))
      BY <1>0, <2>6, <3>1, RecordActs
    <3>3. a \in AccountType /\ accounts'[c].bill = n /\ x \in DOMAIN txs
      <4>1. a \in AccountType /\ accounts \in [Accounts -> AccountType] /\ x \in DOMAIN txs
        BY <1>0 DEF StoreFacts
      <4>2. accounts'[c] = [a EXCEPT !.bill = n]
        BY <3>2, <4>1
      <4> QED
        BY <4>1, <4>2 DEF AccountType
    <3> HIDE DEF a
    <3>4. \/ Repeated(a, i) /\ n.charges = a.bill.charges /\ n.tx = a.bill.tx /\ n.type = a.bill.type
          \/ /\ ~Repeated(a, i) /\ n.tx = notes[i].tx /\ n.type = <<notes[i].type, notes[i].auto>>
             /\ n.charges = a.bill.charges + IF ChargedAfter(a, i) THEN 1 ELSE 0
      BY <1>0, <3>1, <3>3, RecordedFits
    <3>5. ChargedAfter(a, i) <=> Charge(c, i)
      BY <2>6 DEF ChargedAfter, Charge, Note, a
    <3>6. ASSUME NEW t \in DOMAIN txs', NEW j \in DOMAIN notes', Answered(j)', Charge(c, j)', notes'[j].tx = t
          PROVE  t \in Old \/ (t = x /\ Charge(c, i))
      <4>1. j \in DOMAIN notes /\ Charge(c, j) /\ notes'[j] = notes[j] /\ notes[j].tx \in DOMAIN txs
        BY <2>3, <3>6
      <4>2. CASE j = i
        BY <3>6, <4>1, <4>2
      <4>3. CASE j # i
        <5>1. Answered(j)
          BY <3>2, <3>6, <4>1, <4>3
        <5> QED
          BY <3>6, <4>1, <5>1 DEF OnRecord
      <4> QED
        BY <4>2, <4>3
    <3>7. CASE Repeated(a, i)
      <4>1. Charge(c, i) => x \in Old
        <5> SUFFICES ASSUME Charge(c, i) PROVE x \in Old
          OBVIOUS
        <5>1. LastCharged(c, x)
          <6>1. a.bill.tx = x /\ a.bill.type = <<notes[i].type, notes[i].auto>>
            BY <3>7 DEF Repeated, Note
          <6>2. notes[i].type \in Charges /\ notes[i].auto \in BOOLEAN /\ txs[x].purchase > a.deletedAt
            BY <1>0, <2>6 DEF Charge, StoreFacts, a
          <6> QED
            BY <6>1, <6>2 DEF LastCharged, a
        <5> QED
          BY <3>3, <5>1 DEF OnRecord
      <4>2. ASSUME NEW t \in DOMAIN txs', LastCharged(c, t)' PROVE t \in Old
        <5>1. accounts'[c].bill.tx = accounts[c].bill.tx /\ accounts'[c].bill.type = accounts[c].bill.type
          BY <3>3, <3>4, <3>7 DEF a
        <5> QED
          BY <2>4, <4>2, <5>1 DEF OnRecord
      <4>3. OnRecord(c)' \subseteq Old
        BY <3>6, <4>1, <4>2 DEF OnRecord
      <4>4. Cardinality(OnRecord(c)') <= Cardinality(Old) /\ Cardinality(OnRecord(c)') \in Nat
        BY <1>2, <4>3, FS_Subset, FS_CardinalityType
      <4>5. accounts'[c].bill.charges = accounts[c].bill.charges
        BY <3>3, <3>4, <3>7 DEF a
      <4> HIDE DEF Old
      <4> QED
        BY <1>2, <2>2, <4>4, <4>5
    <3>8. CASE ~Repeated(a, i) /\ Charge(c, i)
      <4>1. ASSUME NEW t \in DOMAIN txs', LastCharged(c, t)' PROVE t = x
        BY <3>3, <3>4, <3>8, <4>1 DEF LastCharged
      <4>2. OnRecord(c)' \subseteq Old \cup {x}
        BY <3>6, <4>1 DEF OnRecord
      <4>3. IsFiniteSet(Old \cup {x}) /\ Cardinality(Old \cup {x}) <= Cardinality(Old) + 1
            /\ Cardinality(Old \cup {x}) \in Nat
        <5> HIDE DEF Old
        <5>1. IsFiniteSet(Old \cup {x}) /\ Cardinality(Old \cup {x}) = IF x \in Old THEN Cardinality(Old) ELSE Cardinality(Old) + 1
          BY <1>2, FS_AddElement
        <5> QED
          BY <1>2, <5>1
      <4>4. Cardinality(OnRecord(c)') <= Cardinality(Old \cup {x}) /\ Cardinality(OnRecord(c)') \in Nat
        BY <4>2, <4>3, FS_Subset, FS_CardinalityType
      <4>5. accounts'[c].bill.charges = accounts[c].bill.charges + 1
        BY <3>3, <3>4, <3>5, <3>8 DEF a
      <4> HIDE DEF Old
      <4> QED
        BY <1>2, <2>2, <4>3, <4>4, <4>5
    <3>9. CASE ~Repeated(a, i) /\ ~Charge(c, i)
      <4>1. ASSUME NEW t \in DOMAIN txs', LastCharged(c, t)' PROVE FALSE
        <5>1. t = x /\ \E type \in Charges, auto \in BOOLEAN : <<type, auto>> = <<notes[i].type, notes[i].auto>>
          BY <3>3, <3>4, <3>9, <4>1 DEF LastCharged
        <5>2. txs[x].purchase > accounts[c].deletedAt
          BY <2>1, <3>2, <4>1, <5>1 DEF LastCharged
        <5> QED
          BY <2>6, <3>9, <5>1, <5>2 DEF Charge
      <4>2. OnRecord(c)' \subseteq Old
        BY <3>6, <3>9, <4>1 DEF OnRecord
      <4>3. Cardinality(OnRecord(c)') <= Cardinality(Old) /\ Cardinality(OnRecord(c)') \in Nat
        BY <1>2, <4>2, FS_Subset, FS_CardinalityType
      <4>4. accounts'[c].bill.charges = accounts[c].bill.charges
        <5>1. n.charges = a.bill.charges + 0
          BY <3>4, <3>5, <3>9
        <5> QED
          BY <1>2, <3>3, <5>1 DEF a
      <4> HIDE DEF Old
      <4> QED
        BY <1>2, <2>2, <4>3, <4>4
    <3> QED
      BY <3>7, <3>8, <3>9
  <2> QED
    BY <2>5, <2>6
<1> QED
  BY <1>3, <1>4

LEMMA EvidenceInit ==
    ASSUME Init, TokensStand
    PROVE  EvidenceInv
<1>0. StoreInv
  BY InitHolds
<1>w. world \in Worlds /\ Unbound \subseteq Accounts
  BY <1>0, WorldFacts DEF StoreInv
<1> DEFINE earlier == [orig |-> CHOOSE x \in Receipts : TRUE, tier |-> CHOOSE x \in Tiers : TRUE,
                       token |-> [acct |-> CHOOSE c \in Unbound : TRUE, uuid |-> 1],
                       purchase |-> 0, expires |-> 2, revoked |-> FALSE]
           ph(a, d) == [acct |-> a, token |-> 0, queue |-> DOMAIN txs, todo |-> d]
<1>1. /\ now = 0 /\ txs = IF Unbound = {} THEN << >> ELSE <<earlier>>
      /\ notes = << >> /\ ensuring = {} /\ accepted = {}
  BY Zenon DEF Init
<1>2. accounts = [c \in Accounts |->
             IF c \in Unbound THEN [NewAccount(c) EXCEPT !.status = "active", !.tier = txs[1].tier, !.expires = 2]
                              ELSE NewAccount(c)]
  BY Zenon DEF Init
<1>3. phone.token = 0
  <2>1. \E a, d : phone = ph(a, d)
    BY Zenon DEF Init
  <2> QED
    BY <2>1
<1>4. \A t \in DOMAIN txs : txs[t].token.uuid = 1
  <2>1. earlier.token.uuid = 1
    OBVIOUS
  <2> HIDE DEF earlier
  <2> QED
    BY <1>1, <2>1
<1> HIDE DEF earlier
<1>5. \A c \in Accounts : /\ accounts[c].active = (c \notin Deleted) /\ accounts[c].bill = NoBilling
                          /\ accounts[c].deletedAt = 0 /\ accounts[c].uuid = IF c \in Untokened THEN 0 ELSE 1
  BY <1>2 DEF NewAccount
<1>6. OneToken
  <2>1. CASE Untokened = {}
    BY <1>1, <1>3, <1>4, <1>5, <2>1 DEF OneToken
  <2>2. CASE Untokened # {}
    BY <1>w, <1>5, <2>2 DEF OneToken, TokensStand, Untokened, Deleted
  <2> QED
    BY <2>1, <2>2
<1>7. EvidenceIsOfDeleted
  BY <1>1, <1>5 DEF EvidenceIsOfDeleted, NoBilling
<1>8. AllOnRecord
  <2> SUFFICES ASSUME NEW c \in Accounts PROVE accounts[c].bill.charges >= Cardinality(OnRecord(c))
    BY DEF AllOnRecord
  <2>1. accounts[c].bill.tx = 0 /\ accounts[c].bill.charges = 0
    BY <1>5 DEF NoBilling
  <2>2. \A t \in DOMAIN txs : t # 0
    BY <1>1
  <2>3. OnRecord(c) = {}
    BY <1>1, <2>1, <2>2 DEF OnRecord, LastCharged
  <2> QED
    BY <2>1, <2>3, FS_EmptySet
<1> QED
  BY <1>6, <1>7, <1>8 DEF EvidenceInv

LEMMA EvidenceSteps ==
    ASSUME StoreInv, TokensStand, EvidenceInv, [Next]_vars
    PROVE  EvidenceInv'
<1>1. CASE Next
  BY <1>1, TokenKept, EvidenceKept, RecordKept DEF EvidenceInv
<1>2. CASE UNCHANGED vars
  <2>1. UNCHANGED <<world, now, txs, notes, accepted, handlers, accounts, phone, ensuring>>
    BY <1>2, Zenon DEF vars, apple, delivery, device
  <2>2. Accounts' = Accounts /\ Untokened' = Untokened
    BY <2>1 DEF Accounts, Untokened
  <2>3. OneToken' /\ EvidenceIsOfDeleted'
    BY <2>1, <2>2 DEF EvidenceInv, OneToken, EvidenceIsOfDeleted, Owner
  <2>4. \A c \in Accounts : OnRecord(c)' = OnRecord(c)
    BY <2>1 DEF OnRecord, LastCharged, Answered, Charge, Owner
  <2>5. AllOnRecord'
    BY <2>1, <2>2, <2>4 DEF EvidenceInv, AllOnRecord
  <2> QED
    BY <2>3, <2>5 DEF EvidenceInv
<1> QED
  BY <1>1, <1>2

\* What was accepted is on record.
LEMMA ChargesCounted ==
    ASSUME StoreInv, EvidenceInv
    PROVE  ChargesAreCounted
<1> SUFFICES ASSUME NEW c \in Accounts PROVE accounts[c].bill.charges >= Cardinality(LateCharges(c))
  BY DEF ChargesAreCounted
<1>0. accounts[c].bill.charges \in Nat
  BY FactsHold DEF StoreFacts, AccountType
<1>1. CASE accounts[c].active
  <2>1. LateCharges(c) = {}
    BY <1>1 DEF LateCharges
  <2> QED
    BY <1>0, <2>1, FS_EmptySet
<1>2. CASE ~accounts[c].active
  <2>1. LateCharges(c) \subseteq OnRecord(c)
    <3>1. ASSUME NEW j \in accepted, Owner(notes[j].tx) = c, ChargedAfter(accounts[c], j)
          PROVE  notes[j].tx \in OnRecord(c)
      <4>1. j \in DOMAIN notes /\ notes[j].tx \in DOMAIN txs
        BY CallTypes, FactsHold DEF StoreFacts
      <4>2. Answered(j) /\ Charge(c, j)
        BY <3>1 DEF Answered, Charge, ChargedAfter, Note
      <4> QED
        BY <4>1, <4>2 DEF OnRecord
    <3> QED
      BY <3>1 DEF LateCharges
  <2>2. Cardinality(LateCharges(c)) <= Cardinality(OnRecord(c)) /\ Cardinality(LateCharges(c)) \in Nat
    BY <2>1, OnRecordFinite, FS_Subset, FS_CardinalityType
  <2>3. accounts[c].bill.charges >= Cardinality(OnRecord(c))
    BY <1>2 DEF EvidenceInv, AllOnRecord
  <2> QED
    BY <1>0, <2>2, <2>3, OnRecordFinite
<1> QED
  BY <1>1, <1>2

-----------------------------------------------------------------------------
(* The theorems.                                                            *)

\* Whatever order the notifications, the verifications and the re-check come in: an account is bound
\* only to a receipt that is claimed for it (claim_transaction of db/contractors.py), its renewal
\* status is the one that Apple signed of that receipt, also in the evidence that is kept of a deleted
\* account, and a transaction that /api/subscription/verify remembers as active had activated the
\* account.
THEOREM ReceiptsAndGrants == Spec => [](TypeOK /\ ReceiptHasOneOwner /\ RenewalStatusIsOfReceipt /\ SeenWasGranted)
<1>1. StoreInv => TypeOK /\ ReceiptHasOneOwner /\ RenewalStatusIsOfReceipt /\ SeenWasGranted
  BY DEF StoreInv
<1> QED
  BY <1>1, StoreInvariant, PTL

\* While an account keeps its receipt its renewal status never goes back to an older one
\* (record_active_renewal_status, and the evidence written by record_inactive_notification).
THEOREM ClockNeverBack == Spec => RenewalClockNeverBack
<1>1. StoreInv /\ [Next]_vars =>
        [\A c \in Accounts :
           /\ accounts'[c].orig = accounts[c].orig /\ accounts[c].orig # None => accounts'[c].clock >= accounts[c].clock
           /\ accounts'[c].bill.orig = accounts[c].bill.orig => accounts'[c].bill.clock >= accounts[c].bill.clock]_vars
  BY ClockStep
<1> QED
  BY <1>1, StoreInvariant, PTL DEF Spec, RenewalClockNeverBack

\* What is on record of a receipt is of that receipt, of one account, and complete: every charge after
\* the deletion of an account that record_inactive_notification accepted is counted once. The account
\* that is deleted has its token since it was created: one for which ensure_subscription_uuid made
\* two would leave charges that name no account.
THEOREM RecordOfReceipt ==
    ASSUME TokensStand
    PROVE  Spec => []RecordIsOfReceipt
<1>1. Init => StoreInv /\ EvidenceInv
  BY InitHolds, EvidenceInit
<1>2. StoreInv /\ EvidenceInv /\ [Next]_vars => StoreInv' /\ EvidenceInv'
  BY StoreSteps, EvidenceSteps
<1>3. StoreInv /\ EvidenceInv => RecordIsOfReceipt
  BY ChargesCounted DEF StoreInv, RecordIsOfReceipt
<1> QED
  BY <1>1, <1>2, <1>3, PTL DEF Spec
=============================================================================
