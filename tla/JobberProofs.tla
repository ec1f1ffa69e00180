------------------------------ MODULE JobberProofs ------------------------------
(***************************************************************************)
(* What the account's run checks of its Jobber connection, proved for      *)
(* every set of contractors, accounts, calls, authorisations, removals and *)
(* recovery passes, every choice of which of them meet, every page size    *)
(* and every bound. A binding changes in nine ways (BindingStep); what a   *)
(* call, an authorisation, a removal and a recovery pass do beside that is *)
(* stated for each of them (CallStep, AuthStep, GivenStep, WorkerStep),    *)
(* and the parts of the invariant JobberInv follow from these.             *)
(***************************************************************************)
EXTENDS Account, FiniteSetTheorems, TLAPS

-----------------------------------------------------------------------------
(* The invariant.                                                          *)

Binders == Jobber!Contractors
Moments == [acct : JobberAccounts \cup {None}, at : Nat \cup {None}]
Contexts == [acct : JobberAccounts \cup {None}, at : Nat]

Bindings ==
    [acct : JobberAccounts \cup {None}, accepted : Nat \cup {None}, processed : Nat, connected : BOOLEAN, capture : BOOLEAN,
     gen : Nat, pair : Nat, claim : {None} \cup Jobber!ClaimRecord, quarantined : BOOLEAN]

UsePlaces == {"load", "preflight", "reload", "acquire", "start", "send", "answered", "refused", "reserve", "begin", "release",
              "renew", "persist", "quarantine", "done"}
FlowPlaces == {"asked", "consumed", "exchange", "rejected", "connect", "done"}
RemovalPlaces == {"normal", "admit", "dispatch", "succeeded", "failed", "unknown", "denied", "finalize", "done"}

\* A run that has not begun, or takes no part.
Outside == [at : {"idle", "away"}]
UseRuns == [at : UsePlaces, c : Binders, gen : Nat, pair : Nat, got : Nat, last : BOOLEAN, ctx : Moments]
FlowRuns == [at : FlowPlaces, c : Binders, gen : Nat, live : BOOLEAN, ctx : Contexts, got : Nat,
             dest : JobberAccounts \cup {None}]
RemovalRuns == [at : RemovalPlaces, c : Binders, gen : Nat, ctx : Moments]
WorkerRuns == [at : {"idle", "query", "page", "failed"}, a : JobberAccounts, level : Nat, left : SUBSET Binders, last : Nat,
               more : BOOLEAN]
WorkRows == [status : {"none", "pending", "processing", "completed", "needs_review"}, lease : {None} \cup DisconnectWorkers,
             live : BOOLEAN, tries : 0 .. MaxJobberAttempts, cursor : Nat]

JobberTypes ==
    /\ counter \in Nat /\ counter <= MaxReceipts
    /\ barrier \in [JobberAccounts -> Nat]
    /\ work \in [JobberAccounts -> WorkRows]
    /\ binding \in [Binders -> Bindings]
    /\ use \in [TokenUses -> Outside \cup UseRuns]
    /\ flow \in [OAuthFlows -> Outside \cup FlowRuns]
    /\ \A f \in OAuthFlows : flow[f].at = "connect" => flow[f].dest \in JobberAccounts
    /\ removal \in [Removals -> Outside \cup RemovalRuns]
    /\ worker \in [DisconnectWorkers -> Outside \cup WorkerRuns]
    /\ outbox \in [Removals -> {"none", "started", "succeeded", "failed", "unknown", "not_attempted"}]
    /\ pairs \in Nat
    /\ \E D \in SUBSET Nat : renewals \in [D -> Nat]
    /\ revoked \subseteq Removals
    /\ consent \in [Binders -> Nat]
    /\ captured \in [Binders -> Moments]
    /\ jobberFaults \in 0 .. MaxJobberFaults

\* Receipts are numbered, and a binding was accepted under a barrier its owner had consented to.
BarriersFit ==
    /\ \A a \in JobberAccounts : barrier[a] <= counter
    /\ \A a \in JobberAccounts : work[a].lease # None <=> work[a].status = "processing"
    /\ \A c \in Binders : binding[c].accepted # None =>
          /\ binding[c].acct # None
          /\ binding[c].accepted <= barrier[binding[c].acct] /\ binding[c].accepted <= consent[c]

CaptureFits == \A c \in Binders : binding[c].capture => captured[c].acct = binding[c].acct

Settled(a, c) ==
    binding[c].acct = a /\ binding[c].accepted # None =>
        binding[c].accepted = barrier[a] \/ binding[c].processed = barrier[a]

\* What the work has passed, and what its lease holder has passed, is settled.
WorkFits ==
    /\ \A a \in JobberAccounts, c \in Binders : work[a].status = "completed" \/ c <= work[a].cursor => Settled(a, c)
    /\ \A w \in DisconnectWorkers :
          worker[w].at \in {"query", "page"} /\ work[worker[w].a].lease = w /\ barrier[worker[w].a] = worker[w].level =>
              \A c \in Binders :
                  IF worker[w].at = "query" THEN c <= worker[w].last => Settled(worker[w].a, c)
                  ELSE c \notin worker[w].left /\ (worker[w].more => c <= worker[w].last) => Settled(worker[w].a, c)

\* A revocation that is on record as not attempted was denied after a receipt, and not sent.
RevocationFits ==
    \A r \in Removals :
        /\ r \in revoked => removal[r].at \in {"succeeded", "failed", "unknown", "finalize", "done"}
        /\ removal[r].at \in {"admit", "dispatch", "denied"} => removal[r].ctx.acct \in JobberAccounts /\ removal[r].ctx.at \in Nat
        /\ outbox[r] = "not_attempted" =>
              /\ removal[r].at = "done" /\ r \notin revoked
              /\ removal[r].ctx.acct \in JobberAccounts /\ removal[r].ctx.at \in Nat
              /\ barrier[removal[r].ctx.acct] > removal[r].ctx.at

\* Pair p was sent to the token endpoint, or is about to be.
Sent(p) == (p \in DOMAIN renewals /\ renewals[p] # 0) \/ \E u \in TokenUses : use[u].at = "renew" /\ use[u].pair = p

\* Who is about to write the pair it was issued.
GotBy(u) == use[u].at = "persist"
BoughtBy(f) == flow[f].at = "connect"

\* A pair is on one binding at most, or still with who asked for it, unsent.
PairsAreUnique ==
    /\ \A c \in Binders : binding[c].pair <= pairs
    /\ \A c, d \in Binders : binding[c].pair = binding[d].pair /\ binding[c].pair # 0 => c = d
    /\ \A u \in TokenUses : GotBy(u) =>
          /\ use[u].got <= pairs /\ use[u].got > 0 /\ ~Sent(use[u].got)
          /\ \A c \in Binders : binding[c].pair # use[u].got
          /\ \A v \in TokenUses : GotBy(v) /\ use[v].got = use[u].got => v = u
          /\ \A f \in OAuthFlows : BoughtBy(f) => flow[f].got # use[u].got
    /\ \A f \in OAuthFlows : BoughtBy(f) =>
          /\ flow[f].got <= pairs /\ flow[f].got > 0 /\ ~Sent(flow[f].got)
          /\ \A c \in Binders : binding[c].pair # flow[f].got
          /\ \A g \in OAuthFlows : BoughtBy(g) /\ flow[g].got = flow[f].got => g = f

Renewing(b) == b.claim # None /\ b.claim.started /\ b.claim.kind = "refresh"

\* No renewal of the binding's pair can begin.
Fenced(b) == b.quarantined \/ Jobber!Suspended(b) \/ Renewing(b)

RenewalsFit ==
    /\ \A p \in DOMAIN renewals : renewals[p] <= 1 /\ (renewals[p] # 0 => p <= pairs)
    /\ \A c \in Binders : binding[c].pair # 0 /\ Sent(binding[c].pair) => Fenced(binding[c])
    /\ \A u \in TokenUses : use[u].at = "renew" =>
          /\ use[u].pair <= pairs
          /\ use[u].pair \in DOMAIN renewals => renewals[use[u].pair] = 0
          /\ \A v \in TokenUses : use[v].at = "renew" /\ use[v].pair = use[u].pair => v = u

\* A claim is of the kind its name says.
Named(k) ==
    /\ \A f \in OAuthFlows : k.id = <<f>> => k.kind = "connect"
    /\ \A u \in TokenUses, kind \in {"business", "refresh"}, last \in BOOLEAN : k.id = <<u, kind, last>> => k.kind = kind

RefreshId(u) == <<u, "refresh", use[u].last>>

\* What a call read of a binding is of the generation it read.
ClaimsFit ==
    /\ \A c \in Binders : binding[c].claim # None => Named(binding[c].claim)
    /\ \A u \in TokenUses : use[u].at \in {"reserve", "begin"} =>
          /\ use[u].gen <= binding[use[u].c].gen
          /\ use[u].gen = binding[use[u].c].gen => use[u].pair = binding[use[u].c].pair
    /\ \A u \in TokenUses : use[u].at = "begin" =>
          LET k == binding[use[u].c].claim IN k # None /\ k.id = RefreshId(u) => k.gen = use[u].gen

JobberParts ==
    /\ BarriersFit /\ CaptureFits /\ WorkFits /\ RevocationFits /\ PairsAreUnique /\ RenewalsFit /\ ClaimsFit

JobberInv == JobberTypes /\ JobberParts

-----------------------------------------------------------------------------
(* The ways a binding changes.                                             *)

SameGrant(b, n) ==
    n.acct = b.acct /\ n.accepted = b.accepted /\ n.processed = b.processed /\ n.pair = b.pair /\ n.gen = b.gen
SameMarks(b, n) == n.capture = b.capture /\ n.quarantined = b.quarantined

\* A claim is given up; one whose renewal was sent never is.
Drops(b, n) == SameGrant(b, n) /\ SameMarks(b, n) /\ n.claim = None /\ ~Renewing(b)
Fails(b, n) == SameGrant(b, n) /\ n.capture = b.capture /\ n.claim = None /\ n.quarantined
Takes(b, n) ==
    /\ SameGrant(b, n) /\ SameMarks(b, n)
    /\ n.claim # None /\ n.claim.gen = b.gen /\ Named(n.claim)
    /\ Renewing(b) => b.quarantined
Marks(b, n) ==
    /\ SameGrant(b, n) /\ SameMarks(b, n)
    /\ b.claim # None /\ n.claim # None
    /\ n.claim.id = b.claim.id /\ n.claim.kind = b.claim.kind /\ n.claim.gen = b.claim.gen
    /\ b.claim.started => n.claim.started
Captures(b, n) == SameGrant(b, n) /\ n.claim = b.claim /\ n.quarantined = b.quarantined
Renews(b, n, p) ==
    /\ n.acct = b.acct /\ n.accepted = b.accepted /\ n.processed = b.processed /\ n.capture = b.capture
    /\ n.pair = p /\ n.gen = b.gen + 1 /\ n.claim = None
Suspends(b, n) ==
    /\ n.acct = b.acct /\ n.accepted = b.accepted /\ n.pair = b.pair
    /\ b.accepted # None /\ n.processed = barrier[b.acct] /\ n.processed # 0
    /\ ~n.capture /\ n.gen = b.gen + 1 /\ n.claim = None
Deletes(b, n) == n.accepted = None /\ n.pair = 0 /\ ~n.capture /\ n.gen = b.gen + 1 /\ n.claim = None
Connects(b, n, p, dest) ==
    /\ n.acct = dest /\ n.accepted = barrier[dest] /\ n.processed = 0
    /\ n.pair = p /\ n.gen = b.gen + 1 /\ n.claim = None
    /\ n.capture => b.capture /\ b.acct = dest

ByUse(k, u) == use[u].at \in {"acquire", "reserve"} /\ k.id = Jobber!ClaimId(u)

HistoryKept(c) == consent'[c] = consent[c] /\ captured'[c] = captured[c]

\* What one step makes of the binding of contractor c.
BindingStep(c) ==
    LET b == binding[c]
        n == binding'[c]
    IN  \/ /\ HistoryKept(c)
           /\ \/ n = b
              \/ Drops(b, n) \/ Fails(b, n) \/ Marks(b, n) \/ Suspends(b, n) \/ Deletes(b, n)
        \/ /\ HistoryKept(c) /\ Takes(b, n)
           /\ (\E f \in OAuthFlows : n.claim.id = <<f>>) \/ \E u \in TokenUses : ByUse(n.claim, u)
        \/ consent'[c] = consent[c] /\ Captures(b, n) /\ (n.capture => captured'[c].acct = n.acct)
        \/ HistoryKept(c)
           /\ \E u \in TokenUses : GotBy(u) /\ use'[u].at # "persist" /\ use[u].c = c /\ Renews(b, n, use[u].got)
        \/ captured'[c] = captured[c]
           /\ \E f \in OAuthFlows : 
                /\ BoughtBy(f) /\ flow'[f].at # "connect" /\ flow[f].c = c
                /\ flow[f].dest \in JobberAccounts /\ Connects(b, n, flow[f].got, flow[f].dest)
                /\ barrier[flow[f].dest] <= consent'[c]

LEMMA JobberConstants ==
    /\ JobberContractors \in Nat /\ PageSize \in Nat \ {0} /\ MaxJobberAttempts \in Nat \ {0}
    /\ MaxReceipts \in Nat /\ MaxJobberFaults \in Nat
    /\ None \notin JobberAccounts /\ None \notin DisconnectWorkers /\ None \notin Jobber!ClaimRecord
    /\ BoundTo \in [Binders -> JobberAccounts \cup {None}]
    /\ Binders = 1 .. JobberContractors
    BY AccountAssumption DEF Jobber!JobberAssumption, Binders, Jobber!Contractors

ClaimNames == {<<f>> : f \in OAuthFlows} \cup (TokenUses \X {"business", "refresh"} \X BOOLEAN)
ClaimFields == [id : ClaimNames, kind : {"business", "refresh", "connect"}, started : BOOLEAN, live : BOOLEAN, gen : Nat, ctx : Contexts]

LEMMA ClaimRecordIs == Jobber!ClaimRecord = ClaimFields
    BY DEF Jobber!ClaimRecord, ClaimFields, ClaimNames, Contexts

\* Names of claims: an authorisation's is of its own, a call's says who and what for.
LEMMA NamesApart ==
    ASSUME NEW f, NEW u, NEW v, NEW kind, NEW other, NEW last, NEW final
    PROVE  /\ <<f>> # <<u, kind, last>>
           /\ <<u, kind, last>> = <<v, other, final>> <=> u = v /\ kind = other /\ last = final
    OBVIOUS

LEMMA UnclaimedIs ==
    ASSUME NEW b \in Bindings
    PROVE  /\ Jobber!Unclaimed(b) \in Bindings
           /\ ~Renewing(b) => Drops(b, Jobber!Unclaimed(b))
           /\ Jobber!Quarantined(b) \in Bindings
           /\ Fails(b, Jobber!Quarantined(b))
    BY DEF Bindings, Jobber!Unclaimed, Jobber!Quarantined, Drops, Fails, SameGrant, SameMarks

LEMMA NewClaimIs ==
    ASSUME NEW b \in Bindings, NEW id \in ClaimNames,
           NEW kind \in {"business", "refresh", "connect"}, NEW ctx \in Contexts,
           NEW n, n = Jobber!NewClaim(b, id, kind, ctx)
    PROVE  /\ n \in Bindings /\ SameGrant(b, n) /\ SameMarks(b, n)
           /\ n.claim # None /\ n.claim.id = id /\ n.claim.kind = kind /\ n.claim.gen = b.gen /\ ~n.claim.started
<1> DEFINE k == [id |-> id, kind |-> kind, started |-> FALSE, live |-> TRUE, gen |-> b.gen, ctx |-> ctx]
<1>1. k \in ClaimFields
    BY DEF ClaimFields, Bindings
<1>2. k # None /\ k \in Jobber!ClaimRecord
    BY <1>1, ClaimRecordIs, JobberConstants
<1>3. k.id = id /\ k.kind = kind /\ k.gen = b.gen /\ ~k.started
    OBVIOUS
<1>4. Jobber!NewClaim(b, id, kind, ctx) = [b EXCEPT !.claim = k]
    BY DEF Jobber!NewClaim
<1> HIDE DEF k
<1>. QED  BY <1>2, <1>3, <1>4 DEF Bindings, SameGrant, SameMarks

Expired(b) == [b EXCEPT !.claim.live = FALSE]
Captured(b, on) == [b EXCEPT !.capture = on]
Connected(b, p, dest) ==
    [Jobber!Renewed(b, p) EXCEPT !.acct = dest, !.accepted = barrier[dest], !.processed = 0, !.capture = Jobber!KeepsCapture(b, dest)]

LEMMA BegunIs ==
    ASSUME NEW b \in Bindings, b.claim # None
    PROVE  /\ Jobber!Begun(b) \in Bindings /\ Marks(b, Jobber!Begun(b))
           /\ Jobber!Begun(b).claim.started
           /\ Expired(b) \in Bindings /\ Marks(b, Expired(b))
<1> DEFINE k == [b.claim EXCEPT !.started = TRUE, !.live = TRUE]
           l == [b.claim EXCEPT !.live = FALSE]
<1>0. b.claim \in ClaimFields
    BY ClaimRecordIs DEF Bindings
<1>1. k \in ClaimFields /\ l \in ClaimFields
    BY <1>0 DEF ClaimFields
<1>2. k # None /\ k \in Jobber!ClaimRecord /\ l # None /\ l \in Jobber!ClaimRecord
    BY <1>1, ClaimRecordIs, JobberConstants
<1>3. /\ k.id = b.claim.id /\ k.kind = b.claim.kind /\ k.gen = b.claim.gen /\ k.started
      /\ l.id = b.claim.id /\ l.kind = b.claim.kind /\ l.gen = b.claim.gen /\ l.started = b.claim.started
    BY <1>0 DEF ClaimFields
<1>4. Jobber!Begun(b) = [b EXCEPT !.claim = k] /\ Expired(b) = [b EXCEPT !.claim = l]
    <2>1. b = [acct |-> b.acct, accepted |-> b.accepted, processed |-> b.processed, connected |-> b.connected,
               capture |-> b.capture, gen |-> b.gen, pair |-> b.pair, claim |-> b.claim, quarantined |-> b.quarantined]
        BY DEF Bindings
    <2>. QED  BY <2>1 DEF Jobber!Begun, Expired
<1> HIDE DEF k, l
<1>. QED  BY <1>2, <1>3, <1>4 DEF Bindings, SameGrant, SameMarks, Marks

LEMMA RenewedIs ==
    ASSUME NEW b \in Bindings, NEW p \in Nat
    PROVE  /\ Jobber!Renewed(b, p) \in Bindings /\ Renews(b, Jobber!Renewed(b, p), p)
           /\ Jobber!Renewed(b, p).acct = b.acct
<1>1. b.gen + 1 \in Nat
    BY DEF Bindings
<1> DEFINE g == b.gen + 1
<1>2. g \in Nat /\ Jobber!Renewed(b, p) = [b EXCEPT !.pair = p, !.connected = TRUE, !.gen = g, !.claim = None, !.quarantined = FALSE]
    BY <1>1 DEF Jobber!Renewed
<1>3. ASSUME NEW n, n = Jobber!Renewed(b, p) PROVE n.gen = g => Renews(b, n, p) <=> /\ n.acct = b.acct /\ n.accepted = b.accepted /\ n.processed = b.processed /\ n.capture = b.capture
    /\ n.pair = p /\ n.claim = None
    BY DEF Renews
<1> HIDE DEF g
<1>. QED  BY <1>2, <1>3 DEF Bindings

LEMMA SuspendIs ==
    ASSUME NEW b \in Bindings, b.acct \in JobberAccounts, barrier \in [JobberAccounts -> Nat], b.accepted # None, barrier[b.acct] # 0
    PROVE  Jobber!Suspend(b) \in Bindings /\ Suspends(b, Jobber!Suspend(b))
<1>1. b.gen + 1 \in Nat
    BY DEF Bindings
<1> DEFINE g == b.gen + 1
           l == barrier[b.acct]
<1>2. g \in Nat /\ l \in Nat /\ Jobber!Suspend(b) = [b EXCEPT !.processed = l, !.connected = FALSE, !.capture = FALSE, !.gen = g,
              !.claim = None, !.quarantined = FALSE]
    BY <1>1 DEF Jobber!Suspend
<1>3. ASSUME NEW n PROVE n.gen = g /\ n.processed = l => (Suspends(b, n) <=>
    /\ n.acct = b.acct /\ n.accepted = b.accepted /\ n.pair = b.pair
    /\ ~n.capture /\ n.claim = None)
    BY DEF Suspends
<1> HIDE DEF g, l
<1>. QED  BY <1>2, <1>3 DEF Bindings

LEMMA DeletedIs ==
    ASSUME NEW b \in Bindings
    PROVE  /\ Jobber!Deleted(b) \in Bindings /\ Deletes(b, Jobber!Deleted(b))
           /\ Jobber!Disconnected(b) \in Bindings /\ Deletes(b, Jobber!Disconnected(b))
<1>1. b.gen + 1 \in Nat /\ b.acct \in JobberAccounts \cup {None}
    BY DEF Bindings
<1> DEFINE g == b.gen + 1
           blank == Jobber!NoBinding
<1>2. blank \in Bindings /\ blank.accepted = None /\ blank.pair = 0 /\ ~blank.capture /\ blank.claim = None
    BY DEF Jobber!NoBinding, Bindings
<1>3. g \in Nat /\ Jobber!Deleted(b) = [blank EXCEPT !.gen = g] /\ Jobber!Disconnected(b) = [Jobber!Deleted(b) EXCEPT !.acct = b.acct]
    BY <1>1 DEF Jobber!Deleted, Jobber!Disconnected
<1>4. ASSUME NEW n PROVE n.gen = g => (Deletes(b, n) <=> n.accepted = None /\ n.pair = 0 /\ ~n.capture /\ n.claim = None)
    BY DEF Deletes
<1> HIDE DEF g, blank
<1>. QED  BY <1>1, <1>2, <1>3, <1>4 DEF Bindings

LEMMA CapturesIs ==
    ASSUME NEW b \in Bindings, NEW on \in BOOLEAN, NEW n, n = Captured(b, on)
    PROVE  n \in Bindings /\ Captures(b, n) /\ n.capture = on
    BY DEF Bindings, Captures, Captured, SameGrant

LEMMA ConnectsIs ==
    ASSUME NEW b \in Bindings, NEW p \in Nat, NEW dest \in JobberAccounts, barrier \in [JobberAccounts -> Nat],
           NEW n, n = Connected(b, p, dest)
    PROVE  n \in Bindings /\ Connects(b, n, p, dest)
<1> DEFINE m == Jobber!Renewed(b, p)
           l == barrier[dest]
           keeps == Jobber!KeepsCapture(b, dest)
<1>1. m \in Bindings /\ Renews(b, m, p) /\ l \in Nat
    BY RenewedIs
<1>2. keeps \in BOOLEAN /\ (keeps => b.capture /\ b.acct = dest)
    BY DEF Jobber!KeepsCapture, Jobber!Suspended, Jobber!Stale, Bindings
<1>3. m.gen = b.gen + 1 /\ m.pair = p /\ m.claim = None
    BY <1>1 DEF Renews
<1>7. n = [m EXCEPT !.acct = dest, !.accepted = l, !.processed = 0, !.capture = keeps]
    BY DEF Connected
<1> HIDE DEF m, l, keeps
<1>4. n \in Bindings
    <2>1. [m EXCEPT !.acct = dest, !.accepted = l, !.processed = 0, !.capture = keeps] \in Bindings
        BY <1>1, <1>2 DEF Bindings
    <2>. QED  BY <2>1, <1>7
<1>5. n.acct = dest /\ n.accepted = l /\ n.processed = 0 /\ n.capture = keeps /\ n.gen = m.gen /\ n.pair = m.pair /\ n.claim = m.claim
    BY <1>1, <1>7 DEF Bindings
<1>6. Connects(b, n, p, dest)
    BY <1>5, <1>3, <1>2 DEF Connects, l
<1>. QED  BY <1>4, <1>6

\* What every step does to the bindings.
BindingsStep == binding' \in [Binders -> Bindings] /\ \A c \in Binders : BindingStep(c)

LEMMA BindingsKept ==
    ASSUME binding \in [Binders -> Bindings], UNCHANGED <<binding, consent, captured>>
    PROVE  BindingsStep
    BY DEF BindingsStep, BindingStep, HistoryKept

LEMMA BindingMoved ==
    ASSUME binding \in [Binders -> Bindings], UNCHANGED <<consent, captured>>,
           NEW c \in Binders, NEW n \in Bindings, binding' = [binding EXCEPT ![c] = n],
           \/ n = binding[c]
           \/ Drops(binding[c], n) \/ Fails(binding[c], n) \/ Marks(binding[c], n)
           \/ Suspends(binding[c], n) \/ Deletes(binding[c], n)
    PROVE  BindingsStep
    BY DEF BindingsStep, BindingStep, HistoryKept

LEMMA BindingTaken ==
    ASSUME binding \in [Binders -> Bindings], UNCHANGED <<consent, captured>>,
           NEW c \in Binders, NEW n \in Bindings, binding' = [binding EXCEPT ![c] = n], Takes(binding[c], n),
           (\E f \in OAuthFlows : n.claim.id = <<f>>) \/ \E u \in TokenUses : ByUse(n.claim, u)
    PROVE  BindingsStep
<1>1. binding'[c] = n /\ \A d \in Binders \ {c} : binding'[d] = binding[d]
    OBVIOUS
<1>2. BindingStep(c)
    BY <1>1 DEF BindingStep, HistoryKept
<1>3. \A d \in Binders \ {c} : BindingStep(d)
    BY <1>1 DEF BindingStep, HistoryKept
<1>. QED  BY <1>2, <1>3 DEF BindingsStep

USE DEF Outside

LEMMA UseFields ==
    ASSUME JobberTypes, NEW u \in TokenUses, use[u].at \notin {"idle", "away"}
    PROVE  /\ use[u] \in UseRuns /\ use[u].c \in Binders /\ binding[use[u].c] \in Bindings
           /\ use[u].last \in BOOLEAN /\ use[u].at \in UsePlaces
           /\ use[u].got \in Nat /\ use[u].pair \in Nat /\ use[u].gen \in Nat
<1>1. use[u] \in Outside \cup UseRuns
    BY DEF JobberTypes
<1>2. use[u] \notin Outside
    OBVIOUS
<1>3. use[u] \in UseRuns
    BY <1>1, <1>2
<1> HIDE DEF Outside
<1>4. use[u].c \in Binders /\ use[u].last \in BOOLEAN /\ use[u].at \in UsePlaces
           /\ use[u].got \in Nat /\ use[u].pair \in Nat /\ use[u].gen \in Nat
    BY <1>3 DEF UseRuns
<1>5. binding[use[u].c] \in Bindings
    BY <1>4 DEF JobberTypes
<1>. QED  BY <1>3, <1>4, <1>5

LEMMA FlowFields ==
    ASSUME JobberTypes, NEW f \in OAuthFlows, flow[f].at \notin {"idle", "away"}
    PROVE  /\ flow[f] \in FlowRuns /\ flow[f].c \in Binders /\ binding[flow[f].c] \in Bindings
           /\ flow[f].ctx \in Contexts /\ flow[f].at \in FlowPlaces
           /\ flow[f].got \in Nat /\ flow[f].gen \in Nat /\ flow[f].dest \in JobberAccounts \cup {None}
<1>1. flow[f] \in Outside \cup FlowRuns
    BY DEF JobberTypes
<1>2. flow[f] \notin Outside
    OBVIOUS
<1>3. flow[f] \in FlowRuns
    BY <1>1, <1>2
<1> HIDE DEF Outside
<1>4. flow[f].c \in Binders /\ flow[f].ctx \in Contexts /\ flow[f].at \in FlowPlaces
           /\ flow[f].got \in Nat /\ flow[f].gen \in Nat /\ flow[f].dest \in JobberAccounts \cup {None}
    BY <1>3 DEF FlowRuns
<1>5. binding[flow[f].c] \in Bindings
    BY <1>4 DEF JobberTypes
<1>. QED  BY <1>3, <1>4, <1>5

LEMMA RemovalFields ==
    ASSUME JobberTypes, NEW r \in Removals, removal[r].at \notin {"idle", "away"}
    PROVE  /\ removal[r] \in RemovalRuns /\ removal[r].c \in Binders /\ binding[removal[r].c] \in Bindings
           /\ removal[r].at \in RemovalPlaces
<1>1. removal[r] \in Outside \cup RemovalRuns
    BY DEF JobberTypes
<1>2. removal[r] \notin Outside
    OBVIOUS
<1>3. removal[r] \in RemovalRuns
    BY <1>1, <1>2
<1> HIDE DEF Outside
<1>4. removal[r].c \in Binders /\ removal[r].at \in RemovalPlaces
    BY <1>3 DEF RemovalRuns
<1>5. binding[removal[r].c] \in Bindings
    BY <1>4 DEF JobberTypes
<1>. QED  BY <1>3, <1>4, <1>5

LEMMA WorkerFields ==
    ASSUME JobberTypes, NEW w \in DisconnectWorkers, worker[w].at \notin {"idle", "away"}
    PROVE  /\ worker[w] \in WorkerRuns /\ worker[w].a \in JobberAccounts /\ worker[w].left \subseteq Binders
           /\ worker[w].last \in Nat /\ worker[w].level \in Nat /\ worker[w].more \in BOOLEAN
           /\ worker[w].at \in {"query", "page", "failed"}
<1>1. worker[w] \in Outside \cup WorkerRuns
    BY DEF JobberTypes
<1>2. worker[w] \notin Outside
    OBVIOUS
<1>3. worker[w] \in WorkerRuns
    BY <1>1, <1>2
<1> HIDE DEF Outside
<1>. QED  BY <1>3 DEF WorkerRuns

HIDE DEF Outside

\* What a transaction that finds a binding open knows of it.
LEMMA BindingReads ==
    ASSUME NEW b \in Bindings, b.accepted # None => b.acct # None
    PROVE  /\ Jobber!Context(b) \in Moments
           /\ Jobber!Admitted(b) => Jobber!Context(b) \in Contexts /\ b.acct \in JobberAccounts /\ b.accepted \in Nat
           /\ Jobber!Context(b) = [acct |-> b.acct, at |-> b.accepted]
           /\ Jobber!Ready(b) => ~b.quarantined /\ b.claim = None /\ b.pair # 0 /\ Jobber!Admitted(b)
           /\ b.accepted # None => b.acct \in JobberAccounts /\ b.accepted \in Nat
    BY DEF Bindings, Jobber!Context, Moments, Contexts, Jobber!Admitted, Jobber!Ready, Jobber!HasPair

LEMMA AcceptedHasAccount ==
    ASSUME BarriersFit, NEW c \in Binders
    PROVE  binding[c].accepted # None => binding[c].acct # None
    BY DEF BarriersFit

\* The steps of a call, in what they write.
UsesTyped == use' \in [TokenUses -> Outside \cup UseRuns]

LEMMA UseWritten ==
    ASSUME use \in [TokenUses -> Outside \cup UseRuns], NEW u \in TokenUses, NEW r \in UseRuns, use' = [use EXCEPT ![u] = r]
    PROVE  UsesTyped /\ use'[u] = r /\ \A v \in TokenUses \ {u} : use'[v] = use[v]
    BY DEF UsesTyped

LEMMA UseGone ==
    ASSUME JobberTypes, NEW u \in TokenUses, use[u].at \notin {"idle", "away"}, NEW to \in UsePlaces, Jobber!UseGoes(u, to)
    PROVE  /\ UsesTyped
           /\ use'[u].at = to /\ use'[u].c = use[u].c /\ use'[u].gen = use[u].gen /\ use'[u].pair = use[u].pair
           /\ use'[u].got = use[u].got /\ use'[u].last = use[u].last /\ use'[u].ctx = use[u].ctx
           /\ \A v \in TokenUses \ {u} : use'[v] = use[v]
<1>1. use[u] \in UseRuns /\ use \in [TokenUses -> Outside \cup UseRuns]
    BY UseFields DEF JobberTypes
<1> DEFINE r == [use[u] EXCEPT !.at = to]
<1>2. /\ r \in UseRuns
      /\ r.at = to /\ r.c = use[u].c /\ r.gen = use[u].gen /\ r.pair = use[u].pair
      /\ r.got = use[u].got /\ r.last = use[u].last /\ r.ctx = use[u].ctx
    BY <1>1 DEF UseRuns
<1>3. use' = [use EXCEPT ![u] = r]
    BY <1>1 DEF Jobber!UseGoes
<1> HIDE DEF r
<1>. QED  BY <1>1, <1>2, <1>3, UseWritten

LEMMA FaultsCharged ==
    ASSUME jobberFaults \in 0 .. MaxJobberFaults, NEW step, NEW heard, NEW lost, heard # lost,
           step \in Jobber!Reported(heard, lost), Jobber!Charged(step, lost)
    PROVE  jobberFaults' \in 0 .. MaxJobberFaults /\ step \in {heard, lost}
    BY JobberConstants DEF Jobber!Reported, Jobber!Charged

LEMMA FaultAdded ==
    ASSUME jobberFaults \in 0 .. MaxJobberFaults, jobberFaults < MaxJobberFaults
    PROVE  jobberFaults + 1 \in 0 .. MaxJobberFaults
    BY JobberConstants

Snapped(b, r, to) == [Jobber!Snapshot(b, r) EXCEPT !.at = to]

LEMMA SnapshotIs ==
    ASSUME NEW r \in UseRuns, NEW b \in Bindings, NEW to \in UsePlaces, NEW s, s = Snapped(b, r, to)
    PROVE  /\ s \in UseRuns
           /\ s.at = to /\ s.c = r.c /\ s.gen = b.gen /\ s.pair = b.pair /\ s.last = r.last /\ s.got = r.got
<1> DEFINE ctx == Jobber!Context(b)
<1>1. ctx \in Moments
    BY DEF Bindings, Jobber!Context, Moments
<1>2. s = [r EXCEPT !.gen = b.gen, !.pair = b.pair, !.ctx = ctx, !.at = to]
    BY DEF Snapped, Jobber!Snapshot, UseRuns
<1> HIDE DEF ctx
<1>. QED  BY <1>1, <1>2 DEF UseRuns, Bindings

\* What a step of call u may make of it, for the steps that lead to a renewal.
UseMove(u) ==
    LET r == use[u]
        s == use'[u]
        b == binding[r.c]
        n == binding'[r.c]
    IN  /\ s.at = "reserve" => s.c \in Binders /\ s.gen = binding'[s.c].gen /\ s.pair = binding'[s.c].pair
        /\ s.at = "begin" =>
              /\ r.at = "reserve" /\ s.c = r.c /\ s.gen = r.gen /\ s.pair = r.pair /\ s.last = r.last
              /\ b.gen = r.gen /\ n.claim.gen = b.gen
        /\ s.at = "renew" =>
              /\ r.at = "begin" /\ s.c = r.c /\ s.pair = r.pair /\ r.gen = b.gen /\ n.pair = b.pair
              /\ Jobber!HasPair(b) /\ ~Jobber!Suspended(b) /\ ~Renewing(b) /\ Renewing(n)
        /\ s.at = "persist" => r.at = "renew" /\ s.got = pairs + 1 /\ pairs' = pairs + 1
        /\ r.at # "renew" => UNCHANGED <<pairs, renewals>>

OthersUse(u) == \A v \in TokenUses \ {u} : use'[v] = use[v]

CallStep(u) ==
    /\ BindingsStep /\ UsesTyped /\ jobberFaults' \in 0 .. MaxJobberFaults
    /\ OthersUse(u) /\ UseMove(u)

LEMMA CallBeginsMoves ==
    ASSUME JobberTypes, NEW u \in TokenUses, NEW c \in Binders, Jobber!CallBegins(u, c)
    PROVE  CallStep(u)
<1> DEFINE r == [at |-> "load", c |-> c, gen |-> 0, pair |-> 0, got |-> 0, last |-> FALSE, ctx |-> [acct |-> None, at |-> 0]]
<1>1. r \in UseRuns /\ r.at = "load"
    BY DEF UseRuns, UsePlaces, Moments
<1>2. use' = [use EXCEPT ![u] = r]
    BY DEF Jobber!CallBegins
<1> HIDE DEF r
<1>3. UsesTyped /\ use'[u] = r /\ OthersUse(u)
    BY <1>1, <1>2, UseWritten DEF JobberTypes, OthersUse
<1>. QED  BY <1>1, <1>3, BindingsKept DEF CallStep, UseMove, JobberTypes, Jobber!CallBegins, Jobber!UseFrame, Jobber!history

LEMMA LoadMoves ==
    ASSUME JobberTypes, NEW u \in TokenUses, Jobber!LoadSnapshot(u)
    PROVE  CallStep(u)
<1>0. use[u].at = "load" /\ UNCHANGED <<binding, consent, captured, pairs, renewals, jobberFaults>>
    BY DEF Jobber!LoadSnapshot, Jobber!UseFrame, Jobber!history
<1>1. use[u] \in UseRuns /\ binding[use[u].c] \in Bindings
    BY <1>0, UseFields
<1>2. UsesTyped /\ OthersUse(u) /\ use'[u].at \notin {"reserve", "begin", "renew", "persist"}
    <2>1. CASE \E at \in {"acquire", "preflight"} : use' = [use EXCEPT ![u] = [Jobber!Snapshot(binding[use[u].c], @) EXCEPT !.at = at]]
        <3>1. PICK at \in {"acquire", "preflight"} : use' = [use EXCEPT ![u] = [Jobber!Snapshot(binding[use[u].c], @) EXCEPT !.at = at]]
            BY <2>1
        <3> DEFINE s == [Jobber!Snapshot(binding[use[u].c], use[u]) EXCEPT !.at = at]
        <3>2. s \in UseRuns /\ s.at = at
            <4>1. s = Snapped(binding[use[u].c], use[u], at) /\ at \in UsePlaces
                BY DEF Snapped, UsePlaces
            <4> HIDE DEF s
            <4>. QED  BY <1>1, <4>1, SnapshotIs
        <3>3. use' = [use EXCEPT ![u] = s]
            BY <3>1 DEF JobberTypes
        <3> HIDE DEF s
        <3>. QED  BY <3>2, <3>3, UseWritten DEF JobberTypes, OthersUse
    <2>2. CASE \E at \in {"done", "preflight"} : Jobber!UseGoes(u, at)
        BY <2>2, <1>0, UseGone DEF OthersUse, UsePlaces
    <2>. QED  BY <2>1, <2>2 DEF Jobber!LoadSnapshot
<1>. QED  BY <1>0, <1>2, BindingsKept DEF CallStep, UseMove, JobberTypes

LEMMA PreflightMoves ==
    ASSUME JobberTypes, NEW u \in TokenUses, Jobber!Preflight(u)
    PROVE  CallStep(u)
<1> DEFINE b == binding[use[u].c]
<1>0. use[u].at = "preflight" /\ UNCHANGED <<consent, captured, pairs, renewals, jobberFaults>>
    BY DEF Jobber!Preflight, Jobber!UseFrame, Jobber!history
<1>1. use[u] \in UseRuns /\ b \in Bindings /\ use[u].c \in Binders
    BY <1>0, UseFields
<1>2. UsesTyped /\ OthersUse(u) /\ use'[u].at \in {"done", "reload"}
    BY <1>0, UseGone DEF Jobber!Preflight, OthersUse, UsePlaces
<1>3. BindingsStep
    <2>1. CASE UNCHANGED binding
        BY <2>1, <1>0, BindingsKept DEF JobberTypes
    <2>2. CASE binding' = [binding EXCEPT ![use[u].c] = Jobber!Quarantined(b)]
        BY <2>2, <1>0, <1>1, UnclaimedIs, BindingMoved DEF JobberTypes
    <2>3. CASE ~Renewing(b) /\ binding' = [binding EXCEPT ![use[u].c] = Jobber!Unclaimed(b)]
        BY <2>3, <1>0, <1>1, UnclaimedIs, BindingMoved DEF JobberTypes
    <2>. QED  BY <2>1, <2>2, <2>3 DEF Jobber!Preflight, Renewing
<1>. QED  BY <1>0, <1>2, <1>3 DEF CallStep, UseMove, JobberTypes

LEMMA ReloadMoves ==
    ASSUME JobberTypes, NEW u \in TokenUses, Jobber!Reload(u)
    PROVE  CallStep(u)
<1> DEFINE b == binding[use[u].c]
           k == [use[u] EXCEPT !.at = "load", !.last = TRUE]
           s == [Jobber!Snapshot(b, use[u]) EXCEPT !.at = "reserve"]
<1>0. use[u].at = "reload" /\ UNCHANGED <<binding, consent, captured, pairs, renewals, jobberFaults>>
    BY DEF Jobber!Reload, Jobber!UseFrame, Jobber!history
<1>1. use[u] \in UseRuns /\ b \in Bindings /\ use[u].c \in Binders
    BY <1>0, UseFields
<1>2. k \in UseRuns /\ k.at = "load"
    BY <1>1 DEF UseRuns, UsePlaces
<1>3. s \in UseRuns /\ s.at = "reserve" /\ s.c = use[u].c /\ s.gen = b.gen /\ s.pair = b.pair
    <2>1. "reserve" \in UsePlaces
        BY DEF UsePlaces
    <2>2. s = Snapped(b, use[u], "reserve")
        BY DEF Snapped
    <2> HIDE DEF s, b
    <2>. QED  BY <1>1, <2>1, <2>2, SnapshotIs
<1>4. Jobber!UseGoes(u, "done") \/ use' = [use EXCEPT ![u] = k] \/ use' = [use EXCEPT ![u] = s]
    BY DEF Jobber!Reload, JobberTypes
<1> HIDE DEF s, k
<1>5. UsesTyped /\ OthersUse(u) /\ (use'[u].at \in {"done", "load"} \/ use'[u] = s)
    <2>1. CASE Jobber!UseGoes(u, "done")
        BY <2>1, <1>0, UseGone DEF OthersUse, UsePlaces
    <2>2. CASE use' = [use EXCEPT ![u] = k]
        BY <2>2, <1>2, UseWritten DEF JobberTypes, OthersUse
    <2>3. CASE use' = [use EXCEPT ![u] = s]
        BY <2>3, <1>3, UseWritten DEF JobberTypes, OthersUse
    <2>. QED  BY <1>4, <2>1, <2>2, <2>3
<1>6. UseMove(u)
    BY <1>0, <1>5, <1>3, <1>1 DEF UseMove
<1>. QED  BY <1>0, <1>5, <1>6, BindingsKept DEF CallStep, JobberTypes

LEMMA AcquireMoves ==
    ASSUME JobberTypes, BarriersFit, NEW u \in TokenUses, Jobber!Acquire(u)
    PROVE  CallStep(u)
<1> DEFINE b == binding[use[u].c]
           next == IF use[u].at = "acquire" THEN "start" ELSE "begin"
           id == Jobber!ClaimId(u)
           kind == Jobber!UseKind(u)
           n == Jobber!NewClaim(b, id, kind, Jobber!Context(b))
<1>0. use[u].at \in {"acquire", "reserve"} /\ UNCHANGED <<consent, captured, pairs, renewals>>
    BY DEF Jobber!Acquire, Jobber!UseFrame, Jobber!history
<1>1. use[u] \in UseRuns /\ b \in Bindings /\ use[u].c \in Binders /\ use[u].last \in BOOLEAN /\ binding \in [Binders -> Bindings]
    BY <1>0, UseFields DEF JobberTypes
<1>2. next \in {"start", "begin"} /\ (next = "begin" => use[u].at = "reserve") /\ next # "done"
    BY <1>0
<1>3. /\ id \in ClaimNames
      /\ kind \in {"business", "refresh"} /\ id = <<u, kind, use[u].last>>
    BY <1>1 DEF Jobber!ClaimId, Jobber!UseKind, ClaimNames
<1>4. CASE Jobber!UseGoes(u, "done") /\ UNCHANGED <<binding, jobberFaults>>
    <2>1. UsesTyped /\ OthersUse(u) /\ use'[u].at = "done"
        BY <1>4, <1>0, UseGone DEF OthersUse, UsePlaces
    <2>. QED  BY <1>0, <2>1, <1>4, BindingsKept DEF CallStep, UseMove, JobberTypes
<1>5. CASE /\ Jobber!UseGoes(u, "done") /\ UNCHANGED jobberFaults
           /\ binding' = [binding EXCEPT ![use[u].c] = Jobber!Quarantined(b)]
    <2>1. UsesTyped /\ OthersUse(u) /\ use'[u].at = "done"
        BY <1>5, <1>0, UseGone DEF OthersUse, UsePlaces
    <2>2. BindingsStep
        BY <1>5, <1>0, <1>1, UnclaimedIs, BindingMoved
    <2>. QED  BY <1>0, <2>1, <2>2, <1>5 DEF CallStep, UseMove, JobberTypes
<1>6. CASE /\ Jobber!Admitted(b) /\ use[u].gen = b.gen /\ (b.claim = None \/ Jobber!MayTake(b))
           /\ binding' = [binding EXCEPT ![use[u].c] = n]
           /\ \E at \in Jobber!Reported(next, "done") : Jobber!UseGoes(u, at) /\ Jobber!Charged(at, "done")
    <2>1. PICK at \in Jobber!Reported(next, "done") : Jobber!UseGoes(u, at) /\ Jobber!Charged(at, "done")
        BY <1>6
    <2>2. at \in {next, "done"} /\ jobberFaults' \in 0 .. MaxJobberFaults
        BY <2>1, <1>2, FaultsCharged DEF JobberTypes
    <2>3. at \in UsePlaces
        BY <2>2, <1>2 DEF UsePlaces
    <2>4. UsesTyped /\ OthersUse(u) /\ use'[u].at = at /\ use'[u].c = use[u].c /\ use'[u].gen = use[u].gen
          /\ use'[u].pair = use[u].pair /\ use'[u].last = use[u].last
        BY <2>1, <2>3, <1>0, UseGone DEF OthersUse
    <2>5. Jobber!Context(b) \in Contexts
        BY <1>6, <1>1, BindingReads, AcceptedHasAccount
    <2>6. /\ n \in Bindings /\ SameGrant(b, n) /\ SameMarks(b, n)
          /\ n.claim # None /\ n.claim.id = id /\ n.claim.kind = kind /\ n.claim.gen = b.gen
        <3>1. b \in Bindings /\ id \in ClaimNames /\ kind \in {"business", "refresh", "connect"} /\ Jobber!Context(b) \in Contexts
            BY <2>5, <1>1, <1>3
        <3>2. ASSUME NEW bb \in Bindings, NEW ii \in ClaimNames, NEW kk \in {"business", "refresh", "connect"}, NEW cc \in Contexts,
                     NEW nn, nn = Jobber!NewClaim(bb, ii, kk, cc)
              PROVE  /\ nn \in Bindings /\ SameGrant(bb, nn) /\ SameMarks(bb, nn)
                     /\ nn.claim # None /\ nn.claim.id = ii /\ nn.claim.kind = kk /\ nn.claim.gen = bb.gen
            BY <3>2, NewClaimIs
        <3> HIDE DEF b, id, kind
        <3>3. n = Jobber!NewClaim(b, id, kind, Jobber!Context(b))
            OBVIOUS
        <3> HIDE DEF n
        <3>. QED  BY <3>1, <3>2, <3>3
    <2>7. Named(n.claim)
        BY <2>6, <1>3, NamesApart DEF Named
    <2>8. Takes(b, n)
        BY <2>6, <2>7, <1>6 DEF Takes, Renewing, Jobber!MayTake
    <2>9. ByUse(n.claim, u)
        BY <2>6, <1>0 DEF ByUse
    <2>10. BindingsStep /\ binding'[use[u].c] = n
        <3> HIDE DEF n
        <3>. QED  BY <1>0, <1>1, <1>6, <2>6, <2>8, <2>9, BindingTaken
    <2>11. UseMove(u)
        <3> HIDE DEF n, next
        <3>. QED  BY <1>0, <1>2, <1>6, <2>2, <2>4, <2>6, <2>10 DEF UseMove
    <2>. QED  BY <2>2, <2>4, <2>10, <2>11 DEF CallStep
<1>. QED  BY <1>4, <1>5, <1>6 DEF Jobber!Acquire

LEMMA ReportedGoes ==
    ASSUME JobberTypes, NEW u \in TokenUses, use[u].at \notin {"idle", "away"},
           NEW heard \in UsePlaces, NEW lost \in UsePlaces, heard # lost,
           \E at \in Jobber!Reported(heard, lost) : Jobber!UseGoes(u, at) /\ Jobber!Charged(at, lost)
    PROVE  /\ UsesTyped /\ OthersUse(u) /\ jobberFaults' \in 0 .. MaxJobberFaults
           /\ use'[u].at \in {heard, lost}
           /\ use'[u].c = use[u].c /\ use'[u].gen = use[u].gen /\ use'[u].pair = use[u].pair /\ use'[u].last = use[u].last
<1>1. PICK at \in Jobber!Reported(heard, lost) : Jobber!UseGoes(u, at) /\ Jobber!Charged(at, lost)
    OBVIOUS
<1>2. at \in {heard, lost} /\ jobberFaults' \in 0 .. MaxJobberFaults
    BY <1>1, FaultsCharged DEF JobberTypes
<1>3. at \in UsePlaces
    BY <1>2
<1>. QED  BY <1>1, <1>2, <1>3, UseGone DEF OthersUse

LEMMA StartMoves ==
    ASSUME JobberTypes, ClaimsFit, NEW u \in TokenUses, Jobber!Start(u)
    PROVE  CallStep(u)
<1> DEFINE b == binding[use[u].c]
           n == Jobber!Begun(b)
           next == IF use[u].at = "start" THEN "send" ELSE "renew"
           lost == IF use[u].at = "start" THEN "done" ELSE "release"
           mine == Jobber!Owns(b, Jobber!ClaimId(u)) /\ ~b.claim.started /\ b.claim.live /\ Jobber!ClaimStands(b)
<1>0. use[u].at \in {"start", "begin"} /\ UNCHANGED <<consent, captured, pairs, renewals>>
    BY DEF Jobber!Start, Jobber!UseFrame, Jobber!history
<1>1. use[u] \in UseRuns /\ b \in Bindings /\ use[u].c \in Binders /\ use[u].last \in BOOLEAN /\ binding \in [Binders -> Bindings]
    BY <1>0, UseFields DEF JobberTypes
<1>2. /\ next \in UsePlaces /\ lost \in UsePlaces /\ next # lost
      /\ next \in {"send", "renew"} /\ (next = "renew" => use[u].at = "begin") /\ lost \in {"done", "release"}
    BY <1>0 DEF UsePlaces
<1>3. CASE /\ mine
           /\ binding' = [binding EXCEPT ![use[u].c] = n]
           /\ \E at \in Jobber!Reported(next, lost) : Jobber!UseGoes(u, at) /\ Jobber!Charged(at, lost)
    <2>1. /\ UsesTyped /\ OthersUse(u) /\ jobberFaults' \in 0 .. MaxJobberFaults
          /\ use'[u].at \in {next, lost}
          /\ use'[u].c = use[u].c /\ use'[u].gen = use[u].gen /\ use'[u].pair = use[u].pair /\ use'[u].last = use[u].last
        <3> HIDE DEF next, lost
        <3>. QED  BY <1>0, <1>2, <1>3, ReportedGoes
    <2>2. b.claim # None /\ ~b.claim.started
        BY <1>3 DEF Jobber!Owns
    <2>3. n \in Bindings /\ Marks(b, n) /\ n.claim.started
        BY <1>1, <2>2, BegunIs
    <2>4. BindingsStep /\ binding'[use[u].c] = n
        <3> HIDE DEF n
        <3>. QED  BY <1>0, <1>1, <1>3, <2>3, BindingMoved
    <2>5. CASE use[u].at = "begin"
        <3>1. b.claim.id = RefreshId(u) /\ b.claim.gen = b.gen
            BY <1>3, <2>5 DEF Jobber!Owns, Jobber!ClaimId, Jobber!UseKind, RefreshId
        <3>2. b.claim.kind = "refresh" /\ b.claim.gen = use[u].gen
            BY <3>1, <2>2, <2>5, <1>1 DEF ClaimsFit, Named, RefreshId
        <3>3. Jobber!HasPair(b) /\ ~Jobber!Suspended(b)
            BY <1>3, <3>2 DEF Jobber!ClaimStands, Jobber!Admitted
        <3>4. ~Renewing(b) /\ Renewing(n) /\ n.pair = b.pair
            BY <2>2, <2>3, <3>2 DEF Renewing, Marks, SameGrant
        <3> HIDE DEF n, next, lost
        <3>. QED  BY <1>0, <1>2, <2>1, <2>4, <2>5, <3>1, <3>2, <3>3, <3>4 DEF CallStep, UseMove
    <2>6. CASE use[u].at = "start"
        <3>1. use'[u].at \in {"send", "done"}
            BY <2>1, <2>6
        <3> HIDE DEF n, next, lost
        <3>. QED  BY <1>0, <2>1, <2>4, <2>6, <3>1 DEF CallStep, UseMove
    <2>. QED  BY <1>0, <2>5, <2>6
<1>4. CASE Jobber!UseGoes(u, lost) /\ UNCHANGED <<binding, jobberFaults>>
    <2>1. UsesTyped /\ OthersUse(u) /\ use'[u].at = lost
        BY <1>4, <1>0, <1>2, UseGone DEF OthersUse
    <2>. QED  BY <1>0, <1>2, <2>1, <1>4, BindingsKept DEF CallStep, UseMove, JobberTypes
<1>. QED  BY <1>3, <1>4 DEF Jobber!Start

LEMMA ReleaseMoves ==
    ASSUME JobberTypes, NEW u \in TokenUses, Jobber!Release(u)
    PROVE  CallStep(u)
<1> DEFINE b == binding[use[u].c]
<1>0. use[u].at = "release" /\ UNCHANGED <<consent, captured, pairs, renewals, jobberFaults>>
    BY DEF Jobber!Release, Jobber!UseFrame, Jobber!history
<1>1. b \in Bindings /\ use[u].c \in Binders
    BY <1>0, UseFields
<1>2. UsesTyped /\ OthersUse(u) /\ use'[u].at = "done"
    BY <1>0, UseGone DEF Jobber!Release, OthersUse, UsePlaces
<1>3. BindingsStep
    <2>1. CASE UNCHANGED binding
        BY <2>1, <1>0, BindingsKept DEF JobberTypes
    <2>2. CASE ~Renewing(b) /\ binding' = [binding EXCEPT ![use[u].c] = Jobber!Unclaimed(b)]
        BY <2>2, <1>0, <1>1, UnclaimedIs, BindingMoved DEF JobberTypes
    <2>. QED  BY <2>1, <2>2 DEF Jobber!Release, Renewing
<1>. QED  BY <1>0, <1>2, <1>3 DEF CallStep, UseMove, JobberTypes

LEMMA SendMoves ==
    ASSUME JobberTypes, NEW u \in TokenUses, Jobber!Call(u)
    PROVE  CallStep(u)
<1>0. use[u].at = "send" /\ UNCHANGED <<binding, consent, captured, pairs, renewals, jobberFaults>>
    BY DEF Jobber!Call, Jobber!UseFrame, Jobber!history
<1>2. UsesTyped /\ OthersUse(u) /\ use'[u].at \in {"answered", "refused", "done"}
    BY <1>0, UseGone DEF Jobber!Call, OthersUse, UsePlaces
<1>. QED  BY <1>0, <1>2, BindingsKept DEF CallStep, UseMove, JobberTypes

LEMMA TerminalizeMoves ==
    ASSUME JobberTypes, ClaimsFit, NEW u \in TokenUses, Jobber!Terminalize(u)
    PROVE  CallStep(u)
<1> DEFINE b == binding[use[u].c]
<1>0. use[u].at \in {"answered", "refused"} /\ UNCHANGED <<consent, captured, pairs, renewals>>
    BY DEF Jobber!Terminalize, Jobber!UseFrame, Jobber!history
<1>1. b \in Bindings /\ use[u].c \in Binders /\ use[u].last \in BOOLEAN
    BY <1>0, UseFields
<1>2. UsesTyped /\ OthersUse(u) /\ use'[u].at \in {"done", "preflight"}
    BY <1>0, UseGone DEF Jobber!Terminalize, OthersUse, UsePlaces
<1>3. BindingsStep
    <2>1. CASE UNCHANGED binding
        BY <2>1, <1>0, BindingsKept DEF JobberTypes
    <2>2. CASE Jobber!Owns(b, <<u, "business", use[u].last>>) /\ binding' = [binding EXCEPT ![use[u].c] = Jobber!Unclaimed(b)]
        <3>1. b.claim # None /\ b.claim.kind = "business"
            BY <2>2, <1>1 DEF Jobber!Owns, ClaimsFit, Named
        <3>. QED  BY <3>1, <2>2, <1>0, <1>1, UnclaimedIs, BindingMoved DEF JobberTypes, Renewing
    <2>. QED  BY <2>1, <2>2 DEF Jobber!Terminalize
<1>4. jobberFaults' \in 0 .. MaxJobberFaults
    BY FaultAdded DEF Jobber!Terminalize, JobberTypes
<1>. QED  BY <1>0, <1>2, <1>3, <1>4 DEF CallStep, UseMove

LEMMA RenewMoves ==
    ASSUME JobberTypes, NEW u \in TokenUses, Jobber!Renew(u)
    PROVE  CallStep(u) /\ use[u].at = "renew" /\ use'[u].at \in {"persist", "quarantine"} /\ pairs' \in {pairs, pairs + 1}
           /\ renewals' = [renewals EXCEPT ![use[u].pair] = @ + 1] /\ UNCHANGED <<binding, flow>>
<1>0. use[u].at = "renew" /\ UNCHANGED <<binding, flow, consent, captured, jobberFaults>>
    BY DEF Jobber!Renew, Jobber!UseFrame, Jobber!history
<1>1. use[u] \in UseRuns /\ pairs + 1 \in Nat /\ use \in [TokenUses -> Outside \cup UseRuns]
    BY <1>0, UseFields DEF JobberTypes
<1>2. /\ UsesTyped /\ OthersUse(u)
      /\ \/ use'[u].at = "quarantine" /\ UNCHANGED pairs
         \/ use'[u].at = "persist" /\ use'[u].got = pairs + 1 /\ pairs' = pairs + 1
    <2>1. CASE UNCHANGED pairs /\ Jobber!UseGoes(u, "quarantine")
        BY <2>1, <1>0, UseGone DEF OthersUse, UsePlaces
    <2>2. CASE pairs' = pairs + 1 /\ use' = [use EXCEPT ![u].at = "persist", ![u].got = pairs + 1]
        <3> DEFINE p == pairs + 1
                   s == [use[u] EXCEPT !.at = "persist", !.got = p]
        <3>1. p \in Nat /\ use' = [use EXCEPT ![u] = s]
            BY <2>2, <1>1
        <3>2. s \in UseRuns /\ s.at = "persist" /\ s.got = p
            <4> HIDE DEF p
            <4>. QED  BY <3>1, <1>1 DEF UseRuns, UsePlaces
        <3> HIDE DEF s
        <3>. QED  BY <3>1, <3>2, <2>2, <1>1, UseWritten DEF OthersUse
    <2>. QED  BY <2>1, <2>2 DEF Jobber!Renew
<1>. QED  BY <1>0, <1>2, BindingsKept DEF CallStep, UseMove, JobberTypes, Jobber!Renew

LEMMA PersistMoves ==
    ASSUME JobberTypes, NEW u \in TokenUses, Jobber!Persist(u)
    PROVE  CallStep(u)
<1> DEFINE b == binding[use[u].c]
           p == use[u].got
           n == Jobber!Renewed(b, p)
<1>0. use[u].at = "persist" /\ UNCHANGED <<consent, captured, pairs, renewals>>
    BY DEF Jobber!Persist, Jobber!UseFrame, Jobber!history
<1>1. use[u] \in UseRuns /\ b \in Bindings /\ use[u].c \in Binders /\ p \in Nat /\ binding \in [Binders -> Bindings]
      /\ use \in [TokenUses -> Outside \cup UseRuns]
    BY <1>0, UseFields DEF JobberTypes
<1>2. CASE /\ binding' = [binding EXCEPT ![use[u].c] = n]
           /\ \E at \in Jobber!Reported("load", "quarantine") :
                 use' = [use EXCEPT ![u].at = at, ![u].last = TRUE] /\ Jobber!Charged(at, "quarantine")
    <2>1. PICK at \in Jobber!Reported("load", "quarantine") :
                 use' = [use EXCEPT ![u].at = at, ![u].last = TRUE] /\ Jobber!Charged(at, "quarantine")
        BY <1>2
    <2>2. at \in {"load", "quarantine"} /\ jobberFaults' \in 0 .. MaxJobberFaults
        BY <2>1, FaultsCharged DEF JobberTypes
    <2> DEFINE s == [use[u] EXCEPT !.at = at, !.last = TRUE]
    <2>3. s \in UseRuns /\ s.at = at /\ use' = [use EXCEPT ![u] = s]
        BY <2>1, <2>2, <1>1 DEF UseRuns, UsePlaces
    <2>4. n \in Bindings /\ Renews(b, n, p)
        BY <1>1, RenewedIs
    <2> HIDE DEF s, n
    <2>5. UsesTyped /\ OthersUse(u) /\ use'[u].at \in {"load", "quarantine"}
        BY <2>2, <2>3, <1>1, UseWritten DEF OthersUse
    <2>6. binding'[use[u].c] = n /\ \A d \in Binders \ {use[u].c} : binding'[d] = binding[d]
        BY <1>2, <1>1
    <2>7. BindingStep(use[u].c)
        BY <2>4, <2>5, <2>6, <1>0 DEF BindingStep, HistoryKept, GotBy
    <2>8. \A d \in Binders \ {use[u].c} : BindingStep(d)
        BY <2>6, <1>0 DEF BindingStep, HistoryKept
    <2>9. BindingsStep
        BY <2>4, <2>7, <2>8, <1>1, <1>2 DEF BindingsStep
    <2>. QED  BY <1>0, <2>2, <2>5, <2>9 DEF CallStep, UseMove
<1>3. CASE /\ jobberFaults' \in 0 .. MaxJobberFaults
           /\ Jobber!UseGoes(u, "quarantine") /\ UNCHANGED binding
    <2>1. UsesTyped /\ OthersUse(u) /\ use'[u].at = "quarantine"
        BY <1>3, <1>0, UseGone DEF OthersUse, UsePlaces
    <2>. QED  BY <1>0, <2>1, <1>3, BindingsKept DEF CallStep, UseMove, JobberTypes
<1>4. \/ /\ binding' = [binding EXCEPT ![use[u].c] = n]
         /\ \E at \in Jobber!Reported("load", "quarantine") :
                 use' = [use EXCEPT ![u].at = at, ![u].last = TRUE] /\ Jobber!Charged(at, "quarantine")
      \/ Jobber!UseGoes(u, "quarantine") /\ UNCHANGED binding /\ (jobberFaults' = jobberFaults
            \/ (jobberFaults' = jobberFaults + 1 /\ jobberFaults < MaxJobberFaults))
    <2> DEFINE mine == /\ Jobber!Owns(b, Jobber!ClaimId(u)) /\ b.claim.started /\ b.claim.live /\ b.gen = use[u].gen
                       /\ Jobber!ClaimStands(b)
               told == \E at \in Jobber!Reported("load", "quarantine") :
                          use' = [use EXCEPT ![u].at = at, ![u].last = TRUE] /\ Jobber!Charged(at, "quarantine")
    <2>1. \/ mine /\ binding' = [binding EXCEPT ![use[u].c] = n] /\ told
          \/ /\ ~mine \/ jobberFaults < MaxJobberFaults
             /\ jobberFaults' = IF mine THEN jobberFaults + 1 ELSE jobberFaults
             /\ Jobber!UseGoes(u, "quarantine") /\ UNCHANGED binding
        BY Zenon DEF Jobber!Persist
    <2> HIDE DEF mine, told, n, b
    <2>2. \/ binding' = [binding EXCEPT ![use[u].c] = n] /\ told
          \/ Jobber!UseGoes(u, "quarantine") /\ UNCHANGED binding /\ (jobberFaults' = jobberFaults
            \/ (jobberFaults' = jobberFaults + 1 /\ jobberFaults < MaxJobberFaults))
        BY <2>1
    <2>. QED  BY <2>2 DEF told
<1>5. (jobberFaults' = jobberFaults \/ (jobberFaults' = jobberFaults + 1 /\ jobberFaults < MaxJobberFaults))
      => jobberFaults' \in 0 .. MaxJobberFaults
    BY FaultAdded DEF JobberTypes
<1> HIDE DEF n
<1>. QED  BY <1>2, <1>3, <1>4, <1>5

LEMMA QuarantineMoves ==
    ASSUME JobberTypes, NEW u \in TokenUses, Jobber!Quarantine(u)
    PROVE  CallStep(u)
<1> DEFINE b == binding[use[u].c]
<1>0. use[u].at = "quarantine" /\ UNCHANGED <<consent, captured, pairs, renewals>>
    BY DEF Jobber!Quarantine, Jobber!UseFrame, Jobber!history
<1>1. b \in Bindings /\ use[u].c \in Binders
    BY <1>0, UseFields
<1>2. UsesTyped /\ OthersUse(u) /\ use'[u].at = "done"
    BY <1>0, UseGone DEF Jobber!Quarantine, OthersUse, UsePlaces
<1>3. BindingsStep
    <2>1. CASE UNCHANGED binding
        BY <2>1, <1>0, BindingsKept DEF JobberTypes
    <2>2. CASE binding' = [binding EXCEPT ![use[u].c] = Jobber!Quarantined(b)]
        BY <2>2, <1>0, <1>1, UnclaimedIs, BindingMoved DEF JobberTypes
    <2>. QED  BY <2>1, <2>2 DEF Jobber!Quarantine
<1>4. jobberFaults' \in 0 .. MaxJobberFaults
    BY FaultAdded DEF Jobber!Quarantine, JobberTypes
<1>. QED  BY <1>0, <1>2, <1>3, <1>4 DEF CallStep, UseMove

\* The steps of an authorisation.
FlowsTyped ==
    /\ flow' \in [OAuthFlows -> Outside \cup FlowRuns]
    /\ \A f \in OAuthFlows : flow'[f].at = "connect" => flow'[f].dest \in JobberAccounts

FlowMove(f) ==
    /\ flow'[f].at = "connect" => flow[f].at = "exchange" /\ flow'[f].got = pairs + 1 /\ pairs' = pairs + 1
    /\ flow'[f].at # "connect" => UNCHANGED pairs

OthersFlow(f) == \A g \in OAuthFlows \ {f} : flow'[g] = flow[g]

ConsentStep ==
    /\ BindingsStep /\ consent' \in [Binders -> Nat] /\ jobberFaults' \in 0 .. MaxJobberFaults

AuthStep(f) == ConsentStep /\ FlowsTyped /\ OthersFlow(f) /\ FlowMove(f)

LEMMA FlowWritten ==
    ASSUME JobberTypes, NEW f \in OAuthFlows, NEW r \in FlowRuns, flow' = [flow EXCEPT ![f] = r],
           r.at = "connect" => r.dest \in JobberAccounts
    PROVE  FlowsTyped /\ flow'[f] = r /\ OthersFlow(f)
<1>1. flow \in [OAuthFlows -> Outside \cup FlowRuns] /\ \A g \in OAuthFlows : flow[g].at = "connect" => flow[g].dest \in JobberAccounts
    BY DEF JobberTypes
<1>2. flow'[f] = r /\ OthersFlow(f)
    BY <1>1 DEF OthersFlow
<1>3. flow' \in [OAuthFlows -> Outside \cup FlowRuns]
    BY <1>1
<1>. QED  BY <1>1, <1>2, <1>3 DEF FlowsTyped, OthersFlow

LEMMA FlowGone ==
    ASSUME JobberTypes, NEW f \in OAuthFlows, flow[f].at \notin {"idle", "away"}, NEW to \in FlowPlaces \ {"connect"}, Jobber!FlowGoes(f, to)
    PROVE  FlowsTyped /\ OthersFlow(f) /\ flow'[f].at = to
<1>1. flow[f] \in FlowRuns /\ flow \in [OAuthFlows -> Outside \cup FlowRuns]
    BY FlowFields DEF JobberTypes
<1> DEFINE r == [flow[f] EXCEPT !.at = to]
<1>2. r \in FlowRuns /\ r.at = to
    BY <1>1 DEF FlowRuns
<1>3. flow' = [flow EXCEPT ![f] = r]
    BY <1>1 DEF Jobber!FlowGoes
<1> HIDE DEF r
<1>. QED  BY <1>1, <1>2, <1>3, FlowWritten

LEMMA FlowReported ==
    ASSUME JobberTypes, NEW f \in OAuthFlows, flow[f].at \notin {"idle", "away"},
           NEW heard \in FlowPlaces \ {"connect", "done"}, 
           \E at \in Jobber!Reported(heard, "done") : Jobber!FlowGoes(f, at) /\ Jobber!Charged(at, "done")
    PROVE  FlowsTyped /\ OthersFlow(f) /\ jobberFaults' \in 0 .. MaxJobberFaults /\ flow'[f].at \in {heard, "done"}
<1>1. PICK at \in Jobber!Reported(heard, "done") : Jobber!FlowGoes(f, at) /\ Jobber!Charged(at, "done")
    OBVIOUS
<1>2. at \in {heard, "done"} /\ jobberFaults' \in 0 .. MaxJobberFaults
    BY <1>1, FaultsCharged DEF JobberTypes
<1>3. at \in FlowPlaces \ {"connect"}
    BY <1>2 DEF FlowPlaces
<1>. QED  BY <1>1, <1>2, <1>3, FlowGone

\* A binding left behind by a receipt can be suspended.
LEMMA BehindIsSuspended ==
    ASSUME JobberTypes, BarriersFit, NEW c \in Binders, Jobber!Stale(binding[c])
    PROVE  /\ Jobber!Suspend(binding[c]) \in Bindings
           /\ Suspends(binding[c], Jobber!Suspend(binding[c]))
           /\ Jobber!Suspend(binding[c]).gen \in Nat
<1>1. binding[c] \in Bindings /\ barrier \in [JobberAccounts -> Nat]
    BY DEF JobberTypes
<1>2. binding[c].acct \in JobberAccounts /\ binding[c].accepted \in Nat /\ binding[c].accepted < barrier[binding[c].acct]
      /\ binding[c].accepted # None
    BY <1>1, AcceptedHasAccount, BindingReads DEF Jobber!Stale
<1>3. barrier[binding[c].acct] # 0
    BY <1>1, <1>2
<1>4. Jobber!Suspend(binding[c]) \in Bindings /\ Suspends(binding[c], Jobber!Suspend(binding[c]))
    BY <1>1, <1>2, <1>3, SuspendIs
<1>5. \A n \in Bindings : n.gen \in Nat
    BY DEF Bindings
<1>. QED  BY <1>4, <1>5

LEMMA CreateMoves ==
    ASSUME JobberTypes, BarriersFit, NEW f \in OAuthFlows, NEW c \in Binders, Jobber!CreateState(f, c)
    PROVE  AuthStep(f)
<1> DEFINE b == binding[c]
<1>0. flow[f].at = "idle" /\ UNCHANGED <<consent, captured, pairs, renewals, jobberFaults>>
    BY DEF Jobber!CreateState, Jobber!FlowFrame
<1>1. b \in Bindings /\ b.gen \in Nat /\ b.acct \in JobberAccounts \cup {None} /\ binding \in [Binders -> Bindings]
    BY DEF JobberTypes, Bindings
<1>2. PICK next \in Bindings :
          /\ next.gen \in Nat
          /\ next = b \/ Suspends(b, next)
          /\ binding' = [binding EXCEPT ![c] = next]
          /\ flow' = [flow EXCEPT ![f] = [at |-> "asked", c |-> c, gen |-> next.gen, live |-> TRUE,
                            ctx |-> [acct |-> b.acct, at |-> counter], got |-> 0, dest |-> None]]
    <2>1. CASE Jobber!Stale(b) /\ b.processed # barrier[b.acct]
        <3>1. /\ binding' = [binding EXCEPT ![c] = Jobber!Suspend(b)]
              /\ flow' = [flow EXCEPT ![f] = [at |-> "asked", c |-> c, gen |-> Jobber!Suspend(b).gen, live |-> TRUE,
                            ctx |-> [acct |-> b.acct, at |-> counter], got |-> 0, dest |-> None]]
            BY <2>1, Zenon DEF Jobber!CreateState
        <3>. QED  BY <3>1, <2>1, BehindIsSuspended
    <2>2. CASE ~(Jobber!Stale(b) /\ b.processed # barrier[b.acct])
        <3>1. /\ binding' = [binding EXCEPT ![c] = b]
              /\ flow' = [flow EXCEPT ![f] = [at |-> "asked", c |-> c, gen |-> b.gen, live |-> TRUE,
                            ctx |-> [acct |-> b.acct, at |-> counter], got |-> 0, dest |-> None]]
            BY <2>2, Zenon DEF Jobber!CreateState
        <3>. QED  BY <3>1, <1>1
    <2>. QED  BY <2>1, <2>2
<1> DEFINE ctx == [acct |-> b.acct, at |-> counter]
           r == [at |-> "asked", c |-> c, gen |-> next.gen, live |-> TRUE, ctx |-> ctx, got |-> 0, dest |-> None]
<1>3. ctx \in Contexts
    BY <1>1 DEF Contexts, JobberTypes
<1>4. flow' = [flow EXCEPT ![f] = r]
    BY <1>2
<1> HIDE DEF ctx
<1>5. r \in FlowRuns /\ r.at = "asked"
    BY <1>2, <1>3 DEF FlowRuns, FlowPlaces
<1> HIDE DEF r
<1>6. FlowsTyped /\ OthersFlow(f) /\ flow'[f].at = "asked"
    BY <1>4, <1>5, FlowWritten
<1>7. BindingsStep
    BY <1>0, <1>1, <1>2, BindingMoved
<1>. QED  BY <1>0, <1>6, <1>7 DEF AuthStep, ConsentStep, FlowMove, JobberTypes

LEMMA ConsumeMoves ==
    ASSUME JobberTypes, NEW f \in OAuthFlows, Jobber!Consume(f)
    PROVE  AuthStep(f)
<1> DEFINE b == binding[flow[f].c]
           c == flow[f].c
           n == Jobber!NewClaim(b, <<f>>, "connect", flow[f].ctx)
<1>0. flow[f].at = "asked" /\ UNCHANGED <<consent, captured, pairs, renewals>>
    BY DEF Jobber!Consume, Jobber!FlowFrame
<1>1. b \in Bindings /\ c \in Binders /\ flow[f].ctx \in Contexts /\ binding \in [Binders -> Bindings]
    BY <1>0, FlowFields DEF JobberTypes
<1>2. CASE Jobber!FlowGoes(f, "done") /\ UNCHANGED <<binding, jobberFaults>>
    <2>1. FlowsTyped /\ OthersFlow(f) /\ flow'[f].at = "done"
        BY <1>2, <1>0, FlowGone DEF FlowPlaces
    <2>. QED  BY <1>0, <2>1, <1>2, BindingsKept DEF AuthStep, ConsentStep, FlowMove, JobberTypes
<1>3. CASE /\ Jobber!FlowGoes(f, "done") /\ UNCHANGED jobberFaults
           /\ binding' = [binding EXCEPT ![c] = Jobber!Quarantined(b)]
    <2>1. FlowsTyped /\ OthersFlow(f) /\ flow'[f].at = "done"
        BY <1>3, <1>0, FlowGone DEF FlowPlaces
    <2>2. BindingsStep
        BY <1>3, <1>0, <1>1, UnclaimedIs, BindingMoved
    <2>. QED  BY <1>0, <2>1, <2>2, <1>3 DEF AuthStep, ConsentStep, FlowMove, JobberTypes
<1>4. CASE /\ Renewing(b) => b.quarantined
           /\ binding' = [binding EXCEPT ![c] = n]
           /\ \E at \in Jobber!Reported("consumed", "done") : Jobber!FlowGoes(f, at) /\ Jobber!Charged(at, "done")
    <2>1. FlowsTyped /\ OthersFlow(f) /\ jobberFaults' \in 0 .. MaxJobberFaults /\ flow'[f].at \in {"consumed", "done"}
        BY <1>4, <1>0, FlowReported DEF FlowPlaces
    <2>2. <<f>> \in ClaimNames /\ n = Jobber!NewClaim(b, <<f>>, "connect", flow[f].ctx)
        BY DEF ClaimNames
    <2>3. /\ n \in Bindings /\ SameGrant(b, n) /\ SameMarks(b, n)
          /\ n.claim # None /\ n.claim.id = <<f>> /\ n.claim.kind = "connect" /\ n.claim.gen = b.gen
        <3> HIDE DEF n
        <3>. QED  BY <2>2, <1>1, NewClaimIs
    <2> HIDE DEF n
    <2>4. Named(n.claim)
        BY <2>3, NamesApart DEF Named
    <2>5. Takes(b, n)
        BY <2>3, <2>4, <1>4 DEF Takes
    <2>6. BindingsStep
        BY <1>0, <1>1, <1>4, <2>3, <2>5, BindingTaken
    <2>. QED  BY <1>0, <2>1, <2>6 DEF AuthStep, ConsentStep, FlowMove, JobberTypes
<1>. QED  BY <1>2, <1>3, <1>4 DEF Jobber!Consume, Renewing

LEMMA ExchangeBegins ==
    ASSUME JobberTypes, NEW f \in OAuthFlows, Jobber!StartExchange(f)
    PROVE  AuthStep(f)
<1> DEFINE b == binding[flow[f].c]
           n == Jobber!Begun(b)
<1>0. flow[f].at = "consumed" /\ UNCHANGED <<consent, captured, pairs, renewals>>
    BY DEF Jobber!StartExchange, Jobber!FlowFrame
<1>1. b \in Bindings /\ flow[f].c \in Binders /\ binding \in [Binders -> Bindings]
    BY <1>0, FlowFields DEF JobberTypes
<1>2. CASE Jobber!FlowGoes(f, "done") /\ UNCHANGED <<binding, jobberFaults>>
    <2>1. FlowsTyped /\ OthersFlow(f) /\ flow'[f].at = "done"
        BY <1>2, <1>0, FlowGone DEF FlowPlaces
    <2>. QED  BY <1>0, <2>1, <1>2, BindingsKept DEF AuthStep, ConsentStep, FlowMove, JobberTypes
<1>3. CASE /\ b.claim # None /\ binding' = [binding EXCEPT ![flow[f].c] = n]
           /\ \E at \in Jobber!Reported("exchange", "done") : Jobber!FlowGoes(f, at) /\ Jobber!Charged(at, "done")
    <2>1. FlowsTyped /\ OthersFlow(f) /\ jobberFaults' \in 0 .. MaxJobberFaults /\ flow'[f].at \in {"exchange", "done"}
        BY <1>3, <1>0, FlowReported DEF FlowPlaces
    <2>2. n \in Bindings /\ Marks(b, n)
        BY <1>3, <1>1, BegunIs
    <2> HIDE DEF n
    <2>3. BindingsStep
        BY <1>0, <1>1, <1>3, <2>2, BindingMoved
    <2>. QED  BY <1>0, <2>1, <2>3 DEF AuthStep, ConsentStep, FlowMove, JobberTypes
<1>. QED  BY <1>2, <1>3 DEF Jobber!StartExchange, Jobber!Owns

LEMMA ExchangeMoves ==
    ASSUME JobberTypes, NEW f \in OAuthFlows, Jobber!Exchange(f)
    PROVE  AuthStep(f)
<1>0. flow[f].at = "exchange" /\ UNCHANGED <<binding, consent, captured, renewals, jobberFaults>>
    BY DEF Jobber!Exchange, Jobber!FlowFrame
<1>1. flow[f] \in FlowRuns /\ pairs + 1 \in Nat /\ flow \in [OAuthFlows -> Outside \cup FlowRuns]
    BY <1>0, FlowFields DEF JobberTypes
<1>2. FlowsTyped /\ OthersFlow(f) /\ FlowMove(f)
    <2>1. CASE \E at \in {"rejected", "done"} : Jobber!FlowGoes(f, at) /\ UNCHANGED pairs
        BY <2>1, <1>0, FlowGone DEF FlowPlaces, FlowMove
    <2>2. CASE \E a \in JobberAccounts : pairs' = pairs + 1
                 /\ flow' = [flow EXCEPT ![f].at = "connect", ![f].got = pairs + 1, ![f].dest = a]
        <3>1. PICK a \in JobberAccounts : pairs' = pairs + 1
                 /\ flow' = [flow EXCEPT ![f].at = "connect", ![f].got = pairs + 1, ![f].dest = a]
            BY <2>2
        <3> DEFINE p == pairs + 1
                   s == [flow[f] EXCEPT !.at = "connect", !.got = p, !.dest = a]
        <3>2. p \in Nat /\ flow' = [flow EXCEPT ![f] = s] /\ pairs' = p
            BY <3>1, <1>1
        <3>3. s \in FlowRuns /\ s.at = "connect" /\ s.got = p /\ s.dest = a
            <4> HIDE DEF p
            <4>. QED  BY <3>2, <1>1 DEF FlowRuns, FlowPlaces
        <3> HIDE DEF s
        <3>4. FlowsTyped /\ OthersFlow(f) /\ flow'[f] = s
            BY <3>2, <3>3, FlowWritten
        <3>. QED  BY <3>2, <3>3, <3>4, <1>0 DEF FlowMove
    <2>. QED  BY <2>1, <2>2 DEF Jobber!Exchange
<1>. QED  BY <1>0, <1>2, BindingsKept DEF AuthStep, ConsentStep, JobberTypes

LEMMA RejectedMoves ==
    ASSUME JobberTypes, ClaimsFit, NEW f \in OAuthFlows, Jobber!Rejected(f)
    PROVE  AuthStep(f)
<1> DEFINE b == binding[flow[f].c]
<1>0. flow[f].at = "rejected" /\ UNCHANGED <<consent, captured, pairs, renewals, jobberFaults>>
    BY DEF Jobber!Rejected, Jobber!FlowFrame
<1>1. b \in Bindings /\ flow[f].c \in Binders /\ binding \in [Binders -> Bindings]
    BY <1>0, FlowFields DEF JobberTypes
<1>2. FlowsTyped /\ OthersFlow(f) /\ flow'[f].at = "done"
    BY <1>0, FlowGone DEF FlowPlaces, Jobber!Rejected
<1>3. BindingsStep
    <2>1. CASE UNCHANGED binding
        BY <2>1, <1>0, <1>1, BindingsKept
    <2>2. CASE Jobber!Owns(b, <<f>>) /\ binding' = [binding EXCEPT ![flow[f].c] = Jobber!Unclaimed(b)]
        <3>1. b.claim # None /\ b.claim.kind = "connect"
            BY <2>2, <1>1 DEF Jobber!Owns, ClaimsFit, Named
        <3>. QED  BY <3>1, <2>2, <1>0, <1>1, UnclaimedIs, BindingMoved DEF Renewing
    <2>. QED  BY <2>1, <2>2 DEF Jobber!Rejected
<1>. QED  BY <1>0, <1>2, <1>3 DEF AuthStep, ConsentStep, FlowMove, JobberTypes

LEMMA ConnectMoves ==
    ASSUME JobberTypes, NEW f \in OAuthFlows, Jobber!Connect(f)
    PROVE  AuthStep(f)
<1> DEFINE c == flow[f].c
           b == binding[c]
           p == flow[f].got
           dest == flow[f].dest
           n == Connected(b, p, dest)
<1>0. flow[f].at = "connect" /\ UNCHANGED <<captured, pairs, renewals, jobberFaults>>
    BY DEF Jobber!Connect, Jobber!FlowFrame
<1>1. /\ b \in Bindings /\ c \in Binders /\ binding \in [Binders -> Bindings] /\ p \in Nat /\ dest \in JobberAccounts
      /\ consent \in [Binders -> Nat] /\ flow[f].ctx.at \in Nat /\ barrier \in [JobberAccounts -> Nat]
    BY <1>0, FlowFields DEF JobberTypes, Contexts
<1>2. FlowsTyped /\ OthersFlow(f) /\ flow'[f].at = "done"
    BY <1>0, FlowGone DEF FlowPlaces, Jobber!Connect
<1>3. CASE UNCHANGED <<binding, consent>>
    BY <1>3, <1>0, <1>1, <1>2, BindingsKept DEF AuthStep, ConsentStep, FlowMove, JobberTypes
<1>4. CASE /\ binding' = [binding EXCEPT ![c] = n]
           /\ barrier[dest] <= flow[f].ctx.at
           /\ consent' = [consent EXCEPT ![c] = flow[f].ctx.at]
    <2>1. n \in Bindings /\ Connects(b, n, p, dest)
        <3>1. n = Connected(b, p, dest)
            OBVIOUS
        <3> HIDE DEF n
        <3>. QED  BY <1>1, <3>1, ConnectsIs
    <2> HIDE DEF n
    <2>2. binding'[c] = n /\ \A d \in Binders \ {c} : binding'[d] = binding[d]
        BY <1>4, <1>1
    <2>3. consent'[c] = flow[f].ctx.at /\ (\A d \in Binders \ {c} : consent'[d] = consent[d]) /\ consent' \in [Binders -> Nat]
        BY <1>4, <1>1
    <2>4. BindingStep(c)
        BY <1>0, <1>1, <1>2, <1>4, <2>1, <2>2, <2>3 DEF BindingStep, BoughtBy
    <2>5. \A d \in Binders \ {c} : BindingStep(d)
        BY <1>0, <2>2, <2>3 DEF BindingStep, HistoryKept
    <2>6. BindingsStep
        BY <2>1, <2>4, <2>5, <1>1, <1>4 DEF BindingsStep
    <2>. QED  BY <2>3, <2>6, <1>0, <1>2 DEF AuthStep, ConsentStep, FlowMove, JobberTypes
<1>5. \/ UNCHANGED <<binding, consent>>
      \/ /\ binding' = [binding EXCEPT ![c] = n]
         /\ barrier[dest] <= flow[f].ctx.at
         /\ consent' = [consent EXCEPT ![c] = flow[f].ctx.at]
    BY Zenon DEF Jobber!Connect, Connected, Jobber!DestinationStands
<1> HIDE DEF n
<1>. QED  BY <1>3, <1>4, <1>5

LEMMA CaptureMoves ==
    ASSUME JobberTypes, NEW c \in Binders, NEW on \in BOOLEAN, Jobber!SetCapture(c, on)
    PROVE  BindingsStep /\ captured' \in [Binders -> Moments]
<1> DEFINE b == binding[c]
           n == Captured(b, on)
           at == Jobber!Context(b)
<1>1. b \in Bindings /\ binding \in [Binders -> Bindings] /\ captured \in [Binders -> Moments]
    BY DEF JobberTypes
<1>2. at \in Moments /\ at.acct = b.acct
    BY <1>1 DEF Jobber!Context, Moments, Bindings
<1>3. binding' = [binding EXCEPT ![c] = n] /\ captured' = (IF on THEN [captured EXCEPT ![c] = at] ELSE captured) /\ UNCHANGED consent
    BY DEF Jobber!SetCapture, Captured
<1>4. n \in Bindings /\ Captures(b, n) /\ n.capture = on
    <2>1. n = Captured(b, on)
        OBVIOUS
    <2> HIDE DEF n
    <2>. QED  BY <1>1, <2>1, CapturesIs
<1> HIDE DEF n, at
<1>5. binding'[c] = n /\ \A d \in Binders \ {c} : binding'[d] = binding[d]
    BY <1>1, <1>3
<1>6. captured' \in [Binders -> Moments] /\ (on => captured'[c] = at) /\ \A d \in Binders \ {c} : captured'[d] = captured[d]
    BY <1>1, <1>2, <1>3
<1>7. n.acct = b.acct
    BY <1>4 DEF Captures, SameGrant
<1>8. BindingStep(c)
    BY <1>2, <1>3, <1>4, <1>5, <1>6, <1>7 DEF BindingStep
<1>9. \A d \in Binders \ {c} : BindingStep(d)
    BY <1>3, <1>5, <1>6 DEF BindingStep, HistoryKept
<1>. QED  BY <1>1, <1>3, <1>4, <1>6, <1>8, <1>9 DEF BindingsStep

\* The steps of a removal.
Outcomes == {"none", "started", "succeeded", "failed", "unknown", "not_attempted"}
RemovalsTyped == removal' \in [Removals -> Outside \cup RemovalRuns]
OthersRemoval(r) == \A q \in Removals \ {r} : removal'[q] = removal[q]

GivenStep(r) ==
    /\ BindingsStep /\ RemovalsTyped /\ OthersRemoval(r)
    /\ outbox' \in [Removals -> Outcomes] /\ jobberFaults' \in 0 .. MaxJobberFaults /\ revoked' \subseteq Removals

\* What one step of a removal does to its place, to its record and to its request.
GivenMove(r) ==
    /\ \A q \in Removals \ {r} : outbox'[q] = outbox[q] /\ (q \in revoked' <=> q \in revoked)
    /\ r \in revoked' => r \in revoked \/ removal[r].at = "dispatch"
    /\ removal[r].at = "dispatch" \/ removal[r].at \in {"succeeded", "failed", "unknown", "finalize"} =>
          removal'[r].at \in {"succeeded", "failed", "unknown", "finalize", "done"}
    /\ removal[r].at # "done"
    /\ removal'[r].at \in {"admit", "dispatch", "denied"} =>
          removal'[r].ctx.acct \in JobberAccounts /\ removal'[r].ctx.at \in Nat
    /\ outbox'[r] = "not_attempted" =>
          \/ outbox[r] = "not_attempted"
          \/ /\ removal[r].at = "denied" /\ removal'[r].at = "done" /\ r \notin revoked'
             /\ removal'[r].ctx = removal[r].ctx /\ barrier[removal[r].ctx.acct] > removal[r].ctx.at

LEMMA RemovalWritten ==
    ASSUME JobberTypes, NEW r \in Removals, NEW s \in RemovalRuns, removal' = [removal EXCEPT ![r] = s]
    PROVE  RemovalsTyped /\ removal'[r] = s /\ OthersRemoval(r)
    BY DEF RemovalsTyped, OthersRemoval, JobberTypes

LEMMA RemovalGone ==
    ASSUME JobberTypes, NEW r \in Removals, removal[r].at \notin {"idle", "away"}, NEW to \in RemovalPlaces, Jobber!RemovalGoes(r, to)
    PROVE  /\ RemovalsTyped /\ OthersRemoval(r)
           /\ removal'[r].at = to /\ removal'[r].ctx = removal[r].ctx /\ removal'[r].c = removal[r].c
<1>1. removal[r] \in RemovalRuns /\ removal \in [Removals -> Outside \cup RemovalRuns]
    BY RemovalFields DEF JobberTypes
<1> DEFINE s == [removal[r] EXCEPT !.at = to]
<1>2. s \in RemovalRuns /\ s.at = to /\ s.ctx = removal[r].ctx /\ s.c = removal[r].c
    BY <1>1 DEF RemovalRuns
<1>3. removal' = [removal EXCEPT ![r] = s]
    BY <1>1 DEF Jobber!RemovalGoes
<1> HIDE DEF s
<1>. QED  BY <1>1, <1>2, <1>3, RemovalWritten

LEMMA LocalMoves ==
    ASSUME JobberTypes, RevocationFits, NEW r \in Removals, NEW c \in Binders, Jobber!RemoveLocal(r, c)
    PROVE  GivenStep(r) /\ GivenMove(r)
<1> DEFINE b == binding[c]
           ctx == Jobber!Context(b)
           at == IF Jobber!Blocked(b) THEN "done" ELSE "normal"
           s == [at |-> at, c |-> c, gen |-> 0, ctx |-> ctx]
<1>0. removal[r].at = "idle" /\ UNCHANGED <<consent, captured, outbox, revoked, jobberFaults>>
    BY DEF Jobber!RemoveLocal, Jobber!RemovalFrame, Jobber!history
<1>1. b \in Bindings /\ binding \in [Binders -> Bindings] /\ ctx \in Moments
    BY DEF JobberTypes, Jobber!Context, Moments, Bindings
<1>2. s \in RemovalRuns /\ s.at \in {"normal", "done"} /\ removal' = [removal EXCEPT ![r] = s]
    <2>1. at \in {"normal", "done"}
        OBVIOUS
    <2>2. removal' = [removal EXCEPT ![r] = s]
        BY DEF Jobber!RemoveLocal
    <2> HIDE DEF at, ctx
    <2>. QED  BY <1>1, <2>1, <2>2 DEF RemovalRuns, RemovalPlaces
<1> HIDE DEF s
<1>3. RemovalsTyped /\ OthersRemoval(r) /\ removal'[r] = s
    BY <1>2, RemovalWritten
<1>4. BindingsStep
    <2>1. CASE UNCHANGED binding
        BY <2>1, <1>0, <1>1, BindingsKept
    <2>2. CASE binding' = [binding EXCEPT ![c] = Jobber!Deleted(b)]
        BY <2>2, <1>0, <1>1, DeletedIs, BindingMoved
    <2>. QED  BY <2>1, <2>2 DEF Jobber!RemoveLocal
<1>. QED  BY <1>0, <1>2, <1>3, <1>4 DEF GivenStep, GivenMove, RevocationFits, JobberTypes, Outcomes

LEMMA DisconnectMoves ==
    ASSUME JobberTypes, BarriersFit, RevocationFits, NEW r \in Removals, Jobber!Disconnect(r)
    PROVE  GivenStep(r) /\ GivenMove(r)
<1> DEFINE c == removal[r].c
           b == binding[c]
           ctx == Jobber!Context(b)
           g == b.gen + 1
<1>0. removal[r].at = "normal" /\ UNCHANGED <<consent, captured, revoked>>
    BY DEF Jobber!Disconnect, Jobber!RemovalFrame, Jobber!history
<1>1. b \in Bindings /\ binding \in [Binders -> Bindings] /\ c \in Binders /\ removal[r] \in RemovalRuns
      /\ outbox \in [Removals -> Outcomes] /\ revoked \subseteq Removals
    BY <1>0, RemovalFields DEF JobberTypes, Outcomes
<1>2. CASE Jobber!RemovalGoes(r, "done") /\ UNCHANGED <<binding, outbox, jobberFaults>>
    <2>1. RemovalsTyped /\ OthersRemoval(r) /\ removal'[r].at = "done"
        BY <1>2, <1>0, RemovalGone DEF RemovalPlaces
    <2>. QED  BY <1>0, <1>1, <1>2, <2>1, BindingsKept DEF GivenStep, GivenMove, RevocationFits, JobberTypes
<1>3. CASE /\ Jobber!Admitted(b)
           /\ binding' = [binding EXCEPT ![c] = Jobber!Disconnected(b)]
           /\ outbox' = [outbox EXCEPT ![r] = "started"]
           /\ \E at \in Jobber!Reported("admit", "done") :
                /\ removal' = [removal EXCEPT ![r] = [@ EXCEPT !.at = at, !.gen = b.gen + 1, !.ctx = Jobber!Context(b)]]
                /\ Jobber!Charged(at, "done")
    <2>1. PICK at \in Jobber!Reported("admit", "done") :
                /\ removal' = [removal EXCEPT ![r] = [@ EXCEPT !.at = at, !.gen = b.gen + 1, !.ctx = Jobber!Context(b)]]
                /\ Jobber!Charged(at, "done")
        BY <1>3
    <2>2. at \in {"admit", "done"} /\ jobberFaults' \in 0 .. MaxJobberFaults
        BY <2>1, FaultsCharged DEF JobberTypes
    <2>3. ctx \in Moments /\ ctx.acct \in JobberAccounts /\ ctx.at \in Nat
        BY <1>1, <1>3, BindingReads, AcceptedHasAccount DEF Contexts
    <2>4. g \in Nat
        BY <1>1 DEF Bindings
    <2> DEFINE s == [removal[r] EXCEPT !.at = at, !.gen = g, !.ctx = ctx]
    <2>5. removal' = [removal EXCEPT ![r] = s]
        BY <2>1, <1>1 DEF JobberTypes
    <2> HIDE DEF g, ctx
    <2>6. s \in RemovalRuns /\ s.at = at /\ s.ctx = ctx
        BY <2>2, <2>3, <2>4, <1>1 DEF RemovalRuns, RemovalPlaces
    <2> HIDE DEF s
    <2>7. RemovalsTyped /\ OthersRemoval(r) /\ removal'[r] = s
        BY <2>5, <2>6, RemovalWritten
    <2>8. BindingsStep
        BY <1>0, <1>1, <1>3, DeletedIs, BindingMoved
    <2>9. outbox' \in [Removals -> Outcomes] /\ outbox'[r] = "started" /\ \A q \in Removals \ {r} : outbox'[q] = outbox[q]
        BY <1>1, <1>3 DEF Outcomes
    <2>. QED  BY <1>0, <1>1, <2>2, <2>3, <2>6, <2>7, <2>8, <2>9 DEF GivenStep, GivenMove
<1>4. \/ Jobber!RemovalGoes(r, "done") /\ UNCHANGED <<binding, outbox, jobberFaults>>
      \/ /\ Jobber!Admitted(b)
         /\ binding' = [binding EXCEPT ![c] = Jobber!Disconnected(b)]
         /\ outbox' = [outbox EXCEPT ![r] = "started"]
         /\ \E at \in Jobber!Reported("admit", "done") :
              /\ removal' = [removal EXCEPT ![r] = [@ EXCEPT !.at = at, !.gen = b.gen + 1, !.ctx = Jobber!Context(b)]]
              /\ Jobber!Charged(at, "done")
    BY Zenon DEF Jobber!Disconnect, Jobber!MayDisconnect
<1>. QED  BY <1>2, <1>3, <1>4

\* A step that writes no binding and no record.
LEMMA RemovalGoesOn ==
    ASSUME JobberTypes, RevocationFits, NEW r \in Removals, removal[r].at \notin {"idle", "away", "done"},
           NEW to \in RemovalPlaces, Jobber!RemovalGoes(r, to), UNCHANGED <<binding, consent, captured, outbox>>,
           jobberFaults' \in 0 .. MaxJobberFaults,
           revoked' = revoked \/ (revoked' = revoked \cup {r} /\ removal[r].at = "dispatch"),
           removal[r].at = "dispatch" \/ removal[r].at \in {"succeeded", "failed", "unknown", "finalize"} =>
               to \in {"succeeded", "failed", "unknown", "finalize", "done"},
           to \in {"admit", "dispatch", "denied"} => removal[r].at \in {"admit", "dispatch", "denied"}
    PROVE  GivenStep(r) /\ GivenMove(r)
<1>1. RemovalsTyped /\ OthersRemoval(r) /\ removal'[r].at = to /\ removal'[r].ctx = removal[r].ctx
    BY RemovalGone
<1>2. BindingsStep
    BY BindingsKept DEF JobberTypes
<1>3. outbox' \in [Removals -> Outcomes] /\ revoked' \subseteq Removals
    BY DEF JobberTypes, Outcomes
<1>. QED  BY <1>1, <1>2, <1>3 DEF GivenStep, GivenMove, RevocationFits

LEMMA AdmitMoves ==
    ASSUME JobberTypes, RevocationFits, NEW r \in Removals, Jobber!Admit(r)
    PROVE  GivenStep(r) /\ GivenMove(r)
<1>0. removal[r].at = "admit" /\ UNCHANGED <<binding, consent, captured, outbox, revoked>>
    BY DEF Jobber!Admit, Jobber!RemovalFrame, Jobber!history
<1>1. CASE \E at \in Jobber!Reported("dispatch", "denied") : Jobber!RemovalGoes(r, at) /\ Jobber!Charged(at, "denied")
    <2>1. PICK at \in Jobber!Reported("dispatch", "denied") : Jobber!RemovalGoes(r, at) /\ Jobber!Charged(at, "denied")
        BY <1>1
    <2>2. at \in {"dispatch", "denied"} /\ jobberFaults' \in 0 .. MaxJobberFaults
        BY <2>1, FaultsCharged DEF JobberTypes
    <2>. QED  BY <1>0, <2>1, <2>2, RemovalGoesOn DEF RemovalPlaces
<1>2. CASE Jobber!RemovalGoes(r, "denied") /\ UNCHANGED jobberFaults
    BY <1>0, <1>2, RemovalGoesOn DEF RemovalPlaces, JobberTypes
<1>. QED  BY <1>1, <1>2 DEF Jobber!Admit

LEMMA DispatchMoves ==
    ASSUME JobberTypes, RevocationFits, NEW r \in Removals, Jobber!Dispatch(r)
    PROVE  GivenStep(r) /\ GivenMove(r)
<1>0. removal[r].at = "dispatch" /\ UNCHANGED <<binding, consent, captured, outbox, jobberFaults>> /\ revoked' = revoked \cup {r}
    BY DEF Jobber!Dispatch, Jobber!RemovalFrame, Jobber!history
<1>1. PICK at \in {"succeeded", "failed", "unknown"} : Jobber!RemovalGoes(r, at)
    BY DEF Jobber!Dispatch
<1>. QED  BY <1>0, <1>1, RemovalGoesOn DEF RemovalPlaces, JobberTypes

LEMMA FinalizeMoves ==
    ASSUME JobberTypes, RevocationFits, NEW r \in Removals, Jobber!Finalize(r)
    PROVE  GivenStep(r) /\ GivenMove(r)
<1>0. removal[r].at = "finalize" /\ UNCHANGED <<binding, consent, captured, outbox, revoked, jobberFaults>>
    BY DEF Jobber!Finalize, Jobber!RemovalFrame, Jobber!history
<1>1. Jobber!RemovalGoes(r, "done")
    BY DEF Jobber!Finalize
<1>. QED  BY <1>0, <1>1, RemovalGoesOn DEF RemovalPlaces, JobberTypes

LEMMA RecordMoves ==
    ASSUME JobberTypes, NEW r \in Removals, Jobber!Record(r)
    PROVE  GivenStep(r) /\ GivenMove(r)
<1>0. removal[r].at \in {"succeeded", "failed", "unknown"} /\ outbox[r] = "started"
      /\ UNCHANGED <<binding, consent, captured, revoked>>
    BY DEF Jobber!Record, Jobber!RemovalFrame, Jobber!history
<1>1. PICK at \in Jobber!Reported("finalize", "done") :
         /\ Jobber!RemovalGoes(r, at) /\ Jobber!Charged(at, "done")
         /\ outbox' = IF at = "done" THEN outbox ELSE [outbox EXCEPT ![r] = removal[r].at]
    BY DEF Jobber!Record
<1>2. at \in {"finalize", "done"} /\ jobberFaults' \in 0 .. MaxJobberFaults
    BY <1>1, FaultsCharged DEF JobberTypes
<1>3. RemovalsTyped /\ OthersRemoval(r) /\ removal'[r].at = at
    BY <1>0, <1>1, <1>2, RemovalGone DEF RemovalPlaces
<1>4. BindingsStep /\ revoked' \subseteq Removals
    BY <1>0, BindingsKept DEF JobberTypes
<1>5. /\ outbox' \in [Removals -> Outcomes] /\ outbox'[r] # "not_attempted"
      /\ \A q \in Removals \ {r} : outbox'[q] = outbox[q]
    BY <1>0, <1>1 DEF JobberTypes, Outcomes
<1>. QED  BY <1>0, <1>2, <1>3, <1>4, <1>5 DEF GivenStep, GivenMove

LEMMA DeniedMoves ==
    ASSUME JobberTypes, RevocationFits, NEW r \in Removals, Jobber!CancelDenied(r)
    PROVE  GivenStep(r) /\ GivenMove(r)
<1>0. removal[r].at = "denied" /\ UNCHANGED <<binding, consent, captured, revoked, jobberFaults>> /\ r \notin revoked
    BY DEF Jobber!CancelDenied, Jobber!RemovalFrame, Jobber!history, RevocationFits
<1>1. RemovalsTyped /\ OthersRemoval(r) /\ removal'[r].at = "done" /\ removal'[r].ctx = removal[r].ctx
    BY <1>0, RemovalGone DEF RemovalPlaces, Jobber!CancelDenied
<1>2. /\ outbox' \in [Removals -> Outcomes]
      /\ \A q \in Removals \ {r} : outbox'[q] = outbox[q]
      /\ outbox'[r] = "not_attempted" => outbox[r] = "not_attempted" \/ barrier[removal[r].ctx.acct] > removal[r].ctx.at
    BY DEF JobberTypes, Outcomes, Jobber!CancelDenied, Jobber!DenialIsProven
<1>3. BindingsStep /\ revoked' \subseteq Removals
    BY <1>0, BindingsKept DEF JobberTypes
<1>. QED  BY <1>0, <1>1, <1>2, <1>3 DEF GivenStep, GivenMove, JobberTypes

\* The steps of the worker.
WorkTyped == work' \in [JobberAccounts -> WorkRows]
WorkersTyped == worker' \in [DisconnectWorkers -> Outside \cup WorkerRuns]
OthersWorker(w) == \A v \in DisconnectWorkers \ {w} : worker'[v] = worker[v]
OthersWork(a) == \A x \in JobberAccounts \ {a} : work'[x] = work[x]
LeasesFit == \A a \in JobberAccounts : work[a].lease # None <=> work[a].status = "processing"

\* What is settled stays so while no receipt arrives.
LEMMA SettledKept ==
    ASSUME JobberTypes, BarriersFit, BindingsStep, UNCHANGED barrier, NEW a \in JobberAccounts, NEW c \in Binders, Settled(a, c)
    PROVE  Settled(a, c)'
<1>1. BindingStep(c) /\ (binding[c].accepted # None => binding[c].acct # None)
    BY AcceptedHasAccount DEF BindingsStep
<1>. QED  BY <1>1 DEF BindingStep, Settled, Drops, Fails, Marks, Suspends, Deletes, Takes, Captures, Renews, Connects, SameGrant

LEMMA WorkKept ==
    ASSUME JobberTypes, BarriersFit, BindingsStep, WorkFits, UNCHANGED <<barrier, work, worker>>
    PROVE  WorkFits'
<1>1. ASSUME NEW a \in JobberAccounts, NEW c \in Binders, work[a].status = "completed" \/ c <= work[a].cursor
      PROVE  Settled(a, c)'
    BY <1>1, SettledKept DEF WorkFits
<1>2. ASSUME NEW w \in DisconnectWorkers, worker[w].at \in {"query", "page"}, work[worker[w].a].lease = w, barrier[worker[w].a] = worker[w].level,
             NEW c \in Binders
      PROVE  IF worker[w].at = "query" THEN c <= worker[w].last => Settled(worker[w].a, c)'
             ELSE c \notin worker[w].left /\ (worker[w].more => c <= worker[w].last) => Settled(worker[w].a, c)'
    <2>1. worker[w].a \in JobberAccounts
        BY <1>2, WorkerFields
    <2>2. IF worker[w].at = "query" THEN c <= worker[w].last => Settled(worker[w].a, c)
             ELSE c \notin worker[w].left /\ (worker[w].more => c <= worker[w].last) => Settled(worker[w].a, c)
        BY <1>2 DEF WorkFits
    <2>3. Settled(worker[w].a, c) => Settled(worker[w].a, c)'
        BY <2>1, SettledKept
    <2>. QED  BY <2>2, <2>3
<1>3. \A w \in DisconnectWorkers, c \in Binders : (Settled(worker[w].a, c))' <=> Settled(worker[w].a, c)'
    OBVIOUS
<1>. QED  BY <1>1, <1>2, <1>3 DEF WorkFits

\* A step of worker w: what the rows say is settled, nobody else gains a lease,
\* and what w has passed is settled.
LEMMA WorkMoved ==
    ASSUME JobberTypes, BarriersFit, BindingsStep, WorkFits, UNCHANGED barrier, NEW w \in DisconnectWorkers, OthersWorker(w),
           \A x \in JobberAccounts, c \in Binders : work'[x].status = "completed" \/ c <= work'[x].cursor => Settled(x, c)',
           \A x \in JobberAccounts, v \in DisconnectWorkers \ {w} : work'[x].lease = v => work[x].lease = v,
           worker'[w].at \in {"query", "page"} => worker'[w].a \in JobberAccounts,
           \A x \in JobberAccounts, c \in Binders :
              worker'[w].at \in {"query", "page"} /\ worker'[w].a = x /\ work'[x].lease = w /\ barrier[x] = worker'[w].level =>
                 IF worker'[w].at = "query" THEN c <= worker'[w].last => Settled(x, c)'
                 ELSE c \notin worker'[w].left /\ (worker'[w].more => c <= worker'[w].last) => Settled(x, c)'
    PROVE  WorkFits'
<1>1. ASSUME NEW v \in DisconnectWorkers \ {w}, NEW x \in JobberAccounts, x = worker[v].a, 
             worker[v].at \in {"query", "page"}, work'[x].lease = v, barrier[x] = worker[v].level,
             NEW c \in Binders
      PROVE  IF worker[v].at = "query" THEN c <= worker[v].last => Settled(x, c)'
             ELSE c \notin worker[v].left /\ (worker[v].more => c <= worker[v].last) => Settled(x, c)'
    <2>1. work[x].lease = v
        BY <1>1
    <2>2. IF worker[v].at = "query" THEN c <= worker[v].last => Settled(x, c)
             ELSE c \notin worker[v].left /\ (worker[v].more => c <= worker[v].last) => Settled(x, c)
        BY <1>1, <2>1 DEF WorkFits
    <2>3. Settled(x, c) => Settled(x, c)'
        BY SettledKept
    <2>. QED  BY <2>2, <2>3
<1>2. ASSUME NEW v \in DisconnectWorkers, worker'[v].at \in {"query", "page"}, work'[worker'[v].a].lease = v,
             barrier[worker'[v].a] = worker'[v].level, NEW c \in Binders
      PROVE  IF worker'[v].at = "query" THEN c <= worker'[v].last => (Settled(worker[v].a, c))'
             ELSE c \notin worker'[v].left /\ (worker'[v].more => c <= worker'[v].last) => (Settled(worker[v].a, c))'
    <2>1. worker'[v].a \in JobberAccounts
        <3>1. CASE v = w
            BY <3>1, <1>2
        <3>2. CASE v # w
            <4>1. worker'[v] = worker[v]
                BY <3>2 DEF OthersWorker
            <4>. QED  BY <4>1, <1>2, WorkerFields
        <3>. QED  BY <3>1, <3>2
    <2>2. PICK x \in JobberAccounts : x = worker'[v].a
        BY <2>1
    <2>3. (Settled(worker[v].a, c))' <=> Settled(x, c)'
        BY <2>2 DEF Settled
    <2>4. CASE v = w
        BY <2>2, <2>3, <2>4, <1>2
    <2>5. CASE v # w
        <3>1. worker'[v] = worker[v]
            BY <2>5 DEF OthersWorker
        <3>. QED  BY <3>1, <2>2, <2>3, <2>5, <1>2, <1>1
    <2>. QED  BY <2>4, <2>5
<1>. QED  BY <1>2 DEF WorkFits

LEMMA WorkerWritten ==
    ASSUME JobberTypes, NEW w \in DisconnectWorkers, NEW s \in Outside \cup WorkerRuns, worker' = [worker EXCEPT ![w] = s]
    PROVE  WorkersTyped /\ worker'[w] = s /\ OthersWorker(w)
    BY DEF WorkersTyped, OthersWorker, JobberTypes

LEMMA WorkerGone ==
    ASSUME JobberTypes, NEW w \in DisconnectWorkers, worker[w].at \notin {"idle", "away"}, NEW to \in {"idle", "failed"}, Jobber!WorkerGoes(w, to)
    PROVE  WorkersTyped /\ OthersWorker(w) /\ worker'[w].at = to
<1>1. worker[w] \in WorkerRuns
    BY WorkerFields
<1> DEFINE s == [worker[w] EXCEPT !.at = to]
<1>2. s \in WorkerRuns /\ s.at = to
    BY <1>1 DEF WorkerRuns
<1>3. worker' = [worker EXCEPT ![w] = s]
    BY DEF Jobber!WorkerGoes, JobberTypes
<1> HIDE DEF s
<1>. QED  BY <1>2, <1>3, WorkerWritten

LEMMA WorkWritten ==
    ASSUME JobberTypes, LeasesFit, NEW a \in JobberAccounts, NEW row \in WorkRows, work' = [work EXCEPT ![a] = row],
           row.lease # None <=> row.status = "processing"
    PROVE  WorkTyped /\ work'[a] = row /\ OthersWork(a) /\ LeasesFit'
    BY DEF WorkTyped, OthersWork, JobberTypes, LeasesFit

\* Work is given up: its row keeps the cursor.
LEMMA GivenIs ==
    ASSUME NEW row \in WorkRows, NEW tries \in Nat, NEW n, n = Jobber!Given(row, tries)
    PROVE  n \in WorkRows /\ n.lease = None /\ n.status \in {"pending", "needs_review"} /\ n.cursor = row.cursor
<1> DEFINE s == IF tries >= MaxJobberAttempts THEN "needs_review" ELSE "pending"
           t == IF tries >= MaxJobberAttempts THEN MaxJobberAttempts ELSE tries
<1>1. s \in {"pending", "needs_review"} /\ t \in 0 .. MaxJobberAttempts
    BY JobberConstants
<1>2. n = [row EXCEPT !.status = s, !.tries = t, !.lease = None, !.live = FALSE]
    BY DEF Jobber!Given
<1> HIDE DEF s, t
<1>. QED  BY <1>1, <1>2 DEF WorkRows

WorkerStep(w) ==
    /\ BindingsStep /\ WorkTyped /\ WorkersTyped /\ LeasesFit' /\ WorkFits'
    /\ jobberFaults' \in 0 .. MaxJobberFaults

LEMMA AcquireWorkMoves ==
    ASSUME JobberTypes, BarriersFit, WorkFits, NEW w \in DisconnectWorkers, NEW a \in JobberAccounts, Jobber!AcquireWork(w, a)
    PROVE  WorkerStep(w)
<1> DEFINE tries == work[a].tries + IF work[a].status = "processing" THEN 1 ELSE 0
           given == Jobber!Given(work[a], tries)
           taken == [work[a] EXCEPT !.status = "processing", !.lease = w, !.live = TRUE, !.tries = tries]
<1>0. worker[w].at = "idle" /\ UNCHANGED <<barrier, binding, consent, captured>>
    BY DEF Jobber!AcquireWork, Jobber!WorkerFrame, Jobber!history
<1>1. work[a] \in WorkRows /\ tries \in Nat /\ LeasesFit /\ barrier[a] \in Nat /\ work[a].cursor \in Nat
    BY DEF JobberTypes, WorkRows, BarriersFit, LeasesFit
<1>2. BindingsStep /\ \A x \in JobberAccounts, c \in Binders : Settled(x, c) => Settled(x, c)'
    BY <1>0, BindingsKept, SettledKept DEF JobberTypes
<1>3. CASE work' = [work EXCEPT ![a] = given] /\ UNCHANGED <<worker, jobberFaults>>
    <2>1. given \in WorkRows /\ given.lease = None /\ given.status \in {"pending", "needs_review"} /\ given.cursor = work[a].cursor
        <3>1. given = Jobber!Given(work[a], tries)
            OBVIOUS
        <3> HIDE DEF given, tries
        <3>. QED  BY <1>1, <3>1, GivenIs
    <2> HIDE DEF given
    <2>2. WorkTyped /\ work'[a] = given /\ OthersWork(a) /\ LeasesFit'
        BY <2>1, <1>1, <1>3, WorkWritten
    <2>3. \A x \in JobberAccounts, c \in Binders : work'[x].status = "completed" \/ c <= work'[x].cursor => Settled(x, c)'
        BY <2>1, <2>2, <1>2 DEF OthersWork, WorkFits
    <2>4. \A x \in JobberAccounts, v \in DisconnectWorkers : work'[x].lease = v => work[x].lease = v
        BY <2>1, <2>2, JobberConstants DEF OthersWork
    <2>5. OthersWorker(w) /\ worker'[w].at = "idle" /\ WorkersTyped
        BY <1>0, <1>3 DEF OthersWorker, WorkersTyped, JobberTypes
    <2>6. WorkFits'
        BY <1>0, <1>2, <2>3, <2>4, <2>5, WorkMoved
    <2>. QED  BY <1>2, <1>3, <2>2, <2>5, <2>6 DEF WorkerStep, JobberTypes
<1>4. CASE /\ tries < MaxJobberAttempts
           /\ work' = [work EXCEPT ![a] = taken]
           /\ \E at \in Jobber!Reported("query", "idle") :
                 /\ Jobber!Charged(at, "idle")
                 /\ worker' = [worker EXCEPT ![w] = IF at = "idle" THEN [at |-> "idle"]
                       ELSE [at |-> "query", a |-> a, level |-> barrier[a], left |-> {}, last |-> work[a].cursor, more |-> FALSE]]
    <2>1. taken \in WorkRows /\ taken.lease = w /\ taken.status = "processing" /\ taken.cursor = work[a].cursor
        <3>1. tries \in 0 .. MaxJobberAttempts
            BY <1>1, <1>4, JobberConstants
        <3> HIDE DEF tries
        <3>. QED  BY <1>1, <3>1 DEF WorkRows
    <2> HIDE DEF taken
    <2>2. WorkTyped /\ work'[a] = taken /\ OthersWork(a) /\ LeasesFit'
        BY <2>1, <1>1, <1>4, WorkWritten, JobberConstants
    <2>3. \A x \in JobberAccounts, c \in Binders : work'[x].status = "completed" \/ c <= work'[x].cursor => Settled(x, c)'
        BY <2>1, <2>2, <1>2 DEF OthersWork, WorkFits
    <2>4. \A x \in JobberAccounts, v \in DisconnectWorkers \ {w} : work'[x].lease = v => work[x].lease = v
        BY <2>1, <2>2 DEF OthersWork
    <2>5. PICK at \in Jobber!Reported("query", "idle") :
                 /\ Jobber!Charged(at, "idle")
                 /\ worker' = [worker EXCEPT ![w] = IF at = "idle" THEN [at |-> "idle"]
                       ELSE [at |-> "query", a |-> a, level |-> barrier[a], left |-> {}, last |-> work[a].cursor, more |-> FALSE]]
        BY <1>4
    <2>6. at \in {"query", "idle"} /\ jobberFaults' \in 0 .. MaxJobberFaults
        BY <2>5, FaultsCharged DEF JobberTypes
    <2>7. CASE at = "idle"
        <3> DEFINE s == [at |-> "idle"]
        <3>1. worker' = [worker EXCEPT ![w] = s] /\ s \in Outside /\ s.at = "idle"
            BY <2>5, <2>7 DEF Outside
        <3> HIDE DEF s
        <3>2. WorkersTyped /\ worker'[w].at = "idle" /\ OthersWorker(w)
            BY <3>1, WorkerWritten
        <3>3. WorkFits'
            BY <1>0, <1>2, <2>3, <2>4, <3>2, WorkMoved
        <3>. QED  BY <1>2, <2>2, <2>6, <3>2, <3>3 DEF WorkerStep
    <2>8. CASE at = "query"
        <3> DEFINE s == [at |-> "query", a |-> a, level |-> barrier[a], left |-> {}, last |-> work[a].cursor, more |-> FALSE]
        <3>1. worker' = [worker EXCEPT ![w] = s]
            BY <2>5, <2>8
        <3>2. s \in WorkerRuns /\ s.at = "query" /\ s.a = a /\ s.last = work[a].cursor
            BY <1>1 DEF WorkerRuns
        <3> HIDE DEF s
        <3>3. WorkersTyped /\ worker'[w] = s /\ OthersWorker(w)
            BY <3>1, <3>2, WorkerWritten
        <3>4. \A c \in Binders : c <= work[a].cursor => Settled(a, c)'
            BY <1>2 DEF WorkFits
        <3>5. WorkFits'
            BY <1>0, <1>2, <2>3, <2>4, <3>2, <3>3, <3>4, WorkMoved
        <3>. QED  BY <1>2, <2>2, <2>6, <3>3, <3>5 DEF WorkerStep
    <2>. QED  BY <2>6, <2>7, <2>8
<1>5. \/ work' = [work EXCEPT ![a] = given] /\ UNCHANGED <<worker, jobberFaults>>
      \/ /\ ~(tries >= MaxJobberAttempts)
         /\ work' = [work EXCEPT ![a] = taken]
         /\ \E at \in Jobber!Reported("query", "idle") :
               /\ Jobber!Charged(at, "idle")
               /\ worker' = [worker EXCEPT ![w] = IF at = "idle" THEN [at |-> "idle"]
                     ELSE [at |-> "query", a |-> a, level |-> barrier[a], left |-> {}, last |-> work[a].cursor, more |-> FALSE]]
    BY DEF Jobber!AcquireWork, JobberTypes
<1>6. ~(tries >= MaxJobberAttempts) => tries < MaxJobberAttempts
    BY <1>1, JobberConstants
<1> HIDE DEF given, taken, tries
<1>. QED  BY <1>3, <1>4, <1>5, <1>6

LEMMA QueryPageMoves ==
    ASSUME JobberTypes, BarriersFit, WorkFits, NEW w \in DisconnectWorkers, Jobber!QueryPage(w)
    PROVE  WorkerStep(w)
<1>0. worker[w].at = "query" /\ UNCHANGED <<barrier, binding, consent, captured, work, jobberFaults>>
    BY DEF Jobber!QueryPage, Jobber!WorkerFrame, Jobber!history
<1>1. /\ worker[w] \in WorkerRuns /\ worker[w].a \in JobberAccounts /\ worker[w].last \in Nat
      /\ binding \in [Binders -> Bindings]
    BY <1>0, WorkerFields DEF JobberTypes
<1>2. BindingsStep /\ \A x \in JobberAccounts, c \in Binders : Settled(x, c) => Settled(x, c)'
    BY <1>0, <1>1, BindingsKept, SettledKept
<1>3. PICK a \in JobberAccounts, after \in Nat, rest \in SUBSET Binders : 
              a = worker[w].a /\ after = worker[w].last /\ rest = {c \in Binders : binding[c].acct = a /\ c > after}
              /\ rest = Jobber!PageFrom(worker[w].a, worker[w].last)
    BY <1>1 DEF Jobber!PageFrom, Binders
<1> DEFINE Left == Jobber!PageFrom(worker[w].a, worker[w].last)
<1>4. \E page \in SUBSET Left, last \in Left \cup {0} :
              /\ Jobber!IsPage(page, Left)
              /\ IF page = {} THEN last = 0 ELSE last \in page /\ \A c \in page : c <= last
              /\ worker' = [worker EXCEPT ![w] = [@ EXCEPT !.at = "page", !.left = page, !.more = Jobber!Cardinality(page) = PageSize,
                                                         !.last = last]]
    BY DEF Jobber!QueryPage
<1>5. rest = Left
    BY <1>3
<1>6. PICK page \in SUBSET rest, last \in rest \cup {0} :
              /\ Jobber!IsPage(page, rest)
              /\ IF page = {} THEN last = 0 ELSE last \in page /\ \A c \in page : c <= last
              /\ worker' = [worker EXCEPT ![w] = [@ EXCEPT !.at = "page", !.left = page, !.more = Jobber!Cardinality(page) = PageSize,
                                                         !.last = last]]
    <2> HIDE DEF Left
    <2>. QED  BY <1>4, <1>5, Zenon
<1> DEFINE more == Jobber!Cardinality(page) = PageSize
           s == [worker[w] EXCEPT !.at = "page", !.left = page, !.more = more, !.last = last]
<1>7. worker' = [worker EXCEPT ![w] = s]
    BY <1>6 DEF JobberTypes
<1>8. page \subseteq Binders /\ last \in Nat /\ more \in BOOLEAN
    BY <1>3, <1>6, JobberConstants
<1>9. more => page # {} \/ last = 0
    BY <1>6
<1>10. ~more => page = rest
    BY <1>6 DEF Jobber!IsPage
<1> HIDE DEF more
<1>11. s \in WorkerRuns /\ s.at = "page" /\ s.a = a /\ s.left = page /\ s.more = more /\ s.last = last /\ s.level = worker[w].level
    BY <1>1, <1>3, <1>8 DEF WorkerRuns
<1> HIDE DEF s
<1>12. WorkersTyped /\ worker'[w] = s /\ OthersWorker(w)
    BY <1>7, <1>11, WorkerWritten
<1>13. ASSUME work[a].lease = w, barrier[a] = worker[w].level, NEW c \in Binders, c \notin page, more => c <= last
       PROVE  Settled(a, c)'
    <2>1. c \in Nat /\ c > 0
        BY JobberConstants
    <2>2. CASE c <= after
        <3>1. Settled(a, c)
            BY <2>2, <1>0, <1>3, <1>13 DEF WorkFits
        <3>. QED  BY <3>1, <1>2
    <2>3. CASE c > after /\ binding[c].acct # a
        <3>1. Settled(a, c)
            BY <2>3 DEF Settled
        <3>. QED  BY <3>1, <1>2
    <2>4. CASE c > after /\ binding[c].acct = a
        <3>1. c \in rest
            BY <2>4, <1>3
        <3>2. more
            BY <3>1, <1>10, <1>13
        <3>3. c <= last /\ page # {} /\ last \in page
            BY <3>2, <1>13, <1>9, <1>6, <2>1
        <3>4. c # last /\ c < last
            BY <3>3, <1>13, <2>1, <1>8
        <3>5. c \in page
            BY <3>1, <3>3, <3>4, <1>6 DEF Jobber!IsPage
        <3>. QED  BY <3>5, <1>13
    <2>. QED  BY <2>1, <2>2, <2>3, <2>4, <1>3
<1>14. \A x \in JobberAccounts, c \in Binders : work'[x].status = "completed" \/ c <= work'[x].cursor => Settled(x, c)'
    BY <1>0, <1>2 DEF WorkFits
<1>15. WorkFits'
    BY <1>0, <1>1, <1>2, <1>11, <1>12, <1>3, <1>13, <1>14, WorkMoved
<1>16. WorkTyped /\ LeasesFit'
    BY <1>0 DEF WorkTyped, LeasesFit, BarriersFit, JobberTypes
<1>. QED  BY <1>0, <1>2, <1>12, <1>15, <1>16 DEF WorkerStep, JobberTypes

LEMMA AdvanceMoves ==
    ASSUME JobberTypes, BarriersFit, WorkFits, NEW w \in DisconnectWorkers, Jobber!Advance(w)
    PROVE  WorkerStep(w)
<1> DEFINE a == worker[w].a
           c == Jobber!Lowest(worker[w].left)
           b == binding[c]
           elsewhere == b.acct # a \/ b.accepted = None
           behind == b.accepted < barrier[a] /\ b.processed # barrier[a]
           broken == ~Jobber!Leased(w) \/ (~elsewhere /\ (c \in Unreadable \/ (behind /\ Jobber!UnauditedOwner(b))))
           left == worker[w].left \ {c}
           s == [worker[w] EXCEPT !.left = left]
<1>0. worker[w].at = "page" /\ UNCHANGED <<barrier, consent, captured, work, jobberFaults>>
    BY DEF Jobber!Advance, Jobber!WorkerFrame, Jobber!history
<1>1. /\ worker[w] \in WorkerRuns /\ worker[w].a \in JobberAccounts /\ worker[w].left \subseteq Binders
      /\ binding \in [Binders -> Bindings] /\ barrier \in [JobberAccounts -> Nat]
    BY <1>0, WorkerFields DEF JobberTypes
<1>2. WorkTyped /\ LeasesFit' /\ jobberFaults' \in 0 .. MaxJobberFaults
    BY <1>0 DEF WorkTyped, LeasesFit, BarriersFit, JobberTypes
<1>3. \/ broken /\ Jobber!WorkerGoes(w, "failed") /\ UNCHANGED binding
      \/ /\ ~broken
         /\ worker' = [worker EXCEPT ![w].left = @ \ {c}]
         /\ binding' = IF ~elsewhere /\ behind THEN [binding EXCEPT ![c] = Jobber!Suspend(b)] ELSE binding
    BY Zenon DEF Jobber!Advance
<1>4. CASE Jobber!WorkerGoes(w, "failed") /\ UNCHANGED binding
    <2>1. BindingsStep /\ \A x \in JobberAccounts, d \in Binders : Settled(x, d) => Settled(x, d)'
        BY <1>0, <1>1, <1>4, BindingsKept, SettledKept
    <2>2. WorkersTyped /\ OthersWorker(w) /\ worker'[w].at = "failed"
        BY <1>0, <1>4, WorkerGone
    <2>3. WorkFits'
        BY <1>0, <2>1, <2>2, WorkMoved DEF WorkFits
    <2>. QED  BY <1>2, <2>1, <2>2, <2>3 DEF WorkerStep
<1>5. CASE /\ ~broken
           /\ worker' = [worker EXCEPT ![w].left = @ \ {c}]
           /\ binding' = IF ~elsewhere /\ behind THEN [binding EXCEPT ![c] = Jobber!Suspend(b)] ELSE binding
    <2>1. left \subseteq Binders /\ worker' = [worker EXCEPT ![w] = s]
        BY <1>1, <1>5 DEF JobberTypes
    <2>2. s \in WorkerRuns /\ s.at = "page" /\ s.a = a /\ s.left = left /\ s.more = worker[w].more /\ s.last = worker[w].last
          /\ s.level = worker[w].level
        <3> HIDE DEF left
        <3>. QED  BY <1>0, <1>1, <2>1 DEF WorkerRuns
    <2>3. WorkersTyped /\ worker'[w] = s /\ OthersWorker(w)
        <3> HIDE DEF s
        <3>. QED  BY <2>1, <2>2, WorkerWritten
    <2>4. c \in Binders /\ ~elsewhere /\ behind => Jobber!Suspend(b) \in Bindings /\ Suspends(b, Jobber!Suspend(b))
          /\ Jobber!Suspend(b).processed = barrier[a]
        <3> SUFFICES ASSUME c \in Binders, ~elsewhere, behind
                     PROVE  Jobber!Suspend(b) \in Bindings /\ Suspends(b, Jobber!Suspend(b)) /\ Jobber!Suspend(b).processed = barrier[a]
            OBVIOUS
        <3>1. Jobber!Stale(b) /\ b.acct = a
            BY DEF Jobber!Stale
        <3>2. PICK d \in Binders : d = c
            OBVIOUS
        <3>3. Jobber!Suspend(b) \in Bindings /\ Suspends(b, Jobber!Suspend(b))
            BY <3>1, <3>2, BehindIsSuspended
        <3>. QED  BY <3>1, <3>3 DEF Suspends
    <2>5. BindingsStep /\ (c \in Binders /\ ~elsewhere /\ behind => binding'[c].processed = barrier[a])
        <3>1. CASE c \in Binders /\ ~elsewhere /\ behind
            <4> DEFINE n == Jobber!Suspend(b)
            <4>1. binding' = [binding EXCEPT ![c] = n] /\ n \in Bindings /\ Suspends(b, n) /\ n.processed = barrier[a]
                BY <1>5, <2>4, <3>1
            <4> HIDE DEF n
            <4>2. PICK d \in Binders : d = c
                BY <3>1
            <4>3. BindingsStep
                BY <4>1, <4>2, <1>0, <1>1, BindingMoved
            <4>. QED  BY <4>1, <4>2, <4>3, <1>1
        <3>2. CASE c \notin Binders
            <4>1. UNCHANGED binding
                BY <1>1, <1>5, <3>2
            <4>. QED  BY <4>1, <3>2, <1>0, <1>1, BindingsKept
        <3>3. CASE ~(~elsewhere /\ behind)
            <4>1. UNCHANGED binding
                BY <1>5, <3>3
            <4>. QED  BY <4>1, <3>3, <1>0, <1>1, BindingsKept
        <3>. QED  BY <3>1, <3>2, <3>3
    <2>6. \A x \in JobberAccounts, d \in Binders : Settled(x, d) => Settled(x, d)'
        BY <1>0, <2>5, SettledKept
    <2>12. PICK d : d = c
        OBVIOUS
    <2>7. PICK x \in JobberAccounts : x = a /\ d = c
        BY <1>1, <2>12
    <2>8. d \in Binders => Settled(x, d)'
        <3> SUFFICES ASSUME d \in Binders PROVE Settled(x, d)'
            OBVIOUS
        <3>1. CASE elsewhere
            <4>1. Settled(x, d)
                BY <3>1, <2>7 DEF Settled
            <4>. QED  BY <4>1, <2>6
        <3>2. CASE ~elsewhere /\ behind
            <4>1. binding'[d].processed = barrier'[x]
                BY <2>5, <2>7, <3>2, <1>0
            <4>. QED  BY <4>1 DEF Settled
        <3>3. CASE ~elsewhere /\ ~behind
            <4>1. binding[d].accepted \in Nat /\ binding[d].accepted <= barrier[x] /\ barrier[x] \in Nat /\ binding[d].acct = x
                BY <2>7, <3>3, <1>1 DEF BarriersFit, Bindings
            <4>2. binding[d].accepted = barrier[x] \/ binding[d].processed = barrier[x]
                BY <4>1, <3>3, <2>7
            <4>3. Settled(x, d)
                BY <4>2 DEF Settled
            <4>. QED  BY <4>3, <2>6
        <3>. QED  BY <3>1, <3>2, <3>3
    <2>9. ASSUME work[x].lease = w, barrier[x] = worker[w].level, NEW e \in Binders, e \notin left, worker[w].more => e <= worker[w].last
          PROVE  Settled(x, e)'
        <3>1. CASE e = d
            BY <3>1, <2>8
        <3>2. CASE e # d
            <4>1. e \notin worker[w].left
                BY <2>9, <2>7, <3>2
            <4>2. Settled(x, e)
                BY <4>1, <2>7, <2>9, <1>0 DEF WorkFits
            <4>. QED  BY <4>2, <2>6
        <3>. QED  BY <3>1, <3>2
    <2>10. \A y \in JobberAccounts, e \in Binders : work'[y].status = "completed" \/ e <= work'[y].cursor => Settled(y, e)'
        BY <1>0, <2>6 DEF WorkFits
    <2> HIDE DEF s, left
    <2>11. WorkFits'
        <3>1. s.a = x
            BY <2>2, <2>7
        <3> HIDE DEF a, b, c, elsewhere, behind, broken
        <3>. QED  BY <1>0, <2>2, <2>3, <2>5, <2>7, <2>9, <2>10, <3>1, WorkMoved
    <2>. QED  BY <1>2, <2>3, <2>5, <2>11 DEF WorkerStep
<1>. QED  BY <1>3, <1>4, <1>5

LEMMA FinalizeWorkMoves ==
    ASSUME JobberTypes, BarriersFit, WorkFits, NEW w \in DisconnectWorkers, Jobber!FinalizeWork(w)
    PROVE  WorkerStep(w)
<1>0. worker[w].at = "page" /\ worker[w].left = {} /\ UNCHANGED <<barrier, consent, captured, binding, jobberFaults>>
    BY DEF Jobber!FinalizeWork, Jobber!WorkerFrame, Jobber!history
<1>1. /\ worker[w] \in WorkerRuns /\ worker[w].last \in Nat /\ LeasesFit
      /\ binding \in [Binders -> Bindings] /\ barrier \in [JobberAccounts -> Nat]
    BY <1>0, WorkerFields DEF JobberTypes, BarriersFit, LeasesFit
<1>2. PICK a \in JobberAccounts, more \in BOOLEAN, last \in Nat : a = worker[w].a /\ more = worker[w].more /\ last = worker[w].last
    BY <1>0, WorkerFields
<1>3. BindingsStep /\ \A x \in JobberAccounts, d \in Binders : Settled(x, d) => Settled(x, d)'
    BY <1>0, <1>1, BindingsKept, SettledKept
<1>4. jobberFaults' \in 0 .. MaxJobberFaults
    BY <1>0 DEF JobberTypes
<1> DEFINE status == IF more THEN "pending" ELSE "completed"
           cursor == IF more THEN last ELSE 0
           row == [status |-> status, lease |-> None, live |-> FALSE, tries |-> 0, cursor |-> cursor]
<1>5. CASE Jobber!Leased(w) /\ Jobber!WorkerGoes(w, "idle") /\ work' = [work EXCEPT ![a] = row]
    <2>1. status \in {"pending", "completed"} /\ cursor \in Nat /\ 0 \in 0 .. MaxJobberAttempts
        BY JobberConstants
    <2>2. (more => cursor = last /\ status = "pending") /\ (~more => cursor = 0)
        OBVIOUS
    <2> HIDE DEF status, cursor
    <2>3. row \in WorkRows /\ row.lease = None /\ row.status = status /\ row.cursor = cursor
        BY <2>1 DEF WorkRows
    <2> HIDE DEF row
    <2>4. WorkTyped /\ work'[a] = row /\ OthersWork(a) /\ LeasesFit'
        BY <1>1, <1>5, <2>1, <2>3, WorkWritten
    <2>5. WorkersTyped /\ OthersWorker(w) /\ worker'[w].at = "idle"
        BY <1>0, <1>5, WorkerGone
    <2>6. work[a].lease = w /\ barrier[a] = worker[w].level
        BY <1>2, <1>5 DEF Jobber!Leased
    <2>7. \A d \in Binders : (more => d <= last) => Settled(a, d)'
        BY <1>0, <1>2, <1>3, <2>6 DEF WorkFits
    <2>8. \A d \in Binders : row.status = "completed" \/ d <= row.cursor => Settled(a, d)'
        <3> SUFFICES ASSUME NEW d \in Binders, row.status = "completed" \/ d <= row.cursor PROVE more => d <= last
            BY <2>7
        <3>. QED  BY <2>2, <2>3, <2>1
    <2>9. \A x \in JobberAccounts, d \in Binders : work'[x].status = "completed" \/ d <= work'[x].cursor => Settled(x, d)'
        BY <2>4, <2>8, <1>3 DEF OthersWork, WorkFits
    <2>10. \A x \in JobberAccounts, v \in DisconnectWorkers \ {w} : work'[x].lease = v => work[x].lease = v
        BY <2>3, <2>4, JobberConstants DEF OthersWork
    <2>11. WorkFits'
        BY <1>0, <1>3, <2>5, <2>9, <2>10, WorkMoved
    <2>. QED  BY <1>3, <1>4, <2>4, <2>5, <2>11 DEF WorkerStep
<1>6. CASE Jobber!WorkerGoes(w, "failed") /\ UNCHANGED work
    <2>1. WorkersTyped /\ OthersWorker(w) /\ worker'[w].at = "failed"
        BY <1>0, <1>6, WorkerGone
    <2>2. WorkTyped /\ LeasesFit'
        BY <1>1, <1>6 DEF WorkTyped, LeasesFit, JobberTypes
    <2>3. WorkFits'
        BY <1>0, <1>3, <1>6, <2>1, WorkMoved DEF WorkFits
    <2>. QED  BY <1>3, <1>4, <2>1, <2>2, <2>3 DEF WorkerStep
<1>7. \/ Jobber!Leased(w) /\ Jobber!WorkerGoes(w, "idle") /\ work' = [work EXCEPT ![a] = row]
      \/ Jobber!WorkerGoes(w, "failed") /\ UNCHANGED work
    BY <1>2 DEF Jobber!FinalizeWork
<1> HIDE DEF row
<1>. QED  BY <1>5, <1>6, <1>7

LEMMA ReleaseWorkMoves ==
    ASSUME JobberTypes, BarriersFit, WorkFits, NEW w \in DisconnectWorkers, Jobber!ReleaseWork(w)
    PROVE  WorkerStep(w)
<1>0. worker[w].at = "failed" /\ UNCHANGED <<barrier, consent, captured, binding, jobberFaults>> /\ Jobber!WorkerGoes(w, "idle")
    BY DEF Jobber!ReleaseWork, Jobber!WorkerFrame, Jobber!history
<1>1. /\ LeasesFit /\ binding \in [Binders -> Bindings] /\ worker[w].a \in JobberAccounts
    BY <1>0, WorkerFields DEF JobberTypes, BarriersFit, LeasesFit
<1>2. PICK a \in JobberAccounts : a = worker[w].a
    BY <1>1
<1>3. BindingsStep /\ \A x \in JobberAccounts, d \in Binders : Settled(x, d) => Settled(x, d)'
    BY <1>0, <1>1, BindingsKept, SettledKept
<1>4. jobberFaults' \in 0 .. MaxJobberFaults
    BY <1>0 DEF JobberTypes
<1>5. WorkersTyped /\ OthersWorker(w) /\ worker'[w].at = "idle"
    BY <1>0, WorkerGone
<1> DEFINE tries == work[a].tries + 1
           given == Jobber!Given(work[a], tries)
<1>6. CASE work' = [work EXCEPT ![a] = given]
    <2>1. work[a] \in WorkRows /\ tries \in Nat
        BY DEF JobberTypes, WorkRows
    <2>2. given \in WorkRows /\ given.lease = None /\ given.status \in {"pending", "needs_review"} /\ given.cursor = work[a].cursor
        <3>1. given = Jobber!Given(work[a], tries)
            OBVIOUS
        <3> HIDE DEF given, tries
        <3>. QED  BY <2>1, <3>1, GivenIs
    <2> HIDE DEF given
    <2>3. WorkTyped /\ work'[a] = given /\ OthersWork(a) /\ LeasesFit'
        BY <2>2, <1>1, <1>6, WorkWritten
    <2>4. \A x \in JobberAccounts, c \in Binders : work'[x].status = "completed" \/ c <= work'[x].cursor => Settled(x, c)'
        BY <2>2, <2>3, <1>3 DEF OthersWork, WorkFits
    <2>5. \A x \in JobberAccounts, v \in DisconnectWorkers : work'[x].lease = v => work[x].lease = v
        BY <2>2, <2>3, JobberConstants DEF OthersWork
    <2>6. WorkFits'
        BY <1>0, <1>3, <1>5, <2>4, <2>5, WorkMoved
    <2>. QED  BY <1>3, <1>4, <1>5, <2>3, <2>6 DEF WorkerStep
<1>7. CASE UNCHANGED work
    <2>2. WorkTyped /\ LeasesFit'
        BY <1>1, <1>7 DEF WorkTyped, LeasesFit, JobberTypes
    <2>3. WorkFits'
        BY <1>0, <1>3, <1>5, <1>7, WorkMoved DEF WorkFits
    <2>. QED  BY <1>3, <1>4, <1>5, <2>2, <2>3 DEF WorkerStep
<1>8. UNCHANGED work \/ work' = [work EXCEPT ![a] = given]
    BY <1>2 DEF Jobber!ReleaseWork, JobberTypes
<1> HIDE DEF given
<1>. QED  BY <1>6, <1>7, <1>8

LEMMA StopMoves ==
    ASSUME JobberTypes, BarriersFit, WorkFits, NEW w \in DisconnectWorkers, Jobber!WorkerStops(w)
    PROVE  WorkerStep(w)
<1>0. worker[w].at \notin {"idle", "away"} /\ jobberFaults < MaxJobberFaults /\ jobberFaults' = jobberFaults + 1
      /\ UNCHANGED <<barrier, consent, captured, binding, work>>
    BY DEF Jobber!WorkerStops, Jobber!WorkerFrame, Jobber!history
<1>1. /\ LeasesFit /\ binding \in [Binders -> Bindings] /\ worker[w] \in WorkerRuns
    BY <1>0, WorkerFields DEF JobberTypes, BarriersFit, LeasesFit
<1>2. BindingsStep /\ \A x \in JobberAccounts, d \in Binders : Settled(x, d) => Settled(x, d)'
    BY <1>0, <1>1, BindingsKept, SettledKept
<1>3. WorkersTyped /\ OthersWorker(w) /\ worker'[w].at \in {"idle", "failed"}
    <2>1. PICK at \in {"idle", "failed"} : worker' = [worker EXCEPT ![w] = IF at = "idle" THEN [at |-> at] ELSE [@ EXCEPT !.at = at]]
        BY DEF Jobber!WorkerStops
    <2> DEFINE s == IF at = "idle" THEN [at |-> at] ELSE [worker[w] EXCEPT !.at = at]
    <2>2. worker' = [worker EXCEPT ![w] = s]
        BY <2>1 DEF JobberTypes
    <2>3. s \in Outside \cup WorkerRuns /\ s.at = at
        BY <1>1 DEF Outside, WorkerRuns
    <2> HIDE DEF s
    <2>. QED  BY <2>2, <2>3, WorkerWritten
<1>4. jobberFaults' \in 0 .. MaxJobberFaults
    BY <1>0, FaultAdded DEF JobberTypes
<1>5. WorkTyped /\ LeasesFit'
    BY <1>0, <1>1 DEF WorkTyped, LeasesFit, JobberTypes
<1>6. WorkFits'
    BY <1>0, <1>2, <1>3, WorkMoved DEF WorkFits
<1>. QED  BY <1>2, <1>3, <1>4, <1>5, <1>6 DEF WorkerStep

-----------------------------------------------------------------------------
(* How pairs are handed on.                                                *)

FlowStays(f) == flow'[f].at = flow[f].at /\ flow'[f].got = flow[f].got
UseStays(u) == use'[u] = use[u]

PairsMove ==
    /\ \A u \in TokenUses : UseStays(u) \/ UseMove(u)
    /\ \A u, v \in TokenUses : UseStays(u) \/ UseStays(v) \/ u = v
    /\ \A f \in OAuthFlows : FlowStays(f) \/ FlowMove(f)
    /\ \A f, g \in OAuthFlows : FlowStays(f) \/ FlowStays(g) \/ f = g
    /\ (\A u \in TokenUses : UseStays(u)) \/ (\A f \in OAuthFlows : FlowStays(f))
    /\ pairs' \in {pairs, pairs + 1}
    /\ \/ UNCHANGED renewals
       \/ \E u \in TokenUses :
             use[u].at = "renew" /\ use'[u].at # "renew" /\ renewals' = [renewals EXCEPT ![use[u].pair] = @ + 1]

LEMMA NobodyMoves ==
    ASSUME JobberTypes, UNCHANGED <<use, flow, pairs, renewals>>
    PROVE  PairsMove
    BY DEF PairsMove, UseStays, FlowStays, JobberTypes

LEMMA CallMovesPairs ==
    ASSUME JobberTypes, NEW u \in TokenUses, CallStep(u), UNCHANGED flow,
           \/ UNCHANGED <<pairs, renewals>>
           \/ /\ use[u].at = "renew" /\ use'[u].at # "renew" /\ pairs' \in {pairs, pairs + 1}
              /\ renewals' = [renewals EXCEPT ![use[u].pair] = @ + 1]
    PROVE  PairsMove
    BY DEF PairsMove, UseStays, FlowStays, CallStep, OthersUse, JobberTypes

LEMMA AuthMovesPairs ==
    ASSUME JobberTypes, NEW f \in OAuthFlows, AuthStep(f), UNCHANGED <<use, renewals>>
    PROVE  PairsMove
    BY DEF PairsMove, UseStays, FlowStays, AuthStep, OthersFlow, FlowMove, JobberTypes

\* What a step does to the pair and the generation of a binding.
LEMMA PairSteps ==
    ASSUME JobberTypes, BindingsStep, NEW c \in Binders
    PROVE  /\ binding'[c].gen \in Nat /\ binding'[c].gen >= binding[c].gen
           /\ binding'[c].gen = binding[c].gen => binding'[c].pair = binding[c].pair
           /\ \/ binding'[c].pair = binding[c].pair /\ (Fenced(binding[c]) => Fenced(binding'[c]))
              \/ binding'[c].pair = 0
              \/ \E u \in TokenUses : GotBy(u) /\ use'[u].at # "persist" /\ use[u].c = c /\ binding'[c].pair = use[u].got
              \/ \E f \in OAuthFlows : BoughtBy(f) /\ flow'[f].at # "connect" /\ flow[f].c = c /\ binding'[c].pair = flow[f].got
<1> DEFINE b == binding[c]
           n == binding'[c]
<1>1. b \in Bindings /\ n \in Bindings /\ b.gen \in Nat /\ n.gen \in Nat
    BY DEF JobberTypes, BindingsStep, Bindings
<1>2. ASSUME SameGrant(b, n), SameMarks(b, n), ~Renewing(b)
      PROVE  Fenced(b) => Fenced(n)
    BY <1>2 DEF Fenced, SameGrant, SameMarks, Jobber!Suspended
<1>3. ASSUME Marks(b, n) PROVE Fenced(b) => Fenced(n)
    BY <1>3 DEF Fenced, Marks, SameGrant, SameMarks, Jobber!Suspended, Renewing
<1>4. ASSUME Takes(b, n) PROVE Fenced(b) => Fenced(n)
    BY <1>4 DEF Fenced, Takes, SameGrant, SameMarks, Jobber!Suspended, Renewing
<1>5. ASSUME Captures(b, n) PROVE Fenced(b) => Fenced(n)
    BY <1>5 DEF Fenced, Captures, SameGrant, Jobber!Suspended, Renewing
<1>6. ASSUME Suspends(b, n) PROVE Fenced(n)
    BY <1>6 DEF Fenced, Suspends, Jobber!Suspended
<1>7. ASSUME Fails(b, n) PROVE Fenced(n)
    BY <1>7 DEF Fenced, Fails
<1>8. BindingStep(c)
    BY DEF BindingsStep
<1>9. CASE n = b \/ Drops(b, n) \/ Fails(b, n) \/ Marks(b, n) \/ Takes(b, n) \/ Captures(b, n)
    <2>1. SameGrant(b, n)
        BY <1>9 DEF Drops, Fails, Marks, Takes, Captures, SameGrant
    <2>2. Fenced(b) => Fenced(n)
        <3>1. CASE Drops(b, n)
            BY <3>1, <1>2 DEF Drops
        <3> HIDE DEF b, n
        <3>. QED  BY <1>9, <3>1, <1>3, <1>4, <1>5, <1>7
    <2>. QED  BY <2>1, <2>2, <1>1 DEF SameGrant
<1>10. CASE Suspends(b, n)
    BY <1>10, <1>6, <1>1 DEF Suspends
<1>11. CASE Deletes(b, n)
    BY <1>11, <1>1 DEF Deletes
<1>12. CASE \E u \in TokenUses : GotBy(u) /\ use'[u].at # "persist" /\ use[u].c = c /\ Renews(b, n, use[u].got)
    BY <1>12, <1>1 DEF Renews
<1>13. CASE \E f \in OAuthFlows : 
                /\ BoughtBy(f) /\ flow'[f].at # "connect" /\ flow[f].c = c
                /\ flow[f].dest \in JobberAccounts /\ Connects(b, n, flow[f].got, flow[f].dest)
    BY <1>13, <1>1 DEF Connects
<1>. QED  BY <1>8, <1>9, <1>10, <1>11, <1>12, <1>13 DEF BindingStep

\* Who is about to send a pair just found it on a binding whose pair was never sent.
LEMMA SenderFinds ==
    ASSUME JobberTypes, BindingsStep, PairsMove, PairsAreUnique, RenewalsFit, ClaimsFit,
           NEW u \in TokenUses, use'[u].at = "renew", ~UseStays(u)
    PROVE  /\ use[u].at = "begin" /\ use[u].c \in Binders /\ use'[u].pair = binding'[use[u].c].pair
           /\ use'[u].pair = binding[use[u].c].pair
           /\ use'[u].pair # 0 /\ use'[u].pair \in Nat /\ use'[u].pair <= pairs
           /\ ~Sent(use'[u].pair) /\ Fenced(binding'[use[u].c])
<1>1. UseMove(u)
    BY DEF PairsMove
<1> DEFINE c == use[u].c
<1>2. use[u].at = "begin" /\ use'[u].c = c /\ use'[u].pair = use[u].pair /\ use[u].gen = binding[c].gen
      /\ binding'[c].pair = binding[c].pair
      /\ Jobber!HasPair(binding[c]) /\ ~Jobber!Suspended(binding[c]) /\ ~Renewing(binding[c]) /\ Renewing(binding'[c])
    BY <1>1 DEF UseMove
<1>3. c \in Binders /\ binding[c] \in Bindings
    BY <1>2, UseFields
<1>4. use[u].pair = binding[c].pair
    BY <1>2 DEF ClaimsFit
<1>5. binding[c].pair # 0 /\ binding[c].pair \in Nat /\ binding[c].pair <= pairs /\ ~binding[c].quarantined
    BY <1>2, <1>3 DEF Jobber!HasPair, Bindings, PairsAreUnique
<1>6. ~Sent(binding[c].pair)
    BY <1>2, <1>3, <1>5 DEF RenewalsFit, Fenced
<1>. QED  BY <1>2, <1>3, <1>4, <1>5, <1>6 DEF Fenced

LEMMA BarriersKept ==
    ASSUME JobberTypes, BarriersFit, BindingsStep, UNCHANGED <<counter, barrier>>, LeasesFit'
    PROVE  BarriersFit'
<1>1. ASSUME NEW c \in Binders, binding'[c].accepted # None
      PROVE  /\ binding'[c].acct # None
             /\ binding'[c].accepted <= barrier[binding'[c].acct] /\ binding'[c].accepted <= consent'[c]
    <2>1. BindingStep(c) /\ barrier \in [JobberAccounts -> Nat]
        BY DEF BindingsStep, JobberTypes
    <2>2. binding[c].accepted # None => /\ binding[c].acct # None
              /\ binding[c].accepted <= barrier[binding[c].acct] /\ binding[c].accepted <= consent[c]
        BY DEF BarriersFit
    <2>3. CASE \E f \in OAuthFlows : 
                /\ BoughtBy(f) /\ flow'[f].at # "connect" /\ flow[f].c = c
                /\ flow[f].dest \in JobberAccounts /\ Connects(binding[c], binding'[c], flow[f].got, flow[f].dest)
                /\ barrier[flow[f].dest] <= consent'[c]
        BY <2>1, <2>3, JobberConstants DEF Connects
    <2>4. CASE binding'[c].acct = binding[c].acct /\ binding'[c].accepted = binding[c].accepted /\ consent'[c] = consent[c]
        BY <1>1, <2>2, <2>4
    <2>. QED  BY <1>1, <2>1, <2>3, <2>4
            DEF BindingStep, HistoryKept, Drops, Fails, Marks, Suspends, Deletes, Takes, Captures, Renews, SameGrant
<1>. QED  BY <1>1 DEF BarriersFit, LeasesFit

LEMMA CaptureKept ==
    ASSUME BindingsStep, CaptureFits
    PROVE  CaptureFits'
<1>1. ASSUME NEW c \in Binders, binding'[c].capture PROVE captured'[c].acct = binding'[c].acct
    <2>1. BindingStep(c) /\ (binding[c].capture => captured[c].acct = binding[c].acct)
        BY DEF BindingsStep, CaptureFits
    <2>. QED  BY <1>1, <2>1
            DEF BindingStep, HistoryKept, Drops, Fails, Marks, Suspends, Deletes, Takes, Captures, Renews, Connects,
                SameGrant, SameMarks
<1>. QED  BY <1>1 DEF CaptureFits

LEMMA RevocationKept ==
    ASSUME JobberTypes, RevocationFits, UNCHANGED <<removal, outbox, revoked>>,
           barrier' \in [JobberAccounts -> Nat], \A a \in JobberAccounts : barrier'[a] >= barrier[a]
    PROVE  RevocationFits'
    BY DEF RevocationFits, JobberTypes

LEMMA RevocationMoved ==
    ASSUME JobberTypes, RevocationFits, NEW r \in Removals, GivenStep(r), GivenMove(r), UNCHANGED barrier
    PROVE  RevocationFits'
<1> DEFINE Fits(q) ==
        /\ q \in revoked => removal[q].at \in {"succeeded", "failed", "unknown", "finalize", "done"}
        /\ removal[q].at \in {"admit", "dispatch", "denied"} => removal[q].ctx.acct \in JobberAccounts /\ removal[q].ctx.at \in Nat
        /\ outbox[q] = "not_attempted" =>
              /\ removal[q].at = "done" /\ q \notin revoked
              /\ removal[q].ctx.acct \in JobberAccounts /\ removal[q].ctx.at \in Nat
              /\ barrier[removal[q].ctx.acct] > removal[q].ctx.at
<1>1. \A q \in Removals : Fits(q)
    BY DEF RevocationFits
<1>2. \A q \in Removals \ {r} : Fits(q)'
    BY <1>1 DEF GivenStep, GivenMove, OthersRemoval
<1>3. Fits(r)'
    <2>1. r \in revoked' => removal'[r].at \in {"succeeded", "failed", "unknown", "finalize", "done"}
        BY <1>1 DEF GivenMove
    <2>2. removal'[r].at \in {"admit", "dispatch", "denied"} => removal'[r].ctx.acct \in JobberAccounts /\ removal'[r].ctx.at \in Nat
        BY DEF GivenMove
    <2>3. ASSUME outbox'[r] = "not_attempted"
          PROVE  /\ removal'[r].at = "done" /\ r \notin revoked'
                 /\ removal'[r].ctx.acct \in JobberAccounts /\ removal'[r].ctx.at \in Nat
                 /\ barrier[removal'[r].ctx.acct] > removal'[r].ctx.at
        BY <1>1, <2>3 DEF GivenMove
    <2>. QED  BY <2>1, <2>2, <2>3
<1>. QED  BY <1>2, <1>3 DEF RevocationFits

\* A pair becomes a sent one when a call is about to send it.
LEMMA SentMoves ==
    ASSUME JobberTypes, PairsMove, NEW p, Sent(p)'
    PROVE  Sent(p) \/ \E u \in TokenUses : use'[u].at = "renew" /\ ~UseStays(u) /\ use'[u].pair = p
<1>1. CASE p \in DOMAIN renewals' /\ renewals'[p] # 0
    <2>1. CASE UNCHANGED renewals
        BY <1>1, <2>1 DEF Sent
    <2>2. ASSUME NEW u \in TokenUses, use[u].at = "renew", renewals' = [renewals EXCEPT ![use[u].pair] = @ + 1]
          PROVE  Sent(p)
        BY <1>1, <2>2 DEF Sent
    <2>. QED  BY <2>1, <2>2 DEF PairsMove
<1>2. CASE \E u \in TokenUses : use'[u].at = "renew" /\ use'[u].pair = p
    BY <1>2 DEF Sent, UseStays
<1>. QED  BY <1>1, <1>2 DEF Sent

\* What was sent was issued.
LEMMA SentIsIssued ==
    ASSUME JobberTypes, RenewalsFit, NEW p \in Nat, Sent(p)
    PROVE  p <= pairs
    BY DEF Sent, RenewalsFit

\* A pair that is newly issued.
LEMMA NewPair ==
    ASSUME JobberTypes, PairsMove
    PROVE  /\ pairs \in Nat /\ pairs' \in Nat /\ pairs <= pairs'
           /\ \A u \in TokenUses : GotBy(u)' /\ ~UseStays(u) => use'[u].got = pairs + 1 /\ pairs' = pairs + 1
           /\ \A f \in OAuthFlows : BoughtBy(f)' /\ ~FlowStays(f) => flow'[f].got = pairs + 1 /\ pairs' = pairs + 1
           /\ \A u \in TokenUses : UseStays(u) /\ GotBy(u)' => GotBy(u) /\ use'[u].got = use[u].got
           /\ \A f \in OAuthFlows : FlowStays(f) /\ BoughtBy(f)' => BoughtBy(f) /\ flow'[f].got = flow[f].got
<1>1. pairs \in Nat /\ pairs' \in {pairs, pairs + 1}
    BY DEF JobberTypes, PairsMove
<1>2. \A u \in TokenUses : GotBy(u)' /\ ~UseStays(u) => use'[u].got = pairs + 1 /\ pairs' = pairs + 1
    BY DEF PairsMove, UseMove, GotBy
<1>3. \A f \in OAuthFlows : BoughtBy(f)' /\ ~FlowStays(f) => flow'[f].got = pairs + 1 /\ pairs' = pairs + 1
    BY DEF PairsMove, FlowMove, BoughtBy
<1>. QED  BY <1>1, <1>2, <1>3 DEF GotBy, BoughtBy, UseStays, FlowStays

\* No other binding carries a pair that is with who asked for it.
Unheld(p) == p <= pairs /\ p > 0 /\ ~Sent(p) /\ \A c \in Binders : binding[c].pair # p

LEMMA UnheldStays ==
    ASSUME JobberTypes, BindingsStep, PairsMove, PairsAreUnique, RenewalsFit, ClaimsFit,
           NEW p \in Nat, Unheld(p),
           \A u \in TokenUses : GotBy(u) /\ use'[u].at # "persist" => use[u].got # p,
           \A f \in OAuthFlows : BoughtBy(f) /\ flow'[f].at # "connect" => flow[f].got # p
    PROVE  Unheld(p)'
<1>1. p <= pairs' /\ p > 0
    BY NewPair DEF Unheld
<1>2. ~Sent(p)'
    <2>1. SUFFICES ASSUME Sent(p)' PROVE FALSE
        OBVIOUS
    <2>2. PICK u \in TokenUses : use'[u].at = "renew" /\ ~UseStays(u) /\ use'[u].pair = p
        BY <2>1, SentMoves DEF Unheld
    <2>3. use[u].c \in Binders /\ use'[u].pair = binding[use[u].c].pair
        BY <2>2, SenderFinds
    <2>. QED  BY <2>2, <2>3 DEF Unheld
<1>3. ASSUME NEW c \in Binders PROVE binding'[c].pair # p
    BY PairSteps DEF Unheld
<1>. QED  BY <1>1, <1>2, <1>3 DEF Unheld

LEMMA NewIsUnheld ==
    ASSUME JobberTypes, BindingsStep, PairsMove, PairsAreUnique, RenewalsFit, ClaimsFit, pairs' = pairs + 1,
           NEW p \in Nat, p = pairs + 1
    PROVE  Unheld(p)'
<1>1. p <= pairs' /\ p > 0 /\ pairs \in Nat /\ ~(p <= pairs)
    BY DEF JobberTypes
<1>2. ~Sent(p)'
    <2>1. SUFFICES ASSUME Sent(p)' PROVE FALSE
        OBVIOUS
    <2>2. ~Sent(p)
        BY <1>1, SentIsIssued
    <2>3. PICK u \in TokenUses : use'[u].at = "renew" /\ ~UseStays(u) /\ use'[u].pair = p
        BY <2>1, <2>2, SentMoves
    <2>4. use'[u].pair <= pairs
        BY <2>3, SenderFinds
    <2>. QED  BY <2>3, <2>4, <1>1
<1>3. ASSUME NEW c \in Binders PROVE binding'[c].pair # p
    <2>1. binding[c].pair <= pairs
        BY DEF PairsAreUnique
    <2>2. \A u \in TokenUses : GotBy(u) => use[u].got <= pairs
        BY DEF PairsAreUnique
    <2>3. \A f \in OAuthFlows : BoughtBy(f) => flow[f].got <= pairs
        BY DEF PairsAreUnique
    <2>. QED  BY <1>1, <2>1, <2>2, <2>3, PairSteps
<1>. QED  BY <1>1, <1>2, <1>3 DEF Unheld

LEMMA GotIsUnheld ==
    ASSUME JobberTypes, PairsAreUnique
    PROVE  /\ \A u \in TokenUses : GotBy(u) => use[u].got \in Nat /\ Unheld(use[u].got)
           /\ \A f \in OAuthFlows : BoughtBy(f) => flow[f].got \in Nat /\ Unheld(flow[f].got)
<1>1. ASSUME NEW u \in TokenUses, GotBy(u) PROVE use[u].got \in Nat /\ Unheld(use[u].got)
    BY <1>1, UseFields DEF PairsAreUnique, Unheld, GotBy
<1>2. ASSUME NEW f \in OAuthFlows, BoughtBy(f) PROVE flow[f].got \in Nat /\ Unheld(flow[f].got)
    BY <1>2, FlowFields DEF PairsAreUnique, Unheld, BoughtBy
<1>. QED  BY <1>1, <1>2

LEMMA UniqueKept ==
    ASSUME JobberTypes, BindingsStep, PairsMove, PairsAreUnique, RenewalsFit, ClaimsFit
    PROVE  PairsAreUnique'
<1>1. ASSUME NEW c \in Binders PROVE binding'[c].pair <= pairs'
    <2>1. binding[c].pair <= pairs /\ binding[c].pair \in Nat
        BY DEF PairsAreUnique, JobberTypes, Bindings
    <2>2. \A u \in TokenUses : GotBy(u) => use[u].got <= pairs /\ use[u].got \in Nat
        BY GotIsUnheld DEF PairsAreUnique
    <2>3. \A f \in OAuthFlows : BoughtBy(f) => flow[f].got <= pairs /\ flow[f].got \in Nat
        BY GotIsUnheld DEF PairsAreUnique
    <2>. QED  BY <2>1, <2>2, <2>3, PairSteps, NewPair
<1>2. ASSUME NEW c \in Binders, NEW d \in Binders, binding'[c].pair = binding'[d].pair, binding'[c].pair # 0
      PROVE  c = d
    <2>1. \A e \in Binders :
             \/ binding'[e].pair = binding[e].pair
             \/ binding'[e].pair = 0
             \/ \E u \in TokenUses : GotBy(u) /\ use[u].c = e /\ binding'[e].pair = use[u].got
             \/ \E f \in OAuthFlows : BoughtBy(f) /\ flow[f].c = e /\ binding'[e].pair = flow[f].got
        BY PairSteps
    <2>2. /\ \A e, x \in Binders : binding[e].pair = binding[x].pair /\ binding[e].pair # 0 => e = x
          /\ \A u \in TokenUses : GotBy(u) =>
              /\ \A e \in Binders : binding[e].pair # use[u].got
              /\ \A v \in TokenUses : GotBy(v) /\ use[v].got = use[u].got => v = u
              /\ \A f \in OAuthFlows : BoughtBy(f) => flow[f].got # use[u].got
          /\ \A f \in OAuthFlows : BoughtBy(f) =>
              /\ \A e \in Binders : binding[e].pair # flow[f].got
              /\ \A g \in OAuthFlows : BoughtBy(g) /\ flow[g].got = flow[f].got => g = f
        BY DEF PairsAreUnique
    <2>. QED  BY <1>2, <2>1, <2>2
\* Pairs that stay with who asked for them differ, and a new one differs from them.
<1>3. \A u \in TokenUses : GotBy(u)' /\ UseStays(u) => use'[u].got = use[u].got /\ GotBy(u) /\ use[u].got <= pairs
    BY NewPair DEF PairsAreUnique
<1>4. \A f \in OAuthFlows : BoughtBy(f)' /\ FlowStays(f) => flow'[f].got = flow[f].got /\ BoughtBy(f) /\ flow[f].got <= pairs
    BY NewPair DEF PairsAreUnique
<1>5. ASSUME NEW u \in TokenUses, GotBy(u)' PROVE Unheld(use[u].got)'
    <2>1. CASE UseStays(u)
        <3>1. PICK p \in Nat : p = use[u].got /\ p = use'[u].got /\ Unheld(p)
            BY <1>3, <1>5, <2>1, GotIsUnheld
        <3>2. \A v \in TokenUses : GotBy(v) /\ use'[v].at # "persist" => use[v].got # p
            BY <1>3, <1>5, <2>1, <3>1 DEF PairsAreUnique, GotBy
        <3>3. \A f \in OAuthFlows : BoughtBy(f) => flow[f].got # p
            BY <1>3, <1>5, <2>1, <3>1 DEF PairsAreUnique
        <3>4. Unheld(p)'
            BY <3>1, <3>2, <3>3, UnheldStays
        <3>. QED  BY <3>1, <3>4 DEF Unheld
    <2>2. CASE ~UseStays(u)
        <3>1. PICK p \in Nat : p = pairs + 1 /\ p = use'[u].got /\ pairs' = pairs + 1
            BY <1>5, <2>2, NewPair
        <3>2. Unheld(p)'
            BY <3>1, NewIsUnheld
        <3>. QED  BY <3>1, <3>2 DEF Unheld
    <2>. QED  BY <2>1, <2>2
<1>6. ASSUME NEW f \in OAuthFlows, BoughtBy(f)' PROVE Unheld(flow[f].got)'
    <2>1. CASE FlowStays(f)
        <3>1. PICK p \in Nat : p = flow[f].got /\ p = flow'[f].got /\ Unheld(p)
            BY <1>4, <1>6, <2>1, GotIsUnheld
        <3>2. \A g \in OAuthFlows : BoughtBy(g) /\ flow'[g].at # "connect" => flow[g].got # p
            BY <1>4, <1>6, <2>1, <3>1 DEF PairsAreUnique, BoughtBy
        <3>3. \A v \in TokenUses : GotBy(v) => use[v].got # p
            BY <1>4, <1>6, <2>1, <3>1 DEF PairsAreUnique
        <3>4. Unheld(p)'
            BY <3>1, <3>2, <3>3, UnheldStays
        <3>. QED  BY <3>1, <3>4 DEF Unheld
    <2>2. CASE ~FlowStays(f)
        <3>1. PICK p \in Nat : p = pairs + 1 /\ p = flow'[f].got /\ pairs' = pairs + 1
            BY <1>6, <2>2, NewPair
        <3>2. Unheld(p)'
            BY <3>1, NewIsUnheld
        <3>. QED  BY <3>1, <3>2 DEF Unheld
    <2>. QED  BY <2>1, <2>2
<1>7. ASSUME NEW u \in TokenUses, NEW v \in TokenUses, GotBy(u)', GotBy(v)', use'[v].got = use'[u].got PROVE v = u
    <2>1. UseStays(u) /\ UseStays(v) => v = u
        BY <1>3, <1>7 DEF PairsAreUnique
    <2>2. UseStays(u) \/ UseStays(v) \/ v = u
        BY DEF PairsMove
    <2>. QED  BY <1>3, <1>7, <2>1, <2>2, NewPair
<1>8. ASSUME NEW f \in OAuthFlows, NEW g \in OAuthFlows, BoughtBy(f)', BoughtBy(g)', flow'[g].got = flow'[f].got PROVE g = f
    <2>1. FlowStays(f) /\ FlowStays(g) => g = f
        BY <1>4, <1>8 DEF PairsAreUnique
    <2>2. FlowStays(f) \/ FlowStays(g) \/ g = f
        BY DEF PairsMove
    <2>. QED  BY <1>4, <1>8, <2>1, <2>2, NewPair
<1>9. ASSUME NEW u \in TokenUses, NEW f \in OAuthFlows, GotBy(u)', BoughtBy(f)' PROVE flow'[f].got # use'[u].got
    <2>1. UseStays(u) /\ FlowStays(f) => flow'[f].got # use'[u].got
        BY <1>3, <1>4, <1>9 DEF PairsAreUnique
    <2>2. UseStays(u) \/ FlowStays(f)
        BY DEF PairsMove
    <2>. QED  BY <1>3, <1>4, <1>9, <2>1, <2>2, NewPair
<1>10. ASSUME NEW u \in TokenUses, GotBy(u)'
       PROVE  use'[u].got <= pairs' /\ use'[u].got > 0 /\ ~Sent(use[u].got)' /\ \A c \in Binders : binding'[c].pair # use'[u].got
    BY <1>5, <1>10 DEF Unheld
<1>11. ASSUME NEW f \in OAuthFlows, BoughtBy(f)'
       PROVE  flow'[f].got <= pairs' /\ flow'[f].got > 0 /\ ~Sent(flow[f].got)' /\ \A c \in Binders : binding'[c].pair # flow'[f].got
    BY <1>6, <1>11 DEF Unheld
<1>. QED  BY <1>1, <1>2, <1>7, <1>8, <1>9, <1>10, <1>11 DEF PairsAreUnique

LEMMA RenewalsKept ==
    ASSUME JobberTypes, BindingsStep, PairsMove, PairsAreUnique, RenewalsFit, ClaimsFit, PairsAreUnique'
    PROVE  RenewalsFit'
<1>0. pairs \in Nat /\ pairs' \in Nat /\ pairs <= pairs'
    BY NewPair
<1>dom. ASSUME NEW p \in DOMAIN renewals PROVE p \in Nat
    <2>1. PICK D \in SUBSET Nat : renewals \in [D -> Nat]
        BY DEF JobberTypes
    <2>. QED  BY <1>dom, <2>1
<1>1. ASSUME NEW p \in DOMAIN renewals' PROVE renewals'[p] <= 1 /\ (renewals'[p] # 0 => p <= pairs')
    <2>1. CASE UNCHANGED renewals
        <3>1. p \in Nat /\ renewals'[p] = renewals[p] /\ renewals[p] <= 1 /\ (renewals[p] # 0 => p <= pairs)
            BY <1>1, <1>dom, <2>1 DEF RenewalsFit
        <3>. QED  BY <1>0, <3>1
    <2>2. ASSUME NEW u \in TokenUses, use[u].at = "renew", renewals' = [renewals EXCEPT ![use[u].pair] = @ + 1]
          PROVE  renewals'[p] <= 1 /\ (renewals'[p] # 0 => p <= pairs')
        <3>1. use[u].pair <= pairs /\ (use[u].pair \in DOMAIN renewals => renewals[use[u].pair] = 0) /\ use[u].pair \in Nat
            BY <2>2, UseFields DEF RenewalsFit
        <3>2. p \in DOMAIN renewals /\ renewals[p] <= 1 /\ (renewals[p] # 0 => p <= pairs)
            BY <1>1, <2>2 DEF RenewalsFit
        <3>3. renewals'[p] = IF p = use[u].pair THEN renewals[p] + 1 ELSE renewals[p]
            BY <2>2, <3>2
        <3>4. CASE p = use[u].pair
            BY <3>1, <3>2, <3>3, <3>4, <1>0
        <3>5. CASE p # use[u].pair
            <4>1. renewals'[p] = renewals[p]
                BY <3>3, <3>5
            <4>. QED  BY <3>2, <4>1, <1>dom, <1>0
        <3>. QED  BY <3>4, <3>5
    <2>. QED  BY <2>1, <2>2 DEF PairsMove
<1>2. ASSUME NEW c \in Binders, binding'[c].pair # 0, Sent(binding[c].pair)' PROVE Fenced(binding'[c])
    <2>1. PICK p : p = binding'[c].pair /\ Sent(p)'
        BY <1>2 DEF Sent
    <2>2. CASE Sent(p)
        <3>1. \A u \in TokenUses : GotBy(u) => use[u].got # p
            BY <2>2 DEF PairsAreUnique
        <3>2. \A f \in OAuthFlows : BoughtBy(f) => flow[f].got # p
            BY <2>2 DEF PairsAreUnique
        <3>3. p = binding[c].pair /\ (Fenced(binding[c]) => Fenced(binding'[c]))
            BY <1>2, <2>1, <3>1, <3>2, PairSteps
        <3>. QED  BY <1>2, <2>1, <2>2, <3>3 DEF RenewalsFit
    <2>3. ASSUME NEW u \in TokenUses, use'[u].at = "renew", ~UseStays(u), use'[u].pair = p PROVE Fenced(binding'[c])
        <3>1. use[u].c \in Binders /\ p = binding'[use[u].c].pair /\ Fenced(binding'[use[u].c])
            BY <2>3, SenderFinds
        <3>2. use[u].c = c
            BY <1>2, <2>1, <3>1 DEF PairsAreUnique
        <3>. QED  BY <3>1, <3>2
    <2>. QED  BY <2>1, <2>2, <2>3, SentMoves
\* Whoever is about to send a pair sends it first.
<1>3. ASSUME NEW u \in TokenUses, use'[u].at = "renew", UseStays(u)
      PROVE  /\ use[u].at = "renew" /\ use'[u].pair = use[u].pair
             /\ use[u].pair <= pairs /\ (use[u].pair \in DOMAIN renewals => renewals[use[u].pair] = 0) /\ use[u].pair \in Nat
    BY <1>3, UseFields DEF RenewalsFit, UseStays
<1>4. ASSUME NEW u \in TokenUses, use'[u].at = "renew", ~UseStays(u)
      PROVE  use'[u].pair \in Nat /\ use'[u].pair <= pairs /\ ~Sent(use'[u].pair)
    BY <1>4, SenderFinds
<1>5. ASSUME NEW u \in TokenUses, use'[u].at = "renew" PROVE use'[u].pair \in Nat /\ use'[u].pair <= pairs
    BY <1>3, <1>4, <1>5
<1>6. ASSUME NEW u \in TokenUses, use'[u].at = "renew", use'[u].pair \in DOMAIN renewals' PROVE renewals'[use'[u].pair] = 0
    <2>1. PICK p \in Nat : p = use'[u].pair
        BY <1>5, <1>6
    <2>2. p \in DOMAIN renewals => renewals[p] = 0
        BY <1>3, <1>4, <1>6, <2>1 DEF Sent
    <2>3. CASE UNCHANGED renewals
        BY <1>6, <2>1, <2>2, <2>3
    <2>4. ASSUME NEW v \in TokenUses, use[v].at = "renew", use'[v].at # "renew", renewals' = [renewals EXCEPT ![use[v].pair] = @ + 1]
          PROVE  renewals'[p] = 0
        <3>1. use[v].pair # p
            <4>1. CASE UseStays(u)
                BY <1>3, <1>6, <2>1, <2>4, <4>1 DEF RenewalsFit
            <4>2. CASE ~UseStays(u)
                BY <1>4, <1>6, <2>1, <2>4, <4>2 DEF Sent
            <4>. QED  BY <4>1, <4>2
        <3>. QED  BY <1>6, <2>1, <2>2, <2>4, <3>1
    <2>. QED  BY <2>1, <2>3, <2>4 DEF PairsMove
<1>7. ASSUME NEW u \in TokenUses, NEW v \in TokenUses, use'[u].at = "renew", use'[v].at = "renew", use'[v].pair = use'[u].pair
      PROVE  v = u
    <2>1. CASE UseStays(u) /\ UseStays(v)
        BY <1>3, <1>7, <2>1 DEF RenewalsFit
    <2>2. ASSUME NEW x \in TokenUses, NEW y \in TokenUses, use'[x].at = "renew", use'[y].at = "renew", UseStays(x), ~UseStays(y)
          PROVE  use'[y].pair # use'[x].pair
        <3>1. PICK p \in Nat : p = use'[x].pair /\ Sent(p)
            BY <1>3, <2>2 DEF Sent
        <3>. QED  BY <1>4, <2>2, <3>1
    <2>3. UseStays(u) \/ UseStays(v) \/ v = u
        BY DEF PairsMove
    <2>. QED  BY <1>7, <2>1, <2>2, <2>3
<1>8. ASSUME NEW u \in TokenUses, use'[u].at = "renew" PROVE use'[u].pair <= pairs'
    BY <1>0, <1>5, <1>8
<1>. QED  BY <1>1, <1>2, <1>6, <1>7, <1>8 DEF RenewalsFit

LEMMA ClaimsKept ==
    ASSUME JobberTypes, BindingsStep, PairsMove, ClaimsFit
    PROVE  ClaimsFit'
<1>1. ASSUME NEW c \in Binders, binding'[c].claim # None PROVE Named(binding'[c].claim)
    <2>1. BindingStep(c) /\ (binding[c].claim # None => Named(binding[c].claim))
        BY DEF BindingsStep, ClaimsFit
    <2>2. CASE Marks(binding[c], binding'[c])
        <3>1. binding[c].claim # None /\ binding'[c].claim.id = binding[c].claim.id /\ binding'[c].claim.kind = binding[c].claim.kind
            BY <2>2 DEF Marks
        <3>. QED  BY <2>1, <3>1 DEF Named
    <2>3. CASE Takes(binding[c], binding'[c])
        BY <2>3 DEF Takes
    <2>. QED  BY <1>1, <2>1, <2>2, <2>3
            DEF BindingStep, Drops, Fails, Suspends, Deletes, Captures, Renews, Connects, SameGrant
<1>2. \A c \in Binders : binding[c].gen \in Nat
    BY DEF JobberTypes, Bindings
<1>3. ASSUME NEW u \in TokenUses, use[u].at \in {"reserve", "begin"}, NEW k, k = use[u].gen
      PROVE  /\ use[u].c \in Binders /\ k \in Nat /\ k <= binding'[use[u].c].gen
             /\ k = binding'[use[u].c].gen => use[u].pair = binding'[use[u].c].pair
    <2>1. use[u].c \in Binders /\ k \in Nat
        BY <1>3, UseFields
    <2>2. PICK c \in Binders : c = use[u].c
        BY <2>1
    <2>3. k <= binding[c].gen /\ (k = binding[c].gen => use[u].pair = binding[c].pair)
        BY <1>3, <2>2 DEF ClaimsFit
    <2>4. binding[c].gen \in Nat /\ binding'[c].gen \in Nat /\ binding'[c].gen >= binding[c].gen
          /\ (binding'[c].gen = binding[c].gen => binding'[c].pair = binding[c].pair)
        BY <1>2, PairSteps
    <2>5. k <= binding'[c].gen
        BY <2>1, <2>3, <2>4
    <2>6. k = binding'[c].gen => k = binding[c].gen /\ binding'[c].gen = binding[c].gen
        BY <2>1, <2>3, <2>4
    <2>. QED  BY <2>1, <2>2, <2>3, <2>4, <2>5, <2>6
<1>4. ASSUME NEW u \in TokenUses, use'[u].at \in {"reserve", "begin"}
      PROVE  /\ use'[u].gen <= binding'[use'[u].c].gen
             /\ use'[u].gen = binding'[use'[u].c].gen => use'[u].pair = binding'[use'[u].c].pair
    <2>1. CASE UseStays(u)
        BY <1>3, <1>4, <2>1 DEF UseStays
    <2>2. CASE UseMove(u) /\ use'[u].at = "begin"
        BY <1>3, <1>4, <2>2 DEF UseMove
    <2>3. CASE UseMove(u) /\ use'[u].at = "reserve"
        <3>1. use'[u].c \in Binders /\ use'[u].gen = binding'[use'[u].c].gen /\ use'[u].pair = binding'[use'[u].c].pair
            BY <2>3 DEF UseMove
        <3>2. PICK c \in Binders : c = use'[u].c
            BY <3>1
        <3>3. binding'[c].gen \in Nat
            BY PairSteps
        <3>. QED  BY <3>1, <3>2, <3>3
    <2>. QED  BY <1>4, <2>1, <2>2, <2>3 DEF PairsMove
<1>5. ASSUME NEW u \in TokenUses, use'[u].at = "begin",
             binding'[use'[u].c].claim # None, binding'[use'[u].c].claim.id = <<u, "refresh", use'[u].last>>
      PROVE  binding'[use'[u].c].claim.gen = use'[u].gen
    <2>1. CASE UseMove(u)
        BY <1>5, <2>1 DEF UseMove
    <2>2. CASE UseStays(u)
        <3>1. use'[u] = use[u] /\ use[u].at = "begin" /\ use[u].c \in Binders
            BY <1>5, <2>2, UseFields DEF UseStays
        <3>2. PICK c \in Binders : c = use[u].c
            BY <3>1
        <3>3. binding[c].claim # None /\ binding[c].claim.id = <<u, "refresh", use[u].last>> => binding[c].claim.gen = use[u].gen
            BY <3>1, <3>2 DEF ClaimsFit, RefreshId
        <3>4. binding'[c].claim # None /\ binding'[c].claim.id = <<u, "refresh", use[u].last>>
            BY <1>5, <3>1, <3>2
        <3>5. BindingStep(c)
            BY DEF BindingsStep
        <3>6. CASE Marks(binding[c], binding'[c])
            BY <3>3, <3>4, <3>1, <3>2, <3>6 DEF Marks
        <3>7. ASSUME NEW f \in OAuthFlows, binding'[c].claim.id = <<f>> PROVE FALSE
            BY <3>4, <3>7, NamesApart
        <3>8. ASSUME NEW v \in TokenUses, ByUse(binding'[c].claim, v) PROVE FALSE
            <4>1. use[v].at \in {"acquire", "reserve"} /\ binding'[c].claim.id = <<v, Jobber!UseKind(v), use[v].last>>
                BY <3>8 DEF ByUse, Jobber!ClaimId
            <4>2. v = u
                BY <3>4, <4>1, NamesApart
            <4>. QED  BY <3>1, <4>1, <4>2
        <3>9. CASE binding'[c].claim = binding[c].claim
            BY <3>1, <3>2, <3>3, <3>4, <3>9
        <3>. QED  BY <3>4, <3>5, <3>6, <3>7, <3>8, <3>9
                DEF BindingStep, Drops, Fails, Suspends, Deletes, Captures, Renews, Connects, SameGrant
    <2>. QED  BY <1>5, <2>1, <2>2 DEF PairsMove
<1>. QED  BY <1>1, <1>4, <1>5 DEF ClaimsFit, RefreshId

-----------------------------------------------------------------------------
(* Every step keeps the invariant.                                         *)

Frame == UNCHANGED <<counter, barrier>>

LEMMA PartsKept ==
    ASSUME JobberInv, BindingsStep, PairsMove, Frame, LeasesFit', WorkFits', RevocationFits'
    PROVE  JobberParts'
<1>1. BarriersFit'
    BY BarriersKept DEF JobberInv, JobberParts, Frame
<1>2. CaptureFits'
    BY CaptureKept DEF JobberInv, JobberParts
<1>3. PairsAreUnique'
    BY UniqueKept DEF JobberInv, JobberParts
<1>4. RenewalsFit'
    BY <1>3, RenewalsKept DEF JobberInv, JobberParts
<1>5. ClaimsFit'
    BY ClaimsKept DEF JobberInv, JobberParts
<1>. QED  BY <1>1, <1>2, <1>3, <1>4, <1>5 DEF JobberParts

LEMMA QuietWork ==
    ASSUME JobberInv, BindingsStep, Frame, UNCHANGED <<work, worker>>
    PROVE  LeasesFit' /\ WorkFits'
<1>1. LeasesFit
    BY DEF JobberInv, JobberParts, BarriersFit, LeasesFit
<1>2. LeasesFit'
    BY <1>1 DEF LeasesFit
<1>. QED  BY <1>2, WorkKept DEF JobberInv, JobberParts, Frame

LEMMA QuietRemovals ==
    ASSUME JobberInv, Frame, UNCHANGED <<removal, outbox, revoked>>
    PROVE  RevocationFits'
<1>1. barrier' \in [JobberAccounts -> Nat] /\ \A a \in JobberAccounts : barrier'[a] >= barrier[a]
    BY DEF JobberInv, JobberTypes, Frame
<1>. QED  BY <1>1, RevocationKept DEF JobberInv, JobberParts

LEMMA CallKeeps ==
    ASSUME JobberInv, NEW u \in TokenUses, CallStep(u), Jobber!UseFrame,
           \/ UNCHANGED <<pairs, renewals>>
           \/ /\ use[u].at = "renew" /\ use'[u].at # "renew" /\ pairs' \in {pairs, pairs + 1}
              /\ renewals' = [renewals EXCEPT ![use[u].pair] = @ + 1]
    PROVE  JobberInv'
<1>1. /\ UNCHANGED <<counter, barrier, work, flow, removal, worker, outbox, revoked, consent, captured>>
      /\ BindingsStep /\ UsesTyped /\ jobberFaults' \in 0 .. MaxJobberFaults
    BY DEF Jobber!UseFrame, Jobber!history, CallStep
<1>2. PairsMove
    BY <1>1, CallMovesPairs DEF JobberInv
<1>3. Frame
    BY <1>1 DEF Frame
<1>4. JobberParts'
    BY <1>1, <1>2, <1>3, PartsKept, QuietWork, QuietRemovals
<1>5. pairs' \in Nat /\ \E D \in SUBSET Nat : renewals' \in [D -> Nat]
    <2>1. pairs \in Nat
        BY DEF JobberInv, JobberTypes
    <2>2. PICK D \in SUBSET Nat : renewals \in [D -> Nat]
        BY DEF JobberInv, JobberTypes
    <2>. QED  BY <2>1, <2>2
<1>6. JobberTypes'
    BY <1>1, <1>5 DEF JobberInv, JobberTypes, BindingsStep, UsesTyped
<1>. QED  BY <1>4, <1>6 DEF JobberInv

LEMMA AuthKeeps ==
    ASSUME JobberInv, NEW f \in OAuthFlows, AuthStep(f), Jobber!FlowFrame
    PROVE  JobberInv'
<1>1. /\ UNCHANGED <<counter, barrier, work, use, removal, worker, outbox, renewals, revoked, captured>>
      /\ BindingsStep /\ consent' \in [Binders -> Nat] /\ FlowsTyped /\ jobberFaults' \in 0 .. MaxJobberFaults
    BY DEF Jobber!FlowFrame, AuthStep, ConsentStep
<1>2. PairsMove
    BY <1>1, AuthMovesPairs DEF JobberInv
<1>3. Frame
    BY <1>1 DEF Frame
<1>4. JobberParts'
    BY <1>1, <1>2, <1>3, PartsKept, QuietWork, QuietRemovals
<1>5. pairs' \in Nat
    BY <1>2 DEF JobberInv, JobberTypes, PairsMove
<1>6. JobberTypes'
    BY <1>1, <1>5 DEF JobberInv, JobberTypes, BindingsStep, FlowsTyped
<1>. QED  BY <1>4, <1>6 DEF JobberInv

LEMMA RemovalKeeps ==
    ASSUME JobberInv, NEW r \in Removals, GivenStep(r), GivenMove(r), Jobber!RemovalFrame
    PROVE  JobberInv'
<1>1. UNCHANGED <<counter, barrier, work, use, flow, worker, pairs, renewals, consent, captured>>
    BY DEF Jobber!RemovalFrame, Jobber!history
<1>2. BindingsStep /\ RemovalsTyped /\ outbox' \in [Removals -> Outcomes] /\ jobberFaults' \in 0 .. MaxJobberFaults /\ revoked' \subseteq Removals
    BY DEF GivenStep
<1>3. Frame /\ PairsMove
    BY <1>1, NobodyMoves DEF Frame, JobberInv
<1>4. RevocationFits'
    BY <1>1, RevocationMoved DEF JobberInv, JobberParts
<1>5. JobberParts'
    BY <1>1, <1>2, <1>3, <1>4, PartsKept, QuietWork
<1>6. JobberTypes'
    BY <1>1, <1>2 DEF JobberInv, JobberTypes, BindingsStep, RemovalsTyped, Outcomes
<1>. QED  BY <1>5, <1>6 DEF JobberInv

LEMMA WorkerKeeps ==
    ASSUME JobberInv, NEW w \in DisconnectWorkers, WorkerStep(w), Jobber!WorkerFrame
    PROVE  JobberInv'
<1>1. UNCHANGED <<counter, barrier, use, flow, removal, outbox, pairs, renewals, revoked, consent, captured>>
    BY DEF Jobber!WorkerFrame, Jobber!history, Jobber!provider
<1>2. BindingsStep /\ WorkTyped /\ WorkersTyped /\ LeasesFit' /\ WorkFits' /\ jobberFaults' \in 0 .. MaxJobberFaults
    BY DEF WorkerStep
<1>3. Frame /\ PairsMove
    BY <1>1, NobodyMoves DEF Frame, JobberInv
<1>4. JobberParts'
    BY <1>1, <1>2, <1>3, PartsKept, QuietRemovals
<1>5. JobberTypes'
    BY <1>1, <1>2 DEF JobberInv, JobberTypes, BindingsStep, WorkTyped, WorkersTyped
<1>. QED  BY <1>4, <1>5 DEF JobberInv

LEMMA CaptureKeeps ==
    ASSUME JobberInv, NEW c \in Binders, NEW on \in BOOLEAN, Jobber!SetCapture(c, on)
    PROVE  JobberInv'
<1>1. /\ UNCHANGED <<counter, barrier, work, use, flow, removal, worker, outbox, pairs, renewals, revoked, consent, jobberFaults>>
      /\ BindingsStep /\ captured' \in [Binders -> Moments]
    BY CaptureMoves DEF JobberInv, Jobber!SetCapture, Jobber!callers, Jobber!provider
<1>2. Frame /\ PairsMove
    BY <1>1, NobodyMoves DEF Frame, JobberInv
<1>3. JobberParts'
    BY <1>1, <1>2, PartsKept, QuietWork, QuietRemovals
<1>4. JobberTypes'
    BY <1>1 DEF JobberInv, JobberTypes, BindingsStep
<1>. QED  BY <1>3, <1>4 DEF JobberInv

LEMMA ReceiveKeeps ==
    ASSUME JobberInv, NEW a \in JobberAccounts, Jobber!Receive(a)
    PROVE  JobberInv'
<1> DEFINE row == [status |-> "pending", lease |-> None, live |-> FALSE, tries |-> 0, cursor |-> 0]
<1>1. /\ counter < MaxReceipts /\ counter' = counter + 1
      /\ barrier' = [barrier EXCEPT ![a] = counter + 1] /\ work' = [work EXCEPT ![a] = row]
      /\ UNCHANGED <<binding, use, flow, removal, worker, outbox, pairs, renewals, revoked, consent, captured, jobberFaults>>
    BY DEF Jobber!Receive, Jobber!callers, Jobber!provider, Jobber!history
<1>2. row \in WorkRows /\ row.lease = None /\ row.status = "pending" /\ row.cursor = 0
    BY JobberConstants DEF WorkRows
<1> HIDE DEF row
<1>3. /\ counter \in Nat /\ counter + 1 \in Nat /\ barrier \in [JobberAccounts -> Nat] /\ work \in [JobberAccounts -> WorkRows]
      /\ \A x \in JobberAccounts : barrier[x] <= counter
    BY DEF JobberInv, JobberTypes, JobberParts, BarriersFit
<1>4. /\ barrier' \in [JobberAccounts -> Nat] /\ work' \in [JobberAccounts -> WorkRows]
      /\ barrier'[a] = counter + 1 /\ work'[a] = row
      /\ \A x \in JobberAccounts \ {a} : barrier'[x] = barrier[x] /\ work'[x] = work[x]
    BY <1>1, <1>2, <1>3
<1>5. \A x \in JobberAccounts : barrier'[x] >= barrier[x] /\ barrier'[x] <= counter'
    BY <1>1, <1>3, <1>4
<1>6. JobberTypes'
    <2>1. counter' \in Nat /\ counter' <= MaxReceipts
        BY <1>1, <1>3, JobberConstants
    <2>. QED  BY <1>1, <1>4, <2>1 DEF JobberInv, JobberTypes
<1>7. BarriersFit'
    <2>1. \A x \in JobberAccounts : work'[x].lease # None <=> work'[x].status = "processing"
        BY <1>2, <1>4 DEF JobberInv, JobberParts, BarriersFit
    <2>2. ASSUME NEW c \in Binders, binding'[c].accepted # None
          PROVE  /\ binding'[c].acct # None
                 /\ binding'[c].accepted <= barrier'[binding'[c].acct] /\ binding'[c].accepted <= consent'[c]
        <3>1. binding'[c] = binding[c] /\ consent'[c] = consent[c] /\ binding[c] \in Bindings
            BY <1>1 DEF JobberInv, JobberTypes
        <3>2. binding[c].acct # None /\ binding[c].accepted <= barrier[binding[c].acct] /\ binding[c].accepted <= consent[c]
            BY <2>2, <3>1 DEF JobberInv, JobberParts, BarriersFit
        <3>3. PICK x \in JobberAccounts : x = binding[c].acct
            BY <3>1, <3>2 DEF Bindings
        <3>4. barrier[x] \in Nat /\ barrier'[x] \in Nat /\ binding[c].accepted \in Nat
            BY <1>3, <1>4, <2>2, <3>1 DEF Bindings
        <3>. QED  BY <1>5, <3>1, <3>2, <3>3, <3>4
    <2>. QED  BY <1>5, <2>1, <2>2 DEF BarriersFit
<1>8. WorkFits'
    <2>1. \A x \in JobberAccounts \ {a}, c \in Binders : Settled(x, c)' <=> Settled(x, c)
        BY <1>1, <1>4 DEF Settled
    <2>2. ASSUME NEW x \in JobberAccounts, NEW c \in Binders, work'[x].status = "completed" \/ c <= work'[x].cursor
          PROVE  Settled(x, c)'
        <3>1. x # a
            <4>1. ~(c <= 0)
                BY JobberConstants
            <4>. QED  BY <1>2, <1>4, <2>2, <4>1
        <3>. QED  BY <1>4, <2>1, <2>2, <3>1 DEF JobberInv, JobberParts, WorkFits
    <2>3. ASSUME NEW w \in DisconnectWorkers, worker[w].at \in {"query", "page"}, NEW x, x = worker[w].a,
                 work'[x].lease = w, barrier'[x] = worker[w].level, NEW c \in Binders
          PROVE  IF worker[w].at = "query" THEN c <= worker[w].last => Settled(x, c)'
                 ELSE c \notin worker[w].left /\ (worker[w].more => c <= worker[w].last) => Settled(x, c)'
        <3>1. x \in JobberAccounts
            BY <2>3, WorkerFields DEF JobberInv
        <3>2. x # a
            BY <1>2, <1>4, <2>3, JobberConstants
        <3>3. work[x].lease = w /\ barrier[x] = worker[w].level
            BY <1>4, <2>3, <3>1, <3>2
        <3>4. IF worker[w].at = "query" THEN c <= worker[w].last => Settled(x, c)
                 ELSE c \notin worker[w].left /\ (worker[w].more => c <= worker[w].last) => Settled(x, c)
            BY <2>3, <3>3 DEF JobberInv, JobberParts, WorkFits
        <3>. QED  BY <2>1, <3>1, <3>2, <3>4
    <2>4. \A w \in DisconnectWorkers, c \in Binders : \A x : x = worker[w].a => ((Settled(worker[w].a, c))' <=> Settled(x, c)')
        BY <1>1 DEF Settled
    <2>. QED  BY <1>1, <2>2, <2>3, <2>4 DEF WorkFits
<1>9. RevocationFits'
    BY <1>1, <1>4, <1>5, RevocationKept DEF JobberInv, JobberParts
<1>10. CaptureFits'
    BY <1>1 DEF JobberInv, JobberParts, CaptureFits
<1>11. PairsAreUnique' /\ RenewalsFit' /\ ClaimsFit'
    <2>1. PairsAreUnique /\ RenewalsFit /\ ClaimsFit
        BY DEF JobberInv, JobberParts
    <2>2. PairsAreUnique' <=> PairsAreUnique
        BY <1>1 DEF PairsAreUnique, GotBy, BoughtBy, Sent
    <2>3. RenewalsFit' <=> RenewalsFit
        BY <1>1 DEF RenewalsFit, Sent, Fenced, Renewing, Jobber!Suspended
    <2>4. ClaimsFit' <=> ClaimsFit
        BY <1>1 DEF ClaimsFit, RefreshId, Named
    <2>. QED  BY <2>1, <2>2, <2>3, <2>4
<1>. QED  BY <1>6, <1>7, <1>8, <1>9, <1>10, <1>11 DEF JobberInv, JobberParts

LEMMA LeaseExpiryKeeps ==
    ASSUME JobberInv, NEW a \in JobberAccounts, Jobber!LeaseExpires(a)
    PROVE  JobberInv'
<1>0. PICK row : row = [work[a] EXCEPT !.live = FALSE]
    OBVIOUS
<1>1. /\ UNCHANGED <<counter, barrier, binding, use, flow, removal, worker, outbox, pairs, renewals, revoked, consent, captured, jobberFaults>>
      /\ work' = [work EXCEPT ![a] = row]
    BY <1>0 DEF Jobber!LeaseExpires, Jobber!callers, Jobber!provider, Jobber!history
<1>2. work \in [JobberAccounts -> WorkRows] /\ LeasesFit /\ binding \in [Binders -> Bindings]
    BY DEF JobberInv, JobberTypes, JobberParts, BarriersFit, LeasesFit
<1>3. row \in WorkRows /\ row.lease = work[a].lease /\ row.status = work[a].status /\ row.cursor = work[a].cursor
    <2>1. work[a] \in WorkRows
        BY <1>2
    <2>. QED  BY <1>0, <2>1 DEF WorkRows
<1>4. work' \in [JobberAccounts -> WorkRows]
      /\ \A x \in JobberAccounts : work'[x].lease = work[x].lease /\ work'[x].status = work[x].status /\ work'[x].cursor = work[x].cursor
    BY <1>1, <1>2, <1>3
<1>5. BindingsStep /\ Frame /\ PairsMove
    BY <1>1, <1>2, BindingsKept, NobodyMoves DEF Frame, JobberInv
<1>6. LeasesFit'
    BY <1>2, <1>4 DEF LeasesFit
<1>7. WorkFits'
    <2>1. \A x \in JobberAccounts, c \in Binders : Settled(x, c)' <=> Settled(x, c)
        BY <1>1 DEF Settled
    <2>2. ASSUME NEW w \in DisconnectWorkers, worker[w].at \in {"query", "page"}, NEW x, x = worker[w].a,
                 work'[x].lease = w, barrier'[x] = worker[w].level, NEW c \in Binders
          PROVE  IF worker[w].at = "query" THEN c <= worker[w].last => Settled(x, c)'
                 ELSE c \notin worker[w].left /\ (worker[w].more => c <= worker[w].last) => Settled(x, c)'
        <3>1. x \in JobberAccounts
            BY <2>2, WorkerFields DEF JobberInv
        <3>2. work[x].lease = w /\ barrier[x] = worker[w].level
            BY <1>1, <1>4, <2>2, <3>1
        <3>3. IF worker[w].at = "query" THEN c <= worker[w].last => Settled(x, c)
                 ELSE c \notin worker[w].left /\ (worker[w].more => c <= worker[w].last) => Settled(x, c)
            BY <2>2, <3>2 DEF JobberInv, JobberParts, WorkFits
        <3>. QED  BY <2>1, <3>1, <3>3
    <2>3. \A w \in DisconnectWorkers, c \in Binders : \A x : x = worker[w].a => ((Settled(worker[w].a, c))' <=> Settled(x, c)')
        BY <1>1 DEF Settled
    <2>4. ASSUME NEW x \in JobberAccounts, NEW c \in Binders, work'[x].status = "completed" \/ c <= work'[x].cursor
          PROVE  Settled(x, c)'
        BY <1>4, <2>1, <2>4 DEF JobberInv, JobberParts, WorkFits
    <2>. QED  BY <1>1, <2>2, <2>3, <2>4 DEF WorkFits
<1>8. JobberParts'
    BY <1>1, <1>5, <1>6, <1>7, PartsKept, QuietRemovals
<1>9. JobberTypes'
    BY <1>1, <1>4 DEF JobberInv, JobberTypes
<1>. QED  BY <1>8, <1>9 DEF JobberInv

LEMMA ClaimExpiryKeeps ==
    ASSUME JobberInv, NEW c \in Binders, Jobber!ClaimExpires(c)
    PROVE  JobberInv'
<1>1. /\ UNCHANGED <<counter, barrier, work, use, flow, removal, worker, outbox, pairs, renewals, revoked, consent, captured, jobberFaults>>
      /\ binding[c].claim # None
    BY DEF Jobber!ClaimExpires, Jobber!callers, Jobber!provider, Jobber!history
<1>2. PICK n : n = Expired(binding[c])
    OBVIOUS
<1>3. binding' = [binding EXCEPT ![c] = n]
    BY <1>2 DEF Jobber!ClaimExpires, Expired
<1>4. binding \in [Binders -> Bindings] /\ binding[c] \in Bindings
    BY DEF JobberInv, JobberTypes
<1>5. n \in Bindings /\ Marks(binding[c], n)
    BY <1>1, <1>2, <1>4, BegunIs
<1>6. BindingsStep /\ Frame /\ PairsMove
    BY <1>1, <1>3, <1>4, <1>5, BindingMoved, NobodyMoves DEF Frame, JobberInv
<1>7. JobberParts'
    BY <1>1, <1>6, PartsKept, QuietWork, QuietRemovals
<1>8. JobberTypes'
    BY <1>1, <1>6 DEF JobberInv, JobberTypes, BindingsStep
<1>. QED  BY <1>7, <1>8 DEF JobberInv

LEMMA StateExpiryKeeps ==
    ASSUME JobberInv, NEW f \in OAuthFlows, Jobber!StateExpires(f)
    PROVE  JobberInv'
<1>0. PICK r : r = [flow[f] EXCEPT !.live = FALSE]
    OBVIOUS
<1>1. /\ UNCHANGED <<counter, barrier, work, binding, use, removal, worker, outbox, pairs, renewals, revoked, consent, captured, jobberFaults>>
      /\ flow[f].at = "asked" /\ flow' = [flow EXCEPT ![f] = r]
    BY <1>0 DEF Jobber!StateExpires, Jobber!provider, Jobber!history
<1>2. flow[f] \in FlowRuns
    BY <1>1, FlowFields DEF JobberInv
<1>3. r \in FlowRuns /\ r.at = "asked"
    BY <1>0, <1>1, <1>2 DEF FlowRuns
<1>4. FlowsTyped /\ flow'[f] = r /\ OthersFlow(f)
    BY <1>1, <1>3, FlowWritten DEF JobberInv
<1>5. BindingsStep /\ consent' \in [Binders -> Nat] /\ jobberFaults' \in 0 .. MaxJobberFaults
    BY <1>1, BindingsKept DEF JobberInv, JobberTypes
<1>6. FlowMove(f)
    BY <1>1, <1>3, <1>4 DEF FlowMove
<1>. QED  BY <1>1, <1>4, <1>5, <1>6, AuthKeeps DEF AuthStep, ConsentStep, Jobber!FlowFrame

LEMMA JobberBegins ==
    ASSUME Jobber!Init
    PROVE  JobberInv
<1>1. /\ use \in [TokenUses -> Outside] /\ flow \in [OAuthFlows -> Outside]
      /\ removal \in [Removals -> Outside] /\ worker \in [DisconnectWorkers -> Outside]
    <2>1. ASSUME NEW S, NEW cast, NEW g, g = [x \in S |-> [at |-> IF x \in cast THEN "idle" ELSE "away"]]
          PROVE  g \in [S -> Outside]
        BY <2>1 DEF Outside
    <2>. QED  BY <2>1 DEF Jobber!Init
<1>2. /\ \A u \in TokenUses : use[u].at \in {"idle", "away"}
      /\ \A f \in OAuthFlows : flow[f].at \in {"idle", "away"}
      /\ \A r \in Removals : removal[r].at \in {"idle", "away"}
      /\ \A w \in DisconnectWorkers : worker[w].at \in {"idle", "away"}
    BY <1>1 DEF Outside
<1>3. /\ counter = 0 /\ barrier = [a \in JobberAccounts |-> 0]
      /\ work = [a \in JobberAccounts |-> [status |-> "none", lease |-> None, live |-> FALSE, tries |-> 0, cursor |-> 0]]
      /\ outbox = [r \in Removals |-> "none"] /\ pairs = JobberContractors /\ revoked = {}
      /\ renewals = [p \in 1 .. Jobber!MaxPairs |-> 0]
      /\ consent = [c \in Binders |-> 0] /\ captured = [c \in Binders |-> [acct |-> BoundTo[c], at |-> 0]]
      /\ jobberFaults = 0
    BY DEF Jobber!Init, Binders
<1> DEFINE BoundAs(c) ==
        IF BoundTo[c] = None THEN Jobber!NoBinding
        ELSE [Jobber!NoBinding EXCEPT !.acct = BoundTo[c], !.accepted = 0, !.connected = TRUE, !.capture = TRUE, !.pair = c]
<1>16. binding = [c \in Binders |-> BoundAs(c)]
    BY DEF Jobber!Init, Binders
<1>4. ASSUME NEW c \in Binders
      PROVE  /\ binding[c] \in Bindings /\ binding[c].claim = None
             /\ binding[c].acct = BoundTo[c]
             /\ binding[c].accepted # None => binding[c].accepted = 0 /\ binding[c].acct # None
             /\ binding[c].pair \in {0, c} /\ BoundTo[c] \in JobberAccounts \cup {None}
             /\ binding[c].capture => captured[c].acct = BoundTo[c]
    <2>1. binding[c] = BoundAs(c)
        BY <1>16
    <2>2. BoundTo[c] \in JobberAccounts \cup {None} /\ c \in Nat
        BY JobberConstants
    <2>3. captured[c].acct = BoundTo[c]
        BY <1>3
    <2>4. PICK blank \in Bindings : /\ blank = Jobber!NoBinding
                                   /\ blank.acct = None /\ blank.accepted = None /\ ~blank.capture /\ blank.pair = 0 /\ blank.claim = None
        <3>1. Jobber!NoBinding \in Bindings
            BY DEF Bindings, Jobber!NoBinding
        <3>2. /\ Jobber!NoBinding.acct = None /\ Jobber!NoBinding.accepted = None /\ ~Jobber!NoBinding.capture
              /\ Jobber!NoBinding.pair = 0 /\ Jobber!NoBinding.claim = None
            BY DEF Jobber!NoBinding
        <3>. QED  BY <3>1, <3>2
    <2>5. CASE BoundTo[c] = None
        BY <2>1, <2>3, <2>4, <2>5
    <2>6. CASE BoundTo[c] # None
        <3>1. binding[c] = [blank EXCEPT !.acct = BoundTo[c], !.accepted = 0, !.connected = TRUE, !.capture = TRUE, !.pair = c]
            BY <2>1, <2>4, <2>6
        <3>. QED  BY <2>2, <2>3, <2>4, <2>6, <3>1 DEF Bindings
    <2>. QED  BY <2>5, <2>6
<1>5. binding \in [Binders -> Bindings]
    <2> HIDE DEF BoundAs
    <2>. QED  BY <1>4, <1>16
<1> HIDE DEF BoundAs
<1>6. /\ pairs \in Nat /\ jobberFaults \in 0 .. MaxJobberFaults /\ counter \in Nat /\ counter <= MaxReceipts
      /\ work \in [JobberAccounts -> WorkRows]
      /\ renewals \in [1 .. Jobber!MaxPairs -> Nat] /\ 1 .. Jobber!MaxPairs \in SUBSET Nat
      /\ captured \in [Binders -> Moments] /\ consent \in [Binders -> Nat]
    <2>1. [status |-> "none", lease |-> None, live |-> FALSE, tries |-> 0, cursor |-> 0] \in WorkRows
        BY JobberConstants DEF WorkRows
    <2>2. \A c \in Binders : [acct |-> BoundTo[c], at |-> 0] \in Moments
        BY <1>4 DEF Moments
    <2>3. \A i \in 1 .. Jobber!MaxPairs : i \in Nat
        OBVIOUS
    <2>. QED  BY <1>3, <2>1, <2>2, <2>3, JobberConstants
<1>7. JobberTypes
    <2>1. \A f \in OAuthFlows : flow[f].at = "connect" => flow[f].dest \in JobberAccounts
        BY <1>2
    <2>2. barrier \in [JobberAccounts -> Nat] /\ outbox \in [Removals -> {"none"}]
        BY <1>3
    <2>. QED  BY <1>1, <1>3, <1>5, <1>6, <2>1, <2>2 DEF JobberTypes
<1>8. BarriersFit
    BY <1>3, <1>4, <1>6, JobberConstants DEF BarriersFit
<1>9. CaptureFits
    BY <1>4 DEF CaptureFits
<1>10. WorkFits
    <2>1. \A c \in Binders : ~(c <= 0)
        BY JobberConstants
    <2>. QED  BY <1>2, <1>3, <2>1 DEF WorkFits
<1>11. RevocationFits
    BY <1>2, <1>3 DEF RevocationFits
<1>12. \A p : ~Sent(p)
    BY <1>2, <1>3 DEF Sent
<1>13. PairsAreUnique
    <2>1. ASSUME NEW c \in Binders PROVE binding[c].pair <= pairs
        <3>1. binding[c].pair \in {0, c}
            BY <1>4
        <3>2. c \in 1 .. JobberContractors /\ JobberContractors \in Nat /\ pairs = JobberContractors
            BY <1>3, JobberConstants
        <3>. QED  BY <3>1, <3>2
    <2>2. \A c, d \in Binders : binding[c].pair = binding[d].pair /\ binding[c].pair # 0 => c = d
        BY <1>4
    <2>3. /\ \A u \in TokenUses : ~GotBy(u)
          /\ \A f \in OAuthFlows : ~BoughtBy(f)
        BY <1>2 DEF GotBy, BoughtBy
    <2>. QED  BY <2>1, <2>2, <2>3 DEF PairsAreUnique
<1>14. RenewalsFit
    BY <1>2, <1>3, <1>12 DEF RenewalsFit
<1>15. ClaimsFit
    BY <1>2, <1>4 DEF ClaimsFit
<1>. QED  BY <1>7, <1>8, <1>9, <1>10, <1>11, <1>13, <1>14, <1>15 DEF JobberInv, JobberParts

LEMMA UseKeeps ==
    ASSUME JobberInv, Jobber!UseNext
    PROVE  JobberInv'
<1>0. JobberTypes /\ BarriersFit /\ ClaimsFit
    BY DEF JobberInv, JobberParts
<1>1. PICK u \in TokenUses :
          \/ \E c \in Binders : Jobber!CallBegins(u, c)
          \/ Jobber!LoadSnapshot(u) \/ Jobber!Preflight(u) \/ Jobber!Reload(u) \/ Jobber!Acquire(u) \/ Jobber!Start(u)
          \/ Jobber!Release(u) \/ Jobber!Call(u) \/ Jobber!Terminalize(u) \/ Jobber!Renew(u) \/ Jobber!Persist(u)
          \/ Jobber!Quarantine(u)
    BY DEF Jobber!UseNext, Binders
<1>2. CASE Jobber!Renew(u)
    BY <1>0, <1>2, RenewMoves, CallKeeps DEF Jobber!Renew
<1>3. ASSUME CallStep(u), Jobber!UseFrame, UNCHANGED <<pairs, renewals>> PROVE JobberInv'
    BY <1>3, CallKeeps
<1>4. CASE \E c \in Binders : Jobber!CallBegins(u, c)
    BY <1>0, <1>3, <1>4, CallBeginsMoves DEF Jobber!CallBegins
<1>5. CASE Jobber!LoadSnapshot(u)
    BY <1>0, <1>3, <1>5, LoadMoves DEF Jobber!LoadSnapshot
<1>6. CASE Jobber!Preflight(u)
    BY <1>0, <1>3, <1>6, PreflightMoves DEF Jobber!Preflight
<1>7. CASE Jobber!Reload(u)
    BY <1>0, <1>3, <1>7, ReloadMoves DEF Jobber!Reload
<1>8. CASE Jobber!Acquire(u)
    BY <1>0, <1>3, <1>8, AcquireMoves DEF Jobber!Acquire
<1>9. CASE Jobber!Start(u)
    BY <1>0, <1>3, <1>9, StartMoves DEF Jobber!Start
<1>10. CASE Jobber!Release(u)
    BY <1>0, <1>3, <1>10, ReleaseMoves DEF Jobber!Release
<1>11. CASE Jobber!Call(u)
    BY <1>0, <1>3, <1>11, SendMoves DEF Jobber!Call
<1>12. CASE Jobber!Terminalize(u)
    BY <1>0, <1>3, <1>12, TerminalizeMoves DEF Jobber!Terminalize
<1>13. CASE Jobber!Persist(u)
    BY <1>0, <1>3, <1>13, PersistMoves DEF Jobber!Persist
<1>14. CASE Jobber!Quarantine(u)
    BY <1>0, <1>3, <1>14, QuarantineMoves DEF Jobber!Quarantine
<1>. QED  BY <1>1, <1>2, <1>4, <1>5, <1>6, <1>7, <1>8, <1>9, <1>10, <1>11, <1>12, <1>13, <1>14

LEMMA FlowKeeps ==
    ASSUME JobberInv, Jobber!FlowNext
    PROVE  JobberInv'
<1>0. JobberTypes /\ BarriersFit /\ ClaimsFit
    BY DEF JobberInv, JobberParts
<1>1. PICK f \in OAuthFlows :
          \/ \E c \in Binders : Jobber!CreateState(f, c)
          \/ Jobber!Consume(f) \/ Jobber!StartExchange(f) \/ Jobber!Exchange(f) \/ Jobber!Rejected(f) \/ Jobber!Connect(f)
    BY DEF Jobber!FlowNext, Binders
<1>2. CASE \E c \in Binders : Jobber!CreateState(f, c)
    BY <1>0, <1>2, CreateMoves, AuthKeeps DEF Jobber!CreateState
<1>3. CASE Jobber!Consume(f)
    BY <1>0, <1>3, ConsumeMoves, AuthKeeps DEF Jobber!Consume
<1>4. CASE Jobber!StartExchange(f)
    BY <1>0, <1>4, ExchangeBegins, AuthKeeps DEF Jobber!StartExchange
<1>5. CASE Jobber!Exchange(f)
    BY <1>0, <1>5, ExchangeMoves, AuthKeeps DEF Jobber!Exchange
<1>6. CASE Jobber!Rejected(f)
    BY <1>0, <1>6, RejectedMoves, AuthKeeps DEF Jobber!Rejected
<1>7. CASE Jobber!Connect(f)
    BY <1>0, <1>7, ConnectMoves, AuthKeeps DEF Jobber!Connect
<1>. QED  BY <1>1, <1>2, <1>3, <1>4, <1>5, <1>6, <1>7

LEMMA DisconnectingKeeps ==
    ASSUME JobberInv, Jobber!RemovalNext
    PROVE  JobberInv'
<1>0. JobberTypes /\ BarriersFit /\ RevocationFits
    BY DEF JobberInv, JobberParts
<1>1. PICK r \in Removals :
          \/ \E c \in Binders : Jobber!RemoveLocal(r, c)
          \/ Jobber!Disconnect(r) \/ Jobber!Admit(r) \/ Jobber!Dispatch(r) \/ Jobber!Record(r) \/ Jobber!CancelDenied(r)
          \/ Jobber!Finalize(r)
    BY DEF Jobber!RemovalNext, Binders
<1>2. CASE \E c \in Binders : Jobber!RemoveLocal(r, c)
    BY <1>0, <1>2, LocalMoves, RemovalKeeps DEF Jobber!RemoveLocal
<1>3. CASE Jobber!Disconnect(r)
    BY <1>0, <1>3, DisconnectMoves, RemovalKeeps DEF Jobber!Disconnect
<1>4. CASE Jobber!Admit(r)
    BY <1>0, <1>4, AdmitMoves, RemovalKeeps DEF Jobber!Admit
<1>5. CASE Jobber!Dispatch(r)
    BY <1>0, <1>5, DispatchMoves, RemovalKeeps DEF Jobber!Dispatch
<1>6. CASE Jobber!Record(r)
    BY <1>0, <1>6, RecordMoves, RemovalKeeps DEF Jobber!Record
<1>7. CASE Jobber!CancelDenied(r)
    BY <1>0, <1>7, DeniedMoves, RemovalKeeps DEF Jobber!CancelDenied
<1>8. CASE Jobber!Finalize(r)
    BY <1>0, <1>8, FinalizeMoves, RemovalKeeps DEF Jobber!Finalize
<1>. QED  BY <1>1, <1>2, <1>3, <1>4, <1>5, <1>6, <1>7, <1>8

LEMMA WorkKeeps ==
    ASSUME JobberInv, Jobber!WorkerNext
    PROVE  JobberInv'
<1>0. JobberTypes /\ BarriersFit /\ WorkFits
    BY DEF JobberInv, JobberParts
<1>1. PICK w \in DisconnectWorkers :
          \/ \E a \in JobberAccounts : Jobber!AcquireWork(w, a)
          \/ Jobber!QueryPage(w) \/ Jobber!Advance(w) \/ Jobber!FinalizeWork(w) \/ Jobber!ReleaseWork(w) \/ Jobber!WorkerStops(w)
    BY DEF Jobber!WorkerNext
<1>2. CASE \E a \in JobberAccounts : Jobber!AcquireWork(w, a)
    BY <1>0, <1>2, AcquireWorkMoves, WorkerKeeps DEF Jobber!AcquireWork
<1>3. CASE Jobber!QueryPage(w)
    BY <1>0, <1>3, QueryPageMoves, WorkerKeeps DEF Jobber!QueryPage
<1>4. CASE Jobber!Advance(w)
    BY <1>0, <1>4, AdvanceMoves, WorkerKeeps DEF Jobber!Advance
<1>5. CASE Jobber!FinalizeWork(w)
    BY <1>0, <1>5, FinalizeWorkMoves, WorkerKeeps DEF Jobber!FinalizeWork
<1>6. CASE Jobber!ReleaseWork(w)
    BY <1>0, <1>6, ReleaseWorkMoves, WorkerKeeps DEF Jobber!ReleaseWork
<1>7. CASE Jobber!WorkerStops(w)
    BY <1>0, <1>7, StopMoves, WorkerKeeps DEF Jobber!WorkerStops
<1>. QED  BY <1>1, <1>2, <1>3, <1>4, <1>5, <1>6, <1>7

LEMMA JobberInductive ==
    ASSUME JobberInv, Jobber!Next
    PROVE  JobberInv'
<1>1. CASE \E a \in JobberAccounts : Jobber!Receive(a) \/ Jobber!LeaseExpires(a)
    BY <1>1, ReceiveKeeps, LeaseExpiryKeeps
<1>2. CASE \E c \in Binders : Jobber!ClaimExpires(c) \/ \E on \in BOOLEAN : Jobber!SetCapture(c, on)
    BY <1>2, ClaimExpiryKeeps, CaptureKeeps
<1>3. CASE \E f \in OAuthFlows : Jobber!StateExpires(f)
    BY <1>3, StateExpiryKeeps
<1>. QED  BY <1>1, <1>2, <1>3, UseKeeps, FlowKeeps, DisconnectingKeeps, WorkKeeps DEF Jobber!Next, Binders

LEMMA JobberStutters ==
    ASSUME JobberInv, UNCHANGED jobberVars
    PROVE  JobberInv'
<1>1. UNCHANGED <<counter, barrier, work, binding, use, flow, removal, worker, outbox, pairs, renewals, revoked,
                  consent, captured, jobberFaults>>
    BY DEF jobberVars
<1>2. BindingsStep /\ Frame /\ PairsMove
    BY <1>1, BindingsKept, NobodyMoves DEF Frame, JobberInv, JobberTypes
<1>3. JobberParts'
    BY <1>1, <1>2, PartsKept, QuietWork, QuietRemovals
<1>4. JobberTypes'
    BY <1>1 DEF JobberInv, JobberTypes
<1>. QED  BY <1>3, <1>4 DEF JobberInv

LEMMA JobberIsFenced ==
    ASSUME JobberInv
    PROVE  DisconnectFencesAccount
<1>0. JobberTypes /\ BarriersFit /\ CaptureFits /\ WorkFits /\ RevocationFits /\ RenewalsFit
    BY DEF JobberInv, JobberParts
<1>1. Jobber!TypeOK
    <2>1. counter \in 0 .. MaxReceipts /\ barrier \in [JobberAccounts -> 0 .. counter]
        <3>1. counter \in Nat /\ counter <= MaxReceipts /\ MaxReceipts \in Nat /\ barrier \in [JobberAccounts -> Nat]
            BY <1>0, JobberConstants DEF JobberTypes
        <3>2. \A a \in JobberAccounts : barrier[a] \in 0 .. counter
            BY <1>0, <3>1 DEF BarriersFit
        <3>. QED  BY <3>1, <3>2
    <2>2. \A a \in JobberAccounts :
              /\ work[a].status \in {"none", "pending", "processing", "completed", "needs_review"}
              /\ work[a].lease # None <=> work[a].status = "processing"
              /\ work[a].tries \in 0 .. MaxJobberAttempts
        BY <1>0 DEF JobberTypes, BarriersFit, WorkRows
    <2>3. ASSUME NEW c \in Binders
          PROVE  /\ binding[c].acct \in JobberAccounts \cup {None}
                 /\ binding[c].accepted # None => binding[c].acct # None /\ binding[c].accepted <= counter
        <3>1. binding[c] \in Bindings
            BY <1>0 DEF JobberTypes
        <3>2. binding[c].accepted # None =>
                  binding[c].acct \in JobberAccounts /\ binding[c].accepted \in Nat
                  /\ binding[c].accepted <= barrier[binding[c].acct]
            BY <1>0, <3>1 DEF BarriersFit, Bindings
        <3>3. \A a \in JobberAccounts : barrier[a] \in Nat /\ barrier[a] <= counter
            BY <1>0 DEF BarriersFit, JobberTypes
        <3>4. counter \in Nat
            BY <1>0 DEF JobberTypes
        <3>. QED  BY <1>0, <3>1, <3>2, <3>3, <3>4 DEF Bindings, BarriersFit
    <2>4. \A k \in Jobber!Claims : k.kind \in {"business", "refresh", "connect"}
        <3>1. \A c \in Binders : binding[c].claim # None => binding[c].claim \in ClaimFields
            BY <1>0, ClaimRecordIs DEF JobberTypes, Bindings
        <3>. QED  BY <3>1 DEF Jobber!Claims, ClaimFields, Binders
    <2>. QED  BY <1>0, <2>1, <2>2, <2>3, <2>4 DEF Jobber!TypeOK, JobberTypes, Binders
<1>2. Jobber!ConsentFollowsReceipt
    <2>1. ASSUME NEW c \in Binders, Jobber!Admitted(binding[c]) PROVE consent[c] >= barrier[binding[c].acct]
        <3>1. binding[c] \in Bindings /\ barrier \in [JobberAccounts -> Nat] /\ consent[c] \in Nat
            BY <1>0 DEF JobberTypes
        <3>2. binding[c].accepted # None /\ ~(binding[c].accepted < barrier[binding[c].acct])
            BY <2>1 DEF Jobber!Admitted, Jobber!Stale
        <3>3. binding[c].acct \in JobberAccounts /\ binding[c].accepted \in Nat
            BY <1>0, <3>1, <3>2 DEF BarriersFit, Bindings
        <3>4. binding[c].accepted <= consent[c] /\ barrier[binding[c].acct] \in Nat
            BY <1>0, <3>1, <3>2, <3>3 DEF BarriersFit
        <3>. QED  BY <3>1, <3>2, <3>3, <3>4
    <2>. QED  BY <2>1 DEF Jobber!ConsentFollowsReceipt, Binders
<1>3. Jobber!RenewedOnce
    BY <1>0 DEF Jobber!RenewedOnce, RenewalsFit
<1>4. Jobber!CompletedIsSuspended
    BY <1>0 DEF Jobber!CompletedIsSuspended, WorkFits, Settled, Binders
<1>5. Jobber!CaptureIsForThisAccount
    BY <1>0 DEF Jobber!CaptureIsForThisAccount, CaptureFits, Binders
<1>6. Jobber!RevocationIsHonest
    BY <1>0 DEF Jobber!RevocationIsHonest, RevocationFits
<1>. QED  BY <1>1, <1>2, <1>3, <1>4, <1>5, <1>6 DEF DisconnectFencesAccount

\* A webhook receipt of Jobber fences the account, whatever calls, renewals, authorisations,
\* removals and recovery passes are on their way (jobber_admissions.py, jobber_disconnects.py).
THEOREM DisconnectFenced == AccountSpec => []DisconnectFencesAccount
<1>1. AccountInit => JobberInv
    BY JobberBegins DEF AccountInit
<1>2. JobberInv /\ [AccountNext]_<<part, vars, grantVars, jobberVars>> => JobberInv'
    BY JobberInductive, JobberStutters DEF AccountNext
<1>3. JobberInv => DisconnectFencesAccount
    BY JobberIsFenced
<1>. QED  BY <1>1, <1>2, <1>3, PTL DEF AccountSpec
=============================================================================
