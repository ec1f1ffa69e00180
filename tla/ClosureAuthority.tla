--------------------------- MODULE ClosureAuthority ---------------------------
(* OfflineLocalClosureAuthority of app/services/voice_bakeoff_closure.py: the *)
(* one registry entry that decides whether a research session may end with   *)
(* one local frame.  Every method of the class takes the latch once, except  *)
(* commit, which takes it twice; what a method does to the entry under one   *)
(* hold is an operator here, and ClosureDriver takes the holds one at a time. *)
(*                                                                            *)
(* The facade, the leased record, the driver and the participant surrogate    *)
(* are compared by identity and belong to one lease: they are its number.     *)
(* A receipt is live, dead (its tombstone is kept) or was never minted.       *)
(* The digests, bindings and texts a receipt repeats from its entry are the   *)
(* entry's own, so comparing them adds nothing to the identity.               *)
EXTENDS Naturals

Steps == {"opt_out", "generic"}
ClosurePhases ==
  {"absent", "leased", "active", "authority_sealed", "proof_live", "capable",
   "staged", "committed", "consumed", "no_audio", "terminated"}
Receipts == {"none", "live", "dead"}

ClosureEntries(Leases) ==
  [phase : ClosurePhases, lease : Leases \cup {0}, active : BOOLEAN,
   step : Steps, withdrawn : BOOLEAN, confirmation : Receipts,
   capability : Receipts, stage : BOOLEAN, commit : BOOLEAN,
   inventory : BOOLEAN, proof : BOOLEAN, played : BOOLEAN,
   invalidated : BOOLEAN, generation : {0, 1}]

NewEntry(lease, step, phase) ==
  [phase |-> phase, lease |-> lease, active |-> FALSE, step |-> step,
   withdrawn |-> FALSE, confirmation |-> "none", capability |-> "none",
   stage |-> FALSE, commit |-> FALSE, inventory |-> FALSE, proof |-> FALSE,
   played |-> FALSE, invalidated |-> FALSE, generation |-> 0]

AbsentEntry == NewEntry(0, "opt_out", "absent")

-----------------------------------------------------------------------------
(* Who may speak to the entry.                                               *)

IsOpen(entry) == entry.phase \notin {"absent", "terminated"}
HeldBy(entry, lease) == IsOpen(entry) /\ entry.lease = lease
RunBy(entry, lease) == HeldBy(entry, lease) /\ entry.active

IsRegistrable(entry) == ~ IsOpen(entry)

IsWithdrawn(entry, lease) == HeldBy(entry, lease) /\ entry.withdrawn

Withdrawn(entry, lease) ==
  IF HeldBy(entry, lease) THEN [entry EXCEPT !.withdrawn = TRUE] ELSE entry

-----------------------------------------------------------------------------
(* The opt-out's confirmation and the generic failure's proof.               *)

MayConfirm(entry, lease, late) ==
  /\ HeldBy(entry, lease) /\ entry.phase = "leased"
  /\ entry.step = "opt_out"
  /\ ~ entry.withdrawn /\ ~ entry.invalidated
  /\ entry.confirmation = "none"
  /\ ~ late

Confirmed(entry) == [entry EXCEPT !.confirmation = "live"]

MayActivate(entry, lease) ==
  HeldBy(entry, lease) /\ entry.phase = "leased" /\ ~ entry.active

Activated(entry) == [entry EXCEPT !.phase = "active", !.active = TRUE]

MaySealAuthority(entry, lease) ==
  /\ RunBy(entry, lease) /\ entry.phase = "active"
  /\ entry.step = "generic"
  /\ ~ entry.withdrawn /\ ~ entry.invalidated /\ ~ entry.inventory

AuthoritySealed(entry) ==
  [entry EXCEPT !.phase = "authority_sealed", !.inventory = TRUE]

MayAdmitFailure(entry, lease, late) ==
  /\ RunBy(entry, lease) /\ entry.phase = "authority_sealed"
  /\ entry.step = "generic"
  /\ ~ entry.withdrawn /\ ~ entry.invalidated
  /\ entry.confirmation = "none" /\ ~ entry.proof
  /\ ~ late

FailureAdmitted(entry) ==
  [entry EXCEPT !.phase = "proof_live", !.confirmation = "live",
                !.proof = TRUE]

ProofIsLive(entry) ==
  entry.step = "generic" /\ entry.proof /\ ~ entry.invalidated

-----------------------------------------------------------------------------
(* Capability, stage, commit.                                                *)

MayMint(entry, lease, presented, late) ==
  /\ RunBy(entry, lease)
  /\ entry.phase = IF entry.step = "opt_out" THEN "active" ELSE "proof_live"
  /\ ~ entry.withdrawn /\ ~ entry.invalidated
  /\ presented /\ entry.confirmation = "live"
  /\ entry.capability = "none"
  /\ ~ late
  /\ entry.step = "generic" => ProofIsLive(entry)

Minted(entry) ==
  [entry EXCEPT !.phase = "capable", !.confirmation = "dead",
                !.capability = "live", !.inventory = TRUE]

CapabilityIsGood(entry) ==
  /\ entry.capability = "live"
  /\ entry.step = "generic" => ProofIsLive(entry)

MayStage(entry, lease, late) ==
  /\ RunBy(entry, lease) /\ entry.phase = "capable"
  /\ ~ entry.withdrawn /\ entry.inventory
  /\ CapabilityIsGood(entry)
  /\ ~ late

Staged(entry) == [entry EXCEPT !.phase = "staged", !.stage = TRUE]

CanCommit(entry, lease, late) ==
  /\ RunBy(entry, lease) /\ entry.phase = "staged"
  /\ ~ entry.withdrawn /\ ~ entry.invalidated /\ entry.inventory
  /\ CapabilityIsGood(entry)
  /\ entry.stage /\ ~ entry.commit
  /\ ~ late

Committed(entry) ==
  [entry EXCEPT !.phase = "committed", !.capability = "dead",
                !.stage = FALSE, !.commit = TRUE]

(* A commit that is refused while the capability lives takes it away: the    *)
(* phase stays and nothing of the entry can be committed any more.           *)
CapabilityTombstoned(entry, lease) ==
  IF /\ RunBy(entry, lease) /\ entry.phase = "staged"
     /\ entry.capability = "live" /\ ~ entry.commit
  THEN [entry EXCEPT !.capability = "dead", !.stage = FALSE]
  ELSE entry

(* The second hold of commit: the state read under the first one must still  *)
(* be the entry's.                                                           *)
CommitOutcome(entry, read, lease, late) ==
  IF entry = read /\ CanCommit(entry, lease, late)
  THEN Committed(read)
  ELSE CapabilityTombstoned(entry, lease)

(* Seeded fault: the second hold assigns what the first one prepared without *)
(* looking at the entry again.                                               *)
CommitWithoutLooking(entry, read, lease, late) ==
  IF HeldBy(entry, lease)
  THEN [Committed(read) EXCEPT !.withdrawn = entry.withdrawn]
  ELSE entry

-----------------------------------------------------------------------------
(* The frame, and the end.                                                   *)

HasCommittedFrame(entry, lease) ==
  RunBy(entry, lease) /\ entry.phase = "committed" /\ entry.commit

FrameToCapture(entry, lease) ==
  HasCommittedFrame(entry, lease) /\ entry.step = "opt_out"

MayMarkPlayed(entry, lease) == FrameToCapture(entry, lease) /\ ~ entry.played

Invalidated(entry) ==
  [entry EXCEPT
     !.phase = "no_audio",
     !.confirmation = IF @ = "live" THEN "dead" ELSE @,
     !.capability = IF @ = "live" THEN "dead" ELSE @,
     !.stage = FALSE, !.commit = FALSE, !.proof = FALSE,
     !.invalidated = TRUE, !.generation = @ + 1]

MayInvalidate(entry, lease) == RunBy(entry, lease)

InvalidateOutcome(entry) ==
  IF entry.phase = "consumed" \/ entry.invalidated
  THEN entry ELSE Invalidated(entry)

IsConsumable(entry, lease) ==
  HasCommittedFrame(entry, lease) /\ entry.step = "generic"

ConsumeSucceeds(entry, generation, late) ==
  /\ ~ late /\ ~ entry.invalidated /\ entry.generation = generation
  /\ ~ entry.played /\ ProofIsLive(entry)

ConsumeOutcome(entry, lease, generation, late) ==
  IF ~ IsConsumable(entry, lease) THEN entry
  ELSE IF ConsumeSucceeds(entry, generation, late)
  THEN [entry EXCEPT !.phase = "consumed", !.confirmation = "dead",
                     !.capability = "dead", !.stage = FALSE,
                     !.commit = FALSE, !.proof = FALSE, !.played = TRUE]
  ELSE IF entry.invalidated THEN entry ELSE Invalidated(entry)

Terminated(entry, lease) ==
  IF HeldBy(entry, lease)
  THEN [entry EXCEPT
          !.phase = "terminated", !.active = FALSE,
          !.confirmation = IF @ = "live" THEN "dead" ELSE @,
          !.capability = IF @ = "live" THEN "dead" ELSE @,
          !.stage = FALSE, !.commit = FALSE, !.inventory = FALSE,
          !.proof = FALSE]
  ELSE entry
=============================================================================
