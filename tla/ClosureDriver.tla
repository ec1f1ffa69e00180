----------------------------- MODULE ClosureDriver -----------------------------
(* OfflineSessionDriver of app/services/voice_bakeoff_session_driver.py: one  *)
(* lease at a time, and the journeys that may end with a local closure frame. *)
(* The driver's lock is taken without waiting, so lease, confirm and revoke   *)
(* find it free or do nothing; `run` keeps it to its end.  `withdraw` never   *)
(* takes it: it takes the authority's latch alone and falls between any two   *)
(* holds of a run, whose control point is `pc`.                               *)
(*                                                                            *)
(* The composition, the receipts and the speech of the session are the        *)
(* subject of BakeoffCall: here one of their steps succeeds or aborts the run.*)
EXTENDS ClosureAuthority

CONSTANTS
  MaxLeases    \* bound: leases granted in one behaviour

ASSUME MaxLeasesAssumption == MaxLeases \in Nat \ {0}

Leases == 1..MaxLeases
Journeys == {"opt_out", "generic", "plain"}
(* Where an injected failure of the generic journey strikes.                 *)
Injections == {"none", "before_proof", "proof", "capability", "stage", "commit"}

VARIABLES
  entry,      \* the authority's registry entry
  grant,      \* _lease_grant: the lease, its journey, its state, its injection
  pc,         \* where the run that holds the driver's lock stands
  kept,       \* _scripted_confirmation, _generic_failure_proof: a receipt in hand
  assembly,   \* the session's general authority: none, live or sealed
  queued,     \* frames of general speech in the outbound buffer
  captured,   \* closure frames the run will return
  marked,     \* the run's trace has the marker of a played or consumed frame
  verdict,    \* how the run classified a withdrawal
  broken,     \* the run has a failure
  read,       \* the entry the first hold of commit captured
  overdue,    \* the run's clock has passed the lease's expiry
  results     \* for each lease, what its run or its abort reported

drvars == <<grant, pc, kept, assembly, queued, captured, marked, verdict,
            broken, read, overdue, results>>
cdvars == <<entry, drvars>>

NoResult == [state |-> "none", evidence |-> "none", frames |-> 0]

Lease == grant.lease
Late(at) == at \in {overdue, TRUE}

Fresh ==
  /\ kept' = FALSE /\ assembly' = "none" /\ queued' = 0 /\ captured' = 0
  /\ marked' = FALSE /\ verdict' = "none" /\ broken' = FALSE
  /\ read' = AbsentEntry /\ overdue' = FALSE

InitDriver ==
  /\ entry = AbsentEntry
  /\ grant = [lease |-> 0, journey |-> "plain", state |-> "none",
              injection |-> "none"]
  /\ pc = "idle" /\ kept = FALSE /\ assembly = "none" /\ queued = 0
  /\ captured = 0 /\ marked = FALSE /\ verdict = "none" /\ broken = FALSE
  /\ read = AbsentEntry /\ overdue = FALSE
  /\ results = [l \in Leases |-> NoResult]

-----------------------------------------------------------------------------
(* Between runs.                                                             *)

LeaseSession(journey, injection) ==
  /\ pc = "idle" /\ Lease < MaxLeases
  /\ grant.state \in {"none", "closed", "aborted"}
  /\ journey # "generic" => injection = "none"
  /\ journey # "plain" => IsRegistrable(entry)
  /\ grant' = [lease |-> Lease + 1, journey |-> journey, state |-> "leased",
               injection |-> injection]
  /\ entry' = IF journey = "plain" THEN entry
              ELSE NewEntry(Lease + 1, journey, "leased")
  /\ Fresh
  /\ UNCHANGED <<pc, results>>

(* A second confirmation is refused by the authority, and the refusal takes  *)
(* the place of the receipt the driver had.                                  *)
ConfirmScriptedOptOut ==
  /\ pc = "idle" /\ grant.state = "leased" /\ grant.journey = "opt_out"
  /\ \E late \in BOOLEAN :
       /\ kept' = MayConfirm(entry, Lease, late)
       /\ entry' = IF kept' THEN Confirmed(entry) ELSE entry
  /\ UNCHANGED <<grant, pc, assembly, queued, captured, marked, verdict,
                 broken, read, overdue, results>>

Withdraw(lease) ==
  /\ lease <= Lease
  /\ entry' = Withdrawn(entry, lease)
  /\ UNCHANGED drvars

(* The lease ends without a run: revoked, or found expired by one.           *)
EndUnrun ==
  /\ pc = "idle" /\ grant.state = "leased"
  /\ grant' = [grant EXCEPT !.state = "aborted"]
  /\ entry' = IF grant.journey = "plain" THEN entry
              ELSE Terminated(entry, Lease)
  /\ kept' = FALSE
  /\ UNCHANGED <<pc, assembly, queued, captured, marked, verdict, broken, read,
                 overdue>>

Revoke == EndUnrun /\ UNCHANGED results

RunExpired ==
  /\ EndUnrun
  /\ results' = [results EXCEPT ![Lease] =
        [state |-> "aborted", frames |-> 0,
         evidence |-> IF grant.journey = "plain" THEN "none" ELSE "silent"]]

-----------------------------------------------------------------------------
(* A run's steps.                                                            *)

Goto(next) == pc' = next
Abort == broken' = TRUE /\ Goto("capture")

(* A latch hold that reads: everything but the control point stays.          *)
Quiet == UNCHANGED <<entry, grant, kept, assembly, queued, captured, marked,
                     read, overdue, results>>

RunStart ==
  /\ pc = "idle" /\ grant.state = "leased"
  /\ grant' = [grant EXCEPT !.state = "active"]
  /\ IF grant.journey = "plain"
     THEN Goto("plain") /\ UNCHANGED entry
     ELSE /\ MayActivate(entry, Lease)
          /\ entry' = Activated(entry)
          /\ Goto(IF grant.journey = "opt_out" THEN "first_look" ELSE "compose")
  /\ UNCHANGED <<kept, assembly, queued, captured, marked, verdict, broken,
                 read, overdue, results>>

RunPlain ==
  /\ pc = "plain"
  /\ broken' \in BOOLEAN
  /\ Goto("terminate")
  /\ UNCHANGED verdict /\ Quiet

(* _execute_opt_out_withdrawal looks at the latch before it assembles the    *)
(* session, before it admits the turn and before it composes.                *)
Look(at, next) ==
  /\ pc = at
  /\ IF IsWithdrawn(entry, Lease)
     THEN verdict' = "withdrawn"
          /\ Goto(IF assembly = "live" THEN "seal_latched" ELSE "capture")
     ELSE Goto(next) /\ UNCHANGED verdict
  /\ UNCHANGED broken /\ Quiet

Assemble ==
  /\ pc = "assemble"
  /\ \/ assembly' = "live" /\ Goto("second_look") /\ UNCHANGED broken
     \/ Abort /\ UNCHANGED assembly
  /\ UNCHANGED <<entry, grant, kept, queued, captured, marked, verdict, read,
                 overdue, results>>

AdmitTurn ==
  /\ pc = "admit_turn"
  /\ \/ Goto("third_look") /\ UNCHANGED <<assembly, broken>>
     \/ Abort /\ assembly' \in {"live", "sealed"}
  /\ UNCHANGED <<entry, grant, kept, queued, captured, marked, verdict, read,
                 overdue, results>>

SealLatched ==
  /\ pc = "seal_latched"
  /\ \/ assembly' = "sealed" /\ Goto("capture") /\ UNCHANGED broken
     \/ Abort /\ assembly' \in {"live", "sealed"}
  /\ UNCHANGED <<entry, grant, kept, queued, captured, marked, verdict, read,
                 overdue, results>>

(* The turn is composed, and the stop posture of the lease leaves at most    *)
(* one frame of the question in the buffer.  A generic journey composes too, *)
(* until its repairs are exhausted.                                          *)
Compose ==
  /\ pc = "compose"
  /\ \/ /\ queued' \in {0, 1}
        /\ assembly' = "live"
        /\ Goto(IF grant.journey = "opt_out" THEN "own_withdrawal" ELSE "seal")
        /\ UNCHANGED broken
     \/ Abort /\ assembly' \in {assembly, "live", "sealed"} /\ UNCHANGED queued
  /\ UNCHANGED <<entry, grant, kept, captured, marked, verdict, read, overdue,
                 results>>

(* Without a confirmation the stop is a withdrawal, and the driver latches it.*)
OwnWithdrawal ==
  /\ pc = "own_withdrawal"
  /\ entry' = IF kept THEN entry ELSE Withdrawn(entry, Lease)
  /\ Goto("seal")
  /\ UNCHANGED <<grant, kept, assembly, queued, captured, marked, verdict,
                 broken, read, overdue, results>>

SealAssembly ==
  /\ pc = "seal"
  /\ \/ assembly' = "sealed" /\ Goto("clear") /\ UNCHANGED broken
     \/ Abort /\ UNCHANGED assembly
  /\ UNCHANGED <<entry, grant, kept, queued, captured, marked, verdict, read,
                 overdue, results>>

(* _clear_general_outbound, the inventory of what is left, and for an        *)
(* opt-out the checkpoint that must be void.                                 *)
ClearOutbound ==
  /\ pc = "clear"
  /\ \/ /\ queued' = 0
        /\ Goto(IF grant.journey = "opt_out" THEN "last_look" ELSE "authority")
        /\ UNCHANGED broken
     \/ Abort /\ queued' \in {0, queued}
  /\ UNCHANGED <<entry, grant, kept, assembly, captured, marked, verdict, read,
                 overdue, results>>

LastLook ==
  /\ pc = "last_look"
  /\ IF ~ kept \/ IsWithdrawn(entry, Lease)
     THEN verdict' = "withdrawn" /\ Goto("capture")
     ELSE Goto("mint") /\ UNCHANGED verdict
  /\ UNCHANGED broken /\ Quiet

-----------------------------------------------------------------------------
(* The generic failure's proof.                                              *)

SealAuthority ==
  /\ pc = "authority"
  /\ IF MaySealAuthority(entry, Lease)
     THEN /\ entry' = AuthoritySealed(entry)
          /\ Goto(IF grant.injection = "before_proof" THEN "no_audio"
                  ELSE "admit_failure")
          /\ UNCHANGED broken
     ELSE Abort /\ UNCHANGED entry
  /\ UNCHANGED <<grant, kept, assembly, queued, captured, marked, verdict,
                 read, overdue, results>>

AdmitFailure ==
  /\ pc = "admit_failure"
  /\ \E late \in BOOLEAN :
       /\ Late(late)
       /\ overdue' = late
       /\ IF MayAdmitFailure(entry, Lease, late)
          THEN /\ entry' = FailureAdmitted(entry)
               /\ kept' = TRUE
               /\ Goto(IF grant.injection = "proof" THEN "no_audio" ELSE "mint")
               /\ UNCHANGED broken
          ELSE Abort /\ UNCHANGED <<entry, kept>>
  /\ UNCHANGED <<grant, assembly, queued, captured, marked, verdict, read,
                 results>>

NoAudio ==
  /\ pc = "no_audio"
  /\ IF MayInvalidate(entry, Lease)
     THEN entry' = InvalidateOutcome(entry) /\ captured' = 0 /\ Goto("capture")
          /\ UNCHANGED broken
     ELSE Abort /\ UNCHANGED <<entry, captured>>
  /\ UNCHANGED <<grant, kept, assembly, queued, marked, verdict, read, overdue,
                 results>>

-----------------------------------------------------------------------------
(* Capability, stage and commit, for both journeys.  A refusal aborts a      *)
(* generic run; an opt-out run asks the latch why.                           *)

OrNoAudio(injection, onward) ==
  IF grant.injection = injection THEN "no_audio" ELSE onward

RunRefused == IF grant.journey = "opt_out"
           THEN Goto("why") /\ UNCHANGED broken ELSE Abort

MintCapability ==
  /\ pc = "mint"
  /\ \E late \in BOOLEAN :
       /\ Late(late)
       /\ overdue' = late
       /\ IF MayMint(entry, Lease, kept, late)
          THEN entry' = Minted(entry) /\ Goto(OrNoAudio("capability", "stage"))
               /\ UNCHANGED broken
          ELSE RunRefused /\ UNCHANGED entry
  /\ UNCHANGED <<grant, kept, assembly, queued, captured, marked, verdict,
                 read, results>>

StageFrame ==
  /\ pc = "stage"
  /\ \E late \in BOOLEAN :
       /\ Late(late)
       /\ overdue' = late
       /\ IF MayStage(entry, Lease, late)
          THEN entry' = Staged(entry) /\ Goto(OrNoAudio("stage", "commit"))
               /\ UNCHANGED broken
          ELSE RunRefused /\ UNCHANGED entry
  /\ UNCHANGED <<grant, kept, assembly, queued, captured, marked, verdict,
                 read, results>>

CommitRead ==
  /\ pc = "commit"
  /\ \E late \in BOOLEAN :
       /\ Late(late)
       /\ overdue' = late
       /\ IF CanCommit(entry, Lease, late)
          THEN read' = entry /\ Goto("commit_write")
               /\ UNCHANGED <<entry, broken>>
          ELSE entry' = CapabilityTombstoned(entry, Lease) /\ RunRefused
               /\ UNCHANGED read
  /\ UNCHANGED <<grant, kept, assembly, queued, captured, marked, verdict,
                 results>>

CommitWrite ==
  /\ pc = "commit_write"
  /\ entry' = CommitOutcome(entry, read, Lease, overdue)
  /\ IF entry'.commit
     THEN /\ Goto(IF grant.journey = "opt_out" THEN "mark"
                  ELSE OrNoAudio("commit", "consume"))
          /\ UNCHANGED broken
     ELSE RunRefused
  /\ UNCHANGED <<grant, kept, assembly, queued, captured, marked, verdict,
                 read, overdue, results>>

WhyRefused ==
  /\ pc = "why"
  /\ verdict' = IF IsWithdrawn(entry, Lease) THEN "withdrawn" ELSE "rejected"
  /\ Goto("capture")
  /\ UNCHANGED broken /\ Quiet

MarkPlayed ==
  /\ pc = "mark"
  /\ marked' = MayMarkPlayed(entry, Lease)
  /\ entry' = IF marked' THEN [entry EXCEPT !.played = TRUE] ELSE entry
  /\ Goto("capture")
  /\ UNCHANGED <<grant, kept, assembly, queued, captured, verdict, broken,
                 read, overdue, results>>

(* The generation is read just before, in a hold of its own: nothing but a   *)
(* run invalidates, so it is still the entry's.                              *)
ConsumeFrame ==
  /\ pc = "consume"
  /\ \E late \in BOOLEAN :
       /\ Late(late)
       /\ overdue' = late
       /\ entry' = ConsumeOutcome(entry, Lease, entry.generation, late)
       /\ IF entry'.phase = "consumed"
          THEN captured' = 1 /\ marked' = TRUE /\ Goto("capture")
               /\ UNCHANGED broken
          ELSE Abort /\ UNCHANGED <<captured, marked>>
  /\ UNCHANGED <<grant, kept, assembly, queued, verdict, read, results>>

-----------------------------------------------------------------------------
(* The finally of run.                                                       *)

CaptureFrame ==
  /\ pc = "capture"
  /\ captured' = IF grant.journey = "generic" THEN captured
                 ELSE IF FrameToCapture(entry, Lease) THEN 1 ELSE 0
  /\ Goto("terminate")
  /\ UNCHANGED <<entry, grant, kept, assembly, queued, marked, verdict, broken,
                 read, overdue, results>>

RunEvidence ==
  IF grant.journey = "plain" THEN "none"
  ELSE IF marked /\ captured = 1 THEN "marker" ELSE "silent"

(* Terminating the entry, the lease's last state, the scrubbed buffers and   *)
(* the result.  A run over its time fails even when it spoke.                *)
RunEnd ==
  /\ pc = "terminate"
  /\ entry' = IF grant.journey = "plain" THEN entry
              ELSE Terminated(entry, Lease)
  /\ \E overrun \in BOOLEAN :
       LET state == IF broken \/ overrun THEN "aborted" ELSE "closed"
       IN /\ grant' = [grant EXCEPT !.state = state]
          /\ results' = [results EXCEPT ![Lease] =
                [state |-> state, evidence |-> RunEvidence,
                 frames |-> captured]]
  /\ kept' = FALSE /\ queued' = 0
  /\ pc' = "idle"
  /\ UNCHANGED <<assembly, captured, marked, verdict, broken, read, overdue>>

-----------------------------------------------------------------------------
RunStep ==
  \/ RunStart \/ RunPlain
  \/ Look("first_look", "assemble") \/ Look("second_look", "admit_turn")
  \/ Look("third_look", "compose")
  \/ Assemble \/ AdmitTurn \/ SealLatched \/ Compose \/ OwnWithdrawal
  \/ SealAssembly \/ ClearOutbound \/ LastLook
  \/ SealAuthority \/ AdmitFailure \/ NoAudio
  \/ MintCapability \/ StageFrame \/ CommitRead \/ CommitWrite \/ WhyRefused
  \/ MarkPlayed \/ ConsumeFrame \/ CaptureFrame \/ RunEnd

NextDriver ==
  \/ \E journey \in Journeys, injection \in Injections :
       LeaseSession(journey, injection)
  \/ ConfirmScriptedOptOut
  \/ \E lease \in Leases : Withdraw(lease)
  \/ Revoke \/ RunExpired
  \/ RunStep
-----------------------------------------------------------------------------
(* Every variable has its type.  (Type invariant)                            *)
ClosureTypeOK ==
  /\ entry \in ClosureEntries(Leases)
  /\ grant \in [lease : Leases \cup {0}, journey : Journeys,
               state : {"none", "leased", "active", "closed", "aborted"},
               injection : Injections]
  /\ kept \in BOOLEAN /\ assembly \in {"none", "live", "sealed"}
  /\ queued \in {0, 1} /\ captured \in {0, 1} /\ marked \in BOOLEAN
  /\ verdict \in {"none", "withdrawn", "rejected"}
  /\ broken \in BOOLEAN /\ overdue \in BOOLEAN
  /\ read \in ClosureEntries(Leases)
  /\ results \in [Leases -> [state : {"none", "closed", "aborted"},
                             evidence : {"none", "silent", "marker"},
                             frames : {0, 1}]]

(* The closure speaks alone: while a capability or a committed frame lives,  *)
(* the general session is sealed and its outbound buffer empty, whatever     *)
(* failed on the way (_closure_inventory, mint_capability).                  *)
ClosureSpeaksAlone ==
  (IsOpen(entry) /\ (entry.capability = "live" \/ entry.commit))
    => assembly = "sealed" /\ queued = 0

(* A result has its evidence exactly when it has the one closure frame, and  *)
(* a run that classified a withdrawal, rejected the closure or invalidated   *)
(* it returns none (OfflineSessionResult, _closure_evidence).                *)
EvidenceIsWhole ==
  /\ \A l \in Leases : (results[l].frames = 1) <=> (results[l].evidence = "marker")
  /\ (pc = "terminate" /\ (verdict # "none" \/ entry.invalidated)
        /\ grant.journey # "plain") => captured = 0 /\ ~ marked

(* No closure authority outlives its lease: when the driver has no lease     *)
(* that may still run, the entry is terminal, no receipt is in the driver's  *)
(* hands and no frame in its buffers (terminate, _close_facade).             *)
NothingOutlivesTheLease ==
  (grant.state \in {"none", "closed", "aborted"})
    => ~ IsOpen(entry) /\ ~ kept /\ queued = 0

(* A withdrawal is final: once it is latched no frame is committed for that  *)
(* lease, and it is never unlatched while the lease has the entry            *)
(* (withdraw, and both holds of commit).                                     *)
WithdrawalIsFinal ==
  [][(entry.withdrawn /\ entry'.lease = entry.lease)
       => entry'.withdrawn /\ (entry'.commit => entry.commit)]_cdvars

(* A receipt is used once: a confirmation or capability that was consumed or *)
(* taken away never lives again for its lease, and a frame that was played   *)
(* or invalidated is never committed again.                                  *)
ReceiptsAreUsedOnce ==
  [][(entry'.lease = entry.lease)
       => /\ (entry.confirmation = "dead" => entry'.confirmation = "dead")
          /\ (entry.capability = "dead" => entry'.capability = "dead")
          /\ (entry'.commit /\ ~ entry.commit
                => ~ entry.invalidated /\ ~ entry.played)]_cdvars
=============================================================================
