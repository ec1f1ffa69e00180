---------------------------- MODULE CallArbitration ----------------------------
(***************************************************************************)
(* What the owner-action engine promises for one call, and nothing of how. *)
(* A pickup may be prepared and given back, but once it is committed it is *)
(* final, and so is a message. The caller is moved to the owner only by a  *)
(* committed pickup, to Kevin only while no pickup is prepared or          *)
(* committed, and is told that the owner is unavailable only by a message. *)
(***************************************************************************)
VARIABLES
    decision,   \* "open" | "preparing" | "pickup" | "message"
    place,      \* "ringing" | "kevin" | "owner" | "gone"
    told        \* whether the caller heard that a message is taken

vars == <<decision, place, told>>

Init ==
    /\ decision = "open"
    /\ place \in {"ringing", "kevin"}
    /\ told = FALSE

Prepare == decision = "open" /\ decision' = "preparing" /\ UNCHANGED <<place, told>>
GiveBack == decision = "preparing" /\ decision' = "open" /\ UNCHANGED <<place, told>>
PickUp == decision = "preparing" /\ decision' = "pickup" /\ UNCHANGED <<place, told>>
TakeMessage == decision = "open" /\ decision' = "message" /\ UNCHANGED <<place, told>>

MoveToOwner ==
    /\ decision = "pickup"
    /\ place \in {"ringing", "kevin"}
    /\ place' = "owner"
    /\ UNCHANGED <<decision, told>>

MoveToKevin ==
    /\ decision \in {"open", "message"}
    /\ place = "ringing"
    /\ place' = "kevin"
    /\ UNCHANGED <<decision, told>>

Tell ==
    /\ decision = "message"
    /\ place = "kevin"
    /\ told' = TRUE
    /\ UNCHANGED <<decision, place>>

\* The caller hangs up, or a refused stream ends the call while a decision is made.
Leave == place' = "gone" /\ UNCHANGED <<decision, told>>

Next == Prepare \/ GiveBack \/ PickUp \/ TakeMessage \/ MoveToOwner \/ MoveToKevin \/ Tell \/ Leave

Spec == Init /\ [][Next]_vars
=============================================================================
