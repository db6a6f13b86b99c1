----------------------------- MODULE RfidStore -----------------------------
(***************************************************************************)
(* What the RFID card manager promises, without slots, timer, flags or     *)
(* file format: a set of authorized cards and the set a restart would come *)
(* back with.  RfidManager implements it.                                  *)
(***************************************************************************)
CONSTANTS
    Ids,            \* the card ids that exist
    Defaults        \* the factory set

VARIABLES
    authorized,     \* the cards rfid_manager_check_card accepts
    durable         \* the cards a restart would load

vars == <<authorized, durable>>

TypeOK ==
    /\ authorized \subseteq Ids
    /\ durable \subseteq Ids

\* A new device has no card file and falls back to the factory set.
Init ==
    /\ authorized = Defaults
    /\ durable = Defaults

Authorize(id) ==
    /\ id \notin authorized
    /\ authorized' = authorized \cup {id}
    /\ UNCHANGED durable

Revoke(id) ==
    /\ id \in authorized
    /\ authorized' = authorized \ {id}
    /\ UNCHANGED durable

\* A format, or a start that cannot read the file.
ResetToDefaults ==
    /\ authorized' = Defaults
    /\ UNCHANGED durable

\* A save in progress has destroyed the old file.
Truncate ==
    /\ durable' = Defaults
    /\ UNCHANGED authorized

Persist ==
    /\ durable' = authorized
    /\ UNCHANGED authorized

Restart ==
    /\ authorized' = durable
    /\ UNCHANGED durable

Next ==
    \/ \E id \in Ids : Authorize(id) \/ Revoke(id)
    \/ ResetToDefaults \/ Truncate \/ Persist \/ Restart

Spec == Init /\ [][Next]_vars
=============================================================================
