------------------------------ MODULE OtaSlot ------------------------------
(***************************************************************************)
(* What the firmware update promises, without uploads, queue, status or    *)
(* timer: the app partition that is not running, whether the next boot     *)
(* will start it, and whether a restart has been promised.                 *)
(* FirmwareUpdate implements it.                                           *)
(***************************************************************************)
CONSTANTS
    PatientClient   \* nobody uploads once a restart is due

VARIABLES
    partition,      \* content of the app partition that is not running
    boot_selected,  \* otadata selects that partition for the next boot
    restart_due     \* an update has succeeded: the chip will restart

vars == <<partition, boot_selected, restart_due>>

Init ==
    /\ partition = "incomplete"
    /\ boot_selected = FALSE
    /\ restart_due = FALSE

MayUpload == PatientClient => ~restart_due

Erase ==
    /\ MayUpload
    /\ partition' = "incomplete"
    /\ UNCHANGED <<boot_selected, restart_due>>

\* A whole and valid image that could not be selected.
Fill ==
    /\ MayUpload
    /\ partition' = "bootable"
    /\ UNCHANGED <<boot_selected, restart_due>>

Install ==
    /\ MayUpload
    /\ partition' = "bootable"
    /\ boot_selected' = TRUE
    /\ UNCHANGED restart_due

\* The success of an update, which only a restart takes back.
Promise ==
    /\ PatientClient => partition = "bootable" /\ boot_selected
    /\ restart_due' = TRUE
    /\ UNCHANGED <<partition, boot_selected>>

\* Into the selected image if there is one: the one that ran before becomes the other.
Restart ==
    /\ restart_due' = FALSE
    /\ IF boot_selected /\ partition = "bootable"
       THEN boot_selected' = FALSE /\ partition' = "bootable"
       ELSE UNCHANGED <<partition, boot_selected>>

Next == Erase \/ Fill \/ Install \/ Promise \/ Restart

Spec == Init /\ [][Next]_vars
=============================================================================
