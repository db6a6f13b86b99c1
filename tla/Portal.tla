------------------------------- MODULE Portal -------------------------------
(***************************************************************************)
(* The tasks of the firmware around the card manager and the firmware      *)
(* update: app_main's loop calls app_local_server_process, which handles   *)
(* one message of the monitor queue, then rfid_manager_process, then waits *)
(* a second; the HTTP server task runs one request handler at a time; the  *)
(* esp_timer task runs the card manager's write timer and the reset timer; *)
(* a restart ends everything at once.                                      *)
(*                                                                         *)
(* The state and the actions are those of RfidManager and FirmwareUpdate;  *)
(* what this module adds is which task may take which step when.           *)
(***************************************************************************)
EXTENDS RfidManager

CONSTANTS HTTP_SERVER_MONITOR_QUEUE_LEN, MaxChunks, PatientClient

\* As in FirmwareUpdate.
ASSUME UpdateAssumption ==
    /\ HTTP_SERVER_MONITOR_QUEUE_LEN \in Nat \ {0}
    /\ MaxChunks \in Nat \ {0}
    /\ PatientClient \in BOOLEAN

VARIABLES
    handler, body, ota_handle, flash_successful, partition, boot_selected,
    http_server_monitor_q, fw_update_status, fw_update_reset,
    loop                \* where app_main is

Update == INSTANCE FirmwareUpdate

updateVars == <<handler, body, ota_handle, flash_successful, partition, boot_selected,
                http_server_monitor_q, fw_update_status, fw_update_reset>>
portalVars == <<vars, updateVars, loop>>

\* "starting"  before the loop: rfid_manager_init, then the HTTP server
\* "monitor"   in app_local_server_process, waiting for a message
\* "rfid"      in rfid_manager_process
\* "delay"     in vTaskDelay
PortalTypeOK ==
    /\ TypeOK
    /\ Update!TypeOK
    /\ loop \in {"starting", "monitor", "rfid", "delay"}

PortalInit ==
    /\ Init
    /\ Update!Init
    /\ loop = "starting"

-----------------------------------------------------------------------------
(* The main task. *)

Starts ==
    /\ loop = "starting"
    /\ InitLoadsFile \/ InitLoadsDefaults
    /\ UNCHANGED <<updateVars, loop>>

EntersLoop ==
    /\ loop = "starting"
    /\ main = "idle"
    /\ loop' = "monitor"
    /\ UNCHANGED <<vars, updateVars>>

\* app_local_server_process: http_server_monitor blocks on the empty queue.
Monitors ==
    /\ loop = "monitor"
    /\ Update!MonitorReceives
    /\ loop' = "rfid"
    /\ UNCHANGED vars

\* rfid_manager_process with is_ready_to_write clear.
HasNothingToWrite ==
    /\ loop = "rfid"
    /\ main = "idle"
    /\ ~is_ready_to_write
    /\ loop' = "delay"
    /\ UNCHANGED <<vars, updateVars>>

\* rfid_manager_process returns when the manager's part of main is idle again.
LoopAfterProcess == IF main' = "idle" THEN "delay" ELSE "rfid"

Writes ==
    /\ loop = "rfid"
    /\ Process \/ ProcessSaves \/ ProcessFindsClean \/ ProcessTimeout \/ ProcessClears
    /\ loop' = LoopAfterProcess
    /\ UNCHANGED updateVars

Delays ==
    /\ loop = "delay"
    /\ loop' = "monitor"
    /\ UNCHANGED <<vars, updateVars>>

\* A save of main at boot; if it fails, ESP_ERROR_CHECK restarts the chip.
SavesAtBoot ==
    /\ rfid_mutex = "main" /\ main = "boot"
    /\ SaveStep
    /\ IF save' = "none" /\ main' = "boot" THEN Update!Restart ELSE UNCHANGED updateVars
    /\ UNCHANGED loop

SavesInLoop ==
    /\ rfid_mutex = "main" /\ main = "saving"
    /\ SaveStep
    /\ loop' = LoopAfterProcess
    /\ UNCHANGED updateVars

MainLoop ==
    \/ Starts \/ EntersLoop \/ Monitors \/ HasNothingToWrite \/ Writes \/ Delays
    \/ SavesAtBoot \/ SavesInLoop

-----------------------------------------------------------------------------
(* The HTTP server task: one request at a time. *)

HandlesCardRequest ==
    /\ loop # "starting"
    /\ handler = "idle"
    /\ HttpStep
    /\ UNCHANGED <<updateVars, loop>>

SavesFormat ==
    /\ rfid_mutex = "httpd"
    /\ SaveStep
    /\ UNCHANGED <<updateVars, loop>>

HandlesUpload ==
    /\ loop # "starting"
    /\ rfid_mutex # "httpd"
    /\ Update!UpdateStep
    /\ UNCHANGED <<vars, loop>>

HttpServer == HandlesCardRequest \/ SavesFormat \/ HandlesUpload

-----------------------------------------------------------------------------
(* Timers and restarts. *)

WriteTimer ==
    /\ WriteTimeout
    /\ UNCHANGED <<updateVars, loop>>

Restarts ==
    /\ Reboot
    /\ Update!Restart
    /\ loop' = "starting"

ResetTimer == fw_update_reset /\ Restarts

PortalOperate == MainLoop \/ HttpServer \/ WriteTimer \/ ResetTimer
PortalNext == PortalOperate \/ Restarts

PortalSpec == PortalInit /\ [][PortalNext]_portalVars

\* What the handler of an upload that has begun and main's own saves do next.
UploadGoesOn == HandlesUpload /\ handler # "idle"
LoopSaves == Writes /\ ProcessSaves
LoopOpens == SavesInLoop /\ SaveOpens
LoopWrites == SavesInLoop /\ SaveWrites
LoopCloses == SavesInLoop /\ SaveCloses

\* Powered: no restart but those the firmware asks for itself.  Every task gets
\* to run, timers fire, an upload that has begun comes to an end, and a save that
\* main attempts again and again succeeds at each of its steps once in a while.
PortalFairness ==
    /\ WF_portalVars(MainLoop)
    /\ WF_portalVars(SavesFormat)
    /\ WF_portalVars(UploadGoesOn)
    /\ WF_portalVars(WriteTimer)
    /\ WF_portalVars(ResetTimer)
    /\ SF_portalVars(LoopSaves)
    /\ SF_portalVars(LoopOpens)
    /\ SF_portalVars(LoopWrites)
    /\ SF_portalVars(LoopCloses)

PoweredPortalSpec == PortalInit /\ [][PortalOperate]_portalVars /\ PortalFairness

-----------------------------------------------------------------------------

\* An update that was applied is started: the result travels from the HTTP server
\* through the queue to the main loop and the reset timer, whatever card requests
\* and saves main and the HTTP server are busy with, and the chip restarts into it.
AppliedUpdateBoots ==
    (boot_selected /\ partition = "bootable") ~> ~boot_selected

\* The way from the queue to the restart is never stuck: main is only ever kept by an
\* empty queue, whoever holds the mutex and whatever failed before; a result that the
\* queue has room for can be put into it, and the reset timer can fire.
UpdateNeverStuck ==
    /\ loop # "monitor" \/ http_server_monitor_q # <<>> => ENABLED <<MainLoop>>_portalVars
    /\ handler = "reporting" /\ Update!QueueHasRoom =>
           ENABLED <<UploadGoesOn>>_portalVars
    /\ fw_update_reset => ENABLED <<ResetTimer>>_portalVars

\* "Changes are persisted to the storage file if a new card is successfully added"
\* (rfid_manager.h): an unsaved change does not stay unsaved, provided main's waits
\* for the mutex eventually stop timing out.
CardChangesPersist ==
    <>[][~(Writes /\ ProcessTimeout)]_portalVars => (is_dirty ~> ~is_dirty)
=============================================================================
