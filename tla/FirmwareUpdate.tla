--------------------------- MODULE FirmwareUpdate ---------------------------
(***************************************************************************)
(* The over-the-air update of components/app_local_server: the HTTP server *)
(* task receives an image chunk by chunk and writes it to the app partition*)
(* that is not running, esp_ota_end checks it, esp_ota_set_boot_partition  *)
(* selects it for the next boot, and a message on a queue of three tells   *)
(* the main task, whose http_server_monitor records the status and starts  *)
(* an eight-second one-shot timer that restarts the chip.                  *)
(*                                                                         *)
(* A chunk is one httpd_req_recv.  The image is reduced to whether it is   *)
(* valid and has arrived in full; of the two app partitions only the one   *)
(* that is not running is kept.                                            *)
(***************************************************************************)
EXTENDS Integers, Sequences

CONSTANTS
    HTTP_SERVER_MONITOR_QUEUE_LEN,  \* 3 in app_local_server.c
    MaxChunks,                      \* chunks of the longest upload
    PatientClient                   \* TRUE: nobody uploads again between a
                                    \* successful update and the restart

ASSUME QueueAssumption == HTTP_SERVER_MONITOR_QUEUE_LEN \in Nat \ {0}
ASSUME ChunksAssumption == MaxChunks \in Nat \ {0}
ASSUME ClientAssumption == PatientClient \in BOOLEAN

VARIABLES
    handler,                \* where http_server_ota_update_handler is
    body,                   \* the upload: chunks still to come, the image they make
                            \* up, and whether the peer has left before the end
    ota_handle,             \* TRUE once esp_ota_begin has set it in this call
    flash_successful,
    partition,              \* content of the app partition that is not running
    boot_selected,          \* otadata selects that partition for the next boot
    http_server_monitor_q,
    fw_update_status,
    fw_update_reset         \* TRUE while a reset timer is running

vars == <<handler, body, ota_handle, flash_successful, partition, boot_selected,
          http_server_monitor_q, fw_update_status, fw_update_reset>>

\* What only http_server_ota_update_handler touches.
upload == <<handler, body, ota_handle, flash_successful>>
\* What is on flash.
flash == <<partition, boot_selected>>
\* What http_server_monitor and the reset timer use.
monitor == <<http_server_monitor_q, fw_update_status, fw_update_reset>>

Body == [left: 0 .. MaxChunks, image: {"valid", "broken"}, peer: {"connected", "gone"}]
NoBody == [left |-> 0, image |-> "broken", peer |-> "connected"]

Result == {"OTA_UPDATE_SUCCESSFUL", "OTA_UPDATE_FAILED"}

TypeOK ==
    /\ handler \in {"idle", "receiving", "finishing", "reporting"}
    /\ body \in Body
    /\ ota_handle \in BOOLEAN
    /\ flash_successful \in BOOLEAN
    /\ partition \in {"bootable", "incomplete"}
    /\ boot_selected \in BOOLEAN
    /\ http_server_monitor_q \in Seq(Result)
    /\ Len(http_server_monitor_q) <= HTTP_SERVER_MONITOR_QUEUE_LEN
    /\ fw_update_status \in Result \cup {"OTA_UPDATE_PENDING"}
    /\ fw_update_reset \in BOOLEAN

\* A device flashed over the cable: the other app partition is empty.
Init ==
    /\ handler = "idle"
    /\ body = NoBody
    /\ ota_handle = FALSE
    /\ flash_successful = FALSE
    /\ http_server_monitor_q = <<>>
    /\ fw_update_status = "OTA_UPDATE_PENDING"
    /\ fw_update_reset = FALSE
    /\ partition = "incomplete"
    /\ boot_selected = FALSE

-----------------------------------------------------------------------------
(* http_server_ota_update_handler, in the HTTP server task. *)

SuccessPending ==
    \/ fw_update_reset
    \/ \E m \in 1 .. Len(http_server_monitor_q) :
           http_server_monitor_q[m] = "OTA_UPDATE_SUCCESSFUL"

UploadStarts ==
    /\ handler = "idle"
    /\ PatientClient => ~SuccessPending
    /\ handler' = "receiving"
    /\ \E n \in 1 .. MaxChunks, image \in {"valid", "broken"} :
           body' = [left |-> n, image |-> image, peer |-> "connected"]
    /\ ota_handle' = FALSE
    /\ flash_successful' = FALSE
    /\ UNCHANGED <<flash, monitor>>

\* httpd_req_recv returns data.  The first time esp_ota_begin erases the partition;
\* either way esp_ota_write follows and its result is not looked at.
ReceivesChunk ==
    /\ handler = "receiving"
    /\ body.left > 0
    /\ body' = [body EXCEPT !.left = @ - 1]
    /\ ota_handle' = TRUE
    /\ partition' = "incomplete"
    /\ UNCHANGED <<handler, flash_successful, boot_selected, monitor>>

\* esp_ota_begin fails, perhaps half-way through erasing: no message, no reply.
BeginFails ==
    /\ handler = "receiving"
    /\ body.left > 0
    /\ ~ota_handle
    /\ handler' = "idle"
    /\ partition' \in {partition, "incomplete"}
    /\ UNCHANGED <<body, ota_handle, flash_successful, boot_selected, monitor>>

\* httpd_req_recv returns 0: nothing is left, or the peer has closed the
\* connection.  Zero bytes are written, after esp_ota_begin if it comes first.
ReceivesNothing ==
    /\ handler = "receiving"
    /\ handler' = "finishing"
    /\ ota_handle' = TRUE
    /\ partition' = "incomplete"
    /\ body' = [body EXCEPT !.peer = IF body.left > 0 THEN "gone" ELSE "connected"]
    /\ UNCHANGED <<flash_successful, boot_selected, monitor>>

\* HTTPD_SOCK_ERR_TIMEOUT.  The "continue" jumps to the loop's condition, and
\* recv_len > 0 is false: the loop ends, and esp_ota_end follows.
ReceiveTimesOut ==
    /\ handler = "receiving"
    /\ body.left > 0
    /\ handler' = "finishing"
    /\ UNCHANGED <<body, ota_handle, flash_successful, flash, monitor>>

\* Any other socket error: no esp_ota_end, no message.
ReceiveFails ==
    /\ handler = "receiving"
    /\ body.left > 0
    /\ handler' = "idle"
    /\ UNCHANGED <<body, ota_handle, flash_successful, flash, monitor>>

\* What esp_ota_end can accept: a handle from esp_ota_begin and a whole, valid image.
Acceptable == ota_handle /\ body.left = 0 /\ body.image = "valid"

\* esp_ota_end and esp_ota_set_boot_partition succeed.
FlashSucceeds ==
    /\ handler = "finishing"
    /\ Acceptable
    /\ partition' = "bootable"
    /\ boot_selected' = TRUE
    /\ flash_successful' = TRUE
    /\ handler' = "reporting"
    /\ UNCHANGED <<body, ota_handle, monitor>>

\* Mutant: flash_successful is set before esp_ota_set_boot_partition is tried.
FlashFailsUnnoticed ==
    /\ handler = "finishing"
    /\ handler' = "reporting"
    /\ flash_successful' = Acceptable
    /\ partition' \in IF Acceptable THEN {"bootable", "incomplete"} ELSE {partition}
    /\ UNCHANGED <<body, ota_handle, boot_selected, monitor>>

\* Either of them fails; a write that went wrong shows here too.
FlashFails ==
    /\ handler = "finishing"
    /\ handler' = "reporting"
    /\ partition' \in IF Acceptable THEN {"bootable", "incomplete"} ELSE {partition}
    /\ UNCHANGED <<body, ota_handle, flash_successful, boot_selected, monitor>>

\* Mutant: the queue takes one message more than it was created for.
QueueTakesOneMore == Len(http_server_monitor_q) <= HTTP_SERVER_MONITOR_QUEUE_LEN

QueueHasRoom == Len(http_server_monitor_q) < HTTP_SERVER_MONITOR_QUEUE_LEN

\* http_server_monitor_send_msg blocks while the queue is full.
Reports ==
    /\ handler = "reporting"
    /\ QueueHasRoom
    /\ http_server_monitor_q' =
         Append(http_server_monitor_q,
                IF flash_successful THEN "OTA_UPDATE_SUCCESSFUL" ELSE "OTA_UPDATE_FAILED")
    /\ handler' = "idle"
    /\ UNCHANGED <<body, ota_handle, flash_successful, flash, fw_update_status,
                   fw_update_reset>>

UpdateStep ==
    \/ UploadStarts \/ ReceivesChunk \/ BeginFails
    \/ ReceivesNothing \/ ReceiveTimesOut \/ ReceiveFails
    \/ FlashSucceeds \/ FlashFails \/ Reports

-----------------------------------------------------------------------------
(* The main task and the reset. *)

\* Mutant: the reset timer is started only for the first result since the start.
MonitorResetsOnce ==
    /\ http_server_monitor_q # <<>>
    /\ http_server_monitor_q' = Tail(http_server_monitor_q)
    /\ fw_update_status' = Head(http_server_monitor_q)
    /\ fw_update_reset' = (\/ fw_update_reset
                           \/ /\ fw_update_status = "OTA_UPDATE_PENDING"
                              /\ fw_update_status' = "OTA_UPDATE_SUCCESSFUL")
    /\ UNCHANGED <<upload, flash>>

\* http_server_monitor waits without limit for a message and handles it; the two
\* OTA results are the only messages the code ever sends.
MonitorReceives ==
    /\ http_server_monitor_q # <<>>
    /\ http_server_monitor_q' = Tail(http_server_monitor_q)
    /\ fw_update_status' = Head(http_server_monitor_q)
    /\ fw_update_reset' = (fw_update_reset \/ fw_update_status' = "OTA_UPDATE_SUCCESSFUL")
    /\ UNCHANGED <<upload, flash>>

\* The boot loader starts the selected partition if it is bootable, and the one
\* that ran before becomes the other; else it falls back and nothing changes.
Restart ==
    /\ handler' = "idle"
    /\ body' = NoBody
    /\ ota_handle' = FALSE
    /\ flash_successful' = FALSE
    /\ http_server_monitor_q' = <<>>
    /\ fw_update_status' = "OTA_UPDATE_PENDING"
    /\ fw_update_reset' = FALSE
    /\ IF boot_selected /\ partition = "bootable"
       THEN boot_selected' = FALSE /\ partition' = "bootable"
       ELSE UNCHANGED flash

\* http_server_fw_update_reset_cb.
ResetTimeout == fw_update_reset /\ Restart

Next == UpdateStep \/ MonitorReceives \/ ResetTimeout \/ Restart

Spec == Init /\ [][Next]_vars

-----------------------------------------------------------------------------
(* Safety. *)

\* The reset timer, or a success message on its way to start it, means that the
\* boot loader will start a whole and valid new image: the order of esp_ota_end,
\* esp_ota_set_boot_partition, the message and the timer is never broken, not even
\* by uploads that fail in between.
RestartRunsNewImage ==
    (PatientClient /\ (SuccessPending \/ (handler = "reporting" /\ flash_successful))) =>
        boot_selected /\ partition = "bootable"

\* And the other way round: a new image is never left selected without a restart on
\* its way.  The result of the upload that selected it is in the handler's hands, in
\* the queue or in the running timer, and no earlier failure, full queue or second
\* result lets it drop out of there unseen.
SelectedMeansPromised ==
    (PatientClient /\ boot_selected) =>
        SuccessPending \/ (handler = "reporting" /\ flash_successful)

\* "Retry Receiving if Timeout Occurred": the handler goes on to esp_ota_end only
\* with all the data, or when the peer has closed the connection.
RetriesAfterTimeout ==
    handler = "finishing" => body.left = 0 \/ body.peer = "gone"

-----------------------------------------------------------------------------
(* What the update is to the outside: see OtaSlot. *)

Slot == INSTANCE OtaSlot WITH restart_due <- SuccessPending

\* The update implements the slot: an image is promised a restart only when it is
\* whole, valid and selected, and once it is, no failed upload, full queue, later
\* result or slow main loop takes the promise back, only a restart does.
SlotSpec == Slot!Spec
=============================================================================
