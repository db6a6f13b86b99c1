------------------------ MODULE FirmwareUpdateProofs ------------------------
(***************************************************************************)
(* Proofs about FirmwareUpdate for every queue length and upload size.     *)
(***************************************************************************)
EXTENDS FirmwareUpdate, TLAPS

LEMMA NoBodyType == NoBody \in Body
  BY ChunksAssumption DEF NoBody, Body

LEMMA EmptyQueue ==
    /\ <<>> \in Seq(Result)
    /\ Len(<<>>) = 0
  OBVIOUS

LEMMA TypeInductive == TypeOK /\ [Next]_vars => TypeOK'
  <1> SUFFICES ASSUME TypeOK, [Next]_vars PROVE TypeOK'
    OBVIOUS
  <1> USE ChunksAssumption, QueueAssumption DEF TypeOK, Result, flash, monitor, upload
  <1>1. CASE UploadStarts
    <2>1. body' \in Body
      BY <1>1 DEF UploadStarts, Body
    <2>2. QED BY <1>1, <2>1 DEF UploadStarts
  <1>2. CASE ReceivesChunk
    BY <1>2 DEF ReceivesChunk, Body
  <1>3. CASE BeginFails
    BY <1>3 DEF BeginFails
  <1>4. CASE ReceivesNothing
    BY <1>4 DEF ReceivesNothing, Body
  <1>5. CASE ReceiveTimesOut
    BY <1>5 DEF ReceiveTimesOut
  <1>6. CASE ReceiveFails
    BY <1>6 DEF ReceiveFails
  <1>7. CASE FlashSucceeds
    BY <1>7 DEF FlashSucceeds
  <1>8. CASE FlashFails
    BY <1>8 DEF FlashFails
  <1>9. CASE Reports
    BY <1>9 DEF Reports, QueueHasRoom
  <1>10. CASE MonitorReceives
    BY <1>10 DEF MonitorReceives
  <1>11. CASE Restart
    <2>1. body' \in Body
      BY <1>11, NoBodyType DEF Restart
    <2>2. /\ http_server_monitor_q' \in Seq(Result)
          /\ Len(http_server_monitor_q') <= HTTP_SERVER_MONITOR_QUEUE_LEN
      BY <1>11, EmptyQueue DEF Restart
    <2>3. partition' \in {"bootable", "incomplete"} /\ boot_selected' \in BOOLEAN
      BY <1>11 DEF Restart
    <2>4. QED BY <1>11, <2>1, <2>2, <2>3 DEF Restart
  <1>12. CASE UNCHANGED vars
    BY <1>12 DEF vars
  <1>13. QED
    BY <1>1, <1>2, <1>3, <1>4, <1>5, <1>6, <1>7, <1>8, <1>9, <1>10, <1>11, <1>12
    DEF Next, UpdateStep, ResetTimeout

LEMMA InitType == Init => TypeOK
  <1> SUFFICES ASSUME Init PROVE TypeOK
    OBVIOUS
  <1>1. body \in Body
    BY NoBodyType DEF Init
  <1>2. /\ http_server_monitor_q \in Seq(Result)
        /\ Len(http_server_monitor_q) <= HTTP_SERVER_MONITOR_QUEUE_LEN
    BY EmptyQueue, QueueAssumption DEF Init
  <1>3. QED BY <1>1, <1>2 DEF Init, TypeOK

\* Every variable of the update keeps its type, and the queue its bound.
THEOREM TypeCorrect == Spec => []TypeOK
  BY InitType, TypeInductive, PTL DEF Spec

-----------------------------------------------------------------------------
\* A patient client keeps uploads and pending successes apart, and a handler that
\* has not reached esp_ota_end has nothing to report yet.
Phases ==
    /\ PatientClient /\ SuccessPending => handler = "idle"
    /\ handler \in {"receiving", "finishing"} => ~flash_successful

IInv == TypeOK /\ Phases /\ RestartRunsNewImage

\* A message taken from the queue leaves no more successes than there were.
LEMMA TakingMessages ==
    ASSUME TypeOK, MonitorReceives, SuccessPending'
    PROVE  SuccessPending
  <1>1. /\ Len(http_server_monitor_q) \in Nat \ {0}
        /\ Len(http_server_monitor_q') = Len(http_server_monitor_q) - 1
        /\ \A m \in 1 .. Len(http_server_monitor_q') :
               http_server_monitor_q'[m] = http_server_monitor_q[m + 1]
        /\ Head(http_server_monitor_q) = http_server_monitor_q[1]
    BY DEF TypeOK, MonitorReceives
  <1>2. CASE fw_update_reset'
    <2>1. fw_update_reset \/ http_server_monitor_q[1] = "OTA_UPDATE_SUCCESSFUL"
      BY <1>1, <1>2 DEF MonitorReceives
    <2>2. 1 \in 1 .. Len(http_server_monitor_q)
      BY <1>1
    <2>3. QED BY <2>1, <2>2 DEF SuccessPending
  <1>3. CASE \E m \in 1 .. Len(http_server_monitor_q') :
               http_server_monitor_q'[m] = "OTA_UPDATE_SUCCESSFUL"
    <2>1. PICK m \in 1 .. Len(http_server_monitor_q') :
            http_server_monitor_q'[m] = "OTA_UPDATE_SUCCESSFUL"
      BY <1>3
    <2>2. m + 1 \in 1 .. Len(http_server_monitor_q)
      BY <1>1, <2>1
    <2>3. QED BY <1>1, <2>1, <2>2 DEF SuccessPending
  <1>4. QED BY <1>2, <1>3 DEF SuccessPending

\* A message put into the queue is a success only if the upload was.
LEMMA Reporting ==
    ASSUME TypeOK, Reports, SuccessPending'
    PROVE  SuccessPending \/ flash_successful
  <1>1. CASE fw_update_reset'
    BY <1>1 DEF Reports, SuccessPending
  <1>2. CASE ~fw_update_reset' /\ ~flash_successful
    <2>1. PICK m \in 1 .. Len(http_server_monitor_q') :
            http_server_monitor_q'[m] = "OTA_UPDATE_SUCCESSFUL"
      BY <1>2 DEF SuccessPending
    <2>2. http_server_monitor_q' = Append(http_server_monitor_q, "OTA_UPDATE_FAILED")
      BY <1>2 DEF Reports
    <2>3. CASE m = Len(http_server_monitor_q) + 1
      BY <2>1, <2>2, <2>3 DEF TypeOK
    <2>4. CASE m # Len(http_server_monitor_q) + 1
      <3>1. m \in 1 .. Len(http_server_monitor_q)
        BY <2>1, <2>2, <2>4 DEF TypeOK
      <3>2. http_server_monitor_q[m] = "OTA_UPDATE_SUCCESSFUL"
        BY <2>1, <2>2, <3>1 DEF TypeOK
      <3>3. QED BY <3>1, <3>2 DEF SuccessPending
    <2>5. QED BY <2>3, <2>4
  <1>3. QED BY <1>1, <1>2 DEF TypeOK

LEMMA InitIInv == Init => IInv
  <1> SUFFICES ASSUME Init PROVE IInv
    OBVIOUS
  <1>1. TypeOK
    BY InitType
  <1>2. ~SuccessPending
    BY DEF Init, SuccessPending
  <1>3. QED BY <1>1, <1>2 DEF Init, IInv, Phases, RestartRunsNewImage

\* The steps that touch neither the queue, nor the status, nor the timer.
LEMMA UploadStepIInv ==
    ASSUME IInv, TypeOK', UNCHANGED monitor,
           \/ UploadStarts \/ ReceivesChunk \/ BeginFails \/ ReceivesNothing
           \/ ReceiveTimesOut \/ ReceiveFails \/ FlashSucceeds \/ FlashFails
    PROVE  IInv'
  <1> USE DEF IInv, TypeOK
  <1>1. SuccessPending' = SuccessPending
    BY DEF SuccessPending, monitor
  <1>2. CASE UploadStarts
    BY <1>1, <1>2 DEF UploadStarts, Phases, RestartRunsNewImage, flash
  <1>3. CASE ReceivesChunk
    BY <1>1, <1>3 DEF ReceivesChunk, Phases, RestartRunsNewImage
  <1>4. CASE BeginFails
    BY <1>1, <1>4 DEF BeginFails, Phases, RestartRunsNewImage
  <1>5. CASE ReceivesNothing
    BY <1>1, <1>5 DEF ReceivesNothing, Phases, RestartRunsNewImage
  <1>6. CASE ReceiveTimesOut
    BY <1>1, <1>6 DEF ReceiveTimesOut, Phases, RestartRunsNewImage, flash
  <1>7. CASE ReceiveFails
    BY <1>1, <1>7 DEF ReceiveFails, Phases, RestartRunsNewImage, flash
  <1>8. CASE FlashSucceeds
    BY <1>1, <1>8 DEF FlashSucceeds, Phases, RestartRunsNewImage
  <1>9. CASE FlashFails
    BY <1>1, <1>9 DEF FlashFails, Phases, RestartRunsNewImage
  <1>10. QED
    BY <1>2, <1>3, <1>4, <1>5, <1>6, <1>7, <1>8, <1>9

LEMMA StepIInv == IInv /\ [Next]_vars => IInv'
  <1> SUFFICES ASSUME IInv, [Next]_vars PROVE IInv'
    OBVIOUS
  <1>0. TypeOK /\ TypeOK'
    BY TypeInductive DEF IInv
  <1>1. CASE UpdateStep /\ ~Reports
    <2>1. UNCHANGED monitor
      BY <1>1 DEF UpdateStep, UploadStarts, ReceivesChunk, BeginFails, ReceivesNothing,
                  ReceiveTimesOut, ReceiveFails, FlashSucceeds, FlashFails
    <2>2. QED BY <1>0, <1>1, <2>1, UploadStepIInv DEF UpdateStep
  <1>2. CASE Reports
    <2>1. /\ handler = "reporting" /\ handler' = "idle"
          /\ boot_selected' = boot_selected /\ partition' = partition
      BY <1>2 DEF Reports, flash
    <2>2. SuccessPending' => SuccessPending \/ flash_successful
      BY <1>0, <1>2, Reporting
    <2>3. QED BY <1>0, <2>1, <2>2 DEF IInv, Phases, RestartRunsNewImage
  <1>3. CASE MonitorReceives
    <2>1. SuccessPending' => SuccessPending
      BY <1>0, <1>3, TakingMessages
    <2>2. QED
      BY <1>0, <1>3, <2>1
      DEF IInv, MonitorReceives, Phases, RestartRunsNewImage, upload, flash
  <1>4. CASE Restart
    <2>1. ~SuccessPending' /\ handler' = "idle"
      BY <1>4 DEF Restart, SuccessPending
    <2>2. QED BY <1>0, <2>1 DEF IInv, Phases, RestartRunsNewImage
  <1>5. CASE UNCHANGED vars
    BY <1>0, <1>5 DEF vars, IInv, Phases, RestartRunsNewImage, SuccessPending
  <1>6. QED
    BY <1>1, <1>2, <1>3, <1>4, <1>5 DEF Next, ResetTimeout

LEMMA InvariantHolds == Spec => []IInv
  BY InitIInv, StepIInv, PTL DEF Spec

\* With a patient client the reset timer only ever restarts the chip into a whole,
\* valid and selected image.
THEOREM RestartRunsNewImageAlways == Spec => []RestartRunsNewImage
  BY InvariantHolds, PTL DEF IInv

-----------------------------------------------------------------------------
(* The update implements the slot. *)

\* A message taken from the queue loses no success: what leaves the queue is in the
\* timer.
LEMMA KeepingMessages ==
    ASSUME TypeOK, MonitorReceives, SuccessPending
    PROVE  SuccessPending'
  <1>1. /\ Len(http_server_monitor_q) \in Nat \ {0}
        /\ Len(http_server_monitor_q') = Len(http_server_monitor_q) - 1
        /\ \A m \in 1 .. Len(http_server_monitor_q') :
               http_server_monitor_q'[m] = http_server_monitor_q[m + 1]
        /\ Head(http_server_monitor_q) = http_server_monitor_q[1]
    BY DEF TypeOK, MonitorReceives
  <1>2. CASE fw_update_reset \/ http_server_monitor_q[1] = "OTA_UPDATE_SUCCESSFUL"
    BY <1>1, <1>2 DEF MonitorReceives, SuccessPending
  <1>3. CASE \E m \in 2 .. Len(http_server_monitor_q) :
               http_server_monitor_q[m] = "OTA_UPDATE_SUCCESSFUL"
    <2>1. PICK m \in 2 .. Len(http_server_monitor_q) :
            http_server_monitor_q[m] = "OTA_UPDATE_SUCCESSFUL"
      BY <1>3
    <2>2. m - 1 \in 1 .. Len(http_server_monitor_q') /\ (m - 1) + 1 = m
      BY <1>1, <2>1
    <2>3. http_server_monitor_q'[m - 1] = "OTA_UPDATE_SUCCESSFUL"
      BY <1>1, <2>1, <2>2
    <2>4. QED BY <2>2, <2>3 DEF SuccessPending
  <1>4. QED BY <1>1, <1>2, <1>3 DEF SuccessPending

\* A message put into the queue hides none of those before it.
LEMMA ReportingKeeps ==
    ASSUME TypeOK, Reports, SuccessPending
    PROVE  SuccessPending'
  <1>1. PICK r \in Result : http_server_monitor_q' = Append(http_server_monitor_q, r)
    BY DEF Reports, Result
  <1>2. /\ Len(http_server_monitor_q) \in Nat
        /\ Len(http_server_monitor_q') = Len(http_server_monitor_q) + 1
        /\ \A m \in 1 .. Len(http_server_monitor_q) :
               http_server_monitor_q'[m] = http_server_monitor_q[m]
    BY <1>1 DEF TypeOK
  <1>3. QED BY <1>2 DEF Reports, SuccessPending

\* The steps of an upload: none of them is a promise, and one that writes to the
\* partition is allowed to.
LEMMA UploadStepIsSlotStep ==
    ASSUME IInv, UNCHANGED monitor,
           \/ UploadStarts \/ ReceivesChunk \/ BeginFails \/ ReceivesNothing
           \/ ReceiveTimesOut \/ ReceiveFails \/ FlashSucceeds \/ FlashFails
    PROVE  [Slot!Next]_(Slot!vars)
  <1> USE DEF Slot!Next, Slot!vars
  <1>0. SuccessPending' = SuccessPending
    BY DEF SuccessPending, monitor
  <1>1. CASE UploadStarts \/ ReceiveTimesOut \/ ReceiveFails
    BY <1>0, <1>1 DEF UploadStarts, ReceiveTimesOut, ReceiveFails, flash
  <1>2. Slot!MayUpload \/ handler = "idle"
    BY DEF IInv, Phases, Slot!MayUpload
  <1>3. CASE ReceivesChunk \/ BeginFails \/ ReceivesNothing
    <2>1. partition' \in {partition, "incomplete"} /\ UNCHANGED boot_selected
      BY <1>3 DEF ReceivesChunk, BeginFails, ReceivesNothing
    <2>2. Slot!MayUpload
      BY <1>2, <1>3 DEF ReceivesChunk, BeginFails, ReceivesNothing
    <2>3. QED BY <1>0, <2>1, <2>2 DEF Slot!Erase
  <1>4. CASE FlashSucceeds
    BY <1>0, <1>2, <1>4 DEF FlashSucceeds, Slot!Install
  <1>5. CASE FlashFails
    <2>1. partition' \in {partition, "bootable", "incomplete"} /\ UNCHANGED boot_selected
      BY <1>5 DEF FlashFails
    <2>2. Slot!MayUpload
      BY <1>2, <1>5 DEF FlashFails
    <2>3. QED BY <1>0, <2>1, <2>2 DEF Slot!Erase, Slot!Fill
  <1>6. QED BY <1>1, <1>3, <1>4, <1>5

LEMMA StepIsSlotStep == IInv /\ [Next]_vars => [Slot!Next]_(Slot!vars)
  <1> SUFFICES ASSUME IInv, [Next]_vars PROVE [Slot!Next]_(Slot!vars)
    OBVIOUS
  <1> USE DEF Slot!Next, Slot!vars
  <1>0. TypeOK
    BY DEF IInv
  <1>b. SuccessPending \in BOOLEAN /\ SuccessPending' \in BOOLEAN
    BY <1>0, TypeInductive DEF SuccessPending, TypeOK
  <1>1. CASE UpdateStep /\ ~Reports
    <2>1. UNCHANGED monitor
      BY <1>1 DEF UpdateStep, UploadStarts, ReceivesChunk, BeginFails, ReceivesNothing,
                  ReceiveTimesOut, ReceiveFails, FlashSucceeds, FlashFails
    <2>2. QED BY <1>1, <2>1, UploadStepIsSlotStep DEF UpdateStep
  <1>2. CASE Reports
    <2>1. UNCHANGED <<partition, boot_selected>>
      BY <1>2 DEF Reports, flash
    <2>2. SuccessPending => SuccessPending'
      BY <1>0, <1>2, ReportingKeeps
    <2>3. CASE SuccessPending' = SuccessPending
      BY <2>1, <2>3
    <2>4. CASE SuccessPending' # SuccessPending
      <3>1. SuccessPending' = TRUE /\ flash_successful
        BY <1>0, <1>2, <1>b, <2>2, <2>4, Reporting
      <3>2. PatientClient => partition = "bootable" /\ boot_selected
        BY <1>2, <3>1 DEF IInv, RestartRunsNewImage, Reports
      <3>3. QED BY <2>1, <3>1, <3>2 DEF Slot!Promise
    <2>5. QED BY <2>3, <2>4
  <1>3. CASE MonitorReceives
    <2>1. UNCHANGED <<partition, boot_selected>>
      BY <1>3 DEF MonitorReceives, flash
    <2>2. SuccessPending' = SuccessPending
      BY <1>0, <1>b, <1>3, TakingMessages, KeepingMessages
    <2>3. QED BY <2>1, <2>2
  <1>4. CASE Restart
    <2>1. SuccessPending' = FALSE
      BY <1>4, <1>b DEF Restart, SuccessPending
    <2>2. QED BY <1>4, <2>1 DEF Restart, Slot!Restart, flash
  <1>5. CASE UNCHANGED vars
    BY <1>5 DEF vars, SuccessPending
  <1>6. QED
    BY <1>1, <1>2, <1>3, <1>4, <1>5 DEF Next, ResetTimeout

\* The update implements the slot, for every queue length and whether or not clients
\* are patient.
THEOREM ImplementsSlot == Spec => SlotSpec
  <1>1. Init => Slot!Init
    <2>1. Init => SuccessPending = FALSE
      BY DEF Init, SuccessPending
    <2>2. QED BY <2>1 DEF Init, Slot!Init
  <1>2. QED BY <1>1, InvariantHolds, StepIsSlotStep, PTL DEF Spec, SlotSpec, Slot!Spec
-----------------------------------------------------------------------------
(* A selected image is promised. *)

LEMMA StepKeepsPromise ==
    ASSUME IInv, IInv', SelectedMeansPromised, [Next]_vars
    PROVE  SelectedMeansPromised'
  <1>0. TypeOK /\ TypeOK'
    BY DEF IInv
  <1> SUFFICES ASSUME PatientClient, boot_selected'
               PROVE  SuccessPending' \/ (handler = "reporting" /\ flash_successful)'
    BY DEF SelectedMeansPromised
  <1>1. CASE UpdateStep /\ ~Reports
    <2>1. UNCHANGED monitor
      BY <1>1 DEF UpdateStep, UploadStarts, ReceivesChunk, BeginFails, ReceivesNothing,
                  ReceiveTimesOut, ReceiveFails, FlashSucceeds, FlashFails
    <2>2. SuccessPending' = SuccessPending
      BY <2>1 DEF SuccessPending, monitor
    <2>3. CASE FlashSucceeds
      BY <2>3 DEF FlashSucceeds
    <2>4. CASE ~FlashSucceeds
      <3>1. boot_selected /\ handler # "reporting"
        BY <1>1, <2>4
        DEF UpdateStep, UploadStarts, ReceivesChunk, BeginFails, ReceivesNothing,
            ReceiveTimesOut, ReceiveFails, FlashFails, flash
      <3>2. QED BY <2>2, <3>1 DEF SelectedMeansPromised
    <2>5. QED BY <2>3, <2>4
  <1>2. CASE Reports
    <2>1. CASE SuccessPending
      BY <1>0, <1>2, <2>1, ReportingKeeps
    <2>2. CASE ~SuccessPending
      <3>1. flash_successful
        BY <1>2, <2>2 DEF Reports, SelectedMeansPromised, flash
      <3>2. http_server_monitor_q' = Append(http_server_monitor_q, "OTA_UPDATE_SUCCESSFUL")
        BY <1>2, <3>1 DEF Reports
      <3>3. /\ Len(http_server_monitor_q') \in 1 .. Len(http_server_monitor_q')
            /\ http_server_monitor_q'[Len(http_server_monitor_q')] = "OTA_UPDATE_SUCCESSFUL"
        BY <1>0, <3>2 DEF TypeOK
      <3>4. QED BY <3>3 DEF SuccessPending
    <2>3. QED BY <2>1, <2>2
  <1>3. CASE MonitorReceives
    <2>1. SuccessPending \/ (handler = "reporting" /\ flash_successful)'
      BY <1>3 DEF MonitorReceives, upload, flash, SelectedMeansPromised
    <2>2. QED BY <1>0, <1>3, <2>1, KeepingMessages
  <1>4. CASE Restart
    <2>1. boot_selected => partition = "bootable"
      BY DEF IInv, RestartRunsNewImage, SelectedMeansPromised
    <2>2. QED BY <1>4, <2>1 DEF Restart, flash
  <1>5. CASE UNCHANGED vars
    BY <1>5 DEF vars, SelectedMeansPromised, SuccessPending
  <1>6. QED
    BY <1>1, <1>2, <1>3, <1>4, <1>5 DEF Next, ResetTimeout

\* No image stays selected without its restart on the way.
THEOREM SelectedMeansPromisedAlways == Spec => []SelectedMeansPromised
  <1>1. Init => SelectedMeansPromised
    BY DEF Init, SelectedMeansPromised
  <1>2. QED BY <1>1, InvariantHolds, StepKeepsPromise, PTL DEF Spec
=============================================================================
