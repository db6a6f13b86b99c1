---------------------------- MODULE PortalProofs ----------------------------
(***************************************************************************)
(* The tasks of the firmware use the card manager and the firmware update  *)
(* only in ways their own specifications allow, so what is proved of each  *)
(* of them alone holds in the whole program.                               *)
(***************************************************************************)
EXTENDS Portal, RfidManagerProofs, Descent, TLAPS

UpdateProofs == INSTANCE FirmwareUpdateProofs

LEMMA StepIsManagerStep == [PortalNext]_portalVars => [Next]_vars
  <1> SUFFICES ASSUME [PortalNext]_portalVars PROVE [Next]_vars
    OBVIOUS
  <1> USE DEF Next, Operate
  <1>1. CASE MainLoop
    BY <1>1 DEF MainLoop, Starts, EntersLoop, Monitors, HasNothingToWrite, Writes, Delays,
                SavesAtBoot, SavesInLoop, MainStep
  <1>2. CASE HttpServer
    BY <1>2 DEF HttpServer, HandlesCardRequest, SavesFormat, HandlesUpload
  <1>3. CASE WriteTimer
    BY <1>3 DEF WriteTimer
  <1>4. CASE Restarts
    BY <1>4 DEF Restarts
  <1>5. CASE UNCHANGED portalVars
    BY <1>5 DEF portalVars
  <1>6. QED BY <1>1, <1>2, <1>3, <1>4, <1>5 DEF PortalNext, PortalOperate, ResetTimer

LEMMA StepIsUpdateStep == [PortalNext]_portalVars => [Update!Next]_(Update!vars)
  <1> SUFFICES ASSUME [PortalNext]_portalVars PROVE [Update!Next]_(Update!vars)
    OBVIOUS
  <1> USE DEF Update!Next, Update!vars, updateVars
  <1>1. CASE MainLoop
    BY <1>1 DEF MainLoop, Starts, EntersLoop, Monitors, HasNothingToWrite, Writes, Delays,
                SavesAtBoot, SavesInLoop
  <1>2. CASE HttpServer
    BY <1>2 DEF HttpServer, HandlesCardRequest, SavesFormat, HandlesUpload
  <1>3. CASE WriteTimer
    BY <1>3 DEF WriteTimer
  <1>4. CASE Restarts
    BY <1>4 DEF Restarts
  <1>5. CASE UNCHANGED portalVars
    BY <1>5 DEF portalVars
  <1>6. QED BY <1>1, <1>2, <1>3, <1>4, <1>5 DEF PortalNext, PortalOperate, ResetTimer

\* The program drives the card manager as RfidManager describes.
THEOREM PortalImplementsManager == PortalSpec => Spec
  <1>1. PortalInit => Init
    BY DEF PortalInit
  <1>2. QED BY <1>1, StepIsManagerStep, PTL DEF PortalSpec, Spec

\* The program drives the firmware update as FirmwareUpdate describes.
THEOREM PortalImplementsUpdate == PortalSpec => Update!Spec
  <1>1. PortalInit => Update!Init
    BY DEF PortalInit
  <1>2. QED BY <1>1, StepIsUpdateStep, PTL DEF PortalSpec, Update!Spec

-----------------------------------------------------------------------------
(* What follows for the whole program. *)

\* Uploads, update messages, the reset timer and a main loop that waits for messages
\* leave the cards what RfidStore promises.
THEOREM PortalImplementsStore == PortalSpec => StoreSpec
  BY PortalImplementsManager, ImplementsStore, PTL

\* The safety of the card manager holds of the whole program.
THEOREM PortalCardsSafe ==
    PortalSpec => [](UniqueIds /\ LookupsAgree /\ CleanMeansDurable /\ NoLostWakeup)
  BY PortalImplementsManager, UniqueIdsAlways, LookupsAgreeAlways, CleanMeansDurableAlways,
     NoLostWakeupAlways, PTL

\* FirmwareUpdateProofs is about its own instance of FirmwareUpdate: the same one.
LEMMA SameStep == [Update!Next]_(Update!vars) => [UpdateProofs!Next]_(UpdateProofs!vars)
  BY DEF Update!Next, UpdateProofs!Next, Update!vars, UpdateProofs!vars,
     Update!UpdateStep, UpdateProofs!UpdateStep,
     Update!upload, UpdateProofs!upload, Update!flash, UpdateProofs!flash,
     Update!monitor, UpdateProofs!monitor, Update!NoBody, UpdateProofs!NoBody,
     Update!SuccessPending, UpdateProofs!SuccessPending,
     Update!UploadStarts, UpdateProofs!UploadStarts,
     Update!ReceivesChunk, UpdateProofs!ReceivesChunk,
     Update!BeginFails, UpdateProofs!BeginFails,
     Update!ReceivesNothing, UpdateProofs!ReceivesNothing,
     Update!ReceiveTimesOut, UpdateProofs!ReceiveTimesOut,
     Update!ReceiveFails, UpdateProofs!ReceiveFails,
     Update!Acceptable, UpdateProofs!Acceptable,
     Update!FlashSucceeds, UpdateProofs!FlashSucceeds,
     Update!FlashFails, UpdateProofs!FlashFails,
     Update!QueueHasRoom, UpdateProofs!QueueHasRoom,
     Update!Reports, UpdateProofs!Reports,
     Update!MonitorReceives, UpdateProofs!MonitorReceives,
     Update!Restart, UpdateProofs!Restart,
     Update!ResetTimeout, UpdateProofs!ResetTimeout

LEMMA SameUpdate == Update!Spec => UpdateProofs!Spec
  <1>1. Update!Init => UpdateProofs!Init
    BY DEF Update!Init, UpdateProofs!Init, Update!NoBody, UpdateProofs!NoBody
  <1>2. QED BY <1>1, SameStep, PTL DEF Update!Spec, UpdateProofs!Spec

\* Card requests, their saves and restarts for their sake leave the update what
\* OtaSlot promises.
THEOREM PortalImplementsSlot == PortalSpec => Update!SlotSpec
  <1>1. UpdateProofs!Spec => UpdateProofs!SlotSpec
    BY UpdateAssumption, UpdateProofs!ImplementsSlot
  <1>2. UpdateProofs!Slot!Init => Update!Slot!Init
    BY DEF UpdateProofs!Slot!Init, Update!Slot!Init,
           UpdateProofs!SuccessPending, Update!SuccessPending
  <1>3. [UpdateProofs!Slot!Next]_(UpdateProofs!Slot!vars)
            => [Update!Slot!Next]_(Update!Slot!vars)
    BY DEF UpdateProofs!Slot!Next, Update!Slot!Next, UpdateProofs!Slot!vars, Update!Slot!vars,
           UpdateProofs!SuccessPending, Update!SuccessPending,
           UpdateProofs!Slot!MayUpload, Update!Slot!MayUpload,
           UpdateProofs!Slot!Erase, Update!Slot!Erase,
           UpdateProofs!Slot!Fill, Update!Slot!Fill,
           UpdateProofs!Slot!Install, Update!Slot!Install,
           UpdateProofs!Slot!Promise, Update!Slot!Promise,
           UpdateProofs!Slot!Restart, Update!Slot!Restart
  <1>4. QED
    BY PortalImplementsUpdate, SameUpdate, <1>1, <1>2, <1>3, PTL
    DEF Update!SlotSpec, UpdateProofs!SlotSpec, Update!Slot!Spec, UpdateProofs!Slot!Spec

\* In the whole program a promised restart runs the new image, and no image is left
\* selected without one.
THEOREM PortalUpdateSafe ==
    PortalSpec => []Update!RestartRunsNewImage /\ []Update!SelectedMeansPromised
  <1>1. UpdateProofs!Spec => []UpdateProofs!RestartRunsNewImage
    BY UpdateAssumption, UpdateProofs!RestartRunsNewImageAlways
  <1>2. UpdateProofs!RestartRunsNewImage => Update!RestartRunsNewImage
    BY DEF UpdateProofs!RestartRunsNewImage, Update!RestartRunsNewImage,
           UpdateProofs!SuccessPending, Update!SuccessPending
  <1>3. UpdateProofs!Spec => []UpdateProofs!SelectedMeansPromised
    BY UpdateAssumption, UpdateProofs!SelectedMeansPromisedAlways
  <1>4. UpdateProofs!SelectedMeansPromised => Update!SelectedMeansPromised
    BY DEF UpdateProofs!SelectedMeansPromised, Update!SelectedMeansPromised,
           UpdateProofs!SuccessPending, Update!SuccessPending
  <1>5. QED BY PortalImplementsUpdate, SameUpdate, <1>1, <1>2, <1>3, <1>4, PTL

-----------------------------------------------------------------------------
(* An applied update boots.  While a new image stays selected its result is in   *)
(* the handler's hands, in the queue or in the timer; the first two come to an   *)
(* end because every step of main and of the handler leaves less to do, and then *)
(* nothing but the timer is left.  That the steps can be taken is the hypothesis *)
(* UpdateNeverStuck, which TLC checks.                                           *)

\* Where app_main's loop is goes together with where the card manager has main, and
\* before the loop nothing has been uploaded.
LoopInv ==
    /\ main = "boot" => loop = "starting"
    /\ loop = "starting" => main \in {"boot", "idle"}
    /\ main \in {"waiting", "saving", "clearing"} => loop = "rfid"
    /\ loop = "starting" =>
           handler = "idle" /\ http_server_monitor_q = <<>> /\ ~fw_update_reset

\* While an image is selected the handler is done with it or about to report it.
Committed ==
    boot_selected =>
        /\ partition = "bootable"
        /\ \/ handler = "idle" /\ Update!SuccessPending
           \/ handler = "reporting" /\ flash_successful

PoweredInv == PortalTypeOK /\ Control /\ LoopInv /\ Committed

\* A result still to be put into the queue, and every one in it, costs main a round;
\* what is left of the round ends where main waits for the next message.
MessagesLeft == Len(http_server_monitor_q) + (IF handler = "reporting" THEN 2 ELSE 0)
RoundLeft ==
    IF loop = "monitor" THEN 0
    ELSE IF loop = "delay" THEN 1
    ELSE IF main = "clearing" THEN 2
    ELSE IF main = "saving" THEN IF save = "close" THEN 3 ELSE IF save = "write" THEN 4 ELSE 5
    ELSE IF main = "waiting" THEN 6
    ELSE 7
UpdateLeft == 8 * MessagesLeft + RoundLeft

LEMMA PoweredIsPortal == PoweredPortalSpec => PortalSpec
  <1>1. [PortalOperate]_portalVars => [PortalNext]_portalVars
    BY DEF PortalNext
  <1>2. QED BY <1>1, PTL DEF PoweredPortalSpec, PortalSpec

LEMMA StepKeepsLoopInv ==
    ASSUME TypeOK, Control, LoopInv, [PortalNext]_portalVars
    PROVE  LoopInv'
  <1> USE DEF LoopInv, TypeOK, Main
  <1>1. CASE Starts \/ EntersLoop \/ HasNothingToWrite \/ Delays
    BY <1>1 DEF Starts, EntersLoop, HasNothingToWrite, Delays, InitLoadsFile, InitLoadsDefaults,
                Lock, vars, updateVars
  <1>2. CASE Monitors
    BY <1>2 DEF Monitors, Update!MonitorReceives, vars, Update!upload
  <1>3. CASE Writes
    BY <1>3 DEF Writes, LoopAfterProcess, Process, ProcessSaves, ProcessFindsClean,
                ProcessTimeout, ProcessClears, updateVars
  <1>4. CASE SavesAtBoot
    <2>1. main' \in {"boot", "idle"} /\ loop = "starting" /\ loop' = loop
      BY <1>4
      DEF SavesAtBoot, SaveStep, SaveOpens, SaveOpenFails, SaveWrites, SaveWriteFails,
          SaveCloses, SaveCloseFails, SaveReturns, FormatReturns, InitReturnsOk,
          InitReturnsError, ProcessReturns
    <2>2. handler' = "idle" /\ http_server_monitor_q' = <<>> /\ fw_update_reset' = FALSE
      BY <1>4, <2>1 DEF SavesAtBoot, Update!Restart, updateVars, Update!TypeOK
    <2>3. QED BY <2>1, <2>2
  <1>5. CASE SavesInLoop
    <2>1. main' \in {"saving", "clearing", "idle"} /\ loop = "rfid"
      BY <1>5
      DEF SavesInLoop, SaveStep, SaveOpens, SaveOpenFails, SaveWrites, SaveWriteFails,
          SaveCloses, SaveCloseFails, SaveReturns, FormatReturns, InitReturnsOk,
          InitReturnsError, ProcessReturns
    <2>2. QED BY <1>5, <2>1 DEF SavesInLoop, LoopAfterProcess
  <1>6. CASE HandlesCardRequest \/ WriteTimer
    <2>1. main' = main
      BY <1>6 DEF HandlesCardRequest, WriteTimer, HttpStep, AddCard, RemoveCard, CheckCard,
                  FormatDatabase, WriteTimeout
    <2>2. QED BY <1>6, <2>1 DEF HandlesCardRequest, WriteTimer, updateVars
  <1>7. CASE SavesFormat
    <2>1. main' = main
      BY <1>7
      DEF SavesFormat, SaveStep, SaveOpens, SaveOpenFails, SaveWrites, SaveWriteFails,
          SaveCloses, SaveCloseFails, SaveReturns, FormatReturns, InitReturnsOk,
          InitReturnsError, ProcessReturns
    <2>2. QED BY <1>7, <2>1 DEF SavesFormat, updateVars
  <1>8. CASE HandlesUpload
    BY <1>8 DEF HandlesUpload, vars
  <1>9. CASE Restarts
    BY <1>9 DEF Restarts, Reboot, Update!Restart
  <1>10. CASE UNCHANGED portalVars
    BY <1>10 DEF portalVars, vars, updateVars
  <1>11. QED
    BY <1>1, <1>2, <1>3, <1>4, <1>5, <1>6, <1>7, <1>8, <1>9, <1>10
    DEF PortalNext, PortalOperate, MainLoop, HttpServer, ResetTimer

LEMMA PoweredInvariantHolds ==
    ASSUME PatientClient
    PROVE  PortalSpec => []PoweredInv
  <1>1. PortalSpec => [](TypeOK /\ Control)
    BY PortalImplementsManager, InvariantHolds, PTL DEF IInv
  <1>2. UpdateProofs!Spec => [](UpdateProofs!IInv /\ UpdateProofs!SelectedMeansPromised)
    BY UpdateAssumption, UpdateProofs!InvariantHolds, UpdateProofs!SelectedMeansPromisedAlways,
       PTL
  <1>3. UpdateProofs!IInv => Update!TypeOK
    BY DEF UpdateProofs!IInv, UpdateProofs!TypeOK, Update!TypeOK, UpdateProofs!Body, Update!Body,
           UpdateProofs!Result, Update!Result
  <1>4. UpdateProofs!IInv /\ UpdateProofs!SelectedMeansPromised => Committed
    BY DEF UpdateProofs!IInv, UpdateProofs!Phases, UpdateProofs!SelectedMeansPromised,
           UpdateProofs!RestartRunsNewImage, Committed,
           UpdateProofs!SuccessPending, Update!SuccessPending
  <1>5. PortalInit => LoopInv /\ loop \in {"starting", "monitor", "rfid", "delay"}
    BY DEF PortalInit, Init, Update!Init, LoopInv
  <1>6. TypeOK /\ Control /\ LoopInv /\ [PortalNext]_portalVars => LoopInv'
    BY StepKeepsLoopInv
  <1>7. loop \in {"starting", "monitor", "rfid", "delay"} /\ [PortalNext]_portalVars
            => (loop \in {"starting", "monitor", "rfid", "delay"})'
    BY DEF PortalNext, PortalOperate, MainLoop, HttpServer, Starts, EntersLoop, Monitors,
           HasNothingToWrite, Writes, Delays, SavesAtBoot, SavesInLoop, LoopAfterProcess,
           HandlesCardRequest, SavesFormat, HandlesUpload, WriteTimer, ResetTimer, Restarts,
           portalVars
  <1>8. QED
    BY <1>1, <1>2, <1>3, <1>4, <1>5, <1>6, <1>7, PortalImplementsUpdate, SameUpdate, PTL
    DEF PortalSpec, PoweredInv, PortalTypeOK

LEMMA RoundsAndMessages ==
    /\ \A m, r, s \in Nat : s < r => 8 * m + s < 8 * m + r
    /\ \A m \in Nat \ {0}, r, s \in Nat : s < r + 8 => 8 * (m - 1) + s < 8 * m + r
  OBVIOUS

LEMMA UpdateLeftIsNumber == PoweredInv => UpdateLeft \in Nat
  <1> SUFFICES ASSUME PoweredInv PROVE UpdateLeft \in Nat
    OBVIOUS
  <1>1. Len(http_server_monitor_q) \in Nat
    BY DEF PoweredInv, PortalTypeOK, Update!TypeOK
  <1>2. MessagesLeft \in Nat
    BY <1>1 DEF MessagesLeft
  <1>3. RoundLeft \in Nat
    BY DEF RoundLeft
  <1>4. QED BY <1>2, <1>3 DEF UpdateLeft

\* A step under which an image is and stays selected.
Selected ==
    /\ PoweredInv /\ PoweredInv' /\ [PortalOperate]_portalVars
    /\ boot_selected /\ boot_selected'

\* main's steps come nearer to the next message, and with each one there is one less.
LEMMA MainLeavesLess == Selected /\ MainLoop => UpdateLeft' < UpdateLeft
  <1> SUFFICES ASSUME Selected, MainLoop PROVE UpdateLeft' < UpdateLeft
    OBVIOUS
  <1> USE DEF Selected
  <1>0. /\ Len(http_server_monitor_q) \in Nat /\ Len(http_server_monitor_q') \in Nat
        /\ http_server_monitor_q \in Seq(Update!Result)
    BY DEF PoweredInv, PortalTypeOK, Update!TypeOK
  <1>1. loop # "starting"
    BY DEF PoweredInv, LoopInv, Committed, Update!SuccessPending
  <1>2. main # "boot" /\ loop \in {"monitor", "rfid", "delay"}
    BY <1>1 DEF PoweredInv, LoopInv, PortalTypeOK
  <1>3. main \in {"waiting", "saving", "clearing"} => loop = "rfid"
    BY DEF PoweredInv, LoopInv
  <1>4. main \in Main /\ (main = "saving" => save \in {"open", "write", "close"})
    BY DEF PoweredInv, PortalTypeOK, TypeOK, Control
  <1>5. CASE Monitors
    <2>1. RoundLeft = 0 /\ RoundLeft' \in 0 .. 7
      BY <1>5 DEF Monitors, RoundLeft
    <2>2. /\ Len(http_server_monitor_q') = Len(http_server_monitor_q) - 1
          /\ handler' = handler
      BY <1>0, <1>5 DEF Monitors, Update!MonitorReceives, Update!upload
    <2>3. MessagesLeft \in Nat \ {0} /\ MessagesLeft' = MessagesLeft - 1
      BY <1>0, <1>5, <2>2 DEF MessagesLeft, Monitors, Update!MonitorReceives
    <2>4. RoundLeft \in Nat /\ RoundLeft' \in Nat /\ RoundLeft' < RoundLeft + 8
      BY <2>1
    <2>5. QED BY <2>3, <2>4, RoundsAndMessages, Zenon DEF UpdateLeft
  <1>6. CASE HasNothingToWrite \/ Writes \/ Delays \/ SavesInLoop
    <2>1. MessagesLeft' = MessagesLeft /\ MessagesLeft \in Nat
      BY <1>0, <1>6
      DEF HasNothingToWrite, Writes, Delays, SavesInLoop, MessagesLeft, updateVars
    <2>2. CASE HasNothingToWrite \/ Delays
      BY <1>2, <1>3, <1>4, <2>1, <2>2
      DEF HasNothingToWrite, Delays, RoundLeft, UpdateLeft, vars, Main
    <2>3. CASE Writes
      <3>1. RoundLeft' < RoundLeft
        BY <1>2, <1>3, <1>4, <2>3
        DEF Writes, LoopAfterProcess, Process, ProcessSaves, ProcessFindsClean,
            ProcessTimeout, ProcessClears, RoundLeft, Main
      <3>2. RoundLeft \in Nat /\ RoundLeft' \in Nat
        BY DEF RoundLeft
      <3>3. QED BY <2>1, <3>1, <3>2, RoundsAndMessages, Zenon DEF UpdateLeft
    <2>4. CASE SavesInLoop
      <3>1. RoundLeft' < RoundLeft
        BY <1>2, <1>3, <1>4, <2>4
        DEF SavesInLoop, LoopAfterProcess, SaveStep, SaveOpens, SaveOpenFails, SaveWrites,
            SaveWriteFails, SaveCloses, SaveCloseFails, SaveReturns, FormatReturns,
            InitReturnsOk, InitReturnsError, ProcessReturns, RoundLeft, Main
      <3>2. RoundLeft \in Nat /\ RoundLeft' \in Nat
        BY DEF RoundLeft
      <3>3. QED BY <2>1, <3>1, <3>2, RoundsAndMessages, Zenon DEF UpdateLeft
    <2>5. QED BY <1>6, <2>2, <2>3, <2>4
  <1>7. QED
    BY <1>1, <1>2, <1>5, <1>6
    DEF MainLoop, Starts, EntersLoop, SavesAtBoot

\* The handler that has selected an image has only its report left.
LEMMA ReportLeavesLess ==
    Selected /\ UploadGoesOn => UpdateLeft' < UpdateLeft
  <1> SUFFICES ASSUME Selected, UploadGoesOn PROVE UpdateLeft' < UpdateLeft
    OBVIOUS
  <1> USE DEF Selected, UploadGoesOn
  <1>0. /\ Len(http_server_monitor_q) \in Nat
        /\ http_server_monitor_q \in Seq(Update!Result)
    BY DEF PoweredInv, PortalTypeOK, Update!TypeOK
  <1>1. handler = "reporting"
    BY DEF PoweredInv, Committed
  <1>2. Update!Reports
    BY <1>1
    DEF HandlesUpload, Update!UpdateStep, Update!UploadStarts, Update!ReceivesChunk,
        Update!BeginFails, Update!ReceivesNothing, Update!ReceiveTimesOut, Update!ReceiveFails,
        Update!FlashSucceeds, Update!FlashFails
  <1>3. handler' = "idle" /\ Len(http_server_monitor_q') = Len(http_server_monitor_q) + 1
    BY <1>0, <1>2 DEF Update!Reports, Update!Result
  <1>4. MessagesLeft \in Nat /\ MessagesLeft' = MessagesLeft - 1
    BY <1>0, <1>1, <1>3 DEF MessagesLeft
  <1>5. RoundLeft \in Nat /\ RoundLeft' = RoundLeft
    BY DEF HandlesUpload, RoundLeft, vars
  <1>6. QED BY <1>4, <1>5 DEF UpdateLeft

\* Nobody else adds anything, and only the timer ends it.
LEMMA OthersLeaveUpdate ==
    ASSUME PatientClient, Selected, ~MainLoop, ~UploadGoesOn
    PROVE  UNCHANGED <<UpdateLeft, loop, handler, http_server_monitor_q, fw_update_reset>>
  <1> USE DEF Selected, UploadGoesOn
  <1>1. CASE HandlesCardRequest \/ SavesFormat \/ WriteTimer
    <2>1. UNCHANGED <<updateVars, loop, main>>
      BY <1>1
      DEF HandlesCardRequest, SavesFormat, WriteTimer, HttpStep, AddCard, RemoveCard, CheckCard,
          FormatDatabase, WriteTimeout, SaveStep, SaveOpens, SaveOpenFails, SaveWrites,
          SaveWriteFails, SaveCloses, SaveCloseFails, SaveReturns, FormatReturns, InitReturnsOk,
          InitReturnsError, ProcessReturns
    <2>2. main = "saving" => save' = save
      BY <1>1
      DEF HandlesCardRequest, SavesFormat, WriteTimer, HttpStep, AddCard, RemoveCard, CheckCard,
          FormatDatabase, Lock, WriteTimeout, PoweredInv, Control
    <2>3. QED BY <2>1, <2>2 DEF updateVars, UpdateLeft, MessagesLeft, RoundLeft
  <1>2. CASE HandlesUpload /\ handler = "idle"
    <2>1. Update!UploadStarts
      BY <1>2
      DEF HandlesUpload, Update!UpdateStep, Update!ReceivesChunk, Update!BeginFails,
          Update!ReceivesNothing, Update!ReceiveTimesOut, Update!ReceiveFails,
          Update!FlashSucceeds, Update!FlashFails, Update!Reports
    <2>2. QED BY <1>2, <2>1 DEF Update!UploadStarts, PoweredInv, Committed
  <1>3. CASE ResetTimer
    BY <1>3 DEF ResetTimer, Restarts, Update!Restart, PoweredInv, Committed
  <1>4. CASE UNCHANGED portalVars
    BY <1>4 DEF portalVars, vars, updateVars, UpdateLeft, MessagesLeft, RoundLeft
  <1>5. QED BY <1>1, <1>2, <1>3, <1>4 DEF PortalOperate, HttpServer

\* Once nothing is left to do but to wait for the timer, the timer runs.
LEMMA NothingStaysSelected ==
    ASSUME PatientClient
    PROVE  ~(/\ []PoweredInv /\ []UpdateNeverStuck /\ [][PortalOperate]_portalVars
             /\ PortalFairness /\ StopsFalling(UpdateLeft, portalVars) /\ []boot_selected)
  <1> DEFINE Waits == loop = "monitor" /\ http_server_monitor_q = <<>>
             Reporting == handler = "reporting" /\ Update!QueueHasRoom
             Resetting == fw_update_reset
             Left == UpdateLeft
             Image == boot_selected
             Counted == Left \in Nat
  <1>1. PoweredInv => Left \in Nat
    BY UpdateLeftIsNumber
  <1>2. Selected /\ Counted /\ Counted' =>
                    /\ [Left' <= Left]_portalVars
                    /\ <<MainLoop>>_portalVars => ~[Left' = Left]_portalVars
                    /\ <<UploadGoesOn>>_portalVars => ~[Left' = Left]_portalVars
                    /\ ~<<MainLoop>>_portalVars /\ ~<<UploadGoesOn>>_portalVars =>
                         /\ Waits => Waits'
                         /\ Waits /\ Reporting => Reporting'
                         /\ Resetting => Resetting'
                    /\ ~<<ResetTimer>>_portalVars
    <2> SUFFICES ASSUME Selected, Counted, Counted'
                 PROVE  /\ [Left' <= Left]_portalVars
                        /\ <<MainLoop>>_portalVars => ~[Left' = Left]_portalVars
                        /\ <<UploadGoesOn>>_portalVars => ~[Left' = Left]_portalVars
                        /\ ~<<MainLoop>>_portalVars /\ ~<<UploadGoesOn>>_portalVars =>
                             /\ Waits => Waits'
                             /\ Waits /\ Reporting => Reporting'
                             /\ Resetting => Resetting'
                        /\ ~<<ResetTimer>>_portalVars
      OBVIOUS
    <2>1. Left \in Nat /\ Left' \in Nat
      OBVIOUS
    <2>2. MainLoop => Left' < Left
      BY MainLeavesLess
    <2>3. UploadGoesOn => Left' < Left
      BY ReportLeavesLess
    <2>4. ~MainLoop /\ ~UploadGoesOn =>
              Left' = Left /\ Waits' = Waits /\ Reporting' = Reporting /\ Resetting' = Resetting
      BY OthersLeaveUpdate DEF Update!QueueHasRoom
    <2>5. UNCHANGED portalVars => Waits' = Waits /\ Reporting' = Reporting /\ Resetting' = Resetting
      BY DEF portalVars, updateVars, Update!QueueHasRoom
    <2>6. ~ResetTimer
      BY DEF Selected, ResetTimer, Restarts, Update!Restart, PoweredInv, Committed
    <2> HIDE DEF Left, Waits, Reporting, Resetting
    <2>7. Left' <= Left /\ (MainLoop \/ UploadGoesOn => Left' # Left)
      BY <2>1, <2>2, <2>3, <2>4
    <2>8. QED BY <2>4, <2>5, <2>6, <2>7
  <1>3. UpdateNeverStuck => /\ ~Waits => ENABLED <<MainLoop>>_portalVars
                            /\ Reporting => ENABLED <<UploadGoesOn>>_portalVars
                            /\ Resetting => ENABLED <<ResetTimer>>_portalVars
    BY DEF UpdateNeverStuck
  <1>4. PoweredInv /\ Image /\ Waits => Reporting \/ Resetting
    BY UpdateAssumption
    DEF PoweredInv, Committed, Update!SuccessPending, Update!QueueHasRoom
  <1>5. PoweredInv /\ PoweredInv' /\ [PortalOperate]_portalVars /\ Image /\ Image' => Selected
    BY DEF Selected
  <1> HIDE DEF Waits, Reporting, Resetting, Left, Image, Counted
  <1>6. PoweredInv => Counted
    BY <1>1 DEF Counted, Left
  <1>7. []PoweredInv /\ [][PortalOperate]_portalVars /\ []Image /\ []UpdateNeverStuck
            /\ [][Left' = Left]_portalVars
          => ~(WF_portalVars(MainLoop) /\ WF_portalVars(UploadGoesOn) /\ WF_portalVars(ResetTimer))
    BY <1>2, <1>3, <1>4, <1>5, <1>6, PTL
  <1>8. StopsFalling(UpdateLeft, portalVars) => StopsFalling(Left, portalVars)
    BY DEF Left
  <1>9. []PoweredInv /\ [][PortalOperate]_portalVars /\ []Image /\ StopsFalling(Left, portalVars)
            => <>[][Left' = Left]_portalVars
    BY <1>1, <1>2, <1>5, <1>6, PTL DEF StopsFalling
  <1>10. ~([]PoweredInv /\ []UpdateNeverStuck /\ [][PortalOperate]_portalVars
             /\ PortalFairness /\ StopsFalling(UpdateLeft, portalVars) /\ []Image)
    BY <1>7, <1>8, <1>9, PTL DEF PortalFairness
  <1>11. QED BY <1>10 DEF Image

\* An applied update boots, for every queue length, upload and number of cards.
THEOREM AppliedUpdateBootsFairly ==
    ASSUME PatientClient
    PROVE  PoweredPortalSpec /\ []UpdateNeverStuck /\ StopsFalling(UpdateLeft, portalVars)
               => AppliedUpdateBoots
  <1>1. PoweredPortalSpec => []PoweredInv
    BY PoweredIsPortal, PoweredInvariantHolds, PTL
  <1>2. PortalFairness => []PortalFairness
    BY PTL DEF PortalFairness
  <1>3. StopsFalling(UpdateLeft, portalVars) => []StopsFalling(UpdateLeft, portalVars)
    BY PTL DEF StopsFalling
  <1>4. QED
    BY <1>1, <1>2, <1>3, NothingStaysSelected, PTL DEF PoweredPortalSpec, AppliedUpdateBoots
=============================================================================
