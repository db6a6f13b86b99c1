------------------------------ MODULE TimeSync ------------------------------
(***************************************************************************)
(* Time synchronisation (components/app_time_sync) and what it is for, the *)
(* start of the AWS IoT task (components/aws_iot), whose TLS connection    *)
(* needs the time.  Three tasks announce status changes to                 *)
(* time_sync_callback of main.c, which starts AWS IoT on COMPLETED:        *)
(*                                                                         *)
(*   main   app_time_sync_start(), at boot;                                *)
(*   tcpip  time_sync_notification_cb(), called for every SNTP answer;     *)
(*   sync   time_sync_task(), which waits for the first answer.            *)
(*                                                                         *)
(* The mutex of the component is taken by app_time_sync_start only, so it  *)
(* keeps none of them apart: an action here is what lies between two       *)
(* accesses to the status, the handle or the callback's effects.  The      *)
(* callback logs the other statuses.  A call that fails at boot ends in    *)
(* abort(), which is Restart.                                              *)
(***************************************************************************)
EXTENDS Naturals

CONSTANTS
    retry_count_max     \* waits before time_sync_task gives up: 15 in the code,
                        \* from retry_count = 15 and 30000 ms in steps of 2000 ms

ASSUME RetryAssumption == retry_count_max \in Nat \ {0}

VARIABLES
    status,         \* s_time_sync_ctx.status
    at,             \* where each task is, see Steps
    retry_count,    \* of time_sync_task
    sync_sem,       \* esp_netif_sntp's semaphore: an answer sync_wait has not seen
    clock_valid,    \* the clock shows a year from MIN_VALID_YEAR on
    task_aws_iot,   \* TRUE once the handle of the AWS IoT task is not NULL
    aws_iot_tasks,  \* AWS IoT tasks running
    announced       \* history: the status the callback was last called with

vars == <<status, at, retry_count, sync_sem, clock_valid, task_aws_iot, aws_iot_tasks,
          announced>>

Tasks == {"main", "tcpip", "sync"}
Status == {"NOT_STARTED", "IN_PROGRESS", "COMPLETED", "FAILED"}

\* "off"        the task, or the call, does not exist; "over" it has come and gone
\* "called"     it has begun
\* "waiting"    in esp_netif_sntp_sync_wait
\* "expired"    the last wait has timed out
\* "decided"    about to write the status
\* the next three   that status is written and about to be announced
\* "creating"   in aws_iot_start: task_aws_iot was NULL
Steps == {"off", "called", "waiting", "expired", "decided", "IN_PROGRESS", "COMPLETED",
          "FAILED", "creating", "over"}

\* Where a task goes after its last announcement.
AfterAnnouncing(t) == IF t = "tcpip" THEN "off" ELSE "over"

TypeOK ==
    /\ status \in Status
    /\ at \in [Tasks -> Steps]
    /\ retry_count \in 0 .. retry_count_max
    /\ sync_sem \in BOOLEAN
    /\ clock_valid \in BOOLEAN
    /\ task_aws_iot \in BOOLEAN
    /\ aws_iot_tasks \in Nat
    /\ announced \in Status

\* app_main has called app_time_sync_init and calls app_time_sync_start.
AtBoot == [t \in Tasks |-> IF t = "main" THEN "called" ELSE "off"]

Init ==
    /\ status = "NOT_STARTED"
    /\ at = AtBoot
    /\ retry_count = 0
    /\ sync_sem = FALSE
    /\ clock_valid = FALSE
    /\ task_aws_iot = FALSE
    /\ aws_iot_tasks = 0
    /\ announced = "NOT_STARTED"

Goes(t, step) == at' = [at EXCEPT ![t] = step]

\* SNTP runs from app_time_sync_start's esp_netif_sntp_init on.
SntpRuns == at["sync"] # "off"

clock == <<sync_sem, clock_valid>>
aws == <<task_aws_iot, aws_iot_tasks>>

-----------------------------------------------------------------------------
(* Announcements: notify_status_change and the callback. *)

\* IN_PROGRESS by main, FAILED by the sync task: the callback only logs.
AnnouncesOther(t) ==
    /\ at[t] \in {"IN_PROGRESS", "FAILED"}
    /\ announced' = at[t]
    /\ Goes(t, "over")
    /\ UNCHANGED <<status, retry_count, clock, aws>>

\* COMPLETED by main, which had no need to start SNTP, by the SNTP callback, or by
\* the sync task; aws_iot_start looks at its handle.
AnnouncesCompleted(t) ==
    /\ at[t] = "COMPLETED"
    /\ announced' = "COMPLETED"
    /\ Goes(t, IF task_aws_iot THEN AfterAnnouncing(t) ELSE "creating")
    /\ UNCHANGED <<status, retry_count, clock, aws>>

\* xTaskCreatePinnedToCore sets the handle.
CreatesAwsTask(t) ==
    /\ at[t] = "creating"
    /\ task_aws_iot' = TRUE
    /\ aws_iot_tasks' = aws_iot_tasks + 1
    /\ Goes(t, AfterAnnouncing(t))
    /\ UNCHANGED <<status, retry_count, clock, announced>>

\* aws_iot_task deletes itself after an error and leaves the handle as it is.
AwsTaskEnds ==
    /\ aws_iot_tasks > 0
    /\ aws_iot_tasks' = aws_iot_tasks - 1
    /\ UNCHANGED <<status, at, retry_count, clock, task_aws_iot, announced>>

-----------------------------------------------------------------------------
(* app_time_sync_start, in main. *)

\* After a restart that kept the clock there is nothing to synchronise.
StartFindsValidTime ==
    /\ at["main"] = "called"
    /\ clock_valid
    /\ status' = "COMPLETED"
    /\ Goes("main", "COMPLETED")
    /\ UNCHANGED <<retry_count, clock, aws, announced>>

\* esp_netif_sntp_init and xTaskCreate: SNTP answers and the sync task, whose
\* priority is higher than main's, may run from here on...
StartCreatesTask ==
    /\ at["main"] = "called"
    /\ ~clock_valid
    /\ at' = [at EXCEPT !["main"] = "decided", !["sync"] = "waiting"]
    /\ UNCHANGED <<status, retry_count, clock, aws, announced>>

\* ...before main writes IN_PROGRESS.
StartMarksProgress ==
    /\ at["main"] = "decided"
    /\ status' = "IN_PROGRESS"
    /\ Goes("main", "IN_PROGRESS")
    /\ UNCHANGED <<retry_count, clock, aws, announced>>

-----------------------------------------------------------------------------
(* An SNTP answer and time_sync_notification_cb, in the tcpip task. *)

SntpAnswers ==
    /\ SntpRuns
    /\ at["tcpip"] = "off"
    /\ clock_valid' = TRUE
    /\ sync_sem' = TRUE
    /\ Goes("tcpip", "called")
    /\ UNCHANGED <<status, retry_count, aws, announced>>

\* Mutant: the callback acts only on a synchronisation in progress.
CallbackDecidesInProgress ==
    /\ at["tcpip"] = "called"
    /\ Goes("tcpip", IF status = "IN_PROGRESS" THEN "decided" ELSE "off")
    /\ UNCHANGED <<status, retry_count, clock, aws, announced>>

CallbackDecides ==
    /\ at["tcpip"] = "called"
    /\ Goes("tcpip", IF status # "COMPLETED" THEN "decided" ELSE "off")
    /\ UNCHANGED <<status, retry_count, clock, aws, announced>>

CallbackCompletes ==
    /\ at["tcpip"] = "decided"
    /\ status' = "COMPLETED"
    /\ Goes("tcpip", "COMPLETED")
    /\ UNCHANGED <<retry_count, clock, aws, announced>>

-----------------------------------------------------------------------------
(* time_sync_task. *)

\* esp_netif_sntp_sync_wait takes the semaphore.
WaitSucceeds ==
    /\ at["sync"] = "waiting"
    /\ sync_sem
    /\ sync_sem' = FALSE
    /\ Goes("sync", "decided")
    /\ UNCHANGED <<status, retry_count, clock_valid, aws, announced>>

\* Mutant: any return of the wait, a timeout included, is taken for an answer.
WaitAlwaysSucceeds ==
    /\ at["sync"] = "waiting"
    /\ ~sync_sem
    /\ Goes("sync", "decided")
    /\ UNCHANGED <<status, retry_count, clock, aws, announced>>

\* Mutant: one wait too many.
WaitTimesOutOnceMore ==
    /\ at["sync"] = "waiting"
    /\ ~sync_sem
    /\ retry_count' = retry_count + 1
    /\ Goes("sync", IF retry_count > retry_count_max THEN "expired" ELSE "waiting")
    /\ UNCHANGED <<status, clock, aws, announced>>

\* Mutant: the wait is given no limit (portMAX_DELAY) and returns with an answer only.
WaitsForAnswer == WaitSucceeds

\* SYNC_CHECK_INTERVAL_MS without an answer.
WaitTimesOut ==
    /\ at["sync"] = "waiting"
    /\ ~sync_sem
    /\ retry_count' = retry_count + 1
    /\ Goes("sync", IF retry_count' = retry_count_max THEN "expired" ELSE "waiting")
    /\ UNCHANGED <<status, clock, aws, announced>>

SyncCompletes ==
    /\ at["sync"] = "decided"
    /\ status' = "COMPLETED"
    /\ Goes("sync", "COMPLETED")
    /\ UNCHANGED <<retry_count, clock, aws, announced>>

SyncFails ==
    /\ at["sync"] = "expired"
    /\ status' = "FAILED"
    /\ Goes("sync", "FAILED")
    /\ UNCHANGED <<retry_count, clock, aws, announced>>

-----------------------------------------------------------------------------

\* A soft restart may keep the clock, a power loss does not.
Restart ==
    /\ status' = "NOT_STARTED"
    /\ at' = AtBoot
    /\ retry_count' = 0
    /\ sync_sem' = FALSE
    /\ clock_valid' \in {clock_valid, FALSE}
    /\ task_aws_iot' = FALSE
    /\ aws_iot_tasks' = 0
    /\ announced' = "NOT_STARTED"

MainStep ==
    \/ StartFindsValidTime \/ StartCreatesTask \/ StartMarksProgress
    \/ AnnouncesOther("main") \/ AnnouncesCompleted("main") \/ CreatesAwsTask("main")

TcpipStep ==
    \/ CallbackDecides \/ CallbackCompletes
    \/ AnnouncesCompleted("tcpip") \/ CreatesAwsTask("tcpip")

SyncStep ==
    \/ WaitSucceeds \/ WaitTimesOut \/ SyncCompletes \/ SyncFails
    \/ AnnouncesOther("sync") \/ AnnouncesCompleted("sync") \/ CreatesAwsTask("sync")

Operate == MainStep \/ TcpipStep \/ SyncStep \/ SntpAnswers \/ AwsTaskEnds

Next == Operate \/ Restart

\* The three tasks are scheduled; nothing is assumed of the network.
Fairness == WF_vars(MainStep) /\ WF_vars(TcpipStep) /\ WF_vars(SyncStep)

Spec == Init /\ [][Next]_vars /\ Fairness

-----------------------------------------------------------------------------

\* No AWS IoT task, whose TLS handshake checks certificate dates, is ever created
\* before the clock is right: whichever of the three tasks announces COMPLETED,
\* the time has come from the clock of an earlier run or from an SNTP answer.
AwsNeedsTime == aws_iot_tasks > 0 => clock_valid

\* A task that has nothing to do until the clock or SNTP changes.
AtRest(t) == at[t] \in {"off", "waiting", "over"}

\* Nobody relies on an announcement that is never made: when the clock is right and
\* none of the three tasks is in the middle of one, AWS IoT has been started, although
\* a task that finds COMPLETED leaves the announcement to whoever has written it, and
\* IN_PROGRESS and FAILED may overwrite it before it is made.
RestMeansStarted == clock_valid /\ (\A t \in Tasks : AtRest(t)) => task_aws_iot

Ready(t) == at[t] \notin {"off", "over"}

\* Nobody waits for another task or for the network for ever: what main and the SNTP
\* callback have begun they can go on with, and the sync task can although no answer
\* may ever come, since esp_netif_sntp_sync_wait returns without one.
TasksNeverStuck ==
    /\ Ready("main") => ENABLED <<MainStep>>_vars
    /\ Ready("tcpip") => ENABLED <<TcpipStep>>_vars
    /\ Ready("sync") => ENABLED <<SyncStep>>_vars

\* time_sync_task comes to its vTaskDelete once restarts end, whether SNTP answers
\* before, between or after its waits, or never, and whoever else writes the status.
SyncTaskEnds == <>[][~Restart]_vars => <>[](at["sync"] \in {"off", "over"})

\* If the time gets right and stays so, and restarts come to an end, AWS IoT is
\* started: however the three tasks overwrite each other's status, and even when
\* the answer comes after time_sync_task has given up.
TimeStartsAws == (<>[][~Restart]_vars /\ <>[]clock_valid) => <>[]task_aws_iot

\* "@param status Current sync status" (app_time_sync.h): the callback is called
\* with the status the component is in.
AnnouncesCurrentStatus ==
    [][\A t \in Tasks :
           AnnouncesOther(t) \/ AnnouncesCompleted(t) => announced' = status]_vars

\* "Starts AWS IoT task." (aws_iot.h) and the one handle it has for it: at most
\* one such task runs.
OneAwsTask == aws_iot_tasks <= 1
=============================================================================
