------------------------------- MODULE AppWifi -------------------------------
(***************************************************************************)
(* The station side of components/app_wifi, with the request handler that  *)
(* drives it (http_server_wifi_connect_handler) and the credentials both   *)
(* save.  Three parties work on one status and one retry counter:          *)
(*                                                                         *)
(*   the HTTP task   saves the credentials, then runs app_wifi_connect_sta *)
(*                   under the component's mutex, which nobody else takes  *)
(*                   meanwhile: main has, at boot, and getters run in the  *)
(*                   HTTP task itself;                                     *)
(*   the event task  runs wifi_event_handler without the mutex;            *)
(*   the driver      joins, loses the router, and posts events (external). *)
(*                                                                         *)
(* An action is what lies between two accesses to what they share.  In     *)
(* this firmware nothing calls app_wifi_stop, deinit, set_sta_config or    *)
(* disconnect_sta.                                                         *)
(***************************************************************************)
EXTENDS Credentials, Integers, Sequences, FiniteSets

CONSTANTS
    sta_max_retry,  \* MAX_RETRY_DEFAULT: 5 in the code
    MaxEvents       \* bound on the events waiting: the queue of the default
                    \* event loop, on which the driver blocks when it is full

ASSUME RetryAssumption == sta_max_retry \in Nat \ {0}
ASSUME EventsAssumption == MaxEvents \in Nat \ {0}

VARIABLES
    started,        \* s_wifi_ctx.started
    config,         \* s_wifi_ctx.config.sta_ssid and sta_password
    sta_status,
    retry_count,
    httpd,          \* where the connect request is
    event,          \* where wifi_event_handler is
    counted,        \* retry_count as its increment has read it
    link,           \* the driver's station
    events,         \* posted and not yet handled
    refused,        \* the driver refused the handler's last connect: it stands idle
    announced,      \* history: the status the callback was last called with
    promised        \* history: the pair last answered with "pswd_saved":"ok", until
                    \* the next request or until a boot erases NVS

station == <<started, config, sta_status, retry_count>>
driver == <<link, events, refused>>
vars == <<credentials, station, httpd, event, counted, driver, announced, promised>>

Status == {"DISCONNECTED", "CONNECTING", "CONNECTED", "FAILED"}

\* "saving"        in the handler's own nvs_storage_save_wifi_creds
\* the next three  in connect_sta, before the driver call of that name
\* "marking"       the driver has begun to connect, sta_status is not yet written
\* "telling"       sta_status is written and the callback not yet called
\* "resaving"      in connect_sta's save
\* "answering"     about to send the response
HttpSteps == {"idle", "saving", "disconnecting", "configuring", "connecting", "marking",
              "telling", "resaving", "answering"}

\* "retrying"      retry_count was below the maximum
\* "reading"       esp_wifi_connect called; retry_count++ begins
\* "counting"      retry_count++ has read the counter
\* "failing", "reporting"   about to write FAILED, CONNECTED
\* the last three  about to call the callback with that status
EventSteps == {"idle", "retrying", "reading", "counting", "failing", "reporting",
               "CONNECTING", "FAILED", "CONNECTED"}

\* "joined": associated, no address yet.
Links == {"idle", "joining", "joined", "up"}
Events == {"STA_START", "STA_DISCONNECTED", "STA_GOT_IP"}

TypeOK ==
    /\ CredentialsType
    /\ started \in BOOLEAN
    /\ config \in StoredPair
    /\ sta_status \in Status
    /\ retry_count \in 0 .. sta_max_retry
    /\ httpd \in HttpSteps
    /\ event \in EventSteps
    /\ counted \in 0 .. sta_max_retry
    /\ link \in Links
    /\ events \in Seq(Events)
    /\ refused \in BOOLEAN
    /\ announced \in Status
    /\ promised \in StoredPair

Init ==
    /\ CredentialsInit
    /\ started = FALSE
    /\ config = Nothing
    /\ sta_status = "DISCONNECTED"
    /\ retry_count = 0
    /\ httpd = "idle"
    /\ event = "idle"
    /\ counted = 0
    /\ link = "idle"
    /\ events = << >>
    /\ refused = FALSE
    /\ announced = "DISCONNECTED"
    /\ promised = Nothing

-----------------------------------------------------------------------------
(* The driver, which is external. *)

\* A connect request of the HTTP task between two of its driver calls, or about to
\* write the status: a few instructions, while joining takes the radio and DHCP
\* tens of milliseconds.
InDriverCalls == httpd \in {"configuring", "connecting", "marking", "telling"}

Post(e) ==
    /\ Len(events) < MaxEvents
    /\ events' = Append(events, e)

\* esp_wifi_connect: refused while a join or a link is there, and possibly otherwise.
Connects == link = "idle" /\ link' = "joining"
ConnectFails == UNCHANGED link

DriverUnchanged == UNCHANGED <<credentials, station, httpd, event, counted, announced, promised>>

Associates ==
    /\ link = "joining"
    /\ ~InDriverCalls
    /\ link' = "joined"
    /\ UNCHANGED <<events, refused>>
    /\ DriverUnchanged

JoinFails ==
    /\ link = "joining"
    /\ ~InDriverCalls
    /\ link' = "idle"
    /\ Post("STA_DISCONNECTED")
    /\ UNCHANGED refused
    /\ DriverUnchanged

\* DHCP.
GetsAddress ==
    /\ link = "joined"
    /\ ~InDriverCalls
    /\ link' = "up"
    /\ Post("STA_GOT_IP")
    /\ UNCHANGED refused
    /\ DriverUnchanged

LosesLink ==
    /\ link \in {"joined", "up"}
    /\ ~InDriverCalls
    /\ link' = "idle"
    /\ Post("STA_DISCONNECTED")
    /\ UNCHANGED refused
    /\ DriverUnchanged

AirAnswers == Associates \/ JoinFails \/ GetsAddress

-----------------------------------------------------------------------------
(* app_wifi_start at boot, in main; a call that fails ends in abort(), which is
   Restart, except the load of the credentials, whose error is logged. *)

Start ==
    /\ ~started
    /\ started' = TRUE
    /\ \/ Loadable(nvs) /\ config' = nvs
       \/ UNCHANGED config
    /\ Post("STA_START")
    /\ UNCHANGED <<credentials, sta_status, retry_count, httpd, event, counted, link,
                   refused, announced, promised>>

-----------------------------------------------------------------------------
(* wifi_event_handler, in the event task. *)

Takes(e) ==
    /\ event = "idle"
    /\ events # << >>
    /\ Head(events) = e
    /\ events' = Tail(events)

HandlesStart ==
    /\ Takes("STA_START")
    /\ IF config.ssid # NoValue
       THEN \/ Connects /\ refused' = FALSE
            \/ ConnectFails /\ refused' = (link = "idle")
       ELSE UNCHANGED <<link, refused>>
    /\ UNCHANGED <<credentials, station, httpd, event, counted, announced, promised>>

\* Mutant: one retry too many.
HandlesDisconnectOnceMore ==
    /\ Takes("STA_DISCONNECTED")
    /\ event' = IF retry_count <= sta_max_retry THEN "retrying" ELSE "failing"
    /\ UNCHANGED <<credentials, station, httpd, counted, link, refused, announced, promised>>

HandlesDisconnect ==
    /\ Takes("STA_DISCONNECTED")
    /\ event' = IF retry_count < sta_max_retry THEN "retrying" ELSE "failing"
    /\ UNCHANGED <<credentials, station, httpd, counted, link, refused, announced, promised>>

\* The result of esp_wifi_connect is not looked at.
Retries ==
    /\ event = "retrying"
    /\ \/ Connects /\ refused' = FALSE
       \/ ConnectFails /\ refused' = (link = "idle")
    /\ event' = "reading"
    /\ UNCHANGED <<credentials, station, httpd, counted, events, announced, promised>>

ReadsCounter ==
    /\ event = "reading"
    /\ counted' = retry_count
    /\ event' = "counting"
    /\ UNCHANGED <<credentials, station, httpd, driver, announced, promised>>

\* Mutant: retries are not counted.
WritesSameCounter ==
    /\ event = "counting"
    /\ retry_count' = counted
    /\ event' = "CONNECTING"
    /\ UNCHANGED <<credentials, started, config, sta_status, httpd, counted, driver,
                   announced, promised>>

\* sta_status keeps its value while the station retries.
WritesCounter ==
    /\ event = "counting"
    /\ retry_count' = counted + 1
    /\ event' = "CONNECTING"
    /\ UNCHANGED <<credentials, started, config, sta_status, httpd, counted, driver,
                   announced, promised>>

\* Mutant: the failure is announced and not recorded.
GivesUpQuietly ==
    /\ event = "failing"
    /\ event' = "FAILED"
    /\ UNCHANGED <<credentials, station, httpd, counted, driver, announced, promised>>

GivesUp ==
    /\ event = "failing"
    /\ sta_status' = "FAILED"
    /\ event' = "FAILED"
    /\ UNCHANGED <<credentials, started, config, retry_count, httpd, counted, driver,
                   announced, promised>>

HandlesAddress ==
    /\ Takes("STA_GOT_IP")
    /\ retry_count' = 0
    /\ event' = "reporting"
    /\ UNCHANGED <<credentials, started, config, sta_status, httpd, counted, link, refused,
                   announced, promised>>

Reports ==
    /\ event = "reporting"
    /\ sta_status' = "CONNECTED"
    /\ event' = "CONNECTED"
    /\ UNCHANGED <<credentials, started, config, retry_count, httpd, counted, driver,
                   announced, promised>>

\* notify_status_change; main's callback only logs.
Notifies ==
    /\ event \in Status
    /\ announced' = event
    /\ event' = "idle"
    /\ UNCHANGED <<credentials, station, httpd, counted, driver, promised>>

EventStep ==
    \/ HandlesStart \/ HandlesDisconnect \/ HandlesAddress
    \/ Retries \/ ReadsCounter \/ WritesCounter \/ GivesUp \/ Reports \/ Notifies

-----------------------------------------------------------------------------
(* http_server_wifi_connect_handler and app_wifi_connect_sta, in the HTTP task. *)

\* A request without a body or an SSID is answered and changes nothing.
Request(pair) ==
    /\ started
    /\ httpd = "idle"
    /\ saving' = pair
    /\ save' = "open"
    /\ httpd' = "saving"
    /\ promised' = Nothing
    /\ UNCHANGED <<nvs, flash, station, event, counted, driver, announced>>

Saves ==
    /\ SaveStep
    /\ UNCHANGED <<station, httpd, event, counted, driver, announced, promised>>

\* The response says that saving failed; connect_sta is not called.
SaveFails ==
    /\ httpd = "saving"
    /\ save = "failed"
    /\ save' = "none"
    /\ saving' = Nothing
    /\ httpd' = "idle"
    /\ UNCHANGED <<nvs, flash, station, event, counted, driver, announced, promised>>

\* validate_sta_config; the handler's buffers have already cut the rest to size.
Valid(pair) == pair.ssid \notin LongSsids

\* connect_sta up to its first driver call. If it turns the SSID down, the handler
\* goes on to answer.
EntersConnect ==
    /\ httpd = "saving"
    /\ save = "saved"
    /\ save' = "none"
    /\ IF Valid(saving)
       THEN httpd' = "disconnecting" /\ retry_count' = 0 /\ config' = saving
       ELSE httpd' = "answering" /\ UNCHANGED <<retry_count, config>>
    /\ UNCHANGED <<nvs, flash, saving, started, sta_status, event, counted, driver,
                   announced, promised>>

\* esp_wifi_disconnect: ends a join or a link, whose event the handler will see.
Disconnects ==
    /\ httpd = "disconnecting"
    /\ httpd' = "configuring"
    /\ IF link = "idle" THEN UNCHANGED <<link, events>>
                        ELSE link' = "idle" /\ Post("STA_DISCONNECTED")
    /\ UNCHANGED <<credentials, station, event, counted, refused, announced, promised>>

\* esp_wifi_set_config is refused while the handler's retry has the station joining
\* again, and connect_sta returns.
Configures ==
    /\ httpd = "configuring"
    /\ \/ link = "idle" /\ httpd' = "connecting"
       \/ httpd' = "answering"
    /\ UNCHANGED <<credentials, station, event, counted, driver, announced, promised>>

BeginsToConnect ==
    /\ httpd = "connecting"
    /\ \/ Connects /\ refused' = FALSE /\ httpd' = "marking"
       \/ ConnectFails /\ UNCHANGED refused /\ httpd' = "answering"
    /\ UNCHANGED <<credentials, station, event, counted, events, announced, promised>>

MarksConnecting ==
    /\ httpd = "marking"
    /\ sta_status' = "CONNECTING"
    /\ httpd' = "telling"
    /\ UNCHANGED <<credentials, started, config, retry_count, event, counted, driver,
                   announced, promised>>

TellsConnecting ==
    /\ httpd = "telling"
    /\ announced' = "CONNECTING"
    /\ save' = "open"
    /\ httpd' = "resaving"
    /\ UNCHANGED <<nvs, flash, saving, station, event, counted, driver, promised>>

\* Mutant: waits for a save that succeeds.
ResaveSucceeds ==
    /\ httpd = "resaving"
    /\ save = "saved"
    /\ save' = "none"
    /\ httpd' = "answering"
    /\ UNCHANGED <<nvs, flash, saving, station, event, counted, driver, announced, promised>>

\* Its result is ignored.
ResaveReturns ==
    /\ httpd = "resaving"
    /\ save \in {"saved", "failed"}
    /\ save' = "none"
    /\ httpd' = "answering"
    /\ UNCHANGED <<nvs, flash, saving, station, event, counted, driver, announced, promised>>

AnswersSaved ==
    /\ httpd = "answering"
    /\ promised' = saving
    /\ saving' = Nothing
    /\ httpd' = "idle"
    /\ UNCHANGED <<nvs, flash, save, station, event, counted, driver, announced>>

ConnectStep ==
    \/ Saves \/ SaveFails \/ EntersConnect \/ Disconnects \/ Configures \/ BeginsToConnect
    \/ MarksConnecting \/ TellsConnecting \/ ResaveReturns \/ AnswersSaved

-----------------------------------------------------------------------------

\* The statics are back at their first values; app_wifi_init fills the rest in.
Restart ==
    /\ CredentialsRestart
    /\ started' = FALSE
    /\ config' = Nothing
    /\ sta_status' = "DISCONNECTED"
    /\ retry_count' = 0
    /\ httpd' = "idle"
    /\ event' = "idle"
    /\ counted' = 0
    /\ link' = "idle"
    /\ events' = << >>
    /\ refused' = FALSE
    /\ announced' = "DISCONNECTED"
    /\ \/ NvsMounts /\ UNCHANGED promised
       \/ NvsIsErased /\ promised' = Nothing

Asks == \E pair \in Pair : Request(pair)

Next == Start \/ EventStep \/ ConnectStep \/ AirAnswers \/ Asks \/ LosesLink \/ Restart

\* The tasks run, and the router or its absence answers a join.
Fairness ==
    /\ WF_vars(Start)
    /\ WF_vars(EventStep)
    /\ WF_vars(ConnectStep)
    /\ WF_vars(AirAnswers)

Spec == Init /\ [][Next]_vars /\ Fairness

-----------------------------------------------------------------------------

\* Nothing is on its way: no request, no event, no join.
Quiet ==
    /\ httpd = "idle"
    /\ event = "idle"
    /\ events = << >>
    /\ link \in {"idle", "up"}

\* app_wifi_get_current_sta_ssid and app_wifi_get_rssi answer as if connected.
SaysConnected == started /\ sta_status = "CONNECTED"

\* The event task writes the status without the mutex that connect_sta holds, a
\* retry leaves a stale CONNECTED behind, and a request may overtake the events of
\* the attempt it ends.  Once nothing is on its way all this is made good: the
\* status says CONNECTED exactly when the link is up, no attempt is still said to
\* be in progress, and the callback was last told so.  The exception is a retry the
\* driver refused, whose error the handler ignores.
QuietMeansAgreed ==
    (Quiet /\ ~refused) =>
        /\ SaysConnected <=> link = "up"
        /\ sta_status # "CONNECTING"
        /\ announced = sta_status

\* A pair answered with "pswd_saved":"ok" is what every later restart finds, until
\* the next request: however the second save of the same request fails, whenever
\* the power goes, and whatever became of the connection.  The exception is a boot
\* at which nvs_storage_init erases NVS: it loses the pair.  The pair in RAM is the
\* same one wherever app_wifi can hold it, or none if the boot could not read it.
PromiseKept ==
    promised # Nothing =>
        /\ flash = promised
        /\ nvs = promised
        /\ started /\ httpd = "idle" /\ Loadable(promised) =>
               config \in {promised, Nothing}

\* Nobody waits for ever: as long as anything is on its way, the task or the driver
\* that has to see to it can take a step, after every failure and refusal; a request
\* whose disconnect finds the event queue full waits for the event task, which can.
NobodyStuck ==
    /\ ~started => ENABLED <<Start>>_vars
    /\ event # "idle" \/ events # << >> => ENABLED <<EventStep>>_vars
    /\ httpd # "idle" /\ events = << >> => ENABLED <<ConnectStep>>_vars
    /\ link \in {"joining", "joined"} /\ httpd = "idle" /\ events = << >> =>
           ENABLED <<AirAnswers>>_vars

\* Retries come to an end: when there are no more requests, losses and restarts,
\* the station ends up connected or gives up, and the status with it.
StatusSettles ==
    <>[][~Asks /\ ~LosesLink /\ ~Restart]_vars => <>[]Quiet

-----------------------------------------------------------------------------
(* What is left to do, by rank: a step may add to what ranks below it. *)

HttpLeft == [idle |-> 0, answering |-> 1, resaving |-> 2, telling |-> 3, marking |-> 4,
             connecting |-> 5, configuring |-> 6, disconnecting |-> 7, saving |-> 8]
SaveLeft == [none |-> 0, saved |-> 0, failed |-> 0, commit |-> 1, pswd |-> 2, ssid |-> 3,
             open |-> 4]
EventLeft == [idle |-> 0, CONNECTING |-> 1, FAILED |-> 1, CONNECTED |-> 1, failing |-> 2,
              reporting |-> 2, counting |-> 3, reading |-> 4, retrying |-> 5]
LinkLeft == [up |-> 0, idle |-> 0, joined |-> 7, joining |-> 8]

\* Boot and the request, whose steps end a link and set the counter back.
RequestLeft == 5 * HttpLeft[httpd] + SaveLeft[save] + (IF started THEN 0 ELSE 1)

AddressLeft == IF link = "up" THEN 0 ELSE 1

\* An address sets the counter back too, and a start connects without counting.
UncountedLeft == Cardinality({i \in 1 .. Len(events) : events[i] # "STA_DISCONNECTED"})

\* A retry is spent when the station is told to connect, before it is counted.
RetriesLeft == sta_max_retry - retry_count - (IF event \in {"reading", "counting"} THEN 1 ELSE 0)

EventsLeft == 6 * Len(events) + EventLeft[event] + LinkLeft[link]

Left == <<RequestLeft, AddressLeft, UncountedLeft, RetriesLeft, EventsLeft>>

Precedes(a, b) ==
    \E i \in 1 .. 5 : /\ a[i] \in Nat /\ a[i] < b[i]
                     /\ \A j \in 1 .. i - 1 : a[j] = b[j]

\* Retrying cannot go on for ever: whatever the request, the event handler and the
\* driver do, in whatever order and with whatever interference on the counter, leaves
\* less to do than before.  Only a new request, a lost link and a restart add work.
WorkRunsOut == [][Asks \/ LosesLink \/ Restart \/ Precedes(Left', Left)]_vars
=============================================================================
