# Formal models of the captive portal firmware

The firmware turns an ESP32 into a captive portal: a Wi-Fi access point, a DNS
server that answers every name with the portal, and a web server for connecting
the device to a router, managing RFID access cards, reading a sensor and
updating the firmware. This directory holds TLA+ models of it, the TLC
configurations that check them on small instances, and TLAPS proofs of the
results that matter most, for every value of the constants.

## The system

| part | state it keeps | operations | who calls it |
|---|---|---|---|
| `rfid_manager` | card array, SPIFFS file, mutex, dirty flag, one-shot timer, ready flag | init, process, add, remove, check, get, count, list, format, deinit | main (init, process), HTTP task (the rest), esp_timer task (timeout) |
| main loop, `main/main.c` | none | boot order; then forever: `app_local_server_process`, `rfid_manager_process`, wait 1 s | - |
| `app_local_server`, update and monitor | monitor queue of 3, update status, reset timer, the other app partition, otadata | OTA upload, status, monitor, reset callback | HTTP task (upload), main (monitor), esp_timer (reset) |
| `app_local_server`, handlers | one response buffer for the sensor and card lists | pages, sensor data, SSIDs, connect, cards | HTTP task, one request at a time |
| `app_time_sync` | status, mutex, sync task, callback | init, start; SNTP callback, sync task | main; TCP/IP task; its own task |
| `aws_iot` | handle of its task | start; the MQTT session | whoever announces that the time is known |
| `app_wifi` | status, retry counter, SSID and password, mutex | init, start, set AP, connect, getters; driver events | main, HTTP task; event task |
| `nvs_storage` | SSID and password in two keys, restart counter | init, save, load | main, HTTP task, Wi-Fi |
| `dht22_sensor` | temperature and humidity, written together under a spinlock | sensor task; one getter for each | HTTP and AWS tasks |
| `main/dns_server.c` | its socket | open, receive, parse, answer, close | its own task |
| `webpage/rfid_management.js` | the table of cards, in a browser | list, add, remove, reset, a timer | the user; HTTP requests to the handlers |
| `spi_ffs_storage`, `custom_partition`, `rgb_led` | none of their own | wrappers over files, a data partition, PWM | - |

They interact through direct calls (HTTP task into `rfid_manager`, under its
mutex), one queue (HTTP task to main), two esp_timer callbacks, the callbacks of
`app_wifi` and `app_time_sync` into `main.c`, and globals without a lock (ready
flag, time and Wi-Fi status, retry counter, AWS handle). Everything that talks to
the network shares lwIP's table of 16 sockets. The chip has two cores.

What is hard, and what each part has to get right:

- **Cards.** Writes are deferred by a timer and done by another task, a save is
  not atomic, and every failure has to leave something behind that tries again.
  A removed card must stay removed, no id may be in two slots, a clean array is a
  durable one, a dirty one is always saved, a restart comes back with a set that
  some save completed with or with the factory set.
- **Update.** The result crosses two tasks, a queue, a timer and a restart. The
  restart must start the image that was uploaded, and must come.
- **Main loop.** It waits without limit for a message before it gets to the card
  write.
- **Time.** Three tasks write and announce one status without a common lock. AWS
  IoT must not start before the clock is right, must start after, and once.
- **Wi-Fi.** Driver events arrive without the mutex while a connect request is in
  the middle of its steps. Retries are bounded, and no attempt may hang.
  When nothing is under way the status must say what the link is.
- **Credentials.** Two keys, one commit, saved before the connection is tried and
  again after it. What was confirmed must be there after a restart at any point,
  unless its boot has to erase NVS.
- **Card page.** A stale shared buffer, ids that pass through a signed number, and
  replies that are lost or overtake each other. A confirmed card must open, and the
  page must show the truth in the end.
- **DNS.** Every error of a socket call has to leave the task able to go on, with
  no socket left open and none closed that belongs to another task.

`PROJECT.json` lists these as hazards with the line where each bites and the
properties that cover it, or why none does.

## Modules

    RfidStore            what the card manager promises
    RfidManager          the card manager, implements RfidStore
      MCRfidManager      its instances for TLC
      RfidManagerProofs  its theorems
    OtaSlot              what the firmware update promises
    FirmwareUpdate       upload, monitor queue, status, reset, boot loader;
                         implements OtaSlot
      FirmwareUpdateProofs
    Portal               RfidManager and FirmwareUpdate, scheduled by the tasks
      MCPortal           of the firmware: main loop, HTTP task, timers
      PortalProofs
    TimeSync             time synchronisation and the start of AWS IoT
      TimeSyncProofs
    Credentials          the two NVS keys and the calls of a save
    AppWifi              the station: connect requests, driver events, retries;
      AppWifiProofs      extends Credentials
    CardRequests         card page and card handlers, on RfidStore
      CardRequestsProofs
    DnsServer            the DNS task, its parser and its socket
      MCDnsServer        queries for TLC
      DnsServerProofs
    Descent              why what only falls comes to rest, for the liveness proofs

**RfidManager.** One variable for each static of `rfid_manager.c`, with the
source's name, plus the file, where main is, how far a save is, and one history
variable. An operation that touches only RAM is one action, enabled when the
mutex is free; `save_to_file` is split at fopen, fwrite and fclose, each of which
may fail, and holds the mutex throughout. `rfid_manager_process` is split where it
takes and gives the mutex: `Process`, `ProcessSaves`, `ProcessFindsClean`,
`ProcessTimeout`, and `ProcessClears`, the write to the unlocked flag. Callers in
the HTTP task whose wait times out change nothing and are stuttering steps. Card
names are left out: nothing decides on them. The array search loops are
quantifiers over slots (`FirstReusable`, `FirstAuthorizing`). `Reboot` may strike
anywhere. `TimerOutlastsMain` says that main needs less than the five seconds of
the timer to get from giving back the mutex to clearing the flag, two statements
later; without it a wake-up could be lost, and `NoLostWakeup` is stated under it.
`MarkDirty` assumes that `esp_timer_start_once` succeeds on a timer that exists and has
just been stopped. If it failed nevertheless the array would stay dirty with no timer
armed, since rfid_manager.c:253 and :307 only log the error.

**RfidStore.** Two sets: the cards accepted now, and those a restart would load.
`authorized` maps to the active ids of the array (of what init will load, during
boot), `durable` to the active ids of the file's image, or the factory set if
there is none.

**FirmwareUpdate.** The handler in four phases, the upload as a number of chunks
still to come and whether they make a valid image, the partition that is not
running as bootable or not. What `esp_ota_end` accepts and what the boot loader
does with a bad partition are external. `PatientClient` is the assumption that
nobody uploads again in the eight seconds between a success and the restart; a
second upload then erases the partition that has just been selected.

**OtaSlot.** The update without its mechanism: the partition that is not running,
whether the next boot starts it, and whether a restart is due. It may be erased,
filled or installed as long as no restart is due; a restart may only be promised
with a whole, selected image; only a restart takes the promise back, and it boots
that image. `restart_due` maps to `SuccessPending`: a success message is in the queue or
the reset timer runs.

**Portal.** `EXTENDS RfidManager` and instantiates FirmwareUpdate; it adds where
app_main is and which task may take which action when: one request handler at a
time, main blocked on the empty queue, cards and uploads only once the server
runs, a restart for everyone at once.

**TimeSync.** The status, where each of the three tasks (main, TCP/IP, sync) is
between its accesses to it, the wait counter, SNTP's semaphore, whether the clock
is right, and the AWS task. Writing the status, calling the callback, and, inside
it, looking at the AWS handle and creating the task are separate steps, because
nothing keeps the tasks apart there. A task on its way to the callback is at the
status it is about to announce. The component's mutex is taken only by
`start`. SNTP answers are external.

**Credentials.** What the keys read now (`nvs`) and after a power loss (`flash`). Every
restart ends in `nvs_storage_init`, the first call of app_main: either NVS comes up with
what the flash holds (`NvsMounts`), or `nvs_flash_init` finds no free page or another
version and all of NVS is erased (`NvsIsErased`). The erasure is one step: that
the power may go in the middle of it and leave one of the keys is not modelled.
A save is four NVS calls, each of which may fail; a key may reach the flash when it
is set or at the commit, and a call that reports an error may have had its effect.
SSIDs of 32 to 63 characters fit the request but not `app_wifi`'s buffers: they are
saved, confirmed, turned down by `validate_sta_config`, and not loaded at boot.

**AppWifi.** An action is what lies between two accesses to what the tasks share.
The HTTP task goes through the handler's save, `connect_sta` call by call, its
second save and the answer; it holds the mutex meanwhile, but nobody contends for
it. The event task handles one event at a time, without the mutex: the connect, the
read and the write of `retry_count++`, the status and the callback are separate
steps. Of the driver the model keeps the station's link, the events it posts, and
that a connect or a configuration can be refused. `InDriverCalls` says that the air
does not answer in the few instructions between `esp_wifi_disconnect` and the
write of CONNECTING; the event task may run there. Boot is one action, `Start`:
main runs it before the HTTP server exists, and its errors abort, which is
`Restart`, except that of the load: if NVS cannot be read, keys or no keys, the station
starts without credentials. `promised` is what the last answer confirmed; a request makes
it void, and so does a boot that erases NVS.

**CardRequests.** Page and handlers over `RfidStore` (`INSTANCE ... WITH Ids <-
CardIds`), which RfidManager is proved to implement. A connection carries a
request, then its reply; several are open at a time, so replies overtake each
other, and `Loses` breaks one before or after its handler. `ListsWhileBusy` is the
list handler when the manager's mutex is not to be had within 500 ms: it sends the
buffer as it finds it. `CardId` is cJSON's `valueint`; removal takes the number as
typed. Why the manager refuses something is left open (`Refuses`): it may do so at
any time. A list of 200 cards fits the 16 KB buffer, so its "Buffer too small"
cannot happen. Card names and the counter beside the table are left out.

**DnsServer.** The task's steps around its socket, the table of sockets with who
uses each (`owner`) and which ones the other tasks believe to be theirs (`held`),
and resolvers that ask until they have an answer. Of a query the model keeps what
the parser's result depends on: question types, the bits its mask really tests,
bytes after the questions, whether the name fits, and the length. `opcode` is there
because the code means to test it, and nothing does.

`map` in `PROJECT.json` ties each definition to its lines.

### Mutants

Some modules hold operators whose comment begins with "Mutant:". None of them is
used by a specification. Each is what the definition after it would be with a
plausible bug, and with the mutant in place a property of a run fails: it shows
that the property depends on that line of the code. `PROJECT.json` lists the
pairs under `mutants`.

## Runs

| run | module, cfg | bounds | result |
|---|---|---|---|
| `rfid_safety` | MCRfidManager | 2 slots, 3 ids, 1 factory card, 2 clock readings, deinit, 232302 states | TypeOK, UniqueIds, LookupsAgree, CleanMeansDurable, NoLostWakeup, StoreSpec hold |
| `rfid_live` | MCRfidManager, MCRfidManagerLive.cfg | the same with 1 clock reading and no restart, 15211 states | WriteNeverStuck, ChangesReachFile hold |
| `firmware_update` | FirmwareUpdate | queue 3, uploads of up to 3 chunks, 744 states | TypeOK, RestartRunsNewImage, SelectedMeansPromised, SlotSpec hold |
| `firmware_retry` | FirmwareUpdate, FirmwareUpdateRetry.cfg | the same | RetriesAfterTimeout is violated |
| `portal_update` | MCPortal | 1 slot, 2 ids, uploads of 1 chunk, 127462 states | UpdateNeverStuck, AppliedUpdateBoots hold |
| `portal_persist` | MCPortal, MCPortalPersist.cfg | the same | CardChangesPersist is violated |
| `time_sync` | TimeSync | 3 waits instead of 15, 1991 states | TypeOK, AwsNeedsTime, RestMeansStarted, TasksNeverStuck, SyncTaskEnds, TimeStartsAws hold |
| `time_status` | TimeSync, TimeSyncStatus.cfg | the same | AnnouncesCurrentStatus is violated |
| `aws_once` | TimeSync, TimeSyncAws.cfg | the same | OneAwsTask is violated |
| `wifi_link` | AppWifi | an SSID that fits and one that does not, 2 passwords, 2 retries instead of 5, 2 waiting events, 845577 states | TypeOK, QuietMeansAgreed, PromiseKept, NobodyStuck, StatusSettles, WorkRunsOut hold |
| `dns_lookups` | MCDnsServer | 4 queries, 3 sockets, 2 waiting datagrams, 72520 states | TypeOK, NoSocketLeak, OwnersAgree, ServerNeverStuck, LookupsAnswered hold |
| `card_page` | CardRequests | numbers 0 to 3 with INT_MAX 2, 1 factory card, 2 connections, 509912 states | TypeOK, AddedIsAuthorized, PageNeverStuck, PageCatchesUp hold |

Why these bounds: two slots and three ids, of which one is a factory card, make
the array fill up, a removed card block its id until its slot is reused, the slot
be reused by another id, and the first id come back in the other slot. Saves hold
the whole array, so more slots add no new interleaving. Three chunks give an
upload a first, a middle and a last chunk for every failure. The queue keeps its
length of 3, which failed uploads fill while main is slow. Three waits give a first, a middle and a last one. Two retries are one that
is not the last and one that is, two events are an attempt's end and the start of
the next; two passwords make a mixed pair visible. Three sockets are the task's, one
that another task gets when the task closes it, and one more for the task to open.
Numbers up to 3 with an INT_MAX of 2 have 0, two cards and a number that
saturates; two connections let one reply overtake another. Only
`TimeSync` may stop: main leaves `app_time_sync_start` for its loop and the
sync task deletes itself, so its cfgs switch the deadlock check off.

The four violations are disagreements between the code and its own comments:

- `firmware_retry`: `continue` in a `do ... while` loop re-evaluates the loop's
  condition, so a receive timeout ends the upload instead of retrying
  (app_local_server.c:515).
- `portal_persist`: main waits for an update message with no limit, and nothing
  else is ever sent, so the deferred card write is never run
  (app_local_server.c:224). In RfidManager alone, where process is called again
  and again, ChangesReachFile holds: the fault is in the composition.
- `time_status`: a task announces a status that another task has already
  overwritten (app_time_sync.c:147).
- `aws_once`: two tasks announce the same answer and both find no AWS task
  (aws_iot.c:225).

Some disagreements have no run of their own, because the properties that hold are
stated around them, each with its condition in sight:

- Ids above INT_MAX: the page invites "a number between 0 and 4294967295"
  (rfid_management.js:84), and any above 2147483647 authorizes card 2147483647
  instead. AddedIsAuthorized stops at INT_MAX.
- "replies to all type A queries" (dns_server.c:164): not to those with AD or CD
  set, since the mask is applied in network byte order, nor usefully to those with
  EDNS. LookupsAnswered is about `AnswersPortal` only.
- A receive error makes the DNS task close its socket's number twice
  (dns_server.c:205 and :239); in between another task may have got it. OwnersAgree holds until
  then; NoSocketLeak holds even after.
- A retry the driver refuses is not noticed (app_wifi.c:640), and the status stays.
  QuietMeansAgreed excepts `refused`.
- A pair confirmed with "pswd_saved":"ok" is lost when a boot erases NVS
  (nvs_storage.c:19-23). PromiseKept ends the promise there.
- A format whose save fails leaves RAM and file different with nothing to try again
  (rfid_manager.c:479). CleanMeansDurable excepts `format_failed`.

### Fairness

The safety runs assume none. `PoweredSpec` (cards) has no restart. Weak fairness on the timer
(`TimerFires`) and on main's steps (`MainRuns`) is FreeRTOS's scheduling of ready
tasks; strong fairness (`SavesSucceed`) on `ProcessSaves` says that a main task
that tries for the mutex again and again gets it, and on the three steps of its
own save (`MainOpens`, `MainWrites`, `MainCloses`) that a file system operation
tried again and again succeeds in the end. Without the second no code could promise durability.
`ChangesReachFile` assumes further that main's one-second waits stop timing out,
since a client that formats forever can starve it.
`PortalFairness` is the same with the tasks of the firmware: main and timers run,
and an upload that has begun ends. Nothing forces anyone to start an upload.
`TimeSync` assumes only that its three tasks run; nothing is assumed of the
network, and `TimeStartsAws` is conditional on the clock getting right. `SyncTaskEnds`
needs no answer: the wait for one returns after SYNC_CHECK_INTERVAL_MS.
`AppWifi` assumes that boot, the event task and the HTTP task run, and that a join is
answered: associated, failed, or given an address (the driver and DHCP have
timeouts of their own). `StatusSettles` is for behaviours in which requests, losses and
restarts end. `DnsServer` assumes that the task runs and that a resolver that sends
again and again gets a datagram through; `LookupsAnswered` is for behaviours in
which errors end. `CardRequests` assumes that the HTTP task runs, that replies
arrive and that the page's 30-second timer goes off; `PageCatchesUp` is for
behaviours in which cards are no longer changed and connections no longer break.

## Proofs

All for every value of the constants, from the constants' assumptions: at least
one slot, id 0 not a card id, distinct factory cards, time 0 a possible stamp,
queues of at least one, uploads of at least one chunk, at least one wait, at least
one retry, a value for unset keys and a number for no socket that are none, finitely
many sockets, at least one connection and finitely many of them.

- `RfidManagerProofs`: `TypeCorrect`, `UniqueIdsAlways`, `CleanMeansDurableAlways`,
  `NoLostWakeupAlways`, `LookupsAgreeAlways` and `ImplementsStore`. The inductive
  invariant `IInv` adds `Control` to TypeOK, UniqueIds, CleanMeansDurable and
  NoLostWakeup: a save runs exactly while someone holds the mutex, main holds it
  exactly while it saves, what main saves at boot is the factory set and in the
  loop is dirty, and main leaves idle only with the flag set. Without it a save
  that ends could belong to nobody, or the flag be cleared with no save behind it,
  and neither CleanMeansDurable nor NoLostWakeup would be preserved.
  `LookupsAgree` follows from type and unique ids, through a bijection between
  listed slots and authorized ids. The refinement is proved step by step: every
  action maps to one action of RfidStore or to a stutter, under `IInv`.
- `ChangesReachFileFairly`, in the same module, proves the liveness property from its
  fairness, without restarts and deinit (`Firmware`, the setting of `rfid_live`).
  A dirty array sends main round and round from idle to waiting to saving, one lemma
  for each way on; were it dirty for ever (`StaysDirty`, the assumption that is
  contradicted), main would save infinitely often, each save would be one that
  fails, and strong fairness on its three steps allows only finitely many of those.
  Its hypothesis `[]WriteNeverStuck`, that the steps fairness is about can be taken
  where the argument needs them, is an invariant of `rfid_live`.
- `FirmwareUpdateProofs`: `TypeCorrect`, `RestartRunsNewImageAlways`,
  `SelectedMeansPromisedAlways` and `ImplementsSlot`. `SelectedMeansPromised` is the
  converse of RestartRunsNewImage: the result of an upload that has selected its
  image is in the handler, the queue or the timer; it is inductive once the invariant
  of the other two is there. `Phases` adds
  that a patient client leaves the handler idle while a success is pending, and
  that a handler that has not reached `esp_ota_end` has nothing to report. Under this
  invariant every step is a step of OtaSlot or a stutter: a chunk erases or does
  nothing, `esp_ota_end` fills or installs, a success message promises, and the
  monitor only moves the promise from the queue to the timer.
- `PortalProofs`: `PortalImplementsManager` and `PortalImplementsUpdate`: every step
  of the program is a step or a stutter of each component's specification. From
  these follow, for the whole program, both abstract specifications
  (`PortalImplementsStore`, `PortalImplementsSlot`) and the safety of both components
  (`PortalCardsSafe`, `PortalUpdateSafe`).
- `AppliedUpdateBootsFairly`, in the same module, for a patient client. While an image stays
  selected its result is in the handler, the queue or the timer
  (SelectedMeansPromised). `UpdateLeft` counts the messages before it in the queue,
  eight for each, and the steps main has left in its round; every step of main and of the
  reporting handler makes it smaller, so it comes to rest, and at rest only the
  timer is left, which fires. `PoweredInv` says where in its round main may be with
  what the card manager has it doing.
- `TimeSyncProofs`: `TypeCorrect`, with the bound on the waits,
  `AwsNeedsTimeAlways`, `RestMeansStartedAlways`, `TimeStartsAwsFairly` and
  `SyncTaskEndsFairly`. `Waits` ties
  the wait counter to where main
  and the sync task are, and `Knows` says who may be about to announce COMPLETED
  and why the clock is right at that point. `Owed` says who still has to announce it:
  once the status is COMPLETED some task is on its way to AWS's creation or has been
  there, and once the clock is right some task is about to find out. From this
  and the fairness of the tasks the liveness proof follows each of them to the
  end. `SyncLeft` counts what the sync task has left, its waits and the steps after
  them; each of its steps lowers it and nobody else's raises it, so it comes to rest,
  and the task with it. The hypothesis of both, `[]TasksNeverStuck`, that a task between its
  first and its last statement can take a step, is an invariant of `time_sync`.
- `AppWifiProofs`: `TypeCorrect`, `PromiseKeptAlways` and `QuietMeansAgreedAlways`,
  each from an invariant of its own. `TypeInv` adds that a counter about to be
  incremented is below the maximum, although a request may set it to 0 between the
  read and the write (`Retrying`), and that a request under way has a pair
  (`Serving`). `PromiseInv` says how far a save has carried its arguments to the keys
  (`Written`), that RAM and keys hold the promised pair between requests (`Held`,
  `Between`), and that app_wifi has none before it starts. A restart keeps it, since
  `Held` says that the promised pair is on flash, or ends the promise with NVS. `StatusInv` says what is still owed when status and link differ: while
  the link is up, an address event, or a report, with no later event to undo it
  (`UpOwes`); while it is down, a disconnect event or the end of one's handling
  (`IdleOwes`); and that this survives every interleaving of a request with the
  events of the attempt it ends. `WorkRunsOutAlways` is why retrying ends. `Left` is five
  numbers, most significant first: what is left of boot and the request, whether
  an address is still to come, how many waiting events are no disconnects,
  the retries left, and what is left of the events and the link. Every step but a
  request, a loss and a restart makes one smaller and leaves those before it
  alone, for every number of retries and length of queue. `CountInv` (while the handler is between the
  read and the write of the counter it is at most what was read, although a request
  may reset it in between) keeps the write from giving a retry back; the lemmas on `Others` count
  the waiting events after one is posted or taken. `StatusSettlesFairly` goes on from
  there: once requests, losses and restarts have ended the five numbers come to rest one
  after the other (`WorkEnds`), the most significant first; then no step is taken any
  more, and whatever is not quiet would be a step that fairness forces.
- `DnsServerProofs`: `TypeCorrect`, `NoSocketLeakAlways` and `OwnersAgreeAlways`, each
  inductive together with the ones before it. `LookupsAnsweredFairly`: once errors have
  stopped and the other tasks open no more sockets they can take the task's socket
  away only as often as they hold one, so it keeps one in the end; the mailbox is emptied
  again and again, the query gets into it, and its `Place` goes down with every answer.
  The lemmas on `Place` say what taking the head and appending do to it.
- `CardRequestsProofs`: `TypeCorrect` and `AddedIsAuthorizedAlways`, inductive as they
  stand, over what RfidStore promises. A `CardId` that is 0 never reaches it.
  `PageCatchesUpFairly` follows the connections through three phases: the changes under
  way end and no new ones begin (`Unchanging`), so the authorized cards stay as they
  are; the lists older than that are taken (`Fresh`); then each connection carries one
  right list after the other to the page, and nothing else changes the table.
- `Descent`: `NeverRisingSettles`, from the well-foundedness of the natural numbers.

What the liveness theorems rest on, beyond the fairness of their specifications, is
in their hypotheses, of two kinds:

- `[]WriteNeverStuck`, `[]TasksNeverStuck`, `[]NobodyStuck`, `[]UpdateNeverStuck`,
  `[]ServerNeverStuck` and `[]PageNeverStuck`: that the steps fairness is about can be taken
  where the argument needs them. They are about ENABLED, which the provers know nothing
  of; each is an invariant of the run that checks the liveness property.
- Laws that hold of every behaviour but that the prover cannot state the proof of, for
  the measures and predicates the proofs use. `StopsFalling(m, v)`: a state function that
  is a natural number and never rises is constant from some time on.
  `NeverRisingSettles` proves it of sequences; a behaviour's values of m are such a
  sequence, but TLA+ has no function defined by a temporal formula to apply it to.
  `WorkEnds`, `QueuesEnd` and the hypothesis of `SyncTaskEndsFairly` name the measures it
  is needed for. `EndTogether`: what holds
  from some time on of each of finitely many connections holds from some time on of all.

Only model-checked: `WriteNeverStuck`, `TasksNeverStuck`, `NobodyStuck`,
`UpdateNeverStuck`, `ServerNeverStuck` and `PageNeverStuck`, for the reason above. Every
other property of a passing run is stated by a theorem.

The violations are counterexamples and need no proof.

## Plan

Done, in this order: 1 cards; 2 update and main loop; 3 time and AWS start; 4 the
Wi-Fi station with the credentials it loads and saves; 5 the card page, its handlers
and their shared buffer; 6 the DNS task; 7 the abstract update and the safety of the
whole program; 8 liveness proofs for cards and time, the descent of Wi-Fi; 9 liveness
proofs for Wi-Fi, the update in the whole program, DNS and the card page. Each
property of a passing run that is not about ENABLED is proved as well.

Left:

10. `AppWifi` in Portal: the connect handler among the other handlers of the HTTP task,
   and the Wi-Fi start before the server's in main's boot order.
11. A refusal with its reason in `CardRequests`, from RfidManager's array, and names as
   far as the list's quoting depends on them.
12. A component for the callers of `app_wifi_stop`, `app_time_sync_stop` and the like, once
   the firmware has any.

## Not modelled

Wi-Fi driver, lwIP, mbedTLS, the AWS SDK, SPIFFS and NVS are external and appear
only by their results. HTML, CSS and static pages, log texts, the LED, the custom
data partition and the unit tests hold no state a property could be about. Neither do the
request handlers that only read (card check and count, status, times), `app.js`, which
shows what they return, and the restart counter in NVS, which nothing reads. The
sensor's two values are written together; that a reader who calls both getters can
pair two measurements contradicts nothing in the repository.
`app_time_sync_stop`, `deinit`, `set_timezone` and `set_ntp_server` and
`rfid_manager_deinit`, and `app_wifi_stop`, `deinit`, `set_sta_config` and
`disconnect_sta`, are not called by the firmware; `rfid_manager_deinit` is in RfidManager
nevertheless, since the unit tests call it, and is switched on in `rfid_safety`.
