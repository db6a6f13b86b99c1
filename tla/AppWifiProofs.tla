---------------------------- MODULE AppWifiProofs ----------------------------
(***************************************************************************)
(* Proofs about AppWifi for every number of retries, events, SSIDs and     *)
(* passwords.                                                              *)
(***************************************************************************)
EXTENDS AppWifi, Descent, SequenceTheorems, FunctionTheorems, FiniteSetTheorems, TLAPS

LEMMA NothingType == Nothing \in StoredPair /\ Nothing \notin Pair /\ Pair \subseteq StoredPair
  BY NoValueAssumption DEF Nothing, StoredPair, Pair

-----------------------------------------------------------------------------
(* Types, with the bound on the retries. *)

\* The handler has seen the counter below the maximum, and a request only ever
\* sets it back.
Retrying ==
    /\ event \in {"retrying", "reading"} => retry_count < sta_max_retry
    /\ event = "counting" => counted < sta_max_retry

\* A request has its argument until it is answered.
Serving == httpd # "idle" => saving \in Pair

TypeInv == TypeOK /\ Retrying /\ Serving

LEMMA NoEvents == << >> \in Seq(Events)
  OBVIOUS

LEMMA InitTypeInv == Init => TypeInv
  <1> SUFFICES ASSUME Init PROVE TypeInv
    OBVIOUS
  <1>1. events \in Seq(Events)
    BY NoEvents DEF Init
  <1>2. /\ retry_count \in 0 .. sta_max_retry /\ counted \in 0 .. sta_max_retry
        /\ Retrying
    BY RetryAssumption DEF Init, Retrying
  <1>3. CredentialsType /\ config \in StoredPair /\ promised \in StoredPair
    BY NothingType DEF Init, CredentialsInit, CredentialsType, SaveSteps
  <1>4. /\ started \in BOOLEAN /\ refused \in BOOLEAN /\ sta_status \in Status
        /\ announced \in Status /\ httpd \in HttpSteps /\ event \in EventSteps
        /\ link \in Links /\ Serving
    BY DEF Init, Status, HttpSteps, EventSteps, Links, Serving
  <1>5. QED BY <1>1, <1>2, <1>3, <1>4 DEF TypeInv, TypeOK

LEMMA SaveType ==
    ASSUME CredentialsType, SaveStep
    PROVE  CredentialsType' /\ saving' = saving
  <1> USE DEF CredentialsType, SaveSteps
  <1>1. ASSUME NEW key \in {"ssid", "pswd"}, NEW next \in SaveSteps, SetKey(key, next)
        PROVE  CredentialsType' /\ saving' = saving
    <2>1. [nvs EXCEPT ![key] = saving[key]] \in StoredPair
      BY DEF StoredPair
    <2>2. [flash EXCEPT ![key] = saving[key]] \in StoredPair
      BY DEF StoredPair
    <2>3. QED BY <1>1, <2>1, <2>2 DEF SetKey
  <1>2. CASE SaveOpens \/ Commits
    BY <1>2 DEF SaveOpens, Commits
  <1>3. CASE SetsSsid \/ SetsPassword
    BY <1>1, <1>3 DEF SetsSsid, SetsPassword
  <1>4. QED BY <1>2, <1>3 DEF SaveStep

LEMMA EventsType ==
    ASSUME TypeOK, NEW e \in Events
    PROVE  /\ Post(e) => events' \in Seq(Events)
           /\ Takes(e) => events' \in Seq(Events)
  BY DEF TypeOK, Post, Takes

\* The driver changes its own state and keeps the types.
LEMMA DriverType ==
    ASSUME TypeInv, Associates \/ JoinFails \/ GetsAddress \/ LosesLink
    PROVE  TypeInv'
  <1>1. events' \in Seq(Events)
    BY EventsType DEF TypeInv, TypeOK, Associates, JoinFails, GetsAddress, LosesLink, Events
  <1>2. link' \in Links /\ refused' = refused /\ DriverUnchanged
    BY DEF TypeInv, TypeOK, Associates, JoinFails, GetsAddress, LosesLink, Links
  <1>3. QED
    BY <1>1, <1>2
    DEF TypeInv, TypeOK, Retrying, Serving, DriverUnchanged, credentials, station, CredentialsType

LEMMA HandlerType ==
    ASSUME TypeInv, EventStep
    PROVE  TypeInv'
  <1> USE RetryAssumption
      DEF TypeInv, TypeOK, Retrying, Serving, credentials, station, driver, CredentialsType,
          EventSteps, Status, Links, Connects, ConnectFails
  <1>1. CASE HandlesStart
    <2>1. events' \in Seq(Events)
      BY <1>1, EventsType DEF HandlesStart, Events
    <2>2. refused' \in BOOLEAN
      BY <1>1 DEF HandlesStart
    <2>3. link' \in Links
      BY <1>1 DEF HandlesStart
    <2>4. UNCHANGED <<credentials, station, httpd, event, counted, announced, promised>>
      BY <1>1 DEF HandlesStart
    <2>5. QED BY <2>1, <2>2, <2>3, <2>4
  <1>2. CASE HandlesDisconnect
    BY <1>2, EventsType DEF HandlesDisconnect, Events
  <1>3. CASE HandlesAddress
    <2>1. events' \in Seq(Events)
      BY <1>3, EventsType DEF HandlesAddress, Events
    <2>2. QED BY <1>3, <2>1 DEF HandlesAddress
  <1>4. CASE Retries
    BY <1>4 DEF Retries
  <1>5. CASE ReadsCounter
    BY <1>5 DEF ReadsCounter
  <1>6. CASE WritesCounter
    BY <1>6 DEF WritesCounter
  <1>7. CASE GivesUp
    BY <1>7 DEF GivesUp
  <1>8. CASE Reports
    BY <1>8 DEF Reports
  <1>9. CASE Notifies
    BY <1>9 DEF Notifies
  <1>10. QED
    BY <1>1, <1>2, <1>3, <1>4, <1>5, <1>6, <1>7, <1>8, <1>9 DEF EventStep

LEMMA ConnectType ==
    ASSUME TypeInv, ConnectStep
    PROVE  TypeInv'
  <1> USE RetryAssumption, NothingType
      DEF TypeInv, TypeOK, Retrying, Serving, credentials, station, driver, CredentialsType,
          HttpSteps, Status, Links, Connects, ConnectFails, SaveSteps
  <1>1. CASE Saves
    BY <1>1, SaveType DEF Saves
  <1>2. CASE SaveFails
    BY <1>2 DEF SaveFails
  <1>3. CASE EntersConnect
    BY <1>3 DEF EntersConnect, Valid
  <1>4. CASE Disconnects
    BY <1>4, EventsType DEF Disconnects, Events
  <1>5. CASE Configures
    BY <1>5 DEF Configures
  <1>6. CASE BeginsToConnect
    <2>1. refused' \in BOOLEAN
      BY <1>6 DEF BeginsToConnect
    <2>2. /\ link' \in Links /\ httpd' \in HttpSteps
          /\ UNCHANGED <<credentials, station, event, counted, events, announced, promised>>
      BY <1>6 DEF BeginsToConnect
    <2>3. saving' \in Pair
      BY <1>6, <2>2 DEF BeginsToConnect
    <2>4. QED BY <2>1, <2>2, <2>3
  <1>7. CASE MarksConnecting
    BY <1>7 DEF MarksConnecting
  <1>8. CASE TellsConnecting
    BY <1>8 DEF TellsConnecting
  <1>9. CASE ResaveReturns
    BY <1>9 DEF ResaveReturns
  <1>10. CASE AnswersSaved
    BY <1>10 DEF AnswersSaved
  <1>11. QED
    BY <1>1, <1>2, <1>3, <1>4, <1>5, <1>6, <1>7, <1>8, <1>9, <1>10 DEF ConnectStep

LEMMA TypeInductive == TypeInv /\ [Next]_vars => TypeInv'
  <1> SUFFICES ASSUME TypeInv, [Next]_vars PROVE TypeInv'
    OBVIOUS
  <1> USE RetryAssumption, NothingType
      DEF TypeInv, TypeOK, Retrying, Serving, CredentialsType
  <1>1. CASE Start
    BY <1>1, EventsType DEF Start, Events, credentials
  <1>2. CASE Asks
    BY <1>2 DEF Asks, Request, station, driver, SaveSteps, HttpSteps
  <1>3. CASE Restart
    <2>1. events' \in Seq(Events)
      BY <1>3, NoEvents DEF Restart
    <2>2. CredentialsType' /\ config' \in StoredPair /\ promised' \in StoredPair
      BY <1>3 DEF Restart, CredentialsRestart, NvsMounts, NvsIsErased, SaveSteps
    <2>3. retry_count' = 0 /\ counted' = 0 /\ event' = "idle" /\ httpd' = "idle"
      BY <1>3 DEF Restart
    <2>4. /\ started' \in BOOLEAN /\ refused' \in BOOLEAN /\ sta_status' \in Status
          /\ announced' \in Status /\ link' \in Links
      BY <1>3 DEF Restart, Status, Links
    <2>5. QED BY <2>1, <2>2, <2>3, <2>4 DEF HttpSteps, EventSteps
  <1>4. CASE UNCHANGED vars
    BY <1>4 DEF vars, credentials, station, driver
  <1>5. QED
    BY <1>1, <1>2, <1>3, <1>4, DriverType, HandlerType, ConnectType DEF Next, AirAnswers

\* Every variable keeps its type, and the retry counter its bound, although two
\* tasks write it without a lock.
THEOREM TypeCorrect == Spec => []TypeOK
  <1>1. TypeInv => TypeOK
    BY DEF TypeInv
  <1>2. QED BY <1>1, InitTypeInv, TypeInductive, PTL DEF Spec

-----------------------------------------------------------------------------
(* The saved credentials. *)

\* How much of its argument a save has written.
Written ==
    /\ save = "pswd" => nvs.ssid = saving.ssid
    /\ save = "commit" => nvs = saving
    /\ save = "saved" => nvs = saving /\ flash = saving

Saving == httpd \in {"saving", "resaving"}

\* After the first save of a request everything holds its argument, and the second
\* save writes nothing else.
Held ==
    /\ ~Saving => save = "none"
    /\ ~started => httpd = "idle" /\ config = Nothing
    /\ httpd \notin {"idle", "saving"} =>
        /\ nvs = saving
        /\ flash = saving
        /\ Loadable(saving) => config = saving

\* Only between two requests is there a promise.
Between == promised # Nothing => httpd = "idle"

PromiseInv == TypeInv /\ Written /\ Held /\ Between /\ PromiseKept

LEMMA InitPromiseInv == Init => PromiseInv
  BY InitTypeInv
  DEF Init, CredentialsInit, PromiseInv, Written, Held, Saving, Between, PromiseKept

\* The steps that leave the credentials and the connect request alone.
LEMMA PromiseElsewhere ==
    ASSUME PromiseInv, UNCHANGED <<credentials, started, config, httpd, promised>>
    PROVE  Written' /\ Held' /\ Between' /\ PromiseKept'
  BY DEF PromiseInv, credentials, Written, Held, Saving, Between, PromiseKept, Loadable

\* A pair that two of its keys agree with is that pair.
LEMMA SamePair ==
    ASSUME NEW p \in StoredPair, NEW q \in StoredPair
    PROVE  /\ p.ssid = q.ssid => [p EXCEPT !["pswd"] = q["pswd"]] = q
           /\ [p EXCEPT !["ssid"] = q["ssid"]].ssid = q.ssid
           /\ [q EXCEPT !["ssid"] = q["ssid"]] = q
           /\ [q EXCEPT !["pswd"] = q["pswd"]] = q
  BY DEF StoredPair

LEMMA SaveWrites ==
    ASSUME TypeInv, Written, SaveStep
    PROVE  /\ Written'
           /\ nvs = saving /\ flash = saving => nvs' = saving /\ flash' = saving
  <1> USE DEF TypeInv, TypeOK, CredentialsType, Written
  <1>1. CASE SaveOpens
    BY <1>1 DEF SaveOpens
  <1>2. CASE SetsSsid
    <2>1. /\ saving' = saving
          /\ nvs' \in {nvs, [nvs EXCEPT !["ssid"] = saving["ssid"]]}
          /\ flash' \in {flash, [flash EXCEPT !["ssid"] = saving["ssid"]]}
          /\ save' = "failed" \/ (save' = "pswd" /\ nvs' = [nvs EXCEPT !["ssid"] = saving["ssid"]])
      BY <1>2 DEF SetsSsid, SetKey
    <2>2. [nvs EXCEPT !["ssid"] = saving["ssid"]].ssid = saving.ssid
      BY SamePair
    <2>3. [saving EXCEPT !["ssid"] = saving["ssid"]] = saving
      BY SamePair
    <2>4. Written'
      BY <2>1, <2>2
    <2>5. nvs = saving /\ flash = saving => nvs' = saving /\ flash' = saving
      BY <2>1, <2>3
    <2>6. QED BY <2>4, <2>5
  <1>3. CASE SetsPassword
    <2>1. /\ saving' = saving /\ nvs.ssid = saving.ssid
          /\ nvs' \in {nvs, [nvs EXCEPT !["pswd"] = saving["pswd"]]}
          /\ flash' \in {flash, [flash EXCEPT !["pswd"] = saving["pswd"]]}
          /\ save' = "failed" \/ (save' = "commit" /\ nvs' = [nvs EXCEPT !["pswd"] = saving["pswd"]])
      BY <1>3 DEF SetsPassword, SetKey
    <2>2. [nvs EXCEPT !["pswd"] = saving["pswd"]] = saving
      BY <2>1, SamePair
    <2>3. [saving EXCEPT !["pswd"] = saving["pswd"]] = saving
      BY SamePair
    <2>4. Written'
      BY <2>1, <2>2
    <2>5. nvs = saving /\ flash = saving => nvs' = saving /\ flash' = saving
      BY <2>1, <2>3
    <2>6. QED BY <2>4, <2>5
  <1>4. CASE Commits
    BY <1>4 DEF Commits
  <1>5. QED BY <1>1, <1>2, <1>3, <1>4 DEF SaveStep

LEMMA ConnectKeepsPromise ==
    ASSUME PromiseInv, TypeInv', ConnectStep
    PROVE  PromiseInv'
  <1> USE DEF PromiseInv, Between, Held, Saving, PromiseKept
  <1>1. CASE Saves
    <2>1. /\ save # "none"
          /\ UNCHANGED <<started, config, httpd, promised, saving>>
      BY <1>1, SaveType
      DEF Saves, station, SaveStep, SaveOpens, SetsSsid, SetsPassword, Commits,
          TypeInv, TypeOK
    <2>2. Saving /\ promised = Nothing
      BY <2>1
    <2>3. Written' /\ (httpd = "resaving" => nvs' = saving /\ flash' = saving)
      BY <1>1, SaveWrites DEF Saves
    <2>4. QED BY <2>1, <2>2, <2>3 DEF Loadable
  <1>2. CASE SaveFails
    BY <1>2 DEF SaveFails, station, Written
  <1>3. CASE EntersConnect
    <2>1. nvs = saving /\ flash = saving
      BY <1>3 DEF EntersConnect, Written
    <2>2. QED BY <1>3, <2>1 DEF EntersConnect, Valid, Written, Loadable
  <1>4. CASE Disconnects \/ Configures \/ BeginsToConnect
    BY <1>4 DEF Disconnects, Configures, BeginsToConnect, credentials, station, Written, Loadable
  <1>5. CASE MarksConnecting
    BY <1>5 DEF MarksConnecting, credentials, Written, Loadable
  <1>6. CASE TellsConnecting
    BY <1>6 DEF TellsConnecting, station, Written, Loadable
  <1>7. CASE ResaveReturns
    BY <1>7 DEF ResaveReturns, station, Written, Loadable
  <1>8. CASE AnswersSaved
    <2>1. /\ nvs = saving /\ flash = saving /\ save = "none"
          /\ Loadable(saving) => config = saving
      BY <1>8 DEF AnswersSaved
    <2>2. /\ promised' = saving /\ httpd' = "idle"
          /\ UNCHANGED <<nvs, flash, save, started, config>>
      BY <1>8 DEF AnswersSaved, station
    <2>3. QED BY <2>1, <2>2 DEF Written, Loadable
  <1>9. QED
    BY <1>1, <1>2, <1>3, <1>4, <1>5, <1>6, <1>7, <1>8 DEF ConnectStep

LEMMA StepPromiseInv == PromiseInv /\ [Next]_vars => PromiseInv'
  <1> SUFFICES ASSUME PromiseInv, [Next]_vars PROVE PromiseInv'
    OBVIOUS
  <1>0. TypeInv'
    BY TypeInductive DEF PromiseInv
  <1>1. CASE Start
    <2>1. /\ httpd = "idle" /\ httpd' = "idle" /\ save = "none"
          /\ UNCHANGED <<nvs, flash, save, saving, promised>>
      BY <1>1 DEF Start, credentials, PromiseInv, Held, Saving
    <2>2. config' = nvs \/ config' = Nothing
      BY <1>1 DEF Start, PromiseInv, Held
    <2>3. started'
      BY <1>1 DEF Start
    <2>4. QED BY <1>0, <2>1, <2>2, <2>3 DEF PromiseInv, Written, Held, Saving, Between, PromiseKept, Loadable
  <1>2. CASE EventStep
    <2>1. UNCHANGED <<credentials, started, config, httpd, promised>>
      BY <1>2 DEF EventStep, HandlesStart, HandlesDisconnect, HandlesAddress, Retries,
                  ReadsCounter, WritesCounter, GivesUp, Reports, Notifies, station
    <2>2. QED BY <1>0, <2>1, PromiseElsewhere DEF PromiseInv
  <1>3. CASE ConnectStep
    BY <1>0, <1>3, ConnectKeepsPromise
  <1>4. CASE AirAnswers \/ LosesLink
    <2>1. UNCHANGED <<credentials, started, config, httpd, promised>>
      BY <1>4 DEF AirAnswers, Associates, JoinFails, GetsAddress, LosesLink, DriverUnchanged, station
    <2>2. QED BY <1>0, <2>1, PromiseElsewhere DEF PromiseInv
  <1>5. CASE Asks
    <2>1. /\ httpd' = "saving" /\ started /\ started' = started
          /\ save' = "open" /\ promised' = Nothing
      BY <1>5 DEF Asks, Request, station
    <2>2. QED BY <1>0, <2>1 DEF PromiseInv, Written, Held, Saving, Between, PromiseKept
  <1>6. CASE Restart
    <2>1. save' = "none" /\ httpd' = "idle" /\ started' = FALSE /\ config' = Nothing
      BY <1>6 DEF Restart, CredentialsRestart
    <2>2. \/ nvs' = flash /\ flash' = flash /\ promised' = promised
          \/ promised' = Nothing
      BY <1>6 DEF Restart, NvsMounts, NvsIsErased
    <2>3. QED BY <1>0, <2>1, <2>2 DEF PromiseInv, Written, Held, Saving, Between, PromiseKept
  <1>7. CASE UNCHANGED vars
    <2>1. UNCHANGED <<credentials, started, config, httpd, promised>>
      BY <1>7 DEF vars, station
    <2>2. QED BY <1>0, <2>1, PromiseElsewhere DEF PromiseInv
  <1>8. QED
    BY <1>1, <1>2, <1>3, <1>4, <1>5, <1>6, <1>7 DEF Next

\* A pair answered with "pswd_saved":"ok" is in flash, and there after every restart
\* whose boot does not erase NVS, until the next request.
THEOREM PromiseKeptAlways == Spec => []PromiseKept
  <1>1. PromiseInv => PromiseKept
    BY DEF PromiseInv
  <1>2. QED BY <1>1, InitPromiseInv, StepPromiseInv, PTL DEF Spec

-----------------------------------------------------------------------------
(* The status.  QuietMeansAgreed is not inductive: it says nothing of the  *)
(* states between the driver's event and the callback.  The invariant      *)
(* below says who still owes the status to the link.                       *)

\* Before app_wifi_start nothing happens, and the driver starts nothing.
Cold ==
    ~started =>
        /\ link = "idle" /\ events = << >> /\ event = "idle" /\ ~refused
        /\ sta_status = "DISCONNECTED" /\ announced = "DISCONNECTED"

\* While a request is between its driver calls the station is idle or, once it has
\* been told to, joining.
Calls ==
    /\ InDriverCalls => link \in {"idle", "joining"}
    /\ httpd \in {"marking", "telling"} => link = "joining"

LastEvent == events[Len(events)]

\* A link that is up has its event last in the queue, or in the handler, or shown.
UpOwes ==
    \/ events # << >> /\ LastEvent = "STA_GOT_IP"
    \/ events = << >> /\ event = "reporting"
    \/ events = << >> /\ event = "CONNECTED" /\ sta_status = "CONNECTED"
    \/ events = << >> /\ event = "idle" /\ sta_status = "CONNECTED" /\ announced = "CONNECTED"

\* A station that is idle has its loss last in the queue, or in the handler, or
\* shown, or the handler's retry was refused, or it has not been told to join yet.
IdleOwes ==
    \/ events # << >> /\ LastEvent = "STA_DISCONNECTED"
    \/ /\ events = <<"STA_START">> /\ event = "idle"
       /\ sta_status = "DISCONNECTED" /\ announced = "DISCONNECTED"
    \/ events = << >> /\ refused
    \/ events = << >> /\ event \in {"retrying", "failing"}
    \/ events = << >> /\ event = "FAILED" /\ sta_status = "FAILED"
    \/ /\ events = << >> /\ event = "idle"
       /\ sta_status \in {"DISCONNECTED", "FAILED"} /\ announced = sta_status

Owed ==
    /\ link = "up" => UpOwes
    /\ link = "idle" => IdleOwes

StatusInv == PromiseInv /\ Cold /\ Calls /\ Owed

LEMMA Posting ==
    ASSUME TypeOK, NEW e \in Events, Post(e)
    PROVE  events' # << >> /\ LastEvent' = e
  BY DEF TypeOK, Post, LastEvent

LEMMA Taking ==
    ASSUME TypeOK, NEW e \in Events, Takes(e)
    PROVE  /\ event = "idle" /\ events # << >>
           /\ events' = << >> => LastEvent = e
           /\ events' # << >> => LastEvent' = LastEvent
           /\ events = <<"STA_START">> => e = "STA_START" /\ events' = << >>
  <1>1. /\ events \in Seq(Events) /\ events # << >> /\ event = "idle"
        /\ e = events[1] /\ events' = Tail(events)
    BY DEF TypeOK, Takes
  <1>2. /\ Len(events) \in Nat \ {0}
        /\ Len(events') = Len(events) - 1
        /\ \A i \in 1 .. Len(events') : events'[i] = events[i + 1]
    BY <1>1
  <1>3. events' = << >> => LastEvent = e
    <2>1. events' = << >> => Len(events) = 1
      BY <1>2
    <2>2. QED BY <1>1, <2>1 DEF LastEvent
  <1>4. events' # << >> => LastEvent' = LastEvent
    <2>1. HAVE events' # << >>
    <2>2. Len(events') \in 1 .. Len(events')
      BY <1>1, <1>2, <2>1
    <2>3. QED BY <1>2, <2>2 DEF LastEvent
  <1>5. events = <<"STA_START">> => e = "STA_START" /\ events' = << >>
    BY <1>1
  <1>6. QED BY <1>1, <1>3, <1>4, <1>5

LEMMA OnlyStart ==
    /\ <<"STA_START">> # << >>
    /\ events = <<"STA_START">> => LastEvent = "STA_START"
  BY DEF LastEvent

LEMMA InitStatusInv == Init => StatusInv
  <1> SUFFICES ASSUME Init PROVE StatusInv
    OBVIOUS
  <1>1. PromiseInv
    BY InitPromiseInv
  <1>2. events = << >> /\ link = "idle" /\ event = "idle" /\ httpd = "idle" /\ ~refused
        /\ sta_status = "DISCONNECTED" /\ announced = "DISCONNECTED"
    BY DEF Init
  <1>3. QED BY <1>1, <1>2 DEF StatusInv, Cold, Calls, InDriverCalls, Owed, IdleOwes

\* What the driver does by itself.
LEMMA DriverOwes ==
    ASSUME StatusInv, AirAnswers \/ LosesLink
    PROVE  Cold' /\ Calls' /\ Owed'
  <1> USE DEF StatusInv, PromiseInv, TypeInv
  <1>0. /\ ~InDriverCalls /\ started /\ link # "idle"
        /\ UNCHANGED <<started, sta_status, httpd, event, announced, refused>>
    BY DEF AirAnswers, Associates, JoinFails, GetsAddress, LosesLink, DriverUnchanged,
           station, Cold
  <1>1. CASE Associates
    BY <1>0, <1>1 DEF Associates, Cold, Calls, InDriverCalls, Owed
  <1>2. CASE JoinFails \/ LosesLink
    <2>1. Post("STA_DISCONNECTED") /\ link' = "idle"
      BY <1>2 DEF JoinFails, LosesLink
    <2>2. events' # << >> /\ LastEvent' = "STA_DISCONNECTED"
      BY <2>1, Posting DEF Events
    <2>3. QED BY <1>0, <2>1, <2>2 DEF Cold, Calls, InDriverCalls, Owed, IdleOwes
  <1>3. CASE GetsAddress
    <2>1. Post("STA_GOT_IP") /\ link' = "up"
      BY <1>3 DEF GetsAddress
    <2>2. events' # << >> /\ LastEvent' = "STA_GOT_IP"
      BY <2>1, Posting DEF Events
    <2>3. QED BY <1>0, <2>1, <2>2 DEF Cold, Calls, InDriverCalls, Owed, UpOwes
  <1>4. QED BY <1>1, <1>2, <1>3 DEF AirAnswers

\* Steps of the handler that leave queue and link alone.
LEMMA HandlerOwes ==
    ASSUME StatusInv, EventStep
    PROVE  Cold' /\ Calls' /\ Owed'
  <1> USE DEF StatusInv, PromiseInv, TypeInv
  <1>0. started /\ UNCHANGED <<started, httpd>>
    <2>1. event # "idle" \/ events # << >>
      BY DEF EventStep, HandlesStart, HandlesDisconnect, HandlesAddress, Takes, Retries,
             ReadsCounter, WritesCounter, GivesUp, Reports, Notifies, Status
    <2>2. UNCHANGED <<started, httpd>>
      BY DEF EventStep, HandlesStart, HandlesDisconnect, HandlesAddress, Retries,
             ReadsCounter, WritesCounter, GivesUp, Reports, Notifies, station
    <2>3. QED BY <2>1, <2>2 DEF Cold
  <1>1. CASE HandlesStart
    <2>0. Takes("STA_START") /\ UNCHANGED <<sta_status, event, announced>>
      BY <1>1 DEF HandlesStart, station
    <2>1. /\ event = "idle" /\ events # << >>
          /\ events' = << >> => LastEvent = "STA_START"
          /\ events' # << >> => LastEvent' = LastEvent
          /\ events = <<"STA_START">> => events' = << >>
      BY <2>0, Taking DEF Events
    <2>2. CASE UNCHANGED link
      BY <1>0, <2>0, <2>1, <2>2, OnlyStart DEF Cold, Calls, InDriverCalls, Owed, UpOwes, IdleOwes
    <2>3. CASE Connects
      BY <1>0, <2>0, <2>3 DEF Connects, Cold, Calls, InDriverCalls, Owed
    <2>4. QED BY <1>1, <2>2, <2>3 DEF HandlesStart, ConnectFails
  <1>2. CASE HandlesDisconnect
    <2>0. /\ Takes("STA_DISCONNECTED") /\ event' \in {"retrying", "failing"}
          /\ UNCHANGED <<sta_status, link, refused, announced>>
      BY <1>2 DEF HandlesDisconnect, station
    <2>1. /\ event = "idle" /\ events # << >>
          /\ events' = << >> => LastEvent = "STA_DISCONNECTED"
          /\ events' # << >> => LastEvent' = LastEvent
          /\ events # <<"STA_START">>
      BY <2>0, Taking DEF Events
    <2>2. QED BY <1>0, <2>0, <2>1 DEF Cold, Calls, InDriverCalls, Owed, UpOwes, IdleOwes
  <1>3. CASE HandlesAddress
    <2>0. /\ Takes("STA_GOT_IP") /\ event' = "reporting"
          /\ UNCHANGED <<sta_status, link, refused, announced>>
      BY <1>3 DEF HandlesAddress
    <2>1. /\ event = "idle" /\ events # << >>
          /\ events' = << >> => LastEvent = "STA_GOT_IP"
          /\ events' # << >> => LastEvent' = LastEvent
          /\ events # <<"STA_START">>
      BY <2>0, Taking DEF Events
    <2>2. QED BY <1>0, <2>0, <2>1 DEF Cold, Calls, InDriverCalls, Owed, UpOwes, IdleOwes
  <1>4. CASE Retries
    <2>0. /\ event = "retrying" /\ event' = "reading"
          /\ UNCHANGED <<events, sta_status, announced>>
      BY <1>4 DEF Retries, station
    <2>1. CASE Connects
      BY <1>0, <2>0, <2>1 DEF Connects, Cold, Calls, InDriverCalls, Owed
    <2>2. CASE UNCHANGED link /\ refused' = (link = "idle")
      BY <1>0, <2>0, <2>2, OnlyStart DEF LastEvent, Cold, Calls, InDriverCalls, Owed, UpOwes, IdleOwes
    <2>3. QED BY <1>4, <2>1, <2>2 DEF Retries, ConnectFails
  <1>5. CASE ReadsCounter \/ WritesCounter \/ GivesUp \/ Reports \/ Notifies
    <2>0. UNCHANGED <<events, link, refused>>
      BY <1>5 DEF ReadsCounter, WritesCounter, GivesUp, Reports, Notifies, driver
    <2>1. Cold' /\ Calls'
      BY <1>0, <2>0 DEF Cold, Calls, InDriverCalls
    <2>2. LastEvent' = LastEvent
      BY <2>0 DEF LastEvent
    <2>3. CASE ReadsCounter \/ WritesCounter
      BY <2>0, <2>1, <2>2, <2>3 DEF ReadsCounter, WritesCounter, Owed, UpOwes, IdleOwes
    <2>4. CASE GivesUp
      BY <2>0, <2>1, <2>2, <2>4 DEF GivesUp, Owed, UpOwes, IdleOwes
    <2>5. CASE Reports
      BY <2>0, <2>1, <2>2, <2>5 DEF Reports, Owed, UpOwes, IdleOwes
    <2>6. CASE Notifies
      BY <2>0, <2>1, <2>2, <2>6 DEF Notifies, station, Status, Owed, UpOwes, IdleOwes
    <2>7. QED BY <1>5, <2>1, <2>3, <2>4, <2>5, <2>6
  <1>6. QED BY <1>1, <1>2, <1>3, <1>4, <1>5 DEF EventStep

LEMMA ConnectOwes ==
    ASSUME StatusInv, ConnectStep
    PROVE  Cold' /\ Calls' /\ Owed'
  <1> USE DEF StatusInv, PromiseInv, TypeInv
  <1>0. started /\ UNCHANGED <<started, event>>
    <2>1. httpd # "idle"
      BY DEF ConnectStep, Saves, SaveStep, SaveOpens, SetsSsid, SetsPassword, Commits,
             SaveFails, EntersConnect, Disconnects, Configures, BeginsToConnect,
             MarksConnecting, TellsConnecting, ResaveReturns, AnswersSaved, Held, Saving
    <2>2. UNCHANGED <<started, event>>
      BY DEF ConnectStep, Saves, SaveFails, EntersConnect, Disconnects, Configures,
             BeginsToConnect, MarksConnecting, TellsConnecting, ResaveReturns,
             AnswersSaved, station
    <2>3. QED BY <2>1, <2>2 DEF Held
  <1>1. CASE Saves \/ SaveFails \/ EntersConnect \/ ResaveReturns \/ AnswersSaved
    <2>1. /\ UNCHANGED <<link, events, refused, sta_status, announced>>
          /\ httpd' = httpd \/ httpd' \in {"idle", "disconnecting", "answering"}
      BY <1>1 DEF Saves, SaveFails, EntersConnect, ResaveReturns, AnswersSaved, station, driver
    <2>2. QED
      BY <1>0, <2>1 DEF Cold, Calls, InDriverCalls, Owed, UpOwes, IdleOwes, LastEvent
  <1>2. CASE Disconnects
    <2>0. httpd' = "configuring" /\ UNCHANGED <<refused, sta_status, announced>>
      BY <1>2 DEF Disconnects, station
    <2>1. CASE link = "idle"
      <3>1. UNCHANGED <<link, events>>
        BY <1>2, <2>1 DEF Disconnects
      <3>2. QED
        BY <1>0, <2>0, <2>1, <3>1
        DEF Cold, Calls, InDriverCalls, Owed, UpOwes, IdleOwes, LastEvent
    <2>2. CASE link # "idle"
      <3>1. Post("STA_DISCONNECTED") /\ link' = "idle"
        BY <1>2, <2>2 DEF Disconnects
      <3>2. events' # << >> /\ LastEvent' = "STA_DISCONNECTED"
        BY <3>1, Posting DEF Events
      <3>3. QED BY <1>0, <2>0, <3>1, <3>2 DEF Cold, Calls, InDriverCalls, Owed, IdleOwes
    <2>3. QED BY <2>1, <2>2
  <1>3. CASE Configures
    <2>1. /\ UNCHANGED <<link, events, refused, sta_status, announced>>
          /\ httpd = "configuring" /\ httpd' \in {"connecting", "answering"}
      BY <1>3 DEF Configures, station, driver
    <2>2. QED
      BY <1>0, <2>1 DEF Cold, Calls, InDriverCalls, Owed, UpOwes, IdleOwes, LastEvent
  <1>4. CASE BeginsToConnect
    <2>0. UNCHANGED <<events, sta_status, announced>> /\ httpd = "connecting"
      BY <1>4 DEF BeginsToConnect, station
    <2>1. CASE link' = "joining" /\ httpd' = "marking"
      BY <1>0, <2>0, <2>1 DEF Cold, Calls, InDriverCalls, Owed
    <2>2. CASE UNCHANGED <<link, refused>> /\ httpd' = "answering"
      BY <1>0, <2>0, <2>2 DEF Cold, Calls, InDriverCalls, Owed, UpOwes, IdleOwes, LastEvent
    <2>3. QED BY <1>4, <2>1, <2>2 DEF BeginsToConnect, Connects, ConnectFails
  <1>5. CASE MarksConnecting \/ TellsConnecting
    <2>1. /\ UNCHANGED <<link, events, refused>> /\ link = "joining"
          /\ httpd' \in {"telling", "resaving"}
      BY <1>5 DEF MarksConnecting, TellsConnecting, driver, Calls
    <2>2. QED BY <1>0, <2>1 DEF Cold, Calls, InDriverCalls, Owed
  <1>6. QED BY <1>1, <1>2, <1>3, <1>4, <1>5 DEF ConnectStep

LEMMA StepStatusInv == StatusInv /\ [Next]_vars => StatusInv'
  <1> SUFFICES ASSUME StatusInv, [Next]_vars PROVE StatusInv'
    OBVIOUS
  <1>0. PromiseInv'
    BY StepPromiseInv DEF StatusInv
  <1>1. CASE Start
    <2>1. /\ link = "idle" /\ events = << >> /\ event = "idle" /\ httpd = "idle"
          /\ sta_status = "DISCONNECTED" /\ announced = "DISCONNECTED"
      BY <1>1 DEF Start, StatusInv, PromiseInv, Held, Cold
    <2>2. started' /\ UNCHANGED <<link, event, httpd, sta_status, announced>>
      BY <1>1 DEF Start
    <2>3. events' = <<"STA_START">>
      BY <1>1, <2>1 DEF Start, Post
    <2>4. QED BY <1>0, <2>1, <2>2, <2>3 DEF StatusInv, Cold, Calls, InDriverCalls, Owed, IdleOwes
  <1>2. CASE EventStep
    BY <1>0, <1>2, HandlerOwes DEF StatusInv
  <1>3. CASE ConnectStep
    BY <1>0, <1>3, ConnectOwes DEF StatusInv
  <1>4. CASE AirAnswers \/ LosesLink
    BY <1>0, <1>4, DriverOwes DEF StatusInv
  <1>5. CASE Asks
    <2>1. /\ UNCHANGED <<started, link, events, event, refused, sta_status, announced>>
          /\ httpd' = "saving"
      BY <1>5 DEF Asks, Request, station, driver
    <2>2. QED
      BY <1>0, <2>1
      DEF StatusInv, Cold, Calls, InDriverCalls, Owed, UpOwes, IdleOwes, LastEvent
  <1>6. CASE Restart
    <2>1. /\ events' = << >> /\ link' = "idle" /\ event' = "idle" /\ httpd' = "idle" /\ ~refused'
          /\ sta_status' = "DISCONNECTED" /\ announced' = "DISCONNECTED"
      BY <1>6 DEF Restart
    <2>2. QED BY <1>0, <2>1 DEF StatusInv, Cold, Calls, InDriverCalls, Owed, IdleOwes
  <1>7. CASE UNCHANGED vars
    <2>1. UNCHANGED <<started, link, events, event, httpd, refused, sta_status, announced>>
      BY <1>7 DEF vars, station, driver
    <2>2. QED
      BY <1>0, <2>1
      DEF StatusInv, Cold, Calls, InDriverCalls, Owed, UpOwes, IdleOwes, LastEvent
  <1>8. QED
    BY <1>1, <1>2, <1>3, <1>4, <1>5, <1>6, <1>7 DEF Next

\* Once nothing is on its way the status, the link and what the callback was told
\* agree, however requests, events and losses have overtaken each other.
THEOREM QuietMeansAgreedAlways == Spec => []QuietMeansAgreed
  <1>1. StatusInv => QuietMeansAgreed
    BY DEF StatusInv, Owed, UpOwes, IdleOwes, Cold, QuietMeansAgreed, Quiet, SaysConnected
  <1>2. QED BY <1>1, InitStatusInv, StepStatusInv, PTL DEF Spec
-----------------------------------------------------------------------------
(* The work that is left.  The ranks are numbers, the steps of each task   *)
(* lower the rank of their own, and the handler's increment of the counter *)
(* never lowers it, although a request may set it back in between.         *)

\* A request sets the counter to zero, and nothing else writes it while the
\* handler's increment is under way.
CountInv == event = "counting" => retry_count <= counted

WorkInv == StatusInv /\ CountInv

LEMMA InitWorkInv == Init => WorkInv
  BY InitStatusInv DEF Init, WorkInv, CountInv

LEMMA StepWorkInv == WorkInv /\ [Next]_vars => WorkInv'
  <1> SUFFICES ASSUME WorkInv, [Next]_vars PROVE WorkInv'
    OBVIOUS
  <1>0. /\ StatusInv'
        /\ retry_count \in 0 .. sta_max_retry /\ counted \in 0 .. sta_max_retry
    BY StepStatusInv DEF WorkInv, StatusInv, PromiseInv, TypeInv, TypeOK
  <1> USE RetryAssumption DEF WorkInv, CountInv
  <1>1. CASE EventStep
    <2>1. CASE HandlesStart
      BY <1>0, <2>1 DEF HandlesStart, Takes, station
    <2>2. CASE HandlesDisconnect \/ Retries \/ WritesCounter \/ GivesUp \/ Notifies
      BY <1>0, <2>2 DEF HandlesDisconnect, Retries, WritesCounter, GivesUp, Notifies, Status
    <2>3. CASE HandlesAddress \/ Reports
      BY <1>0, <2>3 DEF HandlesAddress, Reports
    <2>4. CASE ReadsCounter
      BY <1>0, <2>4 DEF ReadsCounter, station
    <2>5. QED BY <1>1, <2>1, <2>2, <2>3, <2>4 DEF EventStep
  <1>2. CASE EntersConnect
    BY <1>0, <1>2 DEF EntersConnect
  <1>3. CASE ConnectStep /\ ~EntersConnect
    <2>1. UNCHANGED <<retry_count, event, counted>>
      BY <1>3 DEF ConnectStep, Saves, SaveFails, Disconnects, Configures, BeginsToConnect,
                  MarksConnecting, TellsConnecting, ResaveReturns, AnswersSaved, station
    <2>2. QED BY <1>0, <2>1
  <1>4. CASE Start \/ AirAnswers \/ LosesLink \/ Asks \/ UNCHANGED vars
    <2>1. UNCHANGED <<retry_count, event, counted>>
      BY <1>4 DEF Start, AirAnswers, Associates, JoinFails, GetsAddress, LosesLink,
                  DriverUnchanged, Asks, Request, vars, station
    <2>2. QED BY <1>0, <2>1
  <1>5. CASE Restart
    BY <1>0, <1>5 DEF Restart
  <1>6. QED BY <1>1, <1>2, <1>3, <1>4, <1>5 DEF Next

\* The ranks, and the components of Left but for UncountedLeft, are natural numbers.
Ranked ==
    /\ HttpLeft[httpd] \in 0 .. 8 /\ SaveLeft[save] \in 0 .. 4
    /\ EventLeft[event] \in 0 .. 5 /\ LinkLeft[link] \in 0 .. 8
    /\ RequestLeft \in Nat /\ AddressLeft \in Nat
    /\ RetriesLeft \in Nat /\ EventsLeft \in Nat

LEMMA RanksAreNumbers == WorkInv => Ranked
  <1> SUFFICES ASSUME WorkInv PROVE Ranked
    OBVIOUS
  <1> USE DEF WorkInv, StatusInv, PromiseInv, TypeInv, TypeOK, CredentialsType
  <1>1. HttpLeft[httpd] \in 0 .. 8
    BY DEF HttpLeft, HttpSteps
  <1>2. SaveLeft[save] \in 0 .. 4
    BY DEF SaveLeft, SaveSteps
  <1>3. EventLeft[event] \in 0 .. 5
    BY DEF EventLeft, EventSteps
  <1>4. LinkLeft[link] \in 0 .. 8
    BY DEF LinkLeft, Links
  <1>5. Len(events) \in Nat
    OBVIOUS
  <1>6. RetriesLeft \in Nat
    <2>1. retry_count \in 0 .. sta_max_retry /\ counted \in 0 .. sta_max_retry
      OBVIOUS
    <2>2. event \in {"reading", "counting"} => retry_count < sta_max_retry
      BY <2>1, RetryAssumption DEF Retrying, CountInv
    <2>3. QED BY <2>1, <2>2, RetryAssumption DEF RetriesLeft
  <1> HIDE DEF WorkInv
  <1>7. RequestLeft \in Nat
    <2>1. \A h \in 0 .. 8, s \in 0 .. 4, b \in 0 .. 1 : 5 * h + s + b \in Nat
      OBVIOUS
    <2>2. (IF started THEN 0 ELSE 1) \in 0 .. 1
      OBVIOUS
    <2>3. QED BY <1>1, <1>2, <2>1, <2>2 DEF RequestLeft
  <1>8. EventsLeft \in Nat
    <2>1. \A n \in Nat, e \in 0 .. 5, l \in 0 .. 8 : 6 * n + e + l \in Nat
      OBVIOUS
    <2>2. QED BY <1>3, <1>4, <1>5, <2>1 DEF EventsLeft
  <1>9. AddressLeft \in Nat
    BY DEF AddressLeft
  <1>10. QED BY <1>1, <1>2, <1>3, <1>4, <1>6, <1>7, <1>8, <1>9 DEF Ranked

\* The positions in a queue that hold no lost link; UncountedLeft counts them.
Others(q) == {i \in 1 .. Len(q) : q[i] # "STA_DISCONNECTED"}

LEMMA OthersCounted ==
    ASSUME NEW q \in Seq(Events)
    PROVE  IsFiniteSet(Others(q)) /\ Cardinality(Others(q)) \in Nat
  <1>1. IsFiniteSet(1 .. Len(q))
    BY FS_Interval
  <1>2. Others(q) \in SUBSET (1 .. Len(q))
    BY DEF Others
  <1>3. IsFiniteSet(Others(q))
    BY <1>1, <1>2, FS_Subset
  <1>4. QED BY <1>3, FS_CardinalityType

\* A lost link that is posted is not counted.
LEMMA OthersPosted ==
    ASSUME NEW q \in Seq(Events)
    PROVE  Others(Append(q, "STA_DISCONNECTED")) = Others(q)
  <1> DEFINE r == Append(q, "STA_DISCONNECTED")
  <1>1. Len(q) \in Nat /\ Len(r) = Len(q) + 1 /\ r[Len(q) + 1] = "STA_DISCONNECTED"
    OBVIOUS
  <1>2. \A i \in 1 .. Len(q) : r[i] = q[i]
    OBVIOUS
  <1> HIDE DEF r
  <1>3. \A i : i \in 1 .. Len(r) => i \in 1 .. Len(q) \/ i = Len(q) + 1
    BY <1>1
  <1>4. \A i : i \in 1 .. Len(q) => i \in 1 .. Len(r)
    BY <1>1
  <1>5. Others(r) = Others(q)
    BY <1>1, <1>2, <1>3, <1>4 DEF Others
  <1>6. QED BY <1>5 DEF r

\* Taking an event moves the others up by one place, and counts one less unless it
\* was a lost link.
LEMMA OthersTaken ==
    ASSUME NEW q \in Seq(Events), q # << >>
    PROVE  Cardinality(Others(Tail(q))) =
             IF Head(q) = "STA_DISCONNECTED" THEN Cardinality(Others(q))
                                             ELSE Cardinality(Others(q)) - 1
  <1> DEFINE rest == Others(Tail(q))
             old == Others(q) \ {1}
             moved == [i \in rest |-> i + 1]
  <1>1. /\ Len(q) \in Nat \ {0} /\ Tail(q) \in Seq(Events) /\ Len(Tail(q)) = Len(q) - 1
        /\ Head(q) = q[1]
        /\ \A i \in 1 .. Len(q) - 1 : Tail(q)[i] = q[i + 1]
    OBVIOUS
  <1>2. /\ IsFiniteSet(rest)
        /\ IsFiniteSet(Others(q)) /\ Cardinality(Others(q)) \in Nat
    BY <1>1, OthersCounted
  <1>3. moved \in Bijection(rest, old)
    <2>1. \A i : i \in rest <=> i \in 1 .. Len(q) - 1 /\ q[i + 1] # "STA_DISCONNECTED"
      BY <1>1 DEF Others
    <2>2. \A i \in rest : i \in Nat /\ i + 1 \in old
      BY <1>1, <2>1 DEF Others
    <2>3. moved \in [rest -> old]
      BY <2>2
    <2>4. \A a, b \in rest : moved[a] = moved[b] => a = b
      BY <2>2
    <2>5. \A t \in old : t - 1 \in rest /\ (t - 1) + 1 = t
      BY <1>1, <2>1 DEF Others
    <2>6. \A t \in old : \E i \in rest : moved[i] = t
      BY <2>5
    <2>7. QED BY <2>3, <2>4, <2>6, Fun_IsBij
  <1>4. Cardinality(rest) = Cardinality(old)
    <2>1. ExistsBijection(rest, old)
      BY <1>3, Fun_ExistsBij
    <2>2. QED BY <1>2, <2>1, FS_Bijection
  <1>5. Cardinality(old) = IF 1 \in Others(q) THEN Cardinality(Others(q)) - 1
                                              ELSE Cardinality(Others(q))
    BY <1>2, FS_RemoveElement
  <1>6. 1 \in Others(q) <=> Head(q) # "STA_DISCONNECTED"
    BY <1>1 DEF Others
  <1>7. QED BY <1>4, <1>5, <1>6

\* UncountedLeft, after an event has been posted or taken.
LEMMA UncountedLeftChanges ==
    ASSUME TypeOK
    PROVE  /\ UncountedLeft \in Nat
           /\ Post("STA_DISCONNECTED") => UncountedLeft' = UncountedLeft
           /\ Takes("STA_DISCONNECTED") => UncountedLeft' = UncountedLeft
           /\ \A e \in {"STA_START", "STA_GOT_IP"} :
                Takes(e) => UncountedLeft' = UncountedLeft - 1 /\ UncountedLeft' \in Nat
           /\ events' = events => UncountedLeft' = UncountedLeft
  <1>1. /\ UncountedLeft = Cardinality(Others(events))
        /\ UncountedLeft' = Cardinality(Others(events'))
    BY DEF UncountedLeft, Others
  <1>2. events \in Seq(Events) /\ UncountedLeft \in Nat
    BY <1>1, OthersCounted DEF TypeOK
  <1>3. Post("STA_DISCONNECTED") => UncountedLeft' = UncountedLeft
    BY <1>1, <1>2, OthersPosted DEF Post
  <1>4. Takes("STA_DISCONNECTED") => UncountedLeft' = UncountedLeft
    BY <1>1, <1>2, OthersTaken DEF Takes
  <1>5. ASSUME NEW e \in {"STA_START", "STA_GOT_IP"}, Takes(e)
        PROVE  UncountedLeft' = UncountedLeft - 1 /\ UncountedLeft' \in Nat
    <2>1. events # << >> /\ Head(events) = e /\ events' = Tail(events)
      BY <1>5 DEF Takes
    <2>2. UncountedLeft' = UncountedLeft - 1
      BY <1>1, <1>2, <2>1, OthersTaken
    <2>3. Tail(events) \in Seq(Events)
      BY <1>2, <2>1
    <2>4. UncountedLeft' \in Nat
      BY <1>1, <2>1, <2>3, OthersCounted
    <2>5. QED BY <2>2, <2>4
  <1>6. events' = events => UncountedLeft' = UncountedLeft
    BY <1>1
  <1>7. QED BY <1>2, <1>3, <1>4, <1>5, <1>6

\* The first component that differs decides.
LEMMA Lexicographic ==
    ASSUME NEW a1, NEW a2, NEW a3, NEW a4, NEW a5,
           NEW b1, NEW b2, NEW b3, NEW b4, NEW b5,
           \/ a1 \in Nat /\ a1 < b1
           \/ a1 = b1 /\ a2 \in Nat /\ a2 < b2
           \/ a1 = b1 /\ a2 = b2 /\ a3 \in Nat /\ a3 < b3
           \/ a1 = b1 /\ a2 = b2 /\ a3 = b3 /\ a4 \in Nat /\ a4 < b4
           \/ a1 = b1 /\ a2 = b2 /\ a3 = b3 /\ a4 = b4 /\ a5 \in Nat /\ a5 < b5
    PROVE  Precedes(<<a1, a2, a3, a4, a5>>, <<b1, b2, b3, b4, b5>>)
  <1> DEFINE a == <<a1, a2, a3, a4, a5>>
             b == <<b1, b2, b3, b4, b5>>
  <1>1. PICK i \in 1 .. 5 : a[i] \in Nat /\ a[i] < b[i] /\ \A j \in 1 .. i - 1 : a[j] = b[j]
    <2>1. CASE a1 \in Nat /\ a1 < b1
      <3>1. a[1] = a1 /\ b[1] = b1 /\ 1 \in 1 .. 5 /\ \A j \in 1 .. 1 - 1 : FALSE
        OBVIOUS
      <3>2. QED BY <2>1, <3>1
    <2>2. CASE a1 = b1 /\ a2 \in Nat /\ a2 < b2
      <3>1. a[2] = a2 /\ b[2] = b2 /\ 2 \in 1 .. 5 /\ \A j \in 1 .. 2 - 1 : j = 1
        OBVIOUS
      <3>2. QED BY <2>2, <3>1
    <2>3. CASE a1 = b1 /\ a2 = b2 /\ a3 \in Nat /\ a3 < b3
      <3>1. a[3] = a3 /\ b[3] = b3 /\ 3 \in 1 .. 5 /\ \A j \in 1 .. 3 - 1 : j = 1 \/ j = 2
        OBVIOUS
      <3>2. QED BY <2>3, <3>1
    <2>4. CASE a1 = b1 /\ a2 = b2 /\ a3 = b3 /\ a4 \in Nat /\ a4 < b4
      <3>1. a[4] = a4 /\ b[4] = b4 /\ 4 \in 1 .. 5
            /\ \A j \in 1 .. 4 - 1 : j = 1 \/ j = 2 \/ j = 3
        OBVIOUS
      <3>2. QED BY <2>4, <3>1
    <2>5. CASE a1 = b1 /\ a2 = b2 /\ a3 = b3 /\ a4 = b4 /\ a5 \in Nat /\ a5 < b5
      <3>1. a[5] = a5 /\ b[5] = b5 /\ 5 \in 1 .. 5
            /\ \A j \in 1 .. 5 - 1 : j = 1 \/ j = 2 \/ j = 3 \/ j = 4
        OBVIOUS
      <3>2. QED BY <2>5, <3>1
    <2>6. QED BY <2>1, <2>2, <2>3, <2>4, <2>5
  <1>2. QED BY <1>1 DEF Precedes

\* What each task's steps do to the components they touch.  The request's are the
\* first: they lower RequestLeft, whatever they do to the rest.
LEMMA RequestDescends ==
    ASSUME WorkInv, Start \/ ConnectStep
    PROVE  RequestLeft' < RequestLeft
  <1>0. /\ httpd \in HttpSteps /\ save \in SaveSteps
        /\ (IF started THEN 0 ELSE 1) \in 0 .. 1
    BY DEF WorkInv, StatusInv, PromiseInv, TypeInv, TypeOK, CredentialsType
  <1>1. CASE Start
    <2>1. ~started /\ started' /\ UNCHANGED <<httpd, save>>
      BY <1>1 DEF Start, credentials
    <2>2. HttpLeft[httpd] \in 0 .. 8 /\ SaveLeft[save] \in 0 .. 4
      BY RanksAreNumbers DEF Ranked
    <2>3. QED BY <2>1, <2>2 DEF RequestLeft
  <1>2. CASE Saves
    <2>1. UNCHANGED <<httpd, started>>
      BY <1>2 DEF Saves, station
    <2>2. (SaveLeft[save])' < SaveLeft[save] /\ SaveLeft[save] \in 0 .. 4 /\ (SaveLeft[save])' \in 0 .. 4
      BY <1>2 DEF Saves, SaveStep, SaveOpens, SetsSsid, SetsPassword, SetKey, Commits, SaveLeft
    <2>3. HttpLeft[httpd] \in 0 .. 8
      BY RanksAreNumbers DEF Ranked
    <2>4. QED BY <1>0, <2>1, <2>2, <2>3 DEF RequestLeft
  <1>3. CASE TellsConnecting
    <2>1. httpd = "telling" /\ httpd' = "resaving" /\ save' = "open" /\ started' = started
      BY <1>3 DEF TellsConnecting, station
    <2>2. /\ HttpLeft["telling"] = 3 /\ HttpLeft["resaving"] = 2 /\ SaveLeft["open"] = 4
          /\ SaveLeft[save] \in 0 .. 4
      BY RanksAreNumbers DEF Ranked, HttpLeft, SaveLeft
    <2>3. save = "none"
      BY <2>1 DEF WorkInv, StatusInv, PromiseInv, Held, Saving
    <2>4. QED BY <1>0, <2>1, <2>2, <2>3 DEF RequestLeft, HttpLeft, SaveLeft
  <1>4. CASE ConnectStep /\ ~Saves /\ ~TellsConnecting
    <2>1. /\ (HttpLeft[httpd])' < HttpLeft[httpd]
          /\ HttpLeft[httpd] \in 0 .. 8 /\ (HttpLeft[httpd])' \in 0 .. 8
      BY <1>4 DEF ConnectStep, SaveFails, EntersConnect, Disconnects, Configures, BeginsToConnect,
                  MarksConnecting, ResaveReturns, AnswersSaved, HttpLeft
    <2>2. /\ SaveLeft[save] \in 0 .. 4 /\ save' \in {"none", save} /\ started' = started
      BY <1>4, RanksAreNumbers
      DEF Ranked, ConnectStep, SaveFails, EntersConnect, Disconnects, Configures, BeginsToConnect,
          MarksConnecting, ResaveReturns, AnswersSaved, credentials, station
    <2>3. (SaveLeft[save])' \in 0 .. 4
      BY <1>0, <2>2 DEF SaveLeft, SaveSteps
    <2>4. QED BY <1>0, <2>1, <2>2, <2>3 DEF RequestLeft
  <1>5. QED BY <1>1, <1>2, <1>3, <1>4 DEF ConnectStep

LEMMA DriverDescends ==
    ASSUME WorkInv, Ranked', AirAnswers
    PROVE  Precedes(Left', Left)
  <1>0. /\ TypeOK /\ Len(events) \in Nat /\ EventLeft[event] \in 0 .. 5
        /\ RequestLeft \in Nat /\ AddressLeft' \in Nat /\ EventsLeft' \in Nat
    BY RanksAreNumbers DEF Ranked, WorkInv, StatusInv, PromiseInv, TypeInv, TypeOK
  <1>1. /\ RequestLeft' = RequestLeft /\ RetriesLeft' = RetriesLeft
        /\ (EventLeft[event])' = EventLeft[event]
    BY DEF AirAnswers, Associates, JoinFails, GetsAddress, DriverUnchanged, credentials, station,
           RequestLeft, RetriesLeft, EventLeft
  <1>2. CASE Associates
    <2>1. link = "joining" /\ link' = "joined" /\ events' = events
      BY <1>2 DEF Associates
    <2>2. UncountedLeft' = UncountedLeft /\ AddressLeft' = AddressLeft
      BY <1>0, <2>1, UncountedLeftChanges DEF AddressLeft
    <2>3. EventsLeft' < EventsLeft
      BY <1>0, <1>1, <2>1 DEF EventsLeft, LinkLeft
    <2>4. QED BY <1>0, <1>1, <2>2, <2>3, Lexicographic DEF Left
  <1>3. CASE JoinFails
    <2>1. /\ link = "joining" /\ link' = "idle" /\ Post("STA_DISCONNECTED")
          /\ Len(events') = Len(events) + 1
      BY <1>0, <1>3 DEF JoinFails, Post, TypeOK
    <2>2. UncountedLeft' = UncountedLeft /\ AddressLeft' = AddressLeft
      BY <1>0, <2>1, UncountedLeftChanges DEF AddressLeft
    <2>3. EventsLeft' < EventsLeft
      BY <1>0, <1>1, <2>1 DEF EventsLeft, LinkLeft
    <2>4. QED BY <1>0, <1>1, <2>2, <2>3, Lexicographic DEF Left
  <1>4. CASE GetsAddress
    <2>1. AddressLeft' < AddressLeft
      BY <1>4 DEF GetsAddress, AddressLeft
    <2>2. QED BY <1>0, <1>1, <2>1, Lexicographic DEF Left
  <1>5. QED BY <1>2, <1>3, <1>4 DEF AirAnswers

\* An event taken outweighs whatever the handler then has to do about it.
LEMMA EventsFirst ==
    ASSUME NEW n \in Nat, NEW m \in Nat, NEW e \in 0 .. 5, NEW f \in 0 .. 5, NEW l \in 0 .. 8,
           m = n - 1 \/ (m = n /\ f < e)
    PROVE  6 * m + f + l < 6 * n + e + l
  OBVIOUS

LEMMA HandlerDescends ==
    ASSUME WorkInv, Ranked', EventStep
    PROVE  Precedes(Left', Left)
  <1>0. /\ TypeOK /\ Len(events) \in Nat /\ LinkLeft[link] \in 0 .. 8
        /\ RequestLeft \in Nat /\ AddressLeft \in Nat /\ UncountedLeft \in Nat
        /\ RetriesLeft \in Nat /\ RetriesLeft' \in Nat /\ EventsLeft' \in Nat
        /\ retry_count \in 0 .. sta_max_retry /\ counted \in 0 .. sta_max_retry
    <2>1. TypeOK
      BY DEF WorkInv, StatusInv, PromiseInv, TypeInv
    <2>2. UncountedLeft \in Nat
      BY <2>1, UncountedLeftChanges
    <2>3. QED BY <2>1, <2>2, RanksAreNumbers DEF Ranked, TypeOK
  <1>1. RequestLeft' = RequestLeft
    BY DEF EventStep, HandlesStart, HandlesDisconnect, HandlesAddress, Retries, ReadsCounter,
           WritesCounter, GivesUp, Reports, Notifies, credentials, station, RequestLeft
  <1>2. AddressLeft' = AddressLeft
    BY DEF EventStep, HandlesStart, HandlesDisconnect, HandlesAddress, Retries, ReadsCounter,
           WritesCounter, GivesUp, Reports, Notifies, Connects, ConnectFails, driver, AddressLeft
  <1>3. CASE HandlesStart \/ HandlesAddress
    <2>1. \E e \in {"STA_START", "STA_GOT_IP"} : Takes(e)
      BY <1>3 DEF HandlesStart, HandlesAddress
    <2>2. UncountedLeft' < UncountedLeft /\ UncountedLeft' \in Nat
      BY <1>0, <2>1, UncountedLeftChanges
    <2>3. QED BY <1>1, <1>2, <2>2, Lexicographic DEF Left
  <1>4. CASE HandlesDisconnect
    <2>1. /\ Takes("STA_DISCONNECTED") /\ event = "idle" /\ event' \in {"retrying", "failing"}
          /\ UNCHANGED <<retry_count, link>>
      BY <1>4 DEF HandlesDisconnect, Takes, station
    <2>2. Len(events') = Len(events) - 1 /\ Len(events') \in Nat
      BY <1>0, <2>1 DEF Takes, TypeOK
    <2>3. UncountedLeft' = UncountedLeft
      BY <1>0, <2>1, UncountedLeftChanges
    <2>4. RetriesLeft' = RetriesLeft
      BY <2>1 DEF RetriesLeft
    <2>5. EventsLeft' < EventsLeft
      <3>1. EventLeft[event] \in 0 .. 5 /\ (EventLeft[event])' \in 0 .. 5
        BY <2>1 DEF EventLeft
      <3>2. (LinkLeft[link])' = LinkLeft[link]
        BY <2>1 DEF LinkLeft
      <3>3. EventsLeft' = 6 * Len(events') + (EventLeft[event])' + LinkLeft[link]
        BY <3>2 DEF EventsLeft
      <3>4. 6 * Len(events') + (EventLeft[event])' + LinkLeft[link]
              < 6 * Len(events) + EventLeft[event] + LinkLeft[link]
        <4> DEFINE n == Len(events)
                   m == Len(events')
                   e == EventLeft[event]
                   f == (EventLeft[event])'
                   l == LinkLeft[link]
        <4>1. /\ n \in Nat /\ m \in Nat /\ e \in 0 .. 5 /\ f \in 0 .. 5 /\ l \in 0 .. 8
              /\ m = n - 1
          BY <1>0, <2>2, <3>1
        <4> HIDE DEF n, m, e, f, l
        <4>2. 6 * m + f + l < 6 * n + e + l
          BY <4>1, EventsFirst
        <4>3. QED BY <4>2 DEF n, m, e, f, l
      <3>5. QED BY <3>3, <3>4 DEF EventsLeft
    <2>6. QED BY <1>0, <1>1, <1>2, <2>3, <2>4, <2>5, Lexicographic DEF Left
  <1>5. CASE EventStep /\ ~HandlesStart /\ ~HandlesAddress /\ ~HandlesDisconnect
    <2>0. UncountedLeft' = UncountedLeft
      <3>1. events' = events
        BY <1>5 DEF EventStep, Retries, ReadsCounter, WritesCounter, GivesUp, Reports, Notifies, driver
      <3>2. QED BY <1>0, <3>1, UncountedLeftChanges
    <2>1. CASE Retries
      <3>1. event = "retrying" /\ event' = "reading" /\ retry_count' = retry_count
        BY <2>1 DEF Retries, station
      <3>2. RetriesLeft' < RetriesLeft
        BY <1>0, <3>1, RetryAssumption DEF RetriesLeft
      <3>3. QED BY <1>0, <1>1, <1>2, <2>0, <3>2, Lexicographic DEF Left
    <2>2. CASE WritesCounter
      <3>1. /\ event = "counting" /\ event' = "CONNECTING" /\ retry_count' = counted + 1
            /\ retry_count <= counted /\ UNCHANGED <<link, events>>
        BY <2>2 DEF WritesCounter, driver, WorkInv, CountInv
      <3>2. RetriesLeft' = RetriesLeft \/ RetriesLeft' < RetriesLeft
        BY <1>0, <3>1, RetryAssumption DEF RetriesLeft
      <3>3. EventsLeft' < EventsLeft
        BY <1>0, <3>1 DEF EventsLeft, EventLeft
      <3>4. QED BY <1>0, <1>1, <1>2, <2>0, <3>2, <3>3, Lexicographic DEF Left
    <2>3. CASE ReadsCounter \/ GivesUp \/ Reports \/ Notifies
      <3>1. /\ UNCHANGED <<retry_count, link, events>>
            /\ \/ event = "reading" /\ event' = "counting"
               \/ event = "failing" /\ event' = "FAILED"
               \/ event = "reporting" /\ event' = "CONNECTED"
               \/ event \in {"CONNECTING", "FAILED", "CONNECTED"} /\ event' = "idle"
        BY <1>0, <2>3
        DEF ReadsCounter, GivesUp, Reports, Notifies, station, driver, Status, TypeOK, EventSteps
      <3>2. RetriesLeft' = RetriesLeft
        BY <3>1 DEF RetriesLeft
      <3>3. EventsLeft' < EventsLeft
        <4>1. /\ EventLeft[event] \in 0 .. 5 /\ (EventLeft[event])' \in 0 .. 5
              /\ (EventLeft[event])' < EventLeft[event]
          BY <3>1 DEF EventLeft
        <4>2. (LinkLeft[link])' = LinkLeft[link] /\ Len(events') = Len(events)
          BY <3>1 DEF LinkLeft
        <4>3. EventsLeft' = 6 * Len(events) + (EventLeft[event])' + LinkLeft[link]
          BY <4>2 DEF EventsLeft
        <4>4. QED BY <1>0, <4>1, <4>3, EventsFirst DEF EventsLeft
      <3>4. QED BY <1>0, <1>1, <1>2, <2>0, <3>2, <3>3, Lexicographic DEF Left
    <2>4. QED BY <1>5, <2>1, <2>2, <2>3 DEF EventStep
  <1>6. QED BY <1>3, <1>4, <1>5

\* Retrying comes to an end, for every number of retries and every queue: every step
\* but a new request, a lost link and a restart leaves less to do.
THEOREM WorkRunsOutAlways == Spec => WorkRunsOut
  <1>1. ASSUME WorkInv, Ranked', [Next]_vars
        PROVE  [Asks \/ LosesLink \/ Restart \/ Precedes(Left', Left)]_vars
    <2>1. CASE Start \/ ConnectStep
      <3>1. RequestLeft' < RequestLeft /\ RequestLeft' \in Nat
        BY <1>1, <2>1, RequestDescends DEF Ranked
      <3>2. QED BY <3>1, Lexicographic DEF Left
    <2>2. CASE AirAnswers
      BY <1>1, <2>2, DriverDescends
    <2>3. CASE EventStep
      BY <1>1, <2>3, HandlerDescends
    <2>4. QED BY <1>1, <2>1, <2>2, <2>3 DEF Next
  <1>2. QED BY <1>1, RanksAreNumbers, InitWorkInv, StepWorkInv, PTL DEF Spec, WorkRunsOut

-----------------------------------------------------------------------------
(* The end of the work.  When only steps that leave less to do remain, the ranks *)
(* come to rest one after the other, and then there are no steps at all; whatever *)
(* is on its way would be a task that fairness lets take one.                     *)

WorkEnds ==
    /\ StopsFalling(RequestLeft, vars)
    /\ StopsFalling(AddressLeft, vars)
    /\ StopsFalling(UncountedLeft, vars)
    /\ StopsFalling(RetriesLeft, vars)
    /\ StopsFalling(EventsLeft, vars)

RanksAreNaturals == Ranked /\ UncountedLeft \in Nat

LEMMA AllRanksAreNumbers == WorkInv => RanksAreNaturals
  <1> SUFFICES ASSUME WorkInv PROVE RanksAreNaturals
    OBVIOUS
  <1>1. events \in Seq(Events)
    BY DEF WorkInv, StatusInv, PromiseInv, TypeInv, TypeOK
  <1>2. UncountedLeft = Cardinality(Others(events)) /\ Cardinality(Others(events)) \in Nat
    BY <1>1, OthersCounted DEF UncountedLeft, Others
  <1>3. QED BY <1>2, RanksAreNumbers DEF RanksAreNaturals

\* A step that leaves less to do lowers a rank and leaves those before it alone.
LEMMA RanksComeToRest ==
    WorkEnds /\ []RanksAreNaturals /\ [][Precedes(Left', Left)]_vars => <>[][FALSE]_vars
  <1> DEFINE A == RequestLeft
             B == AddressLeft
             C == UncountedLeft
             D == RetriesLeft
             E == EventsLeft
  <1>1. RanksAreNaturals => A \in Nat /\ B \in Nat /\ C \in Nat /\ D \in Nat /\ E \in Nat
    BY DEF RanksAreNaturals, Ranked
  <1>2. ASSUME RanksAreNaturals, RanksAreNaturals', [Precedes(Left', Left)]_vars
        PROVE  /\ [A' <= A]_vars
               /\ [A' = A]_vars => [B' <= B]_vars
               /\ [A' = A]_vars /\ [B' = B]_vars => [C' <= C]_vars
               /\ [A' = A]_vars /\ [B' = B]_vars /\ [C' = C]_vars => [D' <= D]_vars
               /\ [A' = A]_vars /\ [B' = B]_vars /\ [C' = C]_vars /\ [D' = D]_vars => [E' <= E]_vars
               /\ [A' = A]_vars /\ [B' = B]_vars /\ [C' = C]_vars /\ [D' = D]_vars /\ [E' = E]_vars
                    => [FALSE]_vars
    <2>1. CASE UNCHANGED vars
      BY <2>1
    <2>2. CASE Precedes(Left', Left)
      <3>1. PICK i \in 1 .. 5 : /\ Left'[i] < Left[i]
                                /\ \A j \in 1 .. i - 1 : Left'[j] = Left[j]
        BY <2>2 DEF Precedes
      <3>2. /\ Left[1] = A /\ Left[2] = B /\ Left[3] = C /\ Left[4] = D /\ Left[5] = E
            /\ Left'[1] = A' /\ Left'[2] = B' /\ Left'[3] = C' /\ Left'[4] = D' /\ Left'[5] = E'
        BY DEF Left
      <3>3. /\ A \in Nat /\ B \in Nat /\ C \in Nat /\ D \in Nat /\ E \in Nat
            /\ A' \in Nat /\ B' \in Nat /\ C' \in Nat /\ D' \in Nat /\ E' \in Nat
        BY <1>2 DEF RanksAreNaturals, Ranked
      <3> HIDE DEF A, B, C, D, E
      <3>4. i = 1 \/ i = 2 \/ i = 3 \/ i = 4 \/ i = 5
        OBVIOUS
      <3>5. CASE i = 1
        BY <3>1, <3>2, <3>3, <3>5
      <3>6. CASE i = 2
        <4>1. A' = A /\ B' < B
          BY <3>1, <3>2, <3>6
        <4>2. QED BY <3>3, <4>1
      <3>7. CASE i = 3
        <4>1. A' = A /\ B' = B /\ C' < C
          BY <3>1, <3>2, <3>7
        <4>2. QED BY <3>3, <4>1
      <3>8. CASE i = 4
        <4>1. A' = A /\ B' = B /\ C' = C /\ D' < D
          BY <3>1, <3>2, <3>8
        <4>2. QED BY <3>3, <4>1
      <3>9. CASE i = 5
        <4>1. A' = A /\ B' = B /\ C' = C /\ D' = D /\ E' < E
          BY <3>1, <3>2, <3>9
        <4>2. QED BY <3>3, <4>1
      <3>10. QED BY <3>4, <3>5, <3>6, <3>7, <3>8, <3>9
    <2>3. QED BY <1>2, <2>1, <2>2
  <1> HIDE DEF A, B, C, D, E
  <1>3. WorkEnds => /\ StopsFalling(A, vars) /\ StopsFalling(B, vars) /\ StopsFalling(C, vars)
                    /\ StopsFalling(D, vars) /\ StopsFalling(E, vars)
    BY DEF WorkEnds, A, B, C, D, E
  <1>4. QED BY <1>1, <1>2, <1>3, PTL DEF StopsFalling

\* Where nothing happens any more nothing was left to do.
LEMMA RestIsQuiet ==
    []TypeOK /\ []NobodyStuck /\ [][FALSE]_vars /\ Fairness => []Quiet
  <1> DEFINE Boots == ~started
             Handling == event # "idle" \/ events # << >>
             Asked == httpd # "idle" /\ events = << >>
             Joining == link \in {"joining", "joined"} /\ httpd = "idle" /\ events = << >>
  <1>1. TypeOK => Quiet \/ Handling \/ Asked \/ Joining
    BY DEF TypeOK, Quiet, Links
  <1>2. NobodyStuck =>
            /\ Handling => ENABLED <<EventStep>>_vars
            /\ Asked => ENABLED <<ConnectStep>>_vars
            /\ Joining => ENABLED <<AirAnswers>>_vars
    BY DEF NobodyStuck
  <1>3. [FALSE]_vars =>
            /\ Handling => Handling'
            /\ Asked => Asked'
            /\ Joining => Joining'
    BY DEF vars, station, driver
  <1> HIDE DEF Handling, Asked, Joining
  <1>4. [FALSE]_vars => ~<<EventStep>>_vars /\ ~<<ConnectStep>>_vars /\ ~<<AirAnswers>>_vars
    OBVIOUS
  <1>5. QED BY <1>1, <1>2, <1>3, <1>4, PTL DEF Fairness

\* The station comes to rest, for every number of retries and every queue.
THEOREM StatusSettlesFairly == Spec /\ []NobodyStuck /\ WorkEnds => StatusSettles
  <1>1. Spec => []TypeOK
    BY TypeCorrect
  <1>2. Spec => []RanksAreNaturals
    BY AllRanksAreNumbers, InitWorkInv, StepWorkInv, PTL DEF Spec
  <1>3. Spec => [][Asks \/ LosesLink \/ Restart \/ Precedes(Left', Left)]_vars
    BY WorkRunsOutAlways DEF WorkRunsOut
  <1>4. [Asks \/ LosesLink \/ Restart \/ Precedes(Left', Left)]_vars
            /\ [~Asks /\ ~LosesLink /\ ~Restart]_vars => [Precedes(Left', Left)]_vars
    OBVIOUS
  <1>5. Fairness => []Fairness
    BY PTL DEF Fairness
  <1>6. WorkEnds => []WorkEnds
    BY PTL DEF WorkEnds, StopsFalling
  <1>7. QED
    BY <1>1, <1>2, <1>3, <1>4, <1>5, <1>6, RanksComeToRest, RestIsQuiet, PTL
    DEF Spec, StatusSettles
=============================================================================
