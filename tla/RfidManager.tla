---------------------------- MODULE RfidManager ----------------------------
(***************************************************************************)
(* The RFID card manager (components/rfid_manager/rfid_manager.c): a fixed *)
(* array of card slots in RAM, written back to one SPIFFS file by a        *)
(* deferred save.  Three tasks meet here:                                  *)
(*                                                                         *)
(*   main       rfid_manager_init() at boot, then rfid_manager_process()   *)
(*              once per turn of the application loop;                     *)
(*   httpd      the single HTTP server task, which calls every other       *)
(*              operation from its request handlers;                       *)
(*   esp_timer  runs the one-shot write timer's callback.                  *)
(*                                                                         *)
(* rfid_mutex protects the array and is_dirty; is_ready_to_write is shared *)
(* by main and the timer without it.  An operation that only touches RAM   *)
(* is one action, enabled when the mutex is free.  A save takes long and   *)
(* can fail half-way, so save_to_file is split at fopen, fwrite and fclose *)
(* and the mutex is held from the first to the last.  A caller whose wait  *)
(* for the mutex times out changes nothing, which is a stuttering step,    *)
(* except in main, whose program counter moves (ProcessTimeout).           *)
(***************************************************************************)
EXTENDS Integers, Sequences, FiniteSets

CONSTANTS
    RFID_MAX_CARDS,     \* slots in the array (200 in rfid_manager.h)
    CardIds,            \* the card ids a client may name, all different from 0
    DefaultCards,       \* the ids of default_cards[], in order
    Stamps,             \* what time() may return; 0 marks a card never used
    TimerOutlastsMain,  \* TRUE: main needs less than the 5 s write timeout to go
                        \* from giving the mutex back to clearing is_ready_to_write
    Deinits             \* TRUE: the main task may also call rfid_manager_deinit(),
                        \* as the component's tests do and the firmware does not

NoId == 0

ASSUME SlotsAssumption == RFID_MAX_CARDS \in Nat \ {0}
ASSUME IdsAssumption == NoId \notin CardIds
ASSUME DefaultsAssumption ==
    /\ DefaultCards \in Seq(CardIds)
    /\ \A m, n \in 1..Len(DefaultCards) :
           DefaultCards[m] = DefaultCards[n] => m = n
ASSUME StampsAssumption == 0 \in Stamps
ASSUME EnvironmentAssumption ==
    /\ TimerOutlastsMain \in BOOLEAN
    /\ Deinits \in BOOLEAN

-----------------------------------------------------------------------------
(* The card array and its file image. *)

Slots == 0 .. RFID_MAX_CARDS - 1

Card == [card_id: CardIds \cup {NoId}, active: BOOLEAN, timestamp: Stamps]
Database == [Slots -> Card]

\* Mutant: a slot that was never used, filled with 0xFF instead of zeroes.
ErasedCard == [card_id |-> -1, active |-> TRUE, timestamp |-> -1]

NoCard == [card_id |-> NoId, active |-> FALSE, timestamp |-> 0]
ZeroedDatabase == [i \in Slots |-> NoCard]

\* What load_defaults leaves in the array: the default cards in the first
\* slots, as many as fit, and zeroes after them.
DefaultDatabase ==
    [i \in Slots |-> IF i < Len(DefaultCards)
                     THEN [card_id |-> DefaultCards[i + 1], active |-> TRUE, timestamp |-> 0]
                     ELSE NoCard]

\* rfid_cards.dat: not there, shorter than the array (fopen "wb" truncates it,
\* an interrupted or failed write leaves it short), or a whole image.
File == [state: {"absent", "short", "whole"}, cards: Database]
AbsentFile == [state |-> "absent", cards |-> ZeroedDatabase]
ShortFile == [state |-> "short", cards |-> ZeroedDatabase]
WholeFile(db) == [state |-> "whole", cards |-> db]

\* Mutant: load_from_file without the test of fread's result, which takes what a
\* short file holds and the zeroes after it for the image.
LoadableIfPresent(f) == f.state # "absent"

\* load_from_file accepts a file only if fread returns all the slots.
Loadable(f) == f.state = "whole"

\* The array the next boot ends with when the file can be read: the image, or
\* else the defaults.
Recovered(f) == IF Loadable(f) THEN f.cards ELSE DefaultDatabase

-----------------------------------------------------------------------------
VARIABLES
    rfid_database,      \* the card array in RAM
    rfid_cards_dat,     \* /spiffs/rfid_cards.dat
    rfid_mutex,         \* the task holding the mutex, or "free"
    is_dirty,           \* RAM has changes no save has written
    rfid_write_timer,   \* TRUE while the one-shot timer is armed
    is_ready_to_write,  \* set by the timer, cleared by rfid_manager_process
    main,               \* where the main task is, see Main below
    save,               \* how far the running save_to_file is, "none" if none runs
    format_failed       \* history: a format_database told its caller that it
                        \* could not save, and no save has succeeded since

vars == <<rfid_database, rfid_cards_dat, rfid_mutex, is_dirty, rfid_write_timer,
          is_ready_to_write, main, save, format_failed>>

\* The cards, in RAM and in the file.
stored == <<rfid_database, rfid_cards_dat>>

\* The deferred write: what says that a save is due.
pending == <<is_dirty, rfid_write_timer, is_ready_to_write>>

\* "boot"     inside rfid_manager_init
\* "idle"     between two calls of rfid_manager_process
\* "waiting"  in write_into_memory, waiting for the mutex
\* "saving"   in write_into_memory, holding it and saving
\* "clearing" write_into_memory has returned ESP_OK; the flag is not cleared yet
Main == {"boot", "idle", "waiting", "saving", "clearing"}

TypeOK ==
    /\ rfid_database \in Database
    /\ rfid_cards_dat \in File
    /\ rfid_mutex \in {"free", "main", "httpd"}
    /\ is_dirty \in BOOLEAN
    /\ rfid_write_timer \in BOOLEAN
    /\ is_ready_to_write \in BOOLEAN
    /\ main \in Main
    /\ save \in {"none", "open", "write", "close"}
    /\ format_failed \in BOOLEAN

\* Power-on of a device whose SPIFFS partition holds no card file yet.
Init ==
    /\ rfid_database = ZeroedDatabase
    /\ rfid_cards_dat = AbsentFile
    /\ rfid_mutex = "free"
    /\ is_dirty = FALSE
    /\ rfid_write_timer = FALSE
    /\ is_ready_to_write = FALSE
    /\ main = "boot"
    /\ save = "none"
    /\ format_failed = FALSE

-----------------------------------------------------------------------------
(* Lookups.  The code scans the slots upwards and stops at the first match. *)

Authorizes(card, id) == card.card_id = id /\ card.active
Authorized(db) == {id \in CardIds \cup {NoId} : \E i \in Slots : Authorizes(db[i], id)}

\* The slot remove_card and check_card stop at.
FirstAuthorizing(db, id, i) ==
    Authorizes(db[i], id) /\ \A j \in 0 .. i - 1 : ~Authorizes(db[j], id)

\* The slot add_card overwrites: never used, or of a removed card.
Reusable(card) == card.card_id = NoId \/ ~card.active
FirstReusable(db, i) == Reusable(db[i]) /\ \A j \in 0 .. i - 1 : ~Reusable(db[j])

\* Mutant: add_card's search for the id looks at active slots only.
KnownIfActive(db, id) == \E i \in Slots : Authorizes(db[i], id) /\ id # NoId

\* add_card refuses an id that any slot holds, removed cards included.
Known(db, id) == \E i \in Slots : db[i].card_id = id /\ id # NoId

\* Mutant: get_card answers for removed cards too.
GetFindsRemoved(db, id) == \E i \in Slots : db[i].card_id = id

\* get_card answers from the first slot with the id, active or not.
GetFinds(db, id) ==
    \E i \in Slots : /\ db[i].card_id = id
                     /\ \A j \in 0 .. i - 1 : db[j].card_id # id
                     /\ db[i].active

\* The slots rfid_manager_get_card_count counts and list_cards and
\* get_card_list_json report.
ListedSlots(db) == {i \in Slots : db[i].active /\ db[i].card_id # NoId}

-----------------------------------------------------------------------------
(* save_to_file, called with the mutex held. *)

Lock(task) == rfid_mutex = "free" /\ rfid_mutex' = task

\* What the caller does with the result of the save before it gives the mutex back.
\* rfid_manager_format_database returns it to its caller.
FormatReturns(ok) ==
    /\ rfid_mutex = "httpd"
    /\ format_failed' = ~ok
    /\ UNCHANGED <<rfid_database, pending, main>>

\* rfid_manager_init is done...
InitReturnsOk ==
    /\ rfid_mutex = "main" /\ main = "boot"
    /\ main' = "idle"
    /\ is_dirty' = FALSE
    /\ format_failed' = FALSE
    /\ UNCHANGED <<rfid_database, rfid_write_timer, is_ready_to_write>>

\* ...or has failed, which is fatal: main.c wraps it in ESP_ERROR_CHECK, which
\* aborts, and the chip restarts with zeroed RAM.
InitReturnsError ==
    /\ rfid_mutex = "main" /\ main = "boot"
    /\ rfid_database' = ZeroedDatabase
    /\ is_dirty' = FALSE
    /\ rfid_write_timer' = FALSE
    /\ is_ready_to_write' = FALSE
    /\ UNCHANGED <<main, format_failed>>

\* Mutant: write_into_memory clears is_dirty whatever the save returned.
ProcessForgetsFailure(ok) ==
    /\ rfid_mutex = "main" /\ main = "saving"
    /\ main' = IF ok THEN "clearing" ELSE "idle"
    /\ is_dirty' = FALSE
    /\ format_failed' = (format_failed /\ ~ok)
    /\ UNCHANGED <<rfid_database, rfid_write_timer, is_ready_to_write>>

\* Mutant: rfid_manager_process clears is_ready_to_write after a failed save too.
ProcessAlwaysClears(ok) ==
    /\ rfid_mutex = "main" /\ main = "saving"
    /\ main' = "clearing"
    /\ is_dirty' = ~ok
    /\ format_failed' = (format_failed /\ ~ok)
    /\ UNCHANGED <<rfid_database, rfid_write_timer, is_ready_to_write>>

\* write_into_memory clears is_dirty if the save succeeded.
ProcessReturns(ok) ==
    /\ rfid_mutex = "main" /\ main = "saving"
    /\ main' = IF ok THEN "clearing" ELSE "idle"
    /\ is_dirty' = ~ok
    /\ format_failed' = (format_failed /\ ~ok)
    /\ UNCHANGED <<rfid_database, rfid_write_timer, is_ready_to_write>>

\* Mutant: the error paths return without giving the mutex back.
SaveReturnsLocked(ok) ==
    /\ save' = "none"
    /\ rfid_mutex' = IF ok THEN "free" ELSE rfid_mutex
    /\ \/ FormatReturns(ok)
       \/ ok /\ InitReturnsOk
       \/ ~ok /\ InitReturnsError
       \/ ProcessReturns(ok)

SaveReturns(ok) ==
    /\ save' = "none"
    /\ rfid_mutex' = "free"
    /\ \/ FormatReturns(ok)
       \/ ok /\ InitReturnsOk
       \/ ~ok /\ InitReturnsError
       \/ ProcessReturns(ok)

\* fopen(..., "wb") truncates the file, or fails and leaves it alone.
SaveOpens ==
    /\ save = "open"
    /\ save' = "write"
    /\ rfid_cards_dat' = ShortFile
    /\ UNCHANGED <<rfid_database, rfid_mutex, pending, main, format_failed>>

SaveOpenFails ==
    /\ save = "open"
    /\ SaveReturns(FALSE)
    /\ UNCHANGED rfid_cards_dat

\* fwrite accepts all the slots; they may or may not be on flash before fclose.
SaveWrites ==
    /\ save = "write"
    /\ save' = "close"
    /\ rfid_cards_dat' \in {ShortFile, WholeFile(rfid_database)}
    /\ UNCHANGED <<rfid_database, rfid_mutex, pending, main, format_failed>>

\* A short fwrite.
SaveWriteFails ==
    /\ save = "write"
    /\ SaveReturns(FALSE)
    /\ UNCHANGED rfid_cards_dat

SaveCloses ==
    /\ save = "close"
    /\ rfid_cards_dat' = WholeFile(rfid_database)
    /\ SaveReturns(TRUE)

SaveCloseFails ==
    /\ save = "close"
    /\ rfid_cards_dat' \in {rfid_cards_dat, WholeFile(rfid_database)}
    /\ SaveReturns(FALSE)

SaveStep ==
    \/ SaveOpens \/ SaveOpenFails
    \/ SaveWrites \/ SaveWriteFails
    \/ SaveCloses \/ SaveCloseFails

-----------------------------------------------------------------------------
(* The main task. *)

\* rfid_manager_init reads a whole image into the array...
InitLoadsFile ==
    /\ main = "boot"
    /\ rfid_mutex = "free"
    /\ Loadable(rfid_cards_dat)
    /\ rfid_database' = rfid_cards_dat.cards
    /\ is_dirty' = FALSE
    /\ format_failed' = FALSE
    /\ main' = "idle"
    /\ UNCHANGED <<rfid_cards_dat, rfid_mutex, rfid_write_timer, is_ready_to_write, save>>

\* ...and with none, a short one, or one that it cannot open or read this time,
\* starts load_defaults.
InitLoadsDefaults ==
    /\ main = "boot"
    /\ Lock("main")
    /\ rfid_database' = DefaultDatabase
    /\ save' = "open"
    /\ UNCHANGED <<rfid_cards_dat, pending, main, format_failed>>

\* rfid_manager_process finds is_ready_to_write set and calls write_into_memory.
\* With the flag clear the call does nothing.
Process ==
    /\ main = "idle"
    /\ is_ready_to_write
    /\ main' = "waiting"
    /\ UNCHANGED <<stored, rfid_mutex, pending, save, format_failed>>

\* write_into_memory gets the mutex and has something to save.
ProcessSaves ==
    /\ main = "waiting"
    /\ Lock("main")
    /\ is_dirty
    /\ save' = "open"
    /\ main' = "saving"
    /\ UNCHANGED <<stored, pending, format_failed>>

\* It gets the mutex, finds nothing to save and returns ESP_OK.
ProcessFindsClean ==
    /\ main = "waiting"
    /\ rfid_mutex = "free"
    /\ ~is_dirty
    /\ main' = "clearing"
    /\ UNCHANGED <<stored, rfid_mutex, pending, save, format_failed>>

\* Mutant: write_into_memory waits for the mutex without limit.
ProcessWaitsOn ==
    /\ main = "waiting"
    /\ rfid_mutex # "free"
    /\ UNCHANGED vars

\* The 1000 ms wait runs out; the flag stays set and the next call tries again.
ProcessTimeout ==
    /\ main = "waiting"
    /\ rfid_mutex # "free"
    /\ main' = "idle"
    /\ UNCHANGED <<stored, rfid_mutex, pending, save, format_failed>>

\* Back in rfid_manager_process, without the mutex.
ProcessClears ==
    /\ main = "clearing"
    /\ is_ready_to_write' = FALSE
    /\ main' = "idle"
    /\ UNCHANGED <<stored, rfid_mutex, is_dirty, rfid_write_timer, save, format_failed>>

\* rfid_manager_deinit followed by the next rfid_manager_init: the timer goes,
\* the statics stay.
Deinit ==
    /\ Deinits
    /\ main = "idle"
    /\ rfid_mutex = "free"
    /\ rfid_write_timer' = FALSE
    /\ main' = "boot"
    /\ UNCHANGED <<stored, rfid_mutex, is_dirty, is_ready_to_write, save, format_failed>>

MainStep ==
    \/ InitLoadsFile \/ InitLoadsDefaults
    \/ Process \/ ProcessSaves \/ ProcessFindsClean \/ ProcessTimeout \/ ProcessClears
    \/ Deinit

-----------------------------------------------------------------------------
(* The HTTP server task; it starts after rfid_manager_init has returned. *)

HttpMayEnter == main # "boot" /\ rfid_mutex = "free"

\* Mutant: the timer is not armed.
MarkDirtyOnly ==
    /\ is_dirty' = TRUE
    /\ UNCHANGED rfid_write_timer

\* is_dirty = true; esp_timer_stop; esp_timer_start_once, assumed to succeed: the timer
\* exists and is stopped.
MarkDirty ==
    /\ is_dirty' = TRUE
    /\ rfid_write_timer' = TRUE

\* rfid_manager_add_card; refuses a known id and a full array.
AddCard(id) ==
    /\ HttpMayEnter
    /\ ~Known(rfid_database, id)
    /\ \E i \in Slots, now \in Stamps :
         /\ FirstReusable(rfid_database, i)
         /\ rfid_database' = [rfid_database EXCEPT ![i] =
                                [card_id |-> id, active |-> TRUE, timestamp |-> now]]
    /\ MarkDirty
    /\ UNCHANGED <<rfid_cards_dat, rfid_mutex, is_ready_to_write, main, save, format_failed>>

\* rfid_manager_remove_card; id 0 is what the handler passes for a missing id.
RemoveCard(id) ==
    /\ HttpMayEnter
    /\ \E i \in Slots :
         /\ FirstAuthorizing(rfid_database, id, i)
         /\ rfid_database' = [rfid_database EXCEPT ![i].active = FALSE]
    /\ MarkDirty
    /\ UNCHANGED <<rfid_cards_dat, rfid_mutex, is_ready_to_write, main, save, format_failed>>

\* rfid_manager_check_card; the new timestamp does not make the array dirty.
CheckCard(id) ==
    /\ HttpMayEnter
    /\ \E i \in Slots, now \in Stamps :
         /\ FirstAuthorizing(rfid_database, id, i)
         /\ rfid_database' = [rfid_database EXCEPT ![i].timestamp = now]
    /\ UNCHANGED <<rfid_cards_dat, rfid_mutex, pending, main, save, format_failed>>

\* rfid_manager_format_database up to its save; is_dirty and the timer stay.
FormatDatabase ==
    /\ main # "boot"
    /\ Lock("httpd")
    /\ rfid_database' = DefaultDatabase
    /\ save' = "open"
    /\ UNCHANGED <<rfid_cards_dat, pending, main, format_failed>>

HttpStep ==
    \/ \E id \in CardIds : AddCard(id)
    \/ \E id \in CardIds \cup {NoId} : RemoveCard(id) \/ CheckCard(id)
    \/ FormatDatabase

-----------------------------------------------------------------------------
(* The esp_timer task and the power supply. *)

\* rfid_cache_write_timeout_handler.  When main is about to clear the flag and
\* the array is dirty, the timer was armed after main gave the mutex back.
WriteTimeout ==
    /\ rfid_write_timer
    /\ ~(TimerOutlastsMain /\ main = "clearing" /\ is_dirty)
    /\ rfid_write_timer' = FALSE
    /\ is_ready_to_write' = TRUE
    /\ UNCHANGED <<stored, rfid_mutex, is_dirty, main, save,
                   format_failed>>

\* Power loss, esp_restart or an abort anywhere: RAM is gone, the file is not.
Reboot ==
    /\ rfid_database' = ZeroedDatabase
    /\ rfid_mutex' = "free"
    /\ is_dirty' = FALSE
    /\ rfid_write_timer' = FALSE
    /\ is_ready_to_write' = FALSE
    /\ main' = "boot"
    /\ save' = "none"
    /\ UNCHANGED <<rfid_cards_dat, format_failed>>

Operate == SaveStep \/ MainStep \/ HttpStep \/ WriteTimeout
Next == Operate \/ Reboot

Spec == Init /\ [][Next]_vars

-----------------------------------------------------------------------------
(* Safety. *)

\* A card id other than 0 sits in at most one slot, and an active slot has one.
WellFormed(db) ==
    /\ \A i, j \in Slots :
           db[i].card_id = db[j].card_id /\ db[i].card_id # NoId => i = j
    /\ \A i \in Slots : db[i].active => db[i].card_id # NoId

\* However adds, removals, formats, saves and restarts interleave, neither the
\* array nor the image a restart would load ever holds the same card twice.  All
\* the scans that stop at the first match (remove_card, check_card, get_card)
\* depend on it: a second slot with the id would survive a removal.
UniqueIds ==
    /\ WellFormed(rfid_database)
    /\ rfid_cards_dat.state = "whole" => WellFormed(rfid_cards_dat.cards)

\* get_card, which stops at the first slot with the id, active or not, and
\* check_card, which stops at the first active one, give the same answer for
\* every id, and get_card_count counts each authorized id once.
LookupsAgree ==
    /\ \A id \in CardIds \cup {NoId} :
           GetFinds(rfid_database, id) <=> id \in Authorized(rfid_database)
    /\ Cardinality(ListedSlots(rfid_database)) = Cardinality(Authorized(rfid_database))

SameCards(db1, db2) ==
    \A i \in Slots : /\ db1[i].card_id = db2[i].card_id
                     /\ db1[i].active = db2[i].active

\* When nobody holds the mutex and is_dirty is clear, the file is a whole image
\* of the cards in RAM (timestamps apart: check_card does not mark them dirty),
\* so a restart at that moment loses nothing.  The exception is a format whose
\* save failed: it reports the failure and leaves is_dirty as it was.
CleanMeansDurable ==
    (main # "boot" /\ rfid_mutex = "free" /\ ~is_dirty /\ ~format_failed) =>
        /\ rfid_cards_dat.state = "whole"
        /\ SameCards(rfid_cards_dat.cards, rfid_database)

\* Unsaved changes always have something that will start a save: the armed timer,
\* or a flag that process has yet to act on.  Failed saves, mutex timeouts, and
\* changes made while a save is finishing must not lose the wake-up.
NoLostWakeup ==
    (TimerOutlastsMain /\ main # "boot" /\ is_dirty) =>
        \/ rfid_write_timer
        \/ is_ready_to_write /\ main # "clearing"

-----------------------------------------------------------------------------
(* What the cards are to the outside: see RfidStore. *)

\* The cards that are authorized once the running init, if any, has loaded them.
CurrentlyAuthorized ==
    IF main = "boot" /\ save = "none" THEN Authorized(Recovered(rfid_cards_dat))
                                      ELSE Authorized(rfid_database)

Store == INSTANCE RfidStore WITH
            Ids <- CardIds,
            Defaults <- Authorized(DefaultDatabase),
            authorized <- CurrentlyAuthorized,
            durable <- Authorized(Recovered(rfid_cards_dat))

\* The manager implements the store: a restart, wherever it hits a save, comes
\* back with exactly the set some save completed with, or with the defaults.
StoreSpec == Store!Spec

-----------------------------------------------------------------------------
(* Liveness, while the device stays powered. *)

\* main's own saves.
MainOpens == rfid_mutex = "main" /\ SaveOpens
MainWrites == rfid_mutex = "main" /\ SaveWrites
MainCloses == rfid_mutex = "main" /\ SaveCloses

TimerFires == WF_vars(WriteTimeout)

\* main keeps calling rfid_manager_process and is scheduled inside it.
MainRuns ==
    /\ WF_vars(Process)
    /\ WF_vars(ProcessFindsClean)
    /\ SF_vars(ProcessSaves)
    /\ WF_vars(ProcessClears)

\* A mutex holder runs on and, once in a while, a save that main attempts again and
\* again succeeds at each of its steps.
SavesSucceed ==
    /\ WF_vars(SaveStep)
    /\ SF_vars(MainOpens)
    /\ SF_vars(MainWrites)
    /\ SF_vars(MainCloses)

Fairness == TimerFires /\ MainRuns /\ SavesSucceed

PoweredSpec == Init /\ [][Operate]_vars /\ Fairness

\* The write is never stuck: whoever holds the mutex can go on, and at every point of
\* its way from the armed timer to the closed file some step of the task that has to
\* make it can be taken, whatever failed before.
WriteNeverStuck ==
    /\ rfid_mutex # "free" => ENABLED <<SaveStep>>_vars
    /\ rfid_mutex = "main" =>
           \/ save = "open" /\ ENABLED <<MainOpens>>_vars
           \/ save = "write" /\ ENABLED <<MainWrites>>_vars
           \/ save = "close" /\ ENABLED <<MainCloses>>_vars
    /\ rfid_write_timer /\ main = "idle" => ENABLED <<WriteTimeout>>_vars
    /\ is_ready_to_write /\ main = "idle" => ENABLED <<Process>>_vars
    /\ is_dirty /\ main = "waiting" /\ rfid_mutex = "free" => ENABLED <<ProcessSaves>>_vars
    /\ main = "clearing" => ENABLED <<ProcessClears>>_vars

\* Every change reaches the file: is_dirty does not stay set, provided main's
\* waits for the mutex eventually stop timing out.
ChangesReachFile ==
    <>[][~ProcessTimeout]_vars => (is_dirty ~> ~is_dirty)
=============================================================================
