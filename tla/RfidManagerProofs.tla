------------------------- MODULE RfidManagerProofs -------------------------
(***************************************************************************)
(* Proofs about RfidManager for every number of slots, every set of ids,   *)
(* every list of default cards and both choices of the environment.        *)
(***************************************************************************)
EXTENDS RfidManager, FiniteSetTheorems, TLAPS

-----------------------------------------------------------------------------
(* The constant arrays and files. *)

LEMMA ZeroedDatabaseType == ZeroedDatabase \in Database
  BY StampsAssumption DEF ZeroedDatabase, NoCard, Database, Card

LEMMA DefaultDatabaseType == DefaultDatabase \in Database
  <1>1. ASSUME NEW i \in Slots
        PROVE  DefaultDatabase[i] \in Card
    <2>1. CASE i < Len(DefaultCards)
      <3>1. DefaultCards[i + 1] \in CardIds
        BY <2>1, DefaultsAssumption, SlotsAssumption DEF Slots
      <3>2. QED BY <3>1, <2>1, StampsAssumption DEF DefaultDatabase, Card
    <2>2. CASE ~(i < Len(DefaultCards))
      BY <2>2, StampsAssumption DEF DefaultDatabase, NoCard, Card
    <2>3. QED BY <2>1, <2>2
  <1>2. QED BY <1>1 DEF DefaultDatabase, Database

LEMMA FileTypes ==
    /\ AbsentFile \in File
    /\ ShortFile \in File
    /\ \A db \in Database : WholeFile(db) \in File
  BY ZeroedDatabaseType DEF AbsentFile, ShortFile, WholeFile, File

-----------------------------------------------------------------------------
(* Type correctness. *)

LEMMA SaveReturnsType ==
    ASSUME NEW ok \in BOOLEAN, TypeOK, SaveReturns(ok), rfid_cards_dat' \in File
    PROVE  TypeOK'
  <1> USE DEF TypeOK, Main
  <1>1. CASE FormatReturns(ok)
    BY <1>1 DEF FormatReturns, SaveReturns, pending
  <1>2. CASE InitReturnsOk
    BY <1>2 DEF InitReturnsOk, SaveReturns
  <1>3. CASE InitReturnsError
    BY <1>3, ZeroedDatabaseType DEF InitReturnsError, SaveReturns
  <1>4. CASE ProcessReturns(ok)
    BY <1>4 DEF ProcessReturns, SaveReturns
  <1>5. QED BY <1>1, <1>2, <1>3, <1>4 DEF SaveReturns

LEMMA TypeInductive == TypeOK /\ [Next]_vars => TypeOK'
  <1> SUFFICES ASSUME TypeOK, [Next]_vars PROVE TypeOK'
    OBVIOUS
  <1> USE DEF TypeOK, Main
  <1>1. CASE SaveOpens
    BY <1>1, FileTypes DEF SaveOpens, pending
  <1>2. CASE SaveOpenFails
    BY <1>2, SaveReturnsType DEF SaveOpenFails
  <1>3. CASE SaveWrites
    BY <1>3, FileTypes DEF SaveWrites, pending
  <1>4. CASE SaveWriteFails
    BY <1>4, SaveReturnsType DEF SaveWriteFails
  <1>5. CASE SaveCloses
    BY <1>5, SaveReturnsType, FileTypes DEF SaveCloses
  <1>6. CASE SaveCloseFails
    BY <1>6, SaveReturnsType, FileTypes DEF SaveCloseFails
  <1>7. CASE InitLoadsFile
    BY <1>7 DEF InitLoadsFile, Loadable, File
  <1>8. CASE InitLoadsDefaults
    BY <1>8, DefaultDatabaseType DEF InitLoadsDefaults, Lock, pending
  <1>9. CASE Process
    BY <1>9 DEF Process, stored, pending
  <1>10. CASE ProcessSaves
    BY <1>10 DEF ProcessSaves, Lock, stored, pending
  <1>11. CASE ProcessFindsClean
    BY <1>11 DEF ProcessFindsClean, stored, pending
  <1>12. CASE ProcessTimeout
    BY <1>12 DEF ProcessTimeout, stored, pending
  <1>13. CASE ProcessClears
    BY <1>13 DEF ProcessClears, stored
  <1>14. CASE Deinit
    BY <1>14 DEF Deinit, stored
  <1>15. ASSUME NEW id \in CardIds, AddCard(id) PROVE TypeOK'
    BY <1>15 DEF AddCard, MarkDirty, Database, Card
  <1>16. ASSUME NEW id \in CardIds \cup {NoId}, RemoveCard(id) PROVE TypeOK'
    BY <1>16 DEF RemoveCard, MarkDirty, Database, Card
  <1>17. ASSUME NEW id \in CardIds \cup {NoId}, CheckCard(id) PROVE TypeOK'
    BY <1>17 DEF CheckCard, pending, Database, Card
  <1>18. CASE FormatDatabase
    BY <1>18, DefaultDatabaseType DEF FormatDatabase, Lock, pending
  <1>19. CASE WriteTimeout
    BY <1>19 DEF WriteTimeout, stored
  <1>20. CASE Reboot
    BY <1>20, ZeroedDatabaseType DEF Reboot
  <1>21. CASE UNCHANGED vars
    BY <1>21 DEF vars
  <1>22. QED
    BY <1>1, <1>2, <1>3, <1>4, <1>5, <1>6, <1>7, <1>8, <1>9, <1>10, <1>11, <1>12,
       <1>13, <1>14, <1>15, <1>16, <1>17, <1>18, <1>19, <1>20, <1>21
    DEF Next, Operate, SaveStep, MainStep, HttpStep

\* Every variable of the manager keeps its type, whatever the constants are.
THEOREM TypeCorrect == Spec => []TypeOK
  <1>1. Init => TypeOK
    BY ZeroedDatabaseType, FileTypes DEF Init, TypeOK, Main
  <1>2. QED BY <1>1, TypeInductive, PTL DEF Spec

-----------------------------------------------------------------------------
(* Well-formed arrays. *)

LEMMA ZeroedWellFormed == WellFormed(ZeroedDatabase)
  BY DEF WellFormed, ZeroedDatabase, NoCard

LEMMA DefaultWellFormed == WellFormed(DefaultDatabase)
  <1> DEFINE id(i) == DefaultDatabase[i].card_id
  <1>1. ASSUME NEW i \in Slots, i < Len(DefaultCards)
        PROVE  /\ i + 1 \in 1 .. Len(DefaultCards)
               /\ id(i) = DefaultCards[i + 1]
               /\ id(i) # NoId
    <2>1. i + 1 \in 1 .. Len(DefaultCards)
      BY <1>1, SlotsAssumption, DefaultsAssumption DEF Slots
    <2>2. DefaultCards[i + 1] \in CardIds
      BY <2>1, DefaultsAssumption
    <2>3. QED BY <2>1, <2>2, <1>1, IdsAssumption DEF DefaultDatabase
  <1>2. ASSUME NEW i \in Slots, ~(i < Len(DefaultCards))
        PROVE  id(i) = NoId /\ ~DefaultDatabase[i].active
    BY <1>2 DEF DefaultDatabase, NoCard
  <1>3. ASSUME NEW i \in Slots, NEW j \in Slots, id(i) = id(j), id(i) # NoId
        PROVE  i = j
    <2>1. i < Len(DefaultCards) /\ j < Len(DefaultCards)
      BY <1>2, <1>3
    <2>2. DefaultCards[i + 1] = DefaultCards[j + 1]
      BY <1>1, <1>3, <2>1
    <2>3. i + 1 = j + 1
      BY <1>1, <2>1, <2>2, DefaultsAssumption
    <2>4. QED BY <2>3, SlotsAssumption DEF Slots
  <1>4. ASSUME NEW i \in Slots, DefaultDatabase[i].active
        PROVE  id(i) # NoId
    BY <1>1, <1>2, <1>4
  <1>5. QED BY <1>3, <1>4 DEF WellFormed

\* A card put into any slot of a well-formed array that does not know its id.
LEMMA AddWellFormed ==
    ASSUME NEW db \in Database, WellFormed(db),
           NEW id \in CardIds, ~Known(db, id), NEW i \in Slots, NEW now \in Stamps
    PROVE  WellFormed([db EXCEPT ![i] = [card_id |-> id, active |-> TRUE, timestamp |-> now]])
  <1> DEFINE new == [db EXCEPT ![i] = [card_id |-> id, active |-> TRUE, timestamp |-> now]]
  <1>1. id # NoId
    BY IdsAssumption
  <1>2. /\ new[i].card_id = id
        /\ \A j \in Slots : j # i => new[j] = db[j]
    BY DEF Database
  <1>3. \A j \in Slots : db[j].card_id # id
    BY <1>1 DEF Known
  <1> HIDE DEF new
  <1>4. QED BY <1>1, <1>2, <1>3 DEF WellFormed

\* Changing anything but the id of a slot, without making it active.
LEMMA UpdateWellFormed ==
    ASSUME NEW db \in Database, WellFormed(db), NEW new \in Database,
           \A j \in Slots : /\ new[j].card_id = db[j].card_id
                            /\ new[j].active => db[j].active
    PROVE  WellFormed(new)
  BY DEF WellFormed

-----------------------------------------------------------------------------
(* The inductive invariant. *)

\* How the program counters go together: a save runs exactly while someone holds
\* the mutex; main holds it exactly while it saves; the array main saves at boot
\* is the default one; main only leaves idle with the flag set, and only it
\* clears the flag; what main is saving is dirty.
Control ==
    /\ save = "none" <=> rfid_mutex = "free"
    /\ rfid_mutex = "main" <=> main = "saving" \/ (main = "boot" /\ save # "none")
    /\ main = "boot" /\ save # "none" => rfid_database = DefaultDatabase
    /\ main \in {"waiting", "saving", "clearing"} => is_ready_to_write
    /\ main = "saving" => is_dirty

IInv == TypeOK /\ Control /\ UniqueIds /\ CleanMeansDurable /\ NoLostWakeup

LEMMA InitIInv == Init => IInv
  <1> SUFFICES ASSUME Init PROVE IInv
    OBVIOUS
  <1>1. TypeOK
    BY ZeroedDatabaseType, FileTypes DEF Init, TypeOK, Main
  <1>2. Control /\ CleanMeansDurable /\ NoLostWakeup
    BY DEF Init, Control, CleanMeansDurable, NoLostWakeup
  <1>3. UniqueIds
    BY ZeroedWellFormed DEF Init, UniqueIds, AbsentFile
  <1>4. QED BY <1>1, <1>2, <1>3 DEF IInv

LEMMA SameCardsReflexive == \A db : SameCards(db, db)
  BY DEF SameCards

\* The end of a save, whoever started it, keeps the invariant: it left the file
\* whole and equal to RAM if it reports success.
LEMMA SaveReturnsIInv ==
    ASSUME NEW ok \in BOOLEAN, IInv, SaveReturns(ok), save # "none",
           rfid_cards_dat' \in {rfid_cards_dat, WholeFile(rfid_database)},
           ok => rfid_cards_dat' = WholeFile(rfid_database)
    PROVE  IInv'
  <1> USE DEF IInv
  <1>1. TypeOK'
    BY SaveReturnsType, FileTypes DEF TypeOK
  <1>2. Control'
    BY DEF SaveReturns, FormatReturns, InitReturnsOk, InitReturnsError, ProcessReturns,
           Control, TypeOK, Main, pending
  <1>3. UniqueIds'
    <2>1. WellFormed(rfid_database')
      BY ZeroedWellFormed
      DEF SaveReturns, FormatReturns, InitReturnsOk, InitReturnsError, ProcessReturns,
          UniqueIds
    <2>2. rfid_cards_dat'.state = "whole" => WellFormed(rfid_cards_dat'.cards)
      BY DEF WholeFile, UniqueIds
    <2>3. QED BY <2>1, <2>2 DEF UniqueIds
  <1>4. CleanMeansDurable'
    <2>1. CASE ok
      <3>1. rfid_database' = rfid_database
        BY <2>1 DEF SaveReturns, FormatReturns, InitReturnsOk, ProcessReturns
      <3>2. QED BY <2>1, <3>1, SameCardsReflexive DEF CleanMeansDurable, WholeFile
    <2>2. CASE ~ok
      BY <2>2 DEF SaveReturns, FormatReturns, InitReturnsError, ProcessReturns,
                  CleanMeansDurable
    <2>3. QED BY <2>1, <2>2
  <1>5. NoLostWakeup'
    BY DEF SaveReturns, FormatReturns, InitReturnsOk, InitReturnsError, ProcessReturns,
           Control, NoLostWakeup, TypeOK, pending
  <1>6. QED BY <1>1, <1>2, <1>3, <1>4, <1>5

\* A step that leaves array and file alone and at most makes the array dirtier.
LEMMA QuietIInv ==
    ASSUME IInv, TypeOK', Control', NoLostWakeup', UNCHANGED stored,
           is_dirty' = is_dirty, format_failed' = format_failed,
           rfid_mutex' = "free" /\ main' # "boot" => rfid_mutex = "free" /\ main # "boot"
    PROVE  IInv'
  BY DEF IInv, UniqueIds, CleanMeansDurable, SameCards, stored

LEMMA SaveStepIInv == IInv /\ SaveStep => IInv'
  <1> SUFFICES ASSUME IInv, SaveStep PROVE IInv'
    OBVIOUS
  <1> USE DEF IInv
  <1>0. TypeOK'
    BY TypeInductive DEF Next, Operate
  <1>1. CASE SaveOpens
    BY <1>0, <1>1
    DEF SaveOpens, ShortFile, Control, UniqueIds, CleanMeansDurable, NoLostWakeup, TypeOK, pending
  <1>2. CASE SaveOpenFails
    BY <1>2, SaveReturnsIInv DEF SaveOpenFails
  <1>3. CASE SaveWrites
    BY <1>0, <1>3
    DEF SaveWrites, ShortFile, WholeFile, Control, UniqueIds, CleanMeansDurable, NoLostWakeup,
        TypeOK, pending
  <1>4. CASE SaveWriteFails
    BY <1>4, SaveReturnsIInv DEF SaveWriteFails
  <1>5. CASE SaveCloses
    BY <1>5, SaveReturnsIInv DEF SaveCloses
  <1>6. CASE SaveCloseFails
    BY <1>6, SaveReturnsIInv DEF SaveCloseFails
  <1>7. QED BY <1>1, <1>2, <1>3, <1>4, <1>5, <1>6 DEF SaveStep

LEMMA MainStepIInv == IInv /\ MainStep => IInv'
  <1> SUFFICES ASSUME IInv, MainStep PROVE IInv'
    OBVIOUS
  <1> USE DEF IInv
  <1>0. TypeOK'
    BY TypeInductive DEF Next, Operate
  <1>1. CASE InitLoadsFile
    <2>1. SameCards(rfid_cards_dat'.cards, rfid_database')
      BY <1>1 DEF InitLoadsFile, Loadable, SameCards
    <2>2. QED
      BY <1>0, <1>1, <2>1
      DEF InitLoadsFile, Loadable, Control, UniqueIds, CleanMeansDurable, NoLostWakeup
  <1>2. CASE InitLoadsDefaults
    BY <1>0, <1>2, DefaultWellFormed
    DEF InitLoadsDefaults, Lock, Control, UniqueIds, CleanMeansDurable, NoLostWakeup, pending
  <1>3. CASE Process
    <2>1. Control' /\ NoLostWakeup'
      BY <1>3 DEF Process, Control, NoLostWakeup, stored, pending
    <2>2. QED BY <1>0, <1>3, <2>1, QuietIInv DEF Process, pending
  <1>4. CASE ProcessSaves
    <2>1. Control' /\ NoLostWakeup'
      BY <1>4 DEF ProcessSaves, Lock, Control, NoLostWakeup, stored, pending
    <2>2. QED BY <1>0, <1>4, <2>1, QuietIInv DEF ProcessSaves, Lock, pending
  <1>5. CASE ProcessFindsClean
    <2>1. Control' /\ NoLostWakeup'
      BY <1>5 DEF ProcessFindsClean, Control, NoLostWakeup, stored, pending
    <2>2. QED BY <1>0, <1>5, <2>1, QuietIInv DEF ProcessFindsClean, pending
  <1>6. CASE ProcessTimeout
    <2>1. Control' /\ NoLostWakeup'
      BY <1>6 DEF ProcessTimeout, Control, NoLostWakeup, stored, pending
    <2>2. QED BY <1>0, <1>6, <2>1, QuietIInv DEF ProcessTimeout, pending
  <1>7. CASE ProcessClears
    <2>1. Control' /\ NoLostWakeup'
      BY <1>7 DEF ProcessClears, Control, NoLostWakeup, stored
    <2>2. QED BY <1>0, <1>7, <2>1, QuietIInv DEF ProcessClears
  <1>8. CASE Deinit
    <2>1. Control' /\ NoLostWakeup'
      BY <1>8 DEF Deinit, Control, NoLostWakeup, stored
    <2>2. QED BY <1>0, <1>8, <2>1, QuietIInv DEF Deinit
  <1>9. QED
    BY <1>1, <1>2, <1>3, <1>4, <1>5, <1>6, <1>7, <1>8 DEF MainStep

LEMMA HttpStepIInv == IInv /\ HttpStep => IInv'
  <1> SUFFICES ASSUME IInv, HttpStep PROVE IInv'
    OBVIOUS
  <1> USE DEF IInv
  <1>0. TypeOK'
    BY TypeInductive DEF Next, Operate
  <1>1. ASSUME NEW id \in CardIds, AddCard(id) PROVE IInv'
    <2>1. Control' /\ CleanMeansDurable' /\ NoLostWakeup'
      BY <1>1 DEF AddCard, HttpMayEnter, MarkDirty, Control, CleanMeansDurable, NoLostWakeup
    <2>2. WellFormed(rfid_database')
      <3>1. PICK i \in Slots, now \in Stamps :
              rfid_database' = [rfid_database EXCEPT ![i] =
                                  [card_id |-> id, active |-> TRUE, timestamp |-> now]]
        BY <1>1 DEF AddCard
      <3>2. ~Known(rfid_database, id)
        BY <1>1 DEF AddCard
      <3>3. rfid_database \in Database /\ WellFormed(rfid_database)
        BY DEF TypeOK, UniqueIds
      <3>4. QED BY <3>1, <3>2, <3>3, AddWellFormed
    <2>3. QED BY <1>0, <1>1, <2>1, <2>2 DEF AddCard, UniqueIds
  <1>2. ASSUME NEW id \in CardIds \cup {NoId}, RemoveCard(id) PROVE IInv'
    <2>1. Control' /\ CleanMeansDurable' /\ NoLostWakeup'
      BY <1>2 DEF RemoveCard, HttpMayEnter, MarkDirty, Control, CleanMeansDurable, NoLostWakeup
    <2>2. \A j \in Slots : /\ rfid_database'[j].card_id = rfid_database[j].card_id
                           /\ rfid_database'[j].active => rfid_database[j].active
      BY <1>2 DEF RemoveCard, TypeOK, Database, Card
    <2>3. WellFormed(rfid_database')
      BY <1>0, <2>2, UpdateWellFormed DEF TypeOK, UniqueIds
    <2>4. QED BY <1>0, <1>2, <2>1, <2>3 DEF RemoveCard, UniqueIds
  <1>3. ASSUME NEW id \in CardIds \cup {NoId}, CheckCard(id) PROVE IInv'
    <2>1. \A j \in Slots : /\ rfid_database'[j].card_id = rfid_database[j].card_id
                           /\ rfid_database'[j].active = rfid_database[j].active
      BY <1>3 DEF CheckCard, TypeOK, Database, Card
    <2>2. Control' /\ NoLostWakeup'
      BY <1>3 DEF CheckCard, HttpMayEnter, Control, NoLostWakeup, pending
    <2>3. CleanMeansDurable'
      BY <1>3, <2>1 DEF CheckCard, CleanMeansDurable, SameCards, pending
    <2>4. WellFormed(rfid_database')
      BY <1>0, <2>1, UpdateWellFormed DEF TypeOK, UniqueIds
    <2>5. QED BY <1>0, <1>3, <2>2, <2>3, <2>4 DEF CheckCard, UniqueIds
  <1>4. CASE FormatDatabase
    BY <1>0, <1>4, DefaultWellFormed
    DEF FormatDatabase, Lock, Control, UniqueIds, CleanMeansDurable, NoLostWakeup, pending
  <1>5. QED BY <1>1, <1>2, <1>3, <1>4 DEF HttpStep

LEMMA StepIInv == IInv /\ [Next]_vars => IInv'
  <1> SUFFICES ASSUME IInv, [Next]_vars PROVE IInv'
    OBVIOUS
  <1>1. CASE SaveStep
    BY <1>1, SaveStepIInv
  <1>2. CASE MainStep
    BY <1>2, MainStepIInv
  <1>3. CASE HttpStep
    BY <1>3, HttpStepIInv
  <1>4. CASE WriteTimeout
    <2>1. TypeOK'
      BY <1>4, TypeInductive DEF IInv, Next, Operate
    <2>2. Control' /\ NoLostWakeup'
      BY <1>4 DEF IInv, WriteTimeout, Control, NoLostWakeup, stored, TypeOK
    <2>3. QED BY <1>4, <2>1, <2>2, QuietIInv DEF WriteTimeout
  <1>5. CASE Reboot
    BY <1>5, ZeroedWellFormed, TypeInductive
    DEF Reboot, IInv, Control, UniqueIds, CleanMeansDurable, NoLostWakeup, Next
  <1>6. CASE UNCHANGED vars
    BY <1>6
    DEF vars, IInv, TypeOK, Control, UniqueIds, CleanMeansDurable, NoLostWakeup
  <1>7. QED BY <1>1, <1>2, <1>3, <1>4, <1>5, <1>6 DEF Next, Operate

LEMMA InvariantHolds == Spec => []IInv
  BY InitIInv, StepIInv, PTL DEF Spec

\* No card is ever in two slots, in RAM or in the image a restart would load.
THEOREM UniqueIdsAlways == Spec => []UniqueIds
  BY InvariantHolds, PTL DEF IInv

\* A clean array is a saved array, for every interleaving with the save.
THEOREM CleanMeansDurableAlways == Spec => []CleanMeansDurable
  BY InvariantHolds, PTL DEF IInv

\* No interleaving of changes, timer and process loses a pending save.
THEOREM NoLostWakeupAlways == Spec => []NoLostWakeup
  BY InvariantHolds, PTL DEF IInv

-----------------------------------------------------------------------------
(* Lookups. *)

LEMMA LookupsAgreeOn ==
    ASSUME NEW db \in Database, WellFormed(db)
    PROVE  /\ \A id \in CardIds \cup {NoId} : GetFinds(db, id) <=> id \in Authorized(db)
           /\ Cardinality(ListedSlots(db)) = Cardinality(Authorized(db))
  <1>1. ASSUME NEW id \in CardIds \cup {NoId}, GetFinds(db, id)
        PROVE  id \in Authorized(db)
    BY <1>1 DEF GetFinds, Authorized, Authorizes
  <1>2. ASSUME NEW id \in CardIds \cup {NoId}, id \in Authorized(db)
        PROVE  GetFinds(db, id)
    <2>1. PICK i \in Slots : db[i].card_id = id /\ db[i].active
      BY <1>2 DEF Authorized, Authorizes
    <2>2. \A j \in 0 .. i - 1 : j \in Slots /\ j # i
      BY <2>1, SlotsAssumption DEF Slots
    <2>3. id # NoId
      BY <2>1 DEF WellFormed
    <2>4. \A j \in 0 .. i - 1 : db[j].card_id # id
      BY <2>1, <2>2, <2>3 DEF WellFormed
    <2>5. QED BY <2>1, <2>4 DEF GetFinds
  <1> DEFINE idOf == [i \in ListedSlots(db) |-> db[i].card_id]
  <1>3. idOf \in Surjection(ListedSlots(db), Authorized(db))
    <2>1. \A i \in ListedSlots(db) : idOf[i] \in Authorized(db)
      BY DEF ListedSlots, Authorized, Authorizes, Database, Card
    <2>2. \A id \in Authorized(db) : \E i \in ListedSlots(db) : idOf[i] = id
      BY DEF ListedSlots, Authorized, Authorizes, WellFormed
    <2>3. QED BY <2>1, <2>2 DEF Surjection
  <1>4. idOf \in Injection(ListedSlots(db), Authorized(db))
    <2>1. \A i, j \in ListedSlots(db) : idOf[i] = idOf[j] => i = j
      BY DEF ListedSlots, WellFormed
    <2>2. QED BY <1>3, <2>1 DEF Surjection, Injection, IsInjective
  <1>5. IsFiniteSet(ListedSlots(db))
    <2>1. IsFiniteSet(Slots)
      BY SlotsAssumption, FS_Interval DEF Slots
    <2>2. QED BY <2>1, FS_Subset DEF ListedSlots
  <1>6. Cardinality(ListedSlots(db)) = Cardinality(Authorized(db))
    BY <1>3, <1>4, <1>5, FS_Surjection
  <1>7. QED BY <1>1, <1>2, <1>6

\* The three ways to look a card up give one answer for every id and array size.
THEOREM LookupsAgreeAlways == Spec => []LookupsAgree
  <1>1. IInv => LookupsAgree
    BY LookupsAgreeOn DEF IInv, TypeOK, UniqueIds, LookupsAgree
  <1>2. QED BY <1>1, InvariantHolds, PTL

-----------------------------------------------------------------------------
(* The manager implements RfidStore. *)

\* add_card authorizes exactly the new id: the slot it takes authorized nothing.
LEMMA AddAuthorizes ==
    ASSUME NEW db \in Database, WellFormed(db), NEW id \in CardIds,
           NEW i \in Slots, Reusable(db[i]), NEW now \in Stamps
    PROVE  Authorized([db EXCEPT ![i] = [card_id |-> id, active |-> TRUE, timestamp |-> now]])
             = Authorized(db) \cup {id}
  <1> DEFINE new == [db EXCEPT ![i] = [card_id |-> id, active |-> TRUE, timestamp |-> now]]
  <1>1. /\ new[i].card_id = id /\ new[i].active
        /\ \A j \in Slots : j # i => new[j] = db[j]
    BY DEF Database
  <1>2. ~db[i].active
    BY DEF Reusable, WellFormed
  <1> HIDE DEF new
  <1>3. Authorized(new) = Authorized(db) \cup {id}
    BY <1>1, <1>2 DEF Authorized, Authorizes
  <1>4. QED BY <1>3 DEF new

\* remove_card revokes the id altogether: no other slot holds it.
LEMMA RemoveRevokes ==
    ASSUME NEW db \in Database, WellFormed(db), NEW id \in CardIds \cup {NoId},
           NEW i \in Slots, Authorizes(db[i], id)
    PROVE  /\ id \in Authorized(db)
           /\ Authorized([db EXCEPT ![i].active = FALSE]) = Authorized(db) \ {id}
  <1> DEFINE new == [db EXCEPT ![i].active = FALSE]
  <1>1. /\ ~new[i].active
        /\ \A j \in Slots : j # i => new[j] = db[j]
    BY DEF Database, Card
  <1>2. \A j \in Slots : j # i => ~Authorizes(db[j], id)
    BY DEF Authorizes, WellFormed
  <1>3. \A other : other # id => ~Authorizes(db[i], other)
    BY DEF Authorizes
  <1> HIDE DEF new
  <1>4. Authorized(new) = Authorized(db) \ {id}
    BY <1>1, <1>2, <1>3 DEF Authorized, Authorizes
  <1>5. QED BY <1>4 DEF new, Authorized

LEMMA SaveStepRefines == IInv /\ SaveStep => [Store!Next]_Store!vars
  <1> SUFFICES ASSUME IInv, SaveStep PROVE [Store!Next]_Store!vars
    OBVIOUS
  <1> USE DEF Store!Next, Store!vars
  <1>1. CASE SaveOpens
    <2>1. Store!Truncate
      BY <1>1 DEF SaveOpens, ShortFile, Recovered, Loadable, CurrentlyAuthorized, Store!Truncate
    <2>2. QED BY <2>1
  <1>2. CASE SaveWrites
    <2>1. Store!Truncate \/ Store!Persist
      BY <1>2 DEF SaveWrites, ShortFile, WholeFile, Recovered, Loadable, CurrentlyAuthorized,
                  Store!Truncate, Store!Persist
    <2>2. QED BY <2>1
  <1>3. ASSUME NEW ok \in BOOLEAN, SaveReturns(ok), save # "none",
               rfid_cards_dat' \in {rfid_cards_dat, WholeFile(rfid_database)}
        PROVE  [Store!Next]_Store!vars
    <2>1. CurrentlyAuthorized = Authorized(rfid_database)
      BY <1>3 DEF CurrentlyAuthorized
    <2>2. \/ rfid_cards_dat' = rfid_cards_dat
          \/ Authorized(Recovered(rfid_cards_dat))' = Authorized(rfid_database)
      BY <1>3 DEF WholeFile, Recovered, Loadable
    <2>3. CASE InitReturnsError
      <3>1. CurrentlyAuthorized' = Authorized(Recovered(rfid_cards_dat))'
        BY <1>3, <2>3 DEF InitReturnsError, SaveReturns, CurrentlyAuthorized, IInv, Control
      <3>2. Store!Restart \/ Store!Persist
        BY <2>1, <2>2, <3>1 DEF Store!Restart, Store!Persist
      <3>3. QED BY <3>2
    <2>4. CASE ~InitReturnsError
      <3>1. main' # "boot" /\ rfid_database' = rfid_database
        BY <1>3, <2>4 DEF SaveReturns, FormatReturns, InitReturnsOk, ProcessReturns,
                          IInv, Control
      <3>2. CurrentlyAuthorized' = CurrentlyAuthorized
        BY <2>1, <3>1 DEF CurrentlyAuthorized, Authorized
      <3>3. Store!Persist \/ UNCHANGED Store!vars
        BY <2>1, <2>2, <3>2 DEF Store!Persist
      <3>4. QED BY <3>3
    <2>5. QED BY <2>3, <2>4
  <1>4. CASE SaveOpenFails \/ SaveWriteFails \/ SaveCloses \/ SaveCloseFails
    BY <1>3, <1>4 DEF SaveOpenFails, SaveWriteFails, SaveCloses, SaveCloseFails
  <1>5. QED BY <1>1, <1>2, <1>4 DEF SaveStep

LEMMA MainStepRefines == IInv /\ MainStep => [Store!Next]_Store!vars
  <1> SUFFICES ASSUME IInv, MainStep PROVE [Store!Next]_Store!vars
    OBVIOUS
  <1> USE DEF Store!Next, Store!vars
  <1>1. CASE InitLoadsFile
    BY <1>1 DEF InitLoadsFile, CurrentlyAuthorized, Recovered, Loadable, IInv, Control
  <1>2. CASE InitLoadsDefaults
    <2>1. Store!ResetToDefaults
      BY <1>2 DEF InitLoadsDefaults, CurrentlyAuthorized, Store!ResetToDefaults
    <2>2. QED BY <2>1
  <1>3. CASE Deinit
    <2>1. Store!Restart
      BY <1>3 DEF Deinit, stored, CurrentlyAuthorized, IInv, Control, Store!Restart
    <2>2. QED BY <2>1
  <1>4. CASE Process \/ ProcessSaves \/ ProcessFindsClean \/ ProcessTimeout \/ ProcessClears
    BY <1>4 DEF Process, ProcessSaves, ProcessFindsClean, ProcessTimeout, ProcessClears,
                stored, CurrentlyAuthorized
  <1>5. QED BY <1>1, <1>2, <1>3, <1>4 DEF MainStep

LEMMA HttpStepRefines == IInv /\ HttpStep => [Store!Next]_Store!vars
  <1> SUFFICES ASSUME IInv, HttpStep PROVE [Store!Next]_Store!vars
    OBVIOUS
  <1> USE DEF Store!Next, Store!vars
  <1>0. rfid_database \in Database /\ WellFormed(rfid_database)
    BY DEF IInv, TypeOK, UniqueIds
  <1>1. ASSUME NEW id \in CardIds, AddCard(id) PROVE [Store!Next]_Store!vars
    <2>1. PICK i \in Slots, now \in Stamps :
            /\ Reusable(rfid_database[i])
            /\ rfid_database' = [rfid_database EXCEPT ![i] =
                                  [card_id |-> id, active |-> TRUE, timestamp |-> now]]
      BY <1>1 DEF AddCard, FirstReusable
    <2>2. Authorized(rfid_database') = Authorized(rfid_database) \cup {id}
      BY <1>0, <2>1, AddAuthorizes
    <2>3. id \notin Authorized(rfid_database)
      BY <1>1, IdsAssumption DEF AddCard, Known, Authorized, Authorizes
    <2>4. Store!Authorize(id)
      BY <1>1, <2>2, <2>3 DEF AddCard, HttpMayEnter, CurrentlyAuthorized, Store!Authorize
    <2>5. QED BY <2>4
  <1>2. ASSUME NEW id \in CardIds \cup {NoId}, RemoveCard(id)
        PROVE  [Store!Next]_Store!vars
    <2>1. PICK i \in Slots :
            /\ Authorizes(rfid_database[i], id)
            /\ rfid_database' = [rfid_database EXCEPT ![i].active = FALSE]
      BY <1>2 DEF RemoveCard, FirstAuthorizing
    <2>2. /\ id \in Authorized(rfid_database)
          /\ Authorized(rfid_database') = Authorized(rfid_database) \ {id}
      BY <1>0, <2>1, RemoveRevokes
    <2>3. id \in CardIds
      BY <1>0, <2>1 DEF Authorizes, WellFormed
    <2>4. Store!Revoke(id)
      BY <1>2, <2>2 DEF RemoveCard, HttpMayEnter, CurrentlyAuthorized, Store!Revoke
    <2>5. QED BY <2>3, <2>4
  <1>3. ASSUME NEW id \in CardIds \cup {NoId}, CheckCard(id)
        PROVE  [Store!Next]_Store!vars
    <2>1. \A j \in Slots : /\ rfid_database'[j].card_id = rfid_database[j].card_id
                           /\ rfid_database'[j].active = rfid_database[j].active
      BY <1>0, <1>3 DEF CheckCard, Database, Card
    <2>2. Authorized(rfid_database') = Authorized(rfid_database)
      BY <2>1 DEF Authorized, Authorizes
    <2>3. QED BY <1>3, <2>2 DEF CheckCard, HttpMayEnter, CurrentlyAuthorized
  <1>4. CASE FormatDatabase
    <2>1. Store!ResetToDefaults
      BY <1>4 DEF FormatDatabase, CurrentlyAuthorized, Store!ResetToDefaults
    <2>2. QED BY <2>1
  <1>5. QED BY <1>1, <1>2, <1>3, <1>4 DEF HttpStep

LEMMA StepRefines == IInv /\ [Next]_vars => [Store!Next]_Store!vars
  <1> SUFFICES ASSUME IInv, [Next]_vars PROVE [Store!Next]_Store!vars
    OBVIOUS
  <1>1. CASE Reboot
    <2>1. Store!Restart
      BY <1>1 DEF Reboot, CurrentlyAuthorized, Store!Restart
    <2>2. QED BY <2>1 DEF Store!Next
  <1>2. CASE WriteTimeout
    BY <1>2 DEF WriteTimeout, stored, CurrentlyAuthorized, Store!vars
  <1>3. CASE UNCHANGED vars
    BY <1>3 DEF vars, CurrentlyAuthorized, Store!vars
  <1>4. QED
    BY <1>1, <1>2, <1>3, SaveStepRefines, MainStepRefines, HttpStepRefines DEF Next, Operate

\* Seen from outside, the manager is the abstract store: what a restart comes back
\* with is a set some save wrote in full, or the factory set, never a mixture.
THEOREM ImplementsStore == Spec => StoreSpec
  <1>1. Init => Store!Init
    BY DEF Init, Store!Init, CurrentlyAuthorized, Recovered, Loadable, AbsentFile
  <1>2. QED BY <1>1, StepRefines, InvariantHolds, PTL DEF Spec, StoreSpec, Store!Spec
-----------------------------------------------------------------------------
(* Changes reach the file, while the power stays and nobody deinitialises the    *)
(* manager.  Suppose is_dirty stayed set.  Then main would go round from "idle"  *)
(* through "waiting" to "saving" and back for ever, each save would be one of    *)
(* those that fail, and fairness allows only finitely many of them.  That the    *)
(* steps can be taken is the hypothesis WriteNeverStuck, which TLC checks: the   *)
(* provers know nothing of ENABLED.                                              *)

\* The manager is initialised before it has anything to write.
BootIsClean == main = "boot" => ~is_dirty

Firmware == TimerOutlastsMain /\ ~Deinits

LEMMA PoweredInvariant ==
    ASSUME Firmware
    PROVE  PoweredSpec => [](IInv /\ BootIsClean)
  <1>1. IInv /\ [Operate]_vars => IInv'
    BY StepIInv DEF Next
  <1>2. Init => BootIsClean
    BY DEF Init, BootIsClean
  <1>3. ASSUME IInv, BootIsClean, [Operate]_vars PROVE BootIsClean'
    <2>1. CASE SaveStep
      BY <1>3, <2>1
      DEF BootIsClean, IInv, Control, SaveStep, SaveOpens, SaveOpenFails, SaveWrites,
          SaveWriteFails, SaveCloses, SaveCloseFails, SaveReturns, FormatReturns, InitReturnsOk,
          InitReturnsError, ProcessReturns, pending
    <2>2. CASE MainStep
      BY <1>3, <2>2
      DEF Firmware, BootIsClean, MainStep, InitLoadsFile, InitLoadsDefaults, Process, ProcessSaves,
          ProcessFindsClean, ProcessTimeout, ProcessClears, Deinit, stored, pending
    <2>3. CASE HttpStep \/ WriteTimeout
      BY <1>3, <2>3
      DEF BootIsClean, HttpStep, HttpMayEnter, AddCard, RemoveCard, CheckCard, FormatDatabase,
          WriteTimeout, pending
    <2>4. CASE UNCHANGED vars
      BY <1>3, <2>4 DEF BootIsClean, vars
    <2>5. QED BY <1>3, <2>1, <2>2, <2>3, <2>4 DEF Operate
  <1>4. QED BY <1>1, <1>2, <1>3, InitIInv, PTL DEF PoweredSpec

\* A step under the supposition: the array is dirty before and after it.
Stays == IInv /\ BootIsClean /\ [Operate]_vars /\ [~ProcessTimeout]_vars /\ is_dirty /\ is_dirty'

\* A save of main's, at one of its three steps.
MainAt(step) == main = "saving" /\ rfid_mutex = "main" /\ save = step

\* A save of another task's, while main waits for the mutex.
OtherAt(step) == main = "waiting" /\ rfid_mutex # "free" /\ save = step

\* How each place of main's round is left.
LEMMA RoundGoesOn ==
    ASSUME Firmware, Stays
    PROVE  /\ main = "idle" /\ is_ready_to_write =>
                  (main = "idle" /\ is_ready_to_write)' \/ (main = "waiting")'
           /\ main = "idle" /\ ~is_ready_to_write =>
                  (main = "idle")' /\ (WriteTimeout => is_ready_to_write')
           /\ main = "clearing" => (main = "clearing")' \/ (main = "idle")'
           /\ main = "waiting" => (main = "waiting")' \/ MainAt("open")'
  <1> USE DEF Stays, Firmware, IInv, Control, BootIsClean
  <1>1. CASE SaveStep
    BY <1>1
    DEF SaveStep, SaveOpens, SaveOpenFails, SaveWrites, SaveWriteFails, SaveCloses,
        SaveCloseFails, SaveReturns, FormatReturns, InitReturnsOk, InitReturnsError,
        ProcessReturns, pending, WriteTimeout
  <1>2. CASE MainStep
    <2>1. ~InitLoadsFile /\ ~InitLoadsDefaults /\ ~ProcessFindsClean /\ ~ProcessTimeout /\ ~Deinit
      BY <1>2 DEF InitLoadsFile, InitLoadsDefaults, ProcessFindsClean, ProcessTimeout, Deinit, vars
    <2>2. QED
      BY <1>2, <2>1
      DEF MainStep, Process, ProcessSaves, ProcessClears, MainAt, Lock, pending, WriteTimeout
  <1>3. CASE HttpStep
    BY <1>3 DEF HttpStep, AddCard, RemoveCard, CheckCard, FormatDatabase, pending, WriteTimeout
  <1>4. CASE WriteTimeout
    BY <1>4 DEF WriteTimeout
  <1>5. CASE UNCHANGED vars
    BY <1>5 DEF vars, WriteTimeout
  <1>6. QED BY <1>1, <1>2, <1>3, <1>4, <1>5 DEF Operate

\* How a save goes on: by a step of its own or not at all.  A close that succeeded
\* would have cleared is_dirty.
LEMMA SaveGoesOn ==
    ASSUME Firmware, Stays
    PROVE  /\ MainAt("open") => \/ MainAt("open")' /\ ~SaveStep
                                \/ MainAt("write")'
                                \/ (main = "idle")' /\ ~MainOpens
           /\ MainAt("write") => \/ MainAt("write")' /\ ~SaveStep
                                 \/ MainAt("close")'
                                 \/ (main = "idle")' /\ ~MainWrites
           /\ MainAt("close") => \/ MainAt("close")' /\ ~SaveStep
                                 \/ (main = "idle")' /\ ~MainCloses
  <1> USE DEF Stays, IInv, Control, MainAt
  <1>1. ASSUME main = "saving", ~SaveStep
        PROVE  UNCHANGED <<main, save, rfid_mutex>>
    <2>1. CASE MainStep
      BY <1>1, <2>1
      DEF MainStep, InitLoadsFile, InitLoadsDefaults, Process, ProcessSaves, ProcessFindsClean,
          ProcessTimeout, ProcessClears, Deinit, Lock
    <2>2. CASE HttpStep
      BY <1>1, <2>2
      DEF HttpStep, HttpMayEnter, AddCard, RemoveCard, CheckCard, FormatDatabase, Lock
    <2>3. CASE WriteTimeout \/ UNCHANGED vars
      BY <1>1, <2>3 DEF WriteTimeout, vars
    <2>4. QED BY <1>1, <2>1, <2>2, <2>3 DEF Operate
  <1>2. ASSUME main = "saving", NEW ok \in BOOLEAN, SaveReturns(ok)
        PROVE  ~ok /\ main' = "idle"
    BY <1>2
    DEF SaveReturns, FormatReturns, InitReturnsOk, InitReturnsError, ProcessReturns
  <1>3. ASSUME main = "saving", SaveStep
        PROVE  \/ SaveOpens /\ MainAt("write")'
               \/ SaveWrites /\ MainAt("close")'
               \/ ~SaveOpens /\ ~SaveWrites /\ ~SaveCloses /\ main' = "idle"
    <2>1. CASE SaveOpens
      BY <1>3, <2>1 DEF SaveOpens
    <2>2. CASE SaveWrites
      BY <1>3, <2>2 DEF SaveWrites
    <2>3. CASE SaveOpenFails
      BY <1>2, <1>3, <2>3 DEF SaveOpenFails, SaveOpens, SaveWrites, SaveCloses, SaveReturns
    <2>4. CASE SaveWriteFails
      BY <1>2, <1>3, <2>4 DEF SaveWriteFails, SaveOpens, SaveWrites, SaveCloses, SaveReturns
    <2>5. CASE SaveCloses
      BY <1>2, <1>3, <2>5 DEF SaveCloses
    <2>6. CASE SaveCloseFails
      <3>1. main' = "idle" /\ save = "close" /\ ~SaveOpens /\ ~SaveWrites
        BY <1>2, <1>3, <2>6 DEF SaveCloseFails, SaveOpens, SaveWrites
      <3>2. ~SaveCloses
        BY <1>2, <1>3 DEF SaveCloses
      <3>3. QED BY <3>1, <3>2
    <2>7. QED BY <1>3, <2>1, <2>2, <2>3, <2>4, <2>5, <2>6 DEF SaveStep
  <1>4. QED
    <2>1. CASE ~SaveStep
      BY <1>1, <2>1 DEF MainOpens, MainWrites, MainCloses, SaveStep
    <2>2. CASE SaveStep
      BY <1>3, <2>2 DEF MainOpens, MainWrites, MainCloses, SaveOpens, SaveWrites
    <2>3. QED BY <2>1, <2>2

\* Another task's save comes to its end, and gives the mutex back.
LEMMA OtherGoesOn ==
    ASSUME Firmware, Stays
    PROVE  /\ OtherAt("open") => \/ OtherAt("open")' /\ ~SaveStep
                                 \/ OtherAt("write")'
                                 \/ (rfid_mutex = "free")'
           /\ OtherAt("write") => \/ OtherAt("write")' /\ ~SaveStep
                                  \/ OtherAt("close")'
                                  \/ (rfid_mutex = "free")'
           /\ OtherAt("close") => \/ OtherAt("close")' /\ ~SaveStep
                                  \/ (rfid_mutex = "free")'
  <1> USE DEF Stays, IInv, Control, OtherAt
  <1>1. ASSUME main = "waiting", rfid_mutex # "free", ~SaveStep
        PROVE  UNCHANGED <<main, save, rfid_mutex>>
    <2>1. CASE MainStep
      BY <1>1, <2>1
      DEF MainStep, InitLoadsFile, InitLoadsDefaults, Process, ProcessSaves, ProcessFindsClean,
          ProcessTimeout, ProcessClears, Deinit, Lock, vars
    <2>2. CASE HttpStep
      BY <1>1, <2>2
      DEF HttpStep, HttpMayEnter, AddCard, RemoveCard, CheckCard, FormatDatabase, Lock
    <2>3. CASE WriteTimeout \/ UNCHANGED vars
      BY <1>1, <2>3 DEF WriteTimeout, vars
    <2>4. QED BY <1>1, <2>1, <2>2, <2>3 DEF Operate
  <1>2. ASSUME main = "waiting", rfid_mutex # "free", SaveStep
        PROVE  \/ save = "open" /\ OtherAt("write")'
               \/ save = "write" /\ OtherAt("close")'
               \/ rfid_mutex' = "free"
    BY <1>2
    DEF SaveStep, SaveOpens, SaveOpenFails, SaveWrites, SaveWriteFails, SaveCloses,
        SaveCloseFails, SaveReturns
  <1>3. QED BY <1>1, <1>2

\* The supposition, of a behaviour.
StaysDirty ==
    /\ [](IInv /\ BootIsClean) /\ [][Operate]_vars /\ [][~ProcessTimeout]_vars
    /\ []is_dirty /\ []WriteNeverStuck /\ Fairness

\* Main leaves every place of its round.
LEMMA IdleIsLeft ==
    ASSUME Firmware
    PROVE  StaysDirty => (main = "idle" ~> main = "waiting")
  <1> DEFINE Armed == main = "idle" /\ ~is_ready_to_write
             Due == main = "idle" /\ is_ready_to_write
  <1>1. Stays /\ Armed => Armed' \/ Due'
    BY RoundGoesOn
  <1>2. Stays /\ Armed /\ <<WriteTimeout>>_vars => Due'
    BY RoundGoesOn
  <1>3. Stays /\ Due => Due' \/ (main = "waiting")'
    BY RoundGoesOn
  <1>4. Stays /\ Due /\ <<Process>>_vars => (main = "waiting")'
    BY DEF Process
  <1>5. IInv /\ is_dirty /\ WriteNeverStuck =>
            /\ Armed => ENABLED <<WriteTimeout>>_vars
            /\ Due => ENABLED <<Process>>_vars
    BY DEF IInv, NoLostWakeup, Firmware, WriteNeverStuck
  <1>6. main = "idle" => Armed \/ Due
    OBVIOUS
  <1> HIDE DEF Armed, Due
  <1>7. StaysDirty => (Armed ~> Due)
    BY <1>1, <1>2, <1>5, PTL DEF StaysDirty, Stays, Fairness, TimerFires
  <1>8. StaysDirty => (Due ~> main = "waiting")
    BY <1>3, <1>4, <1>5, PTL DEF StaysDirty, Stays, Fairness, MainRuns
  <1>9. QED BY <1>6, <1>7, <1>8, PTL

LEMMA WaitingIsLeft ==
    ASSUME Firmware
    PROVE  StaysDirty => (main = "waiting" ~> MainAt("open"))
  <1> DEFINE Waits == main = "waiting"
             Free == rfid_mutex = "free"
             Saves == MainAt("open")
             Opens == OtherAt("open")
             Writes == OtherAt("write")
             Closes == OtherAt("close")
  <1>1. Stays /\ Waits => Waits' \/ Saves'
    BY RoundGoesOn
  <1>2. Stays /\ Waits /\ <<ProcessSaves>>_vars => Saves'
    BY DEF ProcessSaves, MainAt, Lock
  <1>3. Stays /\ Opens => (Opens' /\ ~SaveStep) \/ Writes' \/ Free'
    BY OtherGoesOn
  <1>4. Stays /\ Writes => (Writes' /\ ~SaveStep) \/ Closes' \/ Free'
    BY OtherGoesOn
  <1>5. Stays /\ Closes => (Closes' /\ ~SaveStep) \/ Free'
    BY OtherGoesOn
  <1>6. IInv /\ Waits => Free \/ Opens \/ Writes \/ Closes
    BY DEF IInv, TypeOK, Control, OtherAt
  <1>7. WriteNeverStuck /\ (Opens \/ Writes \/ Closes) => ENABLED <<SaveStep>>_vars
    BY DEF WriteNeverStuck, OtherAt
  <1>8. WriteNeverStuck /\ is_dirty /\ Waits /\ Free => ENABLED <<ProcessSaves>>_vars
    BY DEF WriteNeverStuck
  <1> HIDE DEF Waits, Free, Saves, Opens, Writes, Closes
  <1>9. StaysDirty => (Closes ~> Free)
    BY <1>5, <1>7, PTL DEF StaysDirty, Stays, Fairness, SavesSucceed
  <1>10. StaysDirty => (Writes ~> Free)
    BY <1>4, <1>7, <1>9, PTL DEF StaysDirty, Stays, Fairness, SavesSucceed
  <1>11. StaysDirty => (Opens ~> Free)
    BY <1>3, <1>7, <1>10, PTL DEF StaysDirty, Stays, Fairness, SavesSucceed
  <1>12. StaysDirty => (Waits ~> Free)
    BY <1>6, <1>9, <1>10, <1>11, PTL DEF StaysDirty
  <1>13. StaysDirty => (Waits ~> Saves)
    BY <1>1, <1>2, <1>8, <1>12, PTL DEF StaysDirty, Stays, Fairness, MainRuns
  <1>14. QED BY <1>13 DEF Waits, Saves

\* A save that keeps failing brings main back to "idle".
LEMMA SavingIsLeft ==
    ASSUME Firmware
    PROVE  StaysDirty => (main = "saving" ~> main = "idle")
  <1> DEFINE Saving == main = "saving"
             Idle == main = "idle"
             Opens == MainAt("open")
             Writes == MainAt("write")
             Closes == MainAt("close")
  <1>1. Stays /\ Opens => (Opens' /\ ~SaveStep) \/ Writes' \/ Idle'
    BY SaveGoesOn
  <1>2. Stays /\ Writes => (Writes' /\ ~SaveStep) \/ Closes' \/ Idle'
    BY SaveGoesOn
  <1>3. Stays /\ Closes => (Closes' /\ ~SaveStep) \/ Idle'
    BY SaveGoesOn
  <1>4. IInv /\ Saving => Opens \/ Writes \/ Closes
    BY DEF IInv, TypeOK, Control, MainAt
  <1>5. WriteNeverStuck /\ (Opens \/ Writes \/ Closes) => ENABLED <<SaveStep>>_vars
    BY DEF WriteNeverStuck, MainAt
  <1> HIDE DEF Saving, Idle, Opens, Writes, Closes
  <1>6. StaysDirty => (Closes ~> Idle)
    BY <1>3, <1>5, PTL DEF StaysDirty, Stays, Fairness, SavesSucceed
  <1>7. StaysDirty => (Writes ~> Idle)
    BY <1>2, <1>5, <1>6, PTL DEF StaysDirty, Stays, Fairness, SavesSucceed
  <1>8. StaysDirty => (Opens ~> Idle)
    BY <1>1, <1>5, <1>7, PTL DEF StaysDirty, Stays, Fairness, SavesSucceed
  <1>9. StaysDirty => (Saving ~> Idle)
    BY <1>4, <1>6, <1>7, <1>8, PTL DEF StaysDirty
  <1>10. QED BY <1>9 DEF Saving, Idle

LEMMA ClearingIsLeft ==
    ASSUME Firmware
    PROVE  StaysDirty => (main = "clearing" ~> main = "idle")
  <1>1. Stays /\ main = "clearing" => (main = "clearing")' \/ (main = "idle")'
    BY RoundGoesOn
  <1>2. Stays /\ main = "clearing" /\ <<ProcessClears>>_vars => (main = "idle")'
    BY DEF ProcessClears
  <1>3. WriteNeverStuck /\ main = "clearing" => ENABLED <<ProcessClears>>_vars
    BY DEF WriteNeverStuck
  <1>4. QED BY <1>1, <1>2, <1>3, PTL DEF StaysDirty, Stays, Fairness, MainRuns

\* Every round begins a save, so that its steps succeed again and again, and then the
\* last one does, which contradicts the supposition.
LEMMA NothingStaysDirty ==
    ASSUME Firmware
    PROVE  ~StaysDirty
  <1> DEFINE Opens == MainAt("open")
             Writes == MainAt("write")
             Closes == MainAt("close")
  <1>1. IInv /\ BootIsClean /\ is_dirty =>
            main = "idle" \/ main = "waiting" \/ main = "saving" \/ main = "clearing"
    BY DEF IInv, TypeOK, Main, BootIsClean
  <1>2. Stays /\ <<MainOpens>>_vars => Writes'
    BY SaveGoesOn DEF MainOpens, SaveOpens, MainAt, Stays, IInv, Control, BootIsClean, pending
  <1>3. Stays /\ <<MainWrites>>_vars => Closes'
    BY SaveGoesOn DEF MainWrites, SaveWrites, MainAt, Stays, IInv, Control, BootIsClean, pending
  <1>4. Stays => ~<<MainCloses>>_vars
    BY SaveGoesOn DEF MainCloses, SaveCloses, SaveReturns, FormatReturns, InitReturnsOk,
                      InitReturnsError, ProcessReturns, Stays
  <1>5. WriteNeverStuck =>
            /\ Opens => ENABLED <<MainOpens>>_vars
            /\ Writes => ENABLED <<MainWrites>>_vars
            /\ Closes => ENABLED <<MainCloses>>_vars
    BY DEF WriteNeverStuck, MainAt
  <1> HIDE DEF Opens, Writes, Closes
  <1>6. MainAt("open") => main = "saving"
    BY DEF MainAt
  <1>7. StaysDirty => []<>(main = "idle")
    BY <1>1, <1>6, IdleIsLeft, WaitingIsLeft, SavingIsLeft, ClearingIsLeft, PTL DEF StaysDirty
  <1>8. StaysDirty => []<>Opens
    BY <1>7, IdleIsLeft, WaitingIsLeft, PTL DEF Opens
  <1>9. StaysDirty => []<>Writes
    BY <1>2, <1>5, <1>8, PTL DEF StaysDirty, Stays, Fairness, SavesSucceed
  <1>10. StaysDirty => []<>Closes
    BY <1>3, <1>5, <1>9, PTL DEF StaysDirty, Stays, Fairness, SavesSucceed
  <1>11. QED BY <1>4, <1>5, <1>10, PTL DEF StaysDirty, Stays, Fairness, SavesSucceed

\* Every change reaches the file, for every number of slots and cards: is_dirty does not
\* stay set, whatever the other tasks do and however often a save fails, provided the
\* waits for the mutex stop timing out and fairness lets a save succeed once in a while.
THEOREM ChangesReachFileFairly ==
    ASSUME Firmware
    PROVE  PoweredSpec /\ []WriteNeverStuck => ChangesReachFile
  <1>1. PoweredSpec => [](IInv /\ BootIsClean)
    BY PoweredInvariant
  <1>2. ~StaysDirty
    BY NothingStaysDirty
  <1>3. Fairness => []Fairness
    <2>1. TimerFires => []TimerFires
      BY PTL DEF TimerFires
    <2>2. MainRuns => []MainRuns
      BY PTL DEF MainRuns
    <2>3. SavesSucceed => []SavesSucceed
      BY PTL DEF SavesSucceed
    <2>4. QED BY <2>1, <2>2, <2>3, PTL DEF Fairness
  <1>4. QED BY <1>1, <1>2, <1>3, PTL DEF PoweredSpec, ChangesReachFile, StaysDirty

=============================================================================
