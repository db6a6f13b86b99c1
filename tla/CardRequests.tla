----------------------------- MODULE CardRequests -----------------------------
(***************************************************************************)
(* The card page in a browser (webpage/rfid_management.js), the request    *)
(* handlers for it (app_local_server.c), and the card manager as RfidStore *)
(* promises it.  The HTTP task runs one handler at a time; each request    *)
(* has a connection, several may be open, and their replies arrive in any  *)
(* order or not at all.                                                    *)
(*                                                                         *)
(* The manager's mutex may be held by a save for longer than a handler     *)
(* waits for it: the manager is "busy" then.                               *)
(***************************************************************************)
EXTENDS Naturals, FiniteSets

CONSTANTS
    Typed,          \* the numbers typed into the page's forms: at most UINT32_MAX
    INT_MAX,
    Defaults,       \* the factory cards
    Connections     \* that the browser opens to the device at a time

ASSUME TypedAssumption == Typed \subseteq Nat
ASSUME IntMaxAssumption == INT_MAX \in Nat \ {0}
ASSUME DefaultsAssumption == Defaults \subseteq Nat \ {0}
ASSUME ConnectionsAssumption == IsFiniteSet(Connections) /\ Connections # {}

VARIABLES
    authorized, durable,    \* of RfidStore
    http_server_buffer,     \* what the last handler that used it left there
    conn,                   \* the request or the reply under way
    table,                  \* what the page shows
    told                    \* history: the numbers whose addition was answered with
                            \* success since the restart, and not removed since

\* cJSON's valueint, an int: a larger number becomes INT_MAX.
CardId(n) == IF n > INT_MAX THEN INT_MAX ELSE n

CardIds == {CardId(n) : n \in Typed \ {0}} \cup Defaults

Store == INSTANCE RfidStore WITH Ids <- CardIds

store == <<authorized, durable>>
vars == <<store, http_server_buffer, conn, table, told>>

CardLists == [cards: SUBSET CardIds]
Shows(ids) == [cards |-> ids]

\* "data": the answer to another page's getData.
Empty == [other |-> "empty"]
Data == [other |-> "data"]
Loading == [other |-> "loading"]
Error == [other |-> "error"]

Buffers == CardLists \cup {Empty, Data}
Tables == CardLists \cup {Loading, Error}

Idle == [op |-> "idle"]
List == [op |-> "list"]
Reset == [op |-> "reset"]
Requests == [op: {"add", "delete"}, id: Typed \cup CardIds] \cup {List, Reset}

\* Only a list has a body that the page reads.
Done == [reply |-> "done"]
Failed == [reply |-> "failed"]
Replies == {Done, Failed} \cup [body: Buffers]

TypeOK ==
    /\ Store!TypeOK
    /\ http_server_buffer \in Buffers
    /\ conn \in [Connections -> Requests \cup Replies \cup {Idle}]
    /\ table \in Tables
    /\ told \subseteq Typed

Init ==
    /\ Store!Init
    /\ http_server_buffer = Empty
    /\ conn = [c \in Connections |-> Idle]
    /\ table = Loading
    /\ told = {}

-----------------------------------------------------------------------------
(* The page: forms, buttons, and listCards on load, every 30 seconds and after *)
(* a success.                                                                  *)

Sends(c, request) ==
    /\ conn[c] = Idle
    /\ conn' = [conn EXCEPT ![c] = request]

\* Mutant: no timer.
PageListsOnLoad(c) ==
    /\ table = Loading
    /\ Sends(c, List)
    /\ UNCHANGED <<store, http_server_buffer, table, told>>

PageLists(c) ==
    /\ Sends(c, List)
    /\ table' = Loading
    /\ UNCHANGED <<store, http_server_buffer, told>>

PageAdds(c) ==
    /\ \E n \in Typed : Sends(c, [op |-> "add", id |-> n])
    /\ UNCHANGED <<store, http_server_buffer, table, told>>

\* By number, or with the button in a row of the table.
PageDeletes(c) ==
    /\ \E n \in Typed \cup CardIds :
        /\ n \in Typed \/ \E ids \in SUBSET CardIds : table = Shows(ids) /\ n \in ids
        /\ Sends(c, [op |-> "delete", id |-> n])
    /\ UNCHANGED <<store, http_server_buffer, table, told>>

PageResets(c) ==
    /\ Sends(c, Reset)
    /\ UNCHANGED <<store, http_server_buffer, table, told>>

PageChanges(c) == PageAdds(c) \/ PageDeletes(c) \/ PageResets(c)

\* What the page makes of the body of a 200: getData's has no cards, and an empty
\* one is no JSON.
Displays(body) ==
    CASE body = Empty -> Error
      [] body = Data  -> Shows({})
      [] OTHER        -> body

GetsDone(c) ==
    /\ conn[c] = Done
    /\ conn' = [conn EXCEPT ![c] = List]
    /\ table' = Loading
    /\ UNCHANGED <<store, http_server_buffer, told>>

GetsFailed(c) ==
    /\ conn[c] = Failed
    /\ conn' = [conn EXCEPT ![c] = Idle]
    /\ UNCHANGED <<store, http_server_buffer, table, told>>

GetsList(c) ==
    /\ \E body \in Buffers :
        /\ conn[c] = [body |-> body]
        /\ table' = Displays(body)
    /\ conn' = [conn EXCEPT ![c] = Idle]
    /\ UNCHANGED <<store, http_server_buffer, told>>

PageGets(c) == GetsDone(c) \/ GetsFailed(c) \/ GetsList(c)

Listing(c) == conn[c] \in {List} \cup [body: Buffers]

\* The connection breaks, before or after the handler.
Loses(c) ==
    /\ conn[c] # Idle
    /\ conn' = [conn EXCEPT ![c] = Idle]
    /\ table' = IF Listing(c) THEN Error ELSE table
    /\ UNCHANGED <<store, http_server_buffer, told>>

-----------------------------------------------------------------------------
(* The handlers. *)

Answers(c, reply) == conn' = [conn EXCEPT ![c] = reply]

\* Mutant: the id 0 is passed on.
AddsAny(c) ==
    /\ \E n \in Typed :
        /\ conn[c] = [op |-> "add", id |-> n]
        /\ Store!Authorize(CardId(n))
        /\ told' = told \cup {n}
    /\ Answers(c, Done)
    /\ UNCHANGED <<http_server_buffer, table>>

Adds(c) ==
    /\ \E n \in Typed \ {0} :
        /\ conn[c] = [op |-> "add", id |-> n]
        /\ Store!Authorize(CardId(n))
        /\ told' = told \cup {n}
    /\ Answers(c, Done)
    /\ UNCHANGED <<http_server_buffer, table>>

\* strtoul in base 10: the number as it was typed.
Deletes(c) ==
    /\ \E n \in Typed \cup CardIds :
        /\ conn[c] = [op |-> "delete", id |-> n]
        /\ n # 0
        /\ Store!Revoke(n)
        /\ told' = told \ {n}
    /\ Answers(c, Done)
    /\ UNCHANGED <<http_server_buffer, table>>

\* The array is reset before it is saved: if that fails, so does the request.
Resets(c) ==
    /\ conn[c] = Reset
    /\ Store!ResetToDefaults
    /\ told' = {}
    /\ \E reply \in {Done, Failed} : Answers(c, reply)
    /\ UNCHANGED <<http_server_buffer, table>>

\* Mutant: any result of the manager is answered with success.
RefusesQuietly(c) ==
    /\ \E request \in Requests \ {List} : conn[c] = request
    /\ told' = IF conn[c].op = "add" THEN told \cup {conn[c].id} ELSE told
    /\ Answers(c, Done)
    /\ UNCHANGED <<store, http_server_buffer, table>>

\* Mutant: only a missing id is refused, a refusal of the manager is not answered.
RefusesMissingId(c) ==
    /\ \E op \in {"add", "delete"} : conn[c] = [op |-> op, id |-> 0]
    /\ Answers(c, Failed)
    /\ UNCHANGED <<store, http_server_buffer, table, told>>

\* Id 0, a card that is there or not there, an id in a slot that is not reused yet,
\* a full array, a busy manager.
Refuses(c) ==
    /\ \E request \in Requests \ {List} : conn[c] = request
    /\ Answers(c, Failed)
    /\ UNCHANGED <<store, http_server_buffer, table, told>>

Lists(c) ==
    /\ conn[c] = List
    /\ http_server_buffer' = Shows(authorized)
    /\ Answers(c, [body |-> http_server_buffer'])
    /\ UNCHANGED <<store, table, told>>

\* get_card_list_json does not get the mutex, leaves the buffer alone and returns
\* ESP_OK.
ListsWhileBusy(c) ==
    /\ conn[c] = List
    /\ Answers(c, [body |-> http_server_buffer])
    /\ UNCHANGED <<store, http_server_buffer, table, told>>

Handles(c) == Adds(c) \/ Deletes(c) \/ Resets(c) \/ Refuses(c) \/ Lists(c)

\* Another page's request for the sensor and network data.
GetsData ==
    /\ http_server_buffer' = Data
    /\ UNCHANGED <<store, conn, table, told>>

-----------------------------------------------------------------------------
(* The device. *)

Saves ==
    /\ Store!Truncate \/ Store!Persist
    /\ UNCHANGED <<http_server_buffer, conn, table, told>>

\* The page stays open in the browser.
Restart ==
    /\ Store!Restart
    /\ http_server_buffer' = Empty
    /\ conn' = [c \in Connections |-> Idle]
    /\ table' = IF \E c \in Connections : Listing(c) THEN Error ELSE table
    /\ told' = {}

Next ==
    \/ Restart \/ GetsData \/ Saves
    \/ \E c \in Connections :
        \/ PageLists(c) \/ PageChanges(c) \/ PageGets(c) \/ Loses(c)
        \/ Handles(c) \/ ListsWhileBusy(c)

\* The HTTP task runs, replies arrive, and the page's timer goes off.
Served(c) == WF_vars(PageLists(c)) /\ WF_vars(PageGets(c)) /\ WF_vars(Handles(c))
Fairness == \A c \in Connections : Served(c)

Spec == Init /\ [][Next]_vars /\ Fairness

-----------------------------------------------------------------------------

\* A card whose addition was answered with success is authorized until somebody
\* removes it, resets the cards or the device restarts, although the manager was
\* asked for another id than the page typed, or refused a removal of it, or lost a
\* reply in between.  It holds up to INT_MAX only: above, another card is added.
AddedIsAuthorized ==
    \A n \in told : n <= INT_MAX => n \in authorized

\* A busy manager makes a difference only if the buffer is not the list by chance.
Disturbs ==
    \/ Restart
    \/ \E c \in Connections :
        \/ PageChanges(c) \/ Loses(c)
        \/ ListsWhileBusy(c) /\ http_server_buffer # Shows(authorized)

MayList(c) == ENABLED <<PageLists(c)>>_vars
MayGet(c) == ENABLED <<PageGets(c)>>_vars
MayHandle(c) == ENABLED <<Handles(c)>>_vars

\* No connection is ever stuck: whatever the page asks for, whether the manager can do
\* it or not, is answered, every reply can be taken, and then the page can ask again.
PageNeverStuck ==
    \A c \in Connections :
        /\ conn[c] = Idle => MayList(c)
        /\ conn[c] \in Requests => MayHandle(c)
        /\ conn[c] \in Replies => MayGet(c)

\* A list that overtakes an older one, the reply of a busy manager that is not a
\* list at all, an empty page after a restart, a failed reset that has reset the
\* cards: once nobody changes cards, the manager is not busy and connections hold,
\* the page shows nothing but the authorized cards, and shows them again and again.
PageCatchesUp ==
    <>[][~Disturbs]_vars =>
        /\ <>[](table \in {Loading, Shows(authorized)})
        /\ []<>(table = Shows(authorized))
=============================================================================
