-------------------------- MODULE CardRequestsProofs --------------------------
(***************************************************************************)
(* Proofs about CardRequests for every set of numbers typed, every INT_MAX *)
(* and any number of connections.                                          *)
(***************************************************************************)
EXTENDS CardRequests, TLAPS

LEMMA CardIdType ==
    ASSUME NEW n \in Typed \ {0}
    PROVE  CardId(n) \in CardIds /\ (n <= INT_MAX => CardId(n) = n)
  BY TypedAssumption, IntMaxAssumption DEF CardIds, CardId

LEMMA DefaultsType == Defaults \subseteq CardIds
  BY DEF CardIds

\* The requests and replies a connection may carry.
Messages == Requests \cup Replies \cup {Idle}

LEMMA MessageTypes ==
    /\ Idle \in Messages /\ List \in Messages /\ Reset \in Messages
    /\ Done \in Messages /\ Failed \in Messages
    /\ \A n \in Typed \cup CardIds :
           /\ [op |-> "add", id |-> n] \in Messages
           /\ [op |-> "delete", id |-> n] \in Messages
    /\ \A b \in Buffers : [body |-> b] \in Messages
  BY DEF Messages, Requests, Replies, List, Reset

LEMMA ShowsType == \A ids \in SUBSET CardIds : Shows(ids) \in CardLists
  BY DEF Shows, CardLists

LEMMA DisplaysType == \A b \in Buffers : Displays(b) \in Tables
  <1> SUFFICES ASSUME NEW b \in Buffers PROVE Displays(b) \in Tables
    OBVIOUS
  <1>d. Empty # Data
    BY DEF Empty, Data
  <1>1. CASE b = Empty
    BY <1>1, <1>d DEF Displays, Tables
  <1>2. CASE b # Empty /\ b = Data
    BY <1>2, ShowsType DEF Displays, Tables
  <1>3. CASE b # Empty /\ b # Data
    BY <1>3 DEF Displays, Tables, Buffers
  <1>4. QED BY <1>1, <1>2, <1>3

Inv == TypeOK /\ AddedIsAuthorized

LEMMA InitInv == Init => Inv
  BY DefaultsType, MessageTypes
  DEF Init, Inv, TypeOK, AddedIsAuthorized, Store!Init, Store!TypeOK, Buffers, Tables, Messages

\* A step that puts a message on one connection.
LEMMA OneMessage ==
    ASSUME TypeOK, NEW c \in Connections, NEW message \in Messages,
           conn' = [conn EXCEPT ![c] = message]
    PROVE  conn' \in [Connections -> Messages]
  BY DEF TypeOK, Messages

\* The page changes neither the cards nor what was promised.
LEMMA PageInv ==
    ASSUME Inv, NEW c \in Connections,
           \/ PageLists(c) \/ PageAdds(c) \/ PageDeletes(c) \/ PageResets(c)
           \/ GetsDone(c) \/ GetsFailed(c) \/ GetsList(c) \/ Loses(c)
    PROVE  Inv'
  <1>1. UNCHANGED <<store, http_server_buffer, told>>
    BY DEF PageLists, PageAdds, PageDeletes, PageResets, GetsDone, GetsFailed, GetsList, Loses
  <1>2. conn' \in [Connections -> Messages]
    <2>1. \E message \in Messages : conn' = [conn EXCEPT ![c] = message]
      BY MessageTypes
      DEF PageLists, PageAdds, PageDeletes, PageResets, Sends, GetsDone, GetsFailed,
          GetsList, Loses
    <2>2. QED BY <2>1, OneMessage DEF Inv
  <1>3. table' \in Tables
    BY DisplaysType
    DEF Inv, TypeOK, PageLists, PageAdds, PageDeletes, PageResets, GetsDone, GetsFailed,
        GetsList, Loses, Tables
  <1>4. QED
    BY <1>1, <1>2, <1>3 DEF Inv, TypeOK, AddedIsAuthorized, Store!TypeOK, store, Messages

\* The handlers, one at a time.
LEMMA HandlerInv ==
    ASSUME Inv, NEW c \in Connections, Handles(c) \/ ListsWhileBusy(c)
    PROVE  Inv'
  <1> USE DEF Inv, TypeOK, AddedIsAuthorized, Store!TypeOK
  <1>1. CASE Adds(c)
    <2>1. PICK n \in Typed \ {0} :
            /\ Store!Authorize(CardId(n))
            /\ told' = told \cup {n}
      BY <1>1 DEF Adds
    <2>2. /\ authorized' = authorized \cup {CardId(n)}
          /\ durable' = durable
      BY <2>1 DEF Store!Authorize
    <2>3. conn' \in [Connections -> Messages] /\ UNCHANGED <<http_server_buffer, table>>
      BY <1>1, MessageTypes, OneMessage DEF Adds, Answers
    <2>4. QED BY <2>1, <2>2, <2>3, CardIdType DEF Messages
  <1>2. CASE Deletes(c)
    <2>1. PICK n \in Typed \cup CardIds :
            /\ Store!Revoke(n)
            /\ told' = told \ {n}
      BY <1>2 DEF Deletes
    <2>2. /\ authorized' = authorized \ {n}
          /\ durable' = durable
      BY <2>1 DEF Store!Revoke
    <2>3. conn' \in [Connections -> Messages] /\ UNCHANGED <<http_server_buffer, table>>
      BY <1>2, MessageTypes, OneMessage DEF Deletes, Answers
    <2>4. QED BY <2>1, <2>2, <2>3 DEF Messages
  <1>3. CASE Resets(c)
    <2>1. authorized' = Defaults /\ durable' = durable /\ told' = {}
      BY <1>3 DEF Resets, Store!ResetToDefaults
    <2>2. conn' \in [Connections -> Messages] /\ UNCHANGED <<http_server_buffer, table>>
      BY <1>3, MessageTypes, OneMessage DEF Resets, Answers
    <2>3. QED BY <2>1, <2>2, DefaultsType DEF Messages
  <1>4. CASE Refuses(c) \/ ListsWhileBusy(c)
    <2>1. UNCHANGED <<store, http_server_buffer, table, told>>
      BY <1>4 DEF Refuses, ListsWhileBusy
    <2>2. conn' \in [Connections -> Messages]
      BY <1>4, MessageTypes, OneMessage DEF Refuses, ListsWhileBusy, Answers
    <2>3. QED BY <2>1, <2>2 DEF store, Messages
  <1>5. CASE Lists(c)
    <2>1. UNCHANGED <<store, table, told>> /\ http_server_buffer' = Shows(authorized)
      BY <1>5 DEF Lists
    <2>2. http_server_buffer' \in Buffers
      BY <2>1, ShowsType DEF Buffers
    <2>3. conn' \in [Connections -> Messages]
      BY <1>5, <2>2, MessageTypes, OneMessage DEF Lists, Answers
    <2>4. QED BY <2>1, <2>2, <2>3 DEF store, Messages
  <1>6. QED
    BY <1>1, <1>2, <1>3, <1>4, <1>5 DEF Handles

LEMMA StepInv == Inv /\ [Next]_vars => Inv'
  <1> SUFFICES ASSUME Inv, [Next]_vars PROVE Inv'
    OBVIOUS
  <1> USE DEF Inv, TypeOK, AddedIsAuthorized, Store!TypeOK
  <1>1. CASE Restart
    <2>1. authorized' = durable /\ durable' = durable /\ told' = {}
      BY <1>1 DEF Restart, Store!Restart
    <2>2. /\ http_server_buffer' \in Buffers /\ table' \in Tables
          /\ conn' \in [Connections -> Messages]
      BY <1>1, MessageTypes DEF Restart, Buffers, Tables
    <2>3. QED BY <2>1, <2>2 DEF Messages
  <1>2. CASE GetsData
    BY <1>2 DEF GetsData, Buffers, store
  <1>3. CASE Saves
    <2>1. /\ authorized' = authorized /\ durable' \in {Defaults, authorized}
          /\ UNCHANGED <<http_server_buffer, conn, table, told>>
      BY <1>3 DEF Saves, Store!Truncate, Store!Persist
    <2>2. QED BY <2>1, DefaultsType
  <1>4. ASSUME NEW c \in Connections,
               \/ PageLists(c) \/ PageChanges(c) \/ PageGets(c) \/ Loses(c)
               \/ Handles(c) \/ ListsWhileBusy(c)
        PROVE Inv'
    BY <1>4, PageInv, HandlerInv DEF PageChanges, PageGets
  <1>5. CASE UNCHANGED vars
    BY <1>5 DEF vars, store
  <1>6. QED BY <1>1, <1>2, <1>3, <1>4, <1>5 DEF Next

\* Every variable keeps its type: no card outside CardIds is ever authorized, in
\* particular not the id 0, which marks an unused slot.
THEOREM TypeCorrect == Spec => []TypeOK
  <1>1. Inv => TypeOK
    BY DEF Inv
  <1>2. QED BY <1>1, InitInv, StepInv, PTL DEF Spec

\* A card up to INT_MAX whose addition was answered with success is authorized until
\* it is removed, the cards are reset or the device restarts.
THEOREM AddedIsAuthorizedAlways == Spec => []AddedIsAuthorized
  <1>1. Inv => AddedIsAuthorized
    BY DEF Inv
  <1>2. QED BY <1>1, InitInv, StepInv, PTL DEF Spec

-----------------------------------------------------------------------------
(* The page catches up.  Once nothing disturbs it any more, first the changes    *)
(* under way come to an end, then the lists that are older than the last change  *)
(* have been shown, and from then on every list that arrives is the right one.   *)
(* That the steps can be taken is the hypothesis PageNeverStuck, which TLC       *)
(* checks.                                                                       *)

LEMMA MessageKinds ==
    /\ \A b : /\ [body |-> b] \notin Requests
              /\ [body |-> b] # Idle /\ [body |-> b] # Done /\ [body |-> b] # Failed
    /\ Idle \notin Requests /\ Idle \notin Replies
    /\ Done \notin Requests /\ Failed \notin Requests /\ Done # Failed
    /\ List # Idle /\ List # Done /\ List # Failed /\ Idle # Done /\ Idle # Failed
    /\ Idle \notin [body: Buffers] /\ List \notin [body: Buffers] /\ List \notin Replies
    /\ List \in Requests
    /\ \A b, d : [body |-> b] = [body |-> d] => b = d
  <1>1. \A b : /\ DOMAIN [body |-> b] = {"body"} /\ [body |-> b].body = b
    OBVIOUS
  <1>2. \A r \in Requests : "op" \in DOMAIN r /\ r.op # "idle"
    BY DEF Requests, List, Reset
  <1>3. /\ DOMAIN Idle = {"op"} /\ Idle.op = "idle" /\ DOMAIN Done = {"reply"}
        /\ DOMAIN Failed = {"reply"} /\ Done.reply = "done" /\ Failed.reply = "failed"
        /\ List.op = "list" /\ DOMAIN List = {"op"}
    BY DEF Idle, Done, Failed, List
  <1>4. \A r \in Replies : r = Done \/ r = Failed \/ DOMAIN r = {"body"}
    BY DEF Replies
  <1>5. "body" # "op" /\ "body" # "reply" /\ "op" # "reply" /\ "done" # "failed"
          /\ "list" # "idle"
    OBVIOUS
  <1>6. {"body"} # {"op"} /\ {"body"} # {"reply"} /\ {"op"} # {"reply"}
          /\ "op" \notin {"body"} /\ "op" \notin {"reply"}
    OBVIOUS
  <1>7. \A b : /\ [body |-> b] \notin Requests
               /\ [body |-> b] # Idle /\ [body |-> b] # Done /\ [body |-> b] # Failed
    BY <1>1, <1>2, <1>3, <1>6
  <1>8. Idle \notin Requests /\ Idle \notin Replies
    BY <1>2, <1>3, <1>4, <1>5, <1>6
  <1>9. Done \notin Requests /\ Failed \notin Requests /\ Done # Failed
    BY <1>2, <1>3, <1>5, <1>6
  <1>10. List # Idle /\ List # Done /\ List # Failed /\ Idle # Done /\ Idle # Failed
    BY <1>3, <1>5, <1>6
  <1>11. \A b, d : [body |-> b] = [body |-> d] => b = d
    BY <1>1
  <1>12. \A x \in [body: Buffers] : DOMAIN x = {"body"}
    OBVIOUS
  <1>13. Idle \notin [body: Buffers] /\ List \notin [body: Buffers]
    BY <1>3, <1>6, <1>12
  <1>14. List \notin Replies /\ List \in Requests
    BY <1>10, <1>13 DEF Replies, Requests
  <1>15. QED BY <1>7, <1>8, <1>9, <1>10, <1>11, <1>13, <1>14

\* Before and after the handler of a request that may change the cards.
Asked(c) == conn[c] \in Requests \ {List}
Replied(c) == conn[c] \in {Done, Failed}
Changes(c) == Asked(c) \/ Replied(c)

\* A list that is on its way, and no longer the right one.
Body(c) == conn[c] \in [body: Buffers]
Stale(c) == Body(c) /\ conn[c] # [body |-> Shows(authorized)]

\* A step that disturbs nothing.
Calm == TypeOK /\ TypeOK' /\ [Next]_vars /\ [~Disturbs]_vars

LEMMA CalmSteps ==
    ASSUME Calm
    PROVE  \/ UNCHANGED <<authorized, conn, table>>
           \/ \E d \in Connections :
                  PageLists(d) \/ PageGets(d) \/ Handles(d)
                  \/ (ListsWhileBusy(d) /\ http_server_buffer = Shows(authorized))
  BY DEF Calm, Next, Disturbs, GetsData, Saves, Store!Truncate, Store!Persist, vars, store

\* Each of those steps is about one connection.
LEMMA CalmMoves ==
    ASSUME Calm, NEW d \in Connections,
           PageLists(d) \/ PageGets(d) \/ Handles(d)
             \/ (ListsWhileBusy(d) /\ http_server_buffer = Shows(authorized))
    PROVE  /\ \A c \in Connections \ {d} : conn'[c] = conn[c]
           /\ \/ /\ PageLists(d)
                 /\ conn[d] = Idle /\ conn'[d] = List /\ table' = Loading
                 /\ UNCHANGED authorized
              \/ /\ PageGets(d)
                 /\ Replied(d) /\ conn'[d] \in {Idle, List} /\ table' \in {table, Loading}
                 /\ UNCHANGED authorized
              \/ /\ PageGets(d)
                 /\ \E b \in Buffers : conn[d] = [body |-> b] /\ table' = Displays(b)
                 /\ conn'[d] = Idle /\ UNCHANGED authorized
              \/ /\ Handles(d)
                 /\ Asked(d) /\ conn'[d] \in {Done, Failed} /\ UNCHANGED table
              \/ /\ conn[d] = List /\ conn'[d] = [body |-> Shows(authorized)]
                 /\ UNCHANGED <<authorized, table>>
  <1> USE DEF Calm, TypeOK, store, Answers
  <1>1. CASE PageLists(d)
    BY <1>1 DEF PageLists, Sends
  <1>2. CASE GetsDone(d) \/ GetsFailed(d)
    BY <1>2 DEF GetsDone, GetsFailed, PageGets, Replied
  <1>3. CASE GetsList(d)
    BY <1>3 DEF GetsList, PageGets
  <1>4. CASE Adds(d) \/ Deletes(d)
    <2>1. PICK n \in Typed \cup CardIds, op \in {"add", "delete"} : conn[d] = [op |-> op, id |-> n]
      BY <1>4 DEF Adds, Deletes
    <2>2. conn[d] \in Requests
      BY <2>1 DEF Requests
    <2>3. conn[d] # List
      <3>1. "id" \in DOMAIN conn[d] /\ "id" \notin DOMAIN List
        BY <2>1 DEF List
      <3>2. QED BY <3>1
    <2>4. QED BY <1>4, <2>2, <2>3 DEF Adds, Deletes, Asked, Handles
  <1>5. CASE Resets(d)
    <2>1. conn[d] \in Requests /\ conn[d] # List
      BY <1>5 DEF Resets, Requests, List, Reset
    <2>2. QED BY <1>5, <2>1 DEF Resets, Asked, Handles
  <1>6. CASE Refuses(d)
    BY <1>6 DEF Refuses, Asked, Handles
  <1>7. CASE Lists(d) \/ (ListsWhileBusy(d) /\ http_server_buffer = Shows(authorized))
    BY <1>7 DEF Lists, ListsWhileBusy
  <1>8. QED
    BY <1>1, <1>2, <1>3, <1>4, <1>5, <1>6, <1>7 DEF PageGets, Handles

\* A change that is under way comes nearer to its end, and no other begins.
LEMMA ChangeGoesOn ==
    ASSUME Calm, NEW c \in Connections
    PROVE  /\ Asked(c) => Asked(c)' \/ Replied(c)'
           /\ Asked(c) /\ Handles(c) => Replied(c)'
           /\ Replied(c) => Replied(c)' \/ ~Changes(c)'
           /\ Replied(c) /\ PageGets(c) => ~Changes(c)'
           /\ ~Changes(c) => ~Changes(c)'
  <1>1. ASSUME \/ PageLists(c) \/ PageGets(c) \/ Handles(c)
               \/ (ListsWhileBusy(c) /\ http_server_buffer = Shows(authorized))
        PROVE  /\ Asked(c) => Replied(c)'
               /\ Replied(c) => ~Changes(c)'
               /\ ~Changes(c) => ~Changes(c)'
               /\ Asked(c) => ~PageGets(c)
    <2>1. Asked(c) => ~Replied(c) /\ conn[c] # Idle /\ conn[c] # List
      BY MessageKinds DEF Asked, Replied
    <2>2. \A b : conn[c] = [body |-> b] => ~Asked(c) /\ ~Replied(c) /\ conn[c] # Idle
      BY MessageKinds DEF Asked, Replied
    <2>3. conn'[c] \in {Idle, List} => ~Changes(c)'
      BY MessageKinds DEF Changes, Asked, Replied
    <2>4. conn'[c] = [body |-> Shows(authorized)] => ~Changes(c)'
      BY MessageKinds DEF Changes, Asked, Replied
    <2>5. conn'[c] \in {Done, Failed} => Replied(c)'
      BY DEF Replied
    <2>6. conn[c] \in {Idle, List} => ~Changes(c)
      BY MessageKinds DEF Changes, Asked, Replied
    <2>7. \/ Asked(c) /\ Replied(c)' /\ Handles(c)
          \/ Replied(c) /\ ~Changes(c)'
          \/ ~Changes(c) /\ ~Changes(c)'
      BY <1>1, <2>2, <2>3, <2>4, <2>5, <2>6, CalmMoves DEF Changes
    <2>8. PageGets(c) => conn[c] \in Replies
      <3>1. \A b \in Buffers : [body |-> b] \in Replies
        BY DEF Replies
      <3>2. QED BY <3>1 DEF PageGets, GetsDone, GetsFailed, GetsList, Replies
    <2>9. Asked(c) => conn[c] \notin Replies
      <3>1. \A x \in [body: Buffers] : x = [body |-> x.body]
        OBVIOUS
      <3>2. QED BY <3>1, MessageKinds DEF Asked, Replies
    <2>10. QED BY <2>1, <2>7, <2>8, <2>9 DEF Changes
  <1>2. CASE conn'[c] = conn[c]
    <2>1. (Asked(c)' <=> Asked(c)) /\ (Replied(c)' <=> Replied(c)) /\ (Changes(c)' <=> Changes(c))
      BY <1>2 DEF Asked, Replied, Changes
    <2>2. QED BY <1>1, <2>1 DEF Changes
  <1>3. ASSUME NEW d \in Connections, d # c,
               \/ PageLists(d) \/ PageGets(d) \/ Handles(d)
               \/ (ListsWhileBusy(d) /\ http_server_buffer = Shows(authorized))
        PROVE  conn'[c] = conn[c]
    BY <1>3, CalmMoves
  <1>4. CASE conn'[c] # conn[c]
    <2>1. \/ PageLists(c) \/ PageGets(c) \/ Handles(c)
          \/ (ListsWhileBusy(c) /\ http_server_buffer = Shows(authorized))
      BY <1>3, <1>4, CalmSteps
    <2>2. QED BY <1>1, <2>1 DEF Changes
  <1>5. QED BY <1>2, <1>4

\* No change is under way.
Unchanging == \A c \in Connections : ~Changes(c)

\* Then every list that is sent is the right one, and an old one is taken once.
LEMMA ListGoesOn ==
    ASSUME Calm, Unchanging, NEW c \in Connections
    PROVE  /\ UNCHANGED authorized
           /\ ~Stale(c) => ~Stale(c)'
           /\ PageGets(c) => ~Stale(c)'
  <1>1. UNCHANGED authorized
    BY CalmSteps, CalmMoves DEF Unchanging, Changes
  <1>2. ASSUME \/ PageLists(c) \/ PageGets(c) \/ Handles(c)
               \/ (ListsWhileBusy(c) /\ http_server_buffer = Shows(authorized))
        PROVE  ~Stale(c)'
    <2>1. conn'[c] \in {Idle, List, [body |-> Shows(authorized)]}
      BY <1>2, CalmMoves DEF Unchanging, Changes
    <2>2. Idle \notin [body: Buffers] /\ List \notin [body: Buffers]
      BY MessageKinds
    <2>3. QED BY <1>1, <2>1, <2>2 DEF Stale, Body
  <1>3. CASE conn'[c] = conn[c]
    BY <1>1, <1>2, <1>3 DEF Stale, Body
  <1>4. CASE conn'[c] # conn[c]
    <2>1. ASSUME NEW d \in Connections, d # c,
               \/ PageLists(d) \/ PageGets(d) \/ Handles(d)
               \/ (ListsWhileBusy(d) /\ http_server_buffer = Shows(authorized))
          PROVE  conn'[c] = conn[c]
      BY <2>1, CalmMoves
    <2>2. \/ PageLists(c) \/ PageGets(c) \/ Handles(c)
          \/ (ListsWhileBusy(c) /\ http_server_buffer = Shows(authorized))
      BY <1>4, <2>1, CalmSteps
    <2>3. QED BY <1>1, <1>2, <2>2
  <1>5. QED BY <1>3, <1>4

\* No list under way is old.
Fresh == \A c \in Connections : ~Stale(c)

Shown == table = Shows(authorized)
Right == table \in {Loading, Shows(authorized)}

LEMMA DisplaysList == Displays(Shows(authorized)) = Shows(authorized)
  <1>1. DOMAIN Shows(authorized) = {"cards"} /\ DOMAIN Empty = {"other"} /\ DOMAIN Data = {"other"}
    BY DEF Shows, Empty, Data
  <1>2. {"cards"} # {"other"}
    OBVIOUS
  <1>3. Shows(authorized) # Empty /\ Shows(authorized) # Data
    BY <1>1, <1>2
  <1>4. QED BY <1>3 DEF Displays

\* Then a connection carries one right list after another to the page.
LEMMA PageGoesOn ==
    ASSUME Calm, Unchanging, Fresh, NEW c \in Connections
    PROVE  /\ conn[c] = Idle => conn'[c] = Idle \/ conn'[c] = List
           /\ PageLists(c) => conn'[c] = List
           /\ conn[c] = List => conn'[c] = List \/ Body(c)'
           /\ Handles(c) => Body(c)'
           /\ Body(c) => Body(c)' \/ Shown'
           /\ PageGets(c) => Shown'
           /\ Right => Right'
  <1>1. UNCHANGED authorized /\ authorized \subseteq CardIds
    BY ListGoesOn DEF Calm, TypeOK, Store!TypeOK
  <1>2. [body |-> Shows(authorized)] \in [body: Buffers]
    BY <1>1, ShowsType DEF Buffers
  <1>3. ASSUME NEW d \in Connections,
               \/ PageLists(d) \/ PageGets(d) \/ Handles(d)
               \/ (ListsWhileBusy(d) /\ http_server_buffer = Shows(authorized))
        PROVE  /\ \A e \in Connections \ {d} : conn'[e] = conn[e]
               /\ \/ conn[d] = Idle /\ conn'[d] = List /\ table' = Loading /\ PageLists(d)
                  \/ Body(d) /\ conn'[d] = Idle /\ table' = Shows(authorized) /\ PageGets(d)
                  \/ conn[d] = List /\ Body(d)' /\ UNCHANGED table
    <2>1. ASSUME NEW b \in Buffers, conn[d] = [body |-> b]
          PROVE  Body(d) /\ Displays(b) = Shows(authorized)
      <3>1. Body(d)
        BY <2>1 DEF Body
      <3>2. b = Shows(authorized)
        BY <2>1, <3>1, MessageKinds DEF Fresh, Stale
      <3>3. QED BY <3>1, <3>2, DisplaysList
    <2>2. QED BY <1>2, <1>3, <2>1, CalmMoves DEF Unchanging, Changes, Body
  <1>4. Right => Right'
    BY <1>1, <1>3, CalmSteps DEF Right
  <1>5. ASSUME NEW b \in Buffers
        PROVE  [body |-> b] # Idle /\ [body |-> b] # List /\ List # Idle
    BY MessageKinds DEF Requests
  <1>6. Body(c) => conn[c] # Idle /\ conn[c] # List
    BY <1>5 DEF Body
  <1>7. \/ conn'[c] = conn[c]
        \/ conn[c] = Idle /\ conn'[c] = List
        \/ Body(c) /\ conn'[c] = Idle /\ table' = Shows(authorized)
        \/ conn[c] = List /\ Body(c)'
    BY <1>3, CalmSteps
  <1>8. PageLists(c) => conn'[c] = List
    BY <1>3, <1>6, MessageKinds DEF PageLists, Sends
  <1>9. PageGets(c) => Shown'
    <2>1. PageGets(c) => conn[c] \in Replies
      <3>1. \A b \in Buffers : [body |-> b] \in Replies
        BY DEF Replies
      <3>2. QED BY <3>1 DEF PageGets, GetsDone, GetsFailed, GetsList, Replies
    <2>2. QED BY <1>1, <1>3, <2>1, MessageKinds DEF Shown
  <1>10. Handles(c) => Body(c)'
    <2>1. ASSUME Handles(c)
          PROVE  conn[c] = List \/ Asked(c)
      <3>1. CASE Lists(c)
        BY <3>1 DEF Lists
      <3>2. CASE Refuses(c)
        BY <3>2 DEF Refuses, Asked
      <3>3. CASE Resets(c)
        BY <3>3 DEF Resets, Asked, Requests, List, Reset
      <3>4. CASE Adds(c) \/ Deletes(c)
        <4>1. PICK n \in Typed \cup CardIds, op \in {"add", "delete"} :
                  conn[c] = [op |-> op, id |-> n]
          BY <3>4 DEF Adds, Deletes
        <4>2. conn[c] \in Requests
          BY <4>1 DEF Requests
        <4>3. "id" \in DOMAIN conn[c] /\ "id" \notin DOMAIN List
          BY <4>1 DEF List
        <4>4. QED BY <4>2, <4>3 DEF Asked
      <3>5. QED BY <2>1, <3>1, <3>2, <3>3, <3>4 DEF Handles
    <2>2. Handles(c) => conn[c] = List
      BY <2>1 DEF Unchanging, Changes
    <2>3. QED BY <1>3, <1>6, <2>2, MessageKinds
  <1>11. QED
    BY <1>1, <1>4, <1>6, <1>7, <1>8, <1>9, <1>10, MessageKinds DEF Body, Shown

CalmRun == []TypeOK /\ [][Next]_vars /\ [][~Disturbs]_vars /\ []PageNeverStuck

LEMMA ChangeEnds ==
    ASSUME NEW c \in Connections
    PROVE  CalmRun /\ Served(c) => <>[]~Changes(c)
  <1> DEFINE Waits == Asked(c)
             Answered == Replied(c)
             Under == Changes(c)
             Get == PageGets(c)
             Handle == Handles(c)
  <1>1. TypeOK /\ TypeOK' /\ [Next]_vars /\ [~Disturbs]_vars
            => /\ Waits => Waits' \/ Answered'
               /\ Waits /\ <<Handle>>_vars => Answered'
               /\ Answered => Answered' \/ ~Under'
               /\ Answered /\ <<Get>>_vars => ~Under'
               /\ ~Under => ~Under'
    BY ChangeGoesOn DEF Calm
  <1>2. Under <=> Waits \/ Answered
    BY DEF Changes
  <1>3. PageNeverStuck => /\ Waits => MayHandle(c)
                          /\ Answered => MayGet(c)
    BY DEF PageNeverStuck, Asked, Replied, Replies
  <1>4. /\ MayHandle(c) => ENABLED <<Handle>>_vars
        /\ MayGet(c) => ENABLED <<Get>>_vars
    BY PTL DEF MayHandle, MayGet, Handle, Get
  <1>5. CalmRun => []TypeOK /\ [][Next]_vars /\ [][~Disturbs]_vars /\ []PageNeverStuck
    BY PTL DEF CalmRun
  <1>6. Served(c) => WF_vars(Handle) /\ WF_vars(Get)
    BY PTL DEF Served, Handle, Get
  <1> DEFINE Able == MayHandle(c)
             Open == MayGet(c)
  <1> HIDE DEF Waits, Answered, Under, Get, Handle, Able, Open
  <1>7. CalmRun /\ Served(c) => <>[]~Under
    BY <1>1, <1>2, <1>3, <1>4, <1>5, <1>6, PTL DEF Able, Open
  <1>8. QED BY <1>7, PTL DEF Under

LEMMA OldListEnds ==
    ASSUME NEW c \in Connections
    PROVE  CalmRun /\ []Unchanging /\ Served(c) => <>[]~Stale(c)
  <1> DEFINE Outdated == Stale(c)
             Get == PageGets(c)
  <1>1. TypeOK /\ TypeOK' /\ [Next]_vars /\ [~Disturbs]_vars /\ Unchanging
            => /\ ~Outdated => ~Outdated'
               /\ <<Get>>_vars => ~Outdated'
    BY ListGoesOn DEF Calm
  <1>2. PageNeverStuck /\ Outdated => MayGet(c)
    BY DEF PageNeverStuck, Stale, Body, Replies
  <1>3. MayGet(c) => ENABLED <<Get>>_vars
    BY PTL DEF MayGet, Get
  <1>4. CalmRun => []TypeOK /\ [][Next]_vars /\ [][~Disturbs]_vars /\ []PageNeverStuck
    BY PTL DEF CalmRun
  <1>5. Served(c) => WF_vars(Get)
    BY PTL DEF Served, Get
  <1> DEFINE Open == MayGet(c)
  <1> HIDE DEF Outdated, Get, Open
  <1>6. CalmRun /\ []Unchanging /\ Served(c) => <>[]~Outdated
    BY <1>1, <1>2, <1>3, <1>4, <1>5, PTL DEF Open
  <1>7. QED BY <1>6, PTL DEF Outdated

LEMMA ListIsShown ==
    ASSUME NEW c \in Connections
    PROVE  CalmRun /\ []Unchanging /\ []Fresh /\ Served(c) => []<>Shown /\ <>[]Right
  <1> DEFINE Free == conn[c] = Idle
             Asks == conn[c] = List
             Sent == Body(c)
             Ask == PageLists(c)
             Get == PageGets(c)
             Handle == Handles(c)
  <1>1. TypeOK /\ TypeOK' /\ [Next]_vars /\ [~Disturbs]_vars /\ Unchanging /\ Fresh
            => /\ Free => Free' \/ Asks'
               /\ <<Ask>>_vars => Asks'
               /\ Asks => Asks' \/ Sent'
               /\ <<Handle>>_vars => Sent'
               /\ Sent => Sent' \/ Shown'
               /\ <<Get>>_vars => Shown'
               /\ Right => Right'
    BY PageGoesOn DEF Calm
  <1>2. TypeOK /\ Unchanging => Free \/ Asks \/ Sent
    BY DEF TypeOK, Replies, Unchanging, Changes, Asked, Replied, Body
  <1>3. PageNeverStuck => /\ Free => MayList(c)
                          /\ Asks => MayHandle(c)
                          /\ Sent => MayGet(c)
    BY MessageKinds DEF PageNeverStuck, Body, Replies
  <1>4. /\ MayList(c) => ENABLED <<Ask>>_vars
        /\ MayHandle(c) => ENABLED <<Handle>>_vars
        /\ MayGet(c) => ENABLED <<Get>>_vars
    BY PTL DEF MayList, MayHandle, MayGet, Ask, Handle, Get
  <1>5. CalmRun => []TypeOK /\ [][Next]_vars /\ [][~Disturbs]_vars /\ []PageNeverStuck
    BY PTL DEF CalmRun
  <1>6. Served(c) => WF_vars(Ask) /\ WF_vars(Handle) /\ WF_vars(Get)
    BY PTL DEF Served, Ask, Handle, Get
  <1>7. Shown => Right
    BY DEF Shown, Right
  <1> DEFINE Able == MayHandle(c)
             Open == MayGet(c)
             Ready == MayList(c)
  <1> HIDE DEF Free, Asks, Sent, Ask, Get, Handle, Able, Open, Ready
  <1>8. CalmRun /\ []Unchanging /\ []Fresh /\ Served(c) => []<>Shown
    BY <1>1, <1>2, <1>3, <1>4, <1>5, <1>6, PTL DEF Able, Open, Ready
  <1>9. QED BY <1>1, <1>5, <1>7, <1>8, PTL

\* What holds of every connection from some time on holds of all of them from some
\* time on, because they are finitely many (ConnectionsAssumption).  Every behaviour
\* satisfies this, but to conclude it takes an induction on a temporal formula, which
\* the prover does not have: the theorem has it as a hypothesis.
EndTogether ==
    /\ (\A c \in Connections : <>[]~Changes(c)) => <>[]Unchanging
    /\ (\A c \in Connections : <>[]~Stale(c)) => <>[]Fresh

\* The page shows the authorized cards again and again, and nothing else, once nobody
\* changes cards, the manager is not busy and connections hold: with any number of
\* connections, whatever requests and replies were under way, in any order.
THEOREM PageCatchesUpFairly == Spec /\ []PageNeverStuck /\ EndTogether => PageCatchesUp
  <1> DEFINE CalmAtLast == Spec /\ []PageNeverStuck /\ <>[][~Disturbs]_vars
  <1>1. CalmAtLast => <>CalmRun
    BY TypeCorrect, PTL DEF CalmRun, Spec
  <1>2. ASSUME NEW c \in Connections
        PROVE  CalmAtLast => []Served(c)
    <2>1. Fairness => Served(c)
      BY DEF Fairness
    <2>2. Served(c) => []Served(c)
      BY PTL DEF Served
    <2>3. QED BY <2>1, <2>2, PTL DEF Spec
  <1>3. CalmRun => []CalmRun
    BY PTL DEF CalmRun
  <1> HIDE DEF CalmAtLast
  <1>4. ASSUME NEW c \in Connections
        PROVE  CalmAtLast => <>[]~Changes(c)
    <2> DEFINE Serves == Served(c)
    <2>1. CalmRun /\ Serves => <>[]~Changes(c)
      BY ChangeEnds
    <2>2. CalmAtLast => []Serves
      BY <1>2
    <2> HIDE DEF Serves
    <2>3. QED BY <1>1, <2>1, <2>2, PTL
  <1>5. CalmAtLast /\ EndTogether => <>[]Unchanging
    BY <1>4 DEF EndTogether
  <1>6. ASSUME NEW c \in Connections
        PROVE  CalmAtLast /\ EndTogether => <>[]~Stale(c)
    <2> DEFINE Serves == Served(c)
    <2>1. CalmRun /\ []Unchanging /\ Serves => <>[]~Stale(c)
      BY OldListEnds
    <2>2. CalmAtLast => []Serves
      BY <1>2
    <2> HIDE DEF Serves
    <2>3. QED BY <1>1, <1>3, <1>5, <2>1, <2>2, PTL
  <1>7. CalmAtLast /\ EndTogether => <>[]Fresh
    BY <1>6 DEF EndTogether
  <1>8. CalmAtLast /\ EndTogether => []<>Shown /\ <>[]Right
    <2>1. PICK c \in Connections : TRUE
      BY ConnectionsAssumption
    <2> DEFINE Serves == Served(c)
    <2>2. CalmRun /\ []Unchanging /\ []Fresh /\ Serves => []<>Shown /\ <>[]Right
      BY ListIsShown
    <2>3. CalmAtLast => []Serves
      BY <1>2
    <2> HIDE DEF Serves
    <2>4. QED BY <1>1, <1>3, <1>5, <1>7, <2>2, <2>3, PTL
  <1>9. QED BY <1>8, PTL DEF CalmAtLast, PageCatchesUp, Shown, Right
=============================================================================
