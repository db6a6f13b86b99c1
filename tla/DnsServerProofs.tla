--------------------------- MODULE DnsServerProofs ---------------------------
(***************************************************************************)
(* Proofs about DnsServer for every table of sockets, every set of queries *)
(* and every mailbox.                                                      *)
(***************************************************************************)
EXTENDS DnsServer, Descent, FiniteSetTheorems, TLAPS

LEMMA NoDatagrams == << >> \in Seq(Questions) /\ Len(<< >>) = 0
  OBVIOUS

LEMMA InitType == Init => TypeOK
  <1> SUFFICES ASSUME Init PROVE TypeOK
    OBVIOUS
  <1>1. received \in Seq(Questions) /\ Len(received) <= MaxWaiting
    BY NoDatagrams, WaitingAssumption DEF Init
  <1>2. QED BY <1>1 DEF Init, TypeOK, TaskSteps, Owners

\* Taking a datagram keeps the mailbox a mailbox.
LEMMA TakingType ==
    ASSUME TypeOK, NEW q \in Questions, Takes(q)
    PROVE  received' \in Seq(Questions) /\ Len(received') <= MaxWaiting
  BY WaitingAssumption DEF TypeOK, Takes

LEMMA TypeInductive == TypeOK /\ [Next]_vars => TypeOK'
  <1> SUFFICES ASSUME TypeOK, [Next]_vars PROVE TypeOK'
    OBVIOUS
  <1> USE WaitingAssumption DEF TypeOK, TaskSteps, Owners, table
  <1>1. CASE Opens
    <2>1. received' \in Seq(Questions) /\ Len(received') <= MaxWaiting
      BY <1>1, NoDatagrams DEF Opens
    <2>2. QED BY <1>1, <2>1 DEF Opens
  <1>2. CASE OpenFails
    BY <1>2 DEF OpenFails
  <1>3. ASSUME NEW q \in Questions, Answers(q) PROVE TypeOK'
    <2>1. received' \in Seq(Questions) /\ Len(received') <= MaxWaiting
      BY <1>3, TakingType DEF Answers
    <2>2. asking' \subseteq Questions
      BY <1>3 DEF Answers
    <2>3. QED BY <1>3, <2>1, <2>2 DEF Answers
  <1>4. ASSUME NEW q \in Questions, SendFails(q) PROVE TypeOK'
    <2>1. received' \in Seq(Questions) /\ Len(received') <= MaxWaiting
      BY <1>4, TakingType DEF SendFails
    <2>2. task = "receiving"
      BY <1>4 DEF SendFails, Takes, HasSocket
    <2>3. QED BY <1>4, <2>1, <2>2 DEF SendFails
  <1>5. CASE ReceiveFails
    BY <1>5 DEF ReceiveFails
  <1>6. CASE ShutsDown
    BY <1>6 DEF ShutsDown
  <1>7. CASE OtherOpens
    BY <1>7 DEF OtherOpens
  <1>8. CASE OtherCloses
    BY <1>8 DEF OtherCloses
  <1>9. CASE Asks
    BY <1>9 DEF Asks
  <1>10. ASSUME NEW q \in Questions, Sends(q) PROVE TypeOK'
    <2>1. received' \in Seq(Questions) /\ Len(received') <= MaxWaiting
      BY <1>10 DEF Sends
    <2>2. QED BY <1>10, <2>1 DEF Sends
  <1>11. CASE UNCHANGED vars
    BY <1>11 DEF vars
  <1>12. QED
    BY <1>1, <1>2, <1>3, <1>4, <1>5, <1>6, <1>7, <1>8, <1>9, <1>10, <1>11
    DEF Next, TaskStep, AnswersOne

\* Every variable keeps its type, and the task has a socket number whenever it uses
\* one.
THEOREM TypeCorrect == Spec => []TypeOK
  BY InitType, TypeInductive, PTL DEF Spec

-----------------------------------------------------------------------------
IInv == TypeOK /\ NoSocketLeak /\ OwnersAgree

LEMMA InitIInv == Init => IInv
  BY InitType DEF Init, IInv, NoSocketLeak, OwnersAgree, OfTask

\* The steps that leave the table alone and the task where it is.
LEMMA ElsewhereIInv ==
    ASSUME IInv, UNCHANGED <<task, sock, table, erred>>
    PROVE  NoSocketLeak' /\ OwnersAgree'
  BY DEF IInv, NoSocketLeak, OwnersAgree, OfTask, table

LEMMA TaskStepIInv ==
    ASSUME IInv, TaskStep
    PROVE  NoSocketLeak' /\ OwnersAgree'
  <1> USE DEF IInv, TypeOK, NoSocketLeak, OwnersAgree, OfTask, table
  <1>1. CASE Opens
    BY <1>1 DEF Opens
  <1>2. CASE OpenFails
    BY <1>2 DEF OpenFails
  <1>3. CASE AnswersOne
    <2>1. UNCHANGED <<task, sock, table, erred>>
      BY <1>3 DEF AnswersOne, Answers
    <2>2. QED BY <2>1, ElsewhereIInv
  <1>4. CASE ReceiveFails
    BY <1>4 DEF ReceiveFails
  <1>5. CASE ShutsDown
    \* Before the first failed receive the number is the task's own.
    <2>1. /\ owner' = [owner EXCEPT ![sock] = "free"]
          /\ task = "closing" /\ task' = "opening" /\ UNCHANGED <<sock, held, erred>>
      BY <1>5 DEF ShutsDown
    <2>2. OfTask' = {}
      BY <2>1
    <2>3. ~erred => sock \notin held
      BY <2>1
    <2>4. QED BY <2>1, <2>2, <2>3
  <1>6. ASSUME NEW q \in Questions, SendFails(q) PROVE NoSocketLeak' /\ OwnersAgree'
    BY <1>6 DEF SendFails, Takes, HasSocket
  <1>7. QED
    BY <1>1, <1>2, <1>3, <1>4, <1>5, <1>6 DEF TaskStep

LEMMA StepIInv == IInv /\ [Next]_vars => IInv'
  <1> SUFFICES ASSUME IInv, [Next]_vars PROVE IInv'
    OBVIOUS
  <1>0. TypeOK'
    BY TypeInductive DEF IInv
  <1>1. CASE TaskStep
    BY <1>0, <1>1, TaskStepIInv DEF IInv
  <1>2. CASE OtherOpens
    BY <1>0, <1>2 DEF OtherOpens, IInv, TypeOK, NoSocketLeak, OwnersAgree, OfTask
  <1>3. CASE OtherCloses
    BY <1>0, <1>3 DEF OtherCloses, IInv, TypeOK, NoSocketLeak, OwnersAgree, OfTask
  <1>4. CASE Asks \/ (\E q \in Questions : Sends(q)) \/ UNCHANGED vars
    <2>1. UNCHANGED <<task, sock, table, erred>>
      BY <1>4 DEF Asks, Sends, vars
    <2>2. QED BY <1>0, <2>1, ElsewhereIInv DEF IInv
  <1>5. QED BY <1>1, <1>2, <1>3, <1>4 DEF Next

LEMMA InvariantHolds == Spec => []IInv
  BY InitIInv, StepIInv, PTL DEF Spec

\* The task leaves no socket behind, whatever fails and whoever closes what.
THEOREM NoSocketLeakAlways == Spec => []NoSocketLeak
  BY InvariantHolds, PTL DEF IInv

\* Until a receive fails every task closes only what is its own.
THEOREM OwnersAgreeAlways == Spec => []OwnersAgree
  BY InvariantHolds, PTL DEF IInv

-----------------------------------------------------------------------------
(* A lookup is answered.  Suppose one stayed without an answer once the trouble  *)
(* is over.  The other tasks can take the task's socket away only as often as    *)
(* they hold one; then the task keeps its socket, the mailbox is emptied again   *)
(* and again, the query gets into it, moves up with every answer and is answered *)
(* at its head.  That the steps can be taken is the hypothesis ServerNeverStuck, *)
(* which TLC checks.                                                             *)

\* The place of a query in a mailbox, and one behind the last place for none.
In(box, q) == \E i \in 1 .. Len(box) : box[i] = q
FirstAt(box, q, i) ==
    /\ i \in 1 .. Len(box)
    /\ box[i] = q
    /\ \A j \in 1 .. i - 1 : box[j] # q
Place(box, q) == IF In(box, q) THEN CHOOSE i \in 1 .. Len(box) : FirstAt(box, q, i)
                               ELSE MaxWaiting + 1
Ahead(q) == Place(received, q)

LEMMA PlaceIsFirst ==
    ASSUME NEW box \in Seq(Questions), NEW q, In(box, q)
    PROVE  FirstAt(box, q, Place(box, q))
  <1> DEFINE T == {i \in 1 .. Len(box) : box[i] = q}
  <1>1. Len(box) \in Nat
    OBVIOUS
  <1>2. T \subseteq Nat /\ T # {}
    BY <1>1 DEF In
  <1>3. PICK i \in T : \A j \in T : i <= j
    BY <1>2, Least
  <1>4. FirstAt(box, q, i)
    BY <1>1, <1>3 DEF FirstAt
  <1>5. i \in 1 .. Len(box)
    BY <1>3
  <1>6. QED BY <1>4, <1>5 DEF Place

LEMMA FirstIsPlace ==
    ASSUME NEW box \in Seq(Questions), NEW q, NEW i, FirstAt(box, q, i)
    PROVE  Place(box, q) = i
  <1>1. In(box, q)
    BY DEF FirstAt, In
  <1>2. FirstAt(box, q, Place(box, q))
    BY <1>1, PlaceIsFirst
  <1>3. QED BY <1>2 DEF FirstAt

LEMMA PlaceIsNumber ==
    ASSUME NEW box \in Seq(Questions), NEW q
    PROVE  /\ Place(box, q) \in Nat
           /\ In(box, q) => Place(box, q) \in 1 .. Len(box)
           /\ ~In(box, q) => Place(box, q) = MaxWaiting + 1
  <1>1. CASE In(box, q)
    BY <1>1, PlaceIsFirst DEF FirstAt
  <1>2. CASE ~In(box, q)
    BY <1>2, WaitingAssumption DEF Place
  <1>3. QED BY <1>1, <1>2

\* Answering another query moves a query up.
LEMMA TakingMovesUp ==
    ASSUME NEW box \in Seq(Questions), box # << >>, NEW q, Head(box) # q
    PROVE  /\ In(Tail(box), q) <=> In(box, q)
           /\ In(box, q) => Place(Tail(box), q) < Place(box, q)
           /\ Place(Tail(box), q) <= Place(box, q)
  <1>1. /\ Tail(box) \in Seq(Questions)
        /\ Len(box) \in Nat \ {0}
        /\ Len(Tail(box)) = Len(box) - 1
        /\ \A i \in 1 .. Len(Tail(box)) : Tail(box)[i] = box[i + 1]
        /\ box[1] # q
    OBVIOUS
  <1>2. ASSUME In(box, q)
        PROVE  In(Tail(box), q) /\ Place(Tail(box), q) = Place(box, q) - 1
    <2>1. PICK i : i = Place(box, q) /\ FirstAt(box, q, i)
      BY <1>2, PlaceIsFirst
    <2>2. i \in 2 .. Len(box) /\ box[i] = q /\ \A j \in 1 .. i - 1 : box[j] # q
      BY <1>1, <2>1 DEF FirstAt
    <2>3. i - 1 \in 1 .. Len(Tail(box)) /\ (i - 1) + 1 = i
      BY <1>1, <2>2
    <2>4. Tail(box)[i - 1] = q
      BY <1>1, <2>2, <2>3
    <2>5. ASSUME NEW j \in 1 .. (i - 1) - 1 PROVE Tail(box)[j] # q
      <3>1. j \in 1 .. Len(Tail(box)) /\ j + 1 \in 1 .. i - 1
        BY <1>1, <2>2
      <3>2. QED BY <1>1, <2>2, <3>1
    <2>6. FirstAt(Tail(box), q, i - 1)
      BY <2>3, <2>4, <2>5 DEF FirstAt
    <2>7. QED BY <1>1, <2>1, <2>3, <2>4, <2>6, FirstIsPlace DEF In
  <1>3. ASSUME In(Tail(box), q) PROVE In(box, q)
    <2>1. PICK i \in 1 .. Len(Tail(box)) : Tail(box)[i] = q
      BY <1>3 DEF In
    <2>2. i + 1 \in 1 .. Len(box) /\ box[i + 1] = q
      BY <1>1, <2>1
    <2>3. QED BY <2>2 DEF In
  <1>4. CASE In(box, q)
    <2>1. Place(box, q) \in Nat
      BY PlaceIsNumber
    <2>2. Place(Tail(box), q) = Place(box, q) - 1
      BY <1>2, <1>4
    <2>3. Place(Tail(box), q) < Place(box, q) /\ Place(Tail(box), q) <= Place(box, q)
      BY <2>1, <2>2
    <2>4. QED BY <1>2, <1>4, <2>3
  <1>5. CASE ~In(box, q)
    <2>1. ~In(Tail(box), q)
      BY <1>3, <1>5
    <2>2. Place(box, q) = MaxWaiting + 1 /\ Place(Tail(box), q) = MaxWaiting + 1
      BY <1>5, <2>1 DEF Place
    <2>3. QED BY <1>5, <2>1, <2>2, WaitingAssumption
  <1>6. QED BY <1>4, <1>5

\* Another datagram goes behind the query, and the query before the place of none.
LEMMA SendingKeepsPlace ==
    ASSUME NEW box \in Seq(Questions), Len(box) < MaxWaiting,
           NEW q, NEW r \in Questions
    PROVE  /\ In(box, q) => In(Append(box, r), q)
           /\ ~In(box, q) /\ r # q => ~In(Append(box, r), q)
           /\ ~In(box, q) /\ r = q => Place(Append(box, r), q) < Place(box, q)
           /\ Place(Append(box, r), q) <= Place(box, q)
  <1> DEFINE new == Append(box, r)
  <1>1. /\ new \in Seq(Questions)
        /\ Len(box) \in Nat
        /\ Len(new) = Len(box) + 1
        /\ \A i \in 1 .. Len(box) : new[i] = box[i]
        /\ new[Len(box) + 1] = r
    OBVIOUS
  <1> HIDE DEF new
  <1>2. MaxWaiting \in Nat
    BY WaitingAssumption
  <1>3. CASE In(box, q)
    <2>1. PICK i : i = Place(box, q) /\ FirstAt(box, q, i)
      BY <1>3, PlaceIsFirst
    <2>2. FirstAt(new, q, i)
      BY <1>1, <2>1 DEF FirstAt
    <2>3. Place(new, q) = i
      BY <1>1, <2>2, FirstIsPlace
    <2>4. In(new, q) /\ i \in Nat
      BY <1>1, <2>2 DEF FirstAt, In
    <2>5. QED BY <1>3, <2>1, <2>3, <2>4 DEF new
  <1>4. CASE ~In(box, q) /\ r = q
    <2>1. In(new, q)
      BY <1>1, <1>4 DEF In
    <2>2. Place(new, q) \in 1 .. Len(new)
      BY <1>1, <2>1, PlaceIsNumber
    <2>3. Place(box, q) = MaxWaiting + 1
      BY <1>4 DEF Place
    <2>4. Place(new, q) < Place(box, q) /\ Place(new, q) <= Place(box, q)
      BY <1>1, <1>2, <2>2, <2>3
    <2>5. QED BY <1>4, <2>4 DEF new
  <1>5. CASE ~In(box, q) /\ r # q
    <2>1. ~In(new, q)
      BY <1>1, <1>5 DEF In
    <2>2. Place(box, q) = MaxWaiting + 1 /\ Place(new, q) = MaxWaiting + 1
      BY <1>5, <2>1 DEF Place
    <2>3. Place(new, q) <= Place(box, q)
      BY <1>2, <2>2
    <2>4. QED BY <1>5, <2>1, <2>3 DEF new
  <1>6. QED BY <1>3, <1>4, <1>5

\* A query that is not answered although the task is there and bound, and a step that
\* leaves it so when the trouble is over.
Unanswered(q) == q \in asking /\ task # "ended" /\ bound
Calm(q) ==
    /\ TypeOK /\ TypeOK' /\ [Next]_vars /\ [~Trouble]_vars
    /\ Unanswered(q) /\ Unanswered(q)'

CalmStep ==
    \/ Opens \/ AnswersOne \/ ReceiveMustFail \/ ShutsDown \/ OtherCloses \/ Asks
    \/ \E q \in Questions : Sends(q)

LEMMA CalmSteps == ASSUME NEW q \in Questions, Calm(q) PROVE [CalmStep]_vars
  BY DEF Calm, CalmStep, Next, TaskStep, Trouble, ReceiveMustFail

\* The others only give up sockets.
LEMMA OthersGiveUp ==
    ASSUME NEW q \in Questions, Calm(q)
    PROVE  /\ Cardinality(held) \in Nat
           /\ Cardinality(held') <= Cardinality(held)
           /\ OtherCloses => Cardinality(held') < Cardinality(held)
  <1>1. IsFiniteSet(held) /\ Cardinality(held) \in Nat
    BY SocketsAssumption, FS_Subset, FS_CardinalityType DEF Calm, TypeOK
  <1>2. CASE OtherCloses
    <2>1. PICK s \in held : held' = held \ {s}
      BY <1>2 DEF OtherCloses
    <2>2. Cardinality(held') = Cardinality(held) - 1
      BY <1>1, <2>1, FS_RemoveElement
    <2>3. QED BY <1>1, <2>2
  <1>3. CASE ~OtherCloses
    <2>1. held' = held
      BY <1>3, CalmSteps
      DEF CalmStep, Opens, AnswersOne, Answers, ReceiveMustFail, ReceiveFails, ShutsDown, Asks,
          Sends, vars, table
    <2>2. QED BY <1>1, <1>3, <2>1
  <1>4. QED BY <1>2, <1>3

\* The task's way to a socket that nobody takes away.
LEMMA TaskGoesOn ==
    ASSUME NEW q \in Questions, Calm(q), ~OtherCloses
    PROVE  /\ HasSocket => HasSocket'
           /\ task = "opening" => task' = "opening" \/ HasSocket'
           /\ OpenReturns => HasSocket'
           /\ task = "receiving" /\ ~HasSocket =>
                  (task = "receiving" /\ ~HasSocket)' \/ task' = "closing"
           /\ ReceiveMustFail => task' = "closing"
           /\ task = "closing" => task' = "closing" \/ task' = "opening"
           /\ ShutsDown => task' = "opening"
  <1>1. [CalmStep]_vars /\ ~OpenFails
    BY CalmSteps DEF Calm, Unanswered, OpenFails
  <1> USE DEF HasSocket
  <1>2. CASE Opens
    <2>1. HasSocket' /\ task = "opening"
      BY <1>2 DEF Opens, Calm, TypeOK
    <2>2. QED BY <2>1 DEF ReceiveMustFail, ReceiveFails, ShutsDown
  <1>3. CASE AnswersOne \/ Asks \/ (\E r \in Questions : Sends(r)) \/ UNCHANGED vars
    <2>1. UNCHANGED <<task, sock, owner>>
      BY <1>3 DEF AnswersOne, Answers, Asks, Sends, vars, table
    <2>2. ~Opens
      BY <2>1 DEF Opens
    <2>3. ~ReceiveMustFail /\ ~ShutsDown
      BY <2>1 DEF ReceiveMustFail, ReceiveFails, ShutsDown
    <2>4. QED BY <1>1, <2>1, <2>2, <2>3 DEF Calm, TypeOK, TaskSteps, OpenReturns
  <1>4. CASE ReceiveMustFail
    BY <1>1, <1>4 DEF ReceiveMustFail, ReceiveFails, OpenReturns, Opens, ShutsDown
  <1>5. CASE ShutsDown
    BY <1>1, <1>5 DEF ReceiveMustFail, ReceiveFails, OpenReturns, Opens, ShutsDown
  <1>6. QED BY <1>1, <1>2, <1>3, <1>4, <1>5 DEF CalmStep, OpenReturns

\* The query's way through the mailbox of a task that keeps its socket.
LEMMA QueryGoesOn ==
    ASSUME NEW q \in Questions, AnswersPortal(q), Calm(q), HasSocket, HasSocket'
    PROVE  /\ Ahead(q) \in Nat /\ Ahead(q)' <= Ahead(q)
           /\ In(received, q) => In(received, q)'
           /\ In(received, q) /\ AnswersOne => Ahead(q)' < Ahead(q)
           /\ ~In(received, q) => ~In(received, q)' \/ Ahead(q)' < Ahead(q)
           /\ ~In(received, q) /\ Sends(q) => Ahead(q)' < Ahead(q)
           /\ Len(received) < MaxWaiting \/ AnswersOne \/ UNCHANGED received
           /\ AnswersOne => Len(received') < MaxWaiting
  <1>1. received \in Seq(Questions) /\ Len(received) <= MaxWaiting
    BY DEF Calm, TypeOK
  <1>2. Ahead(q) \in Nat
    BY <1>1, PlaceIsNumber DEF Ahead
  <1>3. CASE AnswersOne
    <2>1. PICK r \in Questions : Answers(r)
      BY <1>3 DEF AnswersOne
    <2>2. received # << >> /\ Head(received) # q /\ received' = Tail(received)
      BY <2>1 DEF Answers, Takes, Calm, Unanswered
    <2>3. /\ In(received', q) <=> In(received, q)
          /\ In(received, q) => Place(received', q) < Place(received, q)
          /\ Place(received', q) <= Place(received, q)
      BY <1>1, <2>2, TakingMovesUp
    <2>4. Len(received') < MaxWaiting
      BY <1>1, <2>2, WaitingAssumption
    <2>5. ~Sends(q)
      <3>1. Len(received') # Len(received) + 1
        BY <1>1, <2>2
      <3>2. QED BY <1>1, <3>1 DEF Sends
    <2>6. QED BY <1>2, <1>3, <2>3, <2>4, <2>5 DEF Ahead
  <1>4. ASSUME NEW r \in Questions, Sends(r), ~AnswersOne
        PROVE  /\ Ahead(q)' <= Ahead(q)
               /\ In(received, q) => In(received, q)'
               /\ ~In(received, q) => ~In(received, q)' \/ Ahead(q)' < Ahead(q)
               /\ ~In(received, q) /\ r = q => Ahead(q)' < Ahead(q)
               /\ Len(received) < MaxWaiting
    <2>1. received' = Append(received, r) /\ Len(received) < MaxWaiting
      BY <1>4 DEF Sends
    <2>2. /\ In(received, q) => In(received', q)
          /\ ~In(received, q) /\ r # q => ~In(received', q)
          /\ ~In(received, q) /\ r = q => Place(received', q) < Place(received, q)
          /\ Place(received', q) <= Place(received, q)
      BY <1>1, <2>1, SendingKeepsPlace
    <2>3. QED BY <2>1, <2>2 DEF Ahead
  <1>5. CASE UNCHANGED received /\ ~AnswersOne
    <2>1. ~Sends(q)
      <3>1. Append(received, q) # received
        BY <1>1
      <3>2. QED BY <1>5, <3>1 DEF Sends
    <2>2. QED BY <1>2, <1>5, <2>1 DEF Ahead
  <1>6. CASE ~AnswersOne /\ ~(\E r \in Questions : Sends(r))
    <2>1. UNCHANGED received
      BY <1>6, CalmSteps
      DEF CalmStep, Opens, HasSocket, ReceiveMustFail, ShutsDown, OtherCloses, Asks, vars
    <2>2. QED BY <1>5, <1>6, <2>1
  <1>7. CASE ~AnswersOne /\ (\E r \in Questions : Sends(r))
    <2>1. CASE Sends(q)
      BY <1>2, <1>4, <1>7, <2>1
    <2>2. CASE ~Sends(q)
      BY <1>2, <1>4, <1>7, <2>2
    <2>3. QED BY <2>1, <2>2
  <1>8. QED BY <1>3, <1>6, <1>7

\* A behaviour from where the trouble is over, with a query nobody answers.
Abandons(q) ==
    /\ []TypeOK /\ [][Next]_vars /\ [][~Trouble]_vars /\ []Unanswered(q)
    /\ []ServerNeverStuck
    /\ WF_vars(OpenReturns) /\ WF_vars(AnswersOne) /\ WF_vars(ReceiveMustFail)
    /\ WF_vars(ShutsDown) /\ GetsThrough(q)

LEMMA OthersComeToRest ==
    ASSUME NEW q \in Questions
    PROVE  Abandons(q) /\ StopsFalling(Cardinality(held), vars) => <>[][~OtherCloses]_vars
  <1> DEFINE Held == Cardinality(held)
             Lasts == Unanswered(q)
             Counted == Held \in Nat
  <1>1. TypeOK /\ TypeOK' /\ [Next]_vars /\ [~Trouble]_vars /\ Lasts /\ Lasts'
            => /\ [Held' <= Held]_vars
               /\ [Held' = Held]_vars => [~OtherCloses]_vars
    <2> SUFFICES ASSUME Calm(q)
                 PROVE  /\ [Held' <= Held]_vars
                        /\ [Held' = Held]_vars => [~OtherCloses]_vars
      BY DEF Calm
    <2>1. /\ Held \in Nat /\ Held' <= Held
          /\ OtherCloses => Held' < Held
      BY OthersGiveUp
    <2> HIDE DEF Held
    <2>2. Held' = Held => ~OtherCloses
      BY <2>1
    <2>3. QED BY <2>1, <2>2
  <1>2. TypeOK => Counted
    BY SocketsAssumption, FS_Subset, FS_CardinalityType DEF TypeOK
  <1>3. StopsFalling(Cardinality(held), vars) => StopsFalling(Held, vars)
    BY DEF Held
  <1>4. Abandons(q) => []TypeOK /\ [][Next]_vars /\ [][~Trouble]_vars /\ []Lasts
    BY PTL DEF Abandons, Lasts
  <1>5. Counted => Held \in Nat
    OBVIOUS
  <1> HIDE DEF Held, Lasts, Counted
  <1>6. QED BY <1>1, <1>2, <1>3, <1>4, <1>5, PTL DEF StopsFalling

LEMMA TaskGetsSocket ==
    ASSUME NEW q \in Questions
    PROVE  Abandons(q) /\ [][~OtherCloses]_vars => <>[]HasSocket
  <1> DEFINE Lasts == Unanswered(q)
             Opening == task = "opening"
             Closing == task = "closing"
             Losing == task = "receiving" /\ ~HasSocket
  <1>1. TypeOK /\ TypeOK' /\ [Next]_vars /\ [~Trouble]_vars /\ Lasts /\ Lasts'
            /\ [~OtherCloses]_vars
            => /\ HasSocket => HasSocket'
               /\ Opening => Opening' \/ HasSocket'
               /\ <<OpenReturns>>_vars => HasSocket'
               /\ Losing => Losing' \/ Closing'
               /\ <<ReceiveMustFail>>_vars => Closing'
               /\ Closing => Closing' \/ Opening'
               /\ <<ShutsDown>>_vars => Opening'
    <2>1. CASE UNCHANGED vars
      BY <2>1 DEF vars, table, HasSocket
    <2>2. CASE ~UNCHANGED vars
      BY <2>2, TaskGoesOn DEF Calm
    <2>3. QED BY <2>1, <2>2
  <1>2. TypeOK /\ Lasts => Opening \/ Losing \/ Closing \/ HasSocket
    BY DEF TypeOK, TaskSteps, Unanswered
  <1>3. ServerNeverStuck => /\ Opening => ENABLED <<OpenReturns>>_vars
                            /\ Closing => ENABLED <<ShutsDown>>_vars
                            /\ Losing => ENABLED <<ReceiveMustFail>>_vars
    BY DEF ServerNeverStuck
  <1>4. Abandons(q) => /\ []TypeOK /\ [][Next]_vars /\ [][~Trouble]_vars /\ []Lasts
                       /\ []ServerNeverStuck
                       /\ WF_vars(OpenReturns) /\ WF_vars(ReceiveMustFail) /\ WF_vars(ShutsDown)
    BY PTL DEF Abandons
  <1> HIDE DEF Lasts, Opening, Closing, Losing
  <1>5. QED BY <1>1, <1>2, <1>3, <1>4, PTL

LEMMA QueryIsAnswered ==
    ASSUME NEW q \in Questions, AnswersPortal(q)
    PROVE  ~(Abandons(q) /\ []HasSocket /\ StopsFalling(Ahead(q), vars))
  <1> DEFINE Lasts == Unanswered(q)
             Left == Ahead(q)
             Counted == Left \in Nat
             Queued == In(received, q)
             Room == Len(received) < MaxWaiting
             Send == Sends(q)
  <1>1. TypeOK /\ TypeOK' /\ [Next]_vars /\ [~Trouble]_vars /\ Lasts /\ Lasts'
            /\ HasSocket /\ HasSocket'
            => /\ [Left' <= Left]_vars
               /\ Queued => Queued'
               /\ Queued /\ [Left' = Left]_vars => ~<<AnswersOne>>_vars
               /\ ~Queued /\ [Left' = Left]_vars => ~Queued' /\ ~<<Send>>_vars
               /\ <<AnswersOne>>_vars => Room'
               /\ ~Room => ~Room' \/ <<AnswersOne>>_vars
    <2> SUFFICES ASSUME Calm(q), HasSocket, HasSocket'
                 PROVE  /\ [Left' <= Left]_vars
                        /\ Queued => Queued'
                        /\ Queued /\ [Left' = Left]_vars => ~<<AnswersOne>>_vars
                        /\ ~Queued /\ [Left' = Left]_vars => ~Queued' /\ ~<<Send>>_vars
                        /\ <<AnswersOne>>_vars => Room'
                        /\ ~Room => ~Room' \/ <<AnswersOne>>_vars
      BY DEF Calm
    <2>1. /\ Left \in Nat /\ Left' <= Left
          /\ Queued => Queued'
          /\ Queued /\ AnswersOne => Left' < Left
          /\ ~Queued => ~Queued' \/ Left' < Left
          /\ ~Queued /\ Send => Left' < Left
          /\ Room \/ AnswersOne \/ UNCHANGED received
          /\ AnswersOne => Room'
      BY QueryGoesOn
    <2>2. UNCHANGED vars => UNCHANGED received
      BY DEF vars
    <2>3. UNCHANGED received => (Queued' <=> Queued) /\ (Room' <=> Room)
      OBVIOUS
    <2> HIDE DEF Left, Queued, Room, Send
    <2>4. Left' < Left => Left' # Left
      BY <2>1
    <2>5. /\ [Left' <= Left]_vars
          /\ Queued => Queued'
          /\ <<AnswersOne>>_vars => Room'
      BY <2>1
    <2>6. ~Room => ~Room' \/ <<AnswersOne>>_vars
      BY <2>1, <2>2, <2>3
    <2>7. Queued /\ [Left' = Left]_vars => ~<<AnswersOne>>_vars
      BY <2>1, <2>4
    <2>8. ~Queued /\ [Left' = Left]_vars => ~Queued' /\ ~<<Send>>_vars
      BY <2>1, <2>2, <2>3, <2>4
    <2>9. QED BY <2>5, <2>6, <2>7, <2>8
  <1>2. TypeOK => Counted
    BY PlaceIsNumber DEF TypeOK, Ahead
  <1>3. TypeOK /\ HasSocket /\ ServerNeverStuck =>
            /\ Queued => ENABLED <<AnswersOne>>_vars
            /\ ~Room => ENABLED <<AnswersOne>>_vars
    <2> SUFFICES ASSUME TypeOK, HasSocket, ServerNeverStuck, Queued \/ ~Room
                 PROVE  ENABLED <<AnswersOne>>_vars
      OBVIOUS
    <2>1. received # << >>
      BY WaitingAssumption DEF TypeOK, In
    <2>2. QED BY <2>1 DEF ServerNeverStuck
  <1>4. HasSocket /\ ServerNeverStuck /\ Lasts /\ Room => MaySend(q)
    BY DEF ServerNeverStuck, Unanswered
  <1>5. MaySend(q) => ENABLED <<Send>>_vars
    BY PTL DEF MaySend, Send
  <1>6. StopsFalling(Ahead(q), vars) => StopsFalling(Left, vars)
    BY DEF Left
  <1>7. Abandons(q) => /\ []TypeOK /\ [][Next]_vars /\ [][~Trouble]_vars /\ []Lasts
                       /\ []ServerNeverStuck /\ WF_vars(AnswersOne) /\ SF_vars(Send)
    BY PTL DEF Abandons, GetsThrough, Send, Lasts
  <1>8. Counted => Left \in Nat
    OBVIOUS
  <1> DEFINE Sendable == MaySend(q)
  <1> HIDE DEF Lasts, Left, Counted, Queued, Room, Send, Sendable
  <1>9. []TypeOK /\ [][Next]_vars /\ [][~Trouble]_vars /\ []Lasts /\ []HasSocket
            /\ StopsFalling(Left, vars) => <>[][Left' = Left]_vars
    BY <1>1, <1>2, <1>8, PTL DEF StopsFalling
  <1>10. []TypeOK /\ [][Next]_vars /\ [][~Trouble]_vars /\ []Lasts /\ []HasSocket
            /\ []ServerNeverStuck /\ [][Left' = Left]_vars
            => ~(WF_vars(AnswersOne) /\ SF_vars(Send))
    BY <1>1, <1>3, <1>4, <1>5, PTL DEF Sendable
  <1>11. QED BY <1>6, <1>7, <1>9, <1>10, PTL

\* What the theorem takes for granted of natural numbers that only fall: see Descent.
MovesUp(q) == StopsFalling(Ahead(q), vars)
QueuesEnd == StopsFalling(Cardinality(held), vars) /\ \A q \in Questions : MovesUp(q)

LEMMA NobodyAbandons ==
    ASSUME NEW q \in Questions, AnswersPortal(q)
    PROVE  ~(Abandons(q) /\ StopsFalling(Cardinality(held), vars) /\ MovesUp(q))
  <1> DEFINE Abandoned == Abandons(q)
             Falls == StopsFalling(Ahead(q), vars)
  <1>1. Abandoned => []Abandoned
    BY PTL DEF Abandons, GetsThrough
  <1>2. Falls => []Falls
    BY PTL DEF StopsFalling
  <1>3. Abandoned /\ StopsFalling(Cardinality(held), vars) => <>[][~OtherCloses]_vars
    BY OthersComeToRest
  <1>4. Abandoned /\ [][~OtherCloses]_vars => <>[]HasSocket
    BY TaskGetsSocket
  <1>5. ~(Abandoned /\ []HasSocket /\ Falls)
    BY QueryIsAnswered
  <1>6. MovesUp(q) => Falls
    BY DEF MovesUp
  <1> HIDE DEF Abandoned, Falls
  <1>7. ~(Abandoned /\ StopsFalling(Cardinality(held), vars) /\ MovesUp(q))
    BY <1>1, <1>2, <1>3, <1>4, <1>5, <1>6, PTL
  <1>8. QED BY <1>7 DEF Abandoned

\* A lookup for the portal is answered, for every set of queries, mailbox and table of
\* sockets.
THEOREM LookupsAnsweredFairly == Spec /\ []ServerNeverStuck /\ QueuesEnd => LookupsAnswered
  <1>1. ASSUME NEW q \in Questions, AnswersPortal(q)
        PROVE  Spec /\ []ServerNeverStuck /\ QueuesEnd => (<>[][~Trouble]_vars => IsAnswered(q))
    <2> DEFINE Lasts == Unanswered(q)
               Asked == q \in asking
               Over == q \notin asking \/ task = "ended" \/ ~bound
    <2>1. Fairness => /\ WF_vars(OpenReturns) /\ WF_vars(AnswersOne) /\ WF_vars(ReceiveMustFail)
                      /\ WF_vars(ShutsDown) /\ GetsThrough(q)
      <3>1. EachGetsThrough => GetsThrough(q)
        BY DEF EachGetsThrough
      <3>2. QED BY <3>1, PTL DEF Fairness
    <2>2. QueuesEnd => StopsFalling(Cardinality(held), vars) /\ MovesUp(q)
      BY DEF QueuesEnd
    <2>3. ~Over => Lasts
      BY DEF Unanswered
    <2>4. Spec => []TypeOK
      BY TypeCorrect
    <2>5. []TypeOK /\ [][Next]_vars /\ [][~Trouble]_vars /\ []Lasts /\ []ServerNeverStuck
            /\ WF_vars(OpenReturns) /\ WF_vars(AnswersOne) /\ WF_vars(ReceiveMustFail)
            /\ WF_vars(ShutsDown) /\ GetsThrough(q)
          => Abandons(q)
      BY PTL DEF Abandons, Lasts
    <2>6. ~(Abandons(q) /\ StopsFalling(Cardinality(held), vars) /\ MovesUp(q))
      BY <1>1, NobodyAbandons
    <2>7. StopsFalling(Cardinality(held), vars) => []StopsFalling(Cardinality(held), vars)
      BY PTL DEF StopsFalling
    <2>8. MovesUp(q) => []MovesUp(q)
      BY PTL DEF MovesUp, StopsFalling
    <2>9. GetsThrough(q) => []GetsThrough(q)
      BY PTL DEF GetsThrough
    <2> HIDE DEF Lasts, Asked, Over
    <2>10. Spec /\ []ServerNeverStuck /\ QueuesEnd => (<>[][~Trouble]_vars => (Asked ~> Over))
      BY <2>1, <2>2, <2>3, <2>4, <2>5, <2>6, <2>7, <2>8, <2>9, PTL DEF Spec
    <2>11. (Asked ~> Over) => IsAnswered(q)
      BY PTL DEF Asked, Over, IsAnswered
    <2>12. QED BY <2>10, <2>11
  <1>2. QED BY <1>1 DEF LookupsAnswered
=============================================================================
