------------------------------ MODULE DnsServer ------------------------------
(***************************************************************************)
(* main/dns_server.c: the task that answers every name with the portal,    *)
(* its socket, and the table of sockets it shares with the web server and  *)
(* the MQTT client.  A socket number is free to be handed out again as     *)
(* soon as it is closed, and closing is by number.                         *)
(*                                                                         *)
(* Clients and lwIP are external.  A resolver that gets no usable answer   *)
(* asks again.                                                             *)
(***************************************************************************)
EXTENDS Naturals, Sequences, FiniteSets

CONSTANTS
    Questions,      \* queries the resolvers of connected devices make
    Sockets,        \* CONFIG_LWIP_MAX_SOCKETS of them
    NoSocket,       \* before the first socket()
    MaxWaiting      \* CONFIG_LWIP_UDP_RECVMBOX_SIZE

\* qtypes       the types of the questions
\* opcode       of the header: 0 for a standard query
\* lowbits      one of the header's bits Z, AD, CD or the upper bit of RCODE is set
\* additional   a record follows the questions, as with EDNS
\* parses       the first name, in the 127 bytes received, has labels of at most
\*              128 bytes in all
\* len          bytes received
Query == [qtypes: Seq({"A", "other"}), opcode: Nat, lowbits: BOOLEAN,
          additional: BOOLEAN, parses: BOOLEAN, len: Nat]

ASSUME QuestionsAssumption == Questions \subseteq Query
ASSUME SocketsAssumption == IsFiniteSet(Sockets)
ASSUME NoSocketAssumption == NoSocket \notin Sockets
ASSUME WaitingAssumption == MaxWaiting \in Nat \ {0}

VARIABLES
    task,           \* where dns_server_task is
    sock,           \* its local variable, which it keeps when the socket is closed
    bound,          \* bind succeeded
    owner,          \* whose each socket is: "free" if not open
    held,           \* the sockets that the other tasks take for theirs
    received,       \* datagrams waiting in the task's socket
    asking,         \* the questions some resolver has no usable answer to
    erred           \* history: a receive of the task has failed

table == <<owner, held>>
vars == <<task, sock, bound, table, received, asking, erred>>

\* "closing": out of the inner loop.
TaskSteps == {"opening", "receiving", "closing", "ended"}
Owners == {"free", "dns", "other"}

TypeOK ==
    /\ task \in TaskSteps
    /\ sock \in Sockets \cup {NoSocket}
    /\ task \in {"receiving", "closing"} => sock \in Sockets
    /\ bound \in BOOLEAN
    /\ owner \in [Sockets -> Owners]
    /\ held \subseteq Sockets
    /\ received \in Seq(Questions)
    /\ Len(received) <= MaxWaiting
    /\ asking \subseteq Questions
    /\ erred \in BOOLEAN

Init ==
    /\ task = "opening"
    /\ sock = NoSocket
    /\ bound = FALSE
    /\ owner = [s \in Sockets |-> "free"]
    /\ held = {}
    /\ received = << >>
    /\ asking = {}
    /\ erred = FALSE

-----------------------------------------------------------------------------
(* parse_dns_request *)

DNS_MAX_LEN == 256
AnswerLen == 16

\* OPCODE_MASK is applied to the flags in network byte order, where it covers the
\* four low bits and not the opcode.  The reply has room for one answer for each
\* question, and each round of the loop reads the first name again.
Replies(q) ==
    /\ ~q.lowbits
    /\ q.len > 0
    /\ AnswerLen * Len(q.qtypes) + q.len <= DNS_MAX_LEN
    /\ q.qtypes # << >> => q.parses

\* Every round also writes to the place of the first answer, which follows the
\* copied request.  A resolver takes what follows the questions for the answer.
AnswersPortal(q) ==
    /\ Replies(q)
    /\ q.qtypes # << >>
    /\ q.qtypes[1] = "A"
    /\ ~q.additional

-----------------------------------------------------------------------------
(* dns_server_task *)

\* socket takes a free number; a failing bind is only logged.
Opens ==
    /\ task = "opening"
    /\ \E s \in Sockets :
        /\ owner[s] = "free"
        /\ owner' = [owner EXCEPT ![s] = "dns"]
        /\ sock' = s
    /\ bound' \in BOOLEAN
    /\ received' = << >>
    /\ task' = "receiving"
    /\ UNCHANGED <<held, asking, erred>>

\* Mutant: the result of socket is not checked.
OpenFailsUnchecked ==
    /\ task = "opening"
    /\ task' = "receiving"
    /\ UNCHANGED <<sock, bound, table, received, asking, erred>>

\* No socket left, or no memory: the task deletes itself.
OpenFails ==
    /\ task = "opening"
    /\ task' = "ended"
    /\ UNCHANGED <<sock, bound, table, received, asking, erred>>

HasSocket == task = "receiving" /\ owner[sock] = "dns"

Takes(q) ==
    /\ HasSocket
    /\ received # << >>
    /\ q = Head(received)
    /\ received' = Tail(received)

\* A query without a reply is dropped; a reply without the portal leaves the
\* resolver asking.
Answers(q) ==
    /\ Takes(q)
    /\ asking' = IF AnswersPortal(q) THEN asking \ {q} ELSE asking
    /\ UNCHANGED <<task, sock, bound, table, erred>>

\* Mutant: closes the socket before leaving the loop, as after a failed receive.
SendFailsAndCloses(q) ==
    /\ Takes(q)
    /\ Replies(q)
    /\ task' = "closing"
    /\ owner' = [owner EXCEPT ![sock] = "free"]
    /\ UNCHANGED <<sock, bound, held, asking, erred>>

SendFails(q) ==
    /\ Takes(q)
    /\ Replies(q)
    /\ task' = "closing"
    /\ UNCHANGED <<sock, bound, table, asking, erred>>

\* Mutant: closes the socket and receives from it again.
ReceiveFailsAndStays ==
    /\ task = "receiving"
    /\ owner' = [owner EXCEPT ![sock] = "free"]
    /\ erred' = TRUE
    /\ UNCHANGED <<task, sock, bound, held, received, asking>>

\* recvfrom reports an error, as it must once somebody else has closed the socket.
\* The task closes it, and will close the same number again.
ReceiveFails ==
    /\ task = "receiving"
    /\ task' = "closing"
    /\ owner' = [owner EXCEPT ![sock] = "free"]
    /\ erred' = TRUE
    /\ UNCHANGED <<sock, bound, held, received, asking>>

\* Mutant: shutdown without close.
ShutsDownOnly ==
    /\ task = "closing"
    /\ task' = "opening"
    /\ UNCHANGED <<sock, bound, table, received, asking, erred>>

\* shutdown and close of the number, whosever it is by now.
ShutsDown ==
    /\ task = "closing"
    /\ owner' = [owner EXCEPT ![sock] = "free"]
    /\ task' = "opening"
    /\ UNCHANGED <<sock, bound, held, received, asking, erred>>

AnswersOne == \E q \in Questions : Answers(q)

TaskStep ==
    \/ Opens \/ OpenFails \/ AnswersOne \/ ReceiveFails \/ ShutsDown
    \/ \E q \in Questions : SendFails(q)

-----------------------------------------------------------------------------
(* The others: external. *)

\* The web server accepts up to 13 sessions, which with its own three sockets make
\* up the whole table.
OtherOpens ==
    /\ \E s \in Sockets :
        /\ owner[s] = "free"
        /\ owner' = [owner EXCEPT ![s] = "other"]
        /\ held' = held \cup {s}
    /\ UNCHANGED <<task, sock, bound, received, asking, erred>>

OtherCloses ==
    /\ \E s \in held :
        /\ owner' = [owner EXCEPT ![s] = "free"]
        /\ held' = held \ {s}
    /\ UNCHANGED <<task, sock, bound, received, asking, erred>>

Asks ==
    /\ \E q \in Questions \ asking : asking' = asking \cup {q}
    /\ UNCHANGED <<task, sock, bound, table, received, erred>>

\* A resolver sends its query, for the first time or again.
Sends(q) ==
    /\ q \in asking
    /\ HasSocket /\ bound
    /\ Len(received) < MaxWaiting
    /\ received' = Append(received, q)
    /\ UNCHANGED <<task, sock, bound, table, asking, erred>>

Next ==
    \/ TaskStep
    \/ OtherOpens \/ OtherCloses \/ Asks
    \/ \E q \in Questions : Sends(q)

OpenReturns == Opens \/ OpenFails
ReceiveMustFail == ReceiveFails /\ ~HasSocket
GetsThrough(q) == SF_vars(Sends(q))
EachGetsThrough == \A q \in Questions : GetsThrough(q)

\* The task runs, and a resolver that asks again and again gets a datagram through.
Fairness ==
    /\ WF_vars(OpenReturns)
    /\ WF_vars(AnswersOne)
    /\ WF_vars(ReceiveMustFail)
    /\ WF_vars(ShutsDown)
    /\ EachGetsThrough

Spec == Init /\ [][Next]_vars /\ Fairness

-----------------------------------------------------------------------------

OfTask == {s \in Sockets : owner[s] = "dns"}

\* Whatever fails and whoever closes what, the task never leaves a socket behind:
\* at most one is its own, and none between its rounds or after its end.  A leak of
\* one at each error would use up the table it shares with the web server.
NoSocketLeak ==
    /\ OfTask \subseteq {sock}
    /\ task \in {"opening", "ended"} => OfTask = {}

\* As long as no receive fails, tasks close only what is theirs: the task has its
\* socket while it receives, and the other tasks have every socket they hold.  A
\* failed receive makes the task close its number twice, and whoever got it in
\* between loses a connection and may later close the task's next socket in turn.
OwnersAgree ==
    ~erred =>
        /\ task \in {"receiving", "closing"} => owner[sock] = "dns"
        /\ \A s \in held : owner[s] = "other"

Trouble ==
    \/ OtherOpens \/ OpenFails
    \/ ReceiveFails /\ HasSocket
    \/ \E q \in Questions : SendFails(q)

MaySend(q) == ENABLED <<Sends(q)>>_vars

\* The server is never stuck: wherever the task is and whoever has closed its socket,
\* it can go on to the next one or end, and while it has one it can empty the mailbox
\* and a resolver can fill it.
ServerNeverStuck ==
    /\ task = "opening" => ENABLED <<OpenReturns>>_vars
    /\ task = "closing" => ENABLED <<ShutsDown>>_vars
    /\ task = "receiving" /\ ~HasSocket => ENABLED <<ReceiveMustFail>>_vars
    /\ HasSocket /\ received # << >> => ENABLED <<AnswersOne>>_vars
    /\ \A q \in asking :
           HasSocket /\ bound /\ Len(received) < MaxWaiting => MaySend(q)

IsAnswered(q) == q \in asking ~> (q \notin asking \/ task = "ended" \/ ~bound)

\* "replies to all type A queries with the IP of the softAP", as far as it holds: a
\* query that AnswersPortal holds of is answered if it is repeated, once errors have
\* stopped and the other tasks open no more sockets, unless the task has ended or its
\* socket is not bound.
LookupsAnswered ==
    <>[][~Trouble]_vars =>
        \A q \in {p \in Questions : AnswersPortal(p)} : IsAnswered(q)
=============================================================================
