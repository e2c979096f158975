----------------------------- MODULE JSONServer -----------------------------
(***************************************************************************)
(* The JSON server (src/src/JSONserver.cpp): startServer, and the thread   *)
(* that waits in select, accepts connections and answers requests, with    *)
(* its clients and the table of descriptors it shares with the rest of the *)
(* process.  What a reply says of the database is in LDMThreads.           *)
(*                                                                         *)
(* A request is a text of numbered pieces, closed by a NUL if the client   *)
(* sends one, as the sample client does.  TCP keeps the order of the       *)
(* pieces but not the limits of a request.                                 *)
(*                                                                         *)
(* stopServer follows the return of startReception, which does not come    *)
(* (see Lifecycle), and so has no action here.                             *)
(***************************************************************************)
EXTENDS Integers, Sequences, FiniteSets, SequencesExt, FiniteSetsExt

CONSTANTS
    Clients,
    MaxFd,          \* descriptors of the process are 1 .. MaxFd
    Requests,       \* what clients ask: [id, len, nul]
    BuffSize,       \* size of rx_buff, in pieces
    Outstanding,    \* requests a client sends before it waits for a reply
    Segmented       \* recv may return a part of what was sent

ASSUME JSONServerAssumption ==
    /\ MaxFd \in Nat \ {0} /\ BuffSize \in Nat \ {0} /\ Outstanding \in Nat \ {0}
    /\ Requests \subseteq [id : Nat \ {0}, len : 1 .. BuffSize, nul : BOOLEAN]
    /\ Segmented \in BOOLEAN
    /\ Clients \cap {"free", "listen", "other"} = {}

VARIABLES
    main,           \* where startServer stands
    m_thread_running,
    pc,             \* where JSONthread_callback stands
    sockdescrs,     \* the set given to select
    sockdescrs_set, \* the descriptors of the clients
    rd_sockdescrs,  \* what select returned
    currd_it,       \* the descriptor the loop stands at
    rx_buff,
    fd,             \* whose each descriptor is
    backlog,        \* connections to accept
    conn,           \* "out", "queued" or "open"
    eof,            \* "no", "fin": the client has closed, "rst": and has refused data
    inbox,          \* pieces under way to the server
    outbox,         \* messages under way to the client
    asked           \* requests a client has no reply to

loop == <<sockdescrs, sockdescrs_set, rd_sockdescrs, currd_it, rx_buff>>
start == <<main, m_thread_running>>
net == <<backlog, conn, eof, inbox, outbox, asked>>
vars == <<start, pc, loop, fd, net>>

Fds == 1 .. MaxFd
End == MaxFd + 1
Nul == <<0, 0>>
Junk == <<0, 1>>            \* memory nobody has written
Confirmed == <<>>

Text(q) == [i \in 1 .. q.len |-> <<q.id, i>>]
Sent(q) == IF q.nul THEN Append(Text(q), Nul) ELSE Text(q)
Pieces == {Nul} \cup {<<q.id, i>> : q \in Requests, i \in 1 .. BuffSize}

Free == {f \in Fds : fd[f] = "free"}
sockd == CHOOSE f \in Fds : fd[f] = "listen"
FdOf(c) == CHOOSE f \in Fds : fd[f] = c

Begin(S) == IF S = {} THEN End ELSE Min(S)
After(S, f) == Begin({g \in S : g > f})

WholeBuffer == rx_buff

\* The C string in rx_buff.
String == [i \in 1 .. Min({i \in 1 .. BuffSize : rx_buff[i] = Nul} \cup {BuffSize + 1}) - 1 |-> rx_buff[i]]

\* A text parses that has a first piece, every piece after it in order, and a last piece
\* - also when the pieces are of several requests.
Parses(text) ==
    /\ text # <<>>
    /\ \A i \in 1 .. Len(text) : text[i][2] = i /\ text[i] # Junk
    /\ \E q \in Requests : q.id = text[Len(text)][1] /\ q.len = Len(text)

-----------------------------------------------------------------------------
(* startServer                                                             *)

\* socket, bind, listen or pthread_create fails.
StartFails ==
    /\ main = "start"
    /\ main' = "failed"
    /\ UNCHANGED <<m_thread_running, pc, loop, fd, net>>

StartServer ==
    /\ main = "start" /\ Free # {}
    /\ main' = "created"
    /\ fd' = [fd EXCEPT ![Min(Free)] = "listen"]
    /\ sockdescrs' = {Min(Free)}
    /\ pc' = "select"
    /\ UNCHANGED <<m_thread_running, sockdescrs_set, rd_sockdescrs, currd_it, rx_buff, net>>

SetRunning ==
    /\ main = "created"
    /\ main' = "serving"
    /\ m_thread_running' = TRUE
    /\ UNCHANGED <<pc, loop, fd, net>>

\* Elsewhere in the process a descriptor is opened and kept: get_rssi_from_iw runs popen
\* for each message and never closes what it returns.
OtherOpens ==
    /\ Free # {}
    /\ fd' = [fd EXCEPT ![Min(Free)] = "other"]
    /\ UNCHANGED <<start, pc, loop, net>>

-----------------------------------------------------------------------------
(* The thread                                                              *)

Readable(f) ==
    \/ fd[f] = "listen" /\ backlog # <<>>
    \/ fd[f] \in Clients /\ (inbox[fd[f]] # <<>> \/ eof[fd[f]] # "no")

\* The thread ends when select fails, as it does for a descriptor that is not open or
\* for want of memory.
SelectFails ==
    /\ pc = "select"
    /\ pc' = "dead"
    /\ m_thread_running' = FALSE
    /\ UNCHANGED <<main, loop, fd, net>>

Select ==
    /\ pc = "select"
    /\ sockdescrs \cap Free = {}
    /\ rd_sockdescrs' = {f \in sockdescrs : Readable(f)}
    /\ rd_sockdescrs' # {}
    /\ pc' = IF sockd \in rd_sockdescrs' THEN "accept" ELSE "read"
    /\ currd_it' = Begin(sockdescrs_set)
    /\ UNCHANGED <<start, sockdescrs, sockdescrs_set, rx_buff, fd, net>>

\* A message for a client that has closed is answered by a reset.
Send(c, m) ==
    /\ outbox' = [outbox EXCEPT ![c] = IF eof[c] = "no" THEN Append(@, m) ELSE @]
    /\ eof' = [eof EXCEPT ![c] = IF @ = "fin" THEN "rst" ELSE @]

AcceptConnection(listed) ==
    /\ pc = "accept" /\ Free # {}
    /\ LET c == Head(backlog)
       IN  /\ fd' = [fd EXCEPT ![Min(Free)] = c]
           /\ sockdescrs' = sockdescrs \cup {Min(Free)}
           /\ sockdescrs_set' = sockdescrs_set \cup listed
           /\ conn' = [conn EXCEPT ![c] = "open"]
           /\ Send(c, Confirmed)
    /\ backlog' = Tail(backlog)
    /\ pc' = "select"
    /\ UNCHANGED <<start, rd_sockdescrs, currd_it, rx_buff, inbox, asked>>

AcceptUnlisted == AcceptConnection({})

Accept == AcceptConnection({Min(Free)})

\* The connection stays in the queue, and select reports it again.
AcceptFails ==
    /\ pc = "accept" /\ Free = {}
    /\ pc' = "select"
    /\ UNCHANGED <<start, loop, fd, net>>

LoopEnd ==
    /\ pc = "read" /\ currd_it = End
    /\ pc' = "select"
    /\ UNCHANGED <<start, loop, fd, net>>

\* The loop stands at the descriptor of c, which select has reported.  At a descriptor
\* select has not reported the loop does nothing and moves nothing: there is no step.
At(c) == pc = "read" /\ currd_it \in rd_sockdescrs /\ fd[currd_it] = c

Next_it == currd_it' = After(sockdescrs_set, currd_it)

Forget(c) ==
    /\ At(c) /\ inbox[c] = <<>> /\ eof[c] = "fin"
    /\ fd' = [fd EXCEPT ![currd_it] = "free"]
    /\ sockdescrs_set' = sockdescrs_set \ {currd_it}
    /\ conn' = [conn EXCEPT ![c] = "out"]
    /\ eof' = [eof EXCEPT ![c] = "no"]
    /\ outbox' = [outbox EXCEPT ![c] = <<>>]
    /\ asked' = [asked EXCEPT ![c] = <<>>]
    /\ UNCHANGED <<start, pc, rd_sockdescrs, rx_buff, backlog, inbox>>

RecvClosedUncleared(c) == Forget(c) /\ Next_it /\ UNCHANGED sockdescrs

RecvClosedDangling(c) == Forget(c) /\ sockdescrs' = sockdescrs \ {currd_it} /\ currd_it' = 0

\* recv returns 0: the connection is closed and forgotten.
RecvClosed(c) == Forget(c) /\ sockdescrs' = sockdescrs \ {currd_it} /\ Next_it

\* recv reports the reset; after that it returns 0.
RecvError(c) ==
    /\ At(c) /\ inbox[c] = <<>> /\ eof[c] = "rst"
    /\ eof' = [eof EXCEPT ![c] = "fin"]
    /\ Next_it
    /\ UNCHANGED <<start, pc, sockdescrs, sockdescrs_set, rd_sockdescrs, rx_buff, fd, backlog, conn, inbox, outbox, asked>>

OverwrittenShort(pieces) == [i \in 1 .. BuffSize |-> IF i < Len(pieces) THEN pieces[i] ELSE rx_buff[i]]

Overwritten(pieces) == [i \in 1 .. BuffSize |-> IF i <= Len(pieces) THEN pieces[i] ELSE rx_buff[i]]

\* What recv reads goes to the front of rx_buff, and the rest of it stays.
Recv(c) ==
    /\ At(c) /\ inbox[c] # <<>>
    /\ \E n \in 1 .. Min({Len(inbox[c]), BuffSize}) :
          /\ Segmented \/ n = Min({Len(inbox[c]), BuffSize})
          /\ rx_buff' = Overwritten(SubSeq(inbox[c], 1, n))
          /\ inbox' = [inbox EXCEPT ![c] = SubSeq(@, n + 1, Len(@))]
    /\ pc' = "answer"
    /\ UNCHANGED <<start, sockdescrs, sockdescrs_set, rd_sockdescrs, currd_it, fd, backlog, conn, eof, outbox, asked>>

\* The string is parsed and answered, or there is no answer.
Answer ==
    /\ pc = "answer"
    /\ IF Parses(String) THEN Send(fd[currd_it], String) ELSE UNCHANGED <<outbox, eof>>
    /\ pc' = "read"
    /\ Next_it
    /\ UNCHANGED <<start, sockdescrs, sockdescrs_set, rd_sockdescrs, rx_buff, fd, backlog, conn, inbox, asked>>

\* To send to a client that has reset the connection raises SIGPIPE.
Killed ==
    /\ pc = "answer" /\ Parses(String) /\ eof[fd[currd_it]] = "rst"
    /\ pc' = "killed"
    /\ UNCHANGED <<start, loop, fd, net>>

-----------------------------------------------------------------------------
(* The clients                                                             *)

Connect(c) ==
    /\ conn[c] = "out"
    /\ \E f \in Fds : fd[f] = "listen"
    /\ pc \notin {"dead", "killed"}
    /\ conn' = [conn EXCEPT ![c] = "queued"]
    /\ backlog' = Append(backlog, c)
    /\ UNCHANGED <<start, pc, loop, fd, eof, inbox, outbox, asked>>

\* The sample client waits for its confirmation, but need not.
Ask(c, q) ==
    /\ conn[c] # "out" /\ eof[c] = "no"
    /\ Len(asked[c]) < Outstanding
    /\ inbox' = [inbox EXCEPT ![c] = @ \o Sent(q)]
    /\ asked' = [asked EXCEPT ![c] = Append(@, q)]
    /\ UNCHANGED <<start, pc, loop, fd, backlog, conn, eof, outbox>>

ReadMessage(c) ==
    /\ eof[c] = "no" /\ outbox[c] # <<>>
    /\ outbox' = [outbox EXCEPT ![c] = Tail(@)]
    /\ asked' = [asked EXCEPT ![c] = IF Head(outbox[c]) = Confirmed \/ @ = <<>> THEN @ ELSE Tail(@)]
    /\ UNCHANGED <<start, pc, loop, fd, backlog, conn, eof, inbox>>

Leave(c) ==
    /\ conn[c] # "out" /\ eof[c] = "no"
    /\ eof' = [eof EXCEPT ![c] = "fin"]
    /\ outbox' = [outbox EXCEPT ![c] = <<>>]
    /\ UNCHANGED <<start, pc, loop, fd, backlog, conn, inbox, asked>>

-----------------------------------------------------------------------------
Init ==
    /\ main = "start" /\ m_thread_running = FALSE
    /\ pc = "none"
    /\ sockdescrs = {} /\ sockdescrs_set = {} /\ rd_sockdescrs = {} /\ currd_it = End
    /\ rx_buff \in {[i \in 1 .. BuffSize |-> p] : p \in {Nul, Junk}}
    /\ fd = [f \in Fds |-> "free"]
    /\ backlog = <<>>
    /\ conn = [c \in Clients |-> "out"]
    /\ eof = [c \in Clients |-> "no"]
    /\ inbox = [c \in Clients |-> <<>>]
    /\ outbox = [c \in Clients |-> <<>>]
    /\ asked = [c \in Clients |-> <<>>]

ThreadStep ==
    \/ Select \/ Accept \/ AcceptFails \/ LoopEnd \/ Answer \/ Killed
    \/ \E c \in Clients : RecvClosed(c) \/ RecvError(c) \/ Recv(c)

ClientStep ==
    \E c \in Clients :
        Connect(c) \/ (\E q \in Requests : Ask(c, q)) \/ ReadMessage(c) \/ Leave(c)

Next ==
    \/ StartFails \/ StartServer \/ SetRunning \/ OtherOpens
    \/ SelectFails \/ ThreadStep \/ ClientStep

Spec == Init /\ [][Next]_vars

\* The thread runs whenever it can; nobody has to ask, and nothing has to fail.
FairSpec == Spec /\ WF_vars(ThreadStep)

-----------------------------------------------------------------------------
(* Properties                                                              *)

TypeOK ==
    /\ main \in {"start", "created", "serving", "failed"}
    /\ m_thread_running \in BOOLEAN
    /\ pc \in {"none", "select", "accept", "read", "answer", "dead", "killed"}
    /\ sockdescrs \subseteq Fds /\ sockdescrs_set \subseteq Fds /\ rd_sockdescrs \subseteq Fds
    /\ currd_it \in Fds \cup {End}
    /\ \A i \in 1 .. BuffSize : rx_buff[i] \in Pieces \cup {Junk}
    /\ \A f \in Fds : fd[f] \in {"free", "listen", "other"} \cup Clients
    /\ conn \in [Clients -> {"out", "queued", "open"}]
    /\ eof \in [Clients -> {"no", "fin", "rst"}]
    /\ \A c \in Clients : Range(inbox[c]) \subseteq Pieces /\ Range(asked[c]) \subseteq Requests

\* Whenever the thread waits, the set it gives to select is the listening socket and the
\* connections of the loop's set, one for each accepted client and each open: through
\* every order of arrivals, departures and reuse of descriptors.
DescriptorsAgree ==
    pc = "select" =>
        /\ sockdescrs = sockdescrs_set \cup {sockd}
        /\ \A f \in sockdescrs_set : fd[f] \in Clients /\ conn[fd[f]] = "open"
        /\ \A c \in Clients : conn[c] = "open" => \E f \in sockdescrs_set : fd[f] = c

\* A reply answers what its client has asked, although all share one buffer that is
\* never cleared.
RepliesMatch ==
    \A c \in Clients : \A m \in Range(outbox[c]) \ {Confirmed} :
        \E q \in Range(asked[c]) : m = Text(q)

Alone(c) == \A d \in Clients \ {c} : conn[d] = "out"
Spinning == pc = "read" /\ currd_it \in Fds \ rd_sockdescrs
Down == pc \in {"dead", "killed"} \/ Spinning

Waits(c) == conn[c] = "open" /\ eof[c] = "no" /\ asked[c] # <<>>
Answered(c) == Range(outbox[c]) \ {Confirmed} # {} \/ ~ Waits(c)

\* A client that has the server for itself gets its reply, whatever is left in the
\* buffer and however many descriptors are taken.
AloneAnswered ==
    \A c \in Clients : Waits(c) /\ Alone(c) ~> Answered(c) \/ ~ Alone(c) \/ Down

\* The connection of a client that has gone is given back, reset or not.
AloneReleased ==
    \A c \in Clients :
        conn[c] = "open" /\ eof[c] # "no" /\ Alone(c) ~> conn[c] = "out" \/ ~ Alone(c) \/ Down

\* JSONserver.cpp: the information the client requested is sent - to every client, also
\* to one of several.
EveryRequestAnswered ==
    \A c \in Clients : Waits(c) ~> Answered(c) \/ pc \in {"dead", "killed"} \/ Free = {}

\* JSONserver.cpp: when data cannot be sent the connection remains active.
SurvivesClients == pc # "killed"

\* m_thread_running tells whether there is a thread.
RunningMeansThread == main = "serving" /\ m_thread_running => pc # "dead"
=============================================================================
