--------------------------- MODULE JSONServerProofs ---------------------------
(***************************************************************************)
(* Proofs about the JSON server, for any number of clients, descriptors    *)
(* and requests:                                                           *)
(*   - the two sets of descriptors agree with each other and with the      *)
(*     table of descriptors: no connection that the loop does not know,    *)
(*     and none that is closed or belongs to something else by now;        *)
(*   - clients that wait for their reply, and close their requests with a  *)
(*     NUL, get the reply to what they asked.                              *)
(***************************************************************************)
EXTENDS JSONServer, WellFoundedInduction, TLAPS

Types ==
    /\ fd \in [Fds -> {"free", "listen", "other"} \cup Clients]
    /\ conn \in [Clients -> {"out", "queued", "open"}]
    /\ sockdescrs_set \subseteq Fds /\ rd_sockdescrs \subseteq Fds

\* A client waits in the queue at most once, and has no connection meanwhile.
Queued ==
    /\ backlog \in Seq(Clients)
    /\ \A i \in 1 .. Len(backlog) : conn[backlog[i]] = "queued"
    /\ \A i, j \in 1 .. Len(backlog) : backlog[i] = backlog[j] => i = j
    /\ pc = "accept" => backlog # <<>>

\* The set of the loop has the descriptor of each connection, which has only one.
Owned ==
    /\ \A f \in Fds : f \in sockdescrs_set <=> fd[f] \in Clients
    /\ \A f, g \in sockdescrs_set : fd[f] = fd[g] => f = g
    /\ \A c \in Clients : conn[c] = "open" <=> \E f \in sockdescrs_set : fd[f] = c

\* There is one listening socket from the start of the thread on, and none before.
Listening ==
    /\ main = "start" => pc = "none"
    /\ pc = "none" => sockdescrs_set = {} /\ \A f \in Fds : fd[f] # "listen"
    /\ pc # "none" => \E l \in Fds : /\ \A f \in Fds : fd[f] = "listen" <=> f = l
                                     /\ sockdescrs = sockdescrs_set \cup {l}

IInv == Types /\ Queued /\ Owned /\ Listening

-----------------------------------------------------------------------------
\* A set of descriptors has a least one, which is the one the system gives out.
LEMMA Smallest ==
    ASSUME NEW S \in SUBSET Nat, S # {}
    PROVE  Min(S) \in S /\ \A y \in S : Min(S) <= y
<1> DEFINE Less == {ss \in Nat \X Nat : ss[1] < ss[2]}
<1>1. OpToRel(<, Nat) = Less
  BY Zenon DEF OpToRel
<1>2. IsWellFoundedOn(Less, Nat)
  BY <1>1, NatLessThanWellFounded, Zenon
<1> HIDE DEF Less
<1>3. PICK x \in S : \A y \in S : ~ (<<y, x>> \in Less)
  BY <1>2, WFMin, Zenon
<1>4. ASSUME NEW y \in S PROVE x <= y
  <2>1. x \in Nat /\ y \in Nat
    OBVIOUS
  <2>2. <<y, x>> \in Nat \X Nat
    BY <2>1
  <2>3. ~ (y < x)
    BY <1>3, <2>2 DEF Less
  <2> QED
    BY <2>1, <2>3
<1> QED
  BY <1>4 DEF Min

\* So is a free one, if there is any.
LEMMA FreeFd == ASSUME Free # {} PROVE Min(Free) \in Fds /\ fd[Min(Free)] = "free"
<1>1. Free \in SUBSET Nat
  BY JSONServerAssumption DEF Free, Fds
<1> QED
  BY <1>1, Smallest DEF Free

\* The other holders of a descriptor are no clients.
LEMMA NoClient ==
    /\ "free" \notin Clients /\ "listen" \notin Clients /\ "other" \notin Clients
BY JSONServerAssumption

\* What is not written here cannot break the invariant.
LEMMA Frame ==
    ASSUME IInv, UNCHANGED <<fd, conn, backlog, sockdescrs, sockdescrs_set, rd_sockdescrs>>,
           pc' = "accept" => pc = "accept",
           pc' = "none" <=> pc = "none",
           main' = "start" => main = "start"
    PROVE  IInv'
<1>1. Types' /\ Owned'
  BY DEF IInv, Types, Owned
<1>2. Queued'
  BY DEF IInv, Queued
<1>3. Listening'
  BY DEF IInv, Listening
<1> QED
  BY <1>1, <1>2, <1>3 DEF IInv

\* IInv holds at the start.
LEMMA InitIInv == Init => IInv
<1> SUFFICES ASSUME Init PROVE IInv
  OBVIOUS
<1>1. Types
  BY DEF Init, Types
<1>2. Queued
  BY DEF Init, Queued
<1>3. Owned
  BY NoClient DEF Init, Owned
<1>4. Listening
  BY DEF Init, Listening
<1> QED
  BY <1>1, <1>2, <1>3, <1>4 DEF IInv

\* The socket takes a descriptor that was free.
LEMMA StartKeeps == ASSUME IInv, StartServer PROVE IInv'
<1> DEFINE l == Min(Free)
<1>1. l \in Fds /\ fd[l] = "free"
  BY FreeFd DEF StartServer
<1>2. /\ fd' = [fd EXCEPT ![l] = "listen"] /\ sockdescrs' = {l} /\ pc' = "select" /\ pc = "none"
      /\ main' = "created"
      /\ UNCHANGED <<sockdescrs_set, rd_sockdescrs, conn, backlog>>
  BY DEF StartServer, loop, net, IInv, Listening
<1> HIDE DEF l
<1>3. Types'
  BY <1>1, <1>2 DEF IInv, Types
<1>4. Queued'
  BY <1>2 DEF IInv, Queued
<1>5. Owned'
  BY <1>1, <1>2, NoClient DEF IInv, Types, Owned
<1>6. Listening'
  BY <1>1, <1>2 DEF IInv, Types, Listening
<1> QED
  BY <1>3, <1>4, <1>5, <1>6 DEF IInv

\* So does whatever else the process opens.
LEMMA OtherKeeps == ASSUME IInv, OtherOpens PROVE IInv'
<1> DEFINE l == Min(Free)
<1>1. l \in Fds /\ fd[l] = "free"
  BY FreeFd DEF OtherOpens
<1>2. /\ fd' = [fd EXCEPT ![l] = "other"]
      /\ UNCHANGED <<main, pc, sockdescrs, sockdescrs_set, rd_sockdescrs, conn, backlog>>
  BY DEF OtherOpens, start, loop, net
<1> HIDE DEF l
<1>3. Types'
  BY <1>1, <1>2 DEF IInv, Types
<1>4. Queued'
  BY <1>2 DEF IInv, Queued
<1>5. Owned'
  BY <1>1, <1>2, NoClient DEF IInv, Types, Owned
<1>6. Listening'
  BY <1>1, <1>2 DEF IInv, Types, Listening
<1> QED
  BY <1>3, <1>4, <1>5, <1>6 DEF IInv

\* select reports the listening socket when somebody waits in its queue.
LEMMA SelectKeeps == ASSUME IInv, Select PROVE IInv'
<1>1. PICK l \in Fds : /\ \A f \in Fds : fd[f] = "listen" <=> f = l
                       /\ sockdescrs = sockdescrs_set \cup {l}
  BY DEF IInv, Listening, Select
<1>2. sockd = l
  BY <1>1 DEF sockd
<1>3. /\ rd_sockdescrs' \subseteq sockdescrs
      /\ pc' \in {"accept", "read"}
      /\ UNCHANGED <<main, sockdescrs, sockdescrs_set, fd, conn, backlog>>
  BY DEF Select, start, net
<1>4. pc' = "accept" => backlog # <<>>
  BY <1>1, <1>2, NoClient DEF Select, Readable
<1>5. Types'
  BY <1>1, <1>3 DEF IInv, Types
<1>6. Queued'
  BY <1>3, <1>4 DEF IInv, Queued
<1>7. Owned'
  BY <1>3 DEF IInv, Owned
<1>8. Listening'
  BY <1>1, <1>3 DEF Select, IInv, Listening
<1> QED
  BY <1>5, <1>6, <1>7, <1>8 DEF IInv

\* A connection that is accepted was queued, has one descriptor, and is in both sets.
LEMMA AcceptKeeps == ASSUME IInv, Accept PROVE IInv'
<1> DEFINE n == Min(Free)
           c == Head(backlog)
<1>1. n \in Fds /\ fd[n] = "free"
  BY FreeFd DEF Accept, AcceptConnection
<1>2. /\ fd' = [fd EXCEPT ![n] = c]
      /\ sockdescrs' = sockdescrs \cup {n}
      /\ sockdescrs_set' = sockdescrs_set \cup {n}
      /\ conn' = [conn EXCEPT ![c] = "open"]
      /\ backlog' = Tail(backlog)
      /\ pc = "accept" /\ pc' = "select"
      /\ UNCHANGED <<main, rd_sockdescrs>>
  BY DEF Accept, AcceptConnection, start
<1>3. /\ c \in Clients /\ conn[c] = "queued" /\ c = backlog[1]
      /\ backlog' \in Seq(Clients) /\ Len(backlog') = Len(backlog) - 1
      /\ \A i \in 1 .. Len(backlog') : i + 1 \in 2 .. Len(backlog) /\ backlog'[i] = backlog[i + 1]
  BY <1>2 DEF IInv, Queued
<1> HIDE DEF n, c
<1>4. Types'
  BY <1>1, <1>2, <1>3 DEF IInv, Types
<1>5. Queued'
  <2>1. 1 \in 1 .. Len(backlog)
    BY <1>2 DEF IInv, Queued
  <2>2. \A i \in 1 .. Len(backlog') : backlog'[i] # c /\ backlog'[i] \in Clients
    BY <1>3, <2>1 DEF IInv, Queued
  <2>3. \A i \in 1 .. Len(backlog') : conn'[backlog'[i]] = "queued"
    BY <1>2, <1>3, <2>2 DEF IInv, Types, Queued
  <2>4. \A i, j \in 1 .. Len(backlog') : backlog'[i] = backlog'[j] => i = j
    BY <1>3 DEF IInv, Queued
  <2> QED
    BY <1>2, <1>3, <2>3, <2>4 DEF Queued
<1>6. Owned'
  <2>1. n \notin sockdescrs_set
    BY <1>1, NoClient DEF IInv, Owned
  <2>2. \A f \in sockdescrs_set : fd[f] # c
    BY <1>3 DEF IInv, Owned
  <2> QED
    BY <1>1, <1>2, <1>3, <2>1, <2>2 DEF IInv, Types, Owned
<1>7. Listening'
  <2>1. PICK l \in Fds : /\ \A f \in Fds : fd[f] = "listen" <=> f = l
                         /\ sockdescrs = sockdescrs_set \cup {l}
    BY <1>2 DEF IInv, Listening
  <2>2. \A f \in Fds : fd'[f] = "listen" <=> f = l
    BY <1>1, <1>2, <1>3, <2>1, NoClient DEF IInv, Types
  <2>3. sockdescrs' = sockdescrs_set' \cup {l}
    BY <1>2, <2>1
  <2> QED
    BY <1>2, <2>1, <2>2, <2>3 DEF IInv, Listening
<1> QED
  BY <1>4, <1>5, <1>6, <1>7 DEF IInv

\* A connection that is closed was the only one of its client, and leaves both sets.
LEMMA ClosedKeeps == ASSUME IInv, NEW c \in Clients, RecvClosed(c) PROVE IInv'
<1> DEFINE n == currd_it
<1>1. n \in Fds /\ fd[n] = c /\ n \in sockdescrs_set
  BY DEF RecvClosed, Forget, At, IInv, Types, Owned
<1>2. /\ fd' = [fd EXCEPT ![n] = "free"]
      /\ sockdescrs' = sockdescrs \ {n}
      /\ sockdescrs_set' = sockdescrs_set \ {n}
      /\ conn' = [conn EXCEPT ![c] = "out"]
      /\ pc = "read"
      /\ UNCHANGED <<main, pc, rd_sockdescrs, backlog>>
  BY DEF RecvClosed, Forget, At, start
<1>3. conn[c] = "open"
  BY <1>1 DEF IInv, Owned
<1> HIDE DEF n
<1>4. Types'
  BY <1>1, <1>2 DEF IInv, Types
<1>5. Queued'
  <2>1. \A i \in 1 .. Len(backlog) : backlog[i] \in Clients /\ backlog[i] # c
    BY <1>3 DEF IInv, Queued
  <2>2. \A i \in 1 .. Len(backlog) : conn'[backlog[i]] = "queued"
    BY <1>2, <2>1 DEF IInv, Types, Queued
  <2> QED
    BY <1>2, <2>2 DEF IInv, Queued
<1>6. Owned'
  <2>1. \A f \in sockdescrs_set : f # n => fd[f] # c
    BY <1>1 DEF IInv, Owned
  <2> QED
    BY <1>1, <1>2, <1>3, <2>1, NoClient DEF IInv, Types, Owned
<1>7. Listening'
  <2>1. PICK l \in Fds : /\ \A f \in Fds : fd[f] = "listen" <=> f = l
                         /\ sockdescrs = sockdescrs_set \cup {l}
    BY <1>2 DEF IInv, Listening
  <2>2. l # n
    BY <1>1, <2>1, NoClient
  <2>3. \A f \in Fds : fd'[f] = "listen" <=> f = l
    BY <1>1, <1>2, <2>1, <2>2 DEF IInv, Types
  <2>4. sockdescrs' = sockdescrs_set' \cup {l}
    BY <1>2, <2>1, <2>2
  <2> QED
    BY <1>2, <2>1, <2>3, <2>4 DEF IInv, Listening
<1> QED
  BY <1>4, <1>5, <1>6, <1>7 DEF IInv

\* A client queues up only when it has neither a place nor a connection.
LEMMA ConnectKeeps == ASSUME IInv, NEW c \in Clients, Connect(c) PROVE IInv'
<1>1. /\ conn[c] = "out"
      /\ conn' = [conn EXCEPT ![c] = "queued"]
      /\ backlog' = Append(backlog, c)
      /\ UNCHANGED <<main, pc, sockdescrs, sockdescrs_set, rd_sockdescrs, fd>>
  BY DEF Connect, start, loop
<1>2. Types'
  BY <1>1 DEF IInv, Types
<1>3. Queued'
  <2>1. /\ backlog' \in Seq(Clients) /\ Len(backlog') = Len(backlog) + 1 /\ Len(backlog) \in Nat
        /\ backlog'[Len(backlog) + 1] = c
        /\ \A i \in 1 .. Len(backlog) : backlog'[i] = backlog[i]
    BY <1>1 DEF IInv, Queued
  <2>2. \A i \in 1 .. Len(backlog) : backlog[i] \in Clients /\ backlog[i] # c
    BY <1>1 DEF IInv, Queued
  <2>3. \A i \in 1 .. Len(backlog') : conn'[backlog'[i]] = "queued"
    BY <1>1, <2>1, <2>2 DEF IInv, Types, Queued
  <2>4. \A i, j \in 1 .. Len(backlog') : backlog'[i] = backlog'[j] => i = j
    BY <2>1, <2>2 DEF IInv, Queued
  <2>5. backlog' # <<>>
    BY <2>1
  <2> QED
    BY <2>1, <2>3, <2>4, <2>5 DEF Queued
<1>4. Owned'
  BY <1>1 DEF IInv, Types, Owned
<1>5. Listening'
  BY <1>1 DEF IInv, Listening
<1> QED
  BY <1>2, <1>3, <1>4, <1>5 DEF IInv

-----------------------------------------------------------------------------
\* IInv is inductive.
LEMMA NextIInv == IInv /\ [Next]_vars => IInv'
<1> SUFFICES ASSUME IInv, [Next]_vars PROVE IInv'
  OBVIOUS
<1> USE DEF start, loop, net
<1>1. CASE UNCHANGED vars
  BY <1>1, Frame DEF vars
<1>2. CASE StartFails \/ SetRunning \/ SelectFails
  BY <1>2, Frame DEF StartFails, SetRunning, SelectFails
<1>3. CASE AcceptFails \/ LoopEnd \/ Answer \/ Killed
  BY <1>3, Frame DEF AcceptFails, LoopEnd, Answer, Killed
<1>4. ASSUME NEW c \in Clients, RecvError(c) \/ Recv(c) PROVE IInv'
  BY <1>4, Frame DEF RecvError, Recv, At
<1>5. ASSUME NEW c \in Clients, (\E q \in Requests : Ask(c, q)) \/ ReadMessage(c) \/ Leave(c)
      PROVE  IInv'
  BY <1>5, Frame DEF Ask, ReadMessage, Leave
<1> QED
  BY <1>1, <1>2, <1>3, <1>4, <1>5, StartKeeps, OtherKeeps, SelectKeeps, AcceptKeeps, ClosedKeeps,
     ConnectKeeps DEF Next, ThreadStep, ClientStep

\* IInv is an invariant.
LEMMA Invariant == Spec => []IInv
BY InitIInv, NextIInv, PTL DEF Spec

\* IInv implies what is to be shown.
LEMMA IInvSuffices == IInv => DescriptorsAgree
<1> SUFFICES ASSUME IInv, pc = "select" PROVE DescriptorsAgree
  BY DEF DescriptorsAgree
<1>1. PICK l \in Fds : /\ \A f \in Fds : fd[f] = "listen" <=> f = l
                       /\ sockdescrs = sockdescrs_set \cup {l}
  BY DEF IInv, Listening
<1>2. sockd = l
  BY <1>1 DEF sockd
<1> QED
  BY <1>1, <1>2 DEF IInv, Types, Owned, DescriptorsAgree

\* Whenever select is called, the sets name the listening socket and the open connections,
\* each of them once, whatever descriptors were closed, reused or used up before.
THEOREM DescriptorsAlwaysAgree == Spec => []DescriptorsAgree
BY Invariant, IInvSuffices, PTL

-----------------------------------------------------------------------------
(* Types                                                                   *)

Messages == Seq(Pieces \cup {Junk})

TInv ==
    /\ main \in {"start", "created", "serving", "failed"}
    /\ m_thread_running \in BOOLEAN
    /\ pc \in {"none", "select", "accept", "read", "answer", "dead", "killed"}
    /\ sockdescrs \subseteq Fds /\ currd_it \in Fds \cup {End}
    /\ rx_buff \in [1 .. BuffSize -> Pieces \cup {Junk}]
    /\ eof \in [Clients -> {"no", "fin", "rst"}]
    /\ inbox \in [Clients -> Seq(Pieces)]
    /\ outbox \in [Clients -> Seq(Messages)]
    /\ asked \in [Clients -> Seq(Requests)]
    /\ pc = "answer" => currd_it \in Fds /\ fd[currd_it] \in Clients

LEMMA SentFacts ==
    ASSUME NEW q \in Requests
    PROVE  /\ Text(q) \in Seq(Pieces) /\ Len(Text(q)) = q.len /\ q.len \in 1 .. BuffSize
           /\ Sent(q) \in Seq(Pieces) /\ Text(q) # Confirmed
<1>1. q.len \in 1 .. BuffSize /\ BuffSize \in Nat /\ q.len \in Nat /\ q.nul \in BOOLEAN
  BY JSONServerAssumption
<1>2. \A i \in 1 .. q.len : i \in 1 .. BuffSize /\ <<q.id, i>> \in Pieces
  BY <1>1 DEF Pieces
<1>3. Text(q) \in [1 .. q.len -> Pieces]
  BY <1>2 DEF Text
<1>4. Text(q) \in Seq(Pieces) /\ Len(Text(q)) = q.len
  BY <1>1, <1>3
<1>5. Nul \in Pieces
  BY DEF Pieces
<1>6. Sent(q) \in Seq(Pieces)
  BY <1>4, <1>5 DEF Sent
<1>7. Text(q) # Confirmed
  BY <1>1, <1>4 DEF Confirmed
<1> QED
  BY <1>1, <1>4, <1>6, <1>7

\* The string in a buffer: it ends before the first NUL, or with the buffer.
StringIn(buff) == [i \in 1 .. Min({i \in 1 .. BuffSize : buff[i] = Nul} \cup {BuffSize + 1}) - 1 |-> buff[i]]

LEMMA StringFacts ==
    ASSUME NEW buff \in [1 .. BuffSize -> Pieces \cup {Junk}]
    PROVE  /\ StringIn(buff) \in Messages
           /\ \A n \in 1 .. BuffSize + 1 :
                 (n <= BuffSize => buff[n] = Nul) /\ (\A i \in 1 .. n - 1 : buff[i] # Nul)
                    => StringIn(buff) = [i \in 1 .. n - 1 |-> buff[i]]
           /\ StringIn(buff) # <<>> => StringIn(buff)[1] = buff[1]
<1> DEFINE S == {i \in 1 .. BuffSize : buff[i] = Nul} \cup {BuffSize + 1}
<1>1. BuffSize \in Nat /\ S \in SUBSET Nat /\ S # {} /\ S \subseteq 1 .. BuffSize + 1
  BY JSONServerAssumption
<1>2. Min(S) \in S /\ \A y \in S : Min(S) <= y
  BY <1>1, Smallest
<1>3. StringIn(buff) = [i \in 1 .. Min(S) - 1 |-> buff[i]]
  BY DEF StringIn
<1>4. \A n \in 1 .. BuffSize : buff[n] = Nul => n \in S
  OBVIOUS
<1>5. \A n \in S : n = BuffSize + 1 \/ (n \in 1 .. BuffSize /\ buff[n] = Nul)
  OBVIOUS
<1>10. BuffSize + 1 \in S
  OBVIOUS
<1> HIDE DEF S
<1>6. Min(S) \in 1 .. BuffSize + 1
  BY <1>1, <1>2
<1>7. StringIn(buff) \in Messages
  <2>1. Min(S) - 1 \in Nat /\ \A i \in 1 .. Min(S) - 1 : i \in 1 .. BuffSize
    BY <1>1, <1>6
  <2>2. StringIn(buff) \in [1 .. Min(S) - 1 -> Pieces \cup {Junk}]
    BY <1>3, <2>1
  <2> QED
    BY <2>1, <2>2 DEF Messages
<1>8. ASSUME NEW n \in 1 .. BuffSize + 1, n <= BuffSize => buff[n] = Nul, \A i \in 1 .. n - 1 : buff[i] # Nul
      PROVE  Min(S) = n
  <2>1. Min(S) <= n
    <3>1. n \in S
      <4>1. n \in 1 .. BuffSize \/ n = BuffSize + 1
        BY <1>1
      <4>2. n = BuffSize + 1 => n \in S
        BY <1>10
      <4> QED
        BY <1>1, <1>4, <1>8, <4>1, <4>2
    <3> QED
      BY <1>2, <3>1
  <2>2. ~ (Min(S) < n)
    <3> SUFFICES ASSUME Min(S) < n PROVE FALSE
      OBVIOUS
    <3>1. Min(S) # BuffSize + 1 /\ Min(S) \in 1 .. n - 1
      BY <1>1, <1>6
    <3> QED
      BY <1>2, <1>5, <1>8, <3>1
  <2> QED
    BY <1>1, <1>6, <2>1, <2>2
<1>9. StringIn(buff) # <<>> => StringIn(buff)[1] = buff[1]
  <2>1. Min(S) - 1 \in Nat
    BY <1>1, <1>6
  <2>2. Min(S) - 1 = 0 => StringIn(buff) = <<>>
    BY <1>3
  <2> DEFINE n == Min(S) - 1
  <2>4. n \in Nat
    BY <2>1
  <2> HIDE DEF n
  <2>5. n # 0 => 1 \in 1 .. n
    BY <2>4
  <2>3. Min(S) - 1 # 0 => 1 \in 1 .. Min(S) - 1
    BY <2>5 DEF n
  <2> QED
    BY <1>3, <2>2, <2>3
<1> QED
  BY <1>3, <1>7, <1>8, <1>9

\* recv reads as much as there is and there is room for, if it does not return less.
LEMMA RecvFacts ==
    ASSUME TInv, NEW c \in Clients, Recv(c)
    PROVE  \E n \in 1 .. Len(inbox[c]) :
              /\ n <= BuffSize
              /\ ~ Segmented => n = Len(inbox[c]) \/ n = BuffSize
              /\ rx_buff' = Overwritten(SubSeq(inbox[c], 1, n))
              /\ inbox' = [inbox EXCEPT ![c] = SubSeq(inbox[c], n + 1, Len(inbox[c]))]
<1> DEFINE m == Min({Len(inbox[c]), BuffSize})
<1>1. inbox[c] \in Seq(Pieces) /\ Len(inbox[c]) \in Nat /\ BuffSize \in Nat
  BY JSONServerAssumption DEF TInv
<1>2. m \in {Len(inbox[c]), BuffSize} /\ m <= Len(inbox[c]) /\ m <= BuffSize
  BY <1>1, Smallest
<1> HIDE DEF m
<1>3. PICK n \in 1 .. m :
         /\ Segmented \/ n = m
         /\ rx_buff' = Overwritten(SubSeq(inbox[c], 1, n))
         /\ inbox' = [inbox EXCEPT ![c] = SubSeq(inbox[c], n + 1, Len(inbox[c]))]
  BY DEF Recv, m
<1>4. n \in 1 .. Len(inbox[c]) /\ n <= BuffSize
  BY <1>1, <1>2, <1>3
<1> QED
  BY <1>2, <1>3, <1>4

LEMMA NextTInv == ASSUME IInv, TInv, [Next]_vars PROVE TInv'
<1> USE DEF TInv, start, loop, net
<1>0. /\ Types /\ Owned /\ Listening /\ Fds \in SUBSET Nat /\ MaxFd \in Nat
      /\ "free" \notin Clients /\ "listen" \notin Clients
  BY JSONServerAssumption DEF IInv, Fds
<1>1. \A f : After(sockdescrs_set, f) \in Fds \cup {End}
  <2> SUFFICES ASSUME NEW f PROVE After(sockdescrs_set, f) \in Fds \cup {End}
    OBVIOUS
  <2>1. {g \in sockdescrs_set : g > f} \in SUBSET Fds
    BY <1>0 DEF Types
  <2> QED
    BY <1>0, <2>1, Smallest DEF After, Begin
<1>2. Begin(sockdescrs_set) \in Fds \cup {End}
  BY <1>0, Smallest DEF Begin, Types
<1>3. ASSUME NEW f \in Fds, fd[f] = "free", NEW x, fd' = [fd EXCEPT ![f] = x], UNCHANGED <<pc, currd_it>>
      PROVE  pc' = "answer" => currd_it' \in Fds /\ fd'[currd_it'] \in Clients
  BY <1>0, <1>3 DEF Types
<1>4. Confirmed \in Messages
  BY DEF Confirmed, Messages
<1>5. ASSUME NEW c \in Clients, NEW m \in Messages, Send(c, m)
      PROVE  eof' \in [Clients -> {"no", "fin", "rst"}] /\ outbox' \in [Clients -> Seq(Messages)]
  <2>1. Append(outbox[c], m) \in Seq(Messages)
    BY <1>5
  <2> QED
    BY <1>5, <2>1 DEF Send
<1>6. CASE StartFails \/ SetRunning \/ SelectFails \/ AcceptFails \/ LoopEnd \/ Killed \/ UNCHANGED vars
  BY <1>0, <1>6 DEF StartFails, SetRunning, SelectFails, AcceptFails, LoopEnd, Killed, vars
<1>7. CASE StartServer
  <2>1. Min(Free) \in Fds /\ fd[Min(Free)] = "free"
    BY <1>7, FreeFd DEF StartServer
  <2> QED
    BY <1>7, <2>1 DEF StartServer
<1>8. CASE OtherOpens
  <2>1. Min(Free) \in Fds /\ fd[Min(Free)] = "free"
    BY <1>8, FreeFd DEF OtherOpens
  <2> QED
    BY <1>3, <1>8, <2>1 DEF OtherOpens
<1>9. CASE Select
  BY <1>0, <1>2, <1>9 DEF Select
<1>10. CASE Accept
  <2>1. Min(Free) \in Fds /\ Head(backlog) \in Clients
    BY <1>10, FreeFd DEF Accept, AcceptConnection, IInv, Queued
  <2>2. Send(Head(backlog), Confirmed)
    BY <1>10 DEF Accept, AcceptConnection
  <2> QED
    BY <1>4, <1>5, <1>10, <2>1, <2>2 DEF Accept, AcceptConnection
<1>11. ASSUME NEW c \in Clients, RecvClosed(c) PROVE TInv'
  <2>1. currd_it' \in Fds \cup {End}
    BY <1>1, <1>11 DEF RecvClosed, Next_it
  <2>2. /\ pc' = "read" /\ sockdescrs' \subseteq Fds
        /\ eof' \in [Clients -> {"no", "fin", "rst"}]
        /\ outbox' \in [Clients -> Seq(Messages)] /\ asked' \in [Clients -> Seq(Requests)]
    BY <1>11 DEF RecvClosed, Forget, At
  <2> QED
    BY <1>11, <2>1, <2>2 DEF RecvClosed, Forget
<1>12. ASSUME NEW c \in Clients, RecvError(c) PROVE TInv'
  <2>1. currd_it' \in Fds \cup {End} /\ pc = "read"
    BY <1>1, <1>12 DEF RecvError, Next_it, At
  <2> QED
    BY <1>12, <2>1 DEF RecvError
<1>13. ASSUME NEW c \in Clients, Recv(c) PROVE TInv'
  <2>1. PICK n \in 1 .. Len(inbox[c]) :
           /\ n <= BuffSize
           /\ rx_buff' = Overwritten(SubSeq(inbox[c], 1, n))
           /\ inbox' = [inbox EXCEPT ![c] = SubSeq(inbox[c], n + 1, Len(inbox[c]))]
    BY <1>13, RecvFacts
  <2>2. inbox[c] \in Seq(Pieces) /\ n \in Nat /\ n <= Len(inbox[c]) /\ Len(inbox[c]) \in Nat
    OBVIOUS
  <2>3. /\ SubSeq(inbox[c], n + 1, Len(inbox[c])) \in Seq(Pieces)
        /\ SubSeq(inbox[c], 1, n) \in Seq(Pieces) /\ Len(SubSeq(inbox[c], 1, n)) = n
    BY <2>2
  <2>4. inbox' \in [Clients -> Seq(Pieces)]
    BY <2>1, <2>3
  <2> DEFINE s == SubSeq(inbox[c], 1, n)
  <2> HIDE DEF s
  <2>5. s \in Seq(Pieces) /\ Len(s) = n /\ rx_buff' = Overwritten(s)
    BY <2>1, <2>3 DEF s
  <2>6. rx_buff' \in [1 .. BuffSize -> Pieces \cup {Junk}]
    <3>1. \A i \in 1 .. BuffSize : i <= Len(s) => s[i] \in Pieces
      BY <2>2, <2>5
    <3> QED
      BY <2>5, <3>1 DEF Overwritten
  <2>7. currd_it' \in Fds /\ fd'[currd_it'] \in Clients
    BY <1>0, <1>13 DEF Recv, At, Types
  <2> QED
    BY <1>13, <2>4, <2>6, <2>7 DEF Recv
<1>14. CASE Answer
  <2>1. currd_it' \in Fds \cup {End} /\ pc' = "read"
    BY <1>1, <1>14 DEF Answer, Next_it
  <2>2. fd[currd_it] \in Clients /\ String \in Messages
    BY <1>14, StringFacts DEF Answer, String, StringIn
  <2>3. eof' \in [Clients -> {"no", "fin", "rst"}] /\ outbox' \in [Clients -> Seq(Messages)]
    BY <1>5, <1>14, <2>2 DEF Answer
  <2> QED
    BY <1>14, <2>1, <2>3 DEF Answer
<1>15. ASSUME NEW c \in Clients, Connect(c) PROVE TInv'
  BY <1>15 DEF Connect
<1>16. ASSUME NEW c \in Clients, NEW q \in Requests, Ask(c, q) PROVE TInv'
  <2>1. inbox[c] \o Sent(q) \in Seq(Pieces) /\ Append(asked[c], q) \in Seq(Requests)
    <3>1. inbox[c] \in Seq(Pieces) /\ Sent(q) \in Seq(Pieces)
      BY SentFacts
    <3> QED
      BY <3>1
  <2>2. inbox' = [inbox EXCEPT ![c] = inbox[c] \o Sent(q)] /\ asked' = [asked EXCEPT ![c] = Append(asked[c], q)]
    BY <1>16 DEF Ask
  <2>3. inbox' \in [Clients -> Seq(Pieces)] /\ asked' \in [Clients -> Seq(Requests)]
    BY <2>1, <2>2
  <2> QED
    BY <1>16, <2>3 DEF Ask
<1>17. ASSUME NEW c \in Clients, ReadMessage(c) PROVE TInv'
  <2>1. outbox[c] # <<>> /\ outbox' = [outbox EXCEPT ![c] = Tail(outbox[c])]
        /\ asked' = [asked EXCEPT ![c] = IF Head(outbox[c]) = Confirmed \/ asked[c] = <<>>
                                         THEN asked[c] ELSE Tail(asked[c])]
    BY <1>17 DEF ReadMessage
  <2>2. Tail(outbox[c]) \in Seq(Messages) /\ (asked[c] # <<>> => Tail(asked[c]) \in Seq(Requests))
    BY <2>1
  <2>3. outbox' \in [Clients -> Seq(Messages)] /\ asked' \in [Clients -> Seq(Requests)]
    BY <2>1, <2>2
  <2> QED
    BY <1>17, <2>3 DEF ReadMessage
<1>18. ASSUME NEW c \in Clients, Leave(c) PROVE TInv'
  BY <1>18 DEF Leave
<1> QED
  BY <1>6, <1>7, <1>8, <1>9, <1>10, <1>11, <1>12, <1>13, <1>14, <1>15, <1>16, <1>17, <1>18
     DEF Next, ThreadStep, ClientStep

LEMMA InitTInv == Init => TInv
<1>1. Nul \in Pieces /\ BuffSize \in Nat
  BY JSONServerAssumption DEF Pieces
<1> SUFFICES ASSUME Init PROVE TInv
  OBVIOUS
<1>2. rx_buff \in [1 .. BuffSize -> Pieces \cup {Junk}]
  BY <1>1 DEF Init
<1>3. /\ inbox \in [Clients -> Seq(Pieces)] /\ outbox \in [Clients -> Seq(Messages)]
      /\ asked \in [Clients -> Seq(Requests)]
  BY DEF Init
<1> QED
  BY <1>2, <1>3 DEF Init, TInv

LEMMA TypeInvariant == Spec => [](IInv /\ TInv)
<1>1. Init => IInv /\ TInv
  BY InitIInv, InitTInv
<1>2. IInv /\ TInv /\ [Next]_vars => (IInv /\ TInv)'
  BY NextIInv, NextTInv
<1> QED
  BY <1>1, <1>2, PTL DEF Spec

\* Whatever the clients send and in whatever pieces it arrives, the descriptors are those
\* of the table, the buffer holds what was received or was there, and a client's requests
\* and their pieces are what it sent.
THEOREM TypeCorrect == Spec => []TypeOK
<1>1. IInv /\ TInv => TypeOK
  <2> SUFFICES ASSUME IInv, TInv PROVE TypeOK
    OBVIOUS
  <2>1. \A f \in Fds : fd[f] \in {"free", "listen", "other"} \cup Clients
    BY DEF IInv, Types
  <2>2. \A c \in Clients : Range(inbox[c]) \subseteq Pieces /\ Range(asked[c]) \subseteq Requests
    <3> SUFFICES ASSUME NEW c \in Clients PROVE Range(inbox[c]) \subseteq Pieces /\ Range(asked[c]) \subseteq Requests
      OBVIOUS
    <3>1. inbox[c] \in Seq(Pieces) /\ asked[c] \in Seq(Requests)
      BY DEF TInv
    <3> QED
      BY <3>1 DEF Range
  <2> QED
    BY <2>1, <2>2 DEF TypeOK, TInv, IInv, Types
<1> QED
  BY <1>1, TypeInvariant, PTL

-----------------------------------------------------------------------------
(* Replies                                                                 *)

\* Clients that close their requests by a NUL, which arrive whole.
Orderly == ~ Segmented /\ \A q \in Requests : q.nul

Answering(c) == pc = "answer" /\ fd[currd_it] = c

Replies(c) == {j \in 1 .. Len(outbox[c]) : outbox[c][j] # Confirmed}

\* Where requests begin among the pieces under way.
Starts(c) == {k \in 1 .. Len(inbox[c]) : inbox[c][k][2] = 1}

\* The request q is under way, from the k-th piece on.
Comes(c, k, q) ==
    /\ k + q.len <= Len(inbox[c]) /\ inbox[c][k + q.len] = Nul
    /\ \A i \in 1 .. q.len : inbox[c][k + i - 1] = <<q.id, i>>

Climbs(S, f) == \A i, j \in S : i < j => f[i] < f[j]

\* The replies that wait for c answer some of the first "done" of the requests it counts, each
\* a later one; the requests under way are later ones still.  The string in the buffer, if it is
\* an answer, is that of the last one done.
Order(c, rep, done, req) ==
    /\ done <= Len(asked[c])
    /\ Climbs(Replies(c), rep) /\ Climbs(Starts(c), req)
    /\ \A j \in Replies(c) : rep[j] \in 1 .. done /\ outbox[c][j] = Text(asked[c][rep[j]])
    /\ \A k \in Starts(c) : req[k] \in done + 1 .. Len(asked[c]) /\ Comes(c, k, asked[c][req[k]])
    /\ Answering(c) /\ Parses(String) =>
          /\ done # 0 /\ String = Text(asked[c][done])
          /\ \A j \in Replies(c) : rep[j] < done

Positions == [Nat -> Int]

Ordered(c) == \E rep \in Positions, done \in Nat, req \in Positions : Order(c, rep, done, req)

InOrder == \A c \in Clients : Ordered(c)

\* What is not written here leaves a client where it is.
LEMMA SameClient ==
    ASSUME NEW c \in Clients, Ordered(c),
           asked'[c] = asked[c], inbox'[c] = inbox[c], outbox'[c] = outbox[c],
           Answering(c)' => Answering(c) /\ rx_buff' = rx_buff
    PROVE  Ordered(c)'
<1>1. PICK rep \in Positions, done \in Nat, req \in Positions : Order(c, rep, done, req)
  BY DEF Ordered
<1>2. Replies(c)' = Replies(c) /\ Starts(c)' = Starts(c)
  BY DEF Replies, Starts
<1>3. \A k, q : Comes(c, k, q)' <=> Comes(c, k, q)
  BY DEF Comes
<1>4. Answering(c)' => Answering(c) /\ String' = String
  BY DEF String
<1>5. Answering(c)' /\ Parses(String)' => Answering(c) /\ Parses(String) /\ String' = String
  BY <1>4 DEF Parses
<1>6. Order(c, rep, done, req)'
  BY <1>1, <1>2, <1>3, <1>5 DEF Order
<1> QED
  BY <1>6 DEF Ordered

\* A client with nothing under way is in order.
LEMMA NothingUnderWay ==
    ASSUME TInv', NEW c \in Clients, outbox'[c] = <<>>, inbox'[c] = <<>>, ~ Answering(c)'
    PROVE  Ordered(c)'
<1> DEFINE f == [n \in Nat |-> 0]
<1>1. f \in Positions
  BY DEF Positions
<1> HIDE DEF f
<1>2. Replies(c)' = {} /\ Starts(c)' = {}
  BY DEF Replies, Starts
<1>3. 0 <= Len(asked'[c])
  BY DEF TInv
<1>4. Order(c, f, 0, f)'
  BY <1>2, <1>3 DEF Order, Climbs
<1> QED
  BY <1>1, <1>4 DEF Ordered

\* The client leaves: no reply waits for it any more.
LEMMA RepliesLost ==
    ASSUME NEW c \in Clients, Ordered(c), outbox'[c] = <<>>,
           asked'[c] = asked[c], inbox'[c] = inbox[c], UNCHANGED <<pc, fd, currd_it, rx_buff>>
    PROVE  Ordered(c)'
<1>1. PICK rep \in Positions, done \in Nat, req \in Positions : Order(c, rep, done, req)
  BY DEF Ordered
<1>2. Replies(c)' = {} /\ Starts(c)' = Starts(c)
  BY DEF Replies, Starts
<1>3. \A k, q : Comes(c, k, q)' <=> Comes(c, k, q)
  BY DEF Comes
<1>4. Answering(c)' /\ Parses(String)' => Answering(c) /\ Parses(String) /\ String' = String
  BY DEF Answering, Parses, String
<1>5. Order(c, rep, done, req)'
  BY <1>1, <1>2, <1>3, <1>4 DEF Order, Climbs
<1> QED
  BY <1>5 DEF Ordered

\* A confirmation, or the reply that stands in the buffer, is put behind what waits.
LEMMA MessageAppended ==
    ASSUME TInv, NEW c \in Clients, Ordered(c), NEW m \in Messages, outbox'[c] = Append(outbox[c], m),
           asked'[c] = asked[c], inbox'[c] = inbox[c], ~ Answering(c)',
           m # Confirmed => Answering(c) /\ Parses(String) /\ m = String
    PROVE  Ordered(c)'
<1>1. PICK rep \in Positions, done \in Nat, req \in Positions : Order(c, rep, done, req)
  BY DEF Ordered
<1>0. PICK n \in Nat : n = Len(outbox[c]) + 1
  BY DEF TInv
<1>2. outbox[c] \in Seq(Messages) /\ Len(outbox'[c]) = n
  BY <1>0 DEF TInv
<1>3. PICK rep2 \in Positions : \A i \in Nat : rep2[i] = IF i = n THEN done ELSE rep[i]
  <2>1. [i \in Nat |-> IF i = n THEN done ELSE rep[i]] \in Positions
    BY DEF Positions
  <2> QED
    BY <2>1
<1>4. /\ Replies(c)' \subseteq Replies(c) \cup {n}
      /\ n \in Replies(c)' => m # Confirmed /\ outbox'[c][n] = m
      /\ \A j \in Replies(c) : j \in Nat /\ j < n /\ outbox'[c][j] = outbox[c][j]
  <2>1. outbox'[c][n] = m /\ \A j \in 1 .. Len(outbox[c]) : outbox'[c][j] = outbox[c][j] /\ j \in Nat /\ j < n
    BY <1>0, <1>2
  <2>2. \A j \in 1 .. n : j = n \/ j \in 1 .. Len(outbox[c])
    BY <1>0, <1>2
  <2> QED
    BY <1>2, <2>1, <2>2 DEF Replies
<1>5. Starts(c)' = Starts(c) /\ \A k, q : Comes(c, k, q)' <=> Comes(c, k, q)
  BY DEF Starts, Comes
<1>6. n \in Replies(c)' => done # 0 /\ m = Text(asked[c][done]) /\ \A j \in Replies(c) : rep[j] < done
  BY <1>1, <1>4 DEF Order
<1>7. Climbs(Replies(c)', rep2)
  BY <1>1, <1>2, <1>3, <1>4, <1>6 DEF Order, Climbs
<1>8. \A j \in Replies(c)' : rep2[j] \in 1 .. done /\ outbox'[c][j] = Text(asked[c][rep2[j]])
  <2>1. n \in Replies(c)' => done \in 1 .. done
    BY <1>6
  <2> QED
    BY <1>1, <1>2, <1>3, <1>4, <1>6, <2>1 DEF Order
<1>9. Order(c, rep2, done, req)'
  BY <1>1, <1>5, <1>7, <1>8 DEF Order
<1> QED
  BY <1>3, <1>9 DEF Ordered

\* The client reads a message, and with a reply it takes its oldest request for answered.
LEMMA MessageTaken ==
    ASSUME TInv, NEW c \in Clients, Ordered(c), outbox[c] # <<>>, outbox'[c] = Tail(outbox[c]),
           asked'[c] = IF Head(outbox[c]) = Confirmed \/ asked[c] = <<>> THEN asked[c] ELSE Tail(asked[c]),
           inbox'[c] = inbox[c], UNCHANGED <<pc, fd, currd_it, rx_buff>>
    PROVE  Ordered(c)'
<1>1. PICK rep \in Positions, done \in Nat, req \in Positions : Order(c, rep, done, req)
  BY DEF Ordered
<1>0. PICK d \in {0, 1} : d = IF Head(outbox[c]) = Confirmed THEN 0 ELSE 1
  OBVIOUS
<1>2. /\ Head(outbox[c]) = outbox[c][1] /\ 1 \in 1 .. Len(outbox[c])
      /\ Len(outbox'[c]) = Len(outbox[c]) - 1 /\ Len(outbox[c]) \in Nat \ {0}
      /\ \A j \in 1 .. Len(outbox[c]) - 1 : outbox'[c][j] = outbox[c][j + 1]
  <2>1. outbox[c] \in Seq(Messages)
    BY DEF TInv
  <2> QED
    BY <2>1
<1>3. \A j \in Replies(c)' : j + 1 \in Replies(c) /\ outbox'[c][j] = outbox[c][j + 1] /\ j \in Nat /\ 1 < j + 1
  BY <1>2 DEF Replies
<1>4. d \in {0, 1} /\ (d = 1 => 1 \in Replies(c))
  BY <1>0, <1>2 DEF Replies
<1>5. asked[c] \in Seq(Requests) /\ Len(asked[c]) \in Nat
  BY DEF TInv
<1>6. /\ Len(asked'[c]) = Len(asked[c]) - d
      /\ \A x \in d + 1 .. Len(asked[c]) : asked'[c][x - d] = asked[c][x]
  <2>1. CASE d = 0
    <3>1. asked'[c] = asked[c]
      BY <1>0, <2>1
    <3>2. Len(asked[c]) - 0 = Len(asked[c]) /\ \A x \in 0 + 1 .. Len(asked[c]) : x - 0 = x
      BY <1>5
    <3> QED
      BY <2>1, <3>1, <3>2
  <2>2. CASE d = 1
    <3>1. rep[1] \in 1 .. done /\ done <= Len(asked[c])
      BY <1>1, <1>4, <2>2 DEF Order
    <3>2. asked[c] # <<>>
      BY <1>5, <3>1
    <3>3. asked'[c] = Tail(asked[c])
      BY <1>0, <2>2, <3>2
    <3>4. /\ Len(Tail(asked[c])) = Len(asked[c]) - 1
          /\ \A x \in 1 .. Len(asked[c]) - 1 : Tail(asked[c])[x] = asked[c][x + 1]
      BY <1>5, <3>2
    <3>5. \A x \in 2 .. Len(asked[c]) : x - 1 \in 1 .. Len(asked[c]) - 1 /\ (x - 1) + 1 = x
      BY <1>5
    <3>6. \A x \in 2 .. Len(asked[c]) : asked'[c][x - 1] = asked[c][x]
      BY <3>3, <3>4, <3>5
    <3>7. d + 1 = 2 /\ Len(asked[c]) - d = Len(asked[c]) - 1 /\ \A x \in 2 .. Len(asked[c]) : x - d = x - 1
      BY <2>2
    <3> QED
      BY <3>3, <3>4, <3>6, <3>7
  <2> QED
    BY <1>4, <2>1, <2>2
<1>7. PICK rep2 \in Positions, req2 \in Positions :
         \A j \in Nat : rep2[j] = rep[j + 1] - d /\ req2[j] = req[j] - d
  <2>1. [j \in Nat |-> rep[j + 1] - d] \in Positions /\ [j \in Nat |-> req[j] - d] \in Positions
    BY <1>4 DEF Positions
  <2> QED
    BY <2>1
<1>18. \A j \in Nat : rep[j + 1] \in Int /\ req[j] \in Int
  BY DEF Positions
<1>8. Starts(c)' = Starts(c) /\ (\A k, q : Comes(c, k, q)' <=> Comes(c, k, q)) /\ Starts(c) \subseteq Nat
  BY DEF Starts, Comes
<1>9. Answering(c)' /\ Parses(String)' => Answering(c) /\ Parses(String) /\ String' = String
  BY DEF Answering, Parses, String
<1>10. \A j \in Replies(c) : 1 < j => d + 1 <= rep[j] /\ rep[j] <= done
  <2> SUFFICES ASSUME NEW j \in Replies(c), 1 < j PROVE d + 1 <= rep[j] /\ rep[j] <= done
    OBVIOUS
  <2>1. rep[j] \in 1 .. done
    BY <1>1 DEF Order
  <2>2. d = 1 => rep[1] \in 1 .. done /\ rep[1] < rep[j]
    BY <1>1, <1>4 DEF Order, Climbs
  <2> QED
    BY <1>4, <2>1, <2>2
<1>11. d <= done
  <2>1. d = 1 => rep[1] \in 1 .. done
    BY <1>1, <1>4 DEF Order
  <2> QED
    BY <1>4, <2>1
<1>12. done - d \in Nat /\ done - d <= Len(asked'[c])
  BY <1>1, <1>4, <1>5, <1>6, <1>11 DEF Order
<1>13. Climbs(Replies(c)', rep2) /\ Climbs(Starts(c)', req2)
  <2>1. \A i, j \in Replies(c)' : i < j => rep2[i] < rep2[j]
    <3> SUFFICES ASSUME NEW i \in Replies(c)', NEW j \in Replies(c)', i < j PROVE rep2[i] < rep2[j]
      OBVIOUS
    <3>1. i + 1 \in Replies(c) /\ j + 1 \in Replies(c) /\ i + 1 < j + 1 /\ i \in Nat /\ j \in Nat
      BY <1>3
    <3>2. rep[i + 1] < rep[j + 1]
      BY <1>1, <3>1 DEF Order, Climbs
    <3>3. /\ rep2[i] = rep[i + 1] - d /\ rep2[j] = rep[j + 1] - d
          /\ rep[i + 1] \in Int /\ rep[j + 1] \in Int
      BY <1>7, <1>18, <3>1
    <3> QED
      BY <1>4, <3>2, <3>3
  <2>2. \A i, j \in Starts(c) : i < j => req2[i] < req2[j]
    <3> SUFFICES ASSUME NEW i \in Starts(c), NEW j \in Starts(c), i < j PROVE req2[i] < req2[j]
      OBVIOUS
    <3>1. req[i] < req[j] /\ i \in Nat /\ j \in Nat
      BY <1>1, <1>8 DEF Order, Climbs
    <3>2. req2[i] = req[i] - d /\ req2[j] = req[j] - d /\ req[i] \in Int /\ req[j] \in Int
      BY <1>7, <1>18, <3>1
    <3> QED
      BY <1>4, <3>1, <3>2
  <2> QED
    BY <1>8, <2>1, <2>2 DEF Climbs
<1>14. \A j \in Replies(c)' : rep2[j] \in 1 .. done - d /\ outbox'[c][j] = Text(asked'[c][rep2[j]])
  <2> SUFFICES ASSUME NEW j \in Replies(c)'
               PROVE  rep2[j] \in 1 .. done - d /\ outbox'[c][j] = Text(asked'[c][rep2[j]])
    OBVIOUS
  <2>1. j \in Nat /\ j + 1 \in Replies(c) /\ outbox'[c][j] = outbox[c][j + 1] /\ rep2[j] = rep[j + 1] - d
    BY <1>3, <1>7
  <2>2. rep[j + 1] \in d + 1 .. done /\ rep[j + 1] \in d + 1 .. Len(asked[c])
    <3>1. d + 1 <= rep[j + 1] /\ rep[j + 1] <= done /\ rep[j + 1] \in Int
      BY <1>3, <1>10, <1>18, <2>1
    <3>2. done <= Len(asked[c])
      BY <1>1 DEF Order
    <3> QED
      BY <1>4, <1>5, <3>1, <3>2
  <2>3. outbox[c][j + 1] = Text(asked[c][rep[j + 1]])
    BY <1>1, <2>1 DEF Order
  <2>4. rep2[j] \in 1 .. done - d
    BY <1>4, <2>1, <2>2
  <2>5. asked'[c][rep2[j]] = asked[c][rep[j + 1]]
    BY <1>6, <2>1, <2>2
  <2> QED
    BY <2>1, <2>3, <2>4, <2>5
<1>15. \A k \in Starts(c) : /\ req2[k] \in done - d + 1 .. Len(asked'[c])
                            /\ asked'[c][req2[k]] = asked[c][req[k]]
  <2> SUFFICES ASSUME NEW k \in Starts(c)
               PROVE  req2[k] \in done - d + 1 .. Len(asked'[c]) /\ asked'[c][req2[k]] = asked[c][req[k]]
    OBVIOUS
  <2>1. req[k] \in done + 1 .. Len(asked[c]) /\ req2[k] = req[k] - d
    BY <1>1, <1>7, <1>8 DEF Order
  <2>2. req[k] \in d + 1 .. Len(asked[c])
    BY <1>4, <1>5, <1>11, <2>1
  <2> QED
    BY <1>4, <1>5, <1>6, <2>1, <2>2
<1>16. Answering(c)' /\ Parses(String)' =>
          /\ done - d # 0 /\ String' = Text(asked'[c][done - d])
          /\ \A j \in Replies(c)' : rep2[j] < done - d
  <2> SUFFICES ASSUME Answering(c), Parses(String), String' = String
               PROVE  /\ done - d # 0 /\ String' = Text(asked'[c][done - d])
                      /\ \A j \in Replies(c)' : rep2[j] < done - d
    BY <1>9
  <2>1. done # 0 /\ String = Text(asked[c][done]) /\ \A j \in Replies(c) : rep[j] < done
    BY <1>1 DEF Order
  <2>2. d = 1 => rep[1] \in 1 .. done /\ rep[1] < done
    BY <1>1, <1>4, <2>1 DEF Order
  <2>3. done \in d + 1 .. Len(asked[c])
    BY <1>1, <1>4, <1>5, <2>1, <2>2 DEF Order
  <2>4. asked'[c][done - d] = asked[c][done]
    BY <1>6, <2>3
  <2>5. \A j \in Replies(c)' : rep2[j] < done - d
    <3> SUFFICES ASSUME NEW j \in Replies(c)' PROVE rep2[j] < done - d
      OBVIOUS
    <3>1. j \in Nat /\ rep[j + 1] < done /\ rep2[j] = rep[j + 1] - d /\ rep[j + 1] \in Int
      BY <1>3, <1>7, <1>18, <2>1
    <3> QED
      BY <1>4, <3>1
  <2>6. done - d # 0
    BY <1>4, <2>3
  <2> QED
    BY <2>1, <2>4, <2>5, <2>6
<1>17. Order(c, rep2, done - d, req2)'
  <2>1. \A k \in Starts(c) : Comes(c, k, asked[c][req[k]])
    BY <1>1 DEF Order
  <2>2. \A k \in Starts(c) : Comes(c, k, asked[c][req2[k]])'
    BY <1>8, <1>15, <2>1 DEF Comes
  <2> QED
    BY <1>8, <1>12, <1>13, <1>14, <1>15, <1>16, <2>2 DEF Order
<1> QED
  BY <1>12, <1>17 DEF Ordered

\* The client sends a request, which comes behind what is under way.
LEMMA RequestSent ==
    ASSUME Orderly, TInv, NEW c \in Clients, NEW q \in Requests, Ordered(c),
           inbox'[c] = inbox[c] \o Sent(q), asked'[c] = Append(asked[c], q),
           outbox'[c] = outbox[c], UNCHANGED <<pc, fd, currd_it, rx_buff>>
    PROVE  Ordered(c)'
<1>1. PICK rep \in Positions, done \in Nat, req \in Positions : Order(c, rep, done, req)
  BY DEF Ordered
<1>2. inbox[c] \in Seq(Pieces) /\ asked[c] \in Seq(Requests)
  BY DEF TInv
<1>0. PICK n \in Nat, a \in Nat : n = Len(inbox[c]) /\ a = Len(asked[c])
  <2>1. Len(inbox[c]) \in Nat /\ Len(asked[c]) \in Nat
    BY <1>2
  <2> QED
    BY <2>1
<1>3. /\ Sent(q) \in Seq(Pieces) /\ Len(Sent(q)) = q.len + 1 /\ Sent(q)[q.len + 1] = Nul
      /\ q.len \in Nat \ {0} /\ q.id \in Nat
      /\ \A i \in 1 .. q.len : Sent(q)[i] = <<q.id, i>>
  <2>0. Nul \in Pieces
    BY DEF Pieces
  <2>1. Text(q) \in Seq(Pieces) /\ Len(Text(q)) = q.len /\ q.len \in Nat \ {0} /\ Nul \in Pieces /\ q.id \in Nat
    BY <2>0, SentFacts, JSONServerAssumption
  <2>2. Sent(q) = Append(Text(q), Nul)
    BY DEF Sent, Orderly
  <2>3. \A i \in 1 .. q.len : Text(q)[i] = <<q.id, i>>
    BY DEF Text
  <2> HIDE DEF Orderly
  <2> QED
    BY <2>1, <2>2, <2>3
<1>16. PICK l \in Nat : l = q.len
  BY <1>3
<1>4. /\ Len(inbox'[c]) = n + q.len + 1
      /\ \A k \in 1 .. n : inbox'[c][k] = inbox[c][k]
      /\ \A i \in 1 .. q.len + 1 : inbox'[c][n + i] = Sent(q)[i]
  <2>1. PICK s \in Seq(Pieces), t \in Seq(Pieces) : s = inbox[c] /\ t = Sent(q)
    BY <1>2, <1>3
  <2>2. /\ Len(s \o t) = Len(s) + Len(t)
        /\ \A k \in 1 .. Len(s) : (s \o t)[k] = s[k]
        /\ \A i \in 1 .. Len(t) : (s \o t)[Len(s) + i] = t[i]
    <3>1. Len(s) \in Nat /\ Len(t) \in Nat /\ Len(s \o t) = Len(s) + Len(t)
      OBVIOUS
    <3>2. ASSUME NEW k \in 1 .. Len(s) PROVE (s \o t)[k] = s[k]
      OBVIOUS
    <3>3. ASSUME NEW i \in 1 .. Len(t) PROVE (s \o t)[Len(s) + i] = t[i]
      OBVIOUS
    <3> QED
      BY <3>1, <3>2, <3>3
  <2>3. Len(s) = n /\ Len(t) = q.len + 1 /\ inbox'[c] = s \o t
    BY <1>0, <1>3, <2>1
  <2>4. n + (q.len + 1) = n + q.len + 1
    BY <1>16
  <2> QED
    BY <2>1, <2>2, <2>3, <2>4
<1>5. /\ a + 1 = Len(asked'[c]) /\ asked'[c][a + 1] = q
      /\ \A x \in 1 .. a : asked'[c][x] = asked[c][x]
  BY <1>0, <1>2
<1>6. PICK req2 \in Positions : \A k \in Nat : req2[k] = IF k = n + 1 THEN a + 1 ELSE req[k]
  <2>1. [k \in Nat |-> IF k = n + 1 THEN a + 1 ELSE req[k]] \in Positions
    BY DEF Positions
  <2> QED
    BY <2>1
<1>7. \A k \in Starts(c)' : k = n + 1 \/ (k \in Starts(c) /\ k < n + 1)
  <2> SUFFICES ASSUME NEW k \in 1 .. n + q.len + 1, inbox'[c][k][2] = 1, k # n + 1
               PROVE  k \in Starts(c) /\ k < n + 1
    BY <1>4 DEF Starts
  <2>1. CASE k <= n
    BY <1>0, <1>2, <1>4, <2>1 DEF Starts
  <2>2. CASE k > n
    <3>1. k - n \in 1 .. q.len + 1 /\ k = n + (k - n) /\ k - n # 1
      BY <1>16, <2>2
    <3>2. inbox'[c][k] = Sent(q)[k - n]
      BY <1>4, <3>1
    <3>5. k - n = q.len + 1 => inbox'[c][k][2] = 0
      BY <1>3, <3>2 DEF Nul
    <3>4. k - n \in 1 .. q.len => inbox'[c][k][2] = k - n
      BY <1>3, <3>2
    <3>6. k - n \in 1 .. q.len \/ k - n = q.len + 1
      BY <1>3, <3>1
    <3> QED
      BY <3>1, <3>4, <3>5, <3>6
  <2> QED
    BY <1>2, <2>1, <2>2
<1>8. Comes(c, n + 1, q)'
  <2>1. (n + 1) + q.len <= Len(inbox'[c]) /\ (n + 1) + q.len = n + (q.len + 1)
    <3>1. (n + 1) + l = n + l + 1 /\ (n + 1) + l = n + (l + 1) /\ n + l + 1 <= n + l + 1
      OBVIOUS
    <3> QED
      BY <1>4, <1>16, <3>1
  <2>2. inbox'[c][(n + 1) + q.len] = Nul
    <3>1. q.len + 1 \in 1 .. q.len + 1
      BY <1>3
    <3> QED
      BY <1>3, <1>4, <2>1, <3>1
  <2>3. \A i \in 1 .. q.len : inbox'[c][(n + 1) + i - 1] = <<q.id, i>>
    <3> SUFFICES ASSUME NEW i \in 1 .. q.len PROVE inbox'[c][(n + 1) + i - 1] = <<q.id, i>>
      OBVIOUS
    <3>1. (n + 1) + i - 1 = n + i /\ i \in 1 .. q.len + 1
      BY <1>2, <1>3
    <3> QED
      BY <1>3, <1>4, <3>1
  <2> QED
    BY <2>1, <2>2, <2>3 DEF Comes
<1>9. ASSUME NEW k \in Starts(c), NEW x \in Requests, Comes(c, k, x) PROVE Comes(c, k, x)'
  <2>1. k \in 1 .. n /\ x.len \in Nat \ {0} /\ k + x.len <= n
    BY <1>0, <1>9, JSONServerAssumption DEF Starts, Comes
  <2>2. k + x.len \in 1 .. n /\ \A i \in 1 .. x.len : k + i - 1 \in 1 .. n
    BY <1>2, <2>1
  <2>3. k + x.len <= Len(inbox'[c])
    BY <1>2, <1>3, <1>4, <2>1
  <2> QED
    BY <1>4, <1>9, <2>2, <2>3 DEF Comes
<1>10. Starts(c) \subseteq 1 .. n /\ Replies(c)' = Replies(c)
  BY <1>0 DEF Starts, Replies
<1>11. Climbs(Starts(c)', req2)
  <2> SUFFICES ASSUME NEW i \in Starts(c)', NEW j \in Starts(c)', i < j PROVE req2[i] < req2[j]
    BY DEF Climbs
  <2>1. i \in Starts(c) /\ i < n + 1 /\ i \in Nat
    BY <1>2, <1>7, <1>10
  <2>2. req2[i] = req[i] /\ req[i] \in done + 1 .. a
    BY <1>0, <1>1, <1>2, <1>6, <2>1 DEF Order
  <2>3. CASE j = n + 1
    <3>1. req2[j] = a + 1
      BY <1>2, <1>6, <2>3
    <3> QED
      BY <1>2, <2>2, <3>1
  <2>4. CASE j # n + 1
    <3>1. j \in Starts(c) /\ req2[j] = req[j]
      BY <1>2, <1>6, <1>7, <1>10, <2>4
    <3> QED
      BY <1>1, <2>1, <2>2, <3>1 DEF Order, Climbs
  <2> QED
    BY <2>3, <2>4
<1>12. \A k \in Starts(c)' : req2[k] \in done + 1 .. a + 1 /\ Comes(c, k, asked[c][req2[k]])'
  <2> SUFFICES ASSUME NEW k \in Starts(c)'
               PROVE  req2[k] \in done + 1 .. a + 1 /\ Comes(c, k, asked[c][req2[k]])'
    OBVIOUS
  <2>1. done <= a
    BY <1>0, <1>1 DEF Order
  <2>2. CASE k = n + 1
    <3>1. req2[k] = a + 1 /\ asked'[c][req2[k]] = q
      BY <1>5, <1>6, <2>2
    <3>2. Comes(c, k, asked[c][req2[k]])'
      BY <1>8, <2>2, <3>1 DEF Comes
    <3> QED
      BY <2>1, <3>1, <3>2
  <2>3. CASE k # n + 1
    <3>1. k \in Starts(c) /\ req2[k] = req[k]
      BY <1>2, <1>6, <1>7, <1>10, <2>3
    <3>2. req[k] \in done + 1 .. a /\ Comes(c, k, asked[c][req[k]])
      BY <1>0, <1>1, <3>1 DEF Order
    <3>3. req[k] \in 1 .. a /\ asked'[c][req[k]] = asked[c][req[k]]
      BY <1>2, <1>5, <3>2
    <3>4. asked[c][req[k]] \in Requests
      BY <1>0, <1>2, <3>3
    <3>5. PICK x \in Requests : x = asked[c][req[k]]
      BY <3>4
    <3>6. Comes(c, k, x)'
      BY <1>9, <3>1, <3>2, <3>5
    <3>7. Comes(c, k, asked[c][req2[k]])'
      BY <3>1, <3>3, <3>5, <3>6 DEF Comes
    <3> QED
      BY <1>2, <3>1, <3>2, <3>7
  <2> QED
    BY <2>2, <2>3
<1>13. /\ done <= a + 1
       /\ \A j \in Replies(c)' : rep[j] \in 1 .. done /\ outbox'[c][j] = Text(asked'[c][rep[j]])
  <2>1. done <= a
    BY <1>0, <1>1 DEF Order
  <2>2. \A x \in 1 .. done : asked'[c][x] = asked[c][x]
    BY <1>2, <1>5, <2>1
  <2> QED
    BY <1>1, <1>2, <1>10, <2>1, <2>2 DEF Order
<1>14. Answering(c)' /\ Parses(String)' =>
          done # 0 /\ String' = Text(asked'[c][done]) /\ \A j \in Replies(c)' : rep[j] < done
  <2>1. Answering(c)' /\ Parses(String)' => Answering(c) /\ Parses(String) /\ String' = String
    BY DEF Answering, Parses, String
  <2>2. done # 0 => asked'[c][done] = asked[c][done]
    BY <1>0, <1>1, <1>2, <1>5 DEF Order
  <2> QED
    BY <1>1, <1>10, <2>1, <2>2 DEF Order
<1>15. Order(c, rep, done, req2)'
  BY <1>1, <1>5, <1>10, <1>11, <1>12, <1>13, <1>14 DEF Order
<1> QED
  BY <1>6, <1>15 DEF Ordered

\* What is received begins with a request, whose text is then the string in the buffer, or with
\* the rest of one, which does not parse.
LEMMA WhatIsReceived ==
    ASSUME Orderly, TInv, TInv', NEW c \in Clients, NEW n \in 1 .. Len(inbox[c]),
           n <= BuffSize, n = Len(inbox[c]) \/ n = BuffSize,
           rx_buff' = Overwritten(SubSeq(inbox[c], 1, n))
    PROVE  /\ \A q \in Requests : Comes(c, 1, q) => String' = Text(q)
           /\ 1 \notin Starts(c) => ~ Parses(String)'
<1>1. inbox[c] \in Seq(Pieces) /\ Len(inbox[c]) \in Nat /\ BuffSize \in Nat /\ n \in Nat
  BY JSONServerAssumption DEF TInv
<1>2. \A i \in 1 .. n : i \in 1 .. BuffSize /\ rx_buff'[i] = inbox[c][i]
  <2>1. Len(SubSeq(inbox[c], 1, n)) = n /\ \A i \in 1 .. n : SubSeq(inbox[c], 1, n)[i] = inbox[c][i]
    BY <1>1
  <2> DEFINE s == SubSeq(inbox[c], 1, n)
  <2> HIDE DEF s
  <2>2. Len(s) = n /\ (\A i \in 1 .. n : s[i] = inbox[c][i]) /\ rx_buff' = Overwritten(s)
    BY <2>1 DEF s
  <2> QED
    BY <1>1, <2>2 DEF Overwritten
<1>3. rx_buff' \in [1 .. BuffSize -> Pieces \cup {Junk}] /\ String' = StringIn(rx_buff')
  BY DEF TInv, String, StringIn
<1>4. ASSUME NEW q \in Requests, Comes(c, 1, q) PROVE String' = Text(q)
  <2>1. /\ q.len \in 1 .. BuffSize /\ q.len \in Nat /\ q.id \in Nat \ {0}
        /\ 1 + q.len <= Len(inbox[c]) /\ inbox[c][1 + q.len] = Nul
        /\ \A i \in 1 .. q.len : inbox[c][1 + i - 1] = <<q.id, i>>
    BY <1>4, JSONServerAssumption DEF Comes
  <2>2. \A i \in 1 .. q.len : rx_buff'[i] = <<q.id, i>>
    <3> SUFFICES ASSUME NEW i \in 1 .. q.len PROVE rx_buff'[i] = <<q.id, i>>
      OBVIOUS
    <3>1. 1 + i - 1 = i /\ i \in 1 .. n
      BY <1>1, <2>1
    <3> QED
      BY <1>2, <2>1, <3>1
  <2>3. q.len + 1 <= BuffSize => rx_buff'[q.len + 1] = Nul
    <3>1. q.len + 1 <= BuffSize => q.len + 1 \in 1 .. n /\ 1 + q.len = q.len + 1
      BY <1>1, <2>1
    <3> QED
      BY <1>2, <2>1, <3>1
  <2>4. \A i \in 1 .. (q.len + 1) - 1 : rx_buff'[i] # Nul
    <3>1. (q.len + 1) - 1 = q.len /\ \A i \in 1 .. q.len : <<q.id, i>> # Nul
      BY <2>1 DEF Nul
    <3> QED
      BY <2>2, <3>1
  <2>5. q.len + 1 \in 1 .. BuffSize + 1
    BY <1>1, <2>1
  <2>6. String' = [i \in 1 .. (q.len + 1) - 1 |-> rx_buff'[i]]
    BY <1>3, <2>3, <2>4, <2>5, StringFacts
  <2>7. (q.len + 1) - 1 = q.len
    BY <2>1
  <2> QED
    BY <2>2, <2>6, <2>7 DEF Text
<1>5. ASSUME 1 \notin Starts(c) PROVE ~ Parses(String)'
  <2>1. 1 \in 1 .. n /\ 1 \in 1 .. Len(inbox[c])
    BY <1>1
  <2>2. rx_buff'[1] = inbox[c][1] /\ inbox[c][1][2] # 1
    BY <1>2, <1>5, <2>1 DEF Starts
  <2>3. SUFFICES ASSUME Parses(String') PROVE FALSE
    BY DEF Parses
  <2>4. String' # <<>> /\ String' \in Messages
    BY <1>3, <2>3, StringFacts DEF Parses
  <2>5. 1 \in 1 .. Len(String')
    BY <2>4 DEF Messages
  <2>6. String'[1][2] = 1
    BY <2>3, <2>5 DEF Parses
  <2>7. String'[1] = rx_buff'[1]
    BY <1>3, <2>4, StringFacts
  <2> QED
    BY <2>2, <2>6, <2>7
<1> QED
  BY <1>4, <1>5

LEMMA PiecesReceived ==
    ASSUME Orderly, TInv, TInv', NEW c \in Clients, Ordered(c), Recv(c) PROVE Ordered(c)'
<1>1. PICK rep \in Positions, done \in Nat, req \in Positions : Order(c, rep, done, req)
  BY DEF Ordered
<1>2. PICK n \in 1 .. Len(inbox[c]) :
         /\ n <= BuffSize /\ (n = Len(inbox[c]) \/ n = BuffSize)
         /\ rx_buff' = Overwritten(SubSeq(inbox[c], 1, n))
         /\ inbox' = [inbox EXCEPT ![c] = SubSeq(inbox[c], n + 1, Len(inbox[c]))]
  BY RecvFacts DEF Orderly
<1>3. UNCHANGED <<asked, outbox>>
  BY DEF Recv, net
<1>4. inbox[c] \in Seq(Pieces) /\ Len(inbox[c]) \in Nat /\ n \in Nat \ {0} /\ n <= Len(inbox[c])
  BY <1>2 DEF TInv
<1>5. /\ Len(inbox'[c]) = Len(inbox[c]) - n
      /\ \A k \in 1 .. Len(inbox[c]) - n : inbox'[c][k] = inbox[c][k + n]
  <2>1. inbox'[c] = SubSeq(inbox[c], n + 1, Len(inbox[c]))
    BY <1>2 DEF TInv
  <2> QED
    BY <1>4, <2>1
<1>6. \A k \in Starts(c)' : k \in Nat /\ k + n \in Starts(c) /\ 1 < k + n
  BY <1>4, <1>5 DEF Starts
<1>7. ASSUME NEW k \in Starts(c)', NEW q \in Requests, Comes(c, k + n, q) PROVE Comes(c, k, q)'
  <2>1. k \in Nat \ {0} /\ q.len \in Nat \ {0}
    BY <1>4, <1>5, JSONServerAssumption DEF Starts
  <2>2. k + n + q.len <= Len(inbox[c])
    BY <1>7 DEF Comes
  <2>3. k + q.len <= Len(inbox'[c]) /\ k + q.len \in 1 .. Len(inbox[c]) - n /\ (k + q.len) + n = k + n + q.len
    BY <1>4, <1>5, <2>1, <2>2
  <2>4. inbox'[c][k + q.len] = Nul
    BY <1>5, <1>7, <2>3 DEF Comes
  <2>5. \A i \in 1 .. q.len : k + i - 1 \in 1 .. Len(inbox[c]) - n /\ (k + i - 1) + n = k + n + i - 1
    BY <1>4, <2>1, <2>3
  <2>6. \A i \in 1 .. q.len : inbox'[c][k + i - 1] = <<q.id, i>>
    BY <1>5, <1>7, <2>5 DEF Comes
  <2> QED
    BY <2>3, <2>4, <2>6 DEF Comes
<1>8. PICK req2 \in Positions : \A k \in Nat : req2[k] = req[k + n]
  <2>1. [k \in Nat |-> req[k + n]] \in Positions
    BY <1>4 DEF Positions
  <2> QED
    BY <2>1
<1>9. PICK d \in Nat :
         /\ done <= d /\ d <= Len(asked[c])
         /\ 1 \in Starts(c) => d = req[1] /\ done < d /\ d \in 1 .. Len(asked[c]) /\ Comes(c, 1, asked[c][d])
         /\ 1 \notin Starts(c) => d = done
  <2>1. 1 \in Starts(c) => req[1] \in done + 1 .. Len(asked[c]) /\ Comes(c, 1, asked[c][req[1]])
    BY <1>1 DEF Order
  <2>2. done <= Len(asked[c]) /\ Len(asked[c]) \in Nat
    BY <1>1 DEF Order, TInv
  <2> QED
    BY <2>1, <2>2
<1>10. Replies(c)' = Replies(c) /\ \A j \in Replies(c) : rep[j] \in 1 .. done
  BY <1>1, <1>3 DEF Replies, Order
<1>11. Climbs(Starts(c)', req2)
  <2> SUFFICES ASSUME NEW i \in Starts(c)', NEW j \in Starts(c)', i < j PROVE req2[i] < req2[j]
    BY DEF Climbs
  <2>1. i + n \in Starts(c) /\ j + n \in Starts(c) /\ i + n < j + n
    BY <1>4, <1>6
  <2> QED
    BY <1>1, <1>6, <1>8, <2>1 DEF Order, Climbs
<1>12. \A k \in Starts(c)' : req2[k] \in d + 1 .. Len(asked'[c]) /\ Comes(c, k, asked[c][req2[k]])'
  <2> SUFFICES ASSUME NEW k \in Starts(c)'
               PROVE  req2[k] \in d + 1 .. Len(asked'[c]) /\ Comes(c, k, asked[c][req2[k]])'
    OBVIOUS
  <2>1. k + n \in Starts(c) /\ req2[k] = req[k + n] /\ 1 < k + n
    BY <1>6, <1>8
  <2>2. req[k + n] \in done + 1 .. Len(asked[c]) /\ Comes(c, k + n, asked[c][req[k + n]])
    BY <1>1, <2>1 DEF Order
  <2>3. 1 \in Starts(c) => req[1] < req[k + n]
    BY <1>1, <2>1 DEF Order, Climbs
  <2>4. req[k + n] \in d + 1 .. Len(asked[c])
    BY <1>9, <2>2, <2>3
  <2>5. asked[c][req[k + n]] \in Requests
    <3>1. asked[c] \in Seq(Requests) /\ req[k + n] \in 1 .. Len(asked[c])
      BY <2>2 DEF TInv
    <3> QED
      BY <3>1
  <2>6. PICK q \in Requests : q = asked[c][req[k + n]]
    BY <2>5
  <2>7. Comes(c, k, q)'
    BY <1>7, <2>1, <2>2, <2>6
  <2>8. Comes(c, k, asked[c][req2[k]])'
    BY <1>3, <2>1, <2>6, <2>7 DEF Comes
  <2> QED
    BY <1>3, <2>1, <2>4, <2>8
<1>13. Parses(String)' => d # 0 /\ String' = Text(asked'[c][d]) /\ \A j \in Replies(c)' : rep[j] < d
  <2>1. /\ \A q \in Requests : Comes(c, 1, q) => String' = Text(q)
        /\ 1 \notin Starts(c) => ~ Parses(String)'
    BY <1>2, WhatIsReceived
  <2> SUFFICES ASSUME 1 \in Starts(c)
               PROVE  d # 0 /\ String' = Text(asked'[c][d]) /\ \A j \in Replies(c)' : rep[j] < d
    BY <2>1
  <2>2. d \in 1 .. Len(asked[c]) /\ done < d /\ Comes(c, 1, asked[c][d])
    BY <1>9
  <2>3. asked[c][d] \in Requests
    BY <2>2 DEF TInv
  <2>4. String' = Text(asked[c][d])
    BY <2>1, <2>2, <2>3
  <2>5. \A j \in Replies(c)' : rep[j] < d
    BY <1>9, <1>10, <2>2
  <2> QED
    BY <1>3, <2>2, <2>4, <2>5
<1>14. \A j \in Replies(c)' : rep[j] \in 1 .. d /\ outbox'[c][j] = Text(asked'[c][rep[j]])
  BY <1>1, <1>3, <1>9, <1>10 DEF Order
<1>15. Order(c, rep, d, req2)'
  BY <1>1, <1>3, <1>9, <1>10, <1>11, <1>12, <1>13, <1>14 DEF Order
<1> QED
  BY <1>8, <1>9, <1>15 DEF Ordered

LEMMA NextInOrder == ASSUME Orderly, IInv, TInv, TInv', InOrder, [Next]_vars PROVE InOrder'
<1> USE DEF start, loop, net
<1>0. /\ Types /\ \A c \in Clients : Ordered(c)
      /\ inbox \in [Clients -> Seq(Pieces)] /\ outbox \in [Clients -> Seq(Messages)]
      /\ asked \in [Clients -> Seq(Requests)]
      /\ "free" \notin Clients
  BY NoClient DEF IInv, TInv, InOrder
<1> SUFFICES ASSUME NEW c \in Clients PROVE Ordered(c)'
  BY DEF InOrder
<1>1. ASSUME asked'[c] = asked[c], inbox'[c] = inbox[c], outbox'[c] = outbox[c],
             Answering(c)' => Answering(c) /\ rx_buff' = rx_buff
      PROVE  Ordered(c)'
  BY <1>0, <1>1, SameClient
<1>2. CASE \/ StartFails \/ SetRunning \/ SelectFails \/ Select \/ AcceptFails \/ LoopEnd
           \/ (\E d \in Clients : RecvError(d) \/ Connect(d)) \/ UNCHANGED vars
  <2>1. UNCHANGED <<asked, inbox, outbox, fd, rx_buff>>
    BY <1>2 DEF StartFails, SetRunning, SelectFails, Select, AcceptFails, LoopEnd, RecvError, Connect, vars
  <2>2. Answering(c)' => Answering(c)
    BY <1>2, <2>1 DEF StartFails, SetRunning, SelectFails, Select, AcceptFails, LoopEnd, RecvError, Connect, vars,
                      Answering, At
  <2> QED
    BY <1>1, <2>1, <2>2
<1>3. CASE StartServer \/ OtherOpens
  <2>1. Min(Free) \in Fds /\ fd[Min(Free)] = "free"
    BY <1>3, FreeFd DEF StartServer, OtherOpens
  <2>2. UNCHANGED <<asked, inbox, outbox, rx_buff>>
    BY <1>3 DEF StartServer, OtherOpens
  <2>3. Answering(c)' => Answering(c)
    <3>1. CASE StartServer
      BY <3>1 DEF StartServer, Answering
    <3>2. CASE OtherOpens
      <4>1. pc' = pc /\ currd_it' = currd_it /\ fd' = [fd EXCEPT ![Min(Free)] = "other"]
        BY <3>2 DEF OtherOpens
      <4>2. pc = "answer" => currd_it \in Fds /\ fd[currd_it] \in Clients
        BY DEF TInv
      <4> QED
        BY <1>0, <2>1, <4>1, <4>2 DEF Answering, Types
    <3> QED
      BY <1>3, <3>1, <3>2
  <2> QED
    BY <1>1, <2>2, <2>3
<1>4. CASE Accept
  <2>1. PICK d \in Clients : Send(d, Confirmed) /\ UNCHANGED <<asked, inbox, rx_buff>>
    BY <1>4 DEF Accept, AcceptConnection, IInv, Queued
  <2>2. ~ Answering(c)'
    BY <1>4 DEF Accept, AcceptConnection, Answering
  <2>3. outbox'[c] = outbox[c] \/ (Confirmed \in Messages /\ outbox'[c] = Append(outbox[c], Confirmed))
    BY <1>0, <2>1 DEF Send, Confirmed, Messages
  <2>4. CASE outbox'[c] = outbox[c]
    BY <1>1, <2>1, <2>2, <2>4
  <2>5. CASE Confirmed \in Messages /\ outbox'[c] = Append(outbox[c], Confirmed)
    BY <1>0, <2>1, <2>2, <2>5, MessageAppended
  <2> QED
    BY <2>3, <2>4, <2>5
<1>5. ASSUME NEW d \in Clients, RecvClosed(d) PROVE Ordered(c)'
  <2>1. /\ ~ Answering(c)' /\ inbox' = inbox /\ inbox[d] = <<>> /\ rx_buff' = rx_buff
        /\ outbox' = [outbox EXCEPT ![d] = <<>>] /\ asked' = [asked EXCEPT ![d] = <<>>]
    BY <1>5 DEF RecvClosed, Forget, At, Answering
  <2>2. CASE c = d
    <3>1. inbox'[c] = <<>> /\ outbox'[c] = <<>>
      BY <1>0, <2>1, <2>2
    <3> QED
      BY <2>1, <3>1, NothingUnderWay
  <2>3. CASE c # d
    BY <1>0, <1>1, <2>1, <2>3
  <2> QED
    BY <2>2, <2>3
<1>6. ASSUME NEW d \in Clients, Recv(d) PROVE Ordered(c)'
  <2>1. CASE c = d
    BY <1>0, <1>6, <2>1, PiecesReceived
  <2>2. CASE c # d
    <3>1. /\ pc' = "answer" /\ fd' = fd /\ currd_it' = currd_it /\ fd[currd_it] = d
          /\ UNCHANGED <<asked, outbox>>
      BY <1>6 DEF Recv, At
    <3>2. inbox'[c] = inbox[c] /\ ~ Answering(c)'
      BY <1>0, <1>6, <2>2, <3>1, RecvFacts DEF Answering
    <3> QED
      BY <1>1, <3>1, <3>2
  <2> QED
    BY <2>1, <2>2
<1>7. CASE Answer \/ Killed
  <2>1. /\ pc = "answer" /\ UNCHANGED <<asked, inbox, rx_buff, fd>> /\ fd[currd_it] \in Clients
        /\ UNCHANGED outbox \/ (Parses(String) /\ Send(fd[currd_it], String))
    BY <1>7 DEF Answer, Killed, TInv
  <2>2. ~ Answering(c)'
    BY <1>7 DEF Answering, Answer, Killed
  <2>3. CASE outbox'[c] = outbox[c]
    BY <1>1, <2>1, <2>2, <2>3
  <2>4. CASE outbox'[c] # outbox[c]
    <3>1. Answering(c) /\ Parses(String) /\ outbox'[c] = Append(outbox[c], String)
      BY <1>0, <2>1, <2>4 DEF Send, Answering
    <3>2. String \in Messages
      BY StringFacts DEF TInv, String, StringIn
    <3> QED
      BY <1>0, <2>1, <2>2, <3>1, <3>2, MessageAppended
  <2> QED
    BY <2>3, <2>4
<1>8. ASSUME NEW d \in Clients, NEW r \in Requests, Ask(d, r) PROVE Ordered(c)'
  <2>1. /\ UNCHANGED <<pc, currd_it, rx_buff, fd, outbox>>
        /\ inbox' = [inbox EXCEPT ![d] = inbox[d] \o Sent(r)] /\ asked' = [asked EXCEPT ![d] = Append(asked[d], r)]
    BY <1>8 DEF Ask
  <2>2. CASE c # d
    BY <1>0, <1>1, <2>1, <2>2 DEF Answering
  <2>3. CASE c = d
    <3>1. inbox'[c] = inbox[c] \o Sent(r) /\ asked'[c] = Append(asked[c], r) /\ outbox'[c] = outbox[c]
      BY <1>0, <2>1, <2>3
    <3> QED
      BY <1>0, <2>1, <3>1, RequestSent
  <2> QED
    BY <2>2, <2>3
<1>9. ASSUME NEW d \in Clients, ReadMessage(d) PROVE Ordered(c)'
  <2>1. /\ outbox[d] # <<>> /\ outbox' = [outbox EXCEPT ![d] = Tail(outbox[d])]
        /\ asked' = [asked EXCEPT ![d] = IF Head(outbox[d]) = Confirmed \/ asked[d] = <<>>
                                         THEN asked[d] ELSE Tail(asked[d])]
        /\ UNCHANGED <<pc, currd_it, rx_buff, fd, inbox>>
    BY <1>9 DEF ReadMessage
  <2>2. CASE c # d
    BY <1>0, <1>1, <2>1, <2>2 DEF Answering
  <2>3. CASE c = d
    <3>1. /\ outbox[c] # <<>> /\ outbox'[c] = Tail(outbox[c])
          /\ asked'[c] = IF Head(outbox[c]) = Confirmed \/ asked[c] = <<>> THEN asked[c] ELSE Tail(asked[c])
      BY <1>0, <2>1, <2>3
    <3> QED
      BY <1>0, <2>1, <3>1, MessageTaken
  <2> QED
    BY <2>2, <2>3
<1>10. ASSUME NEW d \in Clients, Leave(d) PROVE Ordered(c)'
  <2>1. outbox' = [outbox EXCEPT ![d] = <<>>] /\ UNCHANGED <<pc, currd_it, rx_buff, fd, inbox, asked>>
    BY <1>10 DEF Leave
  <2>2. CASE c # d
    BY <1>0, <1>1, <2>1, <2>2 DEF Answering
  <2>3. CASE c = d
    BY <1>0, <2>1, <2>3, RepliesLost
  <2> QED
    BY <2>2, <2>3
<1> QED
  BY <1>2, <1>3, <1>4, <1>5, <1>6, <1>7, <1>8, <1>9, <1>10 DEF Next, ThreadStep, ClientStep

LEMMA InitInOrder == Init => InOrder
<1> SUFFICES ASSUME Init, NEW c \in Clients PROVE Ordered(c)
  BY DEF InOrder
<1> DEFINE f == [n \in Nat |-> 0]
<1>1. f \in Positions
  BY DEF Positions
<1> HIDE DEF f
<1>2. Replies(c) = {} /\ Starts(c) = {} /\ Len(asked[c]) = 0 /\ ~ Answering(c)
  BY DEF Init, Replies, Starts, Answering
<1>3. Order(c, f, 0, f)
  BY <1>2 DEF Order, Climbs
<1> QED
  BY <1>1, <1>3 DEF Ordered

LEMMA RepliesFit == TInv /\ InOrder => RepliesMatch
<1> SUFFICES ASSUME TInv, InOrder, NEW c \in Clients, NEW m \in Range(outbox[c]) \ {Confirmed}
             PROVE  \E q \in Range(asked[c]) : m = Text(q)
  BY DEF RepliesMatch
<1>1. PICK i \in 1 .. Len(outbox[c]) : m = outbox[c][i]
  BY DEF Range, TInv
<1>2. i \in Replies(c)
  BY <1>1 DEF Replies
<1>3. PICK rep \in Positions, done \in Nat, req \in Positions : Order(c, rep, done, req)
  BY DEF InOrder, Ordered
<1>4. rep[i] \in 1 .. done /\ done <= Len(asked[c]) /\ m = Text(asked[c][rep[i]])
  BY <1>1, <1>2, <1>3 DEF Order
<1>5. asked[c] \in Seq(Requests) /\ rep[i] \in 1 .. Len(asked[c])
  BY <1>4 DEF TInv
<1>6. asked[c][rep[i]] \in Range(asked[c])
  BY <1>5 DEF Range
<1> QED
  BY <1>4, <1>6

\* Each reply is to a request of its client, although all requests go through one buffer that
\* is never cleared and is too small for several of them: for any number of clients that send
\* any number of requests of any lengths before they wait, and through every reset and
\* reconnection, if requests are closed by a NUL and not cut on their way.
THEOREM RepliesAlwaysMatch == ASSUME Orderly PROVE Spec => []RepliesMatch
<1>1. Init => InOrder
  BY InitInOrder
<1>2. ASSUME IInv, TInv, InOrder, [Next]_vars PROVE InOrder'
  <2>1. TInv'
    BY <1>2, NextTInv
  <2> QED
    BY <1>2, <2>1, NextInOrder
<1>3. TInv /\ InOrder => RepliesMatch
  BY RepliesFit
<1> QED
  BY <1>1, <1>2, <1>3, TypeInvariant, PTL DEF Spec
=============================================================================
