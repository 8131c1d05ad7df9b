------------------------------ MODULE ExternalIO ------------------------------
(***************************************************************************)
(* The outside world of a peripheral (cm2350/ppc_peripherals.py, class     *)
(* ExternalIOPeripheral): the main thread, which transmits objects through *)
(* an internal socket and takes received ones out of the core's queue; the *)
(* IO thread, which selects among the internal socket, the server socket   *)
(* and its clients; and the clients themselves, which connect, send, read  *)
(* and close.                                                              *)
(*                                                                         *)
(* Connections are TCP: a message travels as two halves of its length and  *)
(* its body, which may arrive one by one, and a client may close at any    *)
(* point.  Sending to a connection that the client has closed works or     *)
(* raises OSError.  A client connects once: who comes back is another one. *)
(* A reset of the core touches none of this.                               *)
(***************************************************************************)
EXTENDS Naturals, FiniteSets, Sequences, SequencesExt

CONSTANTS
  Clients,   \* the clients
  MaxUp,     \* bound: how many messages each client sends
  MaxDown,   \* bound: how many messages the peripheral transmits
  Buffer     \* how many messages a socket holds before its sender blocks

MAIN == "main"        \* _io_thread_rx_sock
SERVER == "server"    \* _server

ASSUME ExternalIOAssumption ==
  /\ MaxUp \in [Clients -> Nat] /\ MaxDown \in Nat /\ Buffer \in Nat \ {0}
  /\ MAIN \notin Clients /\ SERVER \notin Clients

Half == 0             \* half of a length; the body of message n is n
Framed(n) == <<Half, Half, n>>

VARIABLES
  io,        \* the IO thread: see TypeOK
  inputs,    \* inputs: the sockets it selects from
  clients,   \* _clients
  backlog,   \* connections that wait for accept
  dropped,   \* clients whose connection the IO thread gave up
  closed,    \* clients that have closed their end
  wire, up,  \* per client: what it sent and is under way, and what has arrived
  down,      \* per client: the messages for it that it has yet to read
  internal,  \* the messages in the internal socket
  shut,      \* shutdown was called
  queue,     \* external_io: pairs of a client and a message
  done,      \* history: per client the messages processReceivedData has got
  sent,      \* history: per client the number of messages it sent
  made,      \* history: the number of messages transmitted
  first,     \* history: per client the messages relayed before it was accepted
  got        \* history: per client the messages sent to it

thread == <<io, inputs, clients, backlog, dropped>>
client == <<closed, wire, sent>>
vars == <<thread, client, up, down, internal, shut, queue, done, made, first, got>>

\* the elements of s that are in S, in their order
Places(s, S) == {i \in 1 .. Len(s) : s[i] \in S}
UpTo(P, i) == Cardinality({j \in P : j <= i})
Picked(s, S) ==
  LET P == Places(s, S) IN [k \in 1 .. Cardinality(P) |-> s[CHOOSE i \in P : UpTo(P, i) = k]]

-----------------------------------------------------------------------------
Init ==
  /\ io = [pc |-> "select", ready |-> <<>>, to |-> <<>>, msg |-> 0]
  /\ inputs = <<MAIN, SERVER>> /\ clients = <<>> /\ backlog = <<>>
  /\ dropped = {} /\ closed = {}
  /\ wire = [c \in Clients |-> <<>>] /\ up = [c \in Clients |-> <<>>]
  /\ down = [c \in Clients |-> <<>>]
  /\ internal = <<>> /\ shut = FALSE /\ queue = <<>>
  /\ done = [c \in Clients |-> <<>>] /\ sent = [c \in Clients |-> 0]
  /\ made = 0
  /\ first = [c \in Clients |-> 0] /\ got = [c \in Clients |-> <<>>]

-----------------------------------------------------------------------------
(* The main thread.                                                        *)

\* transmit
Transmit ==
  /\ ~shut /\ made < MaxDown /\ Len(internal) < Buffer
  /\ made' = made + 1
  /\ internal' = Append(internal, made + 1)
  /\ UNCHANGED <<thread, client, up, down, shut, queue, done, first, got>>

\* one turn of the loop of processIO
ProcessIO ==
  /\ queue # <<>>
  /\ queue' = Tail(queue)
  /\ done' = [done EXCEPT ![Head(queue)[1]] = Append(@, Head(queue)[2])]
  /\ UNCHANGED <<thread, client, up, down, internal, shut, made, first, got>>

Shutdown ==
  /\ ~shut /\ shut' = TRUE
  /\ UNCHANGED <<thread, client, up, down, internal, queue, done, made, first, got>>

-----------------------------------------------------------------------------
(* A client.                                                               *)

Connected(c) == c \in Range(backlog) \union Range(clients) \union dropped

Connect(c) ==
  /\ ~Connected(c) /\ c \notin closed /\ ~shut
  /\ backlog' = Append(backlog, c)
  /\ UNCHANGED <<io, inputs, clients, dropped, client, up, down, internal, shut, queue, done, made, first, got>>

\* ExternalIOClient.send
Send(c) ==
  /\ Connected(c) /\ c \notin closed \union dropped /\ sent[c] < MaxUp[c]
  /\ sent' = [sent EXCEPT ![c] = @ + 1]
  /\ wire' = [wire EXCEPT ![c] = @ \o Framed(sent'[c])]
  /\ UNCHANGED <<thread, closed, up, down, internal, shut, queue, done, made, first, got>>

\* ExternalIOClient.close
Close(c) ==
  /\ Connected(c) /\ c \notin closed
  /\ closed' = closed \union {c}
  /\ UNCHANGED <<thread, wire, sent, up, down, internal, shut, queue, done, made, first, got>>

\* ExternalIOClient.recv
Read(c) ==
  /\ c \notin closed /\ down[c] # <<>>
  /\ down' = [down EXCEPT ![c] = Tail(@)]
  /\ UNCHANGED <<thread, client, up, internal, shut, queue, done, made, first, got>>

\* the network: the next part of what the client sent arrives
Arrive(c) ==
  /\ wire[c] # <<>>
  /\ up' = [up EXCEPT ![c] = Append(@, Head(wire[c]))]
  /\ wire' = [wire EXCEPT ![c] = Tail(@)]
  /\ UNCHANGED <<thread, closed, sent, down, internal, shut, queue, done, made, first, got>>

-----------------------------------------------------------------------------
(* The IO thread.                                                          *)

EndOfStream(c) == c \in closed /\ wire[c] = <<>> /\ up[c] = <<>>
Readable(s) ==
  CASE s = MAIN -> internal # <<>> \/ shut
    [] s = SERVER -> backlog # <<>>
    [] OTHER -> up[s] # <<>> \/ EndOfStream(s)

\* select
Select ==
  /\ io.pc = "select"
  /\ \E i \in 1 .. Len(inputs) : Readable(inputs[i])
  /\ io' = [io EXCEPT !.pc = "next", !.ready = Picked(inputs, {s \in Range(inputs) : Readable(s)})]
  /\ UNCHANGED <<inputs, clients, backlog, dropped, client, up, down, internal, shut, queue, done, made, first, got>>

At(pc, s) == io.pc = pc /\ io.ready # <<>> /\ Head(io.ready) = s

\* on to the next socket of pending_inputs, or to select again
Onward ==
  [io EXCEPT !.ready = Tail(@), !.to = <<>>, !.msg = 0,
             !.pc = IF Len(io.ready) = 1 THEN "select" ELSE "next"]

Exit == io' = [pc |-> "exited", ready |-> <<>>, to |-> <<>>, msg |-> 0]

\* a message of the main thread is to be sent to all clients
Relay ==
  /\ At("next", MAIN) /\ internal # <<>>
  /\ internal' = Tail(internal)
  /\ io' = [io EXCEPT !.pc = "send", !.to = clients, !.msg = Head(internal)]
  /\ UNCHANGED <<inputs, clients, backlog, dropped, client, up, down, shut, queue, done, made, first, got>>

\* the internal socket is closed
LostMain ==
  /\ At("next", MAIN) /\ shut
  /\ Exit
  /\ UNCHANGED <<inputs, clients, backlog, dropped, client, up, down, internal, shut, queue, done, made, first, got>>

\* mutant: a client that has gone ends the round for the others too
SendOrGiveUp ==
  /\ io.pc = "send" /\ io.to # <<>>
  /\ LET c == Head(io.to) IN
     \/ /\ c \notin closed /\ Len(down[c]) < Buffer
        /\ down' = [down EXCEPT ![c] = Append(@, io.msg)]
        /\ got' = [got EXCEPT ![c] = Append(@, io.msg)]
        /\ io' = [io EXCEPT !.to = Tail(@)]
     \/ c \in closed /\ io' = [io EXCEPT !.to = <<>>] /\ UNCHANGED <<down, got>>
  /\ UNCHANGED <<inputs, clients, backlog, dropped, client, up, internal, shut, queue, done, made, first>>

\* _sendData, one client: it waits for room; a closed connection takes the message
\* to nowhere, or raises an OSError, which ends the thread
SendOne ==
  /\ io.pc = "send" /\ io.to # <<>>
  /\ LET c == Head(io.to) IN
     \/ /\ c \notin closed /\ Len(down[c]) < Buffer
        /\ down' = [down EXCEPT ![c] = Append(@, io.msg)]
        /\ got' = [got EXCEPT ![c] = Append(@, io.msg)]
        /\ io' = [io EXCEPT !.to = Tail(@)]
     \/ c \in closed /\ io' = [io EXCEPT !.to = Tail(@)] /\ UNCHANGED <<down, got>>
     \/ c \in closed /\ Exit /\ UNCHANGED <<down, got>>
  /\ UNCHANGED <<inputs, clients, backlog, dropped, client, up, internal, shut, queue, done, made, first>>

Relayed ==
  /\ io.pc = "send" /\ io.to = <<>>
  /\ io' = Onward
  /\ UNCHANGED <<inputs, clients, backlog, dropped, client, up, down, internal, shut, queue, done, made, first, got>>

\* mutant: the new client is not selected from
AcceptDeaf ==
  /\ At("next", SERVER)
  /\ clients' = Append(clients, Head(backlog))
  /\ backlog' = Tail(backlog)
  /\ first' = [first EXCEPT ![Head(backlog)] = made - Len(internal)]
  /\ io' = Onward
  /\ UNCHANGED <<inputs, dropped, client, up, down, internal, shut, queue, done, made, got>>

Accept ==
  /\ At("next", SERVER)
  /\ LET c == Head(backlog) IN
     /\ clients' = Append(clients, c) /\ inputs' = Append(inputs, c)
     /\ backlog' = Tail(backlog)
     /\ first' = [first EXCEPT ![c] = made - Len(internal)]
  /\ io' = Onward
  /\ UNCHANGED <<dropped, client, up, down, internal, shut, queue, done, made, got>>

\* _recvData: the length
RecvLength(c) ==
  /\ At("next", c) /\ Len(up[c]) >= 2
  /\ up' = [up EXCEPT ![c] = SubSeq(@, 3, Len(@))]
  /\ io' = [io EXCEPT !.pc = "body"]
  /\ UNCHANGED <<inputs, clients, backlog, dropped, client, down, internal, shut, queue, done, made, first, got>>

\* mutant: the newest message is put in front
RecvBodyFirst(c) ==
  /\ At("body", c) /\ up[c] # <<>>
  /\ up' = [up EXCEPT ![c] = Tail(@)]
  /\ queue' = <<<<c, Head(up[c])>>>> \o queue
  /\ io' = Onward
  /\ UNCHANGED <<inputs, clients, backlog, dropped, client, down, internal, shut, done, made, first, got>>

\* _recvData: the body; receive, putIO
RecvBody(c) ==
  /\ At("body", c) /\ up[c] # <<>>
  /\ up' = [up EXCEPT ![c] = Tail(@)]
  /\ queue' = Append(queue, <<c, Head(up[c])>>)
  /\ io' = Onward
  /\ UNCHANGED <<inputs, clients, backlog, dropped, client, down, internal, shut, done, made, first, got>>

\* The length is incomplete, or the client has closed (what it sent before may be
\* lost then): the connection is given up.
Drop(c) ==
  /\ \/ At("next", c) /\ (Len(up[c]) < 2 \/ c \in closed)
     \/ At("body", c) /\ c \in closed
  /\ clients' = Picked(clients, Range(clients) \ {c})
  /\ inputs' = Picked(inputs, Range(inputs) \ {c})
  /\ dropped' = dropped \union {c}
  /\ up' = [up EXCEPT ![c] = <<>>] /\ wire' = [wire EXCEPT ![c] = <<>>]
  /\ io' = Onward
  /\ UNCHANGED <<backlog, closed, sent, down, internal, shut, queue, done, made, first, got>>

-----------------------------------------------------------------------------
IoStep ==
  \/ Select \/ Relay \/ LostMain \/ SendOne \/ Relayed \/ Accept
  \/ \E c \in Clients : RecvLength(c) \/ RecvBody(c) \/ Drop(c)

Next ==
  \/ Transmit \/ ProcessIO \/ Shutdown \/ IoStep
  \/ \E c \in Clients : Connect(c) \/ Send(c) \/ Close(c) \/ Read(c) \/ Arrive(c)

\* The IO thread and the core go on, the network delivers, and a client reads what it
\* is sent.  Nobody has to connect, send, transmit or close.
Fairness ==
  /\ WF_vars(IoStep) /\ WF_vars(ProcessIO)
  /\ \A c \in Clients : WF_vars(Arrive(c)) /\ WF_vars(Read(c))

Spec == Init /\ [][Next]_vars /\ Fairness

-----------------------------------------------------------------------------
(* Properties.                                                             *)

TypeOK ==
  /\ io.pc \in {"select", "next", "send", "body", "exited"}
  /\ io.pc \in {"next", "send", "body"} <=> io.ready # <<>>
  /\ Range(io.ready) \subseteq Range(inputs)
  /\ Range(io.to) \subseteq Range(clients) /\ io.msg \in 0 .. made
  /\ inputs = <<MAIN, SERVER>> \o clients
  /\ Range(clients) \union Range(backlog) \union dropped \union closed \subseteq Clients
  /\ Range(clients) \intersect (Range(backlog) \union dropped) = {}
  /\ \A c \in Clients :
       /\ wire[c] \in Seq(0 .. sent[c]) /\ up[c] \in Seq(0 .. sent[c])
       /\ Len(down[c]) <= Buffer /\ sent[c] \in 0 .. MaxUp[c]
  /\ Len(internal) <= Buffer /\ shut \in BOOLEAN
  /\ queue \in Seq(Clients \X (Nat \ {0})) /\ made \in 0 .. MaxDown

Numbers(n) == [i \in 1 .. n |-> i]
Bodies(s) == Picked(s, Nat \ {Half})
Queued(c) ==
  LET mine == Picked(queue, {c} \X Nat) IN [i \in 1 .. Len(mine) |-> mine[i][2]]

\* The state has its types, and the peripheral gets the messages of a client in the
\* order in which the client sent them, each once; none is lost but those that are
\* under way when the connection ends.
UpInOrder ==
  /\ TypeOK
  /\ \A c \in Clients :
       LET all == done[c] \o Queued(c) \o Bodies(up[c] \o wire[c]) IN
       IF c \in dropped THEN IsPrefix(all, Numbers(sent[c])) ELSE all = Numbers(sent[c])

\* A client gets what the peripheral transmits, from the first message relayed after
\* it was accepted, without a gap, whatever other clients do.
DownWithoutGap ==
  \A c \in Range(clients) \ closed :
    io.pc # "exited" =>
      LET waits == io.pc = "send" /\ c \in Range(io.to)
          relayed == made - Len(internal) - (IF waits THEN 1 ELSE 0)
      IN  got[c] = [i \in 1 .. relayed - first[c] |-> first[c] + i]

\* Every message a client sends gets to the peripheral in the end, if the client stays,
\* nothing cuts its connection and the IO thread runs.
Delivered ==
  \A c \in Clients : \A n \in 1 .. MaxUp[c] :
    sent[c] >= n ~> Len(done[c]) >= n \/ c \in dropped \union closed \/ io.pc = "exited"

\* _io_handler: a client that has disconnected "is removed from the client socket
\* list"; the thread exits when the main thread closes the internal socket.
OnlyShutdownEnds == io.pc = "exited" => shut

=============================================================================
