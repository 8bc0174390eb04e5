------------------------------ MODULE NetServer ------------------------------
(****************************************************************************)
(* core::net::NetServer (CORE/NET/net_server.cpp): the table of connections *)
(* of a TCP or UDP server, its two indexes (by host name and by socket),    *)
(* and update(), which the application calls over and over: it accepts one  *)
(* connection, reads once from each, and drops those that were closed or    *)
(* that have been silent for too long.                                      *)
(*                                                                          *)
(* The operating system and the clients are modelled as far as the server   *)
(* can see them: handles, which are reused once closed, and what waits on   *)
(* them.  A client is an address and port, as Winsock prints them.  The     *)
(* build modelled is the Windows one, where select() ignores its first      *)
(* argument and recvfrom() leaves "addr" as it was on a TCP socket: what    *)
(* getHostName() then makes of it is any member of Garbage.                 *)
(*                                                                          *)
(* Assumed of the application: it starts a server that is not running, and  *)
(* its handler calls nothing but send() on the server.                      *)
(****************************************************************************)
EXTENDS Naturals, FiniteSets, Sequences

CONSTANTS
    Client,           \* addresses and ports of clients
    Socket,           \* the handles the system has for accepted connections
    Listener,         \* the handle of m_socket, the same after each start
    Mode,             \* the modes of the servers considered: "TCP", "UDP"
    Limit,            \* the limits of the servers considered: m_maxConnections
    Timeout,          \* m_timeoutSec, in ticks
    Garbage,          \* outcomes of getHostName on an address never filled in
    Unresolved,       \* the outcome of getHostName that is a failure
    NoSocket,         \* INVALID_SOCKET
    Nobody,           \* no client
    MaxId,            \* bound of the model: connections ever made
    MaxDials,         \* bound of the model: connections ever asked for on TCP
    MaxStarts         \* bound of the model: times the server is started

ASSUME ModeAssumption == Mode \subseteq {"TCP", "UDP"}
ASSUME LimitAssumption == Limit \subseteq Nat \ {0} /\ Timeout \in Nat
ASSUME BoundAssumption ==
    /\ MaxId \in Nat /\ MaxStarts \in Nat
    /\ MaxDials \in Nat /\ MaxDials <= MaxId
    /\ \A n \in Limit : MaxStarts * n <= MaxId
ASSUME GarbageAssumption == Garbage \subseteq Client \cup {Unresolved}
ASSUME DistinctAssumption ==
    /\ {Unresolved, Nobody} \cap Client = {} /\ Unresolved # Nobody
    /\ {Listener, NoSocket} \cap Socket = {} /\ Listener # NoSocket

NoId == 0             \* INVALID_CONNECTION_ID
Id == 1 .. MaxId

VARIABLES
    mode,             \* m_mode
    limit,            \* m_maxConnections, the same at each start
    up,               \* m_socket is valid
    conns,            \* m_connections: id -> [id, socket, host, age]
    hosts,            \* m_connectedHosts: host -> id
    socks,            \* m_connectedSockets: socket -> id
    nextId,           \* m_connectionIdNext
    at,               \* where update() is: "idle", or "read" from its snapshot on
    todo,             \* the sockets readConnections has still to look at
    starts,           \* how often the server was started
    backlog,          \* clients in the queue of the listening socket
    wire,             \* [Socket -> [peer, data, gone]]: what is behind a handle
    datagrams,        \* what waits on the UDP socket: <<sender, kind>>
    opened,           \* history: opened[id], the client connection id is of
    closes,           \* history: closes[id], calls of handler.close(id)
    dropped,          \* history: the connections stop() dropped
    heard             \* history: the last call of handler.process, <<id, sender>>

table == <<conns, hosts, socks, nextId>>
world == <<backlog, wire, datagrams>>
history == <<opened, closes, dropped, heard>>
vars == <<mode, limit, up, table, at, todo, starts, world, history>>

Free == [peer |-> Nobody, data |-> FALSE, gone |-> FALSE]
Silence == <<NoId, Nobody>>

Init ==
    /\ mode \in Mode /\ limit \in Limit
    /\ up = FALSE
    /\ conns = <<>> /\ hosts = <<>> /\ socks = <<>>
    /\ nextId = 1
    /\ at = "idle" /\ todo = {} /\ starts = 0
    /\ backlog = <<>> /\ wire = [s \in Socket |-> Free] /\ datagrams = {}
    /\ opened = [i \in Id |-> Nobody] /\ closes = [i \in Id |-> 0]
    /\ dropped = {} /\ heard = Silence

With(f, x, y) == [z \in DOMAIN f \cup {x} |-> IF z = x THEN y ELSE f[z]]
Without(f, S) == [z \in DOMAIN f \ S |-> f[z]]

TCP == mode = "TCP"
Live(c) == c.socket # NoSocket

-----------------------------------------------------------------------------
(****************************************************************************)
(* closeConnection on the connections under the keys K of a table cs.  On   *)
(* UDP the socket is the server's own and stays in the record.              *)
(****************************************************************************)
Closed(cs, K) ==
    [k \in DOMAIN cs |-> IF TCP /\ k \in K THEN [cs[k] EXCEPT !.socket = NoSocket] ELSE cs[k]]

HungUp(w, cs, K) ==
    [s \in Socket |-> IF TCP /\ \E k \in K : cs[k].socket = s THEN Free ELSE w[s]]

NotifyCloseAlways(cs, K) ==
    LET told == {cs[k].id : k \in K}
    IN closes' = [i \in Id |-> IF i \in told /\ closes[i] < 2 THEN closes[i] + 1 ELSE closes[i]]

(****************************************************************************)
(* handler.close (counted up to 2).                                         *)
(****************************************************************************)
NotifyClose(cs, K) ==
    LET told == {cs[k].id : k \in {k \in K : Live(cs[k])}}
    IN closes' = [i \in Id |-> IF i \in told /\ closes[i] < 2 THEN closes[i] + 1 ELSE closes[i]]

-----------------------------------------------------------------------------
(****************************************************************************)
(* insertConnection, once the host's name is known.                         *)
(****************************************************************************)
HasRoom == Cardinality(DOMAIN conns) < limit

NewConnection(s, h) == [id |-> nextId, socket |-> s, host |-> h, age |-> 0]

InsertedIfNew(s, h) ==
    /\ hosts' = With(hosts, h, nextId)
    /\ socks' = IF s \in DOMAIN socks THEN socks ELSE With(socks, s, nextId)
    /\ nextId' = nextId + 1
    /\ opened' = [opened EXCEPT ![nextId] = h]

Inserted(s, h) ==
    /\ hosts' = With(hosts, h, nextId)
    /\ socks' = With(socks, s, nextId)
    /\ nextId' = nextId + 1
    /\ opened' = [opened EXCEPT ![nextId] = h]

-----------------------------------------------------------------------------
Start ==
    /\ ~ up /\ at = "idle"
    /\ starts < MaxStarts
    /\ up' = TRUE
    /\ starts' = starts + 1
    /\ UNCHANGED <<mode, limit, table, at, todo, world, history>>

(****************************************************************************)
(* stop(): every connection is closed, and the handler is not told.         *)
(****************************************************************************)
StopKeepingHosts ==
    /\ up /\ at = "idle"
    /\ up' = FALSE
    /\ wire' = HungUp(wire, conns, DOMAIN conns)
    /\ dropped' = dropped \cup DOMAIN conns
    /\ conns' = <<>>
    /\ backlog' = <<>> /\ datagrams' = {}
    /\ UNCHANGED <<mode, limit, hosts, socks, nextId, at, todo, starts, opened, closes, heard>>

Stop ==
    /\ up /\ at = "idle"
    /\ up' = FALSE
    /\ wire' = HungUp(wire, conns, DOMAIN conns)
    /\ dropped' = dropped \cup DOMAIN conns
    /\ conns' = <<>> /\ hosts' = <<>>
    /\ backlog' = <<>> /\ datagrams' = {}
    /\ UNCHANGED <<mode, limit, socks, nextId, at, todo, starts, opened, closes, heard>>

-----------------------------------------------------------------------------
(****************************************************************************)
(* acceptConnections, and the list of sockets that readConnections makes    *)
(* next, in the order of the table.                                         *)
(****************************************************************************)
Snapshot(cs) ==
    IF TCP THEN {<<k, cs[k].socket>> : k \in DOMAIN cs} ELSE {<<NoId, Listener>>}

BeginRead(cs) == at' = "read" /\ todo' = Snapshot(cs) /\ heard' = Silence

AcceptNothing ==
    /\ TCP => backlog = <<>>
    /\ BeginRead(conns)
    /\ UNCHANGED <<table, world, opened, closes>>

AcceptClient(s) ==
    /\ TCP /\ backlog # <<>> /\ HasRoom
    /\ wire[s] = Free
    /\ conns' = With(conns, nextId, NewConnection(s, Head(backlog)))
    /\ Inserted(s, Head(backlog))
    /\ wire' = [wire EXCEPT ![s].peer = Head(backlog)]
    /\ backlog' = Tail(backlog)
    /\ BeginRead(conns')
    /\ UNCHANGED <<datagrams, closes>>

AcceptRefusedLeftOpen ==
    /\ TCP /\ backlog # <<>>
    /\ \E s \in Socket : wire[s] = Free /\ wire' = [wire EXCEPT ![s].peer = Head(backlog)]
    /\ backlog' = Tail(backlog)
    /\ BeginRead(conns)
    /\ UNCHANGED <<table, datagrams, opened, closes>>

(****************************************************************************)
(* The server is full, or the client is gone before the server got to it.   *)
(****************************************************************************)
AcceptRefused ==
    /\ TCP /\ backlog # <<>>
    /\ backlog' = Tail(backlog)
    /\ BeginRead(conns)
    /\ UNCHANGED <<table, wire, datagrams, opened, closes>>

(****************************************************************************)
(* select or accept fails: update returns.                                  *)
(****************************************************************************)
AcceptFails ==
    /\ up /\ at = "idle"
    /\ TCP /\ backlog # <<>>
    /\ backlog' = Tail(backlog)
    /\ UNCHANGED <<mode, limit, up, table, at, todo, starts, wire, datagrams, history>>

Accept ==
    /\ up /\ at = "idle"
    /\ AcceptNothing \/ AcceptRefused \/ \E s \in Socket : AcceptClient(s)
    /\ UNCHANGED <<mode, limit, up, starts, dropped>>

-----------------------------------------------------------------------------
(****************************************************************************)
(* One turn of the loop of readConnections: the first socket of the list.   *)
(****************************************************************************)
First(e) == e \in todo /\ \A f \in todo : e[1] <= f[1]

KeyForSocketFirst(s, h) ==
    CASE s \in DOMAIN socks -> socks[s]
      [] s \notin DOMAIN socks /\ h \in DOMAIN hosts -> hosts[h]
      [] OTHER -> NoId

(****************************************************************************)
(* The key getConnectionForHost looks up under m_connections[], NoId if it  *)
(* finds none, for a socket s and an address that getHostName reads as h.   *)
(****************************************************************************)
KeyFor(s, h) ==
    CASE h \in DOMAIN hosts -> hosts[h]
      [] h = Unresolved /\ s \in DOMAIN socks -> socks[s]
      [] OTHER -> NoId

(****************************************************************************)
(* What a key without an entry reads as: the entry is made on the spot.     *)
(****************************************************************************)
Blank == [id |-> NoId, socket |-> NoSocket, host |-> Unresolved, age |-> Timeout + 1]

Reached(k) == IF k \in DOMAIN conns THEN conns ELSE With(conns, k, Blank)

(****************************************************************************)
(* readConnections once a connection has been found, under the key k of the *)
(* table cs: the handler processes what was read, and may ask for the       *)
(* connection to be closed; or nothing or an error was read, and it is      *)
(* closed.  w is the wire after the read.                                   *)
(****************************************************************************)
Handle(cs, k, sender, what, w) ==
    \/ /\ what = "data"
       /\ heard' = <<cs[k].id, sender>>
       /\ conns' = [cs EXCEPT ![k].age = 0]
       /\ wire' = w
       /\ UNCHANGED closes
    \/ /\ what = "data"
       /\ heard' = <<cs[k].id, sender>>
       /\ conns' = [Closed(cs, {k}) EXCEPT ![k].age = 0]
       /\ wire' = HungUp(w, cs, {k})
       /\ NotifyClose(cs, {k})
    \/ /\ what = "end"
       /\ conns' = Closed(cs, {k})
       /\ wire' = HungUp(w, cs, {k})
       /\ NotifyClose(cs, {k})
       /\ UNCHANGED heard

(****************************************************************************)
(* getConnectionForHost and what follows it.  On UDP an unknown host makes  *)
(* a new connection; on TCP what was read for it is lost.                   *)
(****************************************************************************)
Receive(s, h, sender, what, w) ==
    \/ /\ KeyFor(s, h) # NoId
       /\ Handle(Reached(KeyFor(s, h)), KeyFor(s, h), sender, what, w)
       /\ UNCHANGED <<hosts, socks, nextId, opened>>
    \/ /\ KeyFor(s, h) = NoId
       /\ ~ TCP /\ h # Unresolved /\ HasRoom
       /\ Inserted(s, h)
       /\ Handle(With(conns, nextId, NewConnection(s, h)), nextId, sender, what, w)
    \/ /\ KeyFor(s, h) = NoId
       /\ TCP \/ h = Unresolved \/ ~ HasRoom
       /\ wire' = w
       /\ UNCHANGED <<table, opened, closes, heard>>

(****************************************************************************)
(* A stream that has ended stays readable, with nothing in it.              *)
(****************************************************************************)
Ready(s) == s \in Socket /\ (wire[s].data \/ wire[s].gone)

ReadStream(s) ==
    /\ TCP /\ Ready(s)
    /\ \E h \in Garbage :
          IF wire[s].data
            THEN Receive(s, h, wire[s].peer, "data", [wire EXCEPT ![s].data = FALSE])
            ELSE Receive(s, h, wire[s].peer, "end", wire)
    /\ UNCHANGED datagrams

(****************************************************************************)
(* The address is that of the sender.                                       *)
(****************************************************************************)
ReadDatagram ==
    /\ ~ TCP
    /\ \E d \in datagrams :
          /\ Receive(Listener, d[1], d[1], d[2], wire)
          /\ datagrams' = datagrams \ {d}

(****************************************************************************)
(* recvfrom fails, as it does after an answer to a client that is gone, and *)
(* fills in no address.                                                     *)
(****************************************************************************)
ReadFails ==
    /\ ~ TCP /\ DOMAIN conns # {}
    /\ \E h \in Garbage : Receive(Listener, h, Nobody, "end", wire)
    /\ UNCHANGED datagrams

NothingToRead(s) ==
    /\ IF TCP THEN ~ Ready(s) ELSE datagrams = {}
    /\ UNCHANGED <<table, wire, datagrams, opened, closes, heard>>

Read ==
    /\ at = "read" /\ todo # {}
    /\ \E e \in todo :
          /\ First(e)
          /\ todo' = todo \ {e}
          /\ ReadStream(e[2]) \/ ReadDatagram \/ ReadFails \/ NothingToRead(e[2])
    /\ UNCHANGED <<mode, limit, up, at, starts, backlog, dropped>>

SweepKeepsClosed ==
    /\ at = "read" /\ todo = {}
    /\ LET expired == {k \in DOMAIN conns : conns[k].age > Timeout}
           swept == Closed(conns, expired)
           erased == {k \in DOMAIN swept : k \in expired}
       IN /\ conns' = Without(swept, erased)
          /\ hosts' = Without(hosts, {conns[k].host : k \in erased})
          /\ wire' = HungUp(wire, conns, expired)
          /\ NotifyClose(conns, expired)
    /\ at' = "idle"
    /\ heard' = Silence
    /\ UNCHANGED <<mode, limit, up, socks, nextId, todo, starts, backlog, datagrams, opened, dropped>>

SweepWithoutTimeout ==
    /\ at = "read" /\ todo = {}
    /\ LET expired == {}
           swept == Closed(conns, expired)
           erased == {k \in DOMAIN swept : ~ Live(swept[k])}
       IN /\ conns' = Without(swept, erased)
          /\ hosts' = Without(hosts, {conns[k].host : k \in erased})
          /\ wire' = HungUp(wire, conns, expired)
          /\ NotifyClose(conns, expired)
    /\ at' = "idle"
    /\ heard' = Silence
    /\ UNCHANGED <<mode, limit, up, socks, nextId, todo, starts, backlog, datagrams, opened, dropped>>

(****************************************************************************)
(* The loop that ends readConnections: what has been silent for too long is *)
(* closed, and what is closed is erased.                                    *)
(****************************************************************************)
Sweep ==
    /\ at = "read" /\ todo = {}
    /\ LET expired == {k \in DOMAIN conns : conns[k].age > Timeout}
           swept == Closed(conns, expired)
           erased == {k \in DOMAIN swept : ~ Live(swept[k])}
       IN /\ conns' = Without(swept, erased)
          /\ hosts' = Without(hosts, {conns[k].host : k \in erased})
          /\ wire' = HungUp(wire, conns, expired)
          /\ NotifyClose(conns, expired)
    /\ at' = "idle"
    /\ heard' = Silence
    /\ UNCHANGED <<mode, limit, up, socks, nextId, todo, starts, backlog, datagrams, opened, dropped>>

-----------------------------------------------------------------------------
(****************************************************************************)
(* The clients, and time.                                                   *)
(****************************************************************************)
Connected(c) == \E s \in Socket : wire[s].peer = c /\ ~ wire[s].gone

Dialling(c) == \E i \in DOMAIN backlog : backlog[i] = c

ClientConnects(c) ==
    /\ TCP /\ up
    /\ ~ Connected(c) /\ ~ Dialling(c)
    /\ nextId + Len(backlog) <= MaxDials
    /\ backlog' = Append(backlog, c)
    /\ UNCHANGED <<mode, limit, up, table, at, todo, starts, wire, datagrams, history>>

ClientSends(s) ==
    /\ wire[s].peer # Nobody /\ ~ wire[s].gone
    /\ wire' = [wire EXCEPT ![s].data = TRUE]
    /\ UNCHANGED <<mode, limit, up, table, at, todo, starts, backlog, datagrams, history>>

ClientLeaves(s) ==
    /\ wire[s].peer # Nobody /\ ~ wire[s].gone
    /\ wire' = [wire EXCEPT ![s].gone = TRUE]
    /\ UNCHANGED <<mode, limit, up, table, at, todo, starts, backlog, datagrams, history>>

DatagramArrives(c, kind) ==
    /\ ~ TCP /\ up
    /\ datagrams' = datagrams \cup {<<c, kind>>}
    /\ UNCHANGED <<mode, limit, up, table, at, todo, starts, backlog, wire, history>>

Tick ==
    /\ conns' = [k \in DOMAIN conns |->
          [conns[k] EXCEPT !.age = IF @ <= Timeout THEN @ + 1 ELSE @]]
    /\ UNCHANGED <<mode, limit, up, hosts, socks, nextId, at, todo, starts, world, history>>

-----------------------------------------------------------------------------
Next ==
    \/ Start \/ Stop \/ Tick
    \/ Accept \/ AcceptFails \/ Read \/ Sweep
    \/ \E c \in Client : ClientConnects(c)
    \/ \E s \in Socket : ClientSends(s) \/ ClientLeaves(s)
    \/ \E c \in Client : \E kind \in {"data", "end"} : DatagramArrives(c, kind)

(****************************************************************************)
(* The application calls update() for as long as the server runs, accept    *)
(* does not fail for ever, and time passes.                                 *)
(****************************************************************************)
Spec ==
    /\ Init /\ [][Next]_vars
    /\ WF_vars(Accept) /\ WF_vars(Read \/ Sweep) /\ WF_vars(Tick)

-----------------------------------------------------------------------------
Connection == [id : Id \cup {NoId}, socket : Socket \cup {Listener, NoSocket},
               host : Client \cup {Unresolved}, age : 0 .. Timeout + 1]

TypeOK ==
    /\ mode \in Mode /\ limit \in Limit
    /\ up \in BOOLEAN
    /\ DOMAIN conns \subseteq Id
    /\ \A k \in DOMAIN conns : conns[k] \in Connection
    /\ DOMAIN hosts \subseteq Client
    /\ \A h \in DOMAIN hosts : hosts[h] \in Id
    /\ DOMAIN socks \subseteq Socket \cup {Listener}
    /\ \A s \in DOMAIN socks : socks[s] \in Id
    /\ nextId \in 1 .. MaxId + 1
    /\ at \in {"idle", "read"}
    /\ todo \subseteq (Id \cup {NoId}) \X (Socket \cup {Listener})
    /\ starts \in 0 .. MaxStarts
    /\ wire \in [Socket -> [peer : Client \cup {Nobody}, data : BOOLEAN, gone : BOOLEAN]]
    /\ datagrams \subseteq Client \X {"data", "end"}
    /\ opened \in [Id -> Client \cup {Nobody}]
    /\ closes \in [Id -> 0 .. 2]
    /\ dropped \subseteq Id
    /\ heard[1] \in Id \cup {NoId} /\ heard[2] \in Client \cup {Nobody}

(****************************************************************************)
(* The host index never names a connection that is not in the table, so     *)
(* m_connections[itr->second] at 486 never makes an entry up: an entry of   *)
(* the table and the entry of the index with its name go together, though   *)
(* several connections may have had that name one after another.            *)
(****************************************************************************)
HostsKnown ==
    \A h \in DOMAIN hosts : hosts[h] \in DOMAIN conns /\ conns[hosts[h]].host = h

(****************************************************************************)
(* On TCP a connection's socket is the open handle of the client it was     *)
(* opened for, so that send() answers that client, and the socket index,    *)
(* from which nothing is ever erased, names this connection and not one     *)
(* that had the handle before.                                              *)
(****************************************************************************)
SocketsKnown ==
    TCP => \A k \in DOMAIN conns :
        Live(conns[k]) =>
            /\ conns[k].socket \in DOMAIN socks /\ socks[conns[k].socket] = k
            /\ wire[conns[k].socket].peer = opened[k]

(****************************************************************************)
(* On TCP no handle leaks: one that is open is the socket of a connection.  *)
(****************************************************************************)
NoHandleLeak ==
    \A s \in Socket :
        wire[s] # Free => \E k \in DOMAIN conns : conns[k].socket = s

(****************************************************************************)
(* On TCP the handler is told of every connection's end exactly once,       *)
(* whichever of a hangup, an error, the handler's own wish and a timeout    *)
(* come together, unless stop() ended it.                                   *)
(****************************************************************************)
CloseBalanced ==
    TCP => \A i \in Id :
        closes[i] =
            IF \/ i >= nextId \/ i \in dropped
               \/ i \in DOMAIN conns /\ Live(conns[i]) THEN 0 ELSE 1

(****************************************************************************)
(* net_server.h:29 "identifier for the connection who sent the data".       *)
(****************************************************************************)
DataFromSender == heard[2] # Nobody => opened[heard[1]] = heard[2]

(****************************************************************************)
(* On UDP, data is handed over under the id of its sender, however          *)
(* connections were made, reported closed, or dropped by a restart.         *)
(****************************************************************************)
DatagramFromSender == ~ TCP => DataFromSender

(****************************************************************************)
(* On TCP, once no client sends any more, a client that is gone is noticed  *)
(* and its handle closed: by the end of its stream, or by the timeout when  *)
(* that end was taken for the end of another connection.                    *)
(****************************************************************************)
GoneReleased ==
    <>[](\A s \in Socket : ~ wire[s].data) =>
        \A s \in Socket : wire[s].gone ~> wire[s] = Free

-----------------------------------------------------------------------------
(****************************************************************************)
(* net_server.h:45 of handler.close: "Called when an existing client        *)
(* disconnects".                                                            *)
(****************************************************************************)
ClosedOnce == \A i \in Id : closes[i] <= 1
=============================================================================
