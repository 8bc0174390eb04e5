--------------------------- MODULE NetServer_proofs ---------------------------
(****************************************************************************)
(* The safety of NetServer, for any clients, handles, modes, limits,        *)
(* timeout and bounds: the invariants of the run hold together, and are     *)
(* inductive with what ties the records of the table to the history, and    *)
(* with a count of the connections that the bounds leave room for.          *)
(****************************************************************************)
EXTENDS NetServer, FiniteSetTheorems, SequenceTheorems, TLAPS

WireState == [peer : Client \cup {Nobody}, data : BOOLEAN, gone : BOOLEAN]

(****************************************************************************)
(* TypeOK, with the tables functions and every id one already given.        *)
(****************************************************************************)
TableType ==
    /\ nextId \in 1 .. MaxId + 1
    /\ DOMAIN conns \subseteq 1 .. nextId - 1
    /\ conns \in [DOMAIN conns -> Connection]
    /\ hosts \in [DOMAIN hosts -> Id] /\ DOMAIN hosts \subseteq Client
    /\ socks \in [DOMAIN socks -> Id] /\ DOMAIN socks \subseteq Socket \cup {Listener}

ServerType ==
    /\ mode \in Mode /\ limit \in Limit
    /\ up \in BOOLEAN
    /\ at \in {"idle", "read"}
    /\ todo \subseteq (Id \cup {NoId}) \X (Socket \cup {Listener})
    /\ starts \in 0 .. MaxStarts

WorldType ==
    /\ wire \in [Socket -> WireState]
    /\ datagrams \subseteq Client \X {"data", "end"}
    /\ backlog \in Seq(Client)

HeardType ==
    /\ heard \in (0 .. nextId - 1) \X (Client \cup {Nobody})
    /\ heard[2] # Nobody => heard[1] # NoId

HistoryType ==
    /\ opened \in [Id -> Client \cup {Nobody}]
    /\ closes \in [Id -> 0 .. 2]
    /\ dropped \subseteq 1 .. nextId - 1
    /\ HeardType

(****************************************************************************)
(* A record stands under its own id and names the client the connection was *)
(* opened for; stop() has not dropped it; on UDP it has the server's socket.*)
(****************************************************************************)
Recorded ==
    \A k \in DOMAIN conns :
        /\ conns[k].id = k
        /\ conns[k].host = opened[k] /\ opened[k] \in Client
        /\ k \notin dropped
        /\ IF TCP THEN conns[k].socket # Listener ELSE conns[k].socket = Listener

(****************************************************************************)
(* Between two updates nothing closed is in the table, and a server that is *)
(* not running has no connections.                                          *)
(****************************************************************************)
Settled ==
    /\ at = "idle" => \A k \in DOMAIN conns : Live(conns[k])
    /\ ~ up => at = "idle" /\ DOMAIN conns = {} /\ backlog = <<>> /\ datagrams = {}

(****************************************************************************)
(* On UDP no handle is used but the server's, which the socket index knows  *)
(* as one of the connections when there are any.                            *)
(****************************************************************************)
OneSocket ==
    ~ TCP =>
        /\ \A s \in Socket : wire[s] = Free
        /\ DOMAIN conns # {} => Listener \in DOMAIN socks /\ socks[Listener] \in DOMAIN conns

(****************************************************************************)
(* The ids that are left: one for each connection that can still be made.   *)
(****************************************************************************)
IdsSuffice ==
    IF TCP THEN nextId + Len(backlog) <= MaxDials + 1
    ELSE /\ Cardinality(DOMAIN conns) <= limit
         /\ IF up THEN nextId + limit <= starts * limit + Cardinality(DOMAIN conns) + 1
                  ELSE nextId <= starts * limit + 1

Types == TableType /\ ServerType /\ WorldType /\ HistoryType
Links == Recorded /\ HostsKnown /\ SocketsKnown /\ NoHandleLeak /\ OneSocket
Claims == Settled /\ CloseBalanced /\ DatagramFromSender /\ IdsSuffice

ServerInv == Types /\ Links /\ Claims

LEMMA InvImpliesTypeOK == ServerInv => TypeOK
<1> SUFFICES ASSUME ServerInv PROVE TypeOK
  OBVIOUS
<1>1. /\ nextId \in 1 .. MaxId + 1 /\ 1 .. nextId - 1 \subseteq Id
      /\ 0 .. nextId - 1 \subseteq Id \cup {NoId}
  BY BoundAssumption DEF ServerInv, Types, TableType, Id, NoId
<1>2. /\ DOMAIN conns \subseteq Id /\ \A k \in DOMAIN conns : conns[k] \in Connection
      /\ DOMAIN hosts \subseteq Client /\ \A h \in DOMAIN hosts : hosts[h] \in Id
      /\ DOMAIN socks \subseteq Socket \cup {Listener} /\ \A s \in DOMAIN socks : socks[s] \in Id
  BY <1>1 DEF ServerInv, Types, TableType
<1>3. /\ dropped \subseteq Id
      /\ heard[1] \in Id \cup {NoId} /\ heard[2] \in Client \cup {Nobody}
  BY <1>1 DEF ServerInv, Types, HistoryType, HeardType
<1> QED
  BY <1>1, <1>2, <1>3 DEF ServerInv, Types, ServerType, WorldType, HistoryType, WireState, TypeOK

LEMMA InitHolds == Init => ServerInv
<1> SUFFICES ASSUME Init PROVE ServerInv
  OBVIOUS
<1>1. /\ DOMAIN conns = {} /\ DOMAIN hosts = {} /\ DOMAIN socks = {}
      /\ conns \in [{} -> Connection] /\ hosts \in [{} -> Id] /\ socks \in [{} -> Id]
      /\ backlog \in Seq(Client) /\ Len(backlog) = 0
  BY EmptySeq DEF Init
<1>2. limit \in Nat /\ MaxId \in Nat /\ MaxStarts \in Nat /\ MaxDials \in Nat
  BY LimitAssumption, BoundAssumption DEF Init
<1>3. Types
  <2>1. TableType
    BY <1>1, <1>2 DEF Init, TableType
  <2>2. ServerType
    <3>1. up \in BOOLEAN
      BY DEF Init
    <3> QED
      BY <1>2, <3>1 DEF Init, ServerType
  <2>3. WorldType
    BY <1>1 DEF Init, WorldType, WireState, Free
  <2>4. HistoryType
    BY DEF Init, HistoryType, HeardType, Silence, NoId
  <2> QED
    BY <2>1, <2>2, <2>3, <2>4 DEF Types
<1>4. Links
  BY <1>1 DEF Init, Links, Recorded, HostsKnown, SocketsKnown, NoHandleLeak, OneSocket
<1>5. Cardinality(DOMAIN conns) = 0
  BY <1>1, FS_EmptySet
<1>6. IdsSuffice
  BY <1>1, <1>2, <1>5 DEF Init, IdsSuffice, TCP
<1>7. Settled /\ CloseBalanced /\ DatagramFromSender
  BY <1>1 DEF Init, Settled, CloseBalanced, DatagramFromSender, DataFromSender, Silence, Id
<1> QED
  BY <1>3, <1>4, <1>6, <1>7 DEF ServerInv, Claims

-----------------------------------------------------------------------------
(****************************************************************************)
(* A step on TCP that ends the connections K, and after which those of D    *)
(* are in the table: what Tick, Handle and Sweep have in common.            *)
(****************************************************************************)
Ends(K, D) ==
    /\ conns' \in [D -> Connection]
    /\ \A k \in D :
          /\ conns'[k].id = conns[k].id /\ conns'[k].host = conns[k].host
          /\ conns'[k].socket = IF k \in K THEN NoSocket ELSE conns[k].socket
    /\ \A k \in DOMAIN conns : k \in D \/ k \in K \/ ~ Live(conns[k])
    /\ wire' \in [Socket -> WireState]
    /\ \A s \in Socket :
          IF \E k \in K : conns[k].socket = s THEN wire'[s] = Free
          ELSE wire'[s].peer = wire[s].peer /\ (wire[s] = Free => wire'[s] = Free)
    /\ NotifyClose(conns, K)

(****************************************************************************)
(* The host index keeps entries of connections that stay in the table.      *)
(****************************************************************************)
Forgets(D) ==
    /\ hosts' \in [DOMAIN hosts' -> Id]
    /\ \A h \in DOMAIN hosts' : h \in DOMAIN hosts /\ hosts'[h] = hosts[h] /\ hosts[h] \in D

LEMMA Ending ==
    ASSUME ServerInv, TCP, NEW K \in SUBSET DOMAIN conns, NEW D \in SUBSET DOMAIN conns,
           Ends(K, D), Forgets(D), UNCHANGED <<mode, socks, nextId, opened, dropped>>
    PROVE  /\ TableType' /\ Links' /\ CloseBalanced'
           /\ wire' \in [Socket -> WireState] /\ closes' \in [Id -> 0 .. 2]
<1>0. /\ DOMAIN conns' = D /\ TCP'
      /\ \A k \in DOMAIN conns : k \in Id /\ k < nextId /\ conns[k] \in Connection
  BY BoundAssumption DEF Ends, TCP, ServerInv, Types, TableType, Id
<1>1. TableType'
  BY <1>0 DEF ServerInv, Types, TableType, Ends, Forgets
<1>2. Recorded'
  BY <1>0, DistinctAssumption DEF ServerInv, Links, Recorded, Ends
<1>3. HostsKnown'
  BY <1>0 DEF ServerInv, Links, HostsKnown, Ends, Forgets
<1>4. \A k \in DOMAIN conns : Live(conns[k]) =>
          /\ conns[k].socket \in Socket
          /\ \A j \in DOMAIN conns : conns[j].socket = conns[k].socket => j = k
  BY <1>0 DEF ServerInv, Links, Recorded, SocketsKnown, Live, Connection
<1>5. SocketsKnown'
  <2> SUFFICES ASSUME NEW k \in D, Live(conns[k])' 
               PROVE  /\ conns'[k].socket \in DOMAIN socks /\ socks[conns'[k].socket] = k
                      /\ wire'[conns'[k].socket].peer = opened[k]
    BY <1>0 DEF SocketsKnown, Live
  <2>1. k \notin K /\ conns'[k].socket = conns[k].socket /\ Live(conns[k])
    BY DEF Ends, Live
  <2>2. ~ \E j \in K : conns[j].socket = conns[k].socket
    BY <1>4, <2>1
  <2> QED
    BY <1>0, <1>4, <2>1, <2>2 DEF Ends, ServerInv, Links, SocketsKnown
<1>6. NoHandleLeak'
  <2> SUFFICES ASSUME NEW s \in Socket, wire'[s] # Free
               PROVE  \E k \in D : conns'[k].socket = s
    BY <1>0 DEF NoHandleLeak
  <2>1. wire[s] # Free /\ ~ \E k \in K : conns[k].socket = s
    BY DEF Ends
  <2>2. PICK k \in DOMAIN conns : conns[k].socket = s
    BY <2>1 DEF ServerInv, Links, NoHandleLeak
  <2>3. k \notin K /\ Live(conns[k])
    BY <2>1, <2>2, DistinctAssumption DEF Live
  <2> QED
    BY <2>2, <2>3 DEF Ends
<1>7. OneSocket'
  BY <1>0 DEF OneSocket
<1>8. /\ closes' = [i \in Id |-> IF i \in K /\ Live(conns[i]) THEN 1 ELSE closes[i]]
      /\ \A i \in K : Live(conns[i]) => closes[i] = 0
  <2>1. {conns[k].id : k \in {k \in K : Live(conns[k])}} = {k \in K : Live(conns[k])}
    BY DEF ServerInv, Links, Recorded
  <2>2. \A i \in K : Live(conns[i]) => closes[i] = 0
    BY <1>0 DEF ServerInv, Claims, CloseBalanced
  <2> QED
    BY <2>1, <2>2 DEF Ends, NotifyClose
<1>9. CloseBalanced'
  <2> SUFFICES ASSUME NEW i \in Id
               PROVE  closes'[i] = IF \/ i >= nextId \/ i \in dropped
                                      \/ i \in D /\ Live(conns[i])' THEN 0 ELSE 1
    BY <1>0 DEF CloseBalanced
  <2>1. closes[i] = IF \/ i >= nextId \/ i \in dropped
                       \/ i \in DOMAIN conns /\ Live(conns[i]) THEN 0 ELSE 1
    BY DEF ServerInv, Claims, CloseBalanced
  <2>2. CASE i \in K /\ Live(conns[i])
    <3>1. i \notin dropped /\ ~ (i >= nextId) /\ ~ (i \in D /\ Live(conns[i])')
      BY <1>0, <2>2 DEF Ends, Live, ServerInv, Links, Recorded, Types, TableType, Id
    <3> QED
      BY <1>8, <2>2, <3>1
  <2>3. CASE ~ (i \in K /\ Live(conns[i]))
    <3>1. (i \in D /\ Live(conns[i])') <=> (i \in DOMAIN conns /\ Live(conns[i]))
      BY <2>3 DEF Ends, Live
    <3> QED
      BY <1>8, <2>1, <2>3, <3>1
  <2> QED
    BY <2>2, <2>3
<1>10. closes' \in [Id -> 0 .. 2]
  BY <1>8 DEF ServerInv, Types, HistoryType
<1> QED
  BY <1>1, <1>2, <1>3, <1>5, <1>6, <1>7, <1>9, <1>10 DEF Links, Ends

(****************************************************************************)
(* A step on UDP that changes nothing of the records but their age.         *)
(****************************************************************************)
LEMMA Ageing ==
    ASSUME ServerInv, ~ TCP,
           conns' \in [DOMAIN conns -> Connection],
           \A k \in DOMAIN conns :
              /\ conns'[k].id = conns[k].id /\ conns'[k].host = conns[k].host
              /\ conns'[k].socket = conns[k].socket,
           UNCHANGED <<mode, hosts, socks, nextId, wire, opened, dropped>>
    PROVE  TableType' /\ Links' /\ CloseBalanced'
<1>0. DOMAIN conns' = DOMAIN conns /\ ~ TCP'
  BY DEF TCP
<1>1. TableType'
  BY <1>0 DEF ServerInv, Types, TableType
<1>2. Recorded'
  BY <1>0 DEF ServerInv, Links, Recorded
<1>3. HostsKnown'
  BY <1>0 DEF ServerInv, Links, HostsKnown
<1>4. SocketsKnown' /\ CloseBalanced'
  BY <1>0 DEF SocketsKnown, CloseBalanced
<1>5. OneSocket'
  BY <1>0 DEF ServerInv, Links, OneSocket
<1>6. NoHandleLeak'
  BY DEF ServerInv, Links, OneSocket, NoHandleLeak
<1> QED
  BY <1>1, <1>2, <1>3, <1>4, <1>5, <1>6 DEF Links

(****************************************************************************)
(* The records of a table in which the connections K were closed, and in    *)
(* which one was heard.                                                     *)
(****************************************************************************)
LEMMA ClosedRecords ==
    ASSUME NEW cs, cs \in [DOMAIN cs -> Connection], NEW K
    PROVE  /\ Closed(cs, K) \in [DOMAIN cs -> Connection]
           /\ \A k \in DOMAIN cs :
                 /\ Closed(cs, K)[k].id = cs[k].id /\ Closed(cs, K)[k].host = cs[k].host
                 /\ Closed(cs, K)[k].age = cs[k].age
                 /\ Closed(cs, K)[k].socket = IF TCP /\ k \in K THEN NoSocket ELSE cs[k].socket
  BY DEF Closed, Connection

LEMMA HeardRecords ==
    ASSUME NEW cs, cs \in [DOMAIN cs -> Connection], NEW k \in DOMAIN cs
    PROVE  /\ [cs EXCEPT ![k].age = 0] \in [DOMAIN cs -> Connection]
           /\ \A j \in DOMAIN cs :
                 /\ [cs EXCEPT ![k].age = 0][j].id = cs[j].id
                 /\ [cs EXCEPT ![k].age = 0][j].host = cs[j].host
                 /\ [cs EXCEPT ![k].age = 0][j].socket = cs[j].socket
  BY LimitAssumption DEF Connection

LEMMA NothingClosed ==
    ASSUME closes \in [Id -> 0 .. 2], UNCHANGED closes
    PROVE  NotifyClose(conns, {})
<1>1. {conns[k].id : k \in {k \in {} : Live(conns[k])}} = {}
  OBVIOUS
<1> QED
  BY <1>1 DEF NotifyClose

-----------------------------------------------------------------------------
(****************************************************************************)
(* One turn of readConnections: the key that is looked up is in the table,  *)
(* so no entry is made up.                                                  *)
(****************************************************************************)
LEMMA KeyKnown ==
    ASSUME ServerInv, NEW s, NEW h, KeyFor(s, h) # NoId,
           \/ TCP /\ Ready(s)
           \/ ~ TCP /\ s = Listener /\ (h \in Client \/ DOMAIN conns # {})
    PROVE  KeyFor(s, h) \in DOMAIN conns /\ Reached(KeyFor(s, h)) = conns
<1>1. CASE h \in DOMAIN hosts
  <2>1. h # Unresolved
    BY <1>1, DistinctAssumption DEF ServerInv, Types, TableType
  <2>2. KeyFor(s, h) = hosts[h]
    BY <1>1, <2>1 DEF KeyFor
  <2> QED
    BY <1>1, <2>2 DEF ServerInv, Links, HostsKnown, Reached
<1>2. CASE h \notin DOMAIN hosts
  <2>1. h = Unresolved /\ s \in DOMAIN socks /\ KeyFor(s, h) = socks[s]
    BY <1>2 DEF KeyFor
  <2>2. CASE TCP /\ Ready(s)
    <3>1. s \in Socket /\ wire[s] # Free
      BY <2>2 DEF Ready, Free
    <3>2. PICK k \in DOMAIN conns : conns[k].socket = s
      BY <3>1 DEF ServerInv, Links, NoHandleLeak
    <3>3. Live(conns[k])
      BY <3>1, <3>2, DistinctAssumption DEF Live
    <3> QED
      BY <2>1, <2>2, <3>2, <3>3 DEF ServerInv, Links, SocketsKnown, Reached
  <2>3. CASE ~ TCP /\ s = Listener
    <3>1. DOMAIN conns # {}
      BY <2>1, <2>3, DistinctAssumption
    <3> QED
      BY <2>1, <2>3, <3>1 DEF ServerInv, Links, OneSocket, Reached
  <2> QED
    BY <2>2, <2>3
<1> QED
  BY <1>1, <1>2

LEMMA HandleStream ==
    ASSUME ServerInv, TCP, NEW k \in DOMAIN conns, NEW sender \in Client \cup {Nobody},
           NEW what, NEW w \in [Socket -> WireState],
           \A s \in Socket : w[s].peer = wire[s].peer /\ (wire[s] = Free => w[s] = Free),
           Handle(conns, k, sender, what, w),
           UNCHANGED <<mode, hosts, socks, nextId, opened, dropped>>
    PROVE  /\ TableType' /\ Links' /\ CloseBalanced'
           /\ wire' \in [Socket -> WireState] /\ closes' \in [Id -> 0 .. 2]
           /\ HeardType' /\ DOMAIN conns' = DOMAIN conns
<1>0. /\ conns \in [DOMAIN conns -> Connection] /\ closes \in [Id -> 0 .. 2]
      /\ HeardType /\ nextId' = nextId
      /\ k \in 0 .. nextId - 1 /\ k # NoId /\ conns[k].id = k
  BY BoundAssumption DEF ServerInv, Types, TableType, HistoryType, Links, Recorded, NoId
<1>1. Forgets(DOMAIN conns)
  BY DEF Forgets, ServerInv, Types, TableType, Links, HostsKnown
<1>2. Free \in WireState
  BY DEF Free, WireState
<1>3. /\ HungUp(w, conns, {k}) \in [Socket -> WireState]
      /\ \A s \in Socket :
            IF \E j \in {k} : conns[j].socket = s THEN HungUp(w, conns, {k})[s] = Free
            ELSE HungUp(w, conns, {k})[s] = w[s]
  BY <1>2 DEF HungUp
<1>4. CASE /\ conns' = [conns EXCEPT ![k].age = 0] /\ wire' = w /\ UNCHANGED closes
           /\ heard' = <<conns[k].id, sender>>
  <2>1. NotifyClose(conns, {})
    BY <1>0, <1>4, NothingClosed
  <2>2. Ends({}, DOMAIN conns)
    BY <1>0, <1>4, <2>1, HeardRecords DEF Ends
  <2> QED
    BY <1>0, <1>1, <1>4, <2>2, Ending DEF Ends, HeardType
<1>5. CASE /\ conns' = [Closed(conns, {k}) EXCEPT ![k].age = 0]
           /\ wire' = HungUp(w, conns, {k}) /\ NotifyClose(conns, {k})
           /\ heard' = <<conns[k].id, sender>>
  <2>1. DOMAIN Closed(conns, {k}) = DOMAIN conns
    BY DEF Closed
  <2>2. /\ Closed(conns, {k}) \in [DOMAIN conns -> Connection]
        /\ \A j \in DOMAIN conns :
              /\ Closed(conns, {k})[j].id = conns[j].id
              /\ Closed(conns, {k})[j].host = conns[j].host
              /\ Closed(conns, {k})[j].socket = IF j \in {k} THEN NoSocket ELSE conns[j].socket
    BY <1>0, ClosedRecords
  <2>3. /\ conns' \in [DOMAIN conns -> Connection]
        /\ \A j \in DOMAIN conns :
              /\ conns'[j].id = Closed(conns, {k})[j].id
              /\ conns'[j].host = Closed(conns, {k})[j].host
              /\ conns'[j].socket = Closed(conns, {k})[j].socket
    BY <1>5, <2>1, <2>2, HeardRecords
  <2>4. Ends({k}, DOMAIN conns)
    <3>1. \A j \in DOMAIN conns :
             /\ conns'[j].id = conns[j].id /\ conns'[j].host = conns[j].host
             /\ conns'[j].socket = IF j \in {k} THEN NoSocket ELSE conns[j].socket
      BY <2>2, <2>3
    <3>2. /\ wire' \in [Socket -> WireState]
          /\ \A s \in Socket :
                IF \E j \in {k} : conns[j].socket = s THEN wire'[s] = Free
                ELSE wire'[s].peer = wire[s].peer /\ (wire[s] = Free => wire'[s] = Free)
      BY <1>3, <1>5
    <3>3. \A j \in DOMAIN conns : j \in DOMAIN conns \/ j \in {k} \/ ~Live(conns[j])
      OBVIOUS
    <3> QED
      BY <1>5, <2>3, <3>1, <3>2, <3>3 DEF Ends
  <2>5. /\ TableType' /\ Links' /\ CloseBalanced'
        /\ wire' \in [Socket -> WireState] /\ closes' \in [Id -> 0 .. 2]
    <3>1. {k} \in SUBSET DOMAIN conns /\ DOMAIN conns \in SUBSET DOMAIN conns
      OBVIOUS
    <3> QED
      BY <1>1, <2>4, <3>1, Ending
  <2> QED
    BY <1>0, <1>5, <2>3, <2>5 DEF HeardType
<1>6. CASE /\ conns' = Closed(conns, {k}) /\ wire' = HungUp(w, conns, {k})
           /\ NotifyClose(conns, {k}) /\ UNCHANGED heard
  <2>1. /\ Closed(conns, {k}) \in [DOMAIN conns -> Connection]
        /\ \A j \in DOMAIN conns :
              /\ Closed(conns, {k})[j].id = conns[j].id
              /\ Closed(conns, {k})[j].host = conns[j].host
              /\ Closed(conns, {k})[j].socket = IF j \in {k} THEN NoSocket ELSE conns[j].socket
    BY <1>0, ClosedRecords
  <2>2. Ends({k}, DOMAIN conns)
    BY <1>3, <1>6, <2>1 DEF Ends
  <2>3. /\ TableType' /\ Links' /\ CloseBalanced'
        /\ wire' \in [Socket -> WireState] /\ closes' \in [Id -> 0 .. 2]
    <3>1. {k} \in SUBSET DOMAIN conns /\ DOMAIN conns \in SUBSET DOMAIN conns
      OBVIOUS
    <3> QED
      BY <1>1, <2>2, <3>1, Ending
  <2> QED
    BY <1>0, <1>6, <2>1, <2>3 DEF HeardType
<1> QED
  BY <1>4, <1>5, <1>6 DEF Handle

(****************************************************************************)
(* There is an id left for the connection that is made.                     *)
(****************************************************************************)
LEMMA TableFinite ==
    ASSUME ServerInv
    PROVE  /\ IsFiniteSet(DOMAIN conns) /\ Cardinality(DOMAIN conns) \in Nat
           /\ nextId \notin DOMAIN conns
           /\ Cardinality(DOMAIN conns \cup {nextId}) = Cardinality(DOMAIN conns) + 1
<1>1. nextId \in Nat /\ DOMAIN conns \subseteq 1 .. nextId - 1
  BY BoundAssumption DEF ServerInv, Types, TableType
<1>2. IsFiniteSet(DOMAIN conns)
  <2>1. IsFiniteSet(1 .. nextId - 1)
    BY <1>1, FS_Interval
  <2> QED
    BY <1>1, <2>1, FS_Subset
<1>3. nextId \notin DOMAIN conns
  BY <1>1
<1> QED
  BY <1>2, <1>3, FS_CardinalityType, FS_AddElement

LEMMA IdLeft ==
    ASSUME ServerInv, IF TCP THEN backlog # <<>> ELSE up /\ HasRoom
    PROVE  nextId \in Id /\ nextId <= MaxId
<1>0. /\ nextId \in 1 .. MaxId + 1 /\ MaxId \in Nat /\ limit \in Nat /\ starts \in 0 .. MaxStarts
      /\ MaxDials <= MaxId /\ MaxStarts * limit <= MaxId /\ MaxDials \in Nat /\ MaxStarts \in Nat
  BY BoundAssumption, LimitAssumption DEF ServerInv, Types, TableType, ServerType
<1>1. CASE TCP
  <2>1. Len(backlog) \in Nat /\ Len(backlog) # 0
    BY <1>1, EmptySeq DEF ServerInv, Types, WorldType
  <2> QED
    BY <1>0, <1>1, <2>1 DEF ServerInv, Claims, IdsSuffice, Id
<1>2. CASE ~ TCP
  <2>1. Cardinality(DOMAIN conns) \in Nat /\ Cardinality(DOMAIN conns) < limit
    BY <1>2, TableFinite DEF HasRoom
  <2>2. nextId + limit <= starts * limit + Cardinality(DOMAIN conns) + 1
    BY <1>2 DEF ServerInv, Claims, IdsSuffice
  <2>3. starts * limit <= MaxStarts * limit /\ starts * limit \in Nat
    BY <1>0
  <2>4. nextId <= starts * limit
    BY <1>0, <2>1, <2>2, <2>3
  <2> QED
    BY <1>0, <2>3, <2>4 DEF Id
<1> QED
  BY <1>1, <1>2

(****************************************************************************)
(* The table with the new connection in it.                                 *)
(****************************************************************************)
NewTable(cs, s, h) ==
    /\ DOMAIN cs = DOMAIN conns \cup {nextId} /\ nextId \notin DOMAIN conns
    /\ cs \in [DOMAIN cs -> Connection]
    /\ \A k \in DOMAIN conns : cs[k] = conns[k]
    /\ cs[nextId].id = nextId /\ cs[nextId].socket = s /\ cs[nextId].host = h
    /\ DOMAIN cs \subseteq 1 .. nextId' - 1
    /\ nextId' \in 1 .. MaxId + 1 /\ nextId' = nextId + 1
    /\ hosts' \in [DOMAIN hosts' -> Id] /\ DOMAIN hosts' \subseteq Client
    /\ socks' \in [DOMAIN socks' -> Id] /\ DOMAIN socks' \subseteq Socket \cup {Listener}
    /\ opened' \in [Id -> Client \cup {Nobody}]
    /\ \A i \in Id : opened'[i] = IF i = nextId THEN h ELSE opened[i]

LEMMA NewRecords ==
    ASSUME ServerInv, nextId \in Id, NEW s \in Socket \cup {Listener}, NEW h \in Client, Inserted(s, h),
           NEW cs, cs = With(conns, nextId, NewConnection(s, h))
    PROVE  NewTable(cs, s, h)
<1>0. /\ nextId \in 1 .. MaxId /\ MaxId \in Nat /\ DOMAIN conns \subseteq 1 .. nextId - 1
      /\ conns \in [DOMAIN conns -> Connection] /\ Timeout \in Nat /\ nextId' = nextId + 1
  BY BoundAssumption, LimitAssumption DEF ServerInv, Types, TableType, Id, Inserted
<1>1. nextId \notin DOMAIN conns
  BY <1>0
<1>2. NewConnection(s, h) \in Connection
  BY <1>0 DEF NewConnection, Connection, Id
<1>3. /\ DOMAIN cs = DOMAIN conns \cup {nextId} /\ cs \in [DOMAIN cs -> Connection]
      /\ \A k \in DOMAIN conns : cs[k] = conns[k]
      /\ cs[nextId] = NewConnection(s, h)
  BY <1>0, <1>1, <1>2 DEF With
<1>4. DOMAIN cs \subseteq 1 .. nextId' - 1 /\ nextId' \in 1 .. MaxId + 1
  BY <1>0, <1>3
<1>5. /\ hosts' \in [DOMAIN hosts' -> Id] /\ DOMAIN hosts' \subseteq Client
      /\ socks' \in [DOMAIN socks' -> Id] /\ DOMAIN socks' \subseteq Socket \cup {Listener}
  BY DEF Inserted, With, ServerInv, Types, TableType
<1>6. /\ opened' \in [Id -> Client \cup {Nobody}]
      /\ \A i \in Id : opened'[i] = IF i = nextId THEN h ELSE opened[i]
  BY DEF Inserted, ServerInv, Types, HistoryType
<1>7. NewConnection(s, h).id = nextId /\ NewConnection(s, h).socket = s /\ NewConnection(s, h).host = h
  BY DEF NewConnection
<1> QED
  BY <1>0, <1>1, <1>3, <1>4, <1>5, <1>6, <1>7 DEF NewTable

(****************************************************************************)
(* On UDP closing leaves the record and the handle as they are.             *)
(****************************************************************************)
LEMMA HandleDatagram ==
    ASSUME ~ TCP, closes \in [Id -> 0 .. 2],
           NEW cs, cs \in [DOMAIN cs -> Connection], NEW k \in DOMAIN cs, NEW sender, NEW what,
           wire \in [Socket -> WireState], Handle(cs, k, sender, what, wire)
    PROVE  /\ conns' \in [DOMAIN cs -> Connection]
           /\ \A j \in DOMAIN cs : /\ conns'[j].id = cs[j].id /\ conns'[j].host = cs[j].host
                                   /\ conns'[j].socket = cs[j].socket
           /\ wire' = wire /\ closes' \in [Id -> 0 .. 2]
           /\ heard' = heard \/ (what = "data" /\ heard' = <<cs[k].id, sender>>)
<1>1. Closed(cs, {k}) = cs
  BY DEF Closed
<1>2. HungUp(wire, cs, {k}) = wire
  BY DEF HungUp
<1>3. NotifyClose(cs, {k}) => closes' \in [Id -> 0 .. 2]
  BY DEF NotifyClose
<1>4. conns' = cs \/ conns' = [cs EXCEPT ![k].age = 0]
  BY <1>1 DEF Handle
<1>5. wire' = wire /\ closes' \in [Id -> 0 .. 2]
  BY <1>2, <1>3 DEF Handle
<1>6. heard' = heard \/ (what = "data" /\ heard' = <<cs[k].id, sender>>)
  BY DEF Handle
<1>7. CASE conns' = cs
  BY <1>5, <1>6, <1>7
<1>8. CASE conns' = [cs EXCEPT ![k].age = 0]
  <2>1. /\ [cs EXCEPT ![k].age = 0] \in [DOMAIN cs -> Connection]
        /\ \A j \in DOMAIN cs :
              /\ [cs EXCEPT ![k].age = 0][j].id = cs[j].id
              /\ [cs EXCEPT ![k].age = 0][j].host = cs[j].host
              /\ [cs EXCEPT ![k].age = 0][j].socket = cs[j].socket
    BY HeardRecords
  <2> QED
    BY <1>5, <1>6, <1>8, <2>1
<1> QED
  BY <1>4, <1>7, <1>8

(****************************************************************************)
(* On UDP: a new connection is made for the sender, and handled.            *)
(****************************************************************************)
LEMMA InsertDatagram ==
    ASSUME ServerInv, ~ TCP, up, HasRoom, NEW h \in Client, KeyFor(Listener, h) = NoId,
           Inserted(Listener, h), NEW what, NEW sender \in Client \cup {Nobody},
           Handle(With(conns, nextId, NewConnection(Listener, h)), nextId, sender, what, wire),
           sender # Nobody => sender = h,
           UNCHANGED <<mode, limit, up, starts, dropped, at>>, at = "read"
    PROVE  /\ TableType' /\ Links' /\ Claims'
           /\ opened' \in [Id -> Client \cup {Nobody}]
           /\ wire' \in [Socket -> WireState] /\ closes' \in [Id -> 0 .. 2]
           /\ HeardType'
<1> DEFINE cs == With(conns, nextId, NewConnection(Listener, h))
<1>0. nextId \in Id /\ nextId <= MaxId
  BY IdLeft
<1>1. /\ DOMAIN cs = DOMAIN conns \cup {nextId} /\ nextId \notin DOMAIN conns
      /\ cs \in [DOMAIN cs -> Connection]
      /\ \A k \in DOMAIN conns : cs[k] = conns[k]
      /\ cs[nextId].id = nextId /\ cs[nextId].socket = Listener /\ cs[nextId].host = h
      /\ DOMAIN cs \subseteq 1 .. nextId' - 1
      /\ nextId' \in 1 .. MaxId + 1 /\ nextId' = nextId + 1
      /\ hosts' \in [DOMAIN hosts' -> Id] /\ DOMAIN hosts' \subseteq Client
      /\ socks' \in [DOMAIN socks' -> Id] /\ DOMAIN socks' \subseteq Socket \cup {Listener}
      /\ opened' \in [Id -> Client \cup {Nobody}]
      /\ \A i \in Id : opened'[i] = IF i = nextId THEN h ELSE opened[i]
  <2>1. Listener \in Socket \cup {Listener}
    OBVIOUS
  <2> QED
    <3>1. NewTable(cs, Listener, h)
      BY <1>0, <2>1, NewRecords
    <3> HIDE DEF cs
    <3> QED BY <3>1 DEF NewTable
<1>2. wire \in [Socket -> WireState] /\ closes \in [Id -> 0 .. 2]
  BY DEF ServerInv, Types, WorldType, HistoryType
<1>3. /\ conns' \in [DOMAIN cs -> Connection]
      /\ \A j \in DOMAIN cs : /\ conns'[j].id = cs[j].id /\ conns'[j].host = cs[j].host
                              /\ conns'[j].socket = cs[j].socket
      /\ wire' = wire /\ closes' \in [Id -> 0 .. 2]
      /\ heard' = heard \/ (what = "data" /\ heard' = <<cs[nextId].id, sender>>)
  <2> HIDE DEF cs
  <2>1. Handle(cs, nextId, sender, what, wire)
    BY DEF cs
  <2> QED
    BY <1>1, <1>2, <2>1, HandleDatagram
<1> HIDE DEF cs
<1>4. DOMAIN conns' = DOMAIN conns \cup {nextId} /\ ~ TCP'
  BY <1>1, <1>3 DEF TCP
<1>5. TableType'
  BY <1>1, <1>3 DEF TableType
<1>6. \A k \in DOMAIN conns : k \in Id /\ k < nextId
  BY BoundAssumption DEF ServerInv, Types, TableType, Id
<1>7. Recorded'
  <2> SUFFICES ASSUME NEW k \in DOMAIN conns'
               PROVE  /\ conns'[k].id = k /\ conns'[k].host = opened'[k] /\ opened'[k] \in Client
                      /\ k \notin dropped /\ conns'[k].socket = Listener
    BY <1>3, <1>4 DEF Recorded
  <2>1. CASE k = nextId
    <3>1. nextId \notin dropped
      BY <1>0, BoundAssumption DEF ServerInv, Types, HistoryType, Id
    <3> QED
      BY <1>0, <1>1, <1>3, <2>1, <3>1
  <2>2. CASE k \in DOMAIN conns
    BY <1>1, <1>3, <1>6, <2>2 DEF ServerInv, Links, Recorded
  <2> QED
    BY <1>4, <2>1, <2>2
<1>8. HostsKnown'
  <2> SUFFICES ASSUME NEW g \in DOMAIN hosts'
               PROVE  hosts'[g] \in DOMAIN conns' /\ conns'[hosts'[g]].host = g
    BY DEF HostsKnown
  <2>1. CASE g = h
    BY <1>1, <1>3, <1>4, <2>1 DEF Inserted, With
  <2>2. CASE g # h
    <3>1. g \in DOMAIN hosts /\ hosts'[g] = hosts[g]
      BY <2>2 DEF Inserted, With
    <3> QED
      BY <1>1, <1>3, <1>4, <3>1 DEF ServerInv, Links, HostsKnown
  <2> QED
    BY <2>1, <2>2
<1>9. SocketsKnown' /\ CloseBalanced'
  BY <1>4 DEF SocketsKnown, CloseBalanced
<1>10. OneSocket' /\ NoHandleLeak'
  <2>1. Listener \in DOMAIN socks' /\ socks'[Listener] = nextId
    BY DEF Inserted, With
  <2> QED
    BY <1>3, <1>4, <2>1 DEF OneSocket, NoHandleLeak, ServerInv, Links
<1>11. DatagramFromSender' /\ HeardType'
  <2>1. /\ heard \in (0 .. nextId - 1) \X (Client \cup {Nobody})
        /\ heard[2] # Nobody => /\ heard[1] # NoId /\ heard[1] \in Id /\ heard[1] # nextId
                                /\ opened[heard[1]] = heard[2]
    <3>1. /\ heard \in (0 .. nextId - 1) \X (Client \cup {Nobody})
          /\ heard[2] # Nobody => heard[1] # NoId
      BY DEF ServerInv, Types, HistoryType, HeardType
    <3>2. nextId \in Nat /\ nextId <= MaxId /\ MaxId \in Nat
      BY <1>0, BoundAssumption DEF Id
    <3>3. heard[2] # Nobody => opened[heard[1]] = heard[2]
      BY DEF ServerInv, Claims, DatagramFromSender, DataFromSender
    <3> QED
      BY <3>1, <3>2, <3>3 DEF NoId, Id
  <2>2. CASE heard' = heard
    <3>1. heard' \in (0 .. nextId' - 1) \X (Client \cup {Nobody})
      BY <1>0, <1>1, <2>1, <2>2, BoundAssumption DEF Id
    <3>2. heard'[2] # Nobody => opened'[heard'[1]] = heard'[2] /\ heard'[1] # NoId
      BY <1>1, <2>1, <2>2
    <3> QED
      BY <3>1, <3>2 DEF HeardType, DatagramFromSender, DataFromSender
  <2>3. CASE heard' = <<cs[nextId].id, sender>>
    <3>1. heard' \in (0 .. nextId' - 1) \X (Client \cup {Nobody})
      BY <1>0, <1>1, <2>3, BoundAssumption DEF Id
    <3>2. heard'[2] # Nobody => opened'[heard'[1]] = heard'[2] /\ heard'[1] # NoId
      BY <1>0, <1>1, <2>3, BoundAssumption DEF Id, NoId
    <3> QED
      BY <3>1, <3>2 DEF HeardType, DatagramFromSender, DataFromSender
  <2> QED
    BY <1>3, <2>2, <2>3
<1>12. Settled'
  BY DEF Settled, ServerInv, Claims
<1>13. IdsSuffice'
  <2>1. Cardinality(DOMAIN conns') = Cardinality(DOMAIN conns) + 1 /\ Cardinality(DOMAIN conns) \in Nat
    BY <1>4, TableFinite
  <2>2. limit \in Nat /\ nextId \in Nat /\ starts \in Nat
    BY LimitAssumption, BoundAssumption DEF ServerInv, Types, TableType, ServerType
  <2>3. starts * limit \in Nat
    BY <2>2
  <2> DEFINE budget == starts * limit
  <2>4. nextId + limit <= budget + Cardinality(DOMAIN conns) + 1
    BY DEF ServerInv, Claims, IdsSuffice
  <2>5. budget \in Nat /\ budget' = budget
    BY <2>3
  <2> HIDE DEF budget
  <2>6. /\ Cardinality(DOMAIN conns') <= limit
        /\ nextId' + limit <= budget' + Cardinality(DOMAIN conns') + 1
    BY <1>1, <2>1, <2>2, <2>4, <2>5 DEF HasRoom
  <2> QED
    BY <1>4, <2>6 DEF IdsSuffice, budget
<1> QED
  BY <1>1, <1>2, <1>3, <1>5, <1>7, <1>8, <1>9, <1>10, <1>11, <1>12, <1>13 DEF Links, Claims

-----------------------------------------------------------------------------
(****************************************************************************)
(* What a turn of the loop leaves as it was.                                *)
(****************************************************************************)
Turn ==
    /\ at = "read"
    /\ todo' \subseteq todo
    /\ UNCHANGED <<mode, limit, up, at, starts, backlog, dropped>>

(****************************************************************************)
(* A turn of the loop that makes no new connection.                         *)
(****************************************************************************)
LEMMA TurnHolds ==
    ASSUME ServerInv, Turn, TableType', Links', CloseBalanced', DOMAIN conns' = DOMAIN conns,
           wire' \in [Socket -> WireState], closes' \in [Id -> 0 .. 2], HeardType',
           ~ TCP => DatagramFromSender',
           datagrams' \subseteq datagrams, UNCHANGED <<nextId, opened>>
    PROVE  ServerInv'
<1>1. ServerType'
  <2>1. up' \in BOOLEAN
    BY Zenon DEF Turn, ServerInv, Types, ServerType
  <2> QED
    BY <2>1 DEF Turn, ServerInv, Types, ServerType
<1>2. WorldType' /\ HistoryType'
  BY DEF Turn, ServerInv, Types, WorldType, HistoryType
<1>3. Settled'
  BY DEF Turn, ServerInv, Claims, Settled
<1>4. IdsSuffice'
  BY DEF Turn, ServerInv, Claims, IdsSuffice, TCP
<1>5. DatagramFromSender'
  BY DEF DatagramFromSender, Turn, TCP
<1> QED
  BY <1>1, <1>2, <1>3, <1>4, <1>5 DEF ServerInv, Types, Claims

LEMMA StayHolds ==
    ASSUME ServerInv, Turn, UNCHANGED <<table, wire, opened, closes, heard>>,
           datagrams' \subseteq datagrams
    PROVE  ServerInv'
<1>1. TableType' /\ CloseBalanced' /\ HeardType'
  BY DEF ServerInv, Types, TableType, HistoryType, HeardType, Claims, CloseBalanced, Turn, TCP, Live, table
<1>2. Links'
  BY DEF ServerInv, Links, Recorded, HostsKnown, SocketsKnown, NoHandleLeak, OneSocket, Turn, TCP,
         Live, table
<1>3. wire' \in [Socket -> WireState] /\ closes' \in [Id -> 0 .. 2] /\ DatagramFromSender'
  BY DEF ServerInv, Types, WorldType, HistoryType, Claims, DatagramFromSender, DataFromSender, Turn, TCP
<1> QED
  BY <1>1, <1>2, <1>3, TurnHolds DEF table

LEMMA ReadStreamHolds ==
    ASSUME ServerInv, NEW s, ReadStream(s), Turn
    PROVE  ServerInv'
<1>0. TCP /\ Ready(s) /\ s \in Socket /\ UNCHANGED datagrams /\ wire \in [Socket -> WireState]
      /\ closes \in [Id -> 0 .. 2]
  BY DEF ReadStream, Ready, ServerInv, Types, WorldType, HistoryType
<1>1. PICK h \in Garbage, what \in {"data", "end"}, w \in {wire, [wire EXCEPT ![s].data = FALSE]} :
          Receive(s, h, wire[s].peer, what, w)
  BY DEF ReadStream
<1>2. /\ w \in [Socket -> WireState]
      /\ \A r \in Socket : w[r].peer = wire[r].peer /\ (wire[r] = Free => w[r] = Free)
  <2>1. CASE w = wire
    BY <1>0, <2>1
  <2>2. CASE w = [wire EXCEPT ![s].data = FALSE]
    <3>1. wire[s] # Free
      BY <1>0 DEF Ready, Free
    <3>2. /\ [wire[s] EXCEPT !.data = FALSE] \in WireState
          /\ [wire[s] EXCEPT !.data = FALSE].peer = wire[s].peer
      BY <1>0 DEF WireState
    <3> QED
      BY <1>0, <2>2, <3>1, <3>2
  <2> QED
    BY <2>1, <2>2
<1>3. wire[s].peer \in Client \cup {Nobody}
  BY <1>0 DEF WireState
<1>4. CASE /\ KeyFor(s, h) # NoId
           /\ Handle(Reached(KeyFor(s, h)), KeyFor(s, h), wire[s].peer, what, w)
           /\ UNCHANGED <<hosts, socks, nextId, opened>>
  <2>1. KeyFor(s, h) \in DOMAIN conns /\ Handle(conns, KeyFor(s, h), wire[s].peer, what, w)
    BY <1>0, <1>4, KeyKnown
  <2>2. UNCHANGED <<mode, hosts, socks, nextId, opened, dropped>>
    BY <1>4 DEF Turn
  <2>3. /\ TableType' /\ Links' /\ CloseBalanced'
        /\ wire' \in [Socket -> WireState] /\ closes' \in [Id -> 0 .. 2]
        /\ HeardType' /\ DOMAIN conns' = DOMAIN conns
    BY <1>0, <1>2, <1>3, <2>1, <2>2, HandleStream
  <2> QED
    BY <1>0, <1>4, <2>3, TurnHolds
<1>5. CASE wire' = w /\ UNCHANGED <<table, opened, closes, heard>>
  <2>1. NotifyClose(conns, {})
    BY <1>0, <1>5, NothingClosed
  <2>2. Ends({}, DOMAIN conns) /\ Forgets(DOMAIN conns)
    BY <1>2, <1>5, <2>1 DEF Ends, Forgets, table, ServerInv, Types, TableType, Links, HostsKnown
  <2>3. UNCHANGED <<mode, socks, nextId, opened, dropped>>
    BY <1>5 DEF Turn, table
  <2>4. /\ TableType' /\ Links' /\ CloseBalanced'
        /\ wire' \in [Socket -> WireState] /\ closes' \in [Id -> 0 .. 2]
    BY <1>0, <2>2, <2>3, Ending
  <2>5. HeardType' /\ DOMAIN conns' = DOMAIN conns
    BY <1>5 DEF table, ServerInv, Types, HistoryType, HeardType
  <2> QED
    BY <1>0, <2>3, <2>4, <2>5, TurnHolds
<1> QED
  BY <1>0, <1>1, <1>4, <1>5 DEF Receive

(****************************************************************************)
(* On UDP, a datagram and a failure are both received on the server's       *)
(* socket, the one with the address of its sender.                          *)
(****************************************************************************)
LEMMA ReceiveHolds ==
    ASSUME ServerInv, ~ TCP, Turn, NEW h \in Client \cup {Unresolved},
           h \in Client \/ DOMAIN conns # {},
           NEW sender \in Client \cup {Nobody}, NEW what,
           what = "data" => sender = h, sender # Nobody => sender = h,
           Receive(Listener, h, sender, what, wire),
           datagrams' \subseteq datagrams
    PROVE  ServerInv'
<1>0. wire \in [Socket -> WireState] /\ closes \in [Id -> 0 .. 2] /\ up
  BY DEF ServerInv, Types, WorldType, HistoryType, Claims, Settled, Turn
<1>1. CASE /\ KeyFor(Listener, h) # NoId
           /\ Handle(Reached(KeyFor(Listener, h)), KeyFor(Listener, h), sender, what, wire)
           /\ UNCHANGED <<hosts, socks, nextId, opened>>
  <2> DEFINE k == KeyFor(Listener, h)
  <2>1. k \in DOMAIN conns /\ Handle(conns, k, sender, what, wire)
    BY <1>1, KeyKnown
  <2>2. conns \in [DOMAIN conns -> Connection]
    BY DEF ServerInv, Types, TableType
  <2>3. sender # Nobody => sender = conns[k].host
    <3>1. h \in DOMAIN hosts => k = hosts[h]
      BY DistinctAssumption DEF KeyFor, ServerInv, Types, TableType
    <3>2. h \notin DOMAIN hosts => h = Unresolved
      BY <1>1 DEF KeyFor
    <3> QED
      BY <3>1, <3>2, DistinctAssumption DEF ServerInv, Links, HostsKnown
  <2> HIDE DEF k
  <2>4. /\ conns' \in [DOMAIN conns -> Connection]
        /\ \A j \in DOMAIN conns : /\ conns'[j].id = conns[j].id /\ conns'[j].host = conns[j].host
                                   /\ conns'[j].socket = conns[j].socket
        /\ wire' = wire /\ closes' \in [Id -> 0 .. 2]
        /\ heard' = heard \/ (what = "data" /\ heard' = <<conns[k].id, sender>>)
    BY <1>0, <2>1, <2>2, HandleDatagram
  <2>5. UNCHANGED <<mode, hosts, socks, nextId, wire, opened, dropped>>
    BY <1>1, <2>4 DEF Turn
  <2>6. TableType' /\ Links' /\ CloseBalanced'
    BY <2>4, <2>5, Ageing
  <2>7. /\ conns[k].id = k /\ opened[k] = conns[k].host
        /\ k \in 0 .. nextId - 1 /\ k # NoId
    BY <2>1, BoundAssumption DEF ServerInv, Types, TableType, Links, Recorded, NoId
  <2>8. HeardType' /\ DatagramFromSender'
    <3>1. CASE heard' = heard
      BY <2>5, <3>1 DEF ServerInv, Types, HistoryType, HeardType, Claims, DatagramFromSender,
                        DataFromSender, TCP
    <3>2. CASE heard' = <<conns[k].id, sender>>
      BY <2>3, <2>5, <2>7, <3>2 DEF HeardType, DatagramFromSender, DataFromSender
    <3> QED
      BY <2>4, <3>1, <3>2
  <2>9. DOMAIN conns' = DOMAIN conns
    BY <2>4
  <2> QED
    BY <1>0, <2>4, <2>5, <2>6, <2>8, <2>9, TurnHolds
<1>2. CASE /\ KeyFor(Listener, h) = NoId /\ h # Unresolved /\ HasRoom
           /\ Inserted(Listener, h)
           /\ Handle(With(conns, nextId, NewConnection(Listener, h)), nextId, sender, what, wire)
  <2>1. h \in Client
    BY <1>2
  <2>2. UNCHANGED <<mode, limit, up, starts, dropped, at>> /\ at = "read"
    BY DEF Turn
  <2>3. /\ TableType' /\ Links' /\ Claims'
        /\ opened' \in [Id -> Client \cup {Nobody}]
        /\ wire' \in [Socket -> WireState] /\ closes' \in [Id -> 0 .. 2]
        /\ HeardType'
    BY <1>0, <1>2, <2>1, <2>2, InsertDatagram
  <2>4. ServerType'
    <3>1. up' \in BOOLEAN
      BY Zenon DEF Turn, ServerInv, Types, ServerType
    <3> QED
      BY <3>1 DEF Turn, ServerInv, Types, ServerType
  <2>5. WorldType' /\ HistoryType'
    <3>1. nextId' = nextId + 1 /\ nextId \in Nat
      BY <1>2, BoundAssumption DEF Inserted, ServerInv, Types, TableType
    <3>2. dropped' \subseteq 1 .. nextId' - 1
      BY <3>1 DEF Turn, ServerInv, Types, HistoryType
    <3> QED
      BY <2>3, <3>2 DEF Turn, ServerInv, Types, WorldType, HistoryType
  <2> QED
    BY <2>3, <2>4, <2>5 DEF ServerInv, Types
<1>3. CASE wire' = wire /\ UNCHANGED <<table, opened, closes, heard>>
  BY <1>3, StayHolds
<1> QED
  BY <1>1, <1>2, <1>3 DEF Receive

LEMMA ReadHolds ==
    ASSUME ServerInv, Read
    PROVE  ServerInv'
<1>1. PICK e \in todo : /\ todo' = todo \ {e}
                        /\ ReadStream(e[2]) \/ ReadDatagram \/ ReadFails \/ NothingToRead(e[2])
  BY DEF Read
<1>2. Turn
  BY <1>1 DEF Read, Turn
<1>3. CASE ReadStream(e[2])
  BY <1>2, <1>3, ReadStreamHolds
<1>4. CASE ReadDatagram
  <2>1. PICK d \in datagrams : /\ Receive(Listener, d[1], d[1], d[2], wire)
                               /\ datagrams' = datagrams \ {d}
    BY <1>4 DEF ReadDatagram
  <2>2. d[1] \in Client /\ ~ TCP
    BY <1>4 DEF ReadDatagram, ServerInv, Types, WorldType
  <2> QED
    BY <1>2, <2>1, <2>2, ReceiveHolds
<1>5. CASE ReadFails
  <2>1. PICK h \in Garbage : Receive(Listener, h, Nobody, "end", wire)
    BY <1>5 DEF ReadFails
  <2>2. h \in Client \cup {Unresolved} /\ ~ TCP /\ DOMAIN conns # {} /\ datagrams' = datagrams
    BY <1>5, GarbageAssumption DEF ReadFails
  <2> QED
    BY <1>2, <2>1, <2>2, ReceiveHolds
<1>6. CASE NothingToRead(e[2])
  BY <1>2, <1>6, StayHolds DEF NothingToRead
<1> QED
  BY <1>1, <1>3, <1>4, <1>5, <1>6

-----------------------------------------------------------------------------
(****************************************************************************)
(* The other steps.  Those that leave the table, the handles and the        *)
(* history alone have only their own variables to account for.              *)
(****************************************************************************)
LEMMA TableKept ==
    ASSUME ServerInv, UNCHANGED <<mode, limit, table, wire, opened, closes, dropped>>
    PROVE  /\ TableType' /\ Links' /\ CloseBalanced'
           /\ wire' \in [Socket -> WireState] /\ closes' \in [Id -> 0 .. 2]
           /\ opened' \in [Id -> Client \cup {Nobody}] /\ dropped' \subseteq 1 .. nextId' - 1
<1>1. TableType' /\ CloseBalanced'
  BY DEF ServerInv, Types, TableType, Claims, CloseBalanced, TCP, Live, table
<1>2. Links'
  BY DEF ServerInv, Links, Recorded, HostsKnown, SocketsKnown, NoHandleLeak, OneSocket, TCP, Live, table
<1> QED
  BY <1>1, <1>2 DEF ServerInv, Types, WorldType, HistoryType, table

LEMMA HeardKept ==
    ASSUME ServerInv, UNCHANGED <<mode, nextId, opened>>, heard' \in {heard, Silence}
    PROVE  HeardType' /\ DatagramFromSender'
<1>1. CASE heard' = heard
  BY <1>1 DEF ServerInv, Types, HistoryType, HeardType, Claims, DatagramFromSender, DataFromSender, TCP
<1>2. CASE heard' = Silence
  BY <1>2, BoundAssumption DEF Silence, NoId, HeardType, DatagramFromSender, DataFromSender, ServerInv,
                               Types, TableType
<1> QED
  BY <1>1, <1>2

LEMMA StartHolds ==
    ASSUME ServerInv, Start
    PROVE  ServerInv'
<1>1. UNCHANGED <<mode, limit, table, wire, opened, closes, dropped, heard, at, todo, backlog, datagrams>>
  BY DEF Start, world, history
<1>2. ServerType'
  <2>1. up' \in BOOLEAN
    BY DEF Start
  <2>2. starts' \in 0 .. MaxStarts
    BY BoundAssumption DEF Start, ServerInv, Types, ServerType
  <2> QED
    BY <1>1, <2>1, <2>2 DEF ServerInv, Types, ServerType
<1>3. WorldType' /\ HistoryType'
  BY <1>1, TableKept, HeardKept DEF ServerInv, Types, WorldType, HistoryType, table
<1>4. Settled'
  BY <1>1 DEF Start, ServerInv, Claims, Settled, table, Live
<1>5. IdsSuffice'
  <2>1. limit \in Nat /\ starts \in Nat /\ nextId \in Nat /\ starts' = starts + 1
    BY LimitAssumption, BoundAssumption DEF Start, ServerInv, Types, TableType, ServerType
  <2>2. DOMAIN conns = {} /\ Cardinality(DOMAIN conns) = 0
    BY FS_EmptySet DEF Start, ServerInv, Claims, Settled
  <2>3. (starts + 1) * limit = starts * limit + limit /\ starts * limit \in Nat
    BY <2>1
  <2>4. nextId + limit <= starts' * limit + Cardinality(DOMAIN conns) + 1 \/ TCP
    BY <2>1, <2>2, <2>3 DEF Start, ServerInv, Claims, IdsSuffice
  <2> QED
    BY <1>1, <2>2, <2>4 DEF Start, ServerInv, Claims, IdsSuffice, TCP, table
<1>6. DatagramFromSender'
  BY <1>1, HeardKept DEF table
<1> QED
  BY <1>1, <1>2, <1>3, <1>4, <1>5, <1>6, TableKept DEF ServerInv, Types, Claims

LEMMA StopHolds ==
    ASSUME ServerInv, Stop
    PROVE  ServerInv'
<1>0. /\ DOMAIN conns' = {} /\ DOMAIN hosts' = {}
      /\ conns' \in [{} -> Connection] /\ hosts' \in [{} -> Id]
      /\ backlog' = <<>> /\ backlog' \in Seq(Client) /\ Len(backlog') = 0 /\ datagrams' = {}
      /\ dropped' = dropped \cup DOMAIN conns
      /\ UNCHANGED <<mode, limit, socks, nextId, at, todo, starts, opened, closes, heard>>
      /\ ~ up' /\ up /\ at = "idle" /\ (TCP' <=> TCP)
  BY EmptySeq DEF Stop, TCP
<1>1. TableType'
  BY <1>0 DEF ServerInv, Types, TableType
<1>2. ServerType'
  <2>1. up' \in BOOLEAN
    BY DEF Stop
  <2> QED
    BY <1>0, <2>1 DEF ServerInv, Types, ServerType
<1>3. wire' \in [Socket -> WireState] /\ \A s \in Socket : wire'[s] = Free
  <2>1. wire' = HungUp(wire, conns, DOMAIN conns) /\ Free \in WireState
    BY DEF Stop, Free, WireState
  <2>2. \A s \in Socket : wire'[s] = Free
    BY <2>1 DEF HungUp, ServerInv, Links, NoHandleLeak, OneSocket
  <2> QED
    BY <2>1, <2>2 DEF HungUp
<1>4. WorldType' /\ HistoryType'
  BY <1>0, <1>3 DEF ServerInv, Types, TableType, WorldType, HistoryType, HeardType
<1>5. Links'
  BY <1>0, <1>3 DEF Links, Recorded, HostsKnown, SocketsKnown, NoHandleLeak, OneSocket
<1>6. CloseBalanced'
  <2> SUFFICES ASSUME TCP, NEW i \in Id
               PROVE  closes[i] = IF i >= nextId \/ i \in dropped \/ i \in DOMAIN conns THEN 0 ELSE 1
    BY <1>0 DEF CloseBalanced
  <2> QED
    BY <1>0 DEF ServerInv, Claims, CloseBalanced, Settled
<1>7. Settled' /\ DatagramFromSender'
  BY <1>0 DEF Settled, ServerInv, Claims, DatagramFromSender, DataFromSender
<1>8. IdsSuffice'
  <2>1. Cardinality(DOMAIN conns') = 0
    BY <1>0, FS_EmptySet
  <2>2. CASE TCP
    <3>1. Len(backlog) \in Nat /\ nextId \in Nat /\ MaxDials \in Nat
      BY BoundAssumption DEF ServerInv, Types, TableType, WorldType
    <3> QED
      BY <1>0, <2>2, <3>1 DEF ServerInv, Claims, IdsSuffice
  <2>3. CASE ~ TCP
    <3>1. limit \in Nat /\ nextId \in Nat /\ starts \in Nat
      BY LimitAssumption, BoundAssumption DEF ServerInv, Types, TableType, ServerType
    <3>2. starts * limit \in Nat
      BY <3>1
    <3>3. nextId <= starts * limit + 1
      BY <1>0, <2>3, <3>1, <3>2, TableFinite DEF ServerInv, Claims, IdsSuffice
    <3> QED
      BY <1>0, <2>1, <2>3, <3>1, <3>3 DEF IdsSuffice
  <2> QED
    BY <2>2, <2>3
<1> QED
  BY <1>1, <1>2, <1>4, <1>5, <1>6, <1>7, <1>8 DEF ServerInv, Types, Claims

(****************************************************************************)
(* update() begins: the list is that of the table as it is after accept.    *)
(****************************************************************************)
LEMMA ListHolds ==
    ASSUME ServerInv, up, at = "idle", at' = "read", todo' = Snapshot(conns),
           heard' = Silence, datagrams' = datagrams,
           (TCP /\ backlog' = Tail(backlog) /\ backlog # <<>>) \/ backlog' = backlog,
           UNCHANGED <<mode, limit, up, table, wire, starts, opened, closes, dropped>>
    PROVE  ServerInv'
<1>1. Snapshot(conns) \subseteq (Id \cup {NoId}) \X (Socket \cup {Listener})
  <2>1. CASE TCP
    <3>1. \A k \in DOMAIN conns : k \in Id /\ conns[k].socket \in Socket
      BY <2>1, BoundAssumption
         DEF ServerInv, Types, TableType, Links, Recorded, Claims, Settled, Connection, Live, Id
    <3> QED
      BY <2>1, <3>1 DEF Snapshot
  <2>2. CASE ~ TCP
    BY <2>2 DEF Snapshot
  <2> QED
    BY <2>1, <2>2
<1>2. ServerType'
  <2>1. up' \in BOOLEAN
    BY Zenon DEF ServerInv, Types, ServerType
  <2> QED
    BY <1>1, <2>1 DEF ServerInv, Types, ServerType
<1>3. backlog' \in Seq(Client) /\ Len(backlog') <= Len(backlog) /\ Len(backlog') \in Nat
      /\ Len(backlog) \in Nat
  <2>1. backlog \in Seq(Client)
    BY DEF ServerInv, Types, WorldType
  <2> QED
    BY <2>1, HeadTailProperties, LenProperties
<1>4. WorldType' /\ HistoryType'
  BY <1>3, TableKept, HeardKept DEF ServerInv, Types, WorldType, HistoryType, table
<1>5. Settled'
  BY DEF ServerInv, Claims, Settled, table
<1>6. IdsSuffice'
  BY <1>3, BoundAssumption DEF ServerInv, Types, TableType, Claims, IdsSuffice, TCP, table
<1>7. DatagramFromSender'
  BY HeardKept DEF table
<1> QED
  BY <1>2, <1>4, <1>5, <1>6, <1>7, TableKept DEF ServerInv, Types, Claims

(****************************************************************************)
(* A client is accepted on a handle that is nobody's.                       *)
(****************************************************************************)
LEMMA AcceptClientHolds ==
    ASSUME ServerInv, up, at = "idle", NEW s \in Socket, AcceptClient(s),
           UNCHANGED <<mode, limit, up, starts, dropped>>
    PROVE  ServerInv'
<1> DEFINE h == Head(backlog)
           cs == With(conns, nextId, NewConnection(s, h))
<1>0. /\ TCP /\ TCP' /\ backlog # <<>> /\ wire[s] = Free /\ conns' = cs /\ Inserted(s, h)
      /\ wire' = [wire EXCEPT ![s].peer = h] /\ backlog' = Tail(backlog)
      /\ at' = "read" /\ todo' = Snapshot(conns') /\ heard' = Silence
      /\ UNCHANGED <<datagrams, closes>>
  BY DEF AcceptClient, BeginRead, TCP
<1>1. h \in Client /\ nextId \in Id
  <2>1. backlog \in Seq(Client)
    BY DEF ServerInv, Types, WorldType
  <2> QED
    BY <1>0, <2>1, IdLeft, HeadTailProperties
<1>2. /\ DOMAIN cs = DOMAIN conns \cup {nextId} /\ nextId \notin DOMAIN conns
      /\ cs \in [DOMAIN cs -> Connection]
      /\ \A k \in DOMAIN conns : cs[k] = conns[k]
      /\ cs[nextId].id = nextId /\ cs[nextId].socket = s /\ cs[nextId].host = h
      /\ DOMAIN cs \subseteq 1 .. nextId' - 1
      /\ nextId' \in 1 .. MaxId + 1 /\ nextId' = nextId + 1
      /\ hosts' \in [DOMAIN hosts' -> Id] /\ DOMAIN hosts' \subseteq Client
      /\ socks' \in [DOMAIN socks' -> Id] /\ DOMAIN socks' \subseteq Socket \cup {Listener}
      /\ opened' \in [Id -> Client \cup {Nobody}]
      /\ \A i \in Id : opened'[i] = IF i = nextId THEN h ELSE opened[i]
  <2>1. s \in Socket \cup {Listener}
    OBVIOUS
  <2>2. Inserted(s, h) /\ cs = With(conns, nextId, NewConnection(s, h))
    BY <1>0
  <2> HIDE DEF cs, h
  <2> QED
    <3>1. NewTable(cs, s, h)
      BY <1>1, <2>1, <2>2, NewRecords
    <3> QED BY <3>1 DEF NewTable
<1>3. /\ \A g : g # h /\ g \in DOMAIN hosts' => g \in DOMAIN hosts /\ hosts'[g] = hosts[g]
      /\ hosts'[h] = nextId /\ s \in DOMAIN socks' /\ socks'[s] = nextId
      /\ \A r \in DOMAIN socks : r # s => socks'[r] = socks[r]
  BY <1>0 DEF Inserted, With
<1> HIDE DEF cs, h
<1>4. \A k \in DOMAIN conns : k \in Id /\ k < nextId /\ conns[k] \in Connection
  BY BoundAssumption DEF ServerInv, Types, TableType, Id
<1>5. \A k \in DOMAIN conns : Live(conns[k]) /\ conns[k].socket \in Socket /\ conns[k].socket # s
  <2> SUFFICES ASSUME NEW k \in DOMAIN conns
               PROVE  Live(conns[k]) /\ conns[k].socket \in Socket /\ conns[k].socket # s
    OBVIOUS
  <2>1. Live(conns[k]) /\ conns[k].socket \in Socket
    BY <1>0, <1>4 DEF ServerInv, Links, Recorded, Claims, Settled, Live, Connection
  <2>2. wire[conns[k].socket].peer \in Client
    BY <1>0, <2>1 DEF ServerInv, Links, Recorded, SocketsKnown
  <2> QED
    BY <1>0, <2>1, <2>2, DistinctAssumption DEF Free
<1>6. TableType'
  BY <1>0, <1>2 DEF TableType
<1>7. Recorded'
  <2>1. nextId \notin dropped
    BY <1>1, BoundAssumption DEF ServerInv, Types, HistoryType, Id
  <2> QED
    BY <1>0, <1>1, <1>2, <1>4, <2>1, DistinctAssumption DEF ServerInv, Links, Recorded
<1>8. HostsKnown'
  BY <1>0, <1>2, <1>3 DEF ServerInv, Links, HostsKnown
<1>9. wire' \in [Socket -> WireState] /\ wire'[s].peer = h /\ \A r \in Socket \ {s} : wire'[r] = wire[r]
  BY <1>0, <1>1 DEF ServerInv, Types, WorldType, WireState
<1>10. SocketsKnown'
  <2> SUFFICES ASSUME NEW k \in DOMAIN conns'
               PROVE  /\ conns'[k].socket \in DOMAIN socks' /\ socks'[conns'[k].socket] = k
                      /\ wire'[conns'[k].socket].peer = opened'[k]
    BY DEF SocketsKnown
  <2>1. CASE k = nextId
    BY <1>0, <1>1, <1>2, <1>3, <1>9, <2>1
  <2>2. CASE k \in DOMAIN conns
    <3>1. conns'[k] = conns[k] /\ opened'[k] = opened[k] /\ conns[k].socket \in Socket \ {s}
      BY <1>0, <1>2, <1>4, <1>5, <2>2
    <3>2. /\ conns[k].socket \in DOMAIN socks /\ socks[conns[k].socket] = k
          /\ wire[conns[k].socket].peer = opened[k]
      BY <1>0, <1>5, <2>2 DEF ServerInv, Links, SocketsKnown
    <3>3. /\ conns[k].socket \in DOMAIN socks'
          /\ socks'[conns[k].socket] = socks[conns[k].socket]
      BY <1>0, <3>1, <3>2 DEF Inserted, With
    <3> QED
      BY <1>9, <3>1, <3>2, <3>3
  <2> QED
    BY <1>0, <1>2, <2>1, <2>2
<1>11. NoHandleLeak' /\ OneSocket'
  BY <1>0, <1>2, <1>9 DEF ServerInv, Links, NoHandleLeak, OneSocket
<1>12. ServerType'
  <2>1. up' \in BOOLEAN
    BY Zenon DEF ServerInv, Types, ServerType
  <2>2. \A k \in DOMAIN conns' : conns'[k].socket \in Socket /\ k \in Id
    BY <1>0, <1>1, <1>2, <1>4, <1>5
  <2>3. todo' \subseteq (Id \cup {NoId}) \X (Socket \cup {Listener})
    BY <1>0, <2>2 DEF Snapshot
  <2> QED
    BY <1>0, <2>1, <2>3 DEF ServerInv, Types, ServerType
<1>13. /\ WorldType' /\ HistoryType'
       /\ Len(backlog') = Len(backlog) - 1 /\ Len(backlog) \in Nat
  <2>1. backlog \in Seq(Client)
    BY DEF ServerInv, Types, WorldType
  <2>2. backlog' \in Seq(Client) /\ Len(backlog') = Len(backlog) - 1 /\ Len(backlog) \in Nat
    BY <1>0, <2>1, HeadTailProperties, LenProperties
  <2>3. nextId \in Nat
    BY BoundAssumption DEF ServerInv, Types, TableType
  <2>4. HeardType' /\ dropped' \subseteq 1 .. nextId' - 1
    BY <1>0, <1>2, <2>3 DEF HeardType, Silence, NoId, ServerInv, Types, HistoryType
  <2> QED
    BY <1>0, <1>2, <1>9, <2>2, <2>4 DEF ServerInv, Types, WorldType, HistoryType
<1>14. CloseBalanced'
  <2> SUFFICES ASSUME NEW i \in Id
               PROVE  closes[i] = IF \/ i >= nextId + 1 \/ i \in dropped \/ i \in DOMAIN conns'
                                  THEN 0 ELSE 1
    BY <1>0, <1>2, <1>5, DistinctAssumption DEF CloseBalanced, Live
  <2>1. closes[i] = IF i >= nextId \/ i \in dropped \/ i \in DOMAIN conns THEN 0 ELSE 1
    BY <1>0, <1>5 DEF ServerInv, Claims, CloseBalanced
  <2>2. i >= nextId <=> i >= nextId + 1 \/ i = nextId
    BY <1>1, BoundAssumption DEF Id
  <2> QED
    BY <1>0, <1>2, <2>1, <2>2
<1>15. Settled' /\ DatagramFromSender'
  BY <1>0 DEF Settled, DatagramFromSender
<1>16. IdsSuffice'
  <2>1. nextId \in Nat /\ MaxDials \in Nat
    BY BoundAssumption DEF ServerInv, Types, TableType
  <2> QED
    BY <1>0, <1>2, <1>13, <2>1 DEF ServerInv, Claims, IdsSuffice
<1> QED
  BY <1>6, <1>7, <1>8, <1>10, <1>11, <1>12, <1>13, <1>14, <1>15, <1>16
     DEF ServerInv, Types, Links, Claims

LEMMA AcceptHolds ==
    ASSUME ServerInv, Accept
    PROVE  ServerInv'
<1>0. up /\ at = "idle" /\ UNCHANGED <<mode, limit, up, starts, dropped>>
  BY DEF Accept
<1>1. CASE AcceptNothing
  BY <1>0, <1>1, ListHolds DEF AcceptNothing, BeginRead, world
<1>2. CASE AcceptRefused
  BY <1>0, <1>2, ListHolds DEF AcceptRefused, BeginRead
<1>3. ASSUME NEW s \in Socket, AcceptClient(s)
      PROVE  ServerInv'
  BY <1>0, <1>3, AcceptClientHolds
<1> QED
  BY <1>1, <1>2, <1>3 DEF Accept

LEMMA AcceptFailsHolds ==
    ASSUME ServerInv, AcceptFails
    PROVE  ServerInv'
<1>0. /\ up /\ at = "idle" /\ TCP /\ backlog # <<>> /\ backlog' = Tail(backlog)
      /\ UNCHANGED <<mode, limit, up, table, at, todo, starts, wire, datagrams, opened, closes,
                     dropped, heard>>
  BY DEF AcceptFails, history
<1>1. backlog \in Seq(Client) /\ backlog' \in Seq(Client) /\ Len(backlog') = Len(backlog) - 1
      /\ Len(backlog) \in Nat
  <2>1. backlog \in Seq(Client)
    BY DEF ServerInv, Types, WorldType
  <2> QED
    BY <1>0, <2>1, HeadTailProperties, LenProperties
<1>2. ServerType'
  <2>1. up' \in BOOLEAN
    BY <1>0, Zenon DEF ServerInv, Types, ServerType
  <2> QED
    BY <1>0, <2>1 DEF ServerInv, Types, ServerType
<1>3. WorldType' /\ HistoryType' /\ DatagramFromSender'
  BY <1>0, <1>1, TableKept, HeardKept DEF ServerInv, Types, WorldType, HistoryType, table
<1>4. Settled'
  BY <1>0 DEF ServerInv, Claims, Settled, table, Live
<1>5. IdsSuffice'
  BY <1>0, <1>1, BoundAssumption DEF ServerInv, Types, TableType, Claims, IdsSuffice, TCP, table
<1> QED
  BY <1>0, <1>2, <1>3, <1>4, <1>5, TableKept DEF ServerInv, Types, Claims

(****************************************************************************)
(* Clients call, send and leave: the handles keep their clients.            *)
(****************************************************************************)
LEMMA ClientConnectsHolds ==
    ASSUME ServerInv, NEW c \in Client, ClientConnects(c)
    PROVE  ServerInv'
<1>0. /\ TCP /\ up /\ backlog' = Append(backlog, c) /\ nextId + Len(backlog) <= MaxDials
      /\ UNCHANGED <<mode, limit, up, table, at, todo, starts, wire, datagrams, opened, closes,
                     dropped, heard>>
  BY DEF ClientConnects, history
<1>1. backlog' \in Seq(Client) /\ Len(backlog') = Len(backlog) + 1 /\ Len(backlog) \in Nat
  <2>1. backlog \in Seq(Client)
    BY DEF ServerInv, Types, WorldType
  <2> QED
    BY <1>0, <2>1, AppendProperties, LenProperties
<1>2. ServerType'
  <2>1. up' \in BOOLEAN
    BY <1>0, Zenon DEF ServerInv, Types, ServerType
  <2> QED
    BY <1>0, <2>1 DEF ServerInv, Types, ServerType
<1>3. WorldType' /\ HistoryType' /\ DatagramFromSender'
  BY <1>0, <1>1, TableKept, HeardKept DEF ServerInv, Types, WorldType, HistoryType, table
<1>4. Settled'
  BY <1>0 DEF ServerInv, Claims, Settled, table, Live
<1>5. IdsSuffice'
  BY <1>0, <1>1, BoundAssumption DEF ServerInv, Types, TableType, IdsSuffice, TCP, table
<1> QED
  BY <1>0, <1>2, <1>3, <1>4, <1>5, TableKept DEF ServerInv, Types, Claims

(****************************************************************************)
(* What changes only the records or the wire, in accord with Ending.        *)
(****************************************************************************)
LEMMA OutsideHolds ==
    ASSUME ServerInv, TableType', Links', CloseBalanced', DOMAIN conns' = DOMAIN conns,
           \A k \in DOMAIN conns : Live(conns[k]) => Live(conns[k])',
           wire' \in [Socket -> WireState],
           UNCHANGED <<mode, limit, up, nextId, at, todo, starts, backlog, datagrams, history>>
    PROVE  ServerInv'
<1>1. ServerType'
  <2>1. up' \in BOOLEAN
    BY Zenon DEF ServerInv, Types, ServerType
  <2> QED
    BY <2>1 DEF ServerInv, Types, ServerType
<1>2. WorldType' /\ HistoryType' /\ DatagramFromSender'
  BY HeardKept DEF ServerInv, Types, WorldType, HistoryType, history
<1>3. Settled'
  BY DEF ServerInv, Claims, Settled
<1>4. IdsSuffice'
  BY DEF ServerInv, Claims, IdsSuffice, TCP
<1> QED
  BY <1>1, <1>2, <1>3, <1>4 DEF ServerInv, Types, Claims

LEMMA TickHolds ==
    ASSUME ServerInv, Tick
    PROVE  ServerInv'
<1>0. UNCHANGED <<mode, limit, up, hosts, socks, nextId, at, todo, starts, backlog, datagrams,
                  wire, opened, closes, dropped, history>>
  BY DEF Tick, world, history
<1>1. /\ conns' \in [DOMAIN conns -> Connection]
      /\ \A k \in DOMAIN conns :
            /\ conns'[k].id = conns[k].id /\ conns'[k].host = conns[k].host
            /\ conns'[k].socket = conns[k].socket
  <2>1. \A k \in DOMAIN conns : conns[k] \in Connection
    BY DEF ServerInv, Types, TableType
  <2>2. ASSUME NEW c \in Connection
        PROVE  /\ [c EXCEPT !.age = IF @ <= Timeout THEN @ + 1 ELSE @] \in Connection
               /\ [c EXCEPT !.age = IF @ <= Timeout THEN @ + 1 ELSE @].id = c.id
               /\ [c EXCEPT !.age = IF @ <= Timeout THEN @ + 1 ELSE @].host = c.host
               /\ [c EXCEPT !.age = IF @ <= Timeout THEN @ + 1 ELSE @].socket = c.socket
    <3>1. c.age \in 0 .. Timeout + 1 /\ Timeout \in Nat
      BY LimitAssumption DEF Connection
    <3>2. (IF c.age <= Timeout THEN c.age + 1 ELSE c.age) \in 0 .. Timeout + 1
      BY <3>1
    <3> QED
      BY <3>2 DEF Connection
  <2> QED
    BY <2>1, <2>2 DEF Tick
<1>2. TableType' /\ Links' /\ CloseBalanced'
  <2>1. CASE ~ TCP
    BY <1>0, <1>1, <2>1, Ageing
  <2>2. CASE TCP
    <3>1. NotifyClose(conns, {})
      BY <1>0, NothingClosed DEF ServerInv, Types, HistoryType
    <3>2. Ends({}, DOMAIN conns) /\ Forgets(DOMAIN conns)
      BY <1>0, <1>1, <3>1 DEF Ends, Forgets, ServerInv, Types, TableType, WorldType, Links, HostsKnown
    <3> QED
      BY <1>0, <2>2, <3>2, Ending
  <2> QED
    BY <2>1, <2>2
<1>3. wire' \in [Socket -> WireState]
  BY <1>0 DEF ServerInv, Types, WorldType
<1>4. \A k \in DOMAIN conns : Live(conns[k]) => Live(conns[k])'
  BY <1>1 DEF Live
<1>5. DOMAIN conns' = DOMAIN conns
  BY <1>1
<1> QED
  BY <1>0, <1>2, <1>3, <1>4, <1>5, OutsideHolds

LEMMA ClientActsHolds ==
    ASSUME ServerInv, NEW s \in Socket, ClientSends(s) \/ ClientLeaves(s)
    PROVE  ServerInv'
<1>0. /\ UNCHANGED <<mode, limit, up, table, at, todo, starts, backlog, datagrams, history>>
      /\ wire[s].peer # Nobody /\ wire \in [Socket -> WireState]
      /\ wire' = [wire EXCEPT ![s].data = TRUE] \/ wire' = [wire EXCEPT ![s].gone = TRUE]
  BY DEF ClientSends, ClientLeaves, ServerInv, Types, WorldType
<1>1. /\ wire' \in [Socket -> WireState]
      /\ \A r \in Socket : wire'[r].peer = wire[r].peer /\ (wire[r] = Free => wire'[r] = Free)
  <2>1. wire[s] # Free
    BY <1>0 DEF Free
  <2>2. /\ [wire[s] EXCEPT !.data = TRUE] \in WireState
        /\ [wire[s] EXCEPT !.data = TRUE].peer = wire[s].peer
    BY <1>0 DEF WireState
  <2>3. /\ [wire[s] EXCEPT !.gone = TRUE] \in WireState
        /\ [wire[s] EXCEPT !.gone = TRUE].peer = wire[s].peer
    BY <1>0 DEF WireState
  <2>4. CASE wire' = [wire EXCEPT ![s].data = TRUE]
    BY <1>0, <2>1, <2>2, <2>4
  <2>5. CASE wire' = [wire EXCEPT ![s].gone = TRUE]
    BY <1>0, <2>1, <2>3, <2>5
  <2> QED
    BY <1>0, <2>4, <2>5
<1>2. TCP
  BY <1>0 DEF ServerInv, Links, OneSocket, Free
<1>3. NotifyClose(conns, {})
  BY <1>0, NothingClosed DEF history, ServerInv, Types, HistoryType
<1>4. Ends({}, DOMAIN conns) /\ Forgets(DOMAIN conns)
  BY <1>0, <1>1, <1>3 DEF Ends, Forgets, table, ServerInv, Types, TableType, Links, HostsKnown
<1>5. UNCHANGED <<mode, socks, nextId, opened, dropped>> /\ conns' = conns
  BY <1>0 DEF table, history
<1>6. TableType' /\ Links' /\ CloseBalanced'
  BY <1>2, <1>4, <1>5, Ending
<1> QED
  BY <1>0, <1>1, <1>5, <1>6, OutsideHolds DEF Live

LEMMA DatagramArrivesHolds ==
    ASSUME ServerInv, NEW c \in Client, NEW kind \in {"data", "end"}, DatagramArrives(c, kind)
    PROVE  ServerInv'
<1>0. /\ UNCHANGED <<mode, limit, up, table, at, todo, starts, backlog, wire, opened, closes,
                     dropped, heard>>
      /\ up /\ datagrams' = datagrams \cup {<<c, kind>>}
  BY DEF DatagramArrives, history
<1>1. ServerType'
  <2>1. up' \in BOOLEAN
    BY <1>0, Zenon DEF ServerInv, Types, ServerType
  <2> QED
    BY <1>0, <2>1 DEF ServerInv, Types, ServerType
<1>2. WorldType' /\ HistoryType' /\ DatagramFromSender'
  BY <1>0, TableKept, HeardKept DEF ServerInv, Types, WorldType, HistoryType, table
<1>3. Settled'
  BY <1>0 DEF ServerInv, Claims, Settled, table, Live
<1>4. IdsSuffice'
  BY <1>0 DEF ServerInv, Claims, IdsSuffice, TCP, table
<1> QED
  BY <1>0, <1>1, <1>2, <1>3, <1>4, TableKept DEF ServerInv, Types, Claims

(****************************************************************************)
(* The end of an update: what was silent for too long is closed, and what   *)
(* is closed goes, with the names of its clients.                           *)
(****************************************************************************)
LEMMA SweepHolds ==
    ASSUME ServerInv, Sweep
    PROVE  ServerInv'
<1> DEFINE expired == {k \in DOMAIN conns : conns[k].age > Timeout}
           swept == Closed(conns, expired)
           erased == {k \in DOMAIN swept : ~ Live(swept[k])}
           D == DOMAIN conns \ erased
<1>0. /\ at = "read" /\ up /\ todo = {} /\ at' = "idle" /\ heard' = Silence
      /\ conns' = Without(swept, erased)
      /\ hosts' = Without(hosts, {conns[k].host : k \in erased})
      /\ wire' = HungUp(wire, conns, expired) /\ NotifyClose(conns, expired)
      /\ UNCHANGED <<mode, limit, up, socks, nextId, todo, starts, backlog, datagrams, opened, dropped>>
  BY DEF Sweep, ServerInv, Claims, Settled
<1>1. /\ swept \in [DOMAIN conns -> Connection] /\ DOMAIN swept = DOMAIN conns
      /\ \A k \in DOMAIN conns :
            /\ swept[k].id = conns[k].id /\ swept[k].host = conns[k].host
            /\ swept[k].socket = IF TCP /\ k \in expired THEN NoSocket ELSE conns[k].socket
  <2>1. conns \in [DOMAIN conns -> Connection]
    BY DEF ServerInv, Types, TableType
  <2> QED
    BY <2>1, ClosedRecords
<1>2. expired \in SUBSET DOMAIN conns /\ D \in SUBSET DOMAIN conns /\ erased \subseteq DOMAIN conns
  BY <1>1
<1> HIDE DEF expired, swept
<1>3. /\ conns' \in [D -> Connection] /\ DOMAIN conns' = D
      /\ \A k \in D : conns'[k] = swept[k] /\ Live(swept[k])
  BY <1>0, <1>1 DEF Without
<1>4. /\ \A h \in DOMAIN hosts' : h \in DOMAIN hosts /\ hosts'[h] = hosts[h] /\ hosts[h] \in D
      /\ hosts' \in [DOMAIN hosts' -> Id]
  <2>1. hosts \in [DOMAIN hosts -> Id]
    BY DEF ServerInv, Types, TableType
  <2>2. /\ hosts' \in [DOMAIN hosts' -> Id]
        /\ \A h \in DOMAIN hosts' : /\ h \in DOMAIN hosts /\ hosts'[h] = hosts[h]
                                    /\ \A k \in erased : conns[k].host # h
    BY <1>0, <2>1 DEF Without
  <2> QED
    BY <2>2 DEF ServerInv, Links, HostsKnown
<1>5. TableType' /\ Links' /\ CloseBalanced' /\ wire' \in [Socket -> WireState] /\ closes' \in [Id -> 0 .. 2]
  <2>1. CASE TCP
    <3>1. HungUp(wire, conns, expired) \in [Socket -> WireState]
      BY DEF HungUp, Free, WireState, ServerInv, Types, WorldType
    <3>2. \A s \in Socket : wire'[s] = IF \E k \in expired : conns[k].socket = s THEN Free ELSE wire[s]
      BY <1>0, <2>1 DEF HungUp
    <3>3. \A k \in DOMAIN conns : k \in D \/ k \in expired \/ ~ Live(conns[k])
      BY <1>1 DEF Live
    <3>4. Ends(expired, D)
      BY <1>0, <1>1, <1>3, <2>1, <3>1, <3>2, <3>3 DEF Ends
    <3>5. Forgets(D)
      BY <1>4 DEF Forgets
    <3> HIDE DEF D
    <3>6. UNCHANGED <<mode, socks, nextId, opened, dropped>>
      BY <1>0
    <3> QED
      BY <1>2, <2>1, <3>4, <3>5, <3>6, Ending
  <2>2. CASE ~ TCP
    <3>1. erased = {}
      BY <1>1, <2>2, DistinctAssumption DEF Live, ServerInv, Links, Recorded
    <3>2. D = DOMAIN conns
      BY <3>1
    <3>3. hosts' = hosts
      <4>1. {conns[k].host : k \in erased} = {}
        BY <3>1
      <4>2. hosts \in [DOMAIN hosts -> Id]
        BY DEF ServerInv, Types, TableType
      <4> QED
        BY <1>0, <4>1, <4>2 DEF Without
    <3>4. wire' = wire /\ wire \in [Socket -> WireState]
      BY <1>0, <2>2 DEF HungUp, ServerInv, Types, WorldType
    <3>5. closes' \in [Id -> 0 .. 2]
      BY <1>0 DEF NotifyClose, ServerInv, Types, HistoryType
    <3>6. /\ conns' \in [DOMAIN conns -> Connection]
          /\ \A k \in DOMAIN conns :
                /\ conns'[k].id = conns[k].id /\ conns'[k].host = conns[k].host
                /\ conns'[k].socket = conns[k].socket
      BY <1>1, <1>3, <2>2, <3>2
    <3> QED
      BY <1>0, <2>2, <3>3, <3>4, <3>5, <3>6, Ageing
  <2> QED
    BY <2>1, <2>2
<1>6. ServerType'
  <2>1. up' \in BOOLEAN
    BY <1>0, Zenon DEF ServerInv, Types, ServerType
  <2> QED
    BY <1>0, <2>1 DEF ServerInv, Types, ServerType
<1>7. WorldType' /\ HistoryType' /\ DatagramFromSender'
  BY <1>0, <1>5, HeardKept DEF ServerInv, Types, WorldType, HistoryType
<1>8. Settled'
  BY <1>0, <1>3 DEF Settled
<1>9. IdsSuffice'
  <2>1. CASE TCP
    BY <1>0, <2>1 DEF ServerInv, Claims, IdsSuffice, TCP
  <2>2. CASE ~ TCP
    <3>1. erased = {}
      BY <1>1, <2>2, DistinctAssumption DEF Live, ServerInv, Links, Recorded
    <3>2. D = DOMAIN conns
      BY <3>1
    <3> QED
      BY <1>0, <1>3, <2>2, <3>2 DEF ServerInv, Claims, IdsSuffice, TCP
  <2> QED
    BY <2>1, <2>2
<1> QED
  BY <1>5, <1>6, <1>7, <1>8, <1>9 DEF ServerInv, Types, Claims

-----------------------------------------------------------------------------
LEMMA StutterHolds ==
    ASSUME ServerInv, UNCHANGED vars
    PROVE  ServerInv'
<1>0. UNCHANGED <<mode, limit, up, table, at, todo, starts, backlog, wire, datagrams, opened, closes,
                  dropped, heard>>
  BY DEF vars, world, history
<1>1. ServerType'
  <2>1. up' \in BOOLEAN
    BY <1>0, Zenon DEF ServerInv, Types, ServerType
  <2> QED
    BY <1>0, <2>1 DEF ServerInv, Types, ServerType
<1>2. WorldType' /\ HistoryType' /\ DatagramFromSender'
  BY <1>0, TableKept, HeardKept DEF ServerInv, Types, WorldType, HistoryType, table
<1>3. Settled' /\ IdsSuffice'
  BY <1>0 DEF ServerInv, Claims, Settled, IdsSuffice, TCP, table, Live
<1> QED
  BY <1>0, <1>1, <1>2, <1>3, TableKept DEF ServerInv, Types, Claims

LEMMA NextHolds == ServerInv /\ [Next]_vars => ServerInv'
<1> SUFFICES ASSUME ServerInv, [Next]_vars PROVE ServerInv'
  OBVIOUS
<1>1. CASE Start
  BY <1>1, StartHolds
<1>2. CASE Stop
  BY <1>2, StopHolds
<1>3. CASE Tick
  BY <1>3, TickHolds
<1>4. CASE Accept
  BY <1>4, AcceptHolds
<1>5. CASE AcceptFails
  BY <1>5, AcceptFailsHolds
<1>6. CASE Read
  BY <1>6, ReadHolds
<1>7. CASE Sweep
  BY <1>7, SweepHolds
<1>8. ASSUME NEW c \in Client, ClientConnects(c) PROVE ServerInv'
  BY <1>8, ClientConnectsHolds
<1>9. ASSUME NEW s \in Socket, ClientSends(s) \/ ClientLeaves(s) PROVE ServerInv'
  BY <1>9, ClientActsHolds
<1>10. ASSUME NEW c \in Client, NEW kind \in {"data", "end"}, DatagramArrives(c, kind) PROVE ServerInv'
  BY <1>10, DatagramArrivesHolds
<1>11. CASE UNCHANGED vars
  BY <1>11, StutterHolds
<1> QED
  BY <1>1, <1>2, <1>3, <1>4, <1>5, <1>6, <1>7, <1>8, <1>9, <1>10, <1>11 DEF Next

(****************************************************************************)
(* The invariant holds in every state of the server.                        *)
(****************************************************************************)
THEOREM ServerInvariant == Spec => []ServerInv
  BY InitHolds, NextHolds, PTL DEF Spec

(****************************************************************************)
(* Every variable has its type; in particular the bound on the ids is never *)
(* met by a connection that the bounds on dials and starts allow.           *)
(****************************************************************************)
THEOREM TypeCorrect == Spec => []TypeOK
  BY ServerInvariant, InvImpliesTypeOK, PTL

(****************************************************************************)
(* The host index names only connections of the table, with that host, so   *)
(* that getConnectionForHost (net_server.cpp:486) makes up no entry.        *)
(****************************************************************************)
THEOREM HostsKnownHolds == Spec => []HostsKnown
<1>1. ServerInv => HostsKnown
  BY DEF ServerInv, Links
<1> QED
  BY <1>1, ServerInvariant, PTL

(****************************************************************************)
(* On TCP a live connection has the open handle of its client, and the      *)
(* socket index, which forgets nothing, names it for this handle.           *)
(****************************************************************************)
THEOREM SocketsKnownHolds == Spec => []SocketsKnown
<1>1. ServerInv => SocketsKnown
  BY DEF ServerInv, Links
<1> QED
  BY <1>1, ServerInvariant, PTL

(****************************************************************************)
(* An accepted handle that is open is the socket of a connection.           *)
(****************************************************************************)
THEOREM NoHandleLeakHolds == Spec => []NoHandleLeak
<1>1. ServerInv => NoHandleLeak
  BY DEF ServerInv, Links
<1> QED
  BY <1>1, ServerInvariant, PTL

(****************************************************************************)
(* On TCP handler.close is called exactly once for a connection that ended, *)
(* and never for one that has not, or that stop() dropped.                  *)
(****************************************************************************)
THEOREM CloseBalancedHolds == Spec => []CloseBalanced
<1>1. ServerInv => CloseBalanced
  BY DEF ServerInv, Claims
<1> QED
  BY <1>1, ServerInvariant, PTL

(****************************************************************************)
(* On UDP the handler gets data under the id of its sender.                 *)
(****************************************************************************)
THEOREM DatagramFromSenderHolds == Spec => []DatagramFromSender
<1>1. ServerInv => DatagramFromSender
  BY DEF ServerInv, Claims
<1> QED
  BY <1>1, ServerInvariant, PTL
=============================================================================
