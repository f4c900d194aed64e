-------------------------------- MODULE Server --------------------------------
(***************************************************************************)
(* The demo server (aux/main.cpp and aux/connection.cpp): one thread, in   *)
(* which libevent calls on_accept when somebody waits at the listening     *)
(* socket and on_rtmp_read when there is something to read from the socket *)
(* of a connection.  What a connection does with the bytes it reads is the *)
(* subject of Handshake, ChunkStream and Rpc; here a feed succeeds, fails  *)
(* an assertion or never returns.  Either of the last two takes all        *)
(* connections with it.                                                    *)
(*                                                                         *)
(* Sockets and peers belong to the environment.  read() returns -1 for a   *)
(* connection that was reset.                                              *)
(***************************************************************************)
EXTENDS Naturals, FiniteSets

CONSTANTS MaxPeers,     \* bound on the peers that connect
          MaxFds,       \* the descriptors the process may have for connections
          Feeds,        \* what peers send: see Sends
          Resets        \* whether a peer may reset its connection

ASSUME ServerAssumption == /\ MaxPeers \in Nat /\ MaxFds \in Nat
                           /\ Feeds \subseteq {"whole", "cut", "bad"}
                           /\ Resets \in BOOLEAN

Peers == 1 .. MaxPeers

VARIABLES
  \* the environment
  peer,              \* what each peer has done: "absent", "open", "closed", "reset"
  unread,            \* what each peer has sent and nobody has read
  backlog,           \* the peers that wait to be accepted
  \* the process
  fds,               \* its open descriptors, each named by the peer at the other end
  connectionMap,     \* the peer of each Connection, by connId
  nextConnectionId,
  events,            \* the connIds with an event registered for their descriptor
  process            \* "running", "hung", "aborted" or "exited"

environment == << peer, unread, backlog >>
table       == << connectionMap, nextConnectionId, events >>
vars        == << environment, fds, table, process >>

\* Connection::initMethodTable, init_daemon.
Init ==
  /\ peer = [p \in Peers |-> "absent"] /\ unread = [p \in Peers |-> {}]
  /\ backlog = {}
  /\ fds = {} /\ connectionMap = << >> /\ nextConnectionId = 1 /\ events = {}
  /\ process = "running"

-----------------------------------------------------------------------------
(* The peers.                                                              *)

Connect(p) == /\ peer[p] = "absent"
              /\ peer' = [peer EXCEPT ![p] = "open"]
              /\ backlog' = backlog \cup {p}
              /\ UNCHANGED << unread, fds, table, process >>

\* Bytes that can be fed, or that stop the one who feeds them: "cut" inside a packet
\* header, or "bad" by some assertion.  A peer may send for ever.
Sends(p) == /\ peer[p] = "open" /\ unread[p] = {}
            /\ \E bytes \in Feeds : unread' = [unread EXCEPT ![p] = {bytes}]
            /\ UNCHANGED << peer, backlog, fds, table, process >>

\* What was sent before is still read after a close, and not after a reset.
Closes(p) == /\ peer[p] = "open"
             /\ peer' = [peer EXCEPT ![p] = "closed"]
             /\ UNCHANGED << unread, backlog, fds, table, process >>

ResetBy(p) == /\ Resets /\ peer[p] = "open"
              /\ peer' = [peer EXCEPT ![p] = "reset"]
              /\ unread' = [unread EXCEPT ![p] = {}]
              /\ UNCHANGED << backlog, fds, table, process >>

-----------------------------------------------------------------------------
(* The process.                                                            *)

\* Broken: the event of the listening socket does not persist.
OnAcceptOnce(p) ==
  /\ process = "running" /\ p \in backlog
  /\ nextConnectionId = 1 /\ Cardinality(fds) < MaxFds
  /\ backlog' = backlog \ {p}
  /\ fds' = fds \cup {p}
  /\ connectionMap' = [c \in {nextConnectionId} |-> p]
  /\ events' = events \cup {nextConnectionId}
  /\ nextConnectionId' = nextConnectionId + 1
  /\ UNCHANGED << peer, unread, process >>

\* on_accept: a Connection, in the table and with an event.  Without a descriptor to
\* spare accept() fails, and the peer waits on.
OnAccept(p) ==
  /\ process = "running" /\ p \in backlog
  /\ Cardinality(fds) < MaxFds
  /\ backlog' = backlog \ {p}
  /\ fds' = fds \cup {p}
  /\ connectionMap' = [c \in DOMAIN connectionMap \cup {nextConnectionId} |->
                         IF c = nextConnectionId THEN p ELSE connectionMap[c]]
  /\ events' = events \cup {nextConnectionId}
  /\ nextConnectionId' = nextConnectionId + 1
  /\ UNCHANGED << peer, unread, process >>

\* The event of a Connection fires, and read() has an answer.
OnRead(c) == process = "running" /\ c \in events

\* Connection::receiveData: something was read, and is fed.
OnData(c) ==
  LET p == connectionMap[c]
  IN /\ OnRead(c)
     /\ unread[p] # {}
     /\ unread' = [unread EXCEPT ![p] = {}]
     /\ process' = CASE unread[p] = {"whole"} -> "running"
                     [] unread[p] = {"cut"}   -> "hung"
                     [] OTHER                 -> "aborted"
     /\ UNCHANGED << peer, backlog, fds, table >>

\* Connection::close: the event goes, and the descriptor is left as it is.
CloseConnection(c) == /\ events' = events \ {c}
                      /\ UNCHANGED fds

\* Broken: the event outlives its Connection.
OnEndKeepsEvent(c) ==
  LET p == connectionMap[c]
  IN /\ OnRead(c)
     /\ unread[p] = {} /\ peer[p] = "closed"
     /\ connectionMap' = [d \in DOMAIN connectionMap \ {c} |-> connectionMap[d]]
     /\ UNCHANGED << environment, fds, nextConnectionId, events, process >>

\* Broken: a read() that returns 0 is not taken for the end.
OnEndIgnored(c) ==
  LET p == connectionMap[c]
  IN /\ OnRead(c)
     /\ unread[p] = {} /\ peer[p] = "closed"
     /\ UNCHANGED vars

\* The peer has closed: the Connection is deleted, with its entry in the table.
OnEnd(c) ==
  LET p == connectionMap[c]
  IN /\ OnRead(c)
     /\ unread[p] = {} /\ peer[p] = "closed"
     /\ connectionMap' = [d \in DOMAIN connectionMap \ {c} |-> connectionMap[d]]
     /\ CloseConnection(c)
     /\ UNCHANGED << environment, nextConnectionId, process >>

\* read() fails: the assertion compares -1 with an unsigned capacity.
OnError(c) ==
  /\ OnRead(c)
  /\ peer[connectionMap[c]] = "reset"
  /\ process' = "aborted"
  /\ UNCHANGED << environment, fds, table >>

\* on_interrupt.
OnInterrupt ==
  /\ process = "running"
  /\ process' = "exited"
  /\ UNCHANGED << environment, fds, table >>

Serve(c) == OnData(c) \/ OnEnd(c) \/ OnError(c)

Next == \/ \E p \in Peers : Connect(p) \/ Sends(p) \/ Closes(p) \/ ResetBy(p)
        \/ \E p \in backlog : OnAccept(p)
        \/ \E c \in events : Serve(c)
        \/ OnInterrupt

\* event_dispatch calls the callback of every event that is ready.
Spec == /\ Init /\ [][Next]_vars
        /\ WF_vars(\E p \in Peers : OnAccept(p))
        /\ \A c \in Peers : WF_vars(c \in events /\ Serve(c))

-----------------------------------------------------------------------------
(* Properties.                                                             *)

\* The Connections in the table are those with an event, each of them has an open
\* descriptor, and no two have the same: a callback never gets a deleted Connection.
EventsAreLive ==
  /\ events = DOMAIN connectionMap
  /\ \A c \in events : connectionMap[c] \in fds /\ c < nextConnectionId
  /\ \A c, d \in events : c # d => connectionMap[c] # connectionMap[d]

\* Whoever connects is accepted in the end, however busy the connections of others keep
\* the one thread, unless the process stops or its descriptors have run out.
AcceptedInTheEnd ==
  \A p \in Peers :
    p \in backlog
      ~> p \in fds \/ process # "running" \/ Cardinality(fds) = MaxFds

\* The Connection of a peer that has closed is deleted in the end, unless the process
\* stops.
EndsNoticed ==
  \A p \in Peers :
    peer[p] = "closed" /\ p \in fds
      ~> process # "running" \/ \A c \in events : connectionMap[c] # p

\* receiveData asserts that read() returned no more than it was asked for
\* (connection.cpp:121).  Checked where no other assertion can fail.
ReadFits == process # "aborted"

=============================================================================
