---------------------------- MODULE ServerProofs ----------------------------
(***************************************************************************)
(* No callback of the demo server gets a deleted Connection, for any       *)
(* number of peers, however they send, close and reset.                    *)
(***************************************************************************)
EXTENDS Server, TLAPS

\* The types that the properties rest on.
TableOK ==
  /\ peer \in [Peers -> {"absent", "open", "closed", "reset"}]
  /\ nextConnectionId \in Nat \ {0}
  /\ events \subseteq Nat
  /\ connectionMap \in [events -> Peers]

\* A peer waits, or has been accepted, or neither, and in the first two cases it has
\* connected: whoever is accepted has no descriptor yet.
AcceptedOnce ==
  /\ backlog \subseteq Peers /\ fds \subseteq Peers
  /\ backlog \cap fds = {}
  /\ \A p \in backlog \cup fds : peer[p] # "absent"

IInv == TableOK /\ AcceptedOnce /\ EventsAreLive

-----------------------------------------------------------------------------

\* The inductive invariant holds before anybody connects.
LEMMA InitInv == Init => IInv
<1> SUFFICES ASSUME Init PROVE IInv
  OBVIOUS
<1>1. TableOK
  BY DEF Init, TableOK
<1>2. AcceptedOnce
  BY DEF Init, AcceptedOnce
<1>3. EventsAreLive
  BY DEF Init, EventsAreLive
<1> QED BY <1>1, <1>2, <1>3 DEF IInv

\* What the peers do leaves the process as it is; a peer that connects was absent.
LEMMA PeersInv == ASSUME IInv, NEW p \in Peers,
                         Connect(p) \/ Sends(p) \/ Closes(p) \/ ResetBy(p)
                  PROVE  IInv'
<1>1. /\ UNCHANGED << fds, connectionMap, nextConnectionId, events, process >>
      /\ \/ /\ peer[p] = "absent" /\ peer' = [peer EXCEPT ![p] = "open"]
            /\ backlog' = backlog \cup {p}
         \/ UNCHANGED << peer, backlog >>
         \/ /\ backlog' = backlog
            /\ \E s \in {"closed", "reset"} : peer' = [peer EXCEPT ![p] = s]
  BY DEF Connect, Sends, Closes, ResetBy, table
<1>2. TableOK'
  BY <1>1 DEF IInv, TableOK
<1>3. AcceptedOnce'
  BY <1>1 DEF IInv, TableOK, AcceptedOnce
<1>4. EventsAreLive'
  BY <1>1 DEF IInv, EventsAreLive
<1> QED BY <1>2, <1>3, <1>4 DEF IInv

\* A Connection gets an id and a descriptor that nobody has.
LEMMA OnAcceptInv == ASSUME IInv, NEW p \in Peers, OnAccept(p)
                     PROVE  IInv'
<1> DEFINE id == nextConnectionId
<1>1. /\ p \in backlog
      /\ backlog' = backlog \ {p} /\ fds' = fds \cup {p}
      /\ connectionMap' = [c \in DOMAIN connectionMap \cup {id} |->
                             IF c = id THEN p ELSE connectionMap[c]]
      /\ events' = events \cup {id} /\ nextConnectionId' = id + 1
      /\ peer' = peer
  BY DEF OnAccept
<1>2. p \notin fds /\ id \in Nat /\ id \notin events /\ DOMAIN connectionMap = events
  BY <1>1 DEF IInv, TableOK, AcceptedOnce, EventsAreLive
<1>3. TableOK'
  BY <1>1, <1>2 DEF IInv, TableOK
<1>4. AcceptedOnce'
  BY <1>1 DEF IInv, AcceptedOnce
<1>5. EventsAreLive'
  <2>1. \A c \in events : c < id /\ connectionMap'[c] = connectionMap[c]
                          /\ connectionMap[c] \in fds
    BY <1>1, <1>2 DEF IInv, EventsAreLive
  <2>2. connectionMap'[id] = p
    BY <1>1
  <2>3. \A c \in events' : connectionMap'[c] \in fds' /\ c < nextConnectionId'
    BY <1>1, <1>2, <2>1, <2>2 DEF IInv, TableOK
  <2>4. \A c, d \in events' : c # d => connectionMap'[c] # connectionMap'[d]
    BY <1>1, <1>2, <2>1, <2>2 DEF IInv, EventsAreLive
  <2>5. events' = DOMAIN connectionMap'
    BY <1>1, <1>2
  <2> QED BY <2>3, <2>4, <2>5 DEF EventsAreLive
<1> QED BY <1>3, <1>4, <1>5 DEF IInv

\* A Connection goes with its event and its entry in the table, and only that.
LEMMA OnEndInv == ASSUME IInv, NEW c \in events, OnEnd(c)
                  PROVE  IInv'
<1>1. /\ connectionMap' = [d \in DOMAIN connectionMap \ {c} |-> connectionMap[d]]
      /\ events' = events \ {c}
      /\ UNCHANGED << peer, backlog, fds, nextConnectionId >>
  BY DEF OnEnd, CloseConnection, environment
<1>2. DOMAIN connectionMap = events
  BY DEF IInv, EventsAreLive
<1>3. TableOK'
  BY <1>1, <1>2 DEF IInv, TableOK
<1>4. AcceptedOnce'
  BY <1>1 DEF IInv, AcceptedOnce
<1>5. EventsAreLive'
  BY <1>1, <1>2 DEF IInv, EventsAreLive
<1> QED BY <1>3, <1>4, <1>5 DEF IInv

\* Feeds, failures and interrupts concern what was sent and whether the process runs.
LEMMA RestInv == ASSUME IInv, \/ \E c \in events : OnData(c) \/ OnError(c)
                              \/ OnInterrupt
                              \/ UNCHANGED vars
                 PROVE  IInv'
<1>1. UNCHANGED << peer, backlog, fds, connectionMap, nextConnectionId, events >>
  BY DEF OnData, OnError, OnInterrupt, vars, environment, table
<1> QED BY <1>1 DEF IInv, TableOK, AcceptedOnce, EventsAreLive

\* The inductive invariant of the event loop.
THEOREM ServerInvariant == Spec => []IInv
<1>1. IInv /\ [Next]_vars => IInv'
  <2> SUFFICES ASSUME IInv, [Next]_vars PROVE IInv'
    OBVIOUS
  <2>1. ASSUME NEW p \in Peers, Connect(p) \/ Sends(p) \/ Closes(p) \/ ResetBy(p)
        PROVE  IInv'
    BY <2>1, PeersInv
  <2>2. ASSUME NEW p \in backlog, OnAccept(p) PROVE IInv'
    <3>1. p \in Peers
      BY DEF IInv, AcceptedOnce
    <3> QED BY <2>2, <3>1, OnAcceptInv
  <2>3. ASSUME NEW c \in events, OnEnd(c) PROVE IInv'
    BY <2>3, OnEndInv
  <2>4. CASE \/ \E c \in events : OnData(c) \/ OnError(c)
             \/ OnInterrupt
             \/ UNCHANGED vars
    BY <2>4, RestInv
  <2> QED BY <2>1, <2>2, <2>3, <2>4 DEF Next, Serve
<1> QED BY <1>1, InitInv, PTL DEF Spec

\* A callback never gets a deleted Connection: the Connections with an event are those in
\* the table, each with an open descriptor of its own.
THEOREM ServerEventsAreLive == Spec => []EventsAreLive
<1>1. IInv => EventsAreLive
  BY DEF IInv
<1> QED BY <1>1, ServerInvariant, PTL

=============================================================================
