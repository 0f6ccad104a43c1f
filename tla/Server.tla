------------------------------- MODULE Server -------------------------------
(***************************************************************************)
(* The TCP server (src/Server.cpp): it keeps one asynchronous accept       *)
(* running with a channel that was created for it in advance, and hands    *)
(* each connection to its channel.  Server and channels are reference      *)
(* counted objects that live as long as something refers to them; the      *)
(* handler of an accept refers to both.                                    *)
(*                                                                         *)
(* Of a channel only the references count here: that for the open socket,  *)
(* and those of its operations (module Channel has the whole of it).       *)
(* The kernel side is the backlog of connections and a limited number of   *)
(* descriptors.                                                            *)
(***************************************************************************)
EXTENDS Naturals, Sequences, FiniteSets

CONSTANTS
  Clients,      \* clients, each connects once
  Channels,     \* channel objects
  MaxSockets,   \* descriptors the process may have open for connections
  MaxListens    \* bound: calls of listen() by the owner

ASSUME ServerAssumption ==
  /\ IsFiniteSet(Clients) /\ IsFiniteSet(Channels)
  /\ MaxSockets \in Nat \ {0} /\ MaxListens \in Nat \ {0}
  /\ Cardinality(Channels) > Cardinality(Clients) + MaxListens

VARIABLES
  owned,        \* does the owner still hold its ptr to the server
  listens,      \* calls of listen() by the owner
  serverRefs,   \* referenceCount of the server
  isOpen,       \* is the acceptor open
  waiting,      \* channels of the accepts the reactor waits for, oldest first
  completed,    \* completed accepts whose handlers wait in the event loop
  channel,      \* what became of each channel object
  channelRefs,  \* referenceCount of each channel
  backlog,      \* clients the kernel has connected, not accepted yet
  away,         \* clients that have not connected yet
  served        \* history: clients that a channel was opened for

vars == <<owned, listens, serverRefs, isOpen, waiting, completed, channel,
          channelRefs, backlog, away, served>>
kernelVars == <<away, served>>

ChannelStates == {"free", "created", "connected", "closing"}
Operations == 2        \* receive() starts a wait and a read
NoClient   == "none"

Count(states) == Cardinality({c \in Channels : channel[c] \in states})

\* A socket is a descriptor from the accept on, before its handler runs.
Accepted == {i \in DOMAIN completed : completed[i].client \in Clients}
Sockets  == Count({"connected"}) + Cardinality(Accepted)

-----------------------------------------------------------------------------
(* asio: starting and completing an accept *)

Error(c) == [channel |-> c, client |-> NoClient]

\* accept() fails for want of a descriptor, and the connection stays.
Perform(c) ==
  IF Sockets < MaxSockets THEN [channel |-> c, client |-> Head(backlog)] ELSE Error(c)

Taken(result, line) == IF result.client \in Clients THEN Tail(line) ELSE line

\* async_accept.  A closed acceptor fails at once.  If no other accept waits
\* it is tried at once; sockets is what the handler that calls has taken.
Start(c, finished) ==
  IF ~isOpen
    THEN /\ completed' = Append(finished, Error(c))
         /\ UNCHANGED <<waiting, backlog>>
    ELSE IF waiting = <<>> /\ backlog # <<>>
      THEN LET result == Perform(c)
           IN /\ completed' = Append(finished, result)
              /\ backlog' = Taken(result, backlog)
              /\ UNCHANGED waiting
      ELSE /\ completed' = finished
           /\ waiting' = Append(waiting, c)
           /\ UNCHANGED backlog

\* The reactor finds the acceptor readable.
Accept ==
  /\ isOpen /\ waiting # <<>> /\ backlog # <<>>
  /\ LET result == Perform(Head(waiting))
     IN completed' = Append(completed, result) /\ backlog' = Taken(result, backlog)
  /\ waiting' = Tail(waiting)
  /\ UNCHANGED <<owned, listens, serverRefs, isOpen, channel, channelRefs, kernelVars>>

-----------------------------------------------------------------------------
(* Server *)

\* Slip: the handler of the accept does not hold the server.
ReferencesNone(n) == n

AddReference(n) == n + 1

\* listen(): create channel c, which the handler of the accept will hold.
Listen ==
  /\ owned /\ listens < MaxListens
  /\ listens' = listens + 1
  /\ serverRefs' = AddReference(serverRefs)
  /\ \E c \in Channels :
       /\ channel[c] = "free"
       /\ channel' = [channel EXCEPT ![c] = "created"]
       /\ channelRefs' = [channelRefs EXCEPT ![c] = 1]
       /\ Start(c, completed)
  /\ UNCHANGED <<owned, isOpen, kernelVars>>

\* Slip: a channel that was connected is not given a reference of its own.
ConnectedRefsNone(old) == old + Operations

\* addReference for the open socket, then receive().
ConnectedRefs(old) == old + 1 + Operations

\* Slip: after an error the server does not listen again.
HandlerGivesUp ==
  /\ completed # <<>>
  /\ LET c == Head(completed).channel
     IN IF Head(completed).client \in Clients
          THEN \E d \in Channels :
                 /\ channel[d] = "free"
                 /\ channel' = [channel EXCEPT ![c] = "connected", ![d] = "created"]
                 /\ channelRefs' = [channelRefs EXCEPT ![c] = ConnectedRefs(@) - 1, ![d] = 1]
                 /\ served' = served \cup {Head(completed).client}
                 /\ Start(d, Tail(completed))
                 /\ UNCHANGED serverRefs
          ELSE /\ channel' = [channel EXCEPT ![c] = "free"]
               /\ channelRefs' = [channelRefs EXCEPT ![c] = 0]
               /\ serverRefs' = serverRefs - 1
               /\ completed' = Tail(completed)
               /\ UNCHANGED <<served, waiting, backlog>>
  /\ UNCHANGED <<owned, listens, isOpen, away>>

\* The handler of async_accept.  Whatever the result it calls listen(), which
\* creates the next channel d, then drops its reference to the server; with
\* the handler its reference to channel c goes, which destroys a channel that
\* was not connected.
Handler ==
  /\ completed # <<>>
  /\ \E d \in Channels :
       LET c  == Head(completed).channel
           ok == Head(completed).client \in Clients
           refs == (IF ok THEN ConnectedRefs(channelRefs[c]) ELSE channelRefs[c]) - 1
       IN /\ channel[d] = "free"
          /\ channelRefs' = [channelRefs EXCEPT ![c] = refs, ![d] = 1]
          /\ channel' = [channel EXCEPT ![c] = IF ok THEN "connected" ELSE "free",
                                        ![d] = "created"]
          /\ served' = IF ok THEN served \cup {Head(completed).client} ELSE served
          /\ Start(d, Tail(completed))
  /\ serverRefs' = AddReference(serverRefs) - 1
  /\ UNCHANGED <<owned, listens, isOpen, away>>

\* close(): the accepts that wait complete with an error.
Close ==
  /\ owned /\ isOpen
  /\ isOpen' = FALSE
  /\ completed' = completed \o [i \in DOMAIN waiting |-> Error(waiting[i])]
  /\ waiting' = <<>>
  /\ backlog' = <<>>
  /\ UNCHANGED <<owned, listens, serverRefs, channel, channelRefs, kernelVars>>

\* The owner's ptr goes out of scope.  Without an accept that is the last
\* reference, and the destructor closes the acceptor.
Release ==
  /\ owned
  /\ owned' = FALSE
  /\ serverRefs' = serverRefs - 1
  /\ isOpen' = (isOpen /\ serverRefs > 1)
  /\ backlog' = IF serverRefs > 1 THEN backlog ELSE <<>>
  /\ UNCHANGED <<listens, waiting, completed, channel, channelRefs, kernelVars>>

-----------------------------------------------------------------------------
(* Channels and clients *)

\* Channel::close: the socket is closed and its reference dropped ...
CloseChannel(c) ==
  /\ channel[c] = "connected"
  /\ channel' = [channel EXCEPT ![c] = "closing"]
  /\ channelRefs' = [channelRefs EXCEPT ![c] = @ - 1]
  /\ UNCHANGED <<owned, listens, serverRefs, isOpen, waiting, completed,
                 backlog, kernelVars>>

\* ... and the handlers of the cancelled operations drop theirs.
EndOperations(c) ==
  /\ channel[c] = "closing"
  /\ channel' = [channel EXCEPT ![c] = "free"]
  /\ channelRefs' = [channelRefs EXCEPT ![c] = @ - Operations]
  /\ UNCHANGED <<owned, listens, serverRefs, isOpen, waiting, completed,
                 backlog, kernelVars>>

Connect(client) ==
  /\ isOpen
  /\ client \in away
  /\ away' = away \ {client}
  /\ backlog' = Append(backlog, client)
  /\ UNCHANGED <<owned, listens, serverRefs, isOpen, waiting, completed,
                 channel, channelRefs, served>>

Init ==
  /\ owned = TRUE
  /\ listens = 0
  /\ serverRefs = 1
  /\ isOpen = TRUE
  /\ waiting = <<>>
  /\ completed = <<>>
  /\ channel = [c \in Channels |-> "free"]
  /\ channelRefs = [c \in Channels |-> 0]
  /\ backlog = <<>>
  /\ away = Clients
  /\ served = {}

ChannelStep == \E c \in Channels : CloseChannel(c) \/ EndOperations(c)

Next == Listen \/ Accept \/ Handler \/ Close \/ Release \/ ChannelStep
        \/ \E client \in Clients : Connect(client)

\* The event loop runs its handlers; each channel is closed some day, by its
\* timeout if not before (Channel!EveryChannelEnds).
Spec == /\ Init /\ [][Next]_vars
        /\ WF_vars(Accept) /\ WF_vars(Handler)
        /\ \A c \in Channels : WF_vars(CloseChannel(c) \/ EndOperations(c))

-----------------------------------------------------------------------------
(* Properties *)

TypeOK ==
  /\ owned \in BOOLEAN
  /\ listens \in 0..MaxListens
  /\ serverRefs \in Nat
  /\ isOpen \in BOOLEAN
  /\ waiting \in Seq(Channels)
  /\ completed \in Seq([channel : Channels, client : Clients \cup {NoClient}])
  /\ channel \in [Channels -> ChannelStates]
  /\ channelRefs \in [Channels -> Nat]
  /\ backlog \in Seq(Clients)
  /\ away \subseteq Clients
  /\ served \subseteq Clients

\* The server is referred to by its owner and by one accept for each listen()
\* of the owner, no more and no less: it lives exactly as long as one of its
\* handlers may run.  Each handler starts the accept that follows it, after
\* close() too, so that the accepts never go (see ClosedServerEnds).
ServerRefs ==
  /\ Len(waiting) + Len(completed) = listens
  /\ serverRefs = listens + IF owned THEN 1 ELSE 0

Awaited == {waiting[i] : i \in DOMAIN waiting}
             \cup {completed[i].channel : i \in DOMAIN completed}

\* A channel object that exists is held by a handler of an accept, by its open
\* socket or by its operations, and by nothing twice: none is lost when an
\* accept fails, none is destroyed while it is used.
ChannelRefs ==
  /\ \A c \in Channels :
       /\ channelRefs[c] = CASE channel[c] = "free" -> 0
                             [] channel[c] = "created" -> 1
                             [] channel[c] = "connected" -> 1 + Operations
                             [] channel[c] = "closing" -> Operations
       /\ channel[c] = "created" <=> c \in Awaited
  /\ Cardinality(Awaited) = Len(waiting) + Len(completed)

\* The reference counts are right, of the server and of its channels.
RefsAreHolders == ServerRefs /\ ChannelRefs

\* A client that has connected is served, although accepting fails while
\* there is no descriptor left, unless the server is closed or not listening.
EveryClientServed ==
  \A client \in Clients :
    client \notin away /\ listens > 0 ~> client \in served \/ ~isOpen

\* "close the server which will cause the destructor to be called at a later
\* time" (Server.hpp): when its owner has closed it and let it go, the last
\* reference to the server goes some day.
ClosedServerEnds == ~isOpen /\ ~owned ~> serverRefs = 0
=============================================================================
