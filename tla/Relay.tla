------------------------------- MODULE Relay -------------------------------
(***************************************************************************)
(* Clients, gateway and echo server put together.  A client registers and  *)
(* sends chats and bot messages; the gateway passes them on through one of *)
(* its EchoCount internal clients, chosen by the client's session id; the  *)
(* echo server broadcasts chats to everybody in connectionList_ and        *)
(* returns bot messages, each copy marked with the client it is for; the   *)
(* gateway's logic thread passes them on to that client's session.         *)
(*                                                                         *)
(* Each hop is a link with the guarantees the reliable streams have: a     *)
(* channel is FIFO (FifoDelivery), packets without one come once and in    *)
(* any order (OnceDelivery).  What a link still held when one of its ends  *)
(* was removed is lost, and what a disconnected echo session sends may be. *)
(***************************************************************************)
EXTENDS Integers, Sequences, FiniteSets, FiniteSetsExt

CONSTANTS
  Clients,         \* session ids the gateway gives out
  EchoCount,       \* echoCount_, the number of internal clients
  Sessions,        \* Session objects of the echo server's pool
  NoSession,
  Limits,          \* values of MAX_CLIENT_COUNT in Config.json
  Scripts,         \* bound: what the clients say, sequences of author and kind
  MaxConnects,     \* bound: clients that connect
  MaxRestarts      \* bound: restarts of the gateway

\* A LongChat fits a packet only without a sub header, a DumpChat not at all.
Kind == {"Register", "Chat", "LongChat", "DumpChat", "Bot"}

\* Session ids are random and, unlike objects, not used again.
ASSUME RelayAssumption ==
  /\ Clients \subseteq Nat
  /\ EchoCount \in Nat \ {0}
  /\ NoSession \notin Sessions
  /\ Limits \subseteq Nat
  /\ \A sc \in Scripts : sc \in Seq([author : Clients, kind : Kind \ {"Register"}])
  /\ MaxConnects \in Nat
  /\ MaxRestarts \in Nat

VARIABLES
  gateway,         \* "starting" in Initialize, or "running", and its restarts
  client,          \* life of each client's session at the gateway
  script,          \* what the clients will say, and how much of it they have
  said,
  toGateway,       \* links from each client to its session and back
  toClient,
  got,             \* what each client's handlers were called with
  inner,           \* internalClientList_: the echo session each one has
  session,         \* echo sessions: free, open, or refused by Disconnect()
  owner,           \* internal client an echo session belongs to
  toEcho,          \* links from the internal client to its session and back
  fromEcho,
  connectionList,  \* connectionList_
  maxclientcount,  \* g_maxclientcount, as configured
  broadcast        \* the Broadcast the worker of a session is in

gatewayVars == <<gateway, client, inner>>
clientVars == <<script, said, got>>
echoVars == <<session, owner, connectionList, maxclientcount, broadcast>>
links == <<toGateway, toClient, toEcho, fromEcho>>
vars == <<gatewayVars, clientVars, echoVars, links>>

Inner == 0 .. EchoCount - 1
RegisterChannel == 0
ChatChannel == 2
Channel == {RegisterChannel, ChatChannel}
NoChannel == -1
Message == [author : Clients, n : Nat, kind : Kind]
\* On its way back a message carries depthId1_ of its GatewaySubHeader.
Marked == [message : Message, to : Clients]
\* In place of a packet that was lost and is not sent again.
Lost == NoSession
ASSUME LostAssumption == Lost \notin Marked
Idle == [message |-> NoSession, channel |-> NoChannel, left |-> {}]

-----------------------------------------------------------------------------
(* Links                                                                   *)

EmptyLink == [ordered |-> [ch \in Channel |-> << >>], unordered |-> {}]

\* SendPacket with order_ and channelID_, or without.
Post(link, item, ch) ==
  IF ch = NoChannel THEN [link EXCEPT !.unordered = @ \cup {item}]
                    ELSE [link EXCEPT !.ordered[ch] = Append(@, item)]

\* PacketParse is called for the head of a channel, unless that was lost for
\* good, or for any other packet.
Ready(link) ==
  {[item |-> Head(link.ordered[ch]), channel |-> ch] :
     ch \in {ch \in Channel : link.ordered[ch] # << >> /\ Head(link.ordered[ch]) # Lost}}
  \cup {[item |-> i, channel |-> NoChannel] : i \in link.unordered}

Without(link, p) ==
  IF p.channel = NoChannel THEN [link EXCEPT !.unordered = @ \ {p.item}]
                           ELSE [link EXCEPT !.ordered[p.channel] = Tail(@)]

Init ==
  /\ gateway = [state |-> "starting", restarts |-> 0]
  /\ client = [c \in Clients |-> "new"]
  /\ script \in Scripts
  /\ said = 0
  /\ toGateway = [c \in Clients |-> EmptyLink]
  /\ toClient = [c \in Clients |-> EmptyLink]
  /\ got = [c \in Clients |-> << >>]
  /\ inner = [k \in Inner |-> NoSession]
  /\ session = [s \in Sessions |-> "free"]
  /\ owner = [s \in Sessions |-> 0]
  /\ toEcho = [s \in Sessions |-> EmptyLink]
  /\ fromEcho = [s \in Sessions |-> EmptyLink]
  /\ connectionList = [c \in Clients |-> NoSession]
  /\ maxclientcount \in Limits
  /\ broadcast = [s \in Sessions |-> Idle]

-----------------------------------------------------------------------------
(* The clients                                                             *)

\* The echo client connects and sends its Register on channel 0.
SendRegisterMessage(c) ==
  /\ gateway.state = "running"
  /\ client[c] = "new"
  /\ Cardinality({d \in Clients : client[d] # "new"}) < MaxConnects
  /\ client' = [client EXCEPT ![c] = "live"]
  /\ toGateway' = [toGateway EXCEPT ![c] =
       Post(EmptyLink, [author |-> c, n |-> 0, kind |-> "Register"], RegisterChannel)]
  /\ UNCHANGED <<gateway, inner, clientVars, echoVars, toClient, toEcho, fromEcho>>

Say(c, kind, ch) ==
  /\ client[c] = "live"
  /\ said < Len(script)
  /\ script[said + 1] = [author |-> c, kind |-> kind]
  /\ said' = said + 1
  /\ toGateway' = [toGateway EXCEPT ![c] =
       Post(@, [author |-> c, n |-> said', kind |-> kind], ch)]
  /\ UNCHANGED <<gatewayVars, script, got, echoVars, toClient, toEcho, fromEcho>>

SendChatMessage(c) == \E kind \in {"Chat", "LongChat"} : Say(c, kind, ChatChannel)
SendDumpChatMessage(c) == Say(c, "DumpChat", NoChannel)
SendBotMessage(c) == Say(c, "Bot", NoChannel)

\* ChatHandler and BotHandler of the echo client.
ClientHandler(c) ==
  /\ \E p \in Ready(toClient[c]) :
       /\ toClient' = [toClient EXCEPT ![c] = Without(@, p)]
       /\ got' = [got EXCEPT ![c] = Append(@, p.item)]
  /\ UNCHANGED <<gatewayVars, script, said, echoVars, toGateway, toEcho, fromEcho>>

-----------------------------------------------------------------------------
(* The gateway                                                             *)

\* sessionLock_ or connectionLock_ of the echo server can be taken for writing.
NoBroadcast == \A s \in Sessions : broadcast[s] = Idle

\* Initialize, ConnectTimes: an internal client gets a session of the echo
\* server.  One that gets none stays without.
InternalConnect(k) ==
  /\ gateway.state = "starting"
  /\ inner[k] = NoSession
  /\ NoBroadcast
  /\ \E s \in Sessions :
       /\ session[s] = "free"
       /\ session' = [session EXCEPT ![s] = "open"]
       /\ owner' = [owner EXCEPT ![s] = k]
       /\ inner' = [inner EXCEPT ![k] = s]
  /\ UNCHANGED <<gateway, client, clientVars, connectionList, maxclientcount, broadcast, links>>

\* Initialize returns and the threads start.
Start ==
  /\ gateway.state = "starting"
  /\ gateway' = [gateway EXCEPT !.state = "running"]
  /\ UNCHANGED <<client, inner, clientVars, echoVars, links>>

\* The process ends and starts again.  Its clients are gone; the echo server
\* keeps the sessions until they time out.
Restart ==
  /\ gateway.state = "running"
  /\ gateway.restarts < MaxRestarts
  /\ gateway' = [state |-> "starting", restarts |-> gateway.restarts + 1]
  /\ client' = [c \in Clients |-> IF client[c] = "live" THEN "gone" ELSE client[c]]
  /\ toGateway' = [c \in Clients |-> EmptyLink]
  /\ toClient' = [c \in Clients |-> EmptyLink]
  /\ inner' = [k \in Inner |-> NoSession]
  /\ UNCHANGED <<clientVars, echoVars, toEcho, fromEcho>>

\* A client's session times out or is disconnected and leaves the table.
ClientGone(c) ==
  /\ client[c] = "live"
  /\ client' = [client EXCEPT ![c] = "gone"]
  /\ toGateway' = [toGateway EXCEPT ![c] = EmptyLink]
  /\ toClient' = [toClient EXCEPT ![c] = EmptyLink]
  /\ UNCHANGED <<gateway, inner, clientVars, echoVars, toEcho, fromEcho>>

Route(c) == c % EchoCount

HeaderToOptions_Unordered(p) == NoChannel
\* The options of a packet that is passed on are those it came with.
HeaderToOptions(p) == p.channel

\* InternalClient::SendPacket.  The echo server drops what comes with the id
\* of a session it no longer has.
SendToEcho(k, m, ch) ==
  toEcho' = IF inner[k] = NoSession THEN toEcho
                                    ELSE [toEcho EXCEPT ![inner[k]] = Post(@, m, ch)]

\* RegisterHandler, ChatHandler and BotHandler of the gateway, on the worker
\* of the client's session.
GatewayHandler(c) ==
  /\ gateway.state = "running"
  /\ client[c] = "live"
  /\ \E p \in Ready(toGateway[c]) :
       /\ toGateway' = [toGateway EXCEPT ![c] = Without(@, p)]
       /\ SendToEcho(Route(c), p.item,
            IF p.item.kind = "Register" THEN RegisterChannel ELSE HeaderToOptions(p))
  /\ UNCHANGED <<gatewayVars, clientVars, echoVars, toClient, fromEcho>>

\* SendToClient looks the session up and drops the message if the client is
\* gone.
SendToClient(c, m, ch) ==
  toClient' = IF client[c] = "live" THEN [toClient EXCEPT ![c] = Post(@, m, ch)] ELSE toClient

\* ChatHandler2 and BotHandler2: the client is the one in the sub header.
ChatHandler2(p) == SendToClient(p.item.to, p.item.message, HeaderToOptions(p))

Dispatched_ButLast == 0 .. EchoCount - 2
Dispatched == Inner
\* The logic thread comes round to every internal client.
InnerDispatch(k) ==
  /\ gateway.state = "running"
  /\ k \in Dispatched
  /\ inner[k] # NoSession
  /\ \E p \in Ready(fromEcho[inner[k]]) :
       /\ fromEcho' = [fromEcho EXCEPT ![inner[k]] = Without(@, p)]
       /\ ChatHandler2(p)
  /\ UNCHANGED <<gatewayVars, clientVars, echoVars, toGateway, toEcho>>

-----------------------------------------------------------------------------
(* The echo server                                                         *)

Registered == {c \in Clients : connectionList[c] # NoSession}

\* The worker of session s takes a message p out of its link.
EchoTakes(s, p) ==
  /\ broadcast[s] = Idle
  /\ toEcho' = [toEcho EXCEPT ![s] = Without(@, p)]

\* RegisterHandler: a full list refuses the client and disconnects the
\* session, which is that of every client the internal client serves.
AddConnection(s, p) ==
  /\ EchoTakes(s, p)
  /\ p.item.kind = "Register"
  /\ NoBroadcast
  /\ \/ /\ Cardinality(Registered) < maxclientcount
        /\ connectionList' = [connectionList EXCEPT ![p.item.author] = s]
        /\ UNCHANGED session
     \/ /\ Cardinality(Registered) >= maxclientcount
        /\ session' = [session EXCEPT ![s] = "refused"]
        /\ UNCHANGED connectionList
  /\ UNCHANGED <<owner, maxclientcount, broadcast, fromEcho>>

Recipients_OfOwnSession(s) == {c \in Registered : connectionList[c] = s}
Recipients(s) == Registered

\* ChatHandler: Broadcast takes connectionLock_ for reading and begins.
BroadcastBegin(s, p) ==
  /\ EchoTakes(s, p)
  /\ p.item.kind \in {"Chat", "LongChat", "DumpChat"}
  /\ broadcast' = [broadcast EXCEPT ![s] =
       IF Recipients(s) = {} THEN Idle
       ELSE [message |-> p.item,
             channel |-> IF p.item.kind = "LongChat" THEN NoChannel ELSE HeaderToOptions(p),
             left    |-> Recipients(s)]]
  /\ UNCHANGED <<session, owner, connectionList, maxclientcount, fromEcho>>

\* Broadcast sends the next client its copy, on that client's session.
BroadcastStep(s) ==
  LET b == broadcast[s]
      c == Min(b.left)
  IN  /\ b # Idle
      /\ fromEcho' = [fromEcho EXCEPT ![connectionList[c]] =
           Post(@, [message |-> b.message, to |-> c], b.channel)]
      /\ broadcast' = [broadcast EXCEPT ![s] =
           IF b.left = {c} THEN Idle ELSE [b EXCEPT !.left = @ \ {c}]]
      /\ UNCHANGED <<gatewayVars, clientVars, session, owner, connectionList, maxclientcount,
                     toGateway, toClient, toEcho>>

BotHandler_AsBroadcast(s, p) ==
  /\ EchoTakes(s, p)
  /\ p.item.kind = "Bot"
  /\ Recipients(s) # {}
  /\ broadcast' = [broadcast EXCEPT ![s] =
       [message |-> p.item, channel |-> HeaderToOptions(p), left |-> Recipients(s)]]
  /\ UNCHANGED <<session, owner, connectionList, maxclientcount, fromEcho>>
\* BotHandler answers on its own session.
BotHandler(s, p) ==
  /\ EchoTakes(s, p)
  /\ p.item.kind = "Bot"
  /\ fromEcho' = [fromEcho EXCEPT ![s] =
       Post(@, [message |-> p.item, to |-> p.item.author], HeaderToOptions(p))]
  /\ UNCHANGED <<session, owner, connectionList, maxclientcount, broadcast>>

EchoHandler(s) ==
  /\ \E p \in Ready(toEcho[s]) : AddConnection(s, p) \/ BroadcastBegin(s, p) \/ BotHandler(s, p)
  /\ UNCHANGED <<gatewayVars, clientVars, toGateway, toClient>>

EraseConnections_None(s) == connectionList
\* DestroySession erases the entries of the dying session.
EraseConnections(s) ==
  [c \in Clients |-> IF connectionList[c] = s THEN NoSession ELSE connectionList[c]]

\* CheckSessions removes a session that was silent too long, under
\* sessionLock_; one that was disconnected is passed over for ever.
DestroySession(s) ==
  /\ session[s] = "open"
  /\ NoBroadcast
  /\ session' = [session EXCEPT ![s] = "free"]
  /\ connectionList' = EraseConnections(s)
  /\ inner' = [k \in Inner |-> IF inner[k] = s THEN NoSession ELSE inner[k]]
  /\ toEcho' = [toEcho EXCEPT ![s] = EmptyLink]
  /\ fromEcho' = [fromEcho EXCEPT ![s] = EmptyLink]
  /\ UNCHANGED <<gateway, client, clientVars, owner, maxclientcount, broadcast, toGateway,
                 toClient>>

\* CheckSessions passes over a session that was disconnected: what it sent and
\* the network lost is not sent again, and the channel behind it stops.
LosePacket(s) ==
  /\ session[s] = "refused"
  /\ \/ \E i \in fromEcho[s].unordered :
          fromEcho' = [fromEcho EXCEPT ![s].unordered = @ \ {i}]
     \/ \E ch \in Channel : \E i \in DOMAIN fromEcho[s].ordered[ch] :
          fromEcho' = [fromEcho EXCEPT ![s].ordered[ch][i] = Lost]
  /\ UNCHANGED <<gatewayVars, clientVars, echoVars, toGateway, toClient, toEcho>>

Next ==
  \/ \E c \in Clients :
       \/ SendRegisterMessage(c) \/ SendChatMessage(c) \/ SendDumpChatMessage(c)
       \/ SendBotMessage(c) \/ ClientHandler(c) \/ ClientGone(c) \/ GatewayHandler(c)
  \/ \E k \in Inner : InternalConnect(k) \/ InnerDispatch(k)
  \/ Start \/ Restart
  \/ \E s \in Sessions : EchoHandler(s) \/ BroadcastStep(s) \/ DestroySession(s) \/ LosePacket(s)

Spec == Init /\ [][Next]_vars

\* Every thread goes on, a live client dispatches, and an echo session whose
\* gateway is gone times out.  As a script is finite and every step of Progress
\* uses something up, fairness to all together is fairness to each.
Progress ==
  \/ \E s \in Sessions : BroadcastStep(s) \/ EchoHandler(s)
  \/ \E k \in Inner : InnerDispatch(k)
  \/ \E c \in Clients : ClientHandler(c) \/ GatewayHandler(c)
  \/ \E s \in Sessions : (\A k \in Inner : inner[k] # s) /\ DestroySession(s)
FairSpec == Spec /\ WF_vars(Progress)

-----------------------------------------------------------------------------
(* Properties                                                              *)

\* Broadcast never uses a session that is gone: whoever is in connectionList_
\* is there with a session in use, the one of the internal client that serves
\* him, although objects are pooled and sessions end at any time.
ConnectionListIsCurrent ==
  \A c \in Registered : /\ session[connectionList[c]] # "free"
                        /\ owner[connectionList[c]] = Route(c)

\* Over the four hops, each with streams of its own, everybody gets the chats
\* of an author in the order he wrote them, none of them twice (the chats that
\* Broadcast sends without order_ excepted).
AuthorOrder ==
  \A c \in Clients : \A i, j \in DOMAIN got[c] :
    /\ i < j
    /\ got[c][i].author = got[c][j].author
    /\ got[c][i].kind = "Chat" /\ got[c][j].kind = "Chat"
    => got[c][i].n < got[c][j].n

\* A bot message comes back to its author and to nobody else.
BotGoesHome ==
  \A c \in Clients : \A i \in DOMAIN got[c] : got[c][i].kind = "Bot" => got[c][i].author = c

\* The way to client c and back is open.
Reachable(c) ==
  /\ client[c] = "live"
  /\ inner[Route(c)] # NoSession
  /\ session[inner[Route(c)]] = "open"

Has(c, n) == \E i \in DOMAIN got[c] : got[c][i].n = n

Turns == UNION {DOMAIN sc : sc \in Scripts}
Author(n) == script[n].author
\* The n-th message is in a link.
IsIn(n, kind, link) ==
  LET m == [author |-> Author(n), n |-> n, kind |-> kind]
  IN  \/ m \in link.unordered
      \/ \E ch \in Channel : \E i \in DOMAIN link.ordered[ch] : link.ordered[ch][i] = m

\* A bot message comes back unless its author's way is cut.
BotComesBack ==
  \A n \in Turns :
    (n \in DOMAIN script /\ IsIn(n, "Bot", toGateway[Author(n)]))
    ~> (Has(Author(n), n) \/ ~Reachable(Author(n)))

\* A chat that is on its way to the echo server reaches whoever is registered
\* then, unless the author's or the reader's way is cut.
ChatReachesRegistered ==
  \A c \in Clients : \A n \in Turns :
    (/\ n \in DOMAIN script
     /\ Reachable(Author(n))
     /\ c \in Registered
     /\ IsIn(n, "Chat", toEcho[inner[Route(Author(n))]]))
    ~> (Has(c, n) \/ ~Reachable(c) \/ ~Reachable(Author(n)))
=============================================================================
