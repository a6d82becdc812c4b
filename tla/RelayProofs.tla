---------------------------- MODULE RelayProofs ----------------------------
(***************************************************************************)
(* The relay, for any number of clients, internal clients and sessions, in *)
(* four invariants, each of which uses those before it.                    *)
(*                                                                         *)
(* RelayInv: connectionList_ is current.  A message in the link of an echo *)
(* session is from a client that the session's internal client serves, and *)
(* a session that is free has nothing in its link, so that a pooled object *)
(* is not registered for what its predecessor was sent.                    *)
(*                                                                         *)
(* WayBackInv: a bot message bears its author's mark on every hop back.    *)
(*                                                                         *)
(* HomeInv: all that concerns a client is in one echo session.             *)
(*                                                                         *)
(* OrderInv: between author and reader there are six stages, and the chats *)
(* that are further on are the older ones.                                 *)
(***************************************************************************)
EXTENDS Relay, WellFoundedInduction, TLAPS

\* Links whose messages are all in S.
LinkOf(S) == [ordered : [Channel -> Seq(S)], unordered : SUBSET S]

RelayTypes ==
  /\ said \in Nat
  /\ inner \in [Inner -> Sessions \cup {NoSession}]
  /\ session \in [Sessions -> {"free", "open", "refused"}]
  /\ owner \in [Sessions -> Int]
  /\ connectionList \in [Clients -> Sessions \cup {NoSession}]
  /\ DOMAIN toGateway = Clients
  /\ DOMAIN toEcho = Sessions

InnerIsCurrent ==
  \A k \in Inner : inner[k] # NoSession => /\ session[inner[k]] # "free"
                                           /\ owner[inner[k]] = k

FromAuthor(c) == {m \in Message : m.author = c}
RoutedTo(k) == {m \in Message : Route(m.author) = k}

LinksAreRouted ==
  /\ \A c \in Clients : toGateway[c] \in LinkOf(FromAuthor(c))
  /\ \A s \in Sessions : /\ toEcho[s] \in LinkOf(RoutedTo(owner[s]))
                         /\ session[s] = "free" => toEcho[s] = EmptyLink

RelayInv == RelayTypes /\ InnerIsCurrent /\ LinksAreRouted /\ ConnectionListIsCurrent

-----------------------------------------------------------------------------
(* Links                                                                   *)

\* A link that holds nothing.
LEMMA EmptyLinkType == \A S : EmptyLink \in LinkOf(S)
BY DEF EmptyLink, LinkOf

\* SendPacket puts one message more into a link.
LEMMA PostType ==
  ASSUME NEW S, NEW link \in LinkOf(S), NEW item \in S, NEW ch \in Channel \cup {NoChannel}
  PROVE  Post(link, item, ch) \in LinkOf(S)
<1>1. CASE ch = NoChannel
  BY <1>1 DEF Post, LinkOf
<1>2. CASE ch # NoChannel
  <2>1. ch \in Channel /\ link.ordered \in [Channel -> Seq(S)]
    BY <1>2 DEF LinkOf
  <2>2. Append(link.ordered[ch], item) \in Seq(S)
    BY <2>1
  <2>3. [link.ordered EXCEPT ![ch] = Append(@, item)] \in [Channel -> Seq(S)]
    BY <2>1, <2>2
  <2>4. Post(link, item, ch) = [ordered |-> [link.ordered EXCEPT ![ch] = Append(@, item)],
                                unordered |-> link.unordered]
    BY <1>2, <2>1 DEF Post, LinkOf
  <2>5. link.unordered \in SUBSET S
    BY DEF LinkOf
  <2> QED
    BY <2>3, <2>4, <2>5 DEF LinkOf
<1> QED
  BY <1>1, <1>2

\* What PacketParse is called for was in the link.
LEMMA ReadyType ==
  ASSUME NEW S, NEW link \in LinkOf(S), NEW p \in Ready(link)
  PROVE  p.item \in S /\ p.channel \in Channel \cup {NoChannel}
<1>1. CASE \E ch \in Channel :
             /\ link.ordered[ch] # << >>
             /\ p = [item |-> Head(link.ordered[ch]), channel |-> ch]
  <2>1. PICK ch \in Channel : /\ link.ordered[ch] # << >>
                              /\ p = [item |-> Head(link.ordered[ch]), channel |-> ch]
    BY <1>1
  <2>2. link.ordered[ch] \in Seq(S)
    BY <2>1 DEF LinkOf
  <2> QED
    BY <2>1, <2>2
<1>2. CASE \E i \in link.unordered : p = [item |-> i, channel |-> NoChannel]
  BY <1>2 DEF LinkOf
<1> QED
  BY <1>1, <1>2 DEF Ready

\* Taking it out leaves a link.
LEMMA WithoutType ==
  ASSUME NEW S, NEW link \in LinkOf(S), NEW p \in Ready(link)
  PROVE  Without(link, p) \in LinkOf(S)
<1>1. CASE p.channel = NoChannel
  BY <1>1 DEF Without, LinkOf
<1>2. CASE p.channel # NoChannel
  <2>1. p.channel \in Channel /\ link.ordered \in [Channel -> Seq(S)]
    BY <1>2, ReadyType DEF LinkOf
  <2>2. link.ordered[p.channel] # << >>
    BY <1>2 DEF Ready
  <2>3. Tail(link.ordered[p.channel]) \in Seq(S)
    BY <2>1, <2>2
  <2>4. [link.ordered EXCEPT ![p.channel] = Tail(@)] \in [Channel -> Seq(S)]
    BY <2>1, <2>3
  <2>5. Without(link, p) = [ordered |-> [link.ordered EXCEPT ![p.channel] = Tail(@)],
                            unordered |-> link.unordered]
    BY <1>2, <2>1 DEF Without, LinkOf
  <2>6. link.unordered \in SUBSET S
    BY DEF LinkOf
  <2> QED
    BY <2>4, <2>5, <2>6 DEF LinkOf
<1> QED
  BY <1>1, <1>2

-----------------------------------------------------------------------------
(* Init and steps                                                          *)

\* The invariant holds when the processes start.
LEMMA RelayInit == Init => RelayInv
<1> SUFFICES ASSUME Init PROVE RelayInv
  OBVIOUS
<1>1. RelayTypes
  BY DEF Init, RelayTypes
<1>2. LinksAreRouted
  BY EmptyLinkType DEF Init, LinksAreRouted
<1> QED
  BY <1>1, <1>2 DEF RelayInv, Init, InnerIsCurrent, ConnectionListIsCurrent, Registered

relevant == <<said, inner, session, owner, connectionList, toGateway, toEcho>>

\* Steps that leave all of it alone: ClientHandler, Start, InnerDispatch,
\* BroadcastStep and LosePacket.
LEMMA UnrelatedStep ==
  ASSUME RelayInv, UNCHANGED relevant
  PROVE  RelayInv'
BY DEF RelayInv, relevant, RelayTypes, InnerIsCurrent, LinksAreRouted,
       ConnectionListIsCurrent, Registered

\* A client sends, or its session goes.
LEMMA ToGatewayStep ==
  ASSUME RelayInv, NEW c \in Clients, NEW link \in LinkOf(FromAuthor(c)),
         toGateway' = [toGateway EXCEPT ![c] = link],
         said' \in Nat,
         UNCHANGED <<inner, session, owner, connectionList, toEcho>>
  PROVE  RelayInv'
<1>1. RelayTypes' /\ InnerIsCurrent' /\ ConnectionListIsCurrent'
  BY DEF RelayInv, RelayTypes, InnerIsCurrent, ConnectionListIsCurrent, Registered
<1>2. LinksAreRouted'
  BY DEF RelayInv, RelayTypes, LinksAreRouted
<1> QED
  BY <1>1, <1>2 DEF RelayInv

\* The steps of a client, and the end of its session.
LEMMA ClientStep ==
  ASSUME RelayInv, NEW c \in Clients,
         \/ SendRegisterMessage(c) \/ SendChatMessage(c) \/ SendDumpChatMessage(c)
         \/ SendBotMessage(c) \/ ClientGone(c)
  PROVE  RelayInv'
<1>1. CASE SendRegisterMessage(c)
  <2> DEFINE m == [author |-> c, n |-> 0, kind |-> "Register"]
  <2>1. m \in FromAuthor(c)
    BY DEF FromAuthor, Message, Kind
  <2>2. Post(EmptyLink, m, RegisterChannel) \in LinkOf(FromAuthor(c))
    BY <2>1, EmptyLinkType, PostType DEF Channel
  <2> QED
    BY <1>1, <2>2, ToGatewayStep
       DEF SendRegisterMessage, echoVars, clientVars, RelayInv, RelayTypes
<1>2. ASSUME NEW kind \in Kind, NEW ch \in Channel \cup {NoChannel}, Say(c, kind, ch)
      PROVE  RelayInv'
  <2> DEFINE m == [author |-> c, n |-> said', kind |-> kind]
  <2>1. said' \in Nat
    BY <1>2 DEF Say, RelayInv, RelayTypes
  <2>2. m \in FromAuthor(c)
    BY <2>1 DEF FromAuthor, Message
  <2>3. toGateway[c] \in LinkOf(FromAuthor(c))
    BY DEF RelayInv, LinksAreRouted
  <2>4. Post(toGateway[c], m, ch) \in LinkOf(FromAuthor(c))
    BY <2>2, <2>3, PostType
  <2> QED
    BY <1>2, <2>1, <2>4, ToGatewayStep DEF Say, gatewayVars, echoVars
<1>3. CASE SendChatMessage(c) \/ SendDumpChatMessage(c) \/ SendBotMessage(c)
  BY <1>2, <1>3 DEF SendChatMessage, SendDumpChatMessage, SendBotMessage, Kind, Channel
<1>4. CASE ClientGone(c)
  BY <1>4, EmptyLinkType, ToGatewayStep
     DEF ClientGone, echoVars, clientVars, RelayInv, RelayTypes
<1> QED
  BY <1>1, <1>3, <1>4

\* A restart of the gateway.
LEMMA RestartStep ==
  ASSUME RelayInv, Restart
  PROVE  RelayInv'
<1>1. RelayTypes'
  BY DEF RelayInv, RelayTypes, Restart, echoVars, clientVars
<1>2. InnerIsCurrent' /\ ConnectionListIsCurrent'
  BY DEF RelayInv, RelayTypes, InnerIsCurrent, ConnectionListIsCurrent, Registered, Restart, echoVars
<1>3. LinksAreRouted'
  BY EmptyLinkType DEF RelayInv, LinksAreRouted, Restart, echoVars
<1> QED
  BY <1>1, <1>2, <1>3 DEF RelayInv

\* The link of an echo session changes, and maybe that of a client.
LEMMA ToEchoStep ==
  ASSUME RelayInv, NEW s \in Sessions, NEW link \in LinkOf(RoutedTo(owner[s])),
         session[s] # "free",
         toEcho' = [toEcho EXCEPT ![s] = link],
         UNCHANGED owner,
         session' \in [Sessions -> {"free", "open", "refused"}],
         \A t \in Sessions : session'[t] = "free" <=> session[t] = "free",
         DOMAIN toGateway' = Clients,
         \A c \in Clients : toGateway'[c] \in LinkOf(FromAuthor(c))
  PROVE  LinksAreRouted' /\ DOMAIN toEcho' = Sessions
BY DEF RelayInv, RelayTypes, LinksAreRouted

\* Clients are served by one of the internal clients.
LEMMA RouteType == \A c \in Clients : Route(c) \in Inner
<1>1. \A c \in Clients : c \in Nat
  BY RelayAssumption
<1>2. \A n \in Nat : n % EchoCount \in 0 .. EchoCount - 1
  BY RelayAssumption
<1> QED
  BY <1>1, <1>2 DEF Route, Inner

\* The gateway passes a message on to the internal client of its author.
LEMMA GatewayStep ==
  ASSUME RelayInv, NEW c \in Clients, GatewayHandler(c)
  PROVE  RelayInv'
<1>1. PICK p \in Ready(toGateway[c]) :
        /\ toGateway' = [toGateway EXCEPT ![c] = Without(@, p)]
        /\ SendToEcho(Route(c), p.item,
             IF p.item.kind = "Register" THEN RegisterChannel ELSE HeaderToOptions(p))
  BY DEF GatewayHandler
<1>2. toGateway[c] \in LinkOf(FromAuthor(c)) /\ Route(c) \in Inner
  BY RouteType DEF RelayInv, LinksAreRouted
<1>3. p.item \in FromAuthor(c) /\ p.channel \in Channel \cup {NoChannel}
  BY <1>1, <1>2, ReadyType
<1>4. Without(toGateway[c], p) \in LinkOf(FromAuthor(c))
  BY <1>1, <1>2, WithoutType
<1>5. CASE inner[Route(c)] = NoSession
  BY <1>1, <1>4, <1>5, ToGatewayStep
     DEF GatewayHandler, SendToEcho, gatewayVars, echoVars, clientVars, RelayInv, RelayTypes
<1>6. CASE inner[Route(c)] # NoSession
  <2> DEFINE s == inner[Route(c)]
             ch == IF p.item.kind = "Register" THEN RegisterChannel ELSE HeaderToOptions(p)
  <2>1. s \in Sessions /\ session[s] # "free" /\ owner[s] = Route(c)
    BY <1>2, <1>6 DEF RelayInv, RelayTypes, InnerIsCurrent
  <2>2. p.item \in RoutedTo(owner[s])
    BY <1>3, <2>1 DEF FromAuthor, RoutedTo
  <2>3. ch \in Channel \cup {NoChannel}
    BY <1>3 DEF HeaderToOptions, Channel
  <2>4. toEcho[s] \in LinkOf(RoutedTo(owner[s]))
    BY <2>1 DEF RelayInv, LinksAreRouted
  <2>5. Post(toEcho[s], p.item, ch) \in LinkOf(RoutedTo(owner[s]))
    BY <2>2, <2>3, <2>4, PostType
  <2>6. toEcho' = [toEcho EXCEPT ![s] = Post(toEcho[s], p.item, ch)]
    BY <1>1, <1>6 DEF SendToEcho
  <2>7. UNCHANGED <<said, inner, session, owner, connectionList>>
    BY DEF GatewayHandler, gatewayVars, echoVars, clientVars
  <2>8. DOMAIN toGateway' = Clients /\ \A d \in Clients : toGateway'[d] \in LinkOf(FromAuthor(d))
    BY <1>1, <1>4 DEF RelayInv, RelayTypes, LinksAreRouted
  <2>9. session \in [Sessions -> {"free", "open", "refused"}]
    BY DEF RelayInv, RelayTypes
  <2> HIDE DEF s, ch
  <2>10. LinksAreRouted' /\ DOMAIN toEcho' = Sessions
    BY <2>1, <2>5, <2>6, <2>7, <2>8, <2>9, ToEchoStep
  <2>11. RelayTypes' /\ InnerIsCurrent' /\ ConnectionListIsCurrent'
    BY <2>7, <2>8, <2>10 DEF RelayInv, RelayTypes, InnerIsCurrent, ConnectionListIsCurrent,
                             Registered
  <2> QED
    BY <2>10, <2>11 DEF RelayInv
<1> QED
  BY <1>5, <1>6

\* Its session is fresh: nothing of the old one is in the link, and nobody is
\* registered with it.
LEMMA InternalConnectStep ==
  ASSUME RelayInv, NEW k \in Inner, InternalConnect(k)
  PROVE  RelayInv'
<1>1. PICK s \in Sessions : /\ session[s] = "free"
                            /\ session' = [session EXCEPT ![s] = "open"]
                            /\ owner' = [owner EXCEPT ![s] = k]
                            /\ inner' = [inner EXCEPT ![k] = s]
  BY DEF InternalConnect
<1>2. UNCHANGED <<said, connectionList, toGateway, toEcho>> /\ k \in Int
  BY DEF InternalConnect, clientVars, links, Inner
<1>3. RelayTypes'
  BY <1>1, <1>2 DEF RelayInv, RelayTypes
<1>4. InnerIsCurrent'
  BY <1>1, RelayAssumption DEF RelayInv, RelayTypes, InnerIsCurrent
<1>5. LinksAreRouted'
  BY <1>1, <1>2, EmptyLinkType DEF RelayInv, RelayTypes, LinksAreRouted
<1>6. ConnectionListIsCurrent'
  BY <1>1, <1>2 DEF RelayInv, RelayTypes, ConnectionListIsCurrent, Registered
<1> QED
  BY <1>3, <1>4, <1>5, <1>6 DEF RelayInv

\* RegisterHandler enters the client with the session its Register came on.
LEMMA EchoStep ==
  ASSUME RelayInv, NEW s \in Sessions, EchoHandler(s)
  PROVE  RelayInv'
<1>1. PICK p \in Ready(toEcho[s]) :
        AddConnection(s, p) \/ BroadcastBegin(s, p) \/ BotHandler(s, p)
  BY DEF EchoHandler
<1>2. /\ toEcho' = [toEcho EXCEPT ![s] = Without(toEcho[s], p)]
      /\ UNCHANGED <<said, inner, owner, toGateway>>
  BY <1>1 DEF EchoHandler, AddConnection, BroadcastBegin, BotHandler, EchoTakes, gatewayVars,
              clientVars
<1>3. toEcho[s] \in LinkOf(RoutedTo(owner[s]))
  BY DEF RelayInv, LinksAreRouted
<1>4. p.item \in RoutedTo(owner[s]) /\ Without(toEcho[s], p) \in LinkOf(RoutedTo(owner[s]))
  BY <1>1, <1>3, ReadyType, WithoutType
<1>5. session[s] # "free"
  <2>1. Ready(EmptyLink) = {}
    BY DEF Ready, EmptyLink
  <2> QED
    BY <1>1, <2>1 DEF RelayInv, LinksAreRouted
<1>6. /\ session' \in [Sessions -> {"free", "open", "refused"}]
      /\ \A t \in Sessions : session'[t] = "free" <=> session[t] = "free"
  BY <1>1, <1>5 DEF RelayInv, RelayTypes, AddConnection, BroadcastBegin, BotHandler
<1>7. \/ UNCHANGED connectionList
      \/ connectionList' = [connectionList EXCEPT ![p.item.author] = s]
  BY <1>1 DEF AddConnection, BroadcastBegin, BotHandler
<1>8. p.item.author \in Clients /\ Route(p.item.author) = owner[s]
  BY <1>4 DEF RoutedTo, Message
<1>9. DOMAIN toGateway' = Clients /\ \A c \in Clients : toGateway'[c] \in LinkOf(FromAuthor(c))
  BY <1>2 DEF RelayInv, RelayTypes, LinksAreRouted
<1>10. LinksAreRouted' /\ DOMAIN toEcho' = Sessions
  BY <1>2, <1>4, <1>5, <1>6, <1>9, ToEchoStep
<1>11. RelayTypes'
  BY <1>2, <1>6, <1>7, <1>9, <1>10 DEF RelayInv, RelayTypes
<1>12. InnerIsCurrent'
  BY <1>2, <1>6 DEF RelayInv, RelayTypes, InnerIsCurrent
<1>13. ConnectionListIsCurrent'
  BY <1>2, <1>5, <1>6, <1>7, <1>8 DEF RelayInv, RelayTypes, ConnectionListIsCurrent, Registered
<1> QED
  BY <1>10, <1>11, <1>12, <1>13 DEF RelayInv

\* An echo session ends: DestroySession.
LEMMA DestroyStep ==
  ASSUME RelayInv, NEW s \in Sessions, DestroySession(s)
  PROVE  RelayInv'
<1>1. /\ session' = [session EXCEPT ![s] = "free"]
      /\ connectionList' = [c \in Clients |->
                             IF connectionList[c] = s THEN NoSession ELSE connectionList[c]]
      /\ inner' = [k \in Inner |-> IF inner[k] = s THEN NoSession ELSE inner[k]]
      /\ toEcho' = [toEcho EXCEPT ![s] = EmptyLink]
      /\ UNCHANGED <<said, owner, toGateway>>
  BY DEF DestroySession, EraseConnections, clientVars
<1>2. RelayTypes'
  BY <1>1 DEF RelayInv, RelayTypes
<1>3. InnerIsCurrent'
  BY <1>1 DEF RelayInv, RelayTypes, InnerIsCurrent
<1>4. LinksAreRouted'
  BY <1>1, EmptyLinkType DEF RelayInv, RelayTypes, LinksAreRouted
<1>5. ConnectionListIsCurrent'
  BY <1>1 DEF RelayInv, RelayTypes, ConnectionListIsCurrent, Registered
<1> QED
  BY <1>2, <1>3, <1>4, <1>5 DEF RelayInv

\* Every step of the relay keeps the invariant.
LEMMA RelayStep == RelayInv /\ [Next]_vars => RelayInv'
<1> SUFFICES ASSUME RelayInv, [Next]_vars PROVE RelayInv'
  OBVIOUS
<1>1. CASE UNCHANGED vars
  BY <1>1, UnrelatedStep DEF vars, relevant, gatewayVars, clientVars, echoVars, links
<1>2. CASE \E c \in Clients : ClientHandler(c)
  BY <1>2, UnrelatedStep DEF ClientHandler, relevant, gatewayVars, echoVars
<1>3. CASE Start
  BY <1>3, UnrelatedStep DEF Start, relevant, clientVars, echoVars, links
<1>4. CASE \E k \in Inner : InnerDispatch(k)
  BY <1>4, UnrelatedStep DEF InnerDispatch, relevant, gatewayVars, clientVars, echoVars
<1>5. CASE \E s \in Sessions : BroadcastStep(s) \/ LosePacket(s)
  BY <1>5, UnrelatedStep DEF BroadcastStep, LosePacket, relevant, gatewayVars, clientVars, echoVars
<1> QED
  BY <1>1, <1>2, <1>3, <1>4, <1>5, ClientStep, GatewayStep, RestartStep, InternalConnectStep,
     EchoStep, DestroyStep DEF Next

\* Where messages and sessions belong, in every state of the relay.
THEOREM RelaySafe == Spec => []RelayInv
BY RelayInit, RelayStep, PTL DEF Spec

\* Broadcast never sends on a session that is gone or serves another client,
\* however many there are and whenever they end.
THEOREM BroadcastSessionsAreCurrent == Spec => []ConnectionListIsCurrent
<1>1. RelayInv => ConnectionListIsCurrent
  BY DEF RelayInv
<1> QED
  BY <1>1, RelaySafe, PTL
-----------------------------------------------------------------------------
(* The way back                                                            *)

\* What a client may be sent.
ForClient(d) == {m \in Message : m.kind = "Bot" => m.author = d}
\* Marked messages on their way to a client they are for.
Addressed == {x \in Marked : x.message \in ForClient(x.to)}
\* Links of an echo session to its internal client.
CopyLink == {link \in LinkOf(Addressed \cup {Lost}) : link.unordered \subseteq Addressed}

\* Broadcasts in progress.
Broadcasts ==
  [message : {m \in Message : m.kind # "Bot"}, channel : Channel \cup {NoChannel},
   left : (SUBSET Clients) \ {{}}]

\* Nobody is sent a bot message of another client, at any stage of its way, and
\* a broadcast goes only to registered clients.
WayBackInv ==
  /\ DOMAIN got = Clients
  /\ DOMAIN toClient = Clients
  /\ DOMAIN fromEcho = Sessions
  /\ broadcast \in [Sessions -> Broadcasts \cup {Idle}]
  /\ \A s \in Sessions : broadcast[s].left \subseteq Registered
  /\ \A c \in Clients : toClient[c] \in LinkOf(ForClient(c)) /\ got[c] \in Seq(ForClient(c))
  /\ \A s \in Sessions : fromEcho[s] \in CopyLink

\* Broadcast comes to one of the clients it has left.
LEMMA LeastClient ==
  ASSUME NEW S, S \subseteq Clients, S # {}
  PROVE  Min(S) \in S
<1>1. S \subseteq Nat
  BY RelayAssumption
<1>2. PICK x \in S : \A y \in S : ~(<<y, x>> \in OpToRel(<, Nat))
  BY <1>1, NatLessThanWellFounded, WFMin
<1>3. \A y \in S : ~(y < x)
  BY <1>1, <1>2 DEF OpToRel
<1>4. \A y \in S : x =< y
  BY <1>1, <1>3
<1> QED
  BY <1>4 DEF Min

\* An echo session sends a message to a client.
LEMMA CopyLinkPost ==
  ASSUME NEW link \in CopyLink, NEW x \in Addressed, NEW ch \in Channel \cup {NoChannel}
  PROVE  Post(link, x, ch) \in CopyLink
<1>1. Post(link, x, ch) \in LinkOf(Addressed \cup {Lost})
  BY PostType DEF CopyLink
<1>2. Post(link, x, ch).unordered \subseteq Addressed
  BY DEF Post, CopyLink, LinkOf
<1> QED
  BY <1>1, <1>2 DEF CopyLink

\* The internal client takes a message out, which is not a lost one.
LEMMA CopyLinkTake ==
  ASSUME NEW link \in CopyLink, NEW p \in Ready(link)
  PROVE  p.item \in Addressed /\ Without(link, p) \in CopyLink
<1>1. p.item \in Addressed \cup {Lost} /\ Without(link, p) \in LinkOf(Addressed \cup {Lost})
  BY ReadyType, WithoutType DEF CopyLink
<1>2. p.item \in Addressed
  BY <1>1 DEF Ready, CopyLink
<1>3. Without(link, p).unordered \subseteq Addressed
  BY DEF Without, CopyLink, LinkOf
<1> QED
  BY <1>1, <1>2, <1>3 DEF CopyLink

\* A client's handler is called.
LEMMA ClientHandlerWayBack ==
  ASSUME WayBackInv, NEW c \in Clients, ClientHandler(c)
  PROVE  WayBackInv'
<1>1. PICK p \in Ready(toClient[c]) :
        /\ toClient' = [toClient EXCEPT ![c] = Without(@, p)]
        /\ got' = [got EXCEPT ![c] = Append(@, p.item)]
  BY DEF ClientHandler
<1>2. /\ toClient[c] \in LinkOf(ForClient(c))
      /\ got[c] \in Seq(ForClient(c))
  BY DEF WayBackInv
<1>3. p.item \in ForClient(c) /\ Without(toClient[c], p) \in LinkOf(ForClient(c))
  BY <1>1, <1>2, ReadyType, WithoutType
<1>4. Append(got[c], p.item) \in Seq(ForClient(c))
  BY <1>2, <1>3
<1>5. UNCHANGED <<fromEcho, broadcast, connectionList>>
  BY DEF ClientHandler, echoVars
<1> QED
  BY <1>1, <1>3, <1>4, <1>5 DEF WayBackInv, Registered

\* The gateway passes a message on to the client it is marked for.
LEMMA InnerDispatchWayBack ==
  ASSUME RelayInv, WayBackInv, NEW k \in Inner, InnerDispatch(k)
  PROVE  WayBackInv'
<1>1. PICK p \in Ready(fromEcho[inner[k]]) :
        /\ fromEcho' = [fromEcho EXCEPT ![inner[k]] = Without(@, p)]
        /\ ChatHandler2(p)
  BY DEF InnerDispatch
<1>2. inner[k] \in Sessions /\ fromEcho[inner[k]] \in CopyLink
  BY DEF InnerDispatch, RelayInv, RelayTypes, WayBackInv
<1>3. p.item \in Addressed /\ Without(fromEcho[inner[k]], p) \in CopyLink
  BY <1>1, <1>2, CopyLinkTake
<1>4. p.channel \in Channel \cup {NoChannel}
  BY <1>1, <1>2, ReadyType DEF CopyLink
<1>5. p.item.to \in Clients /\ p.item.message \in ForClient(p.item.to)
  BY <1>3 DEF Addressed, Marked
<1>6. Post(toClient[p.item.to], p.item.message, p.channel) \in LinkOf(ForClient(p.item.to))
  BY <1>4, <1>5, PostType DEF WayBackInv
<1>7. \/ UNCHANGED toClient
      \/ toClient' = [toClient EXCEPT ![p.item.to] =
                        Post(toClient[p.item.to], p.item.message, p.channel)]
  BY <1>1 DEF ChatHandler2, SendToClient, HeaderToOptions
<1>8. DOMAIN toClient' = Clients /\ \A c \in Clients : toClient'[c] \in LinkOf(ForClient(c))
  BY <1>5, <1>6, <1>7 DEF WayBackInv
<1>9. UNCHANGED <<got, broadcast, connectionList>>
  BY DEF InnerDispatch, clientVars, echoVars
<1> QED
  BY <1>1, <1>2, <1>3, <1>8, <1>9 DEF WayBackInv, Registered

\* The handlers of the echo server.
LEMMA EchoWayBack ==
  ASSUME RelayInv, WayBackInv, NEW s \in Sessions, EchoHandler(s)
  PROVE  WayBackInv'
<1>1. PICK p \in Ready(toEcho[s]) :
        AddConnection(s, p) \/ BroadcastBegin(s, p) \/ BotHandler(s, p)
  BY DEF EchoHandler
<1>2. UNCHANGED <<got, toClient>>
  BY DEF EchoHandler, clientVars
<1>3. toEcho[s] \in LinkOf(RoutedTo(owner[s]))
  BY DEF RelayInv, LinksAreRouted
<1>4. p.item \in Message /\ p.channel \in Channel \cup {NoChannel}
  BY <1>1, <1>3, ReadyType DEF RoutedTo
<1>5. CASE AddConnection(s, p)
  <2>1. \A t \in Sessions : broadcast'[t].left = {}
    BY <1>5 DEF AddConnection, NoBroadcast, Idle
  <2> QED
    BY <1>2, <1>5, <2>1 DEF WayBackInv, AddConnection
<1>6. CASE BroadcastBegin(s, p)
  <2> DEFINE b == [message |-> p.item,
                   channel |-> IF p.item.kind = "LongChat" THEN NoChannel ELSE HeaderToOptions(p),
                   left    |-> Recipients(s)]
  <2>1. Recipients(s) # {} => b \in Broadcasts
    BY <1>4, <1>6 DEF Broadcasts, BroadcastBegin, HeaderToOptions, Recipients, Registered
  <2>2. /\ broadcast' = [broadcast EXCEPT ![s] = IF Recipients(s) = {} THEN Idle ELSE b]
        /\ UNCHANGED <<connectionList, fromEcho>>
    BY <1>6 DEF BroadcastBegin
  <2>3. Idle.left = {} /\ b.left = Registered
    BY DEF Idle, Recipients
  <2> HIDE DEF b
  <2>4. broadcast' \in [Sessions -> Broadcasts \cup {Idle}]
    BY <2>1, <2>2 DEF WayBackInv
  <2>5. \A t \in Sessions : broadcast'[t].left \subseteq Registered
    BY <2>2, <2>3 DEF WayBackInv
  <2> QED
    BY <1>2, <2>2, <2>4, <2>5 DEF WayBackInv, Registered
<1>7. CASE BotHandler(s, p)
  <2> DEFINE x == [message |-> p.item, to |-> p.item.author]
  <2>1. x \in Addressed
    BY <1>4 DEF Addressed, Marked, ForClient, Message
  <2>2. Post(fromEcho[s], x, p.channel) \in CopyLink
    BY <1>4, <2>1, CopyLinkPost DEF WayBackInv
  <2>3. /\ fromEcho' = [fromEcho EXCEPT ![s] = Post(fromEcho[s], x, p.channel)]
        /\ UNCHANGED <<connectionList, broadcast>>
    BY <1>7 DEF BotHandler, HeaderToOptions
  <2> QED
    BY <1>2, <2>2, <2>3 DEF WayBackInv, Registered
<1> QED
  BY <1>1, <1>5, <1>6, <1>7

\* A step of Broadcast sends a registered client its copy.
LEMMA BroadcastTarget ==
  ASSUME RelayInv, WayBackInv, NEW s \in Sessions, BroadcastStep(s)
  PROVE  /\ broadcast[s] \in Broadcasts
         /\ Min(broadcast[s].left) \in broadcast[s].left
         /\ Min(broadcast[s].left) \in Clients
         /\ connectionList[Min(broadcast[s].left)] \in Sessions
<1>1. broadcast[s] \in Broadcasts
  BY DEF WayBackInv, BroadcastStep
<1>2. Min(broadcast[s].left) \in broadcast[s].left
  BY <1>1, LeastClient DEF Broadcasts
<1>3. Min(broadcast[s].left) \in Registered
  BY <1>2 DEF WayBackInv
<1> QED
  BY <1>1, <1>2, <1>3 DEF Registered, RelayInv, RelayTypes

\* Broadcast, one client further.
LEMMA BroadcastWayBack ==
  ASSUME RelayInv, WayBackInv, NEW s \in Sessions, BroadcastStep(s)
  PROVE  WayBackInv'
<1> DEFINE b == broadcast[s]
           c == Min(b.left)
           t == connectionList[c]
           x == [message |-> b.message, to |-> c]
<1>1. b \in Broadcasts /\ c \in b.left /\ c \in Clients /\ t \in Sessions
  BY BroadcastTarget
<1>2. /\ fromEcho' = [fromEcho EXCEPT ![t] = Post(@, x, b.channel)]
      /\ broadcast' = [broadcast EXCEPT ![s] =
                         IF b.left = {c} THEN Idle ELSE [b EXCEPT !.left = @ \ {c}]]
      /\ UNCHANGED <<got, toClient, connectionList>>
  BY DEF BroadcastStep, clientVars
<1> HIDE DEF c, t
<1>3. x \in Addressed
  BY <1>1 DEF Addressed, Marked, ForClient, Broadcasts
<1>4. Post(fromEcho[t], x, b.channel) \in CopyLink
  BY <1>1, <1>3, CopyLinkPost DEF WayBackInv, Broadcasts
<1>5. b.left # {c} => [b EXCEPT !.left = @ \ {c}] \in Broadcasts
  BY <1>1 DEF Broadcasts
<1>6. Idle.left = {} /\ [b EXCEPT !.left = @ \ {c}].left \subseteq b.left
  BY <1>1 DEF Idle, Broadcasts
<1>7. broadcast' \in [Sessions -> Broadcasts \cup {Idle}]
  BY <1>2, <1>5 DEF WayBackInv
<1>8. \A u \in Sessions : broadcast'[u].left \subseteq broadcast[u].left
  BY <1>2, <1>6 DEF WayBackInv
<1>9. \A u \in Sessions : broadcast'[u].left \subseteq Registered'
  BY <1>2, <1>8 DEF WayBackInv, Registered
<1>10. DOMAIN fromEcho' = Sessions /\ \A u \in Sessions : fromEcho'[u] \in CopyLink
  BY <1>2, <1>4 DEF WayBackInv
<1> QED
  BY <1>2, <1>7, <1>9, <1>10 DEF WayBackInv

\* The network loses a packet for good.
LEMMA LoseWayBack ==
  ASSUME WayBackInv, NEW s \in Sessions, LosePacket(s)
  PROVE  WayBackInv'
<1>1. fromEcho[s] \in CopyLink
  BY DEF WayBackInv
<1>2. \E link \in CopyLink : fromEcho' = [fromEcho EXCEPT ![s] = link]
  <2>1. CASE \E i \in fromEcho[s].unordered :
               fromEcho' = [fromEcho EXCEPT ![s].unordered = @ \ {i}]
    <3>1. PICK i \in fromEcho[s].unordered :
                 fromEcho' = [fromEcho EXCEPT ![s].unordered = @ \ {i}]
      BY <2>1
    <3>2. [fromEcho[s] EXCEPT !.unordered = @ \ {i}] \in CopyLink
      BY <1>1 DEF CopyLink, LinkOf
    <3> QED
      BY <3>1, <3>2 DEF WayBackInv
  <2>2. CASE \E ch \in Channel : \E i \in DOMAIN fromEcho[s].ordered[ch] :
               fromEcho' = [fromEcho EXCEPT ![s].ordered[ch][i] = Lost]
    <3>0. PICK ch \in Channel : \E i \in DOMAIN fromEcho[s].ordered[ch] :
                 fromEcho' = [fromEcho EXCEPT ![s].ordered[ch][i] = Lost]
      BY <2>2
    <3>1. PICK i \in DOMAIN fromEcho[s].ordered[ch] :
                 fromEcho' = [fromEcho EXCEPT ![s].ordered[ch][i] = Lost]
      BY <3>0
    <3> DEFINE S == Addressed \cup {Lost}
               q == fromEcho[s].ordered[ch]
               o == [fromEcho[s].ordered EXCEPT ![ch] = [q EXCEPT ![i] = Lost]]
    <3>2. q \in Seq(S) /\ fromEcho[s].ordered \in [Channel -> Seq(S)]
      BY <1>1 DEF CopyLink, LinkOf
    <3>3. [q EXCEPT ![i] = Lost] \in Seq(S)
      BY <3>1, <3>2
    <3>4. o \in [Channel -> Seq(S)]
      BY <3>2, <3>3
    <3>5. [fromEcho[s] EXCEPT !.ordered = o] \in CopyLink
      BY <1>1, <3>4 DEF CopyLink, LinkOf
    <3>6. fromEcho' = [fromEcho EXCEPT ![s] = [fromEcho[s] EXCEPT !.ordered = o]]
      BY <3>1
    <3> QED
      BY <3>5, <3>6
  <2> QED
    BY <2>1, <2>2 DEF LosePacket
<1>3. UNCHANGED <<got, toClient, broadcast, connectionList>>
  BY DEF LosePacket, clientVars, echoVars
<1> QED
  BY <1>2, <1>3 DEF WayBackInv, Registered

\* An echo session ends, when no broadcast is in progress.
LEMMA DestroyWayBack ==
  ASSUME WayBackInv, NEW s \in Sessions, DestroySession(s)
  PROVE  WayBackInv'
<1>1. EmptyLink \in CopyLink
  BY EmptyLinkType DEF CopyLink, EmptyLink
<1>2. /\ fromEcho' = [fromEcho EXCEPT ![s] = EmptyLink]
      /\ UNCHANGED <<got, toClient, broadcast>>
  BY DEF DestroySession, clientVars
<1>3. \A t \in Sessions : broadcast'[t].left = {}
  BY <1>2 DEF DestroySession, NoBroadcast, Idle
<1> QED
  BY <1>1, <1>2, <1>3 DEF WayBackInv

\* Every step keeps the way back in order.
LEMMA WayBackStep == RelayInv /\ WayBackInv /\ [Next]_vars => WayBackInv'
<1> SUFFICES ASSUME RelayInv, WayBackInv, [Next]_vars PROVE WayBackInv'
  OBVIOUS
<1> DEFINE wayBack == <<got, toClient, fromEcho, broadcast, connectionList>>
<1>1. ASSUME UNCHANGED wayBack PROVE WayBackInv'
  BY <1>1 DEF WayBackInv, Registered
<1>2. ASSUME DOMAIN toClient' = Clients,
             \A c \in Clients : toClient'[c] = EmptyLink \/ toClient'[c] = toClient[c],
             UNCHANGED <<got, fromEcho, broadcast, connectionList>>
      PROVE  WayBackInv'
  BY <1>2, EmptyLinkType DEF WayBackInv, Registered
<1>3. CASE UNCHANGED vars \/ Start
  BY <1>1, <1>3 DEF vars, Start, gatewayVars, clientVars, echoVars, links
<1>4. ASSUME NEW c \in Clients,
             \/ SendRegisterMessage(c) \/ SendChatMessage(c) \/ SendDumpChatMessage(c)
             \/ SendBotMessage(c) \/ GatewayHandler(c)
      PROVE  WayBackInv'
  BY <1>1, <1>4 DEF SendRegisterMessage, SendChatMessage, SendDumpChatMessage, SendBotMessage, Say,
                    GatewayHandler, clientVars, echoVars
<1>5. CASE \E k \in Inner : InternalConnect(k)
  BY <1>1, <1>5 DEF InternalConnect, clientVars, links
<1>6. CASE Restart
  BY <1>2, <1>6 DEF Restart, clientVars, echoVars
<1>7. CASE \E c \in Clients : ClientGone(c)
  BY <1>2, <1>7 DEF ClientGone, clientVars, echoVars, WayBackInv
<1> QED
  BY <1>3, <1>4, <1>5, <1>6, <1>7, ClientHandlerWayBack, InnerDispatchWayBack, EchoWayBack,
     BroadcastWayBack, LoseWayBack, DestroyWayBack DEF Next

\* What is on its way to whom, in every state of the relay.
THEOREM WayBackSafe == Spec => []WayBackInv
<1>1. Init => WayBackInv
  <2> SUFFICES ASSUME Init PROVE WayBackInv
    OBVIOUS
  <2>1. EmptyLink \in CopyLink
    BY EmptyLinkType DEF CopyLink, EmptyLink
  <2>2. \A c \in Clients : << >> \in Seq(ForClient(c))
    OBVIOUS
  <2> QED
    BY <2>1, <2>2, EmptyLinkType DEF Init, WayBackInv, Idle
<1> QED
  BY <1>1, WayBackStep, RelaySafe, PTL DEF Spec

\* A bot message comes back to its author only: the mark the gateway put on it
\* leads home through every hop.
THEOREM BotMessagesGoHome == Spec => []BotGoesHome
<1>1. WayBackInv => BotGoesHome
  <2> SUFFICES ASSUME WayBackInv, NEW c \in Clients, NEW i \in DOMAIN got[c]
               PROVE  got[c][i].kind = "Bot" => got[c][i].author = c
    BY DEF BotGoesHome
  <2>1. got[c] \in Seq(ForClient(c))
    BY DEF WayBackInv
  <2>2. got[c][i] \in ForClient(c)
    BY <2>1
  <2> QED
    BY <2>2 DEF ForClient
<1> QED
  BY <1>1, WayBackSafe, PTL
-----------------------------------------------------------------------------
(* Where a client's messages are                                           *)

NotFrom(d) == {m \in Message : m.author # d}

\* Echo session s has nothing to do with client d.
NothingOf(d, s) ==
  /\ toEcho[s] \in LinkOf(NotFrom(d))
  /\ broadcast[s] # Idle => broadcast[s].message.author # d
  /\ connectionList[d] # s

\* A client has one echo session in its life: that of its internal client as
\* long as it lives.  Sessions that a restart of the gateway has left behind
\* serve clients that are gone.
HomeInv ==
  /\ client \in [Clients -> {"new", "live", "gone"}]
  /\ \A d \in Clients : client[d] = "live" => gateway.state = "running"
  /\ \A d \in Clients : \A s \in Sessions :
       \/ NothingOf(d, s)
       \/ client[d] = "gone"
       \/ client[d] = "live" /\ inner[Route(d)] = s
  /\ \A d \in Clients : \A s, t \in Sessions : s # t => NothingOf(d, s) \/ NothingOf(d, t)

\* Sessions that have nothing more to do with a client than before.
LEMMA HomeKept ==
  ASSUME HomeInv,
         \A d \in Clients : \A s \in Sessions : NothingOf(d, s) => NothingOf(d, s)',
         UNCHANGED <<gateway, client, inner>>
  PROVE  HomeInv'
BY DEF HomeInv

\* Steps of the echo server that finish work.
LEMMA NothingKept ==
  ASSUME UNCHANGED <<toEcho, connectionList>>,
         \A s \in Sessions : \/ broadcast'[s] = Idle
                             \/ broadcast'[s] = broadcast[s]
                             \/ /\ broadcast[s] # Idle
                                /\ broadcast'[s].message = broadcast[s].message
  PROVE  \A d \in Clients : \A s \in Sessions : NothingOf(d, s) => NothingOf(d, s)'
BY DEF NothingOf

\* The gateway passes a message on: it is running, and so is the author's
\* session of the echo server.
LEMMA GatewayHome ==
  ASSUME RelayInv, HomeInv, NEW c \in Clients, GatewayHandler(c)
  PROVE  HomeInv'
<1>1. PICK p \in Ready(toGateway[c]) :
        SendToEcho(Route(c), p.item,
          IF p.item.kind = "Register" THEN RegisterChannel ELSE HeaderToOptions(p))
  BY DEF GatewayHandler
<1> DEFINE s == inner[Route(c)]
           ch == IF p.item.kind = "Register" THEN RegisterChannel ELSE HeaderToOptions(p)
<1>2. p.item \in FromAuthor(c) /\ ch \in Channel \cup {NoChannel}
  BY <1>1, ReadyType DEF RelayInv, LinksAreRouted, HeaderToOptions, Channel
<1>3. UNCHANGED <<gateway, client, inner, broadcast, connectionList>> /\ client[c] = "live"
  BY DEF GatewayHandler, gatewayVars, echoVars
<1>4. CASE s = NoSession
  <2>1. UNCHANGED toEcho
    BY <1>1, <1>4 DEF SendToEcho
  <2> QED
    BY <1>3, <2>1, HomeKept DEF NothingOf
<1>5. CASE s # NoSession
  <2>1. s \in Sessions
    BY <1>5, RouteType DEF RelayInv, RelayTypes
  <2>2. toEcho' = [toEcho EXCEPT ![s] = Post(toEcho[s], p.item, ch)]
    BY <1>1, <1>5 DEF SendToEcho
  <2> HIDE DEF ch
  <2>3. ASSUME NEW d \in Clients, d # c, toEcho[s] \in LinkOf(NotFrom(d))
        PROVE  Post(toEcho[s], p.item, ch) \in LinkOf(NotFrom(d))
    <3>1. p.item \in NotFrom(d)
      BY <1>2, <2>3 DEF FromAuthor, NotFrom
    <3> QED
      BY <1>2, <2>3, <3>1, PostType
  <2>4. \A d \in Clients : \A t \in Sessions :
          (d # c \/ t # s) /\ NothingOf(d, t) => NothingOf(d, t)'
    BY <1>3, <2>1, <2>2, <2>3 DEF NothingOf, RelayInv, RelayTypes
  <2> QED
    BY <1>3, <2>1, <2>4 DEF HomeInv
<1> QED
  BY <1>4, <1>5

\* The handlers of the echo server work for a client whose message is there.
LEMMA EchoHome ==
  ASSUME RelayInv, WayBackInv, HomeInv, NEW s \in Sessions, EchoHandler(s)
  PROVE  HomeInv'
<1>1. PICK p \in Ready(toEcho[s]) :
        AddConnection(s, p) \/ BroadcastBegin(s, p) \/ BotHandler(s, p)
  BY DEF EchoHandler
<1>2. /\ toEcho' = [toEcho EXCEPT ![s] = Without(toEcho[s], p)]
      /\ UNCHANGED <<gateway, client, inner>>
  BY <1>1 DEF EchoHandler, AddConnection, BroadcastBegin, BotHandler, EchoTakes, gatewayVars
<1>3. \/ UNCHANGED connectionList
      \/ connectionList' = [connectionList EXCEPT ![p.item.author] = s]
  BY <1>1 DEF AddConnection, BroadcastBegin, BotHandler
<1>4. \A t \in Sessions : \/ broadcast'[t] = broadcast[t]
                          \/ t = s /\ (broadcast'[t] = Idle \/ broadcast'[t].message = p.item)
  <2>1. CASE AddConnection(s, p) \/ BotHandler(s, p)
    BY <2>1 DEF AddConnection, BotHandler
  <2>2. CASE BroadcastBegin(s, p)
    <3> DEFINE b == IF Recipients(s) = {} THEN Idle
                    ELSE [message |-> p.item,
                          channel |-> IF p.item.kind = "LongChat" THEN NoChannel
                                      ELSE HeaderToOptions(p),
                          left    |-> Recipients(s)]
    <3>1. broadcast' = [broadcast EXCEPT ![s] = b]
      BY <2>2 DEF BroadcastBegin
    <3>2. b = Idle \/ b.message = p.item
      OBVIOUS
    <3> HIDE DEF b
    <3> QED
      BY <3>1, <3>2 DEF WayBackInv
  <2> QED
    BY <1>1, <2>1, <2>2
<1>5. ASSUME NEW d \in Clients, toEcho[s] \in LinkOf(NotFrom(d))
      PROVE  /\ Without(toEcho[s], p) \in LinkOf(NotFrom(d))
             /\ p.item.author # d
  <2>1. p.item \in NotFrom(d)
    BY <1>5, ReadyType
  <2> QED
    BY <1>5, <2>1, WithoutType DEF NotFrom
<1>6. \A d \in Clients : \A t \in Sessions : NothingOf(d, t) => NothingOf(d, t)'
  BY <1>2, <1>3, <1>4, <1>5 DEF NothingOf, RelayInv, RelayTypes
<1> QED
  BY <1>2, <1>6, HomeKept

\* A session that ends leaves nothing behind.
LEMMA DestroyHome ==
  ASSUME RelayInv, HomeInv, NEW s \in Sessions, DestroySession(s)
  PROVE  HomeInv'
<1>1. /\ connectionList' = [c \in Clients |->
                             IF connectionList[c] = s THEN NoSession ELSE connectionList[c]]
      /\ inner' = [k \in Inner |-> IF inner[k] = s THEN NoSession ELSE inner[k]]
      /\ toEcho' = [toEcho EXCEPT ![s] = EmptyLink]
      /\ \A t \in Sessions : broadcast'[t] = Idle
      /\ UNCHANGED <<gateway, client>>
  BY DEF DestroySession, EraseConnections, NoBroadcast
<1>2. \A d \in Clients : NothingOf(d, s)'
  BY <1>1, EmptyLinkType, RelayAssumption DEF NothingOf, RelayInv, RelayTypes
<1>3. \A d \in Clients : \A t \in Sessions : NothingOf(d, t) => NothingOf(d, t)'
  BY <1>1, EmptyLinkType, RelayAssumption DEF NothingOf, RelayInv, RelayTypes
<1>4. \A d \in Clients : \A t \in Sessions : t # s /\ inner[Route(d)] = t => inner'[Route(d)] = t
  BY <1>1, RouteType
<1> QED
  BY <1>1, <1>2, <1>3, <1>4 DEF HomeInv

\* Every step keeps a client's messages at one echo session.
LEMMA HomeStep == RelayInv /\ WayBackInv /\ HomeInv /\ [Next]_vars => HomeInv'
<1> SUFFICES ASSUME RelayInv, WayBackInv, HomeInv, [Next]_vars PROVE HomeInv'
  OBVIOUS
<1>1. ASSUME UNCHANGED <<toEcho, connectionList, broadcast>>
      PROVE  \A d \in Clients : \A s \in Sessions : NothingOf(d, s)' <=> NothingOf(d, s)
  BY <1>1 DEF NothingOf
<1>2. ASSUME UNCHANGED <<toEcho, connectionList, broadcast, gateway, client, inner>>
      PROVE  HomeInv'
  BY <1>1, <1>2, HomeKept
<1>3. CASE UNCHANGED vars
  BY <1>2, <1>3 DEF vars, gatewayVars, echoVars, links
<1>4. ASSUME NEW c \in Clients,
             SendChatMessage(c) \/ SendDumpChatMessage(c) \/ SendBotMessage(c) \/ ClientHandler(c)
      PROVE  HomeInv'
  BY <1>2, <1>4 DEF SendChatMessage, SendDumpChatMessage, SendBotMessage, Say, ClientHandler,
                    gatewayVars, echoVars
<1>5. ASSUME NEW k \in Inner, InnerDispatch(k) PROVE HomeInv'
  BY <1>2, <1>5 DEF InnerDispatch, gatewayVars, echoVars
<1>6. ASSUME NEW s \in Sessions, LosePacket(s) PROVE HomeInv'
  BY <1>2, <1>6 DEF LosePacket, gatewayVars, echoVars
<1>7. ASSUME NEW s \in Sessions, BroadcastStep(s) PROVE HomeInv'
  <2> DEFINE b == broadcast[s]
             rest == [b EXCEPT !.left = @ \ {Min(b.left)}]
  <2>1. b \in Broadcasts
    BY <1>7, BroadcastTarget
  <2>2. rest.message = b.message
    BY <2>1 DEF Broadcasts
  <2>3. /\ broadcast' = [broadcast EXCEPT ![s] = IF b.left = {Min(b.left)} THEN Idle ELSE rest]
        /\ b # Idle
    BY <1>7 DEF BroadcastStep
  <2> HIDE DEF rest
  <2>4. \A t \in Sessions : \/ broadcast'[t] = Idle
                            \/ broadcast'[t] = broadcast[t]
                            \/ /\ broadcast[t] # Idle
                               /\ broadcast'[t].message = broadcast[t].message
    BY <2>2, <2>3 DEF WayBackInv
  <2>5. UNCHANGED <<toEcho, connectionList, gateway, client, inner>>
    BY <1>7 DEF BroadcastStep, gatewayVars
  <2> QED
    BY <2>4, <2>5, NothingKept, HomeKept
<1>8. ASSUME NEW c \in Clients, SendRegisterMessage(c) \/ ClientGone(c) PROVE HomeInv'
  <2>1. UNCHANGED <<toEcho, connectionList, broadcast, gateway, inner>>
    BY <1>8 DEF SendRegisterMessage, ClientGone, echoVars
  <2> QED
    BY <1>1, <1>8, <2>1 DEF HomeInv, SendRegisterMessage, ClientGone
<1>9. CASE Restart
  <2>1. UNCHANGED <<toEcho, connectionList, broadcast>>
    BY <1>9 DEF Restart, echoVars
  <2>2. \A d \in Clients : client'[d] # "live" /\ (client[d] # "new" => client'[d] = "gone")
                           /\ (client[d] = "new" => client'[d] = "new")
    BY <1>9 DEF Restart, HomeInv
  <2>3. client' \in [Clients -> {"new", "live", "gone"}]
    BY <1>9 DEF Restart, HomeInv
  <2> QED
    BY <1>1, <2>1, <2>2, <2>3 DEF HomeInv
<1>10. CASE Start
  <2>1. UNCHANGED <<toEcho, connectionList, broadcast, client, inner>>
    BY <1>10 DEF Start, echoVars, links
  <2>2. \A d \in Clients : client[d] # "live"
    BY <1>10 DEF Start, HomeInv
  <2> QED
    BY <1>1, <2>1, <2>2 DEF HomeInv
<1>11. ASSUME NEW k \in Inner, InternalConnect(k) PROVE HomeInv'
  <2>1. UNCHANGED <<toEcho, connectionList, broadcast, client, gateway>>
    BY <1>11 DEF InternalConnect, links
  <2>2. \A d \in Clients : client[d] # "live"
    BY <1>11 DEF InternalConnect, HomeInv
  <2> QED
    BY <1>1, <2>1, <2>2 DEF HomeInv
<1> QED
  BY <1>3, <1>4, <1>5, <1>6, <1>7, <1>8, <1>9, <1>10, <1>11, GatewayHome, EchoHome, DestroyHome
     DEF Next

\* A client's messages are at one echo session, in every state of the relay.
LEMMA HomeSafe == Spec => []HomeInv
<1>1. Init => HomeInv
  <2> SUFFICES ASSUME Init PROVE HomeInv
    OBVIOUS
  <2>1. \A d \in Clients : \A s \in Sessions : NothingOf(d, s)
    BY EmptyLinkType, RelayAssumption DEF Init, NothingOf
  <2> QED
    BY <2>1 DEF Init, HomeInv
<1> QED
  BY <1>1, HomeStep, RelaySafe, WayBackSafe, PTL DEF Spec
-----------------------------------------------------------------------------
(* Numbers of messages in links                                            *)

\* The numbers f gives to entries of q; f has a number for some of them only.
Keys(q, f) == {f[q[i]] : i \in {i \in DOMAIN q : q[i] \in DOMAIN f}}

Rising(q, f) ==
  \A i, j \in DOMAIN q : i < j /\ q[i] \in DOMAIN f /\ q[j] \in DOMAIN f => f[q[i]] < f[q[j]]

\* The numbers a link holds, all of them on the channel of chats and rising.
Held(link, f) == Keys(link.ordered[ChatChannel], f)
InOrder(link, f) ==
  /\ Rising(link.ordered[ChatChannel], f)
  /\ Keys(link.ordered[RegisterChannel], f) = {}
  /\ link.unordered \cap DOMAIN f = {}

\* One entry more at the end.
LEMMA KeysAppend ==
  ASSUME NEW S, NEW q \in Seq(S), NEW x, NEW f
  PROVE  /\ \A k \in Keys(Append(q, x), f) : k \in Keys(q, f) \/ (x \in DOMAIN f /\ k = f[x])
         /\ /\ Rising(q, f)
            /\ x \in DOMAIN f => \A k \in Keys(q, f) : k < f[x]
            => Rising(Append(q, x), f)
<1> DEFINE r == Append(q, x)
<1>1. /\ DOMAIN q = 1 .. Len(q) /\ Len(q) \in Nat
      /\ DOMAIN r = 1 .. Len(q) + 1
      /\ \A i \in 1 .. Len(q) : r[i] = q[i]
      /\ r[Len(q) + 1] = x
  OBVIOUS
<1> HIDE DEF r
<1>2. ASSUME NEW k \in Keys(r, f) PROVE k \in Keys(q, f) \/ (x \in DOMAIN f /\ k = f[x])
  <2>1. PICK i \in DOMAIN r : r[i] \in DOMAIN f /\ k = f[r[i]]
    BY DEF Keys
  <2>2. CASE i \in DOMAIN q
    BY <1>1, <2>1, <2>2 DEF Keys
  <2>3. CASE i = Len(q) + 1
    BY <1>1, <2>1, <2>3
  <2> QED
    BY <1>1, <2>2, <2>3
<1>3. ASSUME Rising(q, f), x \in DOMAIN f => \A k \in Keys(q, f) : k < f[x]
      PROVE  Rising(r, f)
  <2> SUFFICES ASSUME NEW i \in DOMAIN r, NEW j \in DOMAIN r, i < j,
                      r[i] \in DOMAIN f, r[j] \in DOMAIN f
               PROVE  f[r[i]] < f[r[j]]
    BY DEF Rising
  <2>1. i \in DOMAIN q /\ r[i] = q[i]
    BY <1>1
  <2>2. CASE j \in DOMAIN q
    BY <1>1, <1>3, <2>1, <2>2 DEF Rising
  <2>3. CASE j = Len(q) + 1
    BY <1>1, <1>3, <2>1, <2>3 DEF Keys
  <2> QED
    BY <1>1, <2>2, <2>3
<1> QED
  BY <1>2, <1>3 DEF r

\* The first entry is taken.
LEMMA KeysTail ==
  ASSUME NEW S, NEW q \in Seq(S), q # << >>, NEW f
  PROVE  /\ Keys(Tail(q), f) \subseteq Keys(q, f)
         /\ Head(q) \in DOMAIN f => f[Head(q)] \in Keys(q, f)
         /\ Rising(q, f) => /\ Rising(Tail(q), f)
                            /\ Head(q) \in DOMAIN f =>
                                 \A k \in Keys(Tail(q), f) : f[Head(q)] < k
<1> DEFINE r == Tail(q)
<1>1. /\ DOMAIN q = 1 .. Len(q) /\ Len(q) \in Nat /\ Len(q) > 0
      /\ DOMAIN r = 1 .. Len(q) - 1
      /\ \A i \in 1 .. Len(q) - 1 : r[i] = q[i + 1]
      /\ Head(q) = q[1]
  OBVIOUS
<1> HIDE DEF r
<1>2. \A i \in DOMAIN r : i + 1 \in DOMAIN q /\ r[i] = q[i + 1] /\ 1 < i + 1 /\ 1 \in DOMAIN q
  BY <1>1
<1>3. Keys(r, f) \subseteq Keys(q, f)
  BY <1>2 DEF Keys
<1>4. Head(q) \in DOMAIN f => f[Head(q)] \in Keys(q, f)
  BY <1>1 DEF Keys
<1>5. ASSUME Rising(q, f) PROVE Rising(r, f)
  <2> SUFFICES ASSUME NEW i \in DOMAIN r, NEW j \in DOMAIN r, i < j,
                      r[i] \in DOMAIN f, r[j] \in DOMAIN f
               PROVE  f[r[i]] < f[r[j]]
    BY DEF Rising
  <2>1. i + 1 < j + 1
    BY <1>1
  <2> QED
    BY <1>2, <1>5, <2>1 DEF Rising
<1>6. ASSUME Rising(q, f), Head(q) \in DOMAIN f, NEW k \in Keys(r, f) PROVE f[Head(q)] < k
  <2>1. PICK i \in DOMAIN r : r[i] \in DOMAIN f /\ k = f[r[i]]
    BY <1>6 DEF Keys
  <2> QED
    BY <1>1, <1>2, <1>6, <2>1 DEF Rising
<1> QED
  BY <1>3, <1>4, <1>5, <1>6 DEF r

\* SendPacket, in terms of the numbers.
LEMMA PostNumbers ==
  ASSUME NEW S, NEW link \in LinkOf(S), NEW x, NEW ch \in Channel \cup {NoChannel}, NEW f,
         InOrder(link, f),
         x \in DOMAIN f => ch = ChatChannel /\ \A k \in Held(link, f) : k < f[x]
  PROVE  /\ InOrder(Post(link, x, ch), f)
         /\ \A k \in Held(Post(link, x, ch), f) : k \in Held(link, f) \/ (x \in DOMAIN f /\ k = f[x])
<1> DEFINE new == Post(link, x, ch)
<1>1. link.ordered \in [Channel -> Seq(S)] /\ RegisterChannel \in Channel /\ ChatChannel \in Channel
  BY DEF LinkOf, Channel
<1>2. /\ link.ordered[ChatChannel] \in Seq(S)
      /\ link.ordered[RegisterChannel] \in Seq(S)
  BY <1>1
<1>3. CASE ch = NoChannel
  <2>1. new.ordered = link.ordered /\ new.unordered = link.unordered \cup {x}
    BY <1>3 DEF Post, LinkOf
  <2>2. x \notin DOMAIN f
    BY <1>3 DEF NoChannel, ChatChannel
  <2>3. Held(new, f) = Held(link, f)
    BY <2>1 DEF Held
  <2>4. new.unordered \cap DOMAIN f = {}
    BY <2>1, <2>2 DEF InOrder
  <2> HIDE DEF new
  <2>5. InOrder(new, f)
    BY <2>1, <2>4 DEF InOrder
  <2> QED
    BY <2>3, <2>5 DEF new
<1>4. CASE ch = ChatChannel
  <2>1. /\ new.ordered[ChatChannel] = Append(link.ordered[ChatChannel], x)
        /\ new.ordered[RegisterChannel] = link.ordered[RegisterChannel]
        /\ new.unordered = link.unordered
    BY <1>1, <1>4 DEF Post, LinkOf, NoChannel, ChatChannel, RegisterChannel
  <2> QED
    BY <1>2, <2>1, KeysAppend DEF InOrder, Held
<1>5. CASE ch = RegisterChannel
  <2>1. /\ new.ordered[RegisterChannel] = Append(link.ordered[RegisterChannel], x)
        /\ new.ordered[ChatChannel] = link.ordered[ChatChannel]
        /\ new.unordered = link.unordered
    BY <1>1, <1>5 DEF Post, LinkOf, NoChannel, ChatChannel, RegisterChannel
  <2>2. x \notin DOMAIN f
    BY <1>5 DEF RegisterChannel, ChatChannel
  <2>3. Keys(Append(link.ordered[RegisterChannel], x), f) \subseteq
          Keys(link.ordered[RegisterChannel], f)
    BY <1>2, <2>2, KeysAppend
  <2>4. Held(new, f) = Held(link, f)
    BY <2>1 DEF Held
  <2> HIDE DEF new
  <2>5. InOrder(new, f)
    BY <2>1, <2>3 DEF InOrder
  <2> QED
    BY <2>4, <2>5 DEF new
<1> QED
  BY <1>3, <1>4, <1>5 DEF Channel

\* PacketParse, in terms of the numbers: what has one comes from the channel of
\* chats, and what stays behind has a higher one.
LEMMA TakeNumbers ==
  ASSUME NEW S, NEW link \in LinkOf(S), NEW p \in Ready(link), NEW f, InOrder(link, f)
  PROVE  /\ InOrder(Without(link, p), f)
         /\ Held(Without(link, p), f) \subseteq Held(link, f)
         /\ p.item \in DOMAIN f => /\ p.channel = ChatChannel
                                   /\ f[p.item] \in Held(link, f)
                                   /\ \A k \in Held(Without(link, p), f) : f[p.item] < k
<1> DEFINE new == Without(link, p)
<1>1. link.ordered \in [Channel -> Seq(S)] /\ RegisterChannel \in Channel /\ ChatChannel \in Channel
  BY DEF LinkOf, Channel
<1>2. /\ link.ordered[ChatChannel] \in Seq(S)
      /\ link.ordered[RegisterChannel] \in Seq(S)
  BY <1>1
<1>3. CASE p.channel = NoChannel
  <2>1. new.ordered = link.ordered /\ new.unordered \subseteq link.unordered
    BY <1>3 DEF Without, LinkOf
  <2>2. p.item \in link.unordered
    BY <1>3 DEF Ready, Channel, NoChannel, RegisterChannel, ChatChannel
  <2> QED
    BY <2>1, <2>2 DEF InOrder, Held
<1>4. CASE p.channel = ChatChannel
  <2>1. /\ new.ordered[ChatChannel] = Tail(link.ordered[ChatChannel])
        /\ new.ordered[RegisterChannel] = link.ordered[RegisterChannel]
        /\ new.unordered = link.unordered
    BY <1>1, <1>4 DEF Without, LinkOf, NoChannel, ChatChannel, RegisterChannel
  <2>2. link.ordered[ChatChannel] # << >> /\ p.item = Head(link.ordered[ChatChannel])
    BY <1>4 DEF Ready, NoChannel, ChatChannel
  <2> QED
    BY <1>2, <1>4, <2>1, <2>2, KeysTail DEF InOrder, Held
<1>5. CASE p.channel = RegisterChannel
  <2>1. /\ new.ordered[RegisterChannel] = Tail(link.ordered[RegisterChannel])
        /\ new.ordered[ChatChannel] = link.ordered[ChatChannel]
        /\ new.unordered = link.unordered
    BY <1>1, <1>5 DEF Without, LinkOf, NoChannel, ChatChannel, RegisterChannel
  <2>2. link.ordered[RegisterChannel] # << >> /\ p.item = Head(link.ordered[RegisterChannel])
    BY <1>5 DEF Ready, NoChannel, RegisterChannel
  <2>3. /\ Keys(Tail(link.ordered[RegisterChannel]), f) = {}
        /\ p.item \notin DOMAIN f
    BY <1>2, <2>2, KeysTail DEF InOrder
  <2> QED
    BY <2>1, <2>3 DEF InOrder, Held
<1> QED
  BY <1>3, <1>4, <1>5, ReadyType DEF Channel

\* A link without messages.
LEMMA EmptyNumbers == \A f : InOrder(EmptyLink, f) /\ Held(EmptyLink, f) = {}
BY DEF InOrder, Held, EmptyLink, Rising, Keys, Channel, ChatChannel, RegisterChannel

\* Messages that have no number are not among those of a link.
LEMMA NoNumbers ==
  ASSUME NEW S, NEW link \in LinkOf(S), NEW f, DOMAIN f \cap S = {}
  PROVE  Held(link, f) = {}
<1>1. link.ordered[ChatChannel] \in Seq(S)
  BY DEF LinkOf, Channel
<1>2. \A i \in DOMAIN link.ordered[ChatChannel] : link.ordered[ChatChannel][i] \in S
  BY <1>1
<1> QED
  BY <1>2 DEF Held, Keys

\* Loss of a packet, in terms of the numbers.
LEMMA LoseNumbers ==
  ASSUME NEW S, NEW q \in Seq(S), NEW i \in DOMAIN q, NEW x, NEW f, x \notin DOMAIN f
  PROVE  /\ Keys([q EXCEPT ![i] = x], f) \subseteq Keys(q, f)
         /\ Rising(q, f) => Rising([q EXCEPT ![i] = x], f)
<1> DEFINE r == [q EXCEPT ![i] = x]
<1>1. DOMAIN r = DOMAIN q /\ \A j \in DOMAIN q : r[j] \in DOMAIN f => r[j] = q[j]
  OBVIOUS
<1> HIDE DEF r
<1>2. Keys(r, f) \subseteq Keys(q, f)
  BY <1>1 DEF Keys
<1>3. Rising(q, f) => Rising(r, f)
  BY <1>1 DEF Rising
<1> QED
  BY <1>2, <1>3 DEF r
-----------------------------------------------------------------------------
(* The order of an author's chats                                          *)

ChatsBy(a) == {m \in Message : m.author = a /\ m.kind = "Chat"}
ChatNumber(a) == [m \in ChatsBy(a) |-> m.n]
CopiesTo(a, d) == {x \in Marked : x.to = d /\ x.message \in ChatsBy(a)}
CopyNumber(a, d) == [x \in CopiesTo(a, d) |-> x.message.n]

\* The numbers of the chats of author a at the stages of their way to reader d.
Read(a, d) == Keys(got[d], ChatNumber(a))
ToReader(a, d) == Held(toClient[d], ChatNumber(a))
Copied(a, d) == UNION {Held(fromEcho[s], CopyNumber(a, d)) : s \in Sessions}
InBroadcast(a, d) ==
  {broadcast[s].message.n :
     s \in {s \in Sessions : d \in broadcast[s].left /\ broadcast[s].message \in ChatsBy(a)}}
ToServer(a) == UNION {Held(toEcho[s], ChatNumber(a)) : s \in Sessions}
Sent(a) == Held(toGateway[a], ChatNumber(a))

\* From the last stage to the first.
Stages(a, d) ==
  <<Read(a, d), ToReader(a, d), Copied(a, d), InBroadcast(a, d), ToServer(a), Sent(a)>>

\* What is a stage further is older, and all of it has been said.
Staged(st, top) ==
  /\ \A i, j \in 1 .. 6 : i < j => \A x \in st[i], y \in st[j] : x < y
  /\ \A i \in 1 .. 6 : \A x \in st[i] : x \in Nat /\ x <= top

LinksInOrder(a, d) ==
  /\ Rising(got[d], ChatNumber(a))
  /\ InOrder(toClient[d], ChatNumber(a))
  /\ \A s \in Sessions : /\ InOrder(fromEcho[s], CopyNumber(a, d))
                         /\ InOrder(toEcho[s], ChatNumber(a))
  /\ InOrder(toGateway[a], ChatNumber(a))

\* Copies for a client are only where it is registered.
CopiesAreHome(a, d) ==
  \A s \in Sessions : Held(fromEcho[s], CopyNumber(a, d)) # {} => connectionList[d] = s

ChatOrder(a, d) ==
  LinksInOrder(a, d) /\ CopiesAreHome(a, d) /\ Staged(Stages(a, d), said)

OrderInv ==
  /\ \A s \in Sessions :
       broadcast[s] # Idle /\ broadcast[s].message.kind = "Chat" => broadcast[s].channel = ChatChannel
  /\ \A a, d \in Clients : ChatOrder(a, d)

\* Messages are forgotten, or one goes on from stage j, where all that stays
\* behind has a higher number.
LEMMA StagesMove ==
  ASSUME NEW st, NEW new, NEW top, Staged(st, top),
         NEW j \in 2 .. 6, NEW n \in st[j],
         \A i \in 1 .. 6 : i # j - 1 => new[i] \subseteq st[i],
         \A x \in new[j - 1] : x \in st[j - 1] \/ x = n,
         \A x \in new[j] : n < x
  PROVE  Staged(new, top)
<1>1. ASSUME NEW i \in 1 .. 6, NEW k \in 1 .. 6, i < k, NEW x \in new[i], NEW y \in new[k]
      PROVE  x < y
  <2>1. CASE i = j - 1 /\ x = n
    <3>1. k = j \/ (j < k /\ y \in st[k])
      BY <1>1, <2>1
    <3> QED
      BY <1>1, <2>1, <3>1 DEF Staged
  <2>2. CASE x \in st[i]
    <3>1. y \in st[k] \/ (k = j - 1 /\ y = n /\ i < j)
      BY <1>1
    <3> QED
      BY <1>1, <2>2, <3>1 DEF Staged
  <2> QED
    BY <1>1, <2>1, <2>2
<1>2. ASSUME NEW i \in 1 .. 6, NEW x \in new[i] PROVE x \in Nat /\ x <= top
  <2>1. x \in st[i] \/ x \in st[j]
    BY <1>2
  <2> QED
    BY <2>1 DEF Staged
<1> QED
  BY <1>1, <1>2 DEF Staged

\* Messages are forgotten.
LEMMA StagesShrink ==
  ASSUME NEW st, NEW new, NEW top, Staged(st, top), \A i \in 1 .. 6 : new[i] \subseteq st[i]
  PROVE  Staged(new, top)
BY DEF Staged

\* The author says something.
LEMMA StagesEnter ==
  ASSUME NEW st, NEW new, NEW top \in Nat, Staged(st, top),
         \A i \in 1 .. 5 : new[i] = st[i],
         \A x \in new[6] : x \in st[6] \/ x = top + 1
  PROVE  Staged(new, top + 1)
<1>1. ASSUME NEW i \in 1 .. 6, NEW k \in 1 .. 6, i < k, NEW x \in new[i], NEW y \in new[k]
      PROVE  x < y
  <2>1. i \in 1 .. 5 /\ x \in st[i] /\ x \in Nat /\ x <= top
    BY <1>1 DEF Staged
  <2>2. y \in st[k] \/ y = top + 1
    BY <1>1
  <2> QED
    BY <1>1, <2>1, <2>2 DEF Staged
<1>2. ASSUME NEW i \in 1 .. 6, NEW x \in new[i] PROVE x \in Nat /\ x <= top + 1
  <2>1. x \in st[i] \/ x = top + 1
    BY <1>2
  <2> QED
    BY <2>1 DEF Staged
<1> QED
  BY <1>1, <1>2 DEF Staged

\* The stages by their places, before and after a step.
LEMMA StagePlaces ==
  ASSUME NEW a, NEW d
  PROVE  /\ Stages(a, d)[1] = Read(a, d)        /\ Stages(a, d)'[1] = Read(a, d)'
         /\ Stages(a, d)[2] = ToReader(a, d)    /\ Stages(a, d)'[2] = ToReader(a, d)'
         /\ Stages(a, d)[3] = Copied(a, d)      /\ Stages(a, d)'[3] = Copied(a, d)'
         /\ Stages(a, d)[4] = InBroadcast(a, d) /\ Stages(a, d)'[4] = InBroadcast(a, d)'
         /\ Stages(a, d)[5] = ToServer(a)       /\ Stages(a, d)'[5] = ToServer(a)'
         /\ Stages(a, d)[6] = Sent(a)           /\ Stages(a, d)'[6] = Sent(a)'
BY DEF Stages

\* The domains of the numberings.
LEMMA Numberings ==
  \A a, d : /\ DOMAIN ChatNumber(a) = ChatsBy(a)
            /\ \A m \in ChatsBy(a) : ChatNumber(a)[m] = m.n
            /\ DOMAIN CopyNumber(a, d) = CopiesTo(a, d)
            /\ \A x \in CopiesTo(a, d) : CopyNumber(a, d)[x] = x.message.n
BY DEF ChatNumber, CopyNumber

\* What has a number is a chat of the author.
LEMMA NumberedChat ==
  ASSUME NEW a, NEW m \in DOMAIN ChatNumber(a)
  PROVE  m \in Message /\ m.author = a /\ m.kind = "Chat" /\ ChatNumber(a)[m] = m.n
<1>1. m \in ChatsBy(a) /\ ChatNumber(a)[m] = m.n
  BY Numberings
<1> QED
  BY <1>1 DEF ChatsBy

\* A client that no longer has anything, or has one message more to say.
LEMMA SayOrder ==
  ASSUME RelayInv, OrderInv, NEW c \in Clients, NEW kind \in Kind,
         NEW ch \in Channel \cup {NoChannel}, kind = "Chat" => ch = ChatChannel,
         Say(c, kind, ch)
  PROVE  OrderInv'
<1> DEFINE m == [author |-> c, n |-> said + 1, kind |-> kind]
<1>1. /\ said' = said + 1
      /\ toGateway' = [toGateway EXCEPT ![c] = Post(toGateway[c], m, ch)]
      /\ UNCHANGED <<got, toClient, fromEcho, toEcho, broadcast, connectionList>>
  BY DEF Say, echoVars
<1>2. said \in Nat /\ DOMAIN toGateway = Clients /\ toGateway[c] \in LinkOf(FromAuthor(c))
  BY DEF RelayInv, RelayTypes, LinksAreRouted
<1>3. m \in Message /\ m.author = c /\ m.kind = kind /\ m.n = said + 1
  BY <1>2 DEF Message
<1> HIDE DEF m
<1>4. ASSUME NEW a \in Clients, NEW d \in Clients PROVE ChatOrder(a, d)'
  <2> DEFINE f == ChatNumber(a)
  <2>1. ChatOrder(a, d)
    BY DEF OrderInv
  <2>2. \A i \in 1 .. 5 : Stages(a, d)'[i] = Stages(a, d)[i]
    <3>1. /\ UNCHANGED <<Read(a, d), ToReader(a, d), Copied(a, d)>>
          /\ UNCHANGED <<InBroadcast(a, d), ToServer(a)>>
      BY <1>1 DEF Read, ToReader, Copied, InBroadcast, ToServer
    <3> QED
      BY <3>1, StagePlaces
  <2>3. Stages(a, d)[6] = Held(toGateway[a], f) /\ Stages(a, d)'[6] = Held(toGateway'[a], f)
    BY StagePlaces DEF Sent
  <2>4. InOrder(toGateway'[a], f) /\ \A x \in Held(toGateway'[a], f) :
                                        x \in Held(toGateway[a], f) \/ x = said + 1
    <3>1. CASE a # c
      BY <1>1, <1>2, <2>1, <3>1 DEF ChatOrder, LinksInOrder
    <3>2. CASE a = c
      <4>1. InOrder(toGateway[c], f)
        BY <2>1, <3>2 DEF ChatOrder, LinksInOrder
      <4>2. \A x \in Held(toGateway[c], f) : x \in Nat /\ x <= said
        BY <2>1, <2>3, <3>2 DEF ChatOrder, Staged
      <4>3. m \in DOMAIN f => kind = "Chat" /\ f[m] = said + 1
        <5>1. m \in DOMAIN f => m.kind = "Chat" /\ f[m] = m.n
          BY NumberedChat
        <5> QED
          BY <1>3, <5>1
      <4>4. m \in DOMAIN f => ch = ChatChannel /\ \A x \in Held(toGateway[c], f) : x < f[m]
        BY <1>2, <4>2, <4>3
      <4> HIDE DEF f
      <4> QED
        BY <1>1, <1>2, <3>2, <4>1, <4>3, <4>4, PostNumbers
    <3> QED
      BY <3>1, <3>2
  <2>5. Staged(Stages(a, d)', said + 1)
    BY <1>2, <2>1, <2>2, <2>3, <2>4, StagesEnter DEF ChatOrder
  <2>6. LinksInOrder(a, d)' /\ CopiesAreHome(a, d)'
    BY <1>1, <2>1, <2>4 DEF ChatOrder, LinksInOrder, CopiesAreHome
  <2> QED
    BY <1>1, <2>5, <2>6 DEF ChatOrder
<1> QED
  BY <1>1, <1>4 DEF OrderInv
\* Chats go no further, but some are forgotten.
LEMMA OrderShrink ==
  ASSUME NEW a, NEW d, ChatOrder(a, d), LinksInOrder(a, d)', CopiesAreHome(a, d)',
         said' = said,
         Read(a, d)' \subseteq Read(a, d),
         ToReader(a, d)' \subseteq ToReader(a, d),
         Copied(a, d)' \subseteq Copied(a, d),
         InBroadcast(a, d)' \subseteq InBroadcast(a, d),
         ToServer(a)' \subseteq ToServer(a),
         Sent(a)' \subseteq Sent(a)
  PROVE  ChatOrder(a, d)'
<1>1. \A i \in 1 .. 6 : Stages(a, d)'[i] \subseteq Stages(a, d)[i]
  BY StagePlaces
<1>2. Staged(Stages(a, d)', said)
  BY <1>1, StagesShrink DEF ChatOrder
<1> QED
  BY <1>2 DEF ChatOrder

\* The links between the clients and the gateway lose messages, and clients
\* register.
LEMMA ForgetOrder ==
  ASSUME OrderInv,
         \A c \in Clients : \A f :
           /\ InOrder(toGateway[c], f) =>
                InOrder(toGateway'[c], f) /\ Held(toGateway'[c], f) \subseteq Held(toGateway[c], f)
           /\ InOrder(toClient[c], f) =>
                InOrder(toClient'[c], f) /\ Held(toClient'[c], f) \subseteq Held(toClient[c], f),
         UNCHANGED <<said, got, fromEcho, toEcho, broadcast, connectionList>>
  PROVE  OrderInv'
<1>1. ASSUME NEW a \in Clients, NEW d \in Clients PROVE ChatOrder(a, d)'
  <2>1. ChatOrder(a, d)
    BY DEF OrderInv
  <2>2. InOrder(toGateway[a], ChatNumber(a)) /\ InOrder(toClient[d], ChatNumber(a))
    BY <2>1 DEF ChatOrder, LinksInOrder
  <2>3. /\ InOrder(toGateway'[a], ChatNumber(a)) /\ Sent(a)' \subseteq Sent(a)
        /\ InOrder(toClient'[d], ChatNumber(a)) /\ ToReader(a, d)' \subseteq ToReader(a, d)
    BY <2>2 DEF Sent, ToReader
  <2>4. LinksInOrder(a, d)' /\ CopiesAreHome(a, d)'
    BY <2>1, <2>3 DEF ChatOrder, LinksInOrder, CopiesAreHome
  <2>5. UNCHANGED <<Read(a, d), Copied(a, d), InBroadcast(a, d), ToServer(a)>>
    BY DEF Read, Copied, InBroadcast, ToServer
  <2> QED
    BY <2>1, <2>3, <2>4, <2>5, OrderShrink
<1> QED
  BY <1>1 DEF OrderInv

\* A client registers or goes, or the gateway restarts.
LEMMA ClientsOrder ==
  ASSUME RelayInv, WayBackInv, OrderInv,
         Restart \/ \E c \in Clients : SendRegisterMessage(c) \/ ClientGone(c)
  PROVE  OrderInv'
<1>1. CASE Restart
  BY <1>1, EmptyNumbers, ForgetOrder DEF Restart, clientVars, echoVars
<1>2. ASSUME NEW c \in Clients, ClientGone(c) PROVE OrderInv'
  <2>1. \A d \in Clients : /\ toGateway'[d] = EmptyLink \/ toGateway'[d] = toGateway[d]
                           /\ toClient'[d] = EmptyLink \/ toClient'[d] = toClient[d]
    BY <1>2 DEF ClientGone, RelayInv, RelayTypes, WayBackInv
  <2> QED
    BY <1>2, <2>1, EmptyNumbers, ForgetOrder DEF ClientGone, clientVars, echoVars
<1>3. ASSUME NEW c \in Clients, SendRegisterMessage(c) PROVE OrderInv'
  <2> DEFINE m == [author |-> c, n |-> 0, kind |-> "Register"]
             link == Post(EmptyLink, m, RegisterChannel)
  <2>1. \A a : m \notin ChatsBy(a)
    BY DEF ChatsBy
  <2> HIDE DEF m
  <2>2. ASSUME NEW a \in Clients
        PROVE  InOrder(link, ChatNumber(a)) /\ Held(link, ChatNumber(a)) = {}
    <3>1. m \notin DOMAIN ChatNumber(a)
      BY <2>1, Numberings
    <3>2. EmptyLink \in LinkOf({}) /\ RegisterChannel \in Channel
      BY EmptyLinkType DEF Channel
    <3> QED
      BY <3>1, <3>2, EmptyNumbers, PostNumbers
  <2>3. /\ toGateway' = [toGateway EXCEPT ![c] = link]
        /\ UNCHANGED <<said, got, toClient, fromEcho, toEcho, broadcast, connectionList>>
    BY <1>3 DEF SendRegisterMessage, clientVars, echoVars, m
  <2> HIDE DEF link
  <2>4. ASSUME NEW a \in Clients, NEW d \in Clients PROVE ChatOrder(a, d)'
    <3>1. ChatOrder(a, d)
      BY DEF OrderInv
    <3>2. InOrder(toGateway'[a], ChatNumber(a)) /\ Sent(a)' \subseteq Sent(a)
      BY <2>2, <2>3, <3>1 DEF ChatOrder, LinksInOrder, Sent, RelayInv, RelayTypes
    <3>3. LinksInOrder(a, d)' /\ CopiesAreHome(a, d)'
      BY <2>3, <3>1, <3>2 DEF ChatOrder, LinksInOrder, CopiesAreHome
    <3>4. /\ UNCHANGED <<Read(a, d), ToReader(a, d), Copied(a, d)>>
          /\ UNCHANGED <<InBroadcast(a, d), ToServer(a)>>
      BY <2>3 DEF Read, ToReader, Copied, InBroadcast, ToServer
    <3> QED
      BY <2>3, <3>1, <3>2, <3>3, <3>4, OrderShrink
  <2> QED
    BY <2>3, <2>4 DEF OrderInv
<1> QED
  BY <1>1, <1>2, <1>3

\* The client's handler is called with the oldest chat on its way.
LEMMA ClientHandlerOrder ==
  ASSUME RelayInv, WayBackInv, OrderInv, NEW c \in Clients, ClientHandler(c)
  PROVE  OrderInv'
<1>1. PICK p \in Ready(toClient[c]) :
        /\ toClient' = [toClient EXCEPT ![c] = Without(toClient[c], p)]
        /\ got' = [got EXCEPT ![c] = Append(got[c], p.item)]
  BY DEF ClientHandler
<1>2. UNCHANGED <<said, toGateway, fromEcho, toEcho, broadcast, connectionList>>
  BY DEF ClientHandler, echoVars
<1>3. /\ toClient[c] \in LinkOf(ForClient(c)) /\ got[c] \in Seq(ForClient(c))
      /\ DOMAIN got = Clients /\ DOMAIN toClient = Clients
  BY DEF WayBackInv
<1>4. ASSUME NEW a \in Clients, NEW d \in Clients PROVE ChatOrder(a, d)'
  <2> DEFINE f == ChatNumber(a)
  <2>1. ChatOrder(a, d)
    BY DEF OrderInv
  <2>2. UNCHANGED <<Copied(a, d), InBroadcast(a, d), ToServer(a), Sent(a)>>
    BY <1>2 DEF Copied, InBroadcast, ToServer, Sent
  <2>3. CASE d # c
    <3>1. LinksInOrder(a, d)' /\ CopiesAreHome(a, d)' /\ UNCHANGED <<Read(a, d), ToReader(a, d)>>
      BY <1>1, <1>2, <1>3, <2>1, <2>3
         DEF ChatOrder, LinksInOrder, CopiesAreHome, Read, ToReader
    <3> QED
      BY <1>2, <2>1, <2>2, <3>1, OrderShrink
  <2>4. CASE d = c
    <3>1. InOrder(toClient[c], f) /\ Rising(got[c], f)
      BY <2>1, <2>4 DEF ChatOrder, LinksInOrder
    <3>2. /\ InOrder(Without(toClient[c], p), f)
          /\ Held(Without(toClient[c], p), f) \subseteq Held(toClient[c], f)
          /\ p.item \in DOMAIN f => /\ f[p.item] \in Held(toClient[c], f)
                                    /\ \A k \in Held(Without(toClient[c], p), f) : f[p.item] < k
      BY <1>1, <1>3, <3>1, TakeNumbers
    <3>3. \A x \in Held(toClient[c], f) : \A k \in Keys(got[c], f) : k < x
      BY <2>1, <2>4, StagePlaces DEF ChatOrder, Staged, Read, ToReader
    <3>4. /\ \A k \in Keys(got'[c], f) : k \in Keys(got[c], f) \/ (p.item \in DOMAIN f /\ k = f[p.item])
          /\ Rising(got'[c], f)
      BY <1>1, <1>3, <3>1, <3>2, <3>3, KeysAppend
    <3>5. toClient'[c] = Without(toClient[c], p)
      BY <1>1, <1>3
    <3>6. LinksInOrder(a, d)' /\ CopiesAreHome(a, d)'
      BY <1>2, <2>1, <2>4, <3>2, <3>4, <3>5 DEF ChatOrder, LinksInOrder, CopiesAreHome
    <3>7. ToReader(a, d)' \subseteq ToReader(a, d)
      BY <2>4, <3>2, <3>5 DEF ToReader
    <3>8. CASE p.item \notin DOMAIN f
      <4>1. Read(a, d)' \subseteq Read(a, d)
        BY <2>4, <3>4, <3>8 DEF Read
      <4> QED
        BY <1>2, <2>1, <2>2, <3>6, <3>7, <4>1, OrderShrink
    <3>9. CASE p.item \in DOMAIN f
      <4>1. f[p.item] \in Stages(a, d)[2]
        BY <2>4, <3>2, <3>9, StagePlaces DEF ToReader
      <4>2. \A i \in 1 .. 6 : i # 1 => Stages(a, d)'[i] \subseteq Stages(a, d)[i]
        BY <2>2, <3>7, StagePlaces
      <4>3. \A x \in Stages(a, d)'[1] : x \in Stages(a, d)[1] \/ x = f[p.item]
        BY <2>4, <3>4, StagePlaces DEF Read
      <4>4. \A x \in Stages(a, d)'[2] : f[p.item] < x
        BY <2>4, <3>2, <3>5, <3>9, StagePlaces DEF ToReader
      <4> HIDE DEF f
      <4>5. Staged(Stages(a, d)', said)
        <5>1. Staged(Stages(a, d), said) /\ 2 \in 2 .. 6 /\ 2 - 1 = 1
          BY <2>1 DEF ChatOrder
        <5> QED
          BY <4>1, <4>2, <4>3, <4>4, <5>1, StagesMove
      <4> QED
        BY <1>2, <3>6, <4>5 DEF ChatOrder
    <3> QED
      BY <3>8, <3>9
  <2> QED
    BY <2>3, <2>4
<1> QED
  BY <1>2, <1>4 DEF OrderInv
\* The gateway passes on the oldest chat of a client.
LEMMA GatewayOrder ==
  ASSUME RelayInv, OrderInv, NEW c \in Clients, GatewayHandler(c)
  PROVE  OrderInv'
<1>1. PICK p \in Ready(toGateway[c]) :
        /\ toGateway' = [toGateway EXCEPT ![c] = Without(toGateway[c], p)]
        /\ SendToEcho(Route(c), p.item,
             IF p.item.kind = "Register" THEN RegisterChannel ELSE HeaderToOptions(p))
  BY DEF GatewayHandler
<1> DEFINE s == inner[Route(c)]
           ch == IF p.item.kind = "Register" THEN RegisterChannel ELSE HeaderToOptions(p)
<1>2. UNCHANGED <<said, got, toClient, fromEcho, broadcast, connectionList>>
  BY DEF GatewayHandler, clientVars, echoVars
<1>3. /\ toGateway[c] \in LinkOf(FromAuthor(c)) /\ DOMAIN toGateway = Clients
      /\ DOMAIN toEcho = Sessions
      /\ \A t \in Sessions : toEcho[t] \in LinkOf(RoutedTo(owner[t]))
      /\ s \in Sessions \cup {NoSession}
  BY RouteType DEF RelayInv, RelayTypes, LinksAreRouted
<1>4. p.item \in FromAuthor(c) /\ p.channel \in Channel \cup {NoChannel}
  BY <1>1, <1>3, ReadyType
<1>5. /\ ch \in Channel \cup {NoChannel}
      /\ p.item.kind = "Chat" => ch = p.channel
  BY <1>4 DEF HeaderToOptions, Channel
<1>6. \/ UNCHANGED toEcho
      \/ s \in Sessions /\ toEcho' = [toEcho EXCEPT ![s] = Post(toEcho[s], p.item, ch)]
  BY <1>1, <1>3 DEF SendToEcho
<1> HIDE DEF s, ch
<1>7. toGateway'[c] = Without(toGateway[c], p)
  BY <1>1, <1>3
<1>8. ASSUME NEW a \in Clients, NEW d \in Clients PROVE ChatOrder(a, d)'
  <2> DEFINE f == ChatNumber(a)
  <2>1. ChatOrder(a, d)
    BY DEF OrderInv
  <2>2. UNCHANGED <<Read(a, d), ToReader(a, d), Copied(a, d), InBroadcast(a, d)>>
    BY <1>2 DEF Read, ToReader, Copied, InBroadcast
  <2>3. InOrder(toGateway[a], f) /\ \A t \in Sessions : InOrder(toEcho[t], f)
    BY <2>1 DEF ChatOrder, LinksInOrder
  <2>4. p.item \in DOMAIN f => a = c /\ p.item.kind = "Chat"
    <3>1. p.item.author = c
      BY <1>4 DEF FromAuthor
    <3>2. p.item \in DOMAIN f => p.item.author = a /\ p.item.kind = "Chat"
      BY NumberedChat
    <3> QED
      BY <3>1, <3>2
  <2>5. /\ InOrder(toGateway'[a], f)
        /\ Held(toGateway'[a], f) \subseteq Held(toGateway[a], f)
        /\ p.item \in DOMAIN f => /\ p.channel = ChatChannel
                                  /\ f[p.item] \in Held(toGateway[a], f)
                                  /\ \A k \in Held(toGateway'[a], f) : f[p.item] < k
    <3>1. CASE a = c
      BY <1>1, <1>3, <1>7, <2>3, <3>1, TakeNumbers
    <3>2. CASE a # c
      BY <1>1, <1>3, <2>3, <2>4, <3>2
    <3> QED
      BY <3>1, <3>2
  <2>6. p.item \in DOMAIN f => ch = ChatChannel
    BY <1>5, <2>4, <2>5
  <2>7. p.item \in DOMAIN f => \A t \in Sessions : \A k \in Held(toEcho[t], f) : k < f[p.item]
    <3>1. Staged(Stages(a, d), said)
      BY <2>1 DEF ChatOrder
    <3>2. \A t \in Sessions : Held(toEcho[t], f) \subseteq Stages(a, d)[5]
      BY StagePlaces DEF ToServer
    <3>3. Stages(a, d)[6] = Held(toGateway[a], f)
      BY StagePlaces DEF Sent
    <3> QED
      BY <2>5, <3>1, <3>2, <3>3 DEF Staged
  <2> HIDE DEF f
  <2>8. \A t \in Sessions :
          /\ InOrder(toEcho'[t], f)
          /\ \A k \in Held(toEcho'[t], f) :
               k \in Held(toEcho[t], f) \/ (p.item \in DOMAIN f /\ k = f[p.item])
    <3>1. CASE UNCHANGED toEcho
      BY <2>3, <3>1
    <3>2. CASE s \in Sessions /\ toEcho' = [toEcho EXCEPT ![s] = Post(toEcho[s], p.item, ch)]
      <4>1. /\ InOrder(Post(toEcho[s], p.item, ch), f)
            /\ \A k \in Held(Post(toEcho[s], p.item, ch), f) :
                 k \in Held(toEcho[s], f) \/ (p.item \in DOMAIN f /\ k = f[p.item])
        BY <1>3, <1>5, <2>3, <2>6, <2>7, <3>2, PostNumbers
      <4> QED
        BY <1>3, <2>3, <3>2, <4>1
    <3> QED
      BY <1>6, <3>1, <3>2
  <2>9. LinksInOrder(a, d)' /\ CopiesAreHome(a, d)'
    BY <1>2, <2>1, <2>5, <2>8 DEF ChatOrder, LinksInOrder, CopiesAreHome, f
  <2>10. Sent(a)' \subseteq Sent(a)
    BY <2>5 DEF Sent, f
  <2>11. CASE p.item \notin DOMAIN f
    <3>1. ToServer(a)' \subseteq ToServer(a)
      BY <2>8, <2>11 DEF ToServer, f
    <3> QED
      BY <1>2, <2>1, <2>2, <2>9, <2>10, <3>1, OrderShrink
  <2>12. CASE p.item \in DOMAIN f
    <3>1. f[p.item] \in Stages(a, d)[6]
      BY <2>5, <2>12, StagePlaces DEF Sent, f
    <3>2. \A i \in 1 .. 6 : i # 5 => Stages(a, d)'[i] \subseteq Stages(a, d)[i]
      BY <2>2, <2>10, StagePlaces
    <3>3. \A x \in Stages(a, d)'[5] : x \in Stages(a, d)[5] \/ x = f[p.item]
      BY <2>8, StagePlaces DEF ToServer, f
    <3>4. \A x \in Stages(a, d)'[6] : f[p.item] < x
      BY <2>5, <2>12, StagePlaces DEF Sent, f
    <3>5. Staged(Stages(a, d), said) /\ 6 \in 2 .. 6 /\ 6 - 1 = 5
      BY <2>1 DEF ChatOrder
    <3>6. Staged(Stages(a, d)', said)
      BY <3>1, <3>2, <3>3, <3>4, <3>5, StagesMove
    <3> QED
      BY <1>2, <2>9, <3>6 DEF ChatOrder
  <2> QED
    BY <2>11, <2>12
<1> QED
  BY <1>2, <1>8 DEF OrderInv

\* All that an author has at the echo server is with one session.
LEMMA OneSession ==
  ASSUME HomeInv, NEW a \in Clients, NEW s \in Sessions, ~NothingOf(a, s),
         NEW t \in Sessions, t # s
  PROVE  /\ Held(toEcho[t], ChatNumber(a)) = {}
         /\ broadcast[t] # Idle => broadcast[t].message \notin ChatsBy(a)
         /\ connectionList[a] # t
<1>1. NothingOf(a, t)
  BY DEF HomeInv
<1>2. toEcho[t] \in LinkOf(NotFrom(a))
  BY <1>1 DEF NothingOf
<1>3. DOMAIN ChatNumber(a) \cap NotFrom(a) = {}
  BY Numberings DEF ChatsBy, NotFrom
<1>4. Held(toEcho[t], ChatNumber(a)) = {}
  BY <1>2, <1>3, NoNumbers
<1> QED
  BY <1>1, <1>4 DEF NothingOf, ChatsBy

\* The echo server takes the oldest chat of an author, for a broadcast.
LEMMA EchoOrder ==
  ASSUME RelayInv, WayBackInv, HomeInv, OrderInv, NEW s \in Sessions, EchoHandler(s)
  PROVE  OrderInv'
<1>1. PICK p \in Ready(toEcho[s]) :
        AddConnection(s, p) \/ BroadcastBegin(s, p) \/ BotHandler(s, p)
  BY DEF EchoHandler
<1>2. /\ toEcho' = [toEcho EXCEPT ![s] = Without(toEcho[s], p)]
      /\ UNCHANGED <<said, got, toClient, toGateway>>
  BY <1>1 DEF EchoHandler, AddConnection, BroadcastBegin, BotHandler, EchoTakes, clientVars
<1>3. toEcho[s] \in LinkOf(RoutedTo(owner[s])) /\ DOMAIN toEcho = Sessions
  BY DEF RelayInv, RelayTypes, LinksAreRouted
<1>4. p.item \in Message /\ p.item.author \in Clients /\ p.channel \in Channel \cup {NoChannel}
  BY <1>1, <1>3, ReadyType DEF RoutedTo, Message
<1>5. ~NothingOf(p.item.author, s)
  <2>1. ASSUME toEcho[s] \in LinkOf(NotFrom(p.item.author)) PROVE FALSE
    BY <1>1, <2>1, ReadyType DEF NotFrom
  <2> QED
    BY <2>1 DEF NothingOf
<1>6. /\ toEcho'[s] = Without(toEcho[s], p)
      /\ \A t \in Sessions : t # s => toEcho'[t] = toEcho[t]
  BY <1>2, <1>3
<1>7. ASSUME NEW a \in Clients, NEW d \in Clients
      PROVE  /\ \A t \in Sessions : InOrder(toEcho'[t], ChatNumber(a))
             /\ ToServer(a)' \subseteq ToServer(a)
             /\ p.item \in ChatsBy(a) => /\ p.channel = ChatChannel
                                         /\ p.item.n \in ToServer(a)
                                         /\ \A k \in ToServer(a)' : p.item.n < k
  <2> DEFINE f == ChatNumber(a)
  <2>1. \A t \in Sessions : InOrder(toEcho[t], f)
    BY DEF OrderInv, ChatOrder, LinksInOrder
  <2>2. /\ InOrder(toEcho'[s], f)
        /\ Held(toEcho'[s], f) \subseteq Held(toEcho[s], f)
        /\ p.item \in DOMAIN f => /\ p.channel = ChatChannel
                                  /\ f[p.item] \in Held(toEcho[s], f)
                                  /\ \A k \in Held(toEcho'[s], f) : f[p.item] < k
    BY <1>1, <1>3, <1>6, <2>1, TakeNumbers
  <2>3. p.item \in ChatsBy(a) => p.item \in DOMAIN f /\ f[p.item] = p.item.n /\ a = p.item.author
    BY Numberings DEF ChatsBy
  <2>4. p.item \in ChatsBy(a) => \A t \in Sessions : t # s => Held(toEcho'[t], f) = {}
    BY <1>5, <1>6, <2>3, OneSession
  <2> HIDE DEF f
  <2>5. ToServer(a)' \subseteq ToServer(a)
    BY <1>6, <2>2 DEF ToServer, f
  <2>6. p.item \in ChatsBy(a) => p.item.n \in ToServer(a)
    BY <2>2, <2>3 DEF ToServer, f
  <2>7. p.item \in ChatsBy(a) => \A k \in ToServer(a)' : p.item.n < k
    BY <2>2, <2>3, <2>4 DEF ToServer, f
  <2> QED
    BY <1>6, <2>1, <2>2, <2>3, <2>5, <2>6, <2>7 DEF f
<1>8. CASE AddConnection(s, p)
  <2>1. /\ UNCHANGED <<fromEcho, broadcast>>
        /\ \/ UNCHANGED connectionList
           \/ connectionList' = [connectionList EXCEPT ![p.item.author] = s]
    BY <1>8 DEF AddConnection
  <2>2. ASSUME NEW a \in Clients, NEW d \in Clients PROVE ChatOrder(a, d)'
    <3>1. ChatOrder(a, d)
      BY DEF OrderInv
    <3>2. LinksInOrder(a, d)'
      BY <1>2, <1>7, <2>1, <3>1 DEF ChatOrder, LinksInOrder
    <3>3. CopiesAreHome(a, d)'
      <4>1. CopiesAreHome(a, d)
        BY <3>1 DEF ChatOrder
      <4>2. \A t \in Sessions : connectionList[d] = t => connectionList'[d] = t
        BY <1>5, <2>1, OneSession DEF RelayInv, RelayTypes
      <4> QED
        BY <2>1, <4>1, <4>2 DEF CopiesAreHome
    <3>4. UNCHANGED <<Read(a, d), ToReader(a, d), Copied(a, d), InBroadcast(a, d), Sent(a)>>
      BY <1>2, <2>1 DEF Read, ToReader, Copied, InBroadcast, Sent
    <3> QED
      BY <1>2, <1>7, <3>1, <3>2, <3>3, <3>4, OrderShrink
  <2> QED
    BY <2>1, <2>2 DEF OrderInv
<1>9. CASE BotHandler(s, p)
  <2> DEFINE x == [message |-> p.item, to |-> p.item.author]
  <2>1. /\ fromEcho' = [fromEcho EXCEPT ![s] = Post(fromEcho[s], x, p.channel)]
        /\ UNCHANGED <<connectionList, broadcast>>
        /\ p.item.kind = "Bot"
    BY <1>9 DEF BotHandler, HeaderToOptions
  <2>2. \A a, d : x \notin CopiesTo(a, d)
    BY <2>1 DEF CopiesTo, ChatsBy
  <2> HIDE DEF x
  <2>3. fromEcho[s] \in LinkOf(Addressed \cup {Lost}) /\ DOMAIN fromEcho = Sessions
    BY DEF WayBackInv, CopyLink
  <2>4. ASSUME NEW a \in Clients, NEW d \in Clients PROVE ChatOrder(a, d)'
    <3> DEFINE g == CopyNumber(a, d)
    <3>1. ChatOrder(a, d)
      BY DEF OrderInv
    <3>2. InOrder(fromEcho[s], g) /\ x \notin DOMAIN g
      BY <2>2, <3>1, Numberings DEF ChatOrder, LinksInOrder
    <3> HIDE DEF g
    <3>3. /\ InOrder(fromEcho'[s], g)
          /\ Held(fromEcho'[s], g) \subseteq Held(fromEcho[s], g)
      BY <1>4, <2>1, <2>3, <3>2, PostNumbers
    <3>4. \A t \in Sessions : t # s => fromEcho'[t] = fromEcho[t]
      BY <2>1, <2>3
    <3>5. LinksInOrder(a, d)' /\ CopiesAreHome(a, d)'
      BY <1>2, <1>7, <2>1, <3>1, <3>3, <3>4 DEF ChatOrder, LinksInOrder, CopiesAreHome, g
    <3>6. UNCHANGED <<Read(a, d), ToReader(a, d), InBroadcast(a, d), Sent(a)>>
      BY <1>2, <2>1 DEF Read, ToReader, InBroadcast, Sent
    <3>7. Copied(a, d)' \subseteq Copied(a, d)
      BY <3>3, <3>4 DEF Copied, g
    <3> QED
      BY <1>2, <1>7, <3>1, <3>5, <3>6, <3>7, OrderShrink
  <2> QED
    BY <2>1, <2>4 DEF OrderInv
<1>10. CASE BroadcastBegin(s, p)
  <2> DEFINE new == IF Recipients(s) = {} THEN Idle
                    ELSE [message |-> p.item,
                          channel |-> IF p.item.kind = "LongChat" THEN NoChannel
                                      ELSE HeaderToOptions(p),
                          left    |-> Recipients(s)]
  <2>1. /\ broadcast' = [broadcast EXCEPT ![s] = new]
        /\ UNCHANGED <<connectionList, fromEcho>>
    BY <1>10 DEF BroadcastBegin
  <2>2. /\ new # Idle => new.message = p.item
        /\ new # Idle /\ p.item.kind = "Chat" => new.channel = p.channel
        /\ new = Idle => new.left = {}
    BY DEF HeaderToOptions, Idle
  <2> HIDE DEF new
  <2>3. /\ broadcast'[s] = new
        /\ \A t \in Sessions : t # s => broadcast'[t] = broadcast[t]
    BY <2>1 DEF WayBackInv
  <2>4. ASSUME NEW a \in Clients, NEW d \in Clients PROVE ChatOrder(a, d)'
    <3>1. ChatOrder(a, d)
      BY DEF OrderInv
    <3>2. LinksInOrder(a, d)' /\ CopiesAreHome(a, d)'
      BY <1>2, <1>7, <2>1, <3>1 DEF ChatOrder, LinksInOrder, CopiesAreHome
    <3>3. UNCHANGED <<Read(a, d), ToReader(a, d), Copied(a, d), Sent(a)>>
      BY <1>2, <2>1 DEF Read, ToReader, Copied, Sent
    <3>4. \A n \in InBroadcast(a, d)' :
            n \in InBroadcast(a, d) \/ (p.item \in ChatsBy(a) /\ n = p.item.n)
      <4> SUFFICES ASSUME NEW n \in InBroadcast(a, d)'
                   PROVE  n \in InBroadcast(a, d) \/ (p.item \in ChatsBy(a) /\ n = p.item.n)
        OBVIOUS
      <4>1. PICK t \in Sessions : /\ d \in broadcast'[t].left
                                  /\ broadcast'[t].message \in ChatsBy(a)
                                  /\ n = broadcast'[t].message.n
        BY DEF InBroadcast
      <4>2. CASE t = s
        BY <2>2, <2>3, <4>1, <4>2
      <4>3. CASE t # s
        BY <2>3, <4>1, <4>3 DEF InBroadcast
      <4> QED
        BY <4>2, <4>3
    <3>5. CASE p.item \notin ChatsBy(a)
      <4>1. InBroadcast(a, d)' \subseteq InBroadcast(a, d)
        BY <3>4, <3>5
      <4> QED
        BY <1>2, <1>7, <3>1, <3>2, <3>3, <4>1, OrderShrink
    <3>6. CASE p.item \in ChatsBy(a)
      <4>1. p.item.n \in Stages(a, d)[5]
        BY <1>7, <3>6, StagePlaces
      <4>2. \A i \in 1 .. 6 : i # 4 => Stages(a, d)'[i] \subseteq Stages(a, d)[i]
        BY <1>7, <3>3, StagePlaces
      <4>3. \A x \in Stages(a, d)'[4] : x \in Stages(a, d)[4] \/ x = p.item.n
        BY <3>4, StagePlaces
      <4>4. \A x \in Stages(a, d)'[5] : p.item.n < x
        BY <1>7, <3>6, StagePlaces
      <4>5. Staged(Stages(a, d), said) /\ 5 \in 2 .. 6 /\ 5 - 1 = 4
        BY <3>1 DEF ChatOrder
      <4>6. Staged(Stages(a, d)', said)
        BY <4>1, <4>2, <4>3, <4>4, <4>5, StagesMove
      <4> QED
        BY <1>2, <3>2, <4>6 DEF ChatOrder
    <3> QED
      BY <3>5, <3>6
  <2>5. p.item.kind = "Chat" => p.channel = ChatChannel
    BY <1>4, <1>7 DEF ChatsBy
  <2>6. \A t \in Sessions :
          broadcast'[t] # Idle /\ broadcast'[t].message.kind = "Chat" =>
            broadcast'[t].channel = ChatChannel
    BY <2>2, <2>3, <2>5 DEF OrderInv
  <2> QED
    BY <2>4, <2>6 DEF OrderInv
<1> QED
  BY <1>1, <1>8, <1>9, <1>10
\* Broadcast sends a reader his copy, behind all he was sent before.
LEMMA BroadcastOrder ==
  ASSUME RelayInv, WayBackInv, HomeInv, OrderInv, NEW s \in Sessions, BroadcastStep(s)
  PROVE  OrderInv'
<1> DEFINE b == broadcast[s]
           c == Min(b.left)
           u == connectionList[c]
           x == [message |-> b.message, to |-> c]
           new == IF b.left = {c} THEN Idle ELSE [b EXCEPT !.left = @ \ {c}]
<1>1. b \in Broadcasts /\ b # Idle /\ c \in b.left /\ c \in Clients /\ u \in Sessions
  BY BroadcastTarget DEF BroadcastStep
<1>2. /\ fromEcho' = [fromEcho EXCEPT ![u] = Post(fromEcho[u], x, b.channel)]
      /\ broadcast' = [broadcast EXCEPT ![s] = new]
      /\ UNCHANGED <<said, got, toClient, toGateway, toEcho, connectionList>>
  BY DEF BroadcastStep, clientVars
<1>3. /\ x.message = b.message /\ x.to = c /\ x \in Marked
      /\ new # Idle => new.message = b.message /\ new.channel = b.channel
      /\ new.left \subseteq b.left \ {c}
  BY <1>1 DEF Marked, Broadcasts, Idle
<1> HIDE DEF c, u, x, new
<1>4. /\ fromEcho'[u] = Post(fromEcho[u], x, b.channel)
      /\ \A t \in Sessions : t # u => fromEcho'[t] = fromEcho[t]
      /\ broadcast'[s] = new
      /\ \A t \in Sessions : t # s => broadcast'[t] = broadcast[t]
      /\ fromEcho[u] \in LinkOf(Addressed \cup {Lost})
  BY <1>1, <1>2 DEF WayBackInv, CopyLink
<1>5. ASSUME NEW a \in Clients, NEW d \in Clients PROVE ChatOrder(a, d)'
  <2> DEFINE g == CopyNumber(a, d)
  <2>1. ChatOrder(a, d)
    BY DEF OrderInv
  <2>2. UNCHANGED <<Read(a, d), ToReader(a, d), ToServer(a), Sent(a)>>
    BY <1>2 DEF Read, ToReader, ToServer, Sent
  <2>3. x \in DOMAIN g <=> d = c /\ b.message \in ChatsBy(a)
    <3>1. DOMAIN g = CopiesTo(a, d)
      BY DEF CopyNumber
    <3> HIDE DEF g
    <3> QED
      BY <1>3, <3>1 DEF CopiesTo
  <2>4. x \in DOMAIN g => g[x] = b.message.n
    BY <1>3, Numberings
  <2>5. Staged(Stages(a, d), said)
    BY <2>1 DEF ChatOrder
  <2>6. x \in DOMAIN g => b.message.n \in Stages(a, d)[4]
    BY <1>1, <2>3, StagePlaces DEF InBroadcast
  <2>7. x \in DOMAIN g => /\ b.channel = ChatChannel
                          /\ \A k \in Held(fromEcho[u], g) : k < g[x]
    <3>1. x \in DOMAIN g => b.channel = ChatChannel
      BY <1>1, <2>3 DEF OrderInv, ChatsBy
    <3>2. Held(fromEcho[u], g) \subseteq Stages(a, d)[3]
      BY <1>1, StagePlaces DEF Copied
    <3> QED
      BY <2>4, <2>5, <2>6, <3>1, <3>2 DEF Staged
  <2>8. InOrder(fromEcho[u], g)
    BY <1>1, <2>1 DEF ChatOrder, LinksInOrder
  <2> HIDE DEF g
  <2>9. b.channel \in Channel \cup {NoChannel}
    BY <1>1 DEF Broadcasts
  <2>10. /\ InOrder(fromEcho'[u], g)
         /\ \A k \in Held(fromEcho'[u], g) :
              k \in Held(fromEcho[u], g) \/ (x \in DOMAIN g /\ k = g[x])
    BY <1>4, <2>7, <2>8, <2>9, PostNumbers
  <2>11. LinksInOrder(a, d)'
    BY <1>2, <1>4, <2>1, <2>10 DEF ChatOrder, LinksInOrder, g
  <2>12. CopiesAreHome(a, d)'
    <3>1. x \in DOMAIN g => connectionList[d] = u
      BY <2>3 DEF u
    <3>2. \A t \in Sessions : Held(fromEcho[t], g) # {} => connectionList[d] = t
      BY <2>1 DEF ChatOrder, CopiesAreHome, g
    <3>3. \A t \in Sessions : Held(fromEcho'[t], g) # {} => connectionList[d] = t
      BY <1>4, <2>10, <3>1, <3>2
    <3> QED
      BY <1>2, <3>3 DEF CopiesAreHome, g
  <2>13. InBroadcast(a, d)' \subseteq InBroadcast(a, d)
    <3> SUFFICES ASSUME NEW n \in InBroadcast(a, d)' PROVE n \in InBroadcast(a, d)
      OBVIOUS
    <3>1. PICK t \in Sessions : /\ d \in broadcast'[t].left
                                /\ broadcast'[t].message \in ChatsBy(a)
                                /\ n = broadcast'[t].message.n
      BY DEF InBroadcast
    <3>2. CASE t = s
      <4>1. new # Idle
        BY <1>4, <3>1, <3>2 DEF Idle
      <4>2. d \in b.left /\ b.message \in ChatsBy(a) /\ n = b.message.n
        BY <1>3, <1>4, <3>1, <3>2, <4>1
      <4> QED
        BY <4>2 DEF InBroadcast
    <3>3. CASE t # s
      BY <1>4, <3>1, <3>3 DEF InBroadcast
    <3> QED
      BY <3>2, <3>3
  <2>14. CASE x \notin DOMAIN g
    <3>1. Copied(a, d)' \subseteq Copied(a, d)
      BY <1>4, <2>10, <2>14 DEF Copied, g
    <3> QED
      BY <1>2, <2>1, <2>2, <2>11, <2>12, <2>13, <3>1, OrderShrink
  <2>15. CASE x \in DOMAIN g
    <3>1. InBroadcast(a, d)' = {}
      <4>1. d = c /\ b.message.author = a /\ ~NothingOf(a, s)
        BY <1>1, <2>3, <2>15 DEF ChatsBy, NothingOf
      <4>2. d \notin broadcast'[s].left
        BY <1>3, <1>4, <4>1
      <4>3. \A t \in Sessions : t # s /\ broadcast[t] # Idle => broadcast[t].message \notin ChatsBy(a)
        BY <4>1, OneSession
      <4>4. \A t \in Sessions : t # s /\ broadcast[t] = Idle => d \notin broadcast[t].left
        BY DEF Idle
      <4> QED
        BY <1>4, <4>2, <4>3, <4>4 DEF InBroadcast
    <3>2. \A i \in 1 .. 6 : i # 3 => Stages(a, d)'[i] \subseteq Stages(a, d)[i]
      BY <2>2, <2>13, StagePlaces
    <3>3. \A k \in Stages(a, d)'[3] : k \in Stages(a, d)[3] \/ k = b.message.n
      <4>1. \A k \in Copied(a, d)' : k \in Copied(a, d) \/ k = b.message.n
        BY <1>4, <2>4, <2>10 DEF Copied, g
      <4> QED
        BY <4>1, StagePlaces
    <3>4. \A k \in Stages(a, d)'[4] : b.message.n < k
      BY <3>1, StagePlaces
    <3>5. b.message.n \in Stages(a, d)[4] /\ 4 \in 2 .. 6 /\ 4 - 1 = 3
      BY <2>6, <2>15
    <3>6. Staged(Stages(a, d)', said)
      BY <2>5, <3>2, <3>3, <3>4, <3>5, StagesMove
    <3> QED
      BY <1>2, <2>11, <2>12, <3>6 DEF ChatOrder
  <2> QED
    BY <2>14, <2>15
<1>6. \A t \in Sessions :
        broadcast'[t] # Idle /\ broadcast'[t].message.kind = "Chat" =>
          broadcast'[t].channel = ChatChannel
  BY <1>1, <1>3, <1>4 DEF OrderInv
<1> QED
  BY <1>5, <1>6 DEF OrderInv

\* The gateway sends a client the oldest chat that came for it, or drops it.
LEMMA InnerDispatchOrder ==
  ASSUME RelayInv, WayBackInv, HomeInv, OrderInv, NEW k \in Inner, InnerDispatch(k)
  PROVE  OrderInv'
<1> DEFINE s == inner[k]
<1>1. PICK p \in Ready(fromEcho[s]) :
        /\ fromEcho' = [fromEcho EXCEPT ![s] = Without(fromEcho[s], p)]
        /\ ChatHandler2(p)
  BY DEF InnerDispatch
<1>2. s \in Sessions /\ fromEcho[s] \in CopyLink
  BY DEF InnerDispatch, RelayInv, RelayTypes, WayBackInv
<1>3. p.item \in Addressed
  BY <1>1, <1>2, CopyLinkTake
<1>4. p.channel \in Channel \cup {NoChannel} /\ fromEcho[s] \in LinkOf(Addressed \cup {Lost})
  BY <1>1, <1>2, ReadyType DEF CopyLink
<1>5. p.item \in Marked /\ p.item.to \in Clients
  BY <1>3 DEF Addressed, Marked
<1>6. \/ UNCHANGED toClient
      \/ toClient' = [toClient EXCEPT ![p.item.to] =
                        Post(toClient[p.item.to], p.item.message, p.channel)]
  BY <1>1 DEF ChatHandler2, SendToClient, HeaderToOptions
<1>7. UNCHANGED <<said, got, toGateway, toEcho, broadcast, connectionList>>
  BY DEF InnerDispatch, clientVars, echoVars
<1> HIDE DEF s
<1>8. /\ fromEcho'[s] = Without(fromEcho[s], p)
      /\ \A t \in Sessions : t # s => fromEcho'[t] = fromEcho[t]
      /\ DOMAIN toClient = Clients
      /\ \A c \in Clients : toClient[c] \in LinkOf(ForClient(c))
  BY <1>1, <1>2 DEF WayBackInv
<1>9. ASSUME NEW a \in Clients, NEW d \in Clients PROVE ChatOrder(a, d)'
  <2> DEFINE f == ChatNumber(a)
             g == CopyNumber(a, d)
             m == p.item.message
  <2>1. ChatOrder(a, d)
    BY DEF OrderInv
  <2>2. UNCHANGED <<Read(a, d), InBroadcast(a, d), ToServer(a), Sent(a)>>
    BY <1>7 DEF Read, InBroadcast, ToServer, Sent
  <2>3. Staged(Stages(a, d), said)
    BY <2>1 DEF ChatOrder
  <2>4. p.item \in DOMAIN g <=> p.item.to = d /\ m \in DOMAIN f
    <3>1. DOMAIN g = CopiesTo(a, d) /\ DOMAIN f = ChatsBy(a)
      BY DEF CopyNumber, ChatNumber
    <3> HIDE DEF f, g
    <3> QED
      BY <1>5, <3>1 DEF CopiesTo
  <2>5. p.item \in DOMAIN g => g[p.item] = m.n /\ f[m] = m.n
    BY <2>4, Numberings
  <2>6. InOrder(fromEcho[s], g) /\ InOrder(toClient[d], f)
    BY <1>2, <2>1 DEF ChatOrder, LinksInOrder
  <2>7. \A t \in Sessions : Held(fromEcho[t], g) # {} => connectionList[d] = t
    BY <2>1 DEF ChatOrder, CopiesAreHome
  <2>8. Held(fromEcho[s], g) \subseteq Stages(a, d)[3] /\ Held(toClient[d], f) = Stages(a, d)[2]
    BY <1>2, StagePlaces DEF Copied, ToReader
  <2> HIDE DEF f, g, m
  <2>9. /\ InOrder(fromEcho'[s], g)
        /\ Held(fromEcho'[s], g) \subseteq Held(fromEcho[s], g)
        /\ p.item \in DOMAIN g => /\ p.channel = ChatChannel
                                  /\ g[p.item] \in Held(fromEcho[s], g)
                                  /\ \A n \in Held(fromEcho'[s], g) : g[p.item] < n
    BY <1>1, <1>4, <1>8, <2>6, TakeNumbers
  <2>10. p.item \in DOMAIN g => \A n \in Held(toClient[d], f) : n < f[m]
    BY <2>3, <2>5, <2>8, <2>9 DEF Staged
  <2>11. /\ InOrder(toClient'[d], f)
         /\ \A n \in Held(toClient'[d], f) :
              n \in Held(toClient[d], f) \/ (p.item \in DOMAIN g /\ n = f[m])
    <3>1. CASE d = p.item.to /\ toClient'[d] = Post(toClient[d], m, p.channel)
      BY <1>4, <1>8, <2>4, <2>6, <2>9, <2>10, <3>1, PostNumbers
    <3>2. CASE toClient'[d] = toClient[d]
      BY <2>6, <3>2
    <3>3. \/ toClient'[d] = toClient[d]
          \/ d = p.item.to /\ toClient'[d] = Post(toClient[d], m, p.channel)
      BY <1>6, <1>8 DEF m
    <3> QED
      BY <3>1, <3>2, <3>3
  <2>12. LinksInOrder(a, d)'
    BY <1>7, <1>8, <2>1, <2>9, <2>11 DEF ChatOrder, LinksInOrder, f, g
  <2>13. CopiesAreHome(a, d)'
    BY <1>7, <1>8, <2>7, <2>9 DEF CopiesAreHome, g
  <2>14. Copied(a, d)' \subseteq Copied(a, d)
    BY <1>8, <2>9 DEF Copied, g
  <2>15. CASE p.item \notin DOMAIN g
    <3>1. ToReader(a, d)' \subseteq ToReader(a, d)
      BY <2>11, <2>15 DEF ToReader, f
    <3> QED
      BY <1>7, <2>1, <2>2, <2>12, <2>13, <2>14, <3>1, OrderShrink
  <2>16. CASE p.item \in DOMAIN g
    <3>1. m.n \in Stages(a, d)[3] /\ 3 \in 2 .. 6 /\ 3 - 1 = 2
      BY <2>5, <2>8, <2>9, <2>16
    <3>2. \A i \in 1 .. 6 : i # 2 => Stages(a, d)'[i] \subseteq Stages(a, d)[i]
      BY <2>2, <2>14, StagePlaces
    <3>3. \A n \in Stages(a, d)'[2] : n \in Stages(a, d)[2] \/ n = m.n
      <4>1. Stages(a, d)'[2] = Held(toClient'[d], f)
        BY StagePlaces DEF ToReader, f
      <4> QED
        BY <2>5, <2>8, <2>11, <2>16, <4>1
    <3>4. \A n \in Stages(a, d)'[3] : m.n < n
      <4>1. \A t \in Sessions : t # s => Held(fromEcho'[t], g) = {}
        BY <1>2, <1>8, <2>7, <2>9, <2>16
      <4>2. \A n \in Copied(a, d)' : m.n < n
        BY <2>5, <2>9, <2>16, <4>1 DEF Copied, g
      <4> QED
        BY <4>2, StagePlaces
    <3>5. Staged(Stages(a, d)', said)
      BY <2>3, <3>1, <3>2, <3>3, <3>4, StagesMove
    <3> QED
      BY <1>7, <2>12, <2>13, <3>5 DEF ChatOrder
  <2> QED
    BY <2>15, <2>16
<1> QED
  BY <1>7, <1>9 DEF OrderInv

\* An echo session ends, with what its links held.
LEMMA DestroyOrder ==
  ASSUME RelayInv, WayBackInv, OrderInv, NEW s \in Sessions, DestroySession(s)
  PROVE  OrderInv'
<1>1. /\ connectionList' = [c \in Clients |->
                             IF connectionList[c] = s THEN NoSession ELSE connectionList[c]]
      /\ toEcho' = [toEcho EXCEPT ![s] = EmptyLink]
      /\ fromEcho' = [fromEcho EXCEPT ![s] = EmptyLink]
      /\ UNCHANGED <<said, got, broadcast, toGateway, toClient>>
  BY DEF DestroySession, EraseConnections, clientVars
<1>2. DOMAIN toEcho = Sessions /\ DOMAIN fromEcho = Sessions
  BY DEF RelayInv, RelayTypes, WayBackInv
<1>3. /\ toEcho'[s] = EmptyLink /\ fromEcho'[s] = EmptyLink
      /\ \A t \in Sessions : t # s => toEcho'[t] = toEcho[t] /\ fromEcho'[t] = fromEcho[t]
  BY <1>1, <1>2
<1>4. ASSUME NEW a \in Clients, NEW d \in Clients PROVE ChatOrder(a, d)'
  <2>1. ChatOrder(a, d)
    BY DEF OrderInv
  <2>2. LinksInOrder(a, d)'
    BY <1>1, <1>3, <2>1, EmptyNumbers DEF ChatOrder, LinksInOrder
  <2>3. CopiesAreHome(a, d)'
    BY <1>1, <1>3, <2>1, EmptyNumbers DEF ChatOrder, CopiesAreHome
  <2>4. UNCHANGED <<Read(a, d), ToReader(a, d), InBroadcast(a, d), Sent(a)>>
    BY <1>1 DEF Read, ToReader, InBroadcast, Sent
  <2>5. Copied(a, d)' \subseteq Copied(a, d) /\ ToServer(a)' \subseteq ToServer(a)
    BY <1>3, EmptyNumbers DEF Copied, ToServer
  <2> QED
    BY <1>1, <2>1, <2>2, <2>3, <2>4, <2>5, OrderShrink
<1> QED
  BY <1>1, <1>4 DEF OrderInv

\* The network loses a packet for good.
LEMMA LoseOrder ==
  ASSUME WayBackInv, OrderInv, NEW s \in Sessions, LosePacket(s)
  PROVE  OrderInv'
<1>1. fromEcho[s] \in LinkOf(Addressed \cup {Lost}) /\ DOMAIN fromEcho = Sessions
  BY DEF WayBackInv, CopyLink
<1>2. UNCHANGED <<said, got, toClient, toGateway, toEcho, broadcast, connectionList>>
  BY DEF LosePacket, clientVars, echoVars
<1>3. \A t \in Sessions : t # s => fromEcho'[t] = fromEcho[t]
  BY <1>1 DEF LosePacket
<1>4. ASSUME NEW a, NEW d, InOrder(fromEcho[s], CopyNumber(a, d))
      PROVE  /\ InOrder(fromEcho'[s], CopyNumber(a, d))
             /\ Held(fromEcho'[s], CopyNumber(a, d)) \subseteq Held(fromEcho[s], CopyNumber(a, d))
  <2> DEFINE g == CopyNumber(a, d)
  <2>1. Lost \notin DOMAIN g
    BY LostAssumption DEF CopyNumber, CopiesTo
  <2>2. InOrder(fromEcho[s], g)
    BY <1>4
  <2> HIDE DEF g
  <2>3. CASE \E i \in fromEcho[s].unordered :
               fromEcho' = [fromEcho EXCEPT ![s].unordered = @ \ {i}]
    <3>1. /\ fromEcho'[s].ordered = fromEcho[s].ordered
          /\ fromEcho'[s].unordered \subseteq fromEcho[s].unordered
      BY <1>1, <2>3 DEF LinkOf
    <3>2. InOrder(fromEcho'[s], g)
      BY <2>2, <3>1 DEF InOrder
    <3>3. Held(fromEcho'[s], g) = Held(fromEcho[s], g)
      BY <3>1 DEF Held
    <3> QED
      BY <3>2, <3>3 DEF g
  <2>4. CASE \E ch \in Channel : \E i \in DOMAIN fromEcho[s].ordered[ch] :
               fromEcho' = [fromEcho EXCEPT ![s].ordered[ch][i] = Lost]
    <3>1. PICK ch \in Channel : \E i \in DOMAIN fromEcho[s].ordered[ch] :
                 fromEcho' = [fromEcho EXCEPT ![s].ordered[ch][i] = Lost]
      BY <2>4
    <3>2. PICK i \in DOMAIN fromEcho[s].ordered[ch] :
                 fromEcho' = [fromEcho EXCEPT ![s].ordered[ch][i] = Lost]
      BY <3>1
    <3>3. /\ fromEcho[s].ordered \in [Channel -> Seq(Addressed \cup {Lost})]
          /\ fromEcho[s].ordered[ch] \in Seq(Addressed \cup {Lost})
      BY <1>1 DEF LinkOf
    <3>4. /\ fromEcho'[s].unordered = fromEcho[s].unordered
          /\ fromEcho'[s].ordered =
               [fromEcho[s].ordered EXCEPT ![ch] = [fromEcho[s].ordered[ch] EXCEPT ![i] = Lost]]
      BY <1>1, <3>2 DEF LinkOf
    <3>5. \A c \in Channel :
            /\ Keys(fromEcho'[s].ordered[c], g) \subseteq Keys(fromEcho[s].ordered[c], g)
            /\ Rising(fromEcho[s].ordered[c], g) => Rising(fromEcho'[s].ordered[c], g)
      <4>1. fromEcho'[s].ordered[ch] = [fromEcho[s].ordered[ch] EXCEPT ![i] = Lost]
        BY <3>3, <3>4
      <4>2. \A c \in Channel : c # ch => fromEcho'[s].ordered[c] = fromEcho[s].ordered[c]
        BY <3>3, <3>4
      <4>3. /\ Keys(fromEcho'[s].ordered[ch], g) \subseteq Keys(fromEcho[s].ordered[ch], g)
            /\ Rising(fromEcho[s].ordered[ch], g) => Rising(fromEcho'[s].ordered[ch], g)
        BY <2>1, <3>3, <4>1, LoseNumbers
      <4> QED
        BY <4>2, <4>3
    <3>6. ChatChannel \in Channel /\ RegisterChannel \in Channel
      BY DEF Channel
    <3>7. InOrder(fromEcho'[s], g)
      BY <2>2, <3>4, <3>5, <3>6 DEF InOrder
    <3>8. Held(fromEcho'[s], g) \subseteq Held(fromEcho[s], g)
      BY <3>5, <3>6 DEF Held
    <3> QED
      BY <3>7, <3>8 DEF g
  <2> QED
    BY <2>3, <2>4 DEF LosePacket, g
<1>5. ASSUME NEW a \in Clients, NEW d \in Clients PROVE ChatOrder(a, d)'
  <2>1. ChatOrder(a, d)
    BY DEF OrderInv
  <2>2. \A t \in Sessions :
          /\ InOrder(fromEcho'[t], CopyNumber(a, d))
          /\ Held(fromEcho'[t], CopyNumber(a, d)) \subseteq Held(fromEcho[t], CopyNumber(a, d))
    BY <1>3, <1>4, <2>1 DEF ChatOrder, LinksInOrder
  <2>3. LinksInOrder(a, d)' /\ CopiesAreHome(a, d)'
    BY <1>2, <2>1, <2>2 DEF ChatOrder, LinksInOrder, CopiesAreHome
  <2>4. /\ UNCHANGED <<Read(a, d), ToReader(a, d), InBroadcast(a, d)>>
        /\ UNCHANGED <<ToServer(a), Sent(a)>>
    BY <1>2 DEF Read, ToReader, InBroadcast, ToServer, Sent
  <2>5. Copied(a, d)' \subseteq Copied(a, d)
    BY <2>2 DEF Copied
  <2> QED
    BY <1>2, <2>1, <2>3, <2>4, <2>5, OrderShrink
<1> QED
  BY <1>2, <1>5 DEF OrderInv

\* Every step keeps an author's chats in order.
LEMMA OrderStep == RelayInv /\ WayBackInv /\ HomeInv /\ OrderInv /\ [Next]_vars => OrderInv'
<1> SUFFICES ASSUME RelayInv, WayBackInv, HomeInv, OrderInv, [Next]_vars PROVE OrderInv'
  OBVIOUS
<1>1. CASE UNCHANGED vars \/ Start \/ \E k \in Inner : InternalConnect(k)
  <2>1. UNCHANGED <<said, got, toGateway, toClient, fromEcho, toEcho, broadcast, connectionList>>
    BY <1>1 DEF vars, Start, InternalConnect, clientVars, echoVars, links
  <2> QED
    BY <2>1, ForgetOrder
<1>2. ASSUME NEW c \in Clients, SendChatMessage(c) \/ SendDumpChatMessage(c) \/ SendBotMessage(c)
      PROVE  OrderInv'
  <2>1. {"Chat", "LongChat", "DumpChat", "Bot"} \subseteq Kind
    BY DEF Kind
  <2>2. ChatChannel \in Channel
    BY DEF Channel
  <2> QED
    BY <1>2, <2>1, <2>2, SayOrder DEF SendChatMessage, SendDumpChatMessage, SendBotMessage
<1> QED
  BY <1>1, <1>2, ClientsOrder, ClientHandlerOrder, GatewayOrder, InnerDispatchOrder, EchoOrder,
     BroadcastOrder, DestroyOrder, LoseOrder DEF Next

\* An author's chats keep their order over the four hops and nobody gets one
\* twice, whoever leaves and whatever restarts in between.
THEOREM ChatsKeepTheirOrder == Spec => []AuthorOrder
<1>1. Init => OrderInv
  <2> SUFFICES ASSUME Init PROVE OrderInv
    OBVIOUS
  <2>1. ASSUME NEW a \in Clients, NEW d \in Clients PROVE ChatOrder(a, d)
    <3>1. \A f : Keys(<< >>, f) = {} /\ Rising(<< >>, f)
      BY DEF Keys, Rising
    <3>2. LinksInOrder(a, d) /\ CopiesAreHome(a, d)
      BY <3>1, EmptyNumbers DEF Init, LinksInOrder, CopiesAreHome
    <3>3. /\ Read(a, d) = {} /\ ToReader(a, d) = {} /\ Copied(a, d) = {}
          /\ InBroadcast(a, d) = {} /\ ToServer(a) = {} /\ Sent(a) = {}
      BY <3>1, EmptyNumbers DEF Init, Read, ToReader, Copied, InBroadcast, ToServer, Sent, Idle
    <3>4. \A i \in 1 .. 6 : Stages(a, d)[i] = {}
      BY <3>3, StagePlaces
    <3>5. Staged(Stages(a, d), said)
      BY <3>4 DEF Staged
    <3> QED
      BY <3>2, <3>5 DEF ChatOrder
  <2> QED
    BY <2>1 DEF Init, OrderInv
<1>2. WayBackInv /\ OrderInv => AuthorOrder
  <2> SUFFICES ASSUME WayBackInv, OrderInv, NEW c \in Clients,
                      NEW i \in DOMAIN got[c], NEW j \in DOMAIN got[c], i < j,
                      got[c][i].author = got[c][j].author,
                      got[c][i].kind = "Chat", got[c][j].kind = "Chat"
               PROVE  got[c][i].n < got[c][j].n
    BY DEF AuthorOrder
  <2> DEFINE a == got[c][i].author
  <2>1. got[c] \in Seq(ForClient(c))
    BY DEF WayBackInv
  <2>2. got[c][i] \in Message /\ got[c][j] \in Message
    BY <2>1 DEF ForClient
  <2>3. a \in Clients /\ got[c][i] \in ChatsBy(a) /\ got[c][j] \in ChatsBy(a)
    BY <2>2 DEF ChatsBy, Message
  <2>4. Rising(got[c], ChatNumber(a))
    BY <2>3 DEF OrderInv, ChatOrder, LinksInOrder
  <2> HIDE DEF a
  <2> QED
    BY <2>3, <2>4, Numberings DEF Rising
<1> QED
  BY <1>1, <1>2, OrderStep, RelaySafe, WayBackSafe, HomeSafe, PTL DEF Spec
=============================================================================
