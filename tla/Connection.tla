----------------------------- MODULE Connection -----------------------------
(***************************************************************************)
(* One client and its session on the server over time: connecting, the     *)
(* ping and pong that show each side the other is there, the two timeouts  *)
(* and disconnecting.  Client and InternalClient are the same here.        *)
(*                                                                         *)
(* Time advances in units in which both loops (the client's Dispatch, the  *)
(* worker's CheckSessions) come round at least once.  A datagram arrives   *)
(* within Delay units, in any order, or is lost; MaxLoss bounds the losses.*)
(* clientId_ is known or not: one client needs no two ids within Delay.    *)
(***************************************************************************)
EXTENDS Naturals, FiniteSets

CONSTANTS
  PingTimeout,      \* g_defaultPingTimeoutMs
  SessionTimeout,   \* g_defaultDisconnectTimeoutMs, also ClientTimeout
  ConnectLimit,     \* DEFAULT_REQUEST_CONNECT_NO
  Delay,            \* longest time a datagram is under way
  MaxLoss,          \* bound: datagrams lost
  MaxPing,          \* bound: ping numbers stop growing here
  AppSends,         \* what the client's application sends: "nothing",
                    \* "unreliable" or "reliable" packets
  AppDisconnects,   \* may the client's application call Disconnect?
  MayStop,          \* may the client's process end without a word?
  MayRestart,       \* may the server restart and forget its sessions?
  KeepsDispatching  \* does the program call Dispatch after a disconnect?
                    \* (GatewayServer does, the echo client does not)

ASSUME ConnectionAssumption ==
  /\ {PingTimeout, SessionTimeout, ConnectLimit, Delay, MaxLoss, MaxPing} \subseteq Nat
  /\ AppSends \in {"nothing", "unreliable", "reliable"}
  /\ {AppDisconnects, MayStop, MayRestart, KeepsDispatching} \subseteq BOOLEAN

VARIABLES
  isConnect,     \* the client's isConnect_
  clientId,      \* does the client know its id?
  connNo,
  timestamp,     \* units since the client last received anything
  lastPongSeq,   \* newest ping the client has answered
  running,       \* the client's process
  session,       \* has the server a session for the client?
  heard,         \* units since the session last received anything
  pinged,        \* units since the last ping, at most PingTimeout
  pingSeq,       \* the session's ping counter
  toServer, toClient,
  lost,
  looped         \* loops that have come round in this unit

clientVars == <<isConnect, clientId, connNo, timestamp, lastPongSeq, running>>
serverVars == <<session, heard, pinged, pingSeq>>
vars == <<clientVars, serverVars, toServer, toClient, lost, looped>>

Init ==
  /\ isConnect = FALSE /\ clientId = FALSE /\ connNo = 0
  /\ timestamp = 0 /\ lastPongSeq = 0 /\ running = TRUE
  /\ session = FALSE /\ heard = 0 /\ pinged = PingTimeout /\ pingSeq = 0
  /\ toServer = {} /\ toClient = {}
  /\ lost = 0 /\ looped = {}

Packet(flag, seq, id) == [flag |-> flag, seq |-> seq, id |-> id, age |-> 0]
ToServer(flag, seq) == toServer \cup {Packet(flag, seq, clientId)}
ToClient(flag, seq) == toClient \cup {Packet(flag, seq, TRUE)}

\* Does the client's program still call Dispatch?
Dispatching == running /\ (isConnect \/ ~clientId \/ KeepsDispatching)

-----------------------------------------------------------------------------
(* The client                                                              *)

MayAsk == connNo < ConnectLimit

\* One turn of ConnectTimes: Connect and ConnectMessage.  Programs call it
\* once, when they start.
Connect ==
  /\ running
  /\ ~isConnect /\ ~clientId
  /\ "client" \notin looped
  /\ timestamp' = 0
  /\ \/ /\ MayAsk
        /\ connNo' = connNo + 1
        /\ toServer' = ToServer("SESSION", 0)
     \/ ~MayAsk /\ UNCHANGED <<connNo, toServer>>
  /\ looped' = looped \cup {"client"}
  /\ UNCHANGED <<isConnect, clientId, lastPongSeq, running, serverVars, toClient, lost>>

\* Disconnect: DisconnectMessage, then Reset.
Disconnect == toServer' = ToServer("DISCONNECT", 0) /\ isConnect' = FALSE

AppDisconnect ==
  /\ AppDisconnects
  /\ running /\ isConnect
  /\ Disconnect
  /\ UNCHANGED <<clientId, connNo, timestamp, lastPongSeq, running, serverVars,
                 toClient, lost, looped>>

\* RepeatPongMessage: a ping older than the newest one is not answered.
RepeatPongMessage(m) ==
  \/ /\ lastPongSeq <= m.seq
     /\ lastPongSeq' = m.seq
     /\ toServer' = ToServer("PONG", m.seq)
  \/ lastPongSeq > m.seq /\ UNCHANGED <<lastPongSeq, toServer>>

\* OnRecvFrom: anything received refreshes timestamp_.
OnRecvFrom(m) ==
  /\ Dispatching
  /\ timestamp' = 0
  /\ toClient' = toClient \ {m}
  /\ \/ /\ m.flag = "SESSION"
        /\ clientId' = TRUE /\ isConnect' = TRUE
        /\ UNCHANGED <<lastPongSeq, toServer>>
     \/ /\ m.flag = "PING"
        /\ RepeatPongMessage(m)
        /\ UNCHANGED <<clientId, isConnect>>
     \/ /\ m.flag = "DISCONNECT"
        /\ Disconnect
        /\ UNCHANGED <<clientId, lastPongSeq>>
     \/ m.flag = "ACK" /\ UNCHANGED <<clientId, isConnect, lastPongSeq, toServer>>
  /\ UNCHANGED <<connNo, running, serverVars, lost, looped>>

ClientExpired_Never == FALSE
ClientExpired == timestamp > SessionTimeout

\* Dispatch finds nothing to do: CheckPending.
CheckPending ==
  /\ Dispatching
  /\ clientId
  /\ "client" \notin looped
  /\ \/ ClientExpired /\ Disconnect
     \/ ~ClientExpired /\ UNCHANGED <<toServer, isConnect>>
  /\ looped' = looped \cup {"client"}
  /\ UNCHANGED <<clientId, connNo, timestamp, lastPongSeq, running, serverVars,
                 toClient, lost>>

\* The application sends a packet: echo clients while connected, the gateway
\* whenever it has one.
SendPacket ==
  /\ AppSends # "nothing"
  /\ running /\ clientId
  /\ isConnect \/ KeepsDispatching
  /\ toServer' = ToServer(IF AppSends = "reliable" THEN "REPEAT" ELSE "NONE", 0)
  /\ UNCHANGED <<clientVars, serverVars, toClient, lost, looped>>

Stop ==
  /\ MayStop
  /\ running
  /\ running' = FALSE
  /\ UNCHANGED <<isConnect, clientId, connNo, timestamp, lastPongSeq, serverVars,
                 toServer, toClient, lost, looped>>

-----------------------------------------------------------------------------
(* The server                                                              *)

\* ProcessPacket, SESSION.  A request from a known address is answered but
\* refreshes nothing.  A new session is a new object: its pings start again.
ProcessSession(m) ==
  /\ m.flag = "SESSION"
  /\ toClient' = ToClient("SESSION", 0)
  /\ \/ /\ ~session
        /\ session' = TRUE /\ heard' = 0 /\ pinged' = PingTimeout /\ pingSeq' = 0
     \/ session /\ UNCHANGED serverVars

\* ProcessPacket, anything else.  It refreshes the session whatever its flag
\* is; a reliable packet is acknowledged; DISCONNECT has the bits of REPEAT
\* and of channel 7, which RecvDispatch refuses, so that nothing comes of it.
ProcessPacket(m) ==
  /\ m.flag # "SESSION"
  /\ heard' = IF m.id /\ session THEN 0 ELSE heard
  /\ toClient' = IF m.id /\ session /\ m.flag = "REPEAT" THEN ToClient("ACK", 0)
                 ELSE toClient
  /\ UNCHANGED <<session, pinged, pingSeq>>

ServerRecv(m) ==
  /\ toServer' = toServer \ {m}
  /\ ProcessSession(m) \/ ProcessPacket(m)
  /\ UNCHANGED <<clientVars, lost, looped>>

SessionExpired_Never == FALSE
SessionExpired == heard > SessionTimeout

PingDue_OnlyAtFirst == heard = PingTimeout + 1 /\ pinged >= PingTimeout
PingDue == heard > PingTimeout /\ pinged >= PingTimeout

\* Server::SendPing.
SendPing ==
  /\ pingSeq' = IF pingSeq < MaxPing THEN pingSeq + 1 ELSE pingSeq
  /\ toClient' = ToClient("PING", pingSeq')
  /\ pinged' = 0

\* CheckSessions.
CheckSessions ==
  /\ "server" \notin looped
  /\ \/ /\ session /\ SessionExpired
        /\ toClient' = ToClient("DISCONNECT", 0)
        /\ session' = FALSE
        /\ UNCHANGED <<pinged, pingSeq>>
     \/ /\ session /\ ~SessionExpired /\ PingDue
        /\ SendPing
        /\ UNCHANGED session
     \/ /\ ~session \/ (~SessionExpired /\ ~PingDue)
        /\ UNCHANGED <<toClient, session, pinged, pingSeq>>
  /\ looped' = looped \cup {"server"}
  /\ UNCHANGED <<clientVars, heard, toServer, lost>>

Restart ==
  /\ MayRestart
  /\ session
  /\ session' = FALSE
  /\ UNCHANGED <<clientVars, heard, pinged, pingSeq, toServer, toClient, lost, looped>>

-----------------------------------------------------------------------------
(* The network and time                                                    *)

LosePacket ==
  /\ lost < MaxLoss
  /\ lost' = lost + 1
  /\ \/ \E m \in toServer : toServer' = toServer \ {m} /\ UNCHANGED toClient
     \/ \E m \in toClient : toClient' = toClient \ {m} /\ UNCHANGED toServer
  /\ UNCHANGED <<clientVars, serverVars, looped>>

\* A datagram for a client that no longer dispatches is never read.
Older(packets) == {[m EXCEPT !.age = @ + 1] : m \in packets}
Least(a, b) == IF a < b THEN a ELSE b

Tick ==
  /\ \A m \in toServer : m.age < Delay
  /\ Dispatching => \A m \in toClient : m.age < Delay
  /\ "server" \in looped
  /\ Dispatching => "client" \in looped
  /\ timestamp' = Least(timestamp + 1, SessionTimeout + 1)
  /\ heard' = Least(heard + 1, SessionTimeout + 1)
  /\ pinged' = Least(pinged + 1, PingTimeout)
  /\ toServer' = Older(toServer)
  /\ toClient' = IF Dispatching THEN Older(toClient) ELSE {}
  /\ looped' = {}
  /\ UNCHANGED <<isConnect, clientId, connNo, lastPongSeq, running, session, pingSeq,
                 lost>>

Next ==
  \/ Connect \/ AppDisconnect \/ CheckPending \/ SendPacket \/ Stop
  \/ \E m \in toClient : OnRecvFrom(m)
  \/ \E m \in toServer : ServerRecv(m)
  \/ CheckSessions \/ Restart \/ LosePacket \/ Tick

Spec == Init /\ [][Next]_vars

\* Time passes, the loops run, and what has not been lost arrives in time.
FairSpec ==
  /\ Spec
  /\ WF_vars(Tick)
  /\ WF_vars(CheckSessions)
  /\ WF_vars(Connect \/ CheckPending)
  /\ WF_vars(\E m \in toServer : m.age = Delay /\ ServerRecv(m))
  /\ WF_vars(\E m \in toClient : m.age = Delay /\ OnRecvFrom(m))

-----------------------------------------------------------------------------
(* Properties                                                              *)

\* Types and bounds: ConnectMessage asks at most ConnectLimit times.
TypeOK ==
  /\ {isConnect, clientId, running, session} \subseteq BOOLEAN
  /\ connNo \in 0 .. ConnectLimit
  /\ timestamp \in 0 .. SessionTimeout + 1 /\ heard \in 0 .. SessionTimeout + 1
  /\ pinged \in 0 .. PingTimeout
  /\ pingSeq \in 0 .. MaxPing /\ lastPongSeq \in 0 .. MaxPing
  /\ \A m \in toServer \cup toClient : m.age \in 0 .. Delay
  /\ lost \in 0 .. MaxLoss
  /\ looped \subseteq {"client", "server"}

\* The keep-alive: a connection ends because the application ends it, the
\* server restarts or the client has crashed, and for no other reason.
\* Neither CheckPending nor CheckSessions times out a partner that is there,
\* however idle the application is and although some datagrams are lost.
StaysConnected ==
  [][isConnect /\ session /\ running
       => (isConnect' /\ session') \/ AppDisconnect \/ Restart]_vars

\* The server notices that a client is gone, without being told.
GoneClientIsForgotten == ~running ~> ~session

\* A client whose session the server has forgotten notices it.
LostSessionIsNoticed == isConnect /\ ~session ~> ~isConnect \/ session \/ ~running

\* A connection that the client has ended is ended on the server too.
EndedConnectionIsForgotten == clientId /\ ~isConnect /\ session ~> ~session \/ isConnect
=============================================================================
