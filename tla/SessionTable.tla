---------------------------- MODULE SessionTable ----------------------------
(***************************************************************************)
(* The server's table of sessions: sessionMap_ (by id), peerMap_ (by       *)
(* address) and the pooled Session objects, and the session workers that   *)
(* create, move and remove them.                                           *)
(*                                                                         *)
(* OnRecvFrom hands a datagram to the worker sessionId % workerCount (a    *)
(* SESSION request carries the id 0).  A worker handles its queue with     *)
(* ProcessPacket and looks after its own sessions with CheckSessions.      *)
(* Both take sessionLock_ more than once, and other workers run between    *)
(* two holds: every hold of the lock is one action here.                   *)
(*                                                                         *)
(* Clients are what they send.  A client asks for a session from any of    *)
(* its addresses (AddrsOf) and sends with any id that was issued to it     *)
(* from any of them; one outside MayRetry asks only once.  GenerateId      *)
(* draws 32-bit ids at random; an id is never drawn twice here.            *)
(***************************************************************************)
EXTENDS Naturals, Sequences, FiniteSets

CONSTANTS
  WorkerCount,
  Sessions,     \* the pooled Session objects
  Ids,          \* session ids: bounds the sessions ever created
  Addrs,
  Clients,
  AddrsOf,      \* AddrsOf[c]: the addresses client c sends from
  MayRetry,     \* clients that may ask for a session again
  QueueCap,     \* capacity of a worker's queue (8192)
  RemoveCap,    \* room in removeList (DEFAULT_WINDOW_COUNT)
  AppDisconnects, \* does a packet handler call Session::Disconnect?
  null

ASSUME TableAssumption ==
  /\ WorkerCount \in Nat \ {0}
  /\ Ids \subseteq Nat \ {0}
  /\ AddrsOf \in [Clients -> SUBSET Addrs]
  /\ MayRetry \subseteq Clients
  /\ QueueCap \in Nat \ {0}
  /\ RemoveCap \in Nat \ {0}
  /\ AppDisconnects \in BOOLEAN
  /\ null \notin Sessions

VARIABLES
  sessionMap,  \* sessionMap_: id -> Session* or null
  peerMap,     \* peerMap_: address -> Session* or null
  session,     \* session[s]: the fields of the object s
  queue,       \* queue[w]: the worker's jobs
  pc,          \* pc[w]: what the worker does when it next has the lock
  removeList,  \* removeList[w]: the ids CheckSessions is about to remove
  issued,      \* issued[c]: ids sent to client c
  asked,       \* clients that have asked for a session
  clashed      \* history: a session was moved to an address already taken

tableVars == <<sessionMap, peerMap, session>>
vars == <<tableVars, queue, pc, removeList, issued, asked, clashed>>

Workers == 0 .. WorkerCount - 1

Init ==
  /\ sessionMap = [i \in Ids |-> null]
  /\ peerMap = [a \in Addrs |-> null]
  /\ session = [s \in Sessions |->
                  [sessionId |-> 0, addr |-> null, isConnect |-> FALSE, late |-> FALSE]]
  /\ queue = [w \in Workers |-> << >>]
  /\ pc = [w \in Workers |-> "idle"]
  /\ removeList = [w \in Workers |-> {}]
  /\ issued = [c \in Clients |-> {}]
  /\ asked = {}
  /\ clashed = FALSE

Used == {sessionMap[i] : i \in Ids} \ {null}
EverIssued == UNION {issued[c] : c \in Clients}

-----------------------------------------------------------------------------
(* Datagrams arrive                                                        *)

Target_NextWorker(id) == (id + 1) % WorkerCount
\* The worker that gets a datagram with this session id.
Target(id) == id % WorkerCount

\* Server::OnRecvFrom and SessionWorker::Push: a full queue drops the job.
OnRecvFrom(job) ==
  LET w == Target(job.id) IN
  queue' = IF Len(queue[w]) < QueueCap
           THEN [queue EXCEPT ![w] = Append(@, job)] ELSE queue

SendConnect(c, a) ==
  /\ c \in MayRetry \/ c \notin asked
  /\ asked' = asked \cup {c}
  /\ OnRecvFrom([id |-> 0, addr |-> a, from |-> c])
  /\ UNCHANGED <<tableVars, pc, removeList, issued, clashed>>

\* Any other datagram: data, an ACK, a PONG or a DISCONNECT.
SendWithId(c, a, i) ==
  /\ OnRecvFrom([id |-> i, addr |-> a, from |-> c])
  /\ UNCHANGED <<tableVars, pc, removeList, issued, asked, clashed>>

\* Time passes: a session has not been heard of for SessionTimeout.
BecomeLate(s) ==
  /\ s \in Used
  /\ ~session[s].late
  /\ session' = [session EXCEPT ![s].late = TRUE]
  /\ UNCHANGED <<sessionMap, peerMap, queue, pc, removeList, issued, asked, clashed>>

-----------------------------------------------------------------------------
(* Server                                                                  *)

\* Session::SetSockAddr.
SetSockAddr(s, a) ==
  session' = [session EXCEPT ![s].addr = a, ![s].isConnect = TRUE, ![s].late = FALSE]

\* Server::CreateSession, SessionManager::AddSession and GenerateId.
CreateSession(i, s, a) ==
  /\ i \notin EverIssued
  /\ sessionMap[i] = null
  /\ s \in Sessions \ Used
  /\ sessionMap' = [sessionMap EXCEPT ![i] = s]
  /\ session' = [session EXCEPT ![s] =
                   [sessionId |-> i, addr |-> a, isConnect |-> TRUE, late |-> FALSE]]

ErasePeers_None(ids) == peerMap
\* RemoveSession erases the peer at the session's address, whoever that is.
ErasePeers(ids) ==
  [a \in Addrs |-> IF \E i \in ids : /\ sessionMap[i] # null
                                     /\ session[sessionMap[i]].addr = a
                   THEN null ELSE peerMap[a]]

\* Session::Disconnect, then Server::RemoveSession and DestroySession, of
\* every session in ids: both maps forget it, the object is reset (its addr_
\* stays) and goes back to the pool.
RemoveSessions(ids) ==
  /\ peerMap' = ErasePeers(ids)
  /\ sessionMap' = [i \in Ids |-> IF i \in ids THEN null ELSE sessionMap[i]]
  /\ session' = [s \in Sessions |->
                   IF \E i \in ids : sessionMap[i] = s
                   THEN [session[s] EXCEPT !.sessionId = 0, !.isConnect = FALSE,
                                           !.late = FALSE]
                   ELSE session[s]]

-----------------------------------------------------------------------------
(* SessionWorker                                                           *)

Job(w) == Head(queue[w])
Done(w) == queue' = [queue EXCEPT ![w] = Tail(@)]
Goto(w, to) == pc' = [pc EXCEPT ![w] = to]

\* ConnectMessage tells the client the id of session s.
ConnectMessage(c, i) == issued' = [issued EXCEPT ![c] = @ \cup ({i} \ {0})]

\* ProcessPacket, SESSION request, under the write lock.
ProcessSession(w) ==
  /\ pc[w] = "idle"
  /\ queue[w] # << >>
  /\ Job(w).id = 0
  /\ LET key == Job(w).addr IN
     \/ /\ peerMap[key] = null
        /\ \E i \in Ids, s \in Sessions :
             /\ CreateSession(i, s, key)
             /\ ConnectMessage(Job(w).from, i)
             /\ peerMap' = [peerMap EXCEPT ![key] = s]
     \/ /\ peerMap[key] # null
        /\ ConnectMessage(Job(w).from, session[peerMap[key]].sessionId)
        /\ UNCHANGED tableVars
  /\ Done(w)
  /\ UNCHANGED <<pc, removeList, asked, clashed>>

\* ProcessPacket, first hold: is the address new for a session we know?
ProcessLookup(w) ==
  /\ pc[w] = "idle"
  /\ queue[w] # << >>
  /\ Job(w).id > 0
  /\ Goto(w, IF sessionMap[Job(w).id] # null /\ peerMap[Job(w).addr] = null
             THEN "migrate" ELSE "dispatch")
  /\ UNCHANGED <<tableVars, queue, removeList, issued, asked, clashed>>

\* Second hold, for writing: move the session to the new address.  The
\* session is looked up again, the new address is not.
ProcessMigrate(w) ==
  LET key == Job(w).addr
      s == sessionMap[Job(w).id]
      preKey == session[s].addr
  IN
  /\ pc[w] = "migrate"
  /\ \/ s = null /\ Goto(w, "dispatch") /\ UNCHANGED <<tableVars, queue, clashed>>
     \/ /\ s # null
        /\ peerMap[preKey] = null
        /\ RemoveSessions({Job(w).id})
        /\ Goto(w, "idle")
        /\ Done(w)
        /\ UNCHANGED clashed
     \/ /\ s # null
        /\ peerMap[preKey] # null
        /\ SetSockAddr(s, key)
        /\ peerMap' = [peerMap EXCEPT ![key] = IF @ = null THEN peerMap[preKey] ELSE @,
                                      ![preKey] = null]
        /\ clashed' = (clashed \/ peerMap[key] # null)
        /\ Goto(w, "dispatch")
        /\ UNCHANGED <<sessionMap, queue>>
  /\ UNCHANGED <<removeList, issued, asked>>

Refresh(s, stays) ==
  session' = [session EXCEPT ![s].late = FALSE, ![s].isConnect = @ /\ stays]

\* Last hold: the session's time is refreshed and the packet dispatched to
\* it.  Its handler may disconnect the session (EchoServer::AddConnection).
ProcessDispatch(w) ==
  LET s == sessionMap[Job(w).id] IN
  /\ pc[w] = "dispatch"
  /\ \/ s = null /\ UNCHANGED session
     \/ s # null /\ \E stays \in {TRUE, ~AppDisconnects} : Refresh(s, stays)
  /\ Goto(w, "idle")
  /\ Done(w)
  /\ UNCHANGED <<sessionMap, peerMap, removeList, issued, asked, clashed>>

Owns_ButFirst(w, i) == w > 0 /\ i % WorkerCount = w
\* The sessions worker w looks after.
Owns(w, i) == i % WorkerCount = w

Expired(w) == {i \in Ids : /\ Owns(w, i)
                           /\ sessionMap[i] # null
                           /\ session[sessionMap[i]].isConnect
                           /\ session[sessionMap[i]].late}

\* CheckSessions under the read lock: note what has timed out.
CheckSessions(w) ==
  /\ pc[w] = "idle"
  /\ Expired(w) # {}
  /\ \E ids \in SUBSET Expired(w) :
       /\ Cardinality(ids) = IF Cardinality(Expired(w)) <= RemoveCap
                             THEN Cardinality(Expired(w)) ELSE RemoveCap
       /\ removeList' = [removeList EXCEPT ![w] = ids]
  /\ Goto(w, "remove")
  /\ UNCHANGED <<tableVars, queue, issued, asked, clashed>>

\* CheckSessions under the write lock: remove it, without a second look.
CheckSessionsRemove(w) ==
  /\ pc[w] = "remove"
  /\ RemoveSessions(removeList[w])
  /\ removeList' = [removeList EXCEPT ![w] = {}]
  /\ Goto(w, "idle")
  /\ UNCHANGED <<queue, issued, asked, clashed>>

-----------------------------------------------------------------------------
Work(w) == \/ ProcessSession(w) \/ ProcessLookup(w) \/ ProcessMigrate(w)
           \/ ProcessDispatch(w)

Next ==
  \/ \E c \in Clients : \E a \in AddrsOf[c] :
       SendConnect(c, a) \/ \E i \in issued[c] : SendWithId(c, a, i)
  \/ \E s \in Sessions : BecomeLate(s)
  \/ \E w \in Workers : Work(w) \/ CheckSessions(w) \/ CheckSessionsRemove(w)

Spec == Init /\ [][Next]_vars

\* A worker's thread runs for ever: it goes on with a job it has begun, comes
\* to CheckSessions again and again and finishes what that has noted.
FairSpec ==
  /\ Spec
  /\ \A w \in Workers :
       /\ WF_vars(Work(w))
       /\ SF_vars(CheckSessions(w))
       /\ WF_vars(CheckSessionsRemove(w))

-----------------------------------------------------------------------------
(* Properties                                                              *)

\* Types and bounds: SessionWorker's queue never outgrows its capacity.
TypeOK ==
  /\ sessionMap \in [Ids -> Sessions \cup {null}]
  /\ peerMap \in [Addrs -> Sessions \cup {null}]
  /\ session \in [Sessions -> [sessionId : Ids \cup {0}, addr : Addrs \cup {null},
                               isConnect : BOOLEAN, late : BOOLEAN]]
  /\ pc \in [Workers -> {"idle", "migrate", "dispatch", "remove"}]
  /\ removeList \in [Workers -> SUBSET Ids]
  /\ \A w \in Workers : Len(queue[w]) <= QueueCap
  /\ \A c \in Clients : issued[c] \subseteq Ids
  /\ clashed \in BOOLEAN

\* The two maps and the objects agree: a session in the table knows its id
\* and is the peer at its address, and a peer is a session in the table.  A
\* peer that outlived its session would answer a SESSION request with the id
\* of whatever the pooled object has become.  (Until a session was moved to
\* an address that another one had taken since ProcessPacket looked.)
TableAgreement == ~clashed =>
  /\ \A i \in Ids : sessionMap[i] # null =>
       /\ session[sessionMap[i]].sessionId = i
       /\ peerMap[session[sessionMap[i]].addr] = sessionMap[i]
  /\ \A a \in Addrs : peerMap[a] # null =>
       peerMap[a] \in Used /\ session[peerMap[a]].addr = a

\* A session that ends has timed out: ProcessPacket does not end one that is
\* being heard of as if it had never been connected.  (Again until two
\* sessions have clashed at one address.)
OnlyLateSessionsEnd ==
  [][\A i \in Ids :
       sessionMap[i] # null /\ sessionMap'[i] = null
         => session[sessionMap[i]].late \/ clashed]_vars

\* What CheckSessions noted under the read lock is still true when it comes to
\* remove it under the write lock, although it does not look again: only the
\* worker that owns a session refreshes, moves or removes it.
NotedIsStillLate ==
  \A w \in Workers : \A i \in removeList[w] :
    sessionMap[i] # null /\ session[sessionMap[i]].late

\* A session whose client is silent does not stay: while it is late, either
\* a packet refreshes it or CheckSessions removes it.  (One that the
\* application has disconnected does stay: CheckSessions passes it over.)
IsLate(i) == /\ sessionMap[i] # null
             /\ session[sessionMap[i]].late
             /\ session[sessionMap[i]].isConnect
LateSessionEnds == \A i \in Ids : IsLate(i) ~> ~IsLate(i)
=============================================================================
