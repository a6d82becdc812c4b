------------------------- MODULE SessionTableProofs -------------------------
(***************************************************************************)
(* The server's two maps agree with the pooled Session objects, and only   *)
(* sessions that timed out end, for any number of workers, sessions,       *)
(* addresses and clients, whatever they send and from wherever.            *)
(*                                                                         *)
(* Most of it rests on who may touch a session: a datagram goes to the     *)
(* worker its session id is congruent to, and only that worker moves,      *)
(* refreshes, notes or removes the session.  So what one worker has seen   *)
(* under one hold of sessionLock_ is not undone by another before its next *)
(* hold.  The address it saw free is the exception: any worker may take    *)
(* it.  The module's properties say what follows until that happens.       *)
(***************************************************************************)
EXTENDS SessionTable, SequenceTheorems, TLAPS

\* Datagrams that worker w gets.
Jobs == [id : Ids \cup {0}, addr : Addrs, from : Clients]
JobsFor(w) == {j \in Jobs : Target(j.id) = w}

QueuesAreRouted ==
  /\ queue \in [Workers -> Seq(Jobs)]
  /\ \A w \in Workers :
       /\ queue[w] \in Seq(JobsFor(w))
       /\ pc[w] \in {"migrate", "dispatch"} => queue[w] # << >> /\ Job(w).id \in Ids

\* A worker has noted sessions only between the two holds of CheckSessions, and
\* only such as it looks after.
NotedIsOwned ==
  \A w \in Workers :
    /\ removeList[w] # {} => pc[w] = "remove"
    /\ \A i \in removeList[w] : Owns(w, i)

\* An object is in sessionMap_ under its own id, hence once, and has an address.
IdsAgree ==
  \A i \in Ids : sessionMap[i] # null => /\ session[sessionMap[i]].sessionId = i
                                         /\ session[sessionMap[i]].addr \in Addrs

TableInv ==
  /\ TypeOK
  /\ QueuesAreRouted
  /\ NotedIsOwned
  /\ NotedIsStillLate
  /\ IdsAgree
  /\ TableAgreement

-----------------------------------------------------------------------------
(* Workers and their sessions                                              *)

\* Every id has a worker.
LEMMA TargetType == \A i \in Ids \cup {0} : Target(i) \in Workers
<1>1. \A i \in Ids \cup {0} : i \in Nat
  BY TableAssumption
<1>2. \A n \in Nat : n % WorkerCount \in 0 .. WorkerCount - 1
  BY TableAssumption
<1> QED
  BY <1>1, <1>2 DEF Target, Workers

\* The job a worker is at is one of its own.
LEMMA JobType ==
  ASSUME TableInv, NEW w \in Workers, queue[w] # << >>
  PROVE  /\ Job(w) \in Jobs /\ Target(Job(w).id) = w
         /\ Tail(queue[w]) \in Seq(JobsFor(w))
         /\ Len(Tail(queue[w])) <= QueueCap
<1>1. queue[w] \in Seq(JobsFor(w)) /\ Len(queue[w]) <= QueueCap
  BY DEF TableInv, QueuesAreRouted, TypeOK
<1>2. Head(queue[w]) \in JobsFor(w) /\ Tail(queue[w]) \in Seq(JobsFor(w))
  BY <1>1
<1>3. Len(Tail(queue[w])) <= QueueCap
  BY <1>1, TableAssumption
<1> QED
  BY <1>2, <1>3 DEF Job, JobsFor

\* An object is in the table once.
LEMMA OncePerObject ==
  ASSUME IdsAgree, NEW i \in Ids, NEW j \in Ids, sessionMap[i] # null,
         sessionMap[i] = sessionMap[j]
  PROVE  i = j
BY DEF IdsAgree

\* What worker w does to a session it looks after leaves what the others have
\* noted as it is.
LEMMA NotedKept ==
  ASSUME TableInv, NEW w \in Workers, NEW i \in Ids, Owns(w, i),
         removeList[w] = {},
         UNCHANGED removeList,
         \A j \in Ids : j # i => sessionMap'[j] = sessionMap[j],
         \A s \in Sessions : s # sessionMap[i] => session'[s].late = session[s].late
                                                  \/ s \notin Used
  PROVE  NotedIsStillLate'
<1> SUFFICES ASSUME NEW v \in Workers, NEW j \in removeList[v]
             PROVE  sessionMap'[j] # null /\ session'[sessionMap'[j]].late
  BY DEF NotedIsStillLate
<1>1. j \in Ids /\ Owns(v, j) /\ sessionMap[j] # null /\ session[sessionMap[j]].late
  BY DEF TableInv, TypeOK, NotedIsOwned, NotedIsStillLate
<1>2. v # w
  OBVIOUS
<1>3. j # i
  BY <1>1, <1>2 DEF Owns
<1>4. sessionMap[j] # sessionMap[i]
  BY <1>1, <1>3, OncePerObject DEF TableInv
<1>5. sessionMap[j] \in Sessions /\ sessionMap[j] \in Used
  BY <1>1 DEF TableInv, TypeOK, Used
<1> QED
  BY <1>1, <1>3, <1>4, <1>5

\* A job is done, or one more comes: the queues stay routed.
LEMMA QueuesKept ==
  ASSUME TableInv, NEW w \in Workers, NEW q \in Seq(JobsFor(w)), Len(q) <= QueueCap,
         queue' = [queue EXCEPT ![w] = q],
         \A v \in Workers : pc'[v] \in {"migrate", "dispatch"} =>
           /\ pc[v] \in {"migrate", "dispatch"}
           /\ v = w => q # << >> /\ Head(q) = Head(queue[w])
  PROVE  /\ QueuesAreRouted'
         /\ \A v \in Workers : Len(queue'[v]) <= QueueCap
<1>1. q \in Seq(Jobs)
  <2>1. JobsFor(w) \subseteq Jobs
    BY DEF JobsFor
  <2> QED
    BY <2>1
<1>2. queue \in [Workers -> Seq(Jobs)] /\ queue'[w] = q
      /\ \A v \in Workers : v # w => queue'[v] = queue[v]
  BY DEF TableInv, QueuesAreRouted
<1>3. queue' \in [Workers -> Seq(Jobs)]
  BY <1>1, <1>2
<1>4. \A v \in Workers : /\ queue'[v] \in Seq(JobsFor(v))
                         /\ Len(queue'[v]) <= QueueCap
  BY <1>2 DEF TableInv, QueuesAreRouted, TypeOK
<1>5. \A v \in Workers : pc'[v] \in {"migrate", "dispatch"} =>
                           queue'[v] # << >> /\ Head(queue'[v]).id \in Ids
  BY <1>2 DEF TableInv, QueuesAreRouted, Job
<1> QED
  BY <1>3, <1>4, <1>5 DEF QueuesAreRouted, Job

\* A step that changes only queues and places of the workers.
LEMMA TableKept ==
  ASSUME TableInv, UNCHANGED <<tableVars, clashed>>
  PROVE  IdsAgree' /\ TableAgreement'
BY DEF TableInv, tableVars, IdsAgree, TableAgreement, Used

-----------------------------------------------------------------------------
(* Removal                                                                 *)

\* RemoveSessions keeps the maps and the objects in agreement.
LEMMA RemoveSafe ==
  ASSUME TableInv, NEW ids \in SUBSET Ids, RemoveSessions(ids), UNCHANGED clashed
  PROVE  /\ IdsAgree' /\ TableAgreement'
         /\ sessionMap' \in [Ids -> Sessions \cup {null}]
         /\ peerMap' \in [Addrs -> Sessions \cup {null}]
         /\ session' \in [Sessions -> [sessionId : Ids \cup {0}, addr : Addrs \cup {null},
                                       isConnect : BOOLEAN, late : BOOLEAN]]
<1>1. /\ sessionMap \in [Ids -> Sessions \cup {null}]
      /\ peerMap \in [Addrs -> Sessions \cup {null}]
      /\ session \in [Sessions -> [sessionId : Ids \cup {0}, addr : Addrs \cup {null},
                                   isConnect : BOOLEAN, late : BOOLEAN]]
  BY DEF TableInv, TypeOK
<1>2. /\ sessionMap' = [i \in Ids |-> IF i \in ids THEN null ELSE sessionMap[i]]
      /\ peerMap' = [a \in Addrs |-> IF \E i \in ids : /\ sessionMap[i] # null
                                                       /\ session[sessionMap[i]].addr = a
                                     THEN null ELSE peerMap[a]]
      /\ session' = [s \in Sessions |->
                       IF \E i \in ids : sessionMap[i] = s
                       THEN [session[s] EXCEPT !.sessionId = 0, !.isConnect = FALSE,
                                               !.late = FALSE]
                       ELSE session[s]]
  BY DEF RemoveSessions, ErasePeers
<1>3. /\ sessionMap' \in [Ids -> Sessions \cup {null}]
      /\ peerMap' \in [Addrs -> Sessions \cup {null}]
  BY <1>1, <1>2
<1>4. session' \in [Sessions -> [sessionId : Ids \cup {0}, addr : Addrs \cup {null},
                                 isConnect : BOOLEAN, late : BOOLEAN]]
  <2>1. ASSUME NEW r \in [sessionId : Ids \cup {0}, addr : Addrs \cup {null},
                          isConnect : BOOLEAN, late : BOOLEAN]
        PROVE  [r EXCEPT !.sessionId = 0, !.isConnect = FALSE, !.late = FALSE]
                 \in [sessionId : Ids \cup {0}, addr : Addrs \cup {null},
                      isConnect : BOOLEAN, late : BOOLEAN]
    OBVIOUS
  <2> QED
    BY <1>1, <1>2, <2>1
<1>5. ASSUME NEW i \in Ids, sessionMap'[i] # null
      PROVE  /\ i \notin ids /\ sessionMap'[i] = sessionMap[i] /\ sessionMap[i] \in Sessions
             /\ session'[sessionMap[i]] = session[sessionMap[i]]
  <2>1. i \notin ids /\ sessionMap'[i] = sessionMap[i] /\ sessionMap[i] \in Sessions
    BY <1>1, <1>2, <1>5
  <2>2. \A j \in ids : sessionMap[j] # sessionMap[i]
    BY <2>1, <1>5, OncePerObject DEF TableInv
  <2> QED
    BY <1>2, <2>1, <2>2
<1>6. IdsAgree'
  BY <1>5 DEF TableInv, IdsAgree
<1>7. ASSUME ~clashed, NEW i \in Ids, sessionMap'[i] # null
      PROVE  peerMap'[session'[sessionMap'[i]].addr] = sessionMap'[i]
  <2> DEFINE a == session[sessionMap[i]].addr
  <2>1. a \in Addrs /\ peerMap[a] = sessionMap[i]
    BY <1>5, <1>7 DEF TableInv, IdsAgree, TableAgreement
  <2>2. ASSUME NEW j \in ids, sessionMap[j] # null, session[sessionMap[j]].addr = a PROVE FALSE
    <3>1. peerMap[a] = sessionMap[j]
      BY <1>7, <2>2 DEF TableInv, TableAgreement
    <3> QED
      BY <1>5, <1>7, <2>1, <2>2, <3>1, OncePerObject DEF TableInv
  <2> QED
    BY <1>2, <1>5, <1>7, <2>1, <2>2
<1>8. ASSUME ~clashed, NEW a \in Addrs, peerMap'[a] # null
      PROVE  peerMap'[a] \in Used' /\ session'[peerMap'[a]].addr = a
  <2>1. /\ peerMap'[a] = peerMap[a] /\ peerMap[a] \in Sessions
        /\ ~\E i \in ids : sessionMap[i] # null /\ session[sessionMap[i]].addr = a
    BY <1>1, <1>2, <1>8
  <2>2. peerMap[a] \in Used /\ session[peerMap[a]].addr = a
    BY <1>8, <2>1 DEF TableInv, TableAgreement
  <2>3. PICK i \in Ids : sessionMap[i] = peerMap[a] /\ sessionMap[i] # null
    BY <2>2 DEF Used
  <2>4. i \notin ids
    BY <2>1, <2>2, <2>3
  <2>5. sessionMap'[i] = sessionMap[i]
    BY <1>2, <2>4
  <2> QED
    BY <1>5, <2>1, <2>2, <2>3, <2>5 DEF Used
<1>9. TableAgreement'
  BY <1>6, <1>7, <1>8 DEF TableAgreement, IdsAgree
<1> QED
  BY <1>3, <1>4, <1>6, <1>9
-----------------------------------------------------------------------------
(* The steps                                                               *)

\* A datagram arrives at the worker its session id is congruent to.
LEMMA ArrivalStep ==
  ASSUME TableInv, NEW job \in Jobs, OnRecvFrom(job),
         UNCHANGED <<tableVars, pc, removeList, issued, clashed>>
  PROVE  TableInv'
<1> DEFINE w == Target(job.id)
<1>1. w \in Workers
  BY TargetType DEF Jobs
<1>2. queue[w] \in Seq(JobsFor(w)) /\ Len(queue[w]) <= QueueCap /\ job \in JobsFor(w)
  BY <1>1 DEF TableInv, QueuesAreRouted, TypeOK, JobsFor
<1>3. QueuesAreRouted' /\ \A v \in Workers : Len(queue'[v]) <= QueueCap
  <2>1. CASE UNCHANGED queue
    BY <2>1 DEF TableInv, QueuesAreRouted, TypeOK, Job
  <2>2. CASE Len(queue[w]) < QueueCap /\ queue' = [queue EXCEPT ![w] = Append(queue[w], job)]
    <3> DEFINE q == Append(queue[w], job)
    <3>1. q \in Seq(JobsFor(w)) /\ q # << >> /\ Len(q) <= QueueCap
      BY <1>2, <2>2, TableAssumption
    <3>2. queue[w] # << >> => Head(q) = Head(queue[w])
      BY <1>2
    <3>3. \A v \in Workers : pc'[v] \in {"migrate", "dispatch"} =>
            /\ pc[v] \in {"migrate", "dispatch"}
            /\ v = w => q # << >> /\ Head(q) = Head(queue[w])
      BY <3>1, <3>2 DEF TableInv, QueuesAreRouted
    <3> HIDE DEF q, w
    <3> QED
      BY <1>1, <2>2, <3>1, <3>3, QueuesKept DEF q
  <2> QED
    BY <2>1, <2>2 DEF OnRecvFrom
<1>4. TypeOK' /\ NotedIsOwned' /\ NotedIsStillLate'
  BY <1>3 DEF TableInv, TypeOK, tableVars, NotedIsOwned, NotedIsStillLate
<1> QED
  BY <1>3, <1>4, TableKept DEF TableInv

\* Clients send.
LEMMA ClientStep ==
  ASSUME TableInv, NEW c \in Clients, NEW a \in AddrsOf[c],
         SendConnect(c, a) \/ \E i \in issued[c] : SendWithId(c, a, i)
  PROVE  TableInv'
<1>1. a \in Addrs /\ \A i \in issued[c] : i \in Ids
  BY TableAssumption DEF TableInv, TypeOK
<1>2. \A i \in Ids \cup {0} : [id |-> i, addr |-> a, from |-> c] \in Jobs
  BY <1>1 DEF Jobs
<1> QED
  BY <1>1, <1>2, ArrivalStep DEF SendConnect, SendWithId

\* Time passes: a session that is late stays so.
LEMMA LateStep ==
  ASSUME TableInv, NEW s \in Sessions, BecomeLate(s)
  PROVE  TableInv'
<1>1. /\ session' = [session EXCEPT ![s].late = TRUE]
      /\ UNCHANGED <<sessionMap, peerMap, queue, pc, removeList, issued, clashed>>
  BY DEF BecomeLate
<1>2. session \in [Sessions -> [sessionId : Ids \cup {0}, addr : Addrs \cup {null},
                                isConnect : BOOLEAN, late : BOOLEAN]]
      /\ sessionMap \in [Ids -> Sessions \cup {null}]
      /\ peerMap \in [Addrs -> Sessions \cup {null}]
  BY DEF TableInv, TypeOK
<1>3. session' \in [Sessions -> [sessionId : Ids \cup {0}, addr : Addrs \cup {null},
                                 isConnect : BOOLEAN, late : BOOLEAN]]
  BY <1>1, <1>2
<1>4. \A t \in Sessions : /\ session'[t].sessionId = session[t].sessionId
                          /\ session'[t].addr = session[t].addr
                          /\ session[t].late => session'[t].late
  BY <1>1, <1>2
<1>5. TypeOK' /\ QueuesAreRouted' /\ NotedIsOwned'
  BY <1>1, <1>3 DEF TableInv, TypeOK, QueuesAreRouted, NotedIsOwned, Job
<1>6. IdsAgree'
  BY <1>1, <1>2, <1>4 DEF TableInv, IdsAgree
<1>7. NotedIsStillLate'
  BY <1>1, <1>2, <1>4 DEF TableInv, TypeOK, NotedIsStillLate
<1>8. TableAgreement'
  BY <1>1, <1>2, <1>4 DEF TableInv, TableAgreement, Used
<1> QED
  BY <1>5, <1>6, <1>7, <1>8 DEF TableInv

\* A SESSION request: a new session, at an address that no other has, or an
\* answer about the one that is there.
LEMMA ProcessSessionStep ==
  ASSUME TableInv, NEW w \in Workers, ProcessSession(w)
  PROVE  TableInv'
<1> DEFINE key == Job(w).addr
           c == Job(w).from
<1>1. /\ queue[w] # << >> /\ pc[w] = "idle"
      /\ queue' = [queue EXCEPT ![w] = Tail(queue[w])]
      /\ UNCHANGED <<pc, removeList, clashed>>
  BY DEF ProcessSession, Done
<1>2. Job(w) \in Jobs /\ key \in Addrs /\ c \in Clients
  BY <1>1, JobType DEF Jobs
<1>3. QueuesAreRouted' /\ \A v \in Workers : Len(queue'[v]) <= QueueCap
  BY <1>1, JobType, QueuesKept
<1>4. /\ session \in [Sessions -> [sessionId : Ids \cup {0}, addr : Addrs \cup {null},
                                   isConnect : BOOLEAN, late : BOOLEAN]]
      /\ sessionMap \in [Ids -> Sessions \cup {null}]
      /\ peerMap \in [Addrs -> Sessions \cup {null}]
  BY DEF TableInv, TypeOK
<1>5. NotedIsOwned'
  BY <1>1 DEF TableInv, NotedIsOwned
<1>6. CASE peerMap[key] # null
  <2>1. UNCHANGED tableVars /\ ConnectMessage(c, session[peerMap[key]].sessionId)
    BY <1>6 DEF ProcessSession
  <2>2. session[peerMap[key]].sessionId \in Ids \cup {0}
    BY <1>2, <1>4, <1>6
  <2>3. \A d \in Clients : issued'[d] \subseteq Ids
    BY <2>1, <2>2 DEF ConnectMessage, TableInv, TypeOK
  <2>4. TypeOK' /\ NotedIsStillLate'
    BY <1>1, <1>3, <2>1, <2>3 DEF TableInv, TypeOK, tableVars, NotedIsStillLate
  <2> QED
    BY <1>1, <1>3, <1>5, <2>1, <2>4, TableKept DEF TableInv
<1>7. CASE peerMap[key] = null
  <2>1. PICK i \in Ids, s \in Sessions : /\ CreateSession(i, s, key)
                                         /\ ConnectMessage(c, i)
                                         /\ peerMap' = [peerMap EXCEPT ![key] = s]
    BY <1>7 DEF ProcessSession
  <2> DEFINE fresh == [sessionId |-> i, addr |-> key, isConnect |-> TRUE, late |-> FALSE]
  <2>2. /\ sessionMap[i] = null /\ s \notin Used /\ s # null
        /\ sessionMap' = [sessionMap EXCEPT ![i] = s]
        /\ session' = [session EXCEPT ![s] = fresh]
    BY <2>1, TableAssumption DEF CreateSession
  <2>3. fresh \in [sessionId : Ids \cup {0}, addr : Addrs \cup {null}, isConnect : BOOLEAN,
                   late : BOOLEAN]
        /\ fresh.sessionId = i /\ fresh.addr = key
    BY <1>2
  <2> HIDE DEF fresh, key
  <2>4. /\ sessionMap'[i] = s /\ session'[s] = fresh /\ peerMap'[key] = s
        /\ \A j \in Ids : j # i => sessionMap'[j] = sessionMap[j]
        /\ \A t \in Sessions : t # s => session'[t] = session[t]
        /\ \A a \in Addrs : a # key => peerMap'[a] = peerMap[a]
        /\ \A j \in Ids : sessionMap[j] # null => sessionMap[j] # s /\ sessionMap[j] \in Sessions
    BY <1>2, <1>4, <2>1, <2>2 DEF Used, key
  <2>5. \A d \in Clients : issued'[d] \subseteq Ids
    BY <2>1 DEF ConnectMessage, TableInv, TypeOK
  <2>6. TypeOK'
    <3>1. /\ sessionMap' \in [Ids -> Sessions \cup {null}]
          /\ peerMap' \in [Addrs -> Sessions \cup {null}]
          /\ session' \in [Sessions -> [sessionId : Ids \cup {0}, addr : Addrs \cup {null},
                                        isConnect : BOOLEAN, late : BOOLEAN]]
      BY <1>4, <2>1, <2>2, <2>3
    <3> QED
      BY <1>1, <1>3, <2>5, <3>1 DEF TableInv, TypeOK
  <2>7. IdsAgree'
    BY <1>2, <2>3, <2>4 DEF TableInv, IdsAgree, key
  <2>8. NotedIsStillLate'
    <3> SUFFICES ASSUME NEW v \in Workers, NEW j \in removeList[v]
                 PROVE  sessionMap'[j] # null /\ session'[sessionMap'[j]].late
      BY <1>1 DEF NotedIsStillLate
    <3>1. j \in Ids /\ sessionMap[j] # null /\ session[sessionMap[j]].late
      BY DEF TableInv, TypeOK, NotedIsStillLate
    <3> QED
      BY <2>2, <2>4, <3>1
  <2>9. TableAgreement'
    <3> SUFFICES ASSUME ~clashed PROVE TableAgreement'
      BY <1>1 DEF TableAgreement
    <3>1. ASSUME NEW j \in Ids, sessionMap'[j] # null
          PROVE  /\ session'[sessionMap'[j]].sessionId = j
                 /\ peerMap'[session'[sessionMap'[j]].addr] = sessionMap'[j]
      <4>1. CASE j = i
        BY <2>3, <2>4, <4>1
      <4>2. CASE j # i
        <5>1. /\ sessionMap[j] # null /\ session[sessionMap[j]].addr \in Addrs
              /\ peerMap[session[sessionMap[j]].addr] = sessionMap[j]
          BY <2>4, <3>1, <4>2 DEF TableInv, IdsAgree, TableAgreement
        <5>2. session[sessionMap[j]].addr # key
          BY <1>7, <5>1 DEF key
        <5> QED
          BY <2>4, <2>7, <3>1, <4>2, <5>1, <5>2 DEF IdsAgree
      <4> QED
        BY <4>1, <4>2
    <3>2. ASSUME NEW a \in Addrs, peerMap'[a] # null
          PROVE  peerMap'[a] \in Used' /\ session'[peerMap'[a]].addr = a
      <4>1. CASE a = key
        BY <2>2, <2>3, <2>4, <4>1 DEF Used
      <4>2. CASE a # key
        <5>1. peerMap'[a] = peerMap[a] /\ peerMap[a] \in Used /\ session[peerMap[a]].addr = a
          BY <2>4, <3>2, <4>2 DEF TableInv, TableAgreement
        <5>2. PICK j \in Ids : sessionMap[j] = peerMap[a] /\ sessionMap[j] # null
          BY <5>1 DEF Used
        <5>3. j # i /\ sessionMap'[j] = peerMap[a] /\ peerMap[a] # s /\ peerMap[a] \in Sessions
          BY <2>2, <2>4, <5>2
        <5> QED
          BY <2>4, <5>1, <5>2, <5>3 DEF Used
      <4> QED
        BY <4>1, <4>2
    <3> QED
      BY <3>1, <3>2 DEF TableAgreement
  <2> QED
    BY <1>3, <1>5, <2>6, <2>7, <2>8, <2>9 DEF TableInv
<1> QED
  BY <1>6, <1>7

\* ProcessPacket looks the session and the address up.
LEMMA ProcessLookupStep ==
  ASSUME TableInv, NEW w \in Workers, ProcessLookup(w)
  PROVE  TableInv'
<1>1. /\ queue[w] # << >> /\ Job(w).id > 0 /\ pc[w] = "idle"
      /\ pc' = [pc EXCEPT ![w] = IF sessionMap[Job(w).id] # null /\ peerMap[Job(w).addr] = null
                                 THEN "migrate" ELSE "dispatch"]
      /\ UNCHANGED <<tableVars, queue, removeList, issued, clashed>>
  BY DEF ProcessLookup, Goto
<1>2. Job(w).id \in Ids
  BY <1>1, JobType DEF Jobs
<1>3. QueuesAreRouted'
  BY <1>1, <1>2 DEF TableInv, QueuesAreRouted, TypeOK, Job
<1>4. NotedIsOwned'
  BY <1>1 DEF TableInv, NotedIsOwned, TypeOK
<1>5. TypeOK' /\ NotedIsStillLate'
  BY <1>1 DEF TableInv, TypeOK, tableVars, NotedIsStillLate
<1> QED
  BY <1>1, <1>3, <1>4, <1>5, TableKept DEF TableInv
\* Sessions that a worker removes, all of them its own, are not what another
\* has noted.
LEMMA RemoveNoted ==
  ASSUME TableInv, NEW w \in Workers, NEW ids \in SUBSET Ids, RemoveSessions(ids),
         \A i \in ids : Owns(w, i),
         removeList'[w] = {},
         \A v \in Workers : v # w => removeList'[v] = removeList[v]
  PROVE  NotedIsStillLate'
<1> SUFFICES ASSUME NEW v \in Workers, NEW j \in removeList'[v]
             PROVE  sessionMap'[j] # null /\ session'[sessionMap'[j]].late
  BY DEF NotedIsStillLate
<1>1. v # w /\ j \in removeList[v]
  OBVIOUS
<1>2. /\ j \in Ids /\ Owns(v, j) /\ sessionMap[j] # null /\ session[sessionMap[j]].late
      /\ sessionMap[j] \in Sessions
  BY <1>1 DEF TableInv, TypeOK, NotedIsOwned, NotedIsStillLate
<1>3. j \notin ids
  BY <1>1, <1>2 DEF Owns
<1>4. \A i \in ids : sessionMap[i] # sessionMap[j]
  BY <1>2, <1>3, OncePerObject DEF TableInv
<1> QED
  BY <1>2, <1>3, <1>4 DEF RemoveSessions

\* The second hold of ProcessPacket.
LEMMA ProcessMigrateStep ==
  ASSUME TableInv, NEW w \in Workers, ProcessMigrate(w)
  PROVE  TableInv'
<1> DEFINE i == Job(w).id
           key == Job(w).addr
           s == sessionMap[i]
           preKey == session[s].addr
<1>1. pc[w] = "migrate" /\ UNCHANGED <<removeList, issued>>
  BY DEF ProcessMigrate
<1>2. queue[w] # << >> /\ i \in Ids /\ key \in Addrs /\ Owns(w, i)
  BY <1>1, JobType DEF TableInv, QueuesAreRouted, Jobs, Target, Owns
<1>3. /\ session \in [Sessions -> [sessionId : Ids \cup {0}, addr : Addrs \cup {null},
                                   isConnect : BOOLEAN, late : BOOLEAN]]
      /\ sessionMap \in [Ids -> Sessions \cup {null}]
      /\ peerMap \in [Addrs -> Sessions \cup {null}]
      /\ pc \in [Workers -> {"idle", "migrate", "dispatch", "remove"}]
      /\ removeList[w] = {}
  BY <1>1 DEF TableInv, TypeOK, NotedIsOwned
<1>4. ASSUME pc' = [pc EXCEPT ![w] = "dispatch"] \/ pc' = [pc EXCEPT ![w] = "idle"]
      PROVE  NotedIsOwned' /\ pc' \in [Workers -> {"idle", "migrate", "dispatch", "remove"}]
  BY <1>1, <1>3, <1>4 DEF TableInv, NotedIsOwned
<1>5. ASSUME pc' = [pc EXCEPT ![w] = "dispatch"], UNCHANGED queue
      PROVE  QueuesAreRouted' /\ \A v \in Workers : Len(queue'[v]) <= QueueCap
  BY <1>1, <1>2, <1>5 DEF TableInv, QueuesAreRouted, TypeOK, Job
<1>6. CASE s = null /\ Goto(w, "dispatch") /\ UNCHANGED <<tableVars, queue, clashed>>
  <2>1. TypeOK' /\ NotedIsStillLate'
    BY <1>1, <1>4, <1>6 DEF Goto, TableInv, TypeOK, tableVars, NotedIsStillLate
  <2> QED
    BY <1>4, <1>5, <1>6, <2>1, TableKept DEF TableInv, Goto
<1>7. CASE /\ s # null
           /\ peerMap[preKey] = null
           /\ RemoveSessions({i})
           /\ Goto(w, "idle")
           /\ Done(w)
           /\ UNCHANGED clashed
  <2>1. /\ queue' = [queue EXCEPT ![w] = Tail(queue[w])]
        /\ pc' = [pc EXCEPT ![w] = "idle"]
    BY <1>7 DEF Done, Goto
  <2>2. QueuesAreRouted' /\ \A v \in Workers : Len(queue'[v]) <= QueueCap
    <3>1. \A v \in Workers : pc'[v] \in {"migrate", "dispatch"} =>
            v # w /\ pc[v] \in {"migrate", "dispatch"}
      BY <1>3, <2>1
    <3> QED
      BY <1>2, <2>1, <3>1, JobType, QueuesKept
  <2>3. {i} \in SUBSET Ids
    BY <1>2
  <2>4. NotedIsStillLate'
    <3>1. removeList'[w] = {} /\ \A v \in Workers : v # w => removeList'[v] = removeList[v]
      BY <1>1, <1>3
    <3> HIDE DEF i, s, preKey
    <3> QED
      BY <1>2, <1>7, <2>3, <3>1, RemoveNoted
  <2>5. TypeOK' /\ IdsAgree' /\ TableAgreement'
    <3> HIDE DEF i, s, preKey
    <3>1. clashed \in BOOLEAN /\ removeList \in [Workers -> SUBSET Ids]
          /\ \A c \in Clients : issued[c] \subseteq Ids
      BY DEF TableInv, TypeOK
    <3>2. pc' \in [Workers -> {"idle", "migrate", "dispatch", "remove"}]
      BY <1>4, <2>1
    <3> QED
      BY <1>1, <1>7, <2>2, <2>3, <3>1, <3>2, RemoveSafe DEF TypeOK
  <2> QED
    BY <1>4, <2>1, <2>2, <2>4, <2>5 DEF TableInv
<1>8. CASE /\ s # null
           /\ peerMap[preKey] # null
           /\ SetSockAddr(s, key)
           /\ peerMap' = [peerMap EXCEPT ![key] = IF @ = null THEN peerMap[preKey] ELSE @,
                                         ![preKey] = null]
           /\ clashed' = (clashed \/ peerMap[key] # null)
           /\ Goto(w, "dispatch")
           /\ UNCHANGED <<sessionMap, queue>>
  <2>1. /\ s \in Sessions /\ preKey \in Addrs /\ session[s].sessionId = i
    BY <1>2, <1>3, <1>8 DEF TableInv, IdsAgree
  <2>2. session' = [session EXCEPT ![s].addr = key, ![s].isConnect = TRUE, ![s].late = FALSE]
    BY <1>8 DEF SetSockAddr
  <2>3. /\ session'[s].addr = key /\ session'[s].sessionId = i
        /\ \A t \in Sessions : t # s => session'[t] = session[t]
        /\ session' \in [Sessions -> [sessionId : Ids \cup {0}, addr : Addrs \cup {null},
                                      isConnect : BOOLEAN, late : BOOLEAN]]
    <3> DEFINE r == [session[s] EXCEPT !.addr = key, !.isConnect = TRUE, !.late = FALSE]
    <3>1. session[s] \in [sessionId : Ids \cup {0}, addr : Addrs \cup {null},
                          isConnect : BOOLEAN, late : BOOLEAN]
      BY <1>3, <2>1
    <3>2. r.addr = key /\ r.sessionId = i
      BY <2>1, <3>1
    <3>3. r \in [sessionId : Ids \cup {0}, addr : Addrs \cup {null},
                 isConnect : BOOLEAN, late : BOOLEAN]
      BY <1>2, <3>1
    <3>4. session' = [session EXCEPT ![s] = r]
      BY <2>2
    <3> HIDE DEF r, s
    <3> QED
      BY <1>3, <2>1, <3>2, <3>3, <3>4
  <2>4. peerMap' \in [Addrs -> Sessions \cup {null}]
    BY <1>2, <1>3, <1>8, <2>1
  <2>5. TypeOK'
    BY <1>1, <1>4, <1>5, <1>8, <2>3, <2>4 DEF TableInv, TypeOK, Goto
  <2>6. IdsAgree'
    <3>1. \A j \in Ids : sessionMap[j] # null => sessionMap[j] \in Sessions
      BY <1>3
    <3>2. \A j \in Ids : sessionMap[j] = s => j = i
      BY <1>2, <1>8, OncePerObject DEF TableInv
    <3> QED
      BY <1>2, <1>8, <2>3, <3>1, <3>2 DEF TableInv, IdsAgree
  <2>7. NotedIsStillLate'
    <3>1. /\ \A j \in Ids : j # i => sessionMap'[j] = sessionMap[j]
          /\ \A t \in Sessions : t # sessionMap[i] => session'[t].late = session[t].late
      BY <1>8, <2>3
    <3> QED
      BY <1>1, <1>2, <1>3, <3>1, NotedKept
  <2>8. TableAgreement'
    <3> SUFFICES ASSUME ~clashed, peerMap[key] = null PROVE TableAgreement'
      BY <1>8 DEF TableAgreement, TableInv, TypeOK
    <3>1. peerMap[preKey] = s /\ key # preKey
      BY <1>2, <1>8 DEF TableInv, TableAgreement
    <3> HIDE DEF s, preKey, key, i
    <3>2. /\ peerMap'[key] = s /\ peerMap'[preKey] = null
          /\ \A a \in Addrs : a # key /\ a # preKey => peerMap'[a] = peerMap[a]
      BY <1>2, <1>3, <1>8, <2>1, <3>1
    <3>3. ASSUME NEW j \in Ids, sessionMap[j] # null
          PROVE  peerMap'[session'[sessionMap[j]].addr] = sessionMap[j]
      <4>1. CASE sessionMap[j] = s
        BY <2>3, <3>2, <4>1
      <4>2. CASE sessionMap[j] # s
        <5>1. /\ session[sessionMap[j]].addr \in Addrs
              /\ peerMap[session[sessionMap[j]].addr] = sessionMap[j]
              /\ sessionMap[j] \in Sessions
          BY <1>3, <3>3 DEF TableInv, IdsAgree, TableAgreement
        <5> QED
          BY <2>3, <3>1, <3>2, <3>3, <4>2, <5>1
      <4> QED
        BY <4>1, <4>2
    <3>4. ASSUME NEW a \in Addrs, peerMap'[a] # null
          PROVE  peerMap'[a] \in Used /\ session'[peerMap'[a]].addr = a
      <4>1. CASE a = key
        BY <1>2, <1>8, <2>3, <3>2, <4>1 DEF Used, s
      <4>2. CASE a # key
        <5>1. a # preKey /\ peerMap'[a] = peerMap[a]
          BY <3>2, <3>4, <4>2
        <5>2. peerMap[a] \in Used /\ session[peerMap[a]].addr = a /\ peerMap[a] \in Sessions
          BY <1>3, <3>4, <5>1 DEF TableInv, TableAgreement
        <5>3. peerMap[a] # s
          BY <5>1, <5>2 DEF preKey
        <5> QED
          BY <2>3, <5>1, <5>2, <5>3
      <4> QED
        BY <4>1, <4>2
    <3>5. UNCHANGED <<sessionMap, Used>>
      BY <1>8 DEF Used
    <3> QED
      BY <2>6, <3>3, <3>4, <3>5 DEF TableAgreement, IdsAgree
  <2> QED
    BY <1>4, <1>5, <1>8, <2>5, <2>6, <2>7, <2>8 DEF TableInv, Goto
<1> QED
  BY <1>6, <1>7, <1>8 DEF ProcessMigrate

\* The last hold refreshes a session that no other worker has noted.
LEMMA ProcessDispatchStep ==
  ASSUME TableInv, NEW w \in Workers, ProcessDispatch(w)
  PROVE  TableInv'
<1> DEFINE i == Job(w).id
           s == sessionMap[i]
<1>1. /\ pc[w] = "dispatch"
      /\ pc' = [pc EXCEPT ![w] = "idle"]
      /\ queue' = [queue EXCEPT ![w] = Tail(queue[w])]
      /\ UNCHANGED <<sessionMap, peerMap, removeList, issued, clashed>>
      /\ \/ s = null /\ UNCHANGED session
         \/ s # null /\ \E stays \in {TRUE, ~AppDisconnects} : Refresh(s, stays)
  BY DEF ProcessDispatch, Goto, Done
<1>2. queue[w] # << >> /\ i \in Ids /\ Owns(w, i)
  BY <1>1, JobType DEF TableInv, QueuesAreRouted, Target, Owns
<1>3. /\ session \in [Sessions -> [sessionId : Ids \cup {0}, addr : Addrs \cup {null},
                                   isConnect : BOOLEAN, late : BOOLEAN]]
      /\ sessionMap \in [Ids -> Sessions \cup {null}]
      /\ peerMap \in [Addrs -> Sessions \cup {null}]
      /\ pc \in [Workers -> {"idle", "migrate", "dispatch", "remove"}]
      /\ removeList[w] = {}
  BY <1>1 DEF TableInv, TypeOK, NotedIsOwned
<1>4. QueuesAreRouted' /\ \A v \in Workers : Len(queue'[v]) <= QueueCap
  <2>1. \A v \in Workers : pc'[v] \in {"migrate", "dispatch"} =>
          v # w /\ pc[v] \in {"migrate", "dispatch"}
    BY <1>1, <1>3
  <2> QED
    BY <1>1, <1>2, <2>1, JobType, QueuesKept
<1>5. /\ session' \in [Sessions -> [sessionId : Ids \cup {0}, addr : Addrs \cup {null},
                                    isConnect : BOOLEAN, late : BOOLEAN]]
      /\ \A t \in Sessions : /\ session'[t].sessionId = session[t].sessionId
                             /\ session'[t].addr = session[t].addr
                             /\ t # s => session'[t].late = session[t].late
  <2>1. CASE UNCHANGED session
    BY <1>3, <2>1
  <2>2. CASE s # null /\ \E stays \in {TRUE, ~AppDisconnects} : Refresh(s, stays)
    <3>1. PICK stays \in BOOLEAN :
            session' = [session EXCEPT ![s].late = FALSE, ![s].isConnect = @ /\ stays]
      BY <2>2 DEF Refresh
    <3>2. s \in Sessions /\ session[s].isConnect \in BOOLEAN
      BY <1>2, <1>3, <2>2
    <3> DEFINE connected == session[s].isConnect /\ stays
    <3>3. connected \in BOOLEAN
      OBVIOUS
    <3>4. session' = [session EXCEPT ![s].late = FALSE, ![s].isConnect = connected]
      BY <3>1
    <3> DEFINE r == [session[s] EXCEPT !.late = FALSE, !.isConnect = connected]
    <3>5. session[s] \in [sessionId : Ids \cup {0}, addr : Addrs \cup {null},
                          isConnect : BOOLEAN, late : BOOLEAN]
      BY <1>3, <3>2
    <3>6. session' = [session EXCEPT ![s] = r]
      BY <3>4
    <3> HIDE DEF s, connected
    <3>7. /\ r \in [sessionId : Ids \cup {0}, addr : Addrs \cup {null},
                    isConnect : BOOLEAN, late : BOOLEAN]
          /\ r.sessionId = session[s].sessionId /\ r.addr = session[s].addr
      BY <3>3, <3>5
    <3> HIDE DEF r
    <3> QED
      BY <1>3, <3>2, <3>6, <3>7
  <2> QED
    BY <1>1, <2>1, <2>2
<1>6. NotedIsOwned' /\ pc' \in [Workers -> {"idle", "migrate", "dispatch", "remove"}]
  BY <1>1, <1>3 DEF TableInv, NotedIsOwned
<1>7. TypeOK'
  BY <1>1, <1>4, <1>5, <1>6 DEF TableInv, TypeOK
<1>8. NotedIsStillLate'
  BY <1>1, <1>2, <1>3, <1>5, NotedKept
<1> HIDE DEF s
<1>9. IdsAgree'
  BY <1>1, <1>3, <1>5 DEF TableInv, IdsAgree
<1>10. TableAgreement'
  BY <1>1, <1>3, <1>5 DEF TableInv, TableAgreement, Used
<1> QED
  BY <1>4, <1>6, <1>7, <1>8, <1>9, <1>10 DEF TableInv

\* CheckSessions notes sessions of its worker that are late.
LEMMA CheckSessionsStep ==
  ASSUME TableInv, NEW w \in Workers, CheckSessions(w)
  PROVE  TableInv'
<1>1. PICK ids \in SUBSET Expired(w) : removeList' = [removeList EXCEPT ![w] = ids]
  BY DEF CheckSessions
<1>2. /\ pc[w] = "idle" /\ pc' = [pc EXCEPT ![w] = "remove"]
      /\ UNCHANGED <<tableVars, queue, issued, clashed>>
  BY DEF CheckSessions, Goto
<1>3. \A i \in ids : /\ i \in Ids /\ Owns(w, i) /\ sessionMap[i] # null
                     /\ session[sessionMap[i]].late
  BY DEF Expired
<1>4. /\ pc \in [Workers -> {"idle", "migrate", "dispatch", "remove"}]
      /\ removeList \in [Workers -> SUBSET Ids]
  BY DEF TableInv, TypeOK
<1>5. /\ pc' \in [Workers -> {"idle", "migrate", "dispatch", "remove"}]
      /\ removeList' \in [Workers -> SUBSET Ids]
  BY <1>1, <1>2, <1>3, <1>4
<1>6. TypeOK'
  BY <1>2, <1>5 DEF TableInv, TypeOK, tableVars
<1>7. QueuesAreRouted'
  BY <1>2, <1>4 DEF TableInv, QueuesAreRouted, Job
<1>8. NotedIsOwned' /\ NotedIsStillLate'
  BY <1>1, <1>2, <1>3, <1>4 DEF TableInv, NotedIsOwned, NotedIsStillLate, tableVars
<1> QED
  BY <1>2, <1>6, <1>7, <1>8, TableKept DEF TableInv

\* It removes them without a second look.
LEMMA CheckSessionsRemoveStep ==
  ASSUME TableInv, NEW w \in Workers, CheckSessionsRemove(w)
  PROVE  TableInv'
<1>1. /\ pc[w] = "remove" /\ pc' = [pc EXCEPT ![w] = "idle"]
      /\ RemoveSessions(removeList[w])
      /\ removeList' = [removeList EXCEPT ![w] = {}]
      /\ UNCHANGED <<queue, issued, clashed>>
  BY DEF CheckSessionsRemove, Goto
<1>2. /\ pc \in [Workers -> {"idle", "migrate", "dispatch", "remove"}]
      /\ removeList \in [Workers -> SUBSET Ids]
      /\ removeList[w] \in SUBSET Ids
  BY DEF TableInv, TypeOK
<1>3. /\ pc' \in [Workers -> {"idle", "migrate", "dispatch", "remove"}]
      /\ removeList' \in [Workers -> SUBSET Ids]
      /\ removeList'[w] = {}
      /\ \A v \in Workers : v # w => removeList'[v] = removeList[v]
  BY <1>1, <1>2
<1>4. /\ IdsAgree' /\ TableAgreement'
      /\ sessionMap' \in [Ids -> Sessions \cup {null}]
      /\ peerMap' \in [Addrs -> Sessions \cup {null}]
      /\ session' \in [Sessions -> [sessionId : Ids \cup {0}, addr : Addrs \cup {null},
                                    isConnect : BOOLEAN, late : BOOLEAN]]
  BY <1>1, <1>2, RemoveSafe
<1>5. TypeOK'
  BY <1>1, <1>3, <1>4 DEF TableInv, TypeOK
<1>6. QueuesAreRouted'
  BY <1>1, <1>2 DEF TableInv, QueuesAreRouted, Job
<1>7. NotedIsOwned'
  BY <1>1, <1>2, <1>3 DEF TableInv, NotedIsOwned
<1>8. NotedIsStillLate'
  BY <1>1, <1>2, <1>3, RemoveNoted DEF TableInv, NotedIsOwned
<1> QED
  BY <1>4, <1>5, <1>6, <1>7, <1>8 DEF TableInv

\* Every step of a worker, a client or the clock keeps the invariant.
LEMMA TableStep == TableInv /\ [Next]_vars => TableInv'
<1> SUFFICES ASSUME TableInv, [Next]_vars PROVE TableInv'
  OBVIOUS
<1>1. CASE UNCHANGED vars
  <2>1. TypeOK' /\ QueuesAreRouted' /\ NotedIsOwned' /\ NotedIsStillLate'
    BY <1>1 DEF vars, tableVars, TableInv, TypeOK, QueuesAreRouted, Job, NotedIsOwned,
                NotedIsStillLate
  <2> QED
    BY <1>1, <2>1, TableKept DEF vars, TableInv
<1> QED
  BY <1>1, ClientStep, LateStep, ProcessSessionStep, ProcessLookupStep, ProcessMigrateStep,
     ProcessDispatchStep, CheckSessionsStep, CheckSessionsRemoveStep DEF Next, Work

\* The table's invariant, in every state.
THEOREM TableSafe == Spec => []TableInv
<1>1. Init => TableInv
  <2> SUFFICES ASSUME Init PROVE TableInv
    OBVIOUS
  <2>1. << >> \in Seq(Jobs) /\ \A w \in Workers : << >> \in Seq(JobsFor(w))
    OBVIOUS
  <2>2. QueuesAreRouted
    BY <2>1 DEF Init, QueuesAreRouted
  <2>3. Len(<< >>) <= QueueCap
    BY TableAssumption
  <2>4. TypeOK
    BY <2>3 DEF Init, TypeOK
  <2> QED
    BY <2>2, <2>4 DEF Init, TableInv, NotedIsOwned, NotedIsStillLate, IdsAgree, TableAgreement
<1> QED
  BY <1>1, TableStep, PTL DEF Spec

\* sessionMap_, peerMap_ and the pooled objects agree, until a session is moved
\* to an address that another has taken.
THEOREM MapsAgree == Spec => []TableAgreement
<1>1. TableInv => TableAgreement
  BY DEF TableInv
<1> QED
  BY <1>1, TableSafe, PTL

\* What CheckSessions has noted between its two holds of the lock stays late,
\* whatever the other workers do there.
THEOREM NotedStaysLate == Spec => []NotedIsStillLate
<1>1. TableInv => NotedIsStillLate
  BY DEF TableInv
<1> QED
  BY <1>1, TableSafe, PTL

\* No session that is being heard of ends, until two have clashed.
THEOREM OnlyTheLateEnd == Spec => OnlyLateSessionsEnd
<1>1. ASSUME TableInv, [Next]_vars, NEW i \in Ids, sessionMap[i] # null, sessionMap'[i] = null
      PROVE  session[sessionMap[i]].late \/ clashed
  <2>1. CASE UNCHANGED sessionMap
    BY <1>1, <2>1
  <2>2. ASSUME NEW w \in Workers, ProcessSession(w) PROVE UNCHANGED sessionMap
    <3>1. ASSUME NEW j \in Ids, NEW s \in Sessions, CreateSession(j, s, Job(w).addr)
          PROVE  sessionMap'[i] # null
      <4>1. sessionMap' = [sessionMap EXCEPT ![j] = s] /\ s # null
        BY <3>1, TableAssumption DEF CreateSession
      <4> QED
        BY <1>1, <4>1 DEF TableInv, TypeOK
    <3> QED
      BY <1>1, <2>2, <3>1 DEF ProcessSession, tableVars
  <2>3. ASSUME NEW w \in Workers, ProcessMigrate(w), sessionMap' # sessionMap
        PROVE  clashed
    <3>1. /\ sessionMap[Job(w).id] # null
          /\ peerMap[session[sessionMap[Job(w).id]].addr] = null
      BY <2>3 DEF ProcessMigrate, tableVars
    <3>2. Job(w).id \in Ids
      BY <1>1, <2>3 DEF ProcessMigrate, TableInv, QueuesAreRouted
    <3> QED
      BY <1>1, <3>1, <3>2 DEF TableInv, TableAgreement
  <2>4. ASSUME NEW w \in Workers, CheckSessionsRemove(w) PROVE session[sessionMap[i]].late
    <3>1. i \in removeList[w]
      BY <1>1, <2>4 DEF CheckSessionsRemove, RemoveSessions
    <3> QED
      BY <1>1, <3>1 DEF TableInv, NotedIsStillLate
  <2>5. ASSUME NEW w \in Workers, ProcessLookup(w) \/ ProcessDispatch(w) \/ CheckSessions(w)
        PROVE  UNCHANGED sessionMap
    BY <2>5 DEF ProcessLookup, ProcessDispatch, CheckSessions, tableVars
  <2>6. ASSUME NEW c \in Clients, NEW a \in AddrsOf[c],
               SendConnect(c, a) \/ \E j \in issued[c] : SendWithId(c, a, j)
        PROVE  UNCHANGED sessionMap
    BY <2>6 DEF SendConnect, SendWithId, tableVars
  <2>7. ASSUME NEW s \in Sessions, BecomeLate(s) PROVE UNCHANGED sessionMap
    BY <2>7 DEF BecomeLate
  <2>8. CASE UNCHANGED vars
    BY <1>1, <2>8 DEF vars, tableVars
  <2> QED
    BY <1>1, <2>1, <2>2, <2>3, <2>4, <2>5, <2>6, <2>7, <2>8 DEF Next, Work
<1>2. TableInv /\ [Next]_vars =>
        [\A i \in Ids : sessionMap[i] # null /\ sessionMap'[i] = null
                          => session[sessionMap[i]].late \/ clashed]_vars
  BY <1>1
<1> QED
  BY <1>2, TableSafe, PTL DEF Spec, OnlyLateSessionsEnd
=============================================================================
