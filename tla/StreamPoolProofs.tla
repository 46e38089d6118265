--------------------------- MODULE StreamPoolProofs ---------------------------
(* The streams and events of the C++ interface keep their promises for any   *)
(* number of threads, devices, events and calls, and any size of the pools.  *)
(* A pool's counter and the number of streams it has handed out agree modulo *)
(* the size of the pool, through the counter's wrap at 2^32, because the     *)
(* size divides it. An event that reads as complete has been passed by its   *)
(* stream, because its record is alone and stands behind the work.           *)
EXTENDS StreamPool, TLAPS

-----------------------------------------------------------------------------
(* Arithmetic of places and turns.                                           *)

(* The remainder, under a name that the provers leave folded. *)
Rest(n, p) == n % p

LEMMA Division ==
  ASSUME NEW n \in Int, NEW p \in Nat \ {0}
  PROVE  Rest(n, p) \in 0 .. p - 1 /\ \E q \in Int : n = p * q + Rest(n, p)
<1>1. n \div p \in Int /\ n = p * (n \div p) + (n % p) /\ n % p \in 0 .. p - 1
      OBVIOUS
<1>2. QED
      BY <1>1 DEF Rest

(* A multiple that is less than the unit is none. *)
LEMMA NoMultiple ==
  ASSUME NEW k \in Int, NEW p \in Nat \ {0}, p * k < p, -p < p * k
  PROVE  k = 0
<1>1. k >= 1 => p * k >= p
      OBVIOUS
<1>2. k <= -1 => p * k <= -p
      OBVIOUS
<1>3. QED
      BY <1>1, <1>2

LEMMA SplitMultiple ==
  ASSUME NEW a \in Int, NEW b \in Int, NEW p \in Int
  PROVE  p * (a - b) = p * a - p * b /\ p * a \in Int /\ p * b \in Int
  OBVIOUS

(* Two ways to write a number as a multiple and a remainder are the same. *)
LEMMA OneRemainder ==
  ASSUME NEW p \in Nat \ {0}, NEW a \in Int, NEW b \in Int,
         NEW i \in 0 .. p - 1, NEW j \in 0 .. p - 1, p * a + i = p * b + j
  PROVE  a = b /\ i = j
<1>1. p * (a - b) = p * a - p * b /\ p * a \in Int /\ p * b \in Int
      BY SplitMultiple
<1>2. p * (a - b) = j - i
      BY <1>1
<1>3. a - b = 0
  <2>1. a - b \in Int /\ p * (a - b) < p /\ -p < p * (a - b)
        BY <1>2
  <2>2. QED
        BY <2>1, NoMultiple
<1>4. QED
      BY <1>2, <1>3

(* Equal remainders mean a multiple between them, and the other way round. *)
LEMMA SameRemainder ==
  ASSUME NEW p \in Nat \ {0}, NEW m \in Int, NEW n \in Int, NEW k \in Int, k = m - n
  PROVE  Rest(m, p) = Rest(n, p) <=> Rest(k, p) = 0
<1>1. PICK a \in Int, i \in 0 .. p - 1 : n = p * a + i /\ Rest(n, p) = i
      BY Division
<1>2. PICK b \in Int, j \in 0 .. p - 1 : m = p * b + j /\ Rest(m, p) = j
      BY Division
<1>3. PICK c \in Int, l \in 0 .. p - 1 : k = p * c + l /\ Rest(k, p) = l
      BY Division
<1>4. /\ p * (b - a) = p * b - p * a /\ b - a \in Int
      /\ p * (a + c) = p * a + p * c /\ a + c \in Int
      /\ p * a \in Int /\ p * b \in Int /\ p * c \in Int
      OBVIOUS
<1>5. ASSUME i = j PROVE l = 0
  <2>1. p * c + l = p * (b - a) + 0
        BY <1>1, <1>2, <1>3, <1>4, <1>5
  <2>2. 0 \in 0 .. p - 1
        OBVIOUS
  <2>3. QED
        BY <1>4, <2>1, <2>2, OneRemainder
<1>6. ASSUME l = 0 PROVE i = j
  <2>1. p * b + j = p * (a + c) + i
        BY <1>1, <1>2, <1>3, <1>4, <1>6
  <2>2. QED
        BY <1>4, <2>1, OneRemainder
<1>7. QED
      BY <1>1, <1>2, <1>3, <1>5, <1>6

(* Two streams of a pool are the same when the pool has gone round between. *)
LEMMA SameTurn ==
  ASSUME NEW p \in Nat \ {0}, NEW m \in Int, NEW n \in Int
  PROVE  /\ Rest(m - 1, p) = Rest(n - 1, p) <=> Rest(m - n, p) = 0
         /\ Rest(m + 1, p) = Rest(n + 1, p) <=> Rest(m, p) = Rest(n, p)
<1>1. /\ m - 1 \in Int /\ n - 1 \in Int /\ m + 1 \in Int /\ n + 1 \in Int /\ m - n \in Int
      /\ m - n = (m - 1) - (n - 1) /\ m - n = (m + 1) - (n + 1)
      OBVIOUS
<1>2. Rest(m - 1, p) = Rest(n - 1, p) <=> Rest(m - n, p) = 0
      BY <1>1, SameRemainder
<1>3. Rest(m + 1, p) = Rest(n + 1, p) <=> Rest(m - n, p) = 0
      BY <1>1, SameRemainder
<1>4. Rest(m, p) = Rest(n, p) <=> Rest(m - n, p) = 0
      BY <1>1, SameRemainder
<1>5. QED
      BY <1>2, <1>3, <1>4

(* A counter and a ticket that agree still do after the next stream, though  *)
(* the counter may wrap.                                                     *)
LEMMA NextTurn ==
  ASSUME NEW c \in 0 .. CounterSize - 1, NEW n \in Nat,
         Rest(c, PoolSize) = Rest(n, PoolSize)
  PROVE  /\ (c + 1) % CounterSize \in 0 .. CounterSize - 1
         /\ Rest((c + 1) % CounterSize, PoolSize) = Rest(n + 1, PoolSize)
<1>1. PoolSize \in Nat \ {0} /\ CounterSize \in Nat \ {0}
      BY PoolAssumption
<1>2. c \in Int /\ n \in Int /\ c + 1 \in 0 .. CounterSize
      BY <1>1
<1>3. Rest(c + 1, PoolSize) = Rest(n + 1, PoolSize)
      BY <1>1, <1>2, SameTurn
<1>4. CASE c + 1 < CounterSize
  <2>1. (c + 1) % CounterSize = c + 1 /\ c + 1 \in 0 .. CounterSize - 1
        BY <1>1, <1>2, <1>4
  <2>2. QED
        BY <1>3, <2>1
<1>5. CASE c + 1 = CounterSize
  <2>1. (c + 1) % CounterSize = 0 /\ 0 \in 0 .. CounterSize - 1
        BY <1>1, <1>5
  <2>2. Rest(0, PoolSize) = 0 /\ Rest(c + 1, PoolSize) = 0
        BY <1>1, <1>5, PoolAssumption DEF Rest
  <2>3. QED
        BY <1>3, <2>1, <2>2
<1>6. QED
      BY <1>1, <1>2, <1>4, <1>5

(* Every place of every device has an address of its own. *)
LEMMA AddressInjective ==
  ASSUME NEW d \in Devices, NEW e \in Devices, NEW i \in Places, NEW j \in Places
  PROVE  /\ Address(d, i) = Address(e, j) <=> d = e /\ i = j
         /\ Address(d, i) \notin {Null, External}
         /\ Address(d, i) \in Addresses
<1>1. PoolSize \in Nat \ {0} /\ d \in Nat /\ e \in Nat /\ i \in Nat /\ j \in Nat
      /\ i \in 0 .. PoolSize - 1 /\ j \in 0 .. PoolSize - 1
      BY PoolAssumption DEF Places
<1>2. PoolSize * d \in Nat /\ PoolSize * e \in Nat /\ d * PoolSize = PoolSize * d
      /\ e * PoolSize = PoolSize * e
      BY <1>1
<1>3. PoolSize * d + i = PoolSize * e + j => d = e /\ i = j
      BY <1>1, OneRemainder
<1>4. /\ Address(d, i) = 16 * (2 + (PoolSize * d + i))
      /\ Address(e, j) = 16 * (2 + (PoolSize * e + j))
      BY <1>1, <1>2 DEF Address, External
<1>5. QED
      BY <1>1, <1>2, <1>3, <1>4 DEF Null, External, Addresses

(* A number of a pool's stream gives back its kind and its place. *)
LEMMA NumberDecodes ==
  ASSUME NEW i \in Places
  PROVE  /\ streamIdType(makeStreamId(DEFAULT, i)) = DEFAULT
         /\ streamIdIndex(makeStreamId(DEFAULT, i)) = i
<1>1. PoolSize \in Nat \ {0} /\ i \in 0 .. PoolSize - 1 /\ i \in Nat
      BY PoolAssumption DEF Places
<1>2. makeStreamId(DEFAULT, i) = i * 8 + 1
      BY <1>1 DEF makeStreamId, DEFAULT, EXT
<1>3. /\ (i * 8 + 1) % 2 = 1 /\ (i * 8 + 1) \div 2 = i * 4
      /\ (i * 4) % 4 = 0 /\ (i * 8 + 1) \div 8 = i
      BY <1>1
<1>4. i % PoolSize = i
      BY <1>1
<1>5. QED
      BY <1>2, <1>3, <1>4 DEF streamIdType, streamIdIndex, DEFAULT

LEMMA ExternalDecodes == streamIdType(External) = EXT
  BY DEF streamIdType, External, EXT

-----------------------------------------------------------------------------
(* The type invariant.                                                       *)

LEMMA CallKinds ==
  ASSUME NEW c \in Calls
  PROVE  /\ c.op = "create" => c.on \in Devices /\ c.i \in Places
         /\ c.op = "take" => c.on \in Devices
         /\ c.op = "record" => c.event \in Flags /\ c.on \in Addresses
         /\ c.op = "wait" => c.event \in Flags
  BY DEF Calls, Idle

LEMMA CallsMade ==
  /\ Idle \in Calls
  /\ \A d \in Devices : [op |-> "take", on |-> d] \in Calls
  /\ \A d \in Devices, i \in Places : [op |-> "create", on |-> d, i |-> i] \in Calls
  /\ \A e \in Flags : [op |-> "wait", event |-> e] \in Calls
  /\ \A e \in Flags, h \in Addresses : [op |-> "record", event |-> e, on |-> h] \in Calls
  BY DEF Calls

(* A creation that has a place left goes on with the next one. *)
LEMMA NextPlace ==
  ASSUME NEW c \in Calls, c.op = "create", c.i + 1 < PoolSize
  PROVE  /\ [c EXCEPT !.i = c.i + 1] = [op |-> "create", on |-> c.on, i |-> c.i + 1]
         /\ c.i + 1 \in Places
<1>1. c \in [op : {"create"}, on : Devices, i : Places]
      BY DEF Calls, Idle
<1>2. c.i + 1 \in Places
      BY <1>1, PoolAssumption DEF Places
<1>3. QED
      BY <1>1, <1>2

LEMMA TaskKinds ==
  /\ \A n \in Nat : [op |-> "work", id |-> n] \in WorkTasks
  /\ \A e \in Flags : RecordTask(e) \in WorkTasks /\ [op |-> "wait", event |-> e] \in WorkTasks
  /\ \A x \in WorkTasks : /\ x.op = "work" => x.id \in Nat
                          /\ x.op \in {"record", "wait"} => x.event \in Flags
                          /\ x # NoTask
  BY DEF WorkTasks, RecordTask, NoTask

(* The current stream is one of the device's, or one that does not exist yet. *)
LEMMA CurrentKnown ==
  ASSUME TypeOK, NEW t \in Threads
  PROVE  Current(t) \in Addresses \cup {Null}
<1> DEFINE d == device[t]
           s == current[t][d]
<1>1. d \in Devices /\ s \in Numbers
      BY DEF TypeOK
<1>2. CASE s = External
      BY <1>1, <1>2, ExternalDecodes DEF Current, stream, Addresses
<1>3. CASE s # External
  <2>1. PICK i \in Places : s = makeStreamId(DEFAULT, i)
        BY <1>1, <1>3 DEF Numbers
  <2>2. stream(d, s) = streams[d][i]
        BY <2>1, NumberDecodes DEF stream, DEFAULT, EXT
  <2>3. streams[d][i] \in Addresses \cup {Null}
        BY <1>1, <2>1 DEF TypeOK
  <2>4. QED
        BY <2>2, <2>3 DEF Current
<1>4. QED
      BY <1>2, <1>3

LEMMA FirstPlace == 0 \in Places /\ makeStreamId(DEFAULT, 0) \in Numbers /\ External \in Numbers
  BY PoolAssumption DEF Places, Numbers

LEMMA NextNumber ==
  ASSUME TypeOK, NEW d \in Devices
  PROVE  get_idx(d) \in Places /\ makeStreamId(DEFAULT, get_idx(d)) \in Numbers
<1>1. counter[d] \in Int /\ PoolSize \in Nat \ {0}
      BY PoolAssumption DEF TypeOK
<1>2. get_idx(d) \in Places
      BY <1>1, Division DEF Rest, get_idx, Places
<1>3. QED
      BY <1>2 DEF Numbers

LEMMA TypeInit == Init => TypeOK
<1> SUFFICES ASSUME Init PROVE TypeOK
    OBVIOUS
<1>1. pc \in [Threads -> Calls] /\ held \in [Threads -> [on : Devices, id : Numbers, ticket : Nat]]
      BY CallsMade, FirstPlace, PoolAssumption DEF Init, getStreamFromExternal
<1>2. queue \in [Addresses -> Seq(WorkTasks)] /\ running \in [Addresses -> WorkTasks \cup {NoTask}]
      BY DEF Init
<1>3. /\ counter \in [Devices -> 0 .. CounterSize - 1]
      /\ current \in [Threads -> [Devices -> Numbers]]
      BY FirstPlace, PoolAssumption DEF Init
<1>4. /\ pool \in [Devices -> {"none", "creating", "ready"}]
      /\ streams \in [Devices -> [Places -> Addresses \cup {Null}]]
      /\ tickets \in [Devices -> Nat]
      /\ device \in [Threads -> Devices]
      BY PoolAssumption DEF Init
<1>5. /\ event \in [Events -> [created : BOOLEAN, on : Devices]]
      /\ completed \in [Flags -> BOOLEAN]
      /\ ops \in Nat /\ done \subseteq Nat
      /\ before \in [Events -> SUBSET Nat]
      /\ overlapped \subseteq Events /\ overtaken \subseteq Events
      BY PoolAssumption DEF Init, Flags
<1>6. QED
      BY <1>1, <1>2, <1>3, <1>4, <1>5 DEF TypeOK

(* A step that goes on at another place of the program is typed. *)
LEMMA GotoType ==
  ASSUME TypeOK, NEW t \in Threads, NEW c \in Calls, Goto(t, c)
  PROVE  /\ pc' \in [Threads -> Calls] /\ pc'[t] = c
         /\ \A u \in Threads : u # t => pc'[u] = pc[u]
  BY DEF TypeOK, Goto

LEMMA QueueType ==
  ASSUME TypeOK, NEW h \in Addresses, NEW x \in WorkTasks, addTaskToStream(h, x)
  PROVE  queue' \in [Addresses -> Seq(WorkTasks)]
  BY DEF TypeOK, addTaskToStream

(* Work that waits on a stream has the number of a call. *)
LEMMA PendingType ==
  ASSUME TypeOK, NEW h \in Addresses
  PROVE  Pending(h) \subseteq Nat
<1> SUFFICES ASSUME NEW x \in Tasks(h), x.op = "work" PROVE x.id \in Nat
    BY DEF Pending
<1>1. x \in WorkTasks \cup {NoTask}
      BY DEF Tasks, TypeOK
<1>2. QED
      BY <1>1, TaskKinds DEF NoTask

LEMMA TypeNext == TypeOK /\ [Next]_vars => TypeOK'
<1> SUFFICES ASSUME TypeOK, [Next]_vars PROVE TypeOK'
    OBVIOUS
<1> USE DEF poolVars, threadVars, workVars, eventVars
<1>1. CASE UNCHANGED vars
      BY <1>1 DEF vars, TypeOK
<1>2. ASSUME NEW t \in Threads, NEW d \in Devices, GetStreamFromPool(t, d) PROVE TypeOK'
  <2>1. Goto(t, [op |-> "create", on |-> d, i |-> 0])
        BY <1>2 DEF GetStreamFromPool
  <2>2. pc' \in [Threads -> Calls]
        BY <2>1, GotoType, CallsMade, FirstPlace
  <2>3. QED
        BY <1>2, <2>2 DEF GetStreamFromPool, Call, TypeOK
<1>3. ASSUME NEW t \in Threads, initSingleDeviceStream(t) PROVE TypeOK'
  <2> DEFINE d == pc[t].on
             i == pc[t].i
  <2>1. pc[t] \in Calls /\ pc[t].op = "create"
        BY <1>3 DEF initSingleDeviceStream, TypeOK
  <2>2. d \in Devices /\ i \in Places
        BY <2>1, CallKinds
  <2>3. pc' \in [Threads -> Calls]
    <3>1. CASE i + 1 < PoolSize
      <4>1. [pc[t] EXCEPT !.i = i + 1] \in Calls
        <5>1. /\ i + 1 \in Places
              /\ [pc[t] EXCEPT !.i = i + 1] = [op |-> "create", on |-> d, i |-> i + 1]
              BY <2>1, <3>1, NextPlace
        <5>2. [op |-> "create", on |-> d, i |-> i + 1] \in Calls
              BY <2>2, <5>1, CallsMade
        <5>3. QED
              BY <5>1, <5>2
      <4>2. Goto(t, [pc[t] EXCEPT !.i = i + 1])
            BY <1>3, <3>1 DEF initSingleDeviceStream
      <4>3. QED
            BY <4>1, <4>2, GotoType
    <3>2. CASE ~(i + 1 < PoolSize)
      <4>1. Goto(t, [op |-> "take", on |-> d])
            BY <1>3, <3>2 DEF initSingleDeviceStream
      <4>2. QED
            BY <2>2, <4>1, GotoType, CallsMade
    <3>3. QED
          BY <3>1, <3>2
  <2>4. Address(d, i) \in Addresses
        BY <2>2, AddressInjective
  <2>5. streams' \in [Devices -> [Places -> Addresses \cup {Null}]]
    <3>1. streams' = [streams EXCEPT ![d][i] = Address(d, i)]
          BY <1>3 DEF initSingleDeviceStream
    <3>2. streams \in [Devices -> [Places -> Addresses \cup {Null}]]
          BY DEF TypeOK
    <3>3. QED
          BY <2>2, <2>4, <3>1, <3>2
  <2>6. counter' \in [Devices -> 0 .. CounterSize - 1]
    <3>1. counter' = [counter EXCEPT ![d] = 0] /\ 0 \in 0 .. CounterSize - 1
          BY <1>3, PoolAssumption DEF initSingleDeviceStream
    <3>2. QED
          BY <3>1 DEF TypeOK
  <2>7. pool' \in [Devices -> {"none", "creating", "ready"}]
    <3>1. pool' = pool \/ pool' = [pool EXCEPT ![d] = "ready"]
          BY <1>3 DEF initSingleDeviceStream
    <3>2. QED
          BY <3>1 DEF TypeOK
  <2>8. QED
        BY <1>3, <2>3, <2>5, <2>6, <2>7 DEF initSingleDeviceStream, TypeOK
<1>4. ASSUME NEW t \in Threads, NEW d \in Devices, TakeFromPool(t, d) PROVE TypeOK'
  <2>1. pc' \in [Threads -> Calls] /\ ops' \in Nat
    <3>1. CASE Goto(t, Idle) /\ UNCHANGED ops
          BY <3>1, GotoType, CallsMade DEF TypeOK
    <3>2. CASE Call(t) /\ UNCHANGED pc
          BY <3>2 DEF Call, TypeOK
    <3>3. QED
          BY <1>4, <3>1, <3>2 DEF TakeFromPool
  <2>2. counter' \in [Devices -> 0 .. CounterSize - 1]
        BY <1>4, PoolAssumption DEF TakeFromPool, TypeOK
  <2>3. /\ tickets' \in [Devices -> Nat]
        /\ held' \in [Threads -> [on : Devices, id : Numbers, ticket : Nat]]
    <3> DEFINE id == makeStreamId(DEFAULT, get_idx(d))
               h == [on |-> d, id |-> id, ticket |-> tickets[d] + 1]
    <3>1. id \in Numbers
          BY NextNumber
    <3>2. /\ tickets' = [tickets EXCEPT ![d] = @ + 1]
          /\ held' = [held EXCEPT ![t] = h]
          BY <1>4 DEF TakeFromPool, Hand
    <3> HIDE DEF id
    <3>3. h \in [on : Devices, id : Numbers, ticket : Nat]
          BY <3>1 DEF TypeOK
    <3> HIDE DEF h
    <3>4. QED
          BY <3>2, <3>3 DEF TypeOK
  <2>4. QED
        BY <1>4, <2>1, <2>2, <2>3 DEF TakeFromPool, TypeOK
<1>5. ASSUME NEW t \in Threads, setCurrentOpenRegStream(t) PROVE TypeOK'
  <2>1. held[t].on \in Devices /\ held[t].id \in Numbers
        BY DEF TypeOK
  <2>2. QED
        BY <1>5, <2>1 DEF setCurrentOpenRegStream, Call, TypeOK
<1>6. ASSUME NEW t \in Threads, NEW d \in Devices, set_device(t, d) PROVE TypeOK'
  <2>1. device' \in [Threads -> Devices] /\ ops' \in Nat
        BY <1>6 DEF set_device, Call, TypeOK
  <2>2. UNCHANGED <<poolVars, current, pc, held, workVars, eventVars>>
        BY <1>6 DEF set_device
  <2>3. QED
        BY <2>1, <2>2 DEF TypeOK
<1>7. ASSUME NEW t \in Threads, Launch(t) PROVE TypeOK'
  <2>1. Current(t) \in Addresses /\ [op |-> "work", id |-> ops] \in WorkTasks
        BY <1>7, CurrentKnown, TaskKinds DEF Launch, TypeOK
  <2>2. queue' \in [Addresses -> Seq(WorkTasks)]
        BY <1>7, <2>1, QueueType DEF Launch
  <2>3. QED
    <3>1. ops' \in Nat /\ UNCHANGED <<poolVars, threadVars, completed, running, done, eventVars>>
          BY <1>7 DEF Launch, Call, TypeOK
    <3>2. QED
          BY <2>2, <3>1 DEF TypeOK
<1>8. ASSUME NEW t \in Threads, NEW e \in Events, record(t, e) PROVE TypeOK'
  <2>1. event' \in [Events -> [created : BOOLEAN, on : Devices]]
        BY <1>8 DEF record, TypeOK
  <2>2. /\ pc' \in [Threads -> Calls] /\ completed' \in [Flags -> BOOLEAN]
        /\ overlapped' \subseteq Events /\ overtaken' \subseteq Events
    <3>1. CASE Current(t) = Null \/ (event[e].created /\ event[e].on # device[t])
          BY <1>8, <3>1 DEF record, TypeOK
    <3>2. CASE ~(Current(t) = Null \/ (event[e].created /\ event[e].on # device[t]))
      <4>1. [op |-> "record", event |-> e, on |-> Current(t)] \in Calls
            BY <3>2, CurrentKnown, CallsMade DEF Flags
      <4>2. /\ Goto(t, [op |-> "record", event |-> e, on |-> Current(t)])
            /\ Clear(e)
            /\ overlapped' = overlapped \cup (IF completed[e] THEN {} ELSE {e})
            /\ overtaken' = overtaken \cup (IF Awaited(e) THEN {e} ELSE {})
            BY <1>8, <3>2 DEF record
      <4>3. pc' \in [Threads -> Calls]
            BY <4>1, <4>2, GotoType
      <4>4. QED
            BY <4>2, <4>3 DEF Clear, TypeOK
    <3>3. QED
          BY <3>1, <3>2
  <2>3. QED
        BY <1>8, <2>1, <2>2 DEF record, Call, TypeOK
<1>9. ASSUME NEW t \in Threads, orEventRecord(t) PROVE TypeOK'
  <2> DEFINE e == pc[t].event
             h == pc[t].on
  <2>1. e \in Flags /\ h \in Addresses
        BY <1>9, CallKinds DEF orEventRecord, TypeOK
  <2>2. addTaskToStream(h, RecordTask(e))
        BY <1>9 DEF orEventRecord, RecordTask
  <2>3. queue' \in [Addresses -> Seq(WorkTasks)]
        BY <2>1, <2>2, QueueType, TaskKinds
  <2>4. pc' \in [Threads -> Calls]
        BY <1>9, <2>1, GotoType, CallsMade DEF orEventRecord
  <2>5. before' \in [Events -> SUBSET Nat]
        BY <1>9, <2>1, PendingType DEF orEventRecord, TypeOK
  <2>6. QED
        BY <1>9, <2>3, <2>4, <2>5 DEF orEventRecord, TypeOK
<1>10. ASSUME NEW t \in Threads, NEW e \in Events, block(t, e) PROVE TypeOK'
  <2>1. Current(t) \in Addresses /\ [op |-> "wait", event |-> e] \in WorkTasks
        BY <1>10, CurrentKnown, TaskKinds DEF block, Flags
  <2>2. queue' \in [Addresses -> Seq(WorkTasks)]
        BY <1>10, <2>1, QueueType DEF block
  <2>3. QED
    <3>1. ops' \in Nat /\ UNCHANGED <<poolVars, threadVars, completed, running, done, eventVars>>
          BY <1>10 DEF block, Call, TypeOK
    <3>2. QED
          BY <2>2, <3>1 DEF TypeOK
<1>11. ASSUME NEW t \in Threads, synchronizeStream(t) PROVE TypeOK'
  <2>1. [op |-> "record", event |-> t, on |-> Current(t)] \in Calls
        BY <1>11, CurrentKnown, CallsMade DEF synchronizeStream, Flags
  <2>2. pc' \in [Threads -> Calls]
        BY <1>11, <2>1, GotoType DEF synchronizeStream
  <2>3. QED
        BY <1>11, <2>2 DEF synchronizeStream, Call, Clear, Flags, TypeOK
<1>12. ASSUME NEW t \in Threads, NEW e \in Events, synchronizeEvent(t, e) PROVE TypeOK'
  <2>1. pc' \in [Threads -> Calls]
        BY <1>12, GotoType, CallsMade DEF synchronizeEvent, Flags
  <2>2. QED
    <3>1. ops' \in Nat /\ UNCHANGED <<poolVars, current, device, held, workVars, eventVars>>
          BY <1>12 DEF synchronizeEvent, Call, TypeOK
    <3>2. QED
          BY <2>1, <3>1 DEF TypeOK
<1>13. ASSUME NEW t \in Threads, Resume(t) PROVE TypeOK'
  <2>1. pc' \in [Threads -> Calls]
        BY <1>13, GotoType, CallsMade DEF Resume
  <2>2. QED
        BY <1>13, <2>1 DEF Resume, TypeOK
<1>14. ASSUME NEW h \in Addresses, Take(h) PROVE TypeOK'
  <2>1. queue[h] \in Seq(WorkTasks) /\ queue[h] # << >>
        BY <1>14 DEF Take, TypeOK
  <2>2. Head(queue[h]) \in WorkTasks /\ Tail(queue[h]) \in Seq(WorkTasks)
        BY <2>1
  <2>3. QED
        BY <1>14, <2>2 DEF Take, TypeOK
<1>15. ASSUME NEW h \in Addresses, Run(h) PROVE TypeOK'
  <2>1. running[h] \in WorkTasks \cup {NoTask}
        BY DEF TypeOK
  <2>2. done' \subseteq Nat /\ completed' \in [Flags -> BOOLEAN]
    <3>1. CASE running[h] = NoTask
          BY <1>15, <3>1 DEF Run, NoTask
    <3>2. CASE running[h] # NoTask /\ running[h].op = "work"
      <4>1. running[h].id \in Nat
            BY <2>1, <3>2, TaskKinds
      <4>2. done' = done \cup {running[h].id} /\ completed' = completed
            BY <1>15, <3>2 DEF Run
      <4>3. QED
            BY <4>1, <4>2 DEF TypeOK
    <3>3. CASE running[h].op = "record"
          BY <1>15, <3>3 DEF Run, TypeOK
    <3>4. CASE running[h].op = "wait"
          BY <1>15, <3>4 DEF Run, TypeOK
    <3>5. QED
          BY <1>15, <3>1, <3>2, <3>3, <3>4 DEF Run
  <2>3. QED
        BY <1>15, <2>2 DEF Run, TypeOK
<1>16. QED
      BY <1>1, <1>2, <1>3, <1>4, <1>5, <1>6, <1>7, <1>8, <1>9, <1>10, <1>11, <1>12,
         <1>13, <1>14, <1>15 DEF Next, Continue

-----------------------------------------------------------------------------
(* Creation and turns.                                                       *)

LEMMA PoolInit == Init => CreatedOnce /\ Dealt
<1> SUFFICES ASSUME Init PROVE CreatedOnce /\ Dealt
    OBVIOUS
<1>1. \A t \in Threads : pc[t].op # "create" /\ held[t].ticket = 0
      BY DEF Init, Idle, getStreamFromExternal
<1>2. \A d \in Devices : pool[d] = "none" /\ counter[d] = 0 /\ tickets[d] = 0
      BY DEF Init
<1>3. CreatedOnce
      BY <1>1, <1>2 DEF CreatedOnce
<1>4. Dealt
      BY <1>1, <1>2 DEF Dealt
<1>5. QED
      BY <1>3, <1>4

(* A step that leaves the pools and what was handed out alone. *)
LEMMA PoolFrame ==
  ASSUME CreatedOnce, Dealt, UNCHANGED poolVars, held' = held,
         \A u \in Threads : pc'[u].op = "create" => pc'[u] = pc[u]
  PROVE  CreatedOnce' /\ Dealt'
<1>1. /\ pool' = pool /\ streams' = streams /\ counter' = counter /\ tickets' = tickets
      BY DEF poolVars
<1>2. CreatedOnce'
  <2>1. ASSUME NEW t \in Threads, pc'[t].op = "create"
        PROVE  /\ pool'[pc'[t].on] = "creating"
               /\ \A i \in Places : i < pc'[t].i
                    => streams'[pc'[t].on][i] = Address(pc'[t].on, i)
        BY <1>1, <2>1 DEF CreatedOnce
  <2>2. ASSUME NEW t \in Threads, NEW u \in Threads, pc'[t].op = "create",
               pc'[u].op = "create", pc'[t].on = pc'[u].on
        PROVE  t = u
        BY <2>2 DEF CreatedOnce
  <2>3. QED
        BY <1>1, <2>1, <2>2 DEF CreatedOnce
<1>3. Dealt'
      BY <1>1 DEF Dealt
<1>4. QED
      BY <1>2, <1>3

(* The first thread that asks for a device's pool is the one that creates it. *)
LEMMA PoolGet ==
  ASSUME TypeOK, CreatedOnce, Dealt, NEW t \in Threads, NEW d \in Devices,
         GetStreamFromPool(t, d)
  PROVE  CreatedOnce' /\ Dealt'
<1> DEFINE c == [op |-> "create", on |-> d, i |-> 0]
<1>1. /\ pool[d] = "none" /\ pool' = [pool EXCEPT ![d] = "creating"]
      /\ streams' = streams /\ counter' = counter /\ tickets' = tickets /\ held' = held
      /\ Goto(t, c)
      BY DEF GetStreamFromPool
<1>2. pool'[d] = "creating" /\ \A e \in Devices : e # d => pool'[e] = pool[e]
      BY <1>1 DEF TypeOK
<1>3. pc'[t] = c /\ \A u \in Threads : u # t => pc'[u] = pc[u]
      BY <1>1, GotoType, CallsMade, FirstPlace
<1>4. \A u \in Threads : pc[u].op = "create" => pc[u].on \in Devices /\ pc[u].on # d
      BY <1>1, CallKinds DEF CreatedOnce, TypeOK
<1>5. \A i \in Places : ~(i < 0)
      BY PoolAssumption DEF Places
<1>6. ASSUME NEW u \in Threads, pc'[u].op = "create"
      PROVE  /\ pool'[pc'[u].on] = "creating"
             /\ \A i \in Places : i < pc'[u].i
                  => streams'[pc'[u].on][i] = Address(pc'[u].on, i)
  <2>1. CASE u = t
        BY <1>2, <1>3, <1>5, <2>1
  <2>2. CASE u # t
        BY <1>1, <1>2, <1>3, <1>4, <1>6, <2>2 DEF CreatedOnce
  <2>3. QED
        BY <2>1, <2>2
<1>7. ASSUME NEW u \in Threads, NEW v \in Threads, pc'[u].op = "create",
             pc'[v].op = "create", pc'[u].on = pc'[v].on
      PROVE  u = v
  <2>1. pc'[t].on = d
        BY <1>3
  <2>2. ASSUME NEW w \in Threads, w # t, pc'[w].op = "create" PROVE pc'[w].on # d
        BY <1>3, <1>4, <2>2
  <2>3. CASE u # t /\ v # t
        BY <1>3, <1>7, <2>3 DEF CreatedOnce
  <2>4. QED
        BY <1>7, <2>1, <2>2, <2>3
<1>8. ASSUME NEW e \in Devices
      PROVE  IF pool'[e] = "ready" THEN \A i \in Places : streams'[e][i] = Address(e, i)
             ELSE tickets'[e] = 0
      BY <1>1, <1>2 DEF CreatedOnce
<1>9. CreatedOnce'
      BY <1>6, <1>7, <1>8 DEF CreatedOnce
<1>10. Dealt'
  <2>1. \A u \in Threads : held[u].ticket > 0 => held[u].on # d
        BY <1>1 DEF Dealt
  <2>2. \A u \in Threads : held[u].on \in Devices
        BY DEF TypeOK
  <2>3. QED
        BY <1>1, <1>2, <2>1, <2>2 DEF Dealt
<1>11. QED
       BY <1>9, <1>10

(* A creation makes one stream after the other, and the last makes it ready. *)
LEMMA PoolCreate ==
  ASSUME TypeOK, CreatedOnce, Dealt, NEW t \in Threads, initSingleDeviceStream(t)
  PROVE  CreatedOnce' /\ Dealt'
<1> DEFINE d == pc[t].on
           i == pc[t].i
<1>1. /\ pc[t] \in Calls /\ pc[t].op = "create"
      /\ streams' = [streams EXCEPT ![d][i] = Address(d, i)]
      /\ counter' = [counter EXCEPT ![d] = 0]
      /\ tickets' = tickets /\ held' = held
      BY DEF initSingleDeviceStream, TypeOK
<1>2. d \in Devices /\ i \in Places
      BY <1>1, CallKinds
<1>3. /\ pool[d] = "creating" /\ tickets[d] = 0
      /\ \A j \in Places : j < i => streams[d][j] = Address(d, j)
      BY <1>1, <1>2 DEF CreatedOnce
<1>4. /\ streams'[d][i] = Address(d, i)
      /\ \A j \in Places : j # i => streams'[d][j] = streams[d][j]
      /\ \A e \in Devices : e # d => streams'[e] = streams[e]
  <2>1. streams \in [Devices -> [Places -> Addresses \cup {Null}]]
        BY DEF TypeOK
  <2>2. QED
        BY <1>1, <1>2, <2>1
<1>5. counter'[d] = 0 /\ \A e \in Devices : e # d => counter'[e] = counter[e]
      BY <1>1, <1>2 DEF TypeOK
<1>6. \A j \in Places : j < i + 1 => streams'[d][j] = Address(d, j)
  <2> SUFFICES ASSUME NEW j \in Places, j < i + 1 PROVE streams'[d][j] = Address(d, j)
      OBVIOUS
  <2>1. j < i \/ j = i
        BY <1>2, PoolAssumption DEF Places
  <2>2. QED
        BY <1>3, <1>4, <2>1
<1>7. \A u \in Threads : u # t /\ pc[u].op = "create" => pc[u].on # d /\ pc[u].on \in Devices
      BY <1>1, CallKinds DEF CreatedOnce, TypeOK
<1>8. PICK c \in Calls :
        /\ pc'[t] = c /\ \A u \in Threads : u # t => pc'[u] = pc[u]
        /\ \A e \in Devices : e # d => pool'[e] = pool[e]
        /\ \/ c.op = "create" /\ c.on = d /\ c.i = i + 1 /\ pool'[d] = "creating"
           \/ c.op = "take" /\ pool'[d] = "ready" /\ i + 1 = PoolSize
  <2>1. CASE i + 1 < PoolSize
    <3>1. /\ pool' = pool /\ Goto(t, [pc[t] EXCEPT !.i = i + 1])
          BY <2>1 DEF initSingleDeviceStream
    <3>2. /\ i + 1 \in Places
          /\ [pc[t] EXCEPT !.i = i + 1] = [op |-> "create", on |-> d, i |-> i + 1]
          BY <1>1, <2>1, NextPlace
    <3>3. [op |-> "create", on |-> d, i |-> i + 1] \in Calls
          BY <1>2, <3>2, CallsMade
    <3>4. /\ pc'[t] = [op |-> "create", on |-> d, i |-> i + 1]
          /\ \A u \in Threads : u # t => pc'[u] = pc[u]
          BY <3>1, <3>2, <3>3, GotoType
    <3>5. QED
          BY <1>3, <3>1, <3>3, <3>4
  <2>2. CASE ~(i + 1 < PoolSize)
    <3>1. /\ pool' = [pool EXCEPT ![d] = "ready"] /\ Goto(t, [op |-> "take", on |-> d])
          BY <2>2 DEF initSingleDeviceStream
    <3>2. pool'[d] = "ready" /\ \A e \in Devices : e # d => pool'[e] = pool[e]
          BY <1>2, <3>1 DEF TypeOK
    <3>3. [op |-> "take", on |-> d] \in Calls
          BY <1>2, CallsMade
    <3>4. /\ pc'[t] = [op |-> "take", on |-> d]
          /\ \A u \in Threads : u # t => pc'[u] = pc[u]
          BY <3>1, <3>3, GotoType
    <3>5. i + 1 = PoolSize
          BY <1>2, <2>2, PoolAssumption DEF Places
    <3>6. QED
          BY <3>2, <3>3, <3>4, <3>5
  <2>3. QED
        BY <2>1, <2>2
<1> HIDE DEF d, i
<1>9. ASSUME NEW u \in Threads, pc'[u].op = "create"
      PROVE  /\ pool'[pc'[u].on] = "creating"
             /\ \A j \in Places : j < pc'[u].i
                  => streams'[pc'[u].on][j] = Address(pc'[u].on, j)
  <2>1. CASE u = t
        BY <1>6, <1>8, <1>9, <2>1
  <2>2. CASE u # t
    <3>1. pc'[u] = pc[u] /\ pc[u].on # d /\ pc[u].on \in Devices
          BY <1>7, <1>8, <1>9, <2>2
    <3>2. pool'[pc[u].on] = pool[pc[u].on] /\ streams'[pc[u].on] = streams[pc[u].on]
          BY <1>4, <1>8, <3>1
    <3>3. QED
          BY <1>9, <3>1, <3>2 DEF CreatedOnce
  <2>3. QED
        BY <2>1, <2>2
<1>10. ASSUME NEW u \in Threads, NEW v \in Threads, pc'[u].op = "create",
             pc'[v].op = "create", pc'[u].on = pc'[v].on
       PROVE  u = v
  <2>1. CASE u # t /\ v # t
        BY <1>8, <1>10, <2>1 DEF CreatedOnce
  <2>2. CASE u # t /\ v = t
        BY <1>7, <1>8, <1>10, <2>2
  <2>3. CASE u = t /\ v # t
        BY <1>7, <1>8, <1>10, <2>3
  <2>4. QED
        BY <2>1, <2>2, <2>3
<1>11. ASSUME NEW e \in Devices
       PROVE  IF pool'[e] = "ready" THEN \A j \in Places : streams'[e][j] = Address(e, j)
              ELSE tickets'[e] = 0
  <2>1. CASE e # d
        BY <1>1, <1>4, <1>8, <2>1 DEF CreatedOnce
  <2>2. CASE e = d /\ pool'[d] = "ready"
    <3>1. i + 1 = PoolSize
          BY <1>8, <2>2
    <3>2. \A j \in Places : j < i + 1
          BY <3>1, PoolAssumption DEF Places
    <3>3. QED
          BY <1>6, <2>2, <3>2
  <2>3. CASE e = d /\ pool'[d] # "ready"
        BY <1>1, <1>3, <2>3
  <2>4. QED
        BY <2>1, <2>2, <2>3
<1>12. CreatedOnce'
       BY <1>9, <1>10, <1>11 DEF CreatedOnce
<1>13. Dealt'
  <2>1. \A u \in Threads : held[u].ticket > 0 => held[u].on # d /\ held[u].on \in Devices
        BY <1>3 DEF Dealt, TypeOK
  <2>2. \A e \in Devices : counter'[e] % PoolSize = tickets'[e] % PoolSize
        BY <1>1, <1>3, <1>5 DEF Dealt
  <2>3. QED
        BY <1>1, <1>8, <2>1, <2>2 DEF Dealt
<1>14. QED
       BY <1>12, <1>13

(* Every stream taken from a pool is the one of its turn. *)
LEMMA PoolTake ==
  ASSUME TypeOK, CreatedOnce, Dealt, NEW t \in Threads, NEW d \in Devices,
         TakeFromPool(t, d)
  PROVE  CreatedOnce' /\ Dealt'
<1> DEFINE n == tickets[d]
           h == [on |-> d, id |-> makeStreamId(DEFAULT, get_idx(d)), ticket |-> n + 1]
<1>1. /\ pool[d] = "ready" /\ pool' = pool /\ streams' = streams
      /\ counter' = [counter EXCEPT ![d] = (@ + 1) % CounterSize]
      /\ tickets' = [tickets EXCEPT ![d] = @ + 1]
      /\ held' = [held EXCEPT ![t] = h]
      BY DEF TakeFromPool, Hand
<1>2. \A u \in Threads : pc'[u].op = "create" => pc'[u] = pc[u]
  <2>1. CASE Goto(t, Idle)
        BY <2>1, GotoType, CallsMade DEF Idle
  <2>2. CASE UNCHANGED pc
        BY <2>2
  <2>3. QED
        BY <2>1, <2>2 DEF TakeFromPool
<1>3. n \in Nat /\ counter[d] \in 0 .. CounterSize - 1 /\ PoolSize \in Nat \ {0}
      BY PoolAssumption DEF TypeOK
<1>4. /\ tickets'[d] = n + 1 /\ counter'[d] = (counter[d] + 1) % CounterSize
      /\ \A e \in Devices : e # d => tickets'[e] = tickets[e] /\ counter'[e] = counter[e]
      BY <1>1 DEF TypeOK
<1>5. Rest(counter[d], PoolSize) = Rest(n, PoolSize)
      BY DEF Dealt, Rest
<1>6. Rest(counter'[d], PoolSize) = Rest(n + 1, PoolSize)
      BY <1>3, <1>4, <1>5, NextTurn
<1>7. \A e \in Devices : counter'[e] % PoolSize = tickets'[e] % PoolSize
  <2> TAKE e \in Devices
  <2>1. CASE e = d
        BY <1>4, <1>6, <2>1 DEF Rest
  <2>2. CASE e # d
        BY <1>4, <2>2 DEF Dealt
  <2>3. QED
        BY <2>1, <2>2
<1>8. h.on = d /\ h.id = makeStreamId(DEFAULT, (h.ticket - 1) % PoolSize)
  <2>1. h.ticket - 1 = n
        BY <1>3
  <2>2. get_idx(d) = n % PoolSize
        BY <1>5 DEF get_idx, Rest
  <2>3. QED
        BY <2>1, <2>2
<1>9. held'[t] = h /\ \A u \in Threads : u # t => held'[u] = held[u]
      BY <1>1 DEF TypeOK
<1> HIDE DEF h
<1>10. Dealt'
  <2>1. ASSUME NEW u \in Threads, held'[u].ticket > 0
        PROVE  /\ pool'[held'[u].on] = "ready"
               /\ held'[u].id = makeStreamId(DEFAULT, (held'[u].ticket - 1) % PoolSize)
    <3>1. CASE u = t
          BY <1>1, <1>8, <1>9, <3>1
    <3>2. CASE u # t
          BY <1>1, <1>9, <2>1, <3>2 DEF Dealt
    <3>3. QED
          BY <3>1, <3>2
  <2>2. QED
        BY <1>7, <2>1 DEF Dealt
<1>11. CreatedOnce'
  <2>1. ASSUME NEW u \in Threads, pc'[u].op = "create"
        PROVE  /\ pool'[pc'[u].on] = "creating"
               /\ \A i \in Places : i < pc'[u].i
                    => streams'[pc'[u].on][i] = Address(pc'[u].on, i)
        BY <1>1, <1>2, <2>1 DEF CreatedOnce
  <2>2. ASSUME NEW u \in Threads, NEW v \in Threads, pc'[u].op = "create",
               pc'[v].op = "create", pc'[u].on = pc'[v].on
        PROVE  u = v
        BY <1>2, <2>2 DEF CreatedOnce
  <2>3. ASSUME NEW e \in Devices
        PROVE  IF pool'[e] = "ready" THEN \A i \in Places : streams'[e][i] = Address(e, i)
               ELSE tickets'[e] = 0
        BY <1>1, <1>4 DEF CreatedOnce
  <2>4. QED
        BY <2>1, <2>2, <2>3 DEF CreatedOnce
<1>12. QED
       BY <1>10, <1>11

(* No step creates a pool twice or hands out a stream out of turn. *)
LEMMA PoolNext == TypeOK /\ CreatedOnce /\ Dealt /\ [Next]_vars => CreatedOnce' /\ Dealt'
<1> SUFFICES ASSUME TypeOK, CreatedOnce, Dealt, [Next]_vars PROVE CreatedOnce' /\ Dealt'
    OBVIOUS
<1> USE DEF threadVars, workVars, eventVars
<1>1. CASE UNCHANGED vars
      BY <1>1, PoolFrame DEF vars
<1>2. ASSUME NEW t \in Threads, NEW d \in Devices, GetStreamFromPool(t, d)
      PROVE  CreatedOnce' /\ Dealt'
      BY <1>2, PoolGet
<1>3. ASSUME NEW t \in Threads, initSingleDeviceStream(t) PROVE CreatedOnce' /\ Dealt'
      BY <1>3, PoolCreate
<1>4. ASSUME NEW t \in Threads, NEW d \in Devices, TakeFromPool(t, d)
      PROVE  CreatedOnce' /\ Dealt'
      BY <1>4, PoolTake
<1>5. ASSUME NEW t \in Threads, setCurrentOpenRegStream(t) PROVE CreatedOnce' /\ Dealt'
      BY <1>5, PoolFrame DEF setCurrentOpenRegStream
<1>6. ASSUME NEW t \in Threads, NEW d \in Devices, set_device(t, d)
      PROVE  CreatedOnce' /\ Dealt'
      BY <1>6, PoolFrame DEF set_device
<1>7. ASSUME NEW t \in Threads, Launch(t) PROVE CreatedOnce' /\ Dealt'
      BY <1>7, PoolFrame DEF Launch
<1>8. ASSUME NEW t \in Threads, NEW c, c.op # "create", Goto(t, c), UNCHANGED poolVars,
             held' = held
      PROVE  CreatedOnce' /\ Dealt'
  <2>1. \A u \in Threads : pc'[u].op = "create" => pc'[u] = pc[u]
        BY <1>8 DEF Goto, TypeOK
  <2>2. QED
        BY <1>8, <2>1, PoolFrame
<1>9. ASSUME NEW t \in Threads, NEW e \in Events, record(t, e) PROVE CreatedOnce' /\ Dealt'
  <2>1. CASE UNCHANGED pc
        BY <1>9, <2>1, PoolFrame DEF record
  <2>2. CASE Goto(t, [op |-> "record", event |-> e, on |-> Current(t)])
        BY <1>8, <1>9, <2>2 DEF record
  <2>3. QED
        BY <1>9, <2>1, <2>2 DEF record
<1>10. ASSUME NEW t \in Threads, orEventRecord(t) PROVE CreatedOnce' /\ Dealt'
  <2>1. CASE Goto(t, Idle)
        BY <1>8, <1>10, <2>1 DEF orEventRecord, Idle
  <2>2. CASE Goto(t, [op |-> "wait", event |-> pc[t].event])
        BY <1>8, <1>10, <2>2 DEF orEventRecord
  <2>3. QED
        BY <1>10, <2>1, <2>2 DEF orEventRecord
<1>11. ASSUME NEW t \in Threads, NEW e \in Events, block(t, e) PROVE CreatedOnce' /\ Dealt'
      BY <1>11, PoolFrame DEF block
<1>12. ASSUME NEW t \in Threads, synchronizeStream(t) PROVE CreatedOnce' /\ Dealt'
      BY <1>8, <1>12 DEF synchronizeStream
<1>13. ASSUME NEW t \in Threads, NEW e \in Events, synchronizeEvent(t, e)
       PROVE  CreatedOnce' /\ Dealt'
      BY <1>8, <1>13 DEF synchronizeEvent
<1>14. ASSUME NEW t \in Threads, Resume(t) PROVE CreatedOnce' /\ Dealt'
      BY <1>8, <1>14 DEF Resume, Idle
<1>15. ASSUME NEW h \in Addresses, Take(h) \/ Run(h) PROVE CreatedOnce' /\ Dealt'
      BY <1>15, PoolFrame DEF Take, Run
<1>16. QED
      BY <1>1, <1>2, <1>3, <1>4, <1>5, <1>6, <1>7, <1>9, <1>10, <1>11, <1>12, <1>13,
         <1>14, <1>15 DEF Next, Continue

-----------------------------------------------------------------------------
(* Records of events.                                                        *)

(* What a call that queues a task does to the places of the streams. *)
LEMMA AppendPlaces ==
  ASSUME TypeOK, NEW h \in Addresses, NEW x \in WorkTasks, addTaskToStream(h, x),
         running' = running
  PROVE  /\ \A g \in Addresses : Line(g) \subseteq Line(g)'
                                 /\ \A i \in Line(g) : At(g, i)' = At(g, i)
         /\ \A g \in Addresses : \A i \in Line(g)' \ Line(g) : g = h /\ At(h, i)' = x
         /\ \A i, j \in Line(h)' \ Line(h) : i = j
         /\ \A i \in Line(h)' \ Line(h) : \A j \in Line(h) : j < i
<1>1. PICK n \in Nat : queue[h] \in Seq(WorkTasks) /\ n = Len(queue[h])
      BY DEF TypeOK
<1>2. queue'[h] = Append(queue[h], x) /\ \A g \in Addresses : g # h => queue'[g] = queue[g]
      BY DEF addTaskToStream, TypeOK
<1>3. /\ Len(queue'[h]) = n + 1 /\ queue'[h][n + 1] = x
      /\ \A i \in 1 .. n : queue'[h][i] = queue[h][i]
      BY <1>1, <1>2
<1>4. Line(h) = 0 .. n /\ Line(h)' = 0 .. n + 1
      BY <1>1, <1>3 DEF Line
<1>5. At(h, n + 1)' = x
      BY <1>1, <1>3 DEF At
<1>6. \A i \in Line(h) : At(h, i)' = At(h, i)
  <2> TAKE i \in Line(h)
  <2>1. i = 0 \/ i \in 1 .. n
        BY <1>1, <1>4
  <2>2. QED
        BY <1>3, <2>1 DEF At
<1>7. Line(h) \subseteq Line(h)' /\ \A i \in Line(h)' \ Line(h) : i = n + 1
      BY <1>1, <1>4
<1>8. \A j \in Line(h) : j < n + 1
      BY <1>1, <1>4
<1>9. \A g \in Addresses : g # h => Line(g)' = Line(g) /\ \A i \in Line(g) : At(g, i)' = At(g, i)
      BY <1>2 DEF Line, At
<1>10. ASSUME NEW g \in Addresses
       PROVE  /\ Line(g) \subseteq Line(g)'
              /\ \A i \in Line(g) : At(g, i)' = At(g, i)
              /\ \A i \in Line(g)' \ Line(g) : g = h /\ At(h, i)' = x
  <2>1. CASE g = h
        BY <1>5, <1>6, <1>7, <2>1
  <2>2. CASE g # h
        BY <1>9, <2>2
  <2>3. QED
        BY <2>1, <2>2
<1>11. QED
       BY <1>7, <1>8, <1>10

(* A step that leaves an event, the streams' tasks and their order alone. *)
LEMMA RecordedFrame ==
  ASSUME NEW e \in Events, Recorded(e), queue' = queue, running' = running,
         completed'[e] = completed[e], before' = before, done' = done,
         \A u \in Threads : Recording(u, e)' => Recording(u, e)
  PROVE  Recorded(e)'
<1>1. \A h \in Addresses : Line(h)' = Line(h) /\ \A i \in Line(h) : At(h, i)' = At(h, i)
      BY DEF Line, At
<1>2. QED
      BY <1>1 DEF Recorded

(* A task of another kind is queued. *)
LEMMA RecordedAppend ==
  ASSUME TypeOK, NEW e \in Events, Recorded(e), NEW h \in Addresses, NEW x \in WorkTasks,
         x # RecordTask(e), addTaskToStream(h, x), running' = running,
         completed'[e] = completed[e], before'[e] = before[e], done' = done,
         \A u \in Threads : Recording(u, e)' => Recording(u, e)
  PROVE  Recorded(e)'
<1>1. /\ \A g \in Addresses : Line(g) \subseteq Line(g)'
                              /\ \A i \in Line(g) : At(g, i)' = At(g, i)
      /\ \A g \in Addresses : \A i \in Line(g)' \ Line(g) : g = h /\ At(h, i)' = x
      BY AppendPlaces
<1>2. \A g \in Addresses : \A i \in Line(g)' :
        At(g, i)' = RecordTask(e) => i \in Line(g) /\ At(g, i) = RecordTask(e)
      BY <1>1
<1>3. completed'[e] => /\ \A t \in Threads : ~Recording(t, e)'
                       /\ \A g \in Addresses : \A i \in Line(g)' : At(g, i)' # RecordTask(e)
                       /\ before'[e] \subseteq done'
      BY <1>2 DEF Recorded
<1>4. \A t \in Threads : Recording(t, e)' =>
        \A g \in Addresses : \A i \in Line(g)' : At(g, i)' # RecordTask(e)
      BY <1>2 DEF Recorded
<1>5. \A g, k \in Addresses : \A i \in Line(g)', j \in Line(k)' :
        At(g, i)' = RecordTask(e) /\ At(k, j)' = RecordTask(e) => g = k /\ i = j
      BY <1>2 DEF Recorded
<1>6. ASSUME NEW g \in Addresses, NEW i \in Line(g)', At(g, i)' = RecordTask(e),
             NEW w \in before'[e], w \notin done'
      PROVE  \E j \in Line(g)' : j < i /\ At(g, j)' = [op |-> "work", id |-> w]
  <2>1. i \in Line(g) /\ At(g, i) = RecordTask(e) /\ w \in before[e] /\ w \notin done
        BY <1>2, <1>6
  <2>2. PICK j \in Line(g) : j < i /\ At(g, j) = [op |-> "work", id |-> w]
        BY <2>1 DEF Recorded
  <2>3. QED
        BY <1>1, <2>2
<1>7. QED
      BY <1>3, <1>4, <1>5, <1>6 DEF Recorded, RecordTask

(* The task that sets an event's flag is queued: it is the only one, and the *)
(* work its stream had been given stands before it.                          *)
LEMMA RecordedQueued ==
  ASSUME TypeOK, TurnsTaken, NEW t \in Threads, orEventRecord(t), NEW e \in Events,
         pc[t].event = e, Recorded(e)
  PROVE  Recorded(e)'
<1> DEFINE x == RecordTask(e)
<1>1. PICK h \in Addresses : pc[t].op = "record" /\ h = pc[t].on /\ e \in Flags
      BY CallKinds DEF orEventRecord, TypeOK, Flags
<1>2. x \in WorkTasks /\ addTaskToStream(h, x)
      BY <1>1, TaskKinds DEF orEventRecord, RecordTask
<1>3. /\ before'[e] = Pending(h) /\ completed' = completed /\ done' = done
      /\ running' = running /\ Goto(t, Idle)
  <2>1. before' = [before EXCEPT ![e] = Pending(h)] /\ Goto(t, Idle)
        BY <1>1 DEF orEventRecord
  <2>2. before'[e] = Pending(h)
        BY <2>1 DEF TypeOK
  <2>3. completed' = completed /\ done' = done /\ running' = running
        BY DEF orEventRecord
  <2>4. QED
        BY <2>1, <2>2, <2>3
<1>4. Recording(t, e)
      BY <1>1 DEF Recording
<1>5. /\ ~completed[e]
      /\ \A g \in Addresses : \A i \in Line(g) : At(g, i) # RecordTask(e)
      BY <1>4 DEF Recorded
<1>6. \A u \in Threads : ~Recording(u, e)'
  <2> TAKE u \in Threads
  <2>1. pc'[t] = Idle /\ (u # t => pc'[u] = pc[u])
        BY <1>3, GotoType, CallsMade
  <2>2. CASE u = t
        BY <2>1, <2>2 DEF Recording, Idle
  <2>3. CASE u # t
        BY <1>4, <2>1, <2>3 DEF Recording, TurnsTaken
  <2>4. QED
        BY <2>2, <2>3
<1> HIDE DEF x
<1>7. /\ \A g \in Addresses : Line(g) \subseteq Line(g)'
                              /\ \A i \in Line(g) : At(g, i)' = At(g, i)
      /\ \A g \in Addresses : \A i \in Line(g)' \ Line(g) : g = h /\ At(h, i)' = x
      /\ \A i, j \in Line(h)' \ Line(h) : i = j
      /\ \A i \in Line(h)' \ Line(h) : \A j \in Line(h) : j < i
      BY <1>1, <1>2, <1>3, AppendPlaces
<1>8. \A g \in Addresses : \A i \in Line(g)' :
        At(g, i)' = RecordTask(e) => g = h /\ i \in Line(h)' \ Line(h)
      BY <1>5, <1>7
<1>9. \A g, k \in Addresses : \A i \in Line(g)', j \in Line(k)' :
        At(g, i)' = RecordTask(e) /\ At(k, j)' = RecordTask(e) => g = k /\ i = j
      BY <1>7, <1>8
<1>10. ASSUME NEW g \in Addresses, NEW i \in Line(g)', At(g, i)' = RecordTask(e),
              NEW w \in before'[e]
       PROVE  \E j \in Line(g)' : j < i /\ At(g, j)' = [op |-> "work", id |-> w]
  <2>1. g = h /\ i \in Line(h)' \ Line(h)
        BY <1>8, <1>10
  <2>2. PICK y \in Tasks(h) : y.op = "work" /\ y.id = w
        BY <1>3, <1>10 DEF Pending
  <2>3. PICK j \in Line(h) : At(h, j) = y
    <3>1. CASE y = running[h]
      <4>1. 0 \in Line(h) /\ At(h, 0) = y
            BY <1>1, <3>1 DEF Line, At, TypeOK
      <4>2. QED
            BY <4>1
    <3>2. CASE y \in {queue[h][i_1] : i_1 \in DOMAIN queue[h]}
      <4>1. queue[h] \in Seq(WorkTasks)
            BY <1>1 DEF TypeOK
      <4>2. PICK j \in 1 .. Len(queue[h]) : queue[h][j] = y
            BY <3>2, <4>1
      <4>3. j \in Line(h) /\ At(h, j) = y
            BY <4>1, <4>2 DEF Line, At
      <4>4. QED
            BY <4>3
    <3>3. QED
          BY <3>1, <3>2 DEF Tasks
  <2>4. y = [op |-> "work", id |-> w]
    <3>1. y \in WorkTasks \cup {NoTask}
          BY <1>1, <2>2 DEF Tasks, TypeOK
    <3>2. QED
          BY <2>2, <3>1 DEF WorkTasks, NoTask
  <2>5. QED
        BY <1>7, <2>1, <2>3, <2>4
<1>11. QED
       BY <1>3, <1>5, <1>6, <1>9, <1>10 DEF Recorded, RecordTask

(* A worker takes the first task: every task of its stream moves up. *)
LEMMA RecordedTake ==
  ASSUME TypeOK, NEW h \in Addresses, Take(h), NEW e \in Events, Recorded(e)
  PROVE  Recorded(e)'
<1>1. PICK n \in Nat : queue[h] \in Seq(WorkTasks) /\ n = Len(queue[h]) /\ n > 0
      BY DEF Take, TypeOK
<1>2. /\ running'[h] = queue[h][1] /\ queue'[h] = Tail(queue[h])
      /\ running[h] = NoTask
      /\ \A g \in Addresses : g # h => running'[g] = running[g] /\ queue'[g] = queue[g]
      BY <1>1 DEF Take, TypeOK
<1>3. /\ pc' = pc /\ completed' = completed /\ done' = done /\ before' = before
      BY DEF Take, threadVars, eventVars
<1>4. Len(queue'[h]) = n - 1 /\ \A i \in 1 .. n - 1 : queue'[h][i] = queue[h][i + 1]
      BY <1>1, <1>2
<1>5. Line(h) = 0 .. n /\ Line(h)' = 0 .. n - 1
      BY <1>1, <1>4 DEF Line
<1>6. \A i \in Line(h)' : i + 1 \in Line(h) /\ At(h, i)' = At(h, i + 1)
  <2> TAKE i \in Line(h)'
  <2>1. i = 0 \/ i \in 1 .. n - 1
        BY <1>5
  <2>2. i + 1 \in Line(h) /\ i + 1 # 0
        BY <1>5
  <2>3. QED
        BY <1>2, <1>4, <2>1, <2>2 DEF At
<1>7. \A g \in Addresses : g # h => Line(g)' = Line(g) /\ \A i \in Line(g) : At(g, i)' = At(g, i)
      BY <1>2 DEF Line, At
<1>8. \A g \in Addresses : \A i \in Line(g)' : i \in Int
      BY DEF Line
<1>9. completed'[e] => /\ \A t \in Threads : ~Recording(t, e)'
                       /\ \A g \in Addresses : \A i \in Line(g)' : At(g, i)' # RecordTask(e)
                       /\ before'[e] \subseteq done'
      BY <1>3, <1>6, <1>7 DEF Recorded, Recording
<1>10. \A t \in Threads : Recording(t, e)' =>
         \A g \in Addresses : \A i \in Line(g)' : At(g, i)' # RecordTask(e)
      BY <1>3, <1>6, <1>7 DEF Recorded, Recording
<1>11. ASSUME NEW g \in Addresses, NEW k \in Addresses, NEW i \in Line(g)', NEW j \in Line(k)',
              At(g, i)' = RecordTask(e), At(k, j)' = RecordTask(e)
       PROVE  g = k /\ i = j
  <2> DEFINE up(a, m) == IF a = h THEN m + 1 ELSE m
  <2>1. up(g, i) \in Line(g) /\ At(g, up(g, i)) = RecordTask(e)
        BY <1>6, <1>7, <1>11
  <2>2. up(k, j) \in Line(k) /\ At(k, up(k, j)) = RecordTask(e)
        BY <1>6, <1>7, <1>11
  <2>3. g = k /\ up(g, i) = up(k, j)
        BY <2>1, <2>2 DEF Recorded
  <2>4. i \in Int /\ j \in Int
        BY <1>8
  <2>5. QED
        BY <2>3, <2>4
<1>12. ASSUME NEW g \in Addresses, NEW i \in Line(g)', At(g, i)' = RecordTask(e),
              NEW w \in before'[e], w \notin done'
       PROVE  \E j \in Line(g)' : j < i /\ At(g, j)' = [op |-> "work", id |-> w]
  <2>1. CASE g # h
        BY <1>3, <1>7, <1>12, <2>1 DEF Recorded
  <2>2. CASE g = h
    <3>1. i + 1 \in Line(h) /\ At(h, i + 1) = RecordTask(e)
          BY <1>6, <1>12, <2>2
    <3>2. PICK j \in Line(h) : j < i + 1 /\ At(h, j) = [op |-> "work", id |-> w]
          BY <1>3, <1>12, <3>1 DEF Recorded
    <3>3. j # 0
          BY <1>2, <3>2 DEF At, NoTask
    <3>4. i \in 0 .. n - 1 /\ j \in 0 .. n
          BY <1>5, <2>2
    <3>5. j - 1 \in Line(h)' /\ j - 1 < i /\ (j - 1) + 1 = j
          BY <1>5, <3>2, <3>3, <3>4
    <3>6. At(h, j - 1)' = At(h, (j - 1) + 1)
          BY <1>6, <3>5
    <3>7. QED
          BY <2>2, <3>2, <3>5, <3>6
  <2>3. QED
        BY <2>1, <2>2
<1>13. QED
      BY <1>9, <1>10, <1>11, <1>12 DEF Recorded, RecordTask

(* A worker ends its task: work is done, and a record sets the flag of its   *)
(* event when the work before it is done.                                    *)
LEMMA RecordedRun ==
  ASSUME TypeOK, NEW h \in Addresses, Run(h), NEW e \in Events, Recorded(e)
  PROVE  Recorded(e)'
<1> DEFINE x == running[h]
<1>1. /\ x.op \in {"work", "record", "wait"} /\ x \in WorkTasks
      /\ running' = [running EXCEPT ![h] = NoTask] /\ queue' = queue
      /\ pc' = pc /\ before' = before /\ done \subseteq done'
  <2>1. x.op \in {"work", "record", "wait"} /\ done \subseteq done'
        BY DEF Run
  <2>2. x \in WorkTasks
        BY <2>1 DEF TypeOK, NoTask
  <2>3. QED
        BY <2>1, <2>2 DEF Run, threadVars, eventVars
<1>2. \A g \in Addresses : Line(g)' = Line(g) /\ 0 \in Line(g)
  <2> TAKE g \in Addresses
  <2>1. queue[g] \in Seq(WorkTasks)
        BY DEF TypeOK
  <2>2. QED
        BY <1>1, <2>1 DEF Line
<1>3. At(h, 0)' = NoTask /\ NoTask # RecordTask(e)
      BY <1>1 DEF At, NoTask, RecordTask, TypeOK
<1>4. \A g \in Addresses : \A i \in Line(g) : g # h \/ i # 0 => At(g, i)' = At(g, i)
      BY <1>1 DEF At, TypeOK
<1>5. At(h, 0) = x
      BY DEF At
<1>6. \A g \in Addresses : \A i \in Line(g)' :
        At(g, i)' = RecordTask(e) => i \in Line(g) /\ At(g, i) = RecordTask(e) /\ (g # h \/ i # 0)
      BY <1>2, <1>3, <1>4
<1>7. \A u \in Threads : Recording(u, e)' => Recording(u, e)
      BY <1>1 DEF Recording
<1>8. \A w : x = [op |-> "work", id |-> w] => w \in done'
      BY DEF Run
<1>9. x = RecordTask(e) \/ completed'[e] = completed[e]
  <2>1. CASE x.op = "record"
    <3>1. x = RecordTask(x.event) /\ x.event \in Flags
          BY <1>1, <2>1 DEF WorkTasks, RecordTask
    <3>2. completed' = [completed EXCEPT ![x.event] = TRUE]
          BY <2>1 DEF Run
    <3>3. QED
          BY <3>1, <3>2 DEF TypeOK, Flags
  <2>2. CASE x.op # "record"
        BY <2>2 DEF Run
  <2>3. QED
        BY <2>1, <2>2
<1> HIDE DEF x
<1>10. completed'[e] => /\ \A t \in Threads : ~Recording(t, e)'
                        /\ \A g \in Addresses : \A i \in Line(g)' : At(g, i)' # RecordTask(e)
                        /\ before'[e] \subseteq done'
  <2>1. CASE x # RecordTask(e)
        BY <1>1, <1>6, <1>7, <1>9, <2>1 DEF Recorded
  <2>2. CASE x = RecordTask(e)
    <3>1. At(h, 0) = RecordTask(e) /\ 0 \in Line(h)
          BY <1>2, <1>5, <2>2
    <3>2. \A t \in Threads : ~Recording(t, e)
          BY <3>1 DEF Recorded
    <3>3. \A g \in Addresses : \A i \in Line(g) : At(g, i) = RecordTask(e) => g = h /\ i = 0
          BY <3>1 DEF Recorded
    <3>4. \A j \in Line(h) : ~(j < 0)
          BY DEF Line
    <3>5. before[e] \subseteq done
          BY <3>1, <3>4 DEF Recorded
    <3>6. QED
          BY <1>1, <1>6, <1>7, <3>2, <3>3, <3>5
  <2>3. QED
        BY <2>1, <2>2
<1>11. \A t \in Threads : Recording(t, e)' =>
         \A g \in Addresses : \A i \in Line(g)' : At(g, i)' # RecordTask(e)
      BY <1>6, <1>7 DEF Recorded
<1>12. \A g, k \in Addresses : \A i \in Line(g)', j \in Line(k)' :
         At(g, i)' = RecordTask(e) /\ At(k, j)' = RecordTask(e) => g = k /\ i = j
      BY <1>6 DEF Recorded
<1>13. ASSUME NEW g \in Addresses, NEW i \in Line(g)', At(g, i)' = RecordTask(e),
              NEW w \in before'[e], w \notin done'
       PROVE  \E j \in Line(g)' : j < i /\ At(g, j)' = [op |-> "work", id |-> w]
  <2>1. i \in Line(g) /\ At(g, i) = RecordTask(e) /\ w \in before[e] /\ w \notin done
        BY <1>1, <1>6, <1>13
  <2>2. PICK j \in Line(g) : j < i /\ At(g, j) = [op |-> "work", id |-> w]
        BY <2>1 DEF Recorded
  <2>3. ~(g = h /\ j = 0)
        BY <1>5, <1>8, <1>13, <2>2
  <2>4. QED
        BY <1>2, <1>4, <2>2, <2>3
<1>14. QED
      BY <1>10, <1>11, <1>12, <1>13 DEF Recorded, RecordTask

(* An event that is recorded for the first time, or again after it has       *)
(* completed, has no record under way but the one that begins.               *)
LEMMA RecordedBegins ==
  ASSUME TypeOK, NEW t \in Threads, NEW e \in Events, record(t, e), Recorded(e),
         e \notin overlapped'
  PROVE  Recorded(e)'
<1>1. /\ queue' = queue /\ running' = running /\ done' = done /\ before' = before
      BY DEF record
<1>2. CASE UNCHANGED <<pc, completed, overlapped, overtaken>>
  <2>1. completed' = completed /\ pc' = pc
        BY <1>2
  <2>2. \A u \in Threads : Recording(u, e)' => Recording(u, e)
        BY <2>1 DEF Recording
  <2>3. QED
        BY <1>1, <2>1, <2>2, RecordedFrame
<1>3. CASE ~UNCHANGED <<pc, completed, overlapped, overtaken>>
  <2>1. completed[e] /\ completed' = [completed EXCEPT ![e] = FALSE]
        BY <1>3 DEF record, Clear
  <2>2. ~completed'[e]
        BY <2>1 DEF TypeOK, Flags
  <2>3. \A h \in Addresses : Line(h)' = Line(h) /\ \A i \in Line(h) : At(h, i)' = At(h, i)
        BY <1>1 DEF Line, At
  <2>4. \A h \in Addresses : \A i \in Line(h) : At(h, i) # RecordTask(e)
        BY <2>1 DEF Recorded
  <2>5. \A h \in Addresses : \A i \in Line(h)' : At(h, i)' # RecordTask(e)
        BY <2>3, <2>4
  <2>6. QED
        BY <2>2, <2>5 DEF Recorded, RecordTask
<1>4. QED
      BY <1>2, <1>3

(* A thread that goes on elsewhere begins no record of the event. *)
LEMMA NoNewRecord ==
  ASSUME TypeOK, NEW t \in Threads, NEW c \in Calls, Goto(t, c), NEW e \in Events,
         c.op = "record" => c.event # e
  PROVE  \A u \in Threads : Recording(u, e)' => Recording(u, e)
<1> TAKE u \in Threads
<1>1. pc'[t] = c /\ (u # t => pc'[u] = pc[u])
      BY GotoType
<1>2. QED
      BY <1>1 DEF Recording

(* A thread's own event is none of those the threads share. *)
LEMMA OwnEvent == \A t \in Threads, e \in Events : t # e
  BY PoolAssumption

LEMMA TurnsNext == TypeOK /\ TurnsTaken /\ [Next]_vars => TurnsTaken'
<1> SUFFICES ASSUME TypeOK, TurnsTaken, [Next]_vars, NEW e \in Events,
                    NEW u \in Threads, NEW v \in Threads, Recording(u, e)', Recording(v, e)'
             PROVE  u = v
    BY DEF TurnsTaken
<1> USE DEF poolVars, threadVars, workVars, eventVars
<1>1. CASE \A w \in Threads : Recording(w, e)' => Recording(w, e)
      BY <1>1 DEF TurnsTaken
<1>2. CASE UNCHANGED pc
      BY <1>1, <1>2 DEF Recording
<1>3. ASSUME NEW t \in Threads, NEW c \in Calls, Goto(t, c), c.op # "record" PROVE u = v
      BY <1>1, <1>3, NoNewRecord
<1>4. ASSUME NEW t \in Threads, initSingleDeviceStream(t) PROVE u = v
  <2>1. \A w \in Threads : w # t => pc'[w] = pc[w]
        BY <1>4 DEF initSingleDeviceStream, Goto, TypeOK
  <2>2. pc'[t].op # "record"
    <3>1. pc[t] \in Calls /\ pc[t].op = "create" /\ pc[t].on \in Devices
          BY <1>4, CallKinds DEF initSingleDeviceStream, TypeOK
    <3>2. CASE pc[t].i + 1 < PoolSize
      <4>1. [pc[t] EXCEPT !.i = pc[t].i + 1].op = "create"
            BY <3>1, <3>2, NextPlace
      <4>2. pc' = [pc EXCEPT ![t] = [pc[t] EXCEPT !.i = pc[t].i + 1]]
            BY <1>4, <3>2 DEF initSingleDeviceStream, Goto
      <4>3. pc'[t] = [pc[t] EXCEPT !.i = pc[t].i + 1]
            BY <4>2 DEF TypeOK
      <4>4. QED
            BY <4>1, <4>3
    <3>3. CASE ~(pc[t].i + 1 < PoolSize)
      <4>1. pc' = [pc EXCEPT ![t] = [op |-> "take", on |-> pc[t].on]]
            BY <1>4, <3>3 DEF initSingleDeviceStream, Goto
      <4>2. pc'[t] = [op |-> "take", on |-> pc[t].on]
            BY <4>1 DEF TypeOK
      <4>3. QED
            BY <4>2
    <3>4. QED
          BY <3>2, <3>3
  <2>3. QED
        BY <1>1, <2>1, <2>2 DEF Recording
<1>5. ASSUME NEW t \in Threads, NEW f \in Events, record(t, f) PROVE u = v
  <2>1. CASE UNCHANGED pc
        BY <1>2, <2>1
  <2>2. CASE ~UNCHANGED pc
    <3>1. Current(t) # Null /\ Goto(t, [op |-> "record", event |-> f, on |-> Current(t)])
          BY <1>5, <2>2 DEF record
    <3>2. [op |-> "record", event |-> f, on |-> Current(t)] \in Calls
          BY <3>1, CurrentKnown, CallsMade DEF Flags
    <3>3. CASE f # e
          BY <1>1, <3>1, <3>2, <3>3, NoNewRecord
    <3>4. CASE f = e
      <4>1. \A w \in Threads : ~Recording(w, e)
            BY <1>5, <3>4 DEF record, Free, Recording
      <4>2. \A w \in Threads : w # t => pc'[w] = pc[w]
            BY <3>1, <3>2, GotoType
      <4>3. QED
            BY <4>1, <4>2 DEF Recording
    <3>5. QED
          BY <3>3, <3>4
  <2>3. QED
        BY <2>1, <2>2
<1>6. ASSUME NEW t \in Threads, orEventRecord(t) PROVE u = v
  <2>1. pc[t].event \in Flags
        BY <1>6, CallKinds DEF orEventRecord, TypeOK
  <2>2. QED
        BY <1>3, <1>6, <2>1, CallsMade DEF orEventRecord, Idle
<1>7. ASSUME NEW t \in Threads, synchronizeStream(t) PROVE u = v
  <2>1. [op |-> "record", event |-> t, on |-> Current(t)] \in Calls
        BY <1>7, CurrentKnown, CallsMade DEF synchronizeStream, Flags
  <2>2. QED
        BY <1>1, <1>7, <2>1, NoNewRecord, OwnEvent DEF synchronizeStream
<1>8. ASSUME NEW t \in Threads, NEW d \in Devices, GetStreamFromPool(t, d) PROVE u = v
      BY <1>3, <1>8, CallsMade, FirstPlace DEF GetStreamFromPool
<1>9. ASSUME NEW t \in Threads, NEW d \in Devices, TakeFromPool(t, d) PROVE u = v
      BY <1>2, <1>3, <1>9, CallsMade DEF TakeFromPool, Idle
<1>10. ASSUME NEW t \in Threads, NEW f \in Events, synchronizeEvent(t, f) PROVE u = v
      BY <1>3, <1>10, CallsMade DEF synchronizeEvent, Flags
<1>11. ASSUME NEW t \in Threads, Resume(t) PROVE u = v
      BY <1>3, <1>11, CallsMade DEF Resume, Idle
<1>12. QED
      BY <1>2, <1>4, <1>5, <1>6, <1>7, <1>8, <1>9, <1>10, <1>11
      DEF Next, Continue, vars, setCurrentOpenRegStream, set_device, Launch, block, Take, Run

(* Every step keeps the record of an event that is not recorded again before *)
(* it has completed.                                                         *)
LEMMA RecordedNext ==
  ASSUME TypeOK, TurnsTaken, [Next]_vars, NEW e \in Events, Recorded(e), e \notin overlapped'
  PROVE  Recorded(e)'
<1> USE DEF poolVars, threadVars, workVars, eventVars
<1>1. CASE /\ queue' = queue /\ running' = running /\ done' = done /\ before' = before
           /\ completed'[e] = completed[e]
           /\ \A u \in Threads : Recording(u, e)' => Recording(u, e)
      BY <1>1, RecordedFrame
<1>2. ASSUME UNCHANGED <<workVars, pc, before>> PROVE Recorded(e)'
      BY <1>1, <1>2 DEF Recording
<1>3. ASSUME NEW t \in Threads, NEW c \in Calls, Goto(t, c), c.op # "record",
             UNCHANGED <<workVars, before>>
      PROVE  Recorded(e)'
      BY <1>1, <1>3, NoNewRecord
<1>4. ASSUME NEW t \in Threads, initSingleDeviceStream(t) PROVE Recorded(e)'
  <2>1. pc[t] \in Calls /\ pc[t].op = "create" /\ pc[t].on \in Devices
        BY <1>4, CallKinds DEF initSingleDeviceStream, TypeOK
  <2>2. UNCHANGED <<workVars, before>>
        BY <1>4 DEF initSingleDeviceStream
  <2>3. CASE pc[t].i + 1 < PoolSize
    <3>1. Goto(t, [pc[t] EXCEPT !.i = pc[t].i + 1])
          BY <1>4, <2>3 DEF initSingleDeviceStream
    <3>2. /\ pc[t].i + 1 \in Places
          /\ [pc[t] EXCEPT !.i = pc[t].i + 1]
               = [op |-> "create", on |-> pc[t].on, i |-> pc[t].i + 1]
          BY <2>1, <2>3, NextPlace
    <3>3. [op |-> "create", on |-> pc[t].on, i |-> pc[t].i + 1] \in Calls
          BY <2>1, <3>2, CallsMade
    <3>4. QED
          BY <1>3, <2>2, <3>1, <3>2, <3>3
  <2>4. CASE ~(pc[t].i + 1 < PoolSize)
    <3>1. Goto(t, [op |-> "take", on |-> pc[t].on])
          BY <1>4, <2>4 DEF initSingleDeviceStream
    <3>2. QED
          BY <1>3, <2>1, <2>2, <3>1, CallsMade
  <2>5. QED
        BY <2>3, <2>4
<1>5. ASSUME NEW t \in Threads, Launch(t) PROVE Recorded(e)'
  <2>1. Current(t) \in Addresses /\ [op |-> "work", id |-> ops] \in WorkTasks
        BY <1>5, CurrentKnown, TaskKinds DEF Launch, TypeOK
  <2>2. [op |-> "work", id |-> ops] # RecordTask(e)
        BY DEF RecordTask
  <2>3. /\ addTaskToStream(Current(t), [op |-> "work", id |-> ops])
        /\ UNCHANGED <<pc, completed, running, done, before>>
        BY <1>5 DEF Launch
  <2>4. QED
        BY <2>1, <2>2, <2>3, RecordedAppend DEF Recording
<1>6. ASSUME NEW t \in Threads, NEW f \in Events, block(t, f) PROVE Recorded(e)'
  <2>1. Current(t) \in Addresses /\ [op |-> "wait", event |-> f] \in WorkTasks
        BY <1>6, CurrentKnown, TaskKinds DEF block, Flags
  <2>2. [op |-> "wait", event |-> f] # RecordTask(e)
        BY DEF RecordTask
  <2>3. /\ addTaskToStream(Current(t), [op |-> "wait", event |-> f])
        /\ UNCHANGED <<pc, completed, running, done, before>>
        BY <1>6 DEF block
  <2>4. QED
        BY <2>1, <2>2, <2>3, RecordedAppend DEF Recording
<1>7. ASSUME NEW t \in Threads, NEW f \in Events, record(t, f) PROVE Recorded(e)'
  <2>1. CASE f = e
        BY <1>7, <2>1, RecordedBegins
  <2>2. CASE f # e
    <3>1. CASE UNCHANGED <<pc, completed, overlapped, overtaken>>
          BY <1>2, <1>7, <3>1 DEF record
    <3>2. CASE ~UNCHANGED <<pc, completed, overlapped, overtaken>>
      <4>1. /\ Current(t) # Null
            /\ Goto(t, [op |-> "record", event |-> f, on |-> Current(t)])
            /\ completed' = [completed EXCEPT ![f] = FALSE]
            /\ queue' = queue /\ running' = running /\ done' = done /\ before' = before
            BY <1>7, <3>2 DEF record, Clear
      <4>2. [op |-> "record", event |-> f, on |-> Current(t)] \in Calls
            BY <4>1, CurrentKnown, CallsMade DEF Flags
      <4>3. \A u \in Threads : Recording(u, e)' => Recording(u, e)
            BY <2>2, <4>1, <4>2, NoNewRecord
      <4>4. completed'[e] = completed[e]
            BY <2>2, <4>1 DEF TypeOK, Flags
      <4>5. QED
            BY <1>1, <4>1, <4>3, <4>4
    <3>3. QED
          BY <3>1, <3>2
  <2>3. QED
        BY <2>1, <2>2
<1>8. ASSUME NEW t \in Threads, orEventRecord(t) PROVE Recorded(e)'
  <2>1. CASE pc[t].event = e
        BY <1>8, <2>1, RecordedQueued
  <2>2. CASE pc[t].event # e
    <3>1. pc[t].event \in Flags /\ pc[t].on \in Addresses
          BY <1>8, CallKinds DEF orEventRecord, TypeOK
    <3>2. RecordTask(pc[t].event) \in WorkTasks /\ RecordTask(pc[t].event) # RecordTask(e)
          BY <2>2, <3>1, TaskKinds DEF RecordTask
    <3>3. /\ addTaskToStream(pc[t].on, RecordTask(pc[t].event))
          /\ UNCHANGED <<completed, running, done>>
          BY <1>8 DEF orEventRecord, RecordTask
    <3>4. before'[e] = before[e]
          BY <1>8, <2>2 DEF orEventRecord, TypeOK
    <3>5. \A u \in Threads : Recording(u, e)' => Recording(u, e)
          BY <1>8, <3>1, NoNewRecord, CallsMade DEF orEventRecord, Idle
    <3>6. QED
          BY <3>1, <3>2, <3>3, <3>4, <3>5, RecordedAppend
  <2>3. QED
        BY <2>1, <2>2
<1>9. ASSUME NEW t \in Threads, synchronizeStream(t) PROVE Recorded(e)'
  <2>1. [op |-> "record", event |-> t, on |-> Current(t)] \in Calls
        BY <1>9, CurrentKnown, CallsMade DEF synchronizeStream, Flags
  <2>2. /\ Goto(t, [op |-> "record", event |-> t, on |-> Current(t)])
        /\ completed' = [completed EXCEPT ![t] = FALSE]
        /\ queue' = queue /\ running' = running /\ done' = done /\ before' = before
        BY <1>9 DEF synchronizeStream, Clear
  <2>3. completed'[e] = completed[e]
        BY <2>2, OwnEvent DEF TypeOK, Flags
  <2>4. \A u \in Threads : Recording(u, e)' => Recording(u, e)
        BY <2>1, <2>2, NoNewRecord, OwnEvent
  <2>5. QED
        BY <1>1, <2>2, <2>3, <2>4
<1>10. ASSUME NEW t \in Threads, NEW d \in Devices, GetStreamFromPool(t, d) PROVE Recorded(e)'
      BY <1>3, <1>10, CallsMade, FirstPlace DEF GetStreamFromPool
<1>11. ASSUME NEW t \in Threads, NEW d \in Devices, TakeFromPool(t, d) PROVE Recorded(e)'
      BY <1>2, <1>3, <1>11, CallsMade DEF TakeFromPool, Idle
<1>12. ASSUME NEW t \in Threads, NEW f \in Events, synchronizeEvent(t, f) PROVE Recorded(e)'
      BY <1>3, <1>12, CallsMade DEF synchronizeEvent, Flags
<1>13. ASSUME NEW t \in Threads, Resume(t) PROVE Recorded(e)'
      BY <1>3, <1>13, CallsMade DEF Resume, Idle
<1>14. ASSUME NEW h \in Addresses, Take(h) PROVE Recorded(e)'
      BY <1>14, RecordedTake
<1>15. ASSUME NEW h \in Addresses, Run(h) PROVE Recorded(e)'
      BY <1>15, RecordedRun
<1>16. ASSUME NEW t \in Threads, setCurrentOpenRegStream(t) PROVE Recorded(e)'
      BY <1>2, <1>16 DEF setCurrentOpenRegStream
<1>17. ASSUME NEW t \in Threads, NEW d \in Devices, set_device(t, d) PROVE Recorded(e)'
      BY <1>2, <1>17 DEF set_device
<1>18. CASE UNCHANGED vars
      BY <1>2, <1>18 DEF vars
<1>19. QED
      BY <1>4, <1>5, <1>6, <1>7, <1>8, <1>9, <1>10, <1>11, <1>12, <1>13, <1>14, <1>15,
         <1>16, <1>17, <1>18 DEF Next, Continue

-----------------------------------------------------------------------------
(* The theorems.                                                             *)

LEMMA InitInvariant == Init => IInv
<1> SUFFICES ASSUME Init PROVE IInv
    OBVIOUS
<1>1. TypeOK /\ CreatedOnce /\ Dealt
      BY TypeInit, PoolInit
<1>2. \A t \in Threads, e \in Events : ~Recording(t, e)
      BY DEF Init, Recording, Idle
<1>3. \A h \in Addresses : \A i \in Line(h) : i = 0 /\ At(h, i) = NoTask
      BY DEF Init, Line, At
<1>4. \A e \in Events : RecordTask(e) # NoTask /\ before[e] = {}
      BY DEF Init, RecordTask, NoTask
<1>5. QED
      BY <1>1, <1>2, <1>3, <1>4 DEF IInv, TurnsTaken, Recorded

LEMMA NextInvariant == IInv /\ [Next]_vars => IInv'
<1> SUFFICES ASSUME IInv, [Next]_vars PROVE IInv'
    OBVIOUS
<1>1. TypeOK' /\ CreatedOnce' /\ Dealt' /\ TurnsTaken'
      BY TypeNext, PoolNext, TurnsNext DEF IInv
<1>2. overlapped \subseteq overlapped'
  <2>1. ASSUME NEW t \in Threads, NEW e \in Events, record(t, e)
        PROVE  overlapped \subseteq overlapped'
        BY <2>1 DEF record
  <2>2. ASSUME NEW t \in Threads, NEW e \in Events, block(t, e) \/ synchronizeEvent(t, e)
        PROVE  overlapped' = overlapped
        BY <2>2 DEF block, synchronizeEvent, eventVars
  <2>3. ASSUME NEW t \in Threads, NEW d \in Devices,
               GetStreamFromPool(t, d) \/ TakeFromPool(t, d) \/ set_device(t, d)
        PROVE  overlapped' = overlapped
        BY <2>3 DEF GetStreamFromPool, TakeFromPool, set_device, eventVars
  <2>4. ASSUME NEW t \in Threads,
               initSingleDeviceStream(t) \/ orEventRecord(t) \/ Resume(t)
        PROVE  overlapped' = overlapped
        BY <2>4 DEF initSingleDeviceStream, orEventRecord, Resume, eventVars
  <2>5. ASSUME NEW t \in Threads,
               setCurrentOpenRegStream(t) \/ Launch(t) \/ synchronizeStream(t)
        PROVE  overlapped' = overlapped
        BY <2>5 DEF setCurrentOpenRegStream, Launch, synchronizeStream, eventVars
  <2>6. ASSUME NEW h \in Addresses, Take(h) \/ Run(h) PROVE overlapped' = overlapped
        BY <2>6 DEF Take, Run, eventVars
  <2>7. CASE UNCHANGED vars
        BY <2>7 DEF vars, eventVars
  <2>8. QED
        BY <2>1, <2>2, <2>3, <2>4, <2>5, <2>6, <2>7 DEF Next, Continue
<1>3. ASSUME NEW e \in Events \ overlapped' PROVE Recorded(e)'
      BY <1>2, RecordedNext DEF IInv
<1>4. QED
      BY <1>1, <1>3 DEF IInv

(* The inductive invariant holds of every reachable state: a device's pool   *)
(* is created by one thread, a stream handed out is the one of its turn, and *)
(* an event not recorded again before it has completed has one record.       *)
THEOREM PoolInvariant == Spec => []IInv
  BY InitInvariant, NextInvariant, PTL DEF Spec

(* getStreamFromPool deals a pool's streams in rounds, for any pool size and *)
(* any number of devices, threads and calls, across the wrap of its counter: *)
(* two streams handed out are the same exactly when the pool has gone round  *)
(* between them, and none is missing or taken for one made elsewhere.        *)
THEOREM PoolGoesRound == Spec => []StreamsAreDealtRound
<1>1. IInv => StreamsAreDealtRound
  <2> SUFFICES ASSUME IInv, NEW t \in Threads, NEW u \in Threads,
                      held[t].ticket > 0, held[u].ticket > 0
               PROVE  LET a == stream(held[t].on, held[t].id)
                          b == stream(held[u].on, held[u].id) IN
                      /\ a \notin {Null, External}
                      /\ a = b <=> held[t].on = held[u].on
                                   /\ (held[t].ticket - held[u].ticket) % PoolSize = 0
      BY DEF StreamsAreDealtRound
  <2> DEFINE turn(v) == Rest(held[v].ticket - 1, PoolSize)
  <2>1. ASSUME NEW v \in Threads, held[v].ticket > 0
        PROVE  /\ held[v].on \in Devices /\ held[v].ticket \in Nat \ {0}
               /\ turn(v) \in Places
               /\ stream(held[v].on, held[v].id) = Address(held[v].on, turn(v))
    <3>1. held[v].on \in Devices /\ held[v].ticket \in Nat \ {0}
          BY <2>1 DEF IInv, TypeOK
    <3>2. held[v].ticket - 1 \in Int /\ PoolSize \in Nat \ {0}
          BY <3>1, PoolAssumption
    <3>3. turn(v) \in Places
          BY <3>2, Division DEF Places
    <3>4. /\ pool[held[v].on] = "ready"
          /\ held[v].id = makeStreamId(DEFAULT, turn(v))
          BY <2>1 DEF IInv, Dealt, Rest
    <3>5. stream(held[v].on, held[v].id) = streams[held[v].on][turn(v)]
          BY <3>3, <3>4, NumberDecodes DEF stream, DEFAULT, EXT
    <3>6. streams[held[v].on][turn(v)] = Address(held[v].on, turn(v))
          BY <3>1, <3>3, <3>4 DEF IInv, CreatedOnce
    <3>7. QED
          BY <3>1, <3>3, <3>5, <3>6
  <2>2. turn(t) = turn(u) <=> Rest(held[t].ticket - held[u].ticket, PoolSize) = 0
    <3>1. held[t].ticket \in Int /\ held[u].ticket \in Int /\ PoolSize \in Nat \ {0}
          BY <2>1, PoolAssumption
    <3>2. QED
          BY <3>1, SameTurn
  <2> HIDE DEF turn
  <2>3. QED
        BY <2>1, <2>2, AddressInjective DEF Rest
<1>2. QED
      BY <1>1, PoolInvariant, PTL

(* When the flag of an event is set, all the work its stream had been given  *)
(* before the event was recorded has run, for any threads, streams and       *)
(* events; save for an event recorded again before it had completed.         *)
THEOREM EventsOrderWork == Spec => []EventFollowsWork
<1>1. IInv => EventFollowsWork
      BY DEF IInv, Recorded, EventFollowsWork
<1>2. QED
      BY <1>1, PoolInvariant, PTL
=============================================================================
