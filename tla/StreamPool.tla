----------------------------- MODULE StreamPool -----------------------------
(* The streams and events the device runtime exports to C++ (namespace       *)
(* c10::openreg): a pool of streams for every device, created by the first   *)
(* thread that asks for one and handed out round robin; for every thread a   *)
(* current stream on each device; and events that order the work of one      *)
(* stream after that of another. A stream is known by a number that packs    *)
(* its kind and its place in the pool, or by its address when it was made    *)
(* elsewhere; a worker thread runs what is queued on it, in order.           *)
(*                                                                           *)
(* Not modelled: devices other than by index (a device's streams share the   *)
(* workers' code), priorities (there is one level), elapsed times, the end   *)
(* of a stream, and asking for the default stream, which is the pool's first *)
(* and every thread's current one until it sets another.                     *)
EXTENDS Integers, Sequences, FiniteSets

CONSTANTS
  Threads,      \* the host threads
  Devices,      \* the device indices, 0 among them
  Events,       \* the events the threads share
  PoolSize,     \* kStreamsPerPool
  CounterSize,  \* 2^32, the values of a pool's counter
  MaxOps        \* the calls the threads make, all together

ASSUME PoolAssumption ==
  /\ Devices \subseteq Nat /\ 0 \in Devices /\ PoolSize \in Nat \ {0}
  /\ CounterSize \in Nat \ {0} /\ CounterSize % PoolSize = 0
  /\ Threads \cap Events = {}            \* a thread's own event is no other's

VARIABLES
  pool,        \* device_flags: "none", "creating" or "ready", by device
  streams,     \* the address of each stream of each pool, 0 before it exists
  counter,     \* priority_counters, by device
  current,     \* current_streams: for each thread and device a stream's number
  device,      \* gCurrentDevice: the current device of each thread
  pc,          \* what each thread does now
  held,        \* the stream each thread was handed last, with its ticket
  event,       \* is_created_ and device_index_ of each event
  completed,   \* the flag of each event, and of each thread's own one
  queue,       \* tasks: by address
  running,     \* the task a stream's worker runs, by address
  ops,         \* the calls made
  tickets,     \* the streams each pool has handed out
  done,        \* the work the workers have done
  before,      \* for each event, the work queued before its last record
  overlapped,  \* the events recorded again before they had completed
  overtaken    \* the events recorded while a stream had still to wait for them

poolVars == <<pool, streams, counter, tickets>>
threadVars == <<current, device, pc, held>>
workVars == <<completed, queue, running, done>>
eventVars == <<event, before, overlapped, overtaken>>
vars == <<poolVars, threadVars, workVars, eventVars, ops>>

(* ---- numbers of streams ------------------------------------------------- *)

DEFAULT == 0
EXT == 3
Null == 0

(* The kind takes two bits and the lowest bit tells a pool's stream from an  *)
(* address, which is even.                                                   *)
makeStreamId(type, index) == IF type = EXT THEN 0 ELSE index * 8 + type * 2 + 1
streamIdType(s) == IF s % 2 = 0 THEN EXT ELSE (s \div 2) % 4
streamIdIndex(s) == (s \div 8) % PoolSize

(* The address a stream's number stands for: the pool's, or the number.      *)
stream(d, s) ==
  IF streamIdType(s) = EXT THEN s ELSE streams[d][streamIdIndex(s)]

Places == 0 .. PoolSize - 1
External == 16                          \* the one stream made elsewhere
Address(d, i) == External * (2 + d * PoolSize + i)
Addresses == {External} \cup {Address(d, i) : d \in Devices, i \in Places}

(* A stream made elsewhere is known by its address; every thread is given    *)
(* one to begin with.                                                        *)
getStreamFromExternal(h, d) == [on |-> d, id |-> h, ticket |-> 0]

Idle == [op |-> "idle"]
NoTask == [op |-> "none"]

Init ==
  /\ pool = [d \in Devices |-> "none"]
  /\ streams = [d \in Devices |-> [i \in Places |-> Null]]
  /\ counter = [d \in Devices |-> 0]
  /\ tickets = [d \in Devices |-> 0]
  /\ current = [t \in Threads |-> [d \in Devices |-> makeStreamId(DEFAULT, 0)]]
  /\ device = [t \in Threads |-> 0]
  /\ pc = [t \in Threads |-> Idle]
  /\ held = [t \in Threads |-> getStreamFromExternal(External, 0)]
  /\ event = [e \in Events |-> [created |-> FALSE, on |-> 0]]
  /\ completed = [e \in Events \cup Threads |-> TRUE]
  /\ queue = [h \in Addresses |-> << >>]
  /\ running = [h \in Addresses |-> NoTask]
  /\ ops = 0
  /\ done = {}
  /\ before = [e \in Events |-> {}]
  /\ overlapped = {}
  /\ overtaken = {}

(* ---- the calls of a thread ---------------------------------------------- *)

Call(t) == pc[t] = Idle /\ ops < MaxOps /\ ops' = ops + 1
Goto(t, step) == pc' = [pc EXCEPT ![t] = step]
Current(t) == stream(device[t], current[t][device[t]])

(* The first thread to ask for a device's pool creates it, every other one   *)
(* waits for it; then the next place of the pool is taken with one atomic    *)
(* step. The counter is 32 bits wide.                                        *)
GetStreamFromPool_Again(t, d) ==        \* the pool is created by each who asks early
  /\ Call(t) /\ pool[d] # "ready"
  /\ pool' = [pool EXCEPT ![d] = "creating"]
  /\ Goto(t, [op |-> "create", on |-> d, i |-> 0])
  /\ UNCHANGED <<streams, counter, tickets, current, device, held, workVars, eventVars>>
GetStreamFromPool(t, d) ==
  /\ Call(t) /\ pool[d] = "none"
  /\ pool' = [pool EXCEPT ![d] = "creating"]
  /\ Goto(t, [op |-> "create", on |-> d, i |-> 0])
  /\ UNCHANGED <<streams, counter, tickets, current, device, held, workVars, eventVars>>

initSingleDeviceStream(t) ==
  LET d == pc[t].on
      i == pc[t].i IN
  /\ pc[t].op = "create"
  /\ streams' = [streams EXCEPT ![d][i] = Address(d, i)]
  /\ counter' = [counter EXCEPT ![d] = 0]
  /\ IF i + 1 < PoolSize
     THEN Goto(t, [pc[t] EXCEPT !.i = i + 1]) /\ UNCHANGED pool
     ELSE /\ pool' = [pool EXCEPT ![d] = "ready"]
          /\ Goto(t, [op |-> "take", on |-> d])
  /\ UNCHANGED <<tickets, current, device, held, workVars, eventVars, ops>>

get_idx(d) == counter[d] % PoolSize

Hand(t, d, id) ==
  /\ tickets' = [tickets EXCEPT ![d] = @ + 1]
  /\ held' = [held EXCEPT ![t] = [on |-> d, id |-> id, ticket |-> tickets[d] + 1]]

TakeFromPool(t, d) ==
  /\ pool[d] = "ready"
  /\ \/ pc[t] = [op |-> "take", on |-> d] /\ Goto(t, Idle) /\ UNCHANGED ops
     \/ Call(t) /\ UNCHANGED pc
  /\ counter' = [counter EXCEPT ![d] = (@ + 1) % CounterSize]
  /\ Hand(t, d, makeStreamId(DEFAULT, get_idx(d)))
  /\ UNCHANGED <<pool, streams, current, device, workVars, eventVars>>

setCurrentOpenRegStream(t) ==
  /\ Call(t)
  /\ current' = [current EXCEPT ![t][held[t].on] = held[t].id]
  /\ UNCHANGED <<poolVars, device, pc, held, workVars, eventVars>>

set_device(t, d) ==
  /\ Call(t) /\ d # device[t]
  /\ device' = [device EXCEPT ![t] = d]
  /\ UNCHANGED <<poolVars, current, pc, held, workVars, eventVars>>

(* ---- work and events ---------------------------------------------------- *)

addTaskToStream_Front(h, task) ==                \* the last one queued runs first
  queue' = [queue EXCEPT ![h] = <<task>> \o @]
addTaskToStream(h, task) == queue' = [queue EXCEPT ![h] = Append(@, task)]

(* Every piece of work is known by the number of the call that queued it. *)
Launch(t) ==
  /\ Call(t) /\ Current(t) # Null
  /\ addTaskToStream(Current(t), [op |-> "work", id |-> ops])
  /\ UNCHANGED <<poolVars, threadVars, completed, running, done, eventVars>>

Tasks(h) == {running[h]} \cup {queue[h][i] : i \in DOMAIN queue[h]}
Pending(h) == {task.id : task \in {x \in Tasks(h) : x.op = "work"}}
Awaited(e) == \E h \in Addresses : [op |-> "wait", event |-> e] \in Tasks(h)

Clear_Not(e) == UNCHANGED completed              \* the flag of the last record is left set
Clear(e) == completed' = [completed EXCEPT ![e] = FALSE]

(* The fields of an event are plain: its callers take turns. *)
Free(e) == \A t \in Threads : pc[t].op = "record" => pc[t].event # e

(* An event is made for the device of the first stream it is recorded on,    *)
(* and no other device's stream is accepted afterwards. Recording clears the *)
(* flag, then queues the task that sets it; a stream that does not exist yet *)
(* is refused when the event has been made.                                  *)
record(t, e) ==
  LET d == device[t]
      refused == Current(t) = Null \/ (event[e].created /\ event[e].on # d) IN
  /\ Call(t) /\ Free(e)
  /\ event' = IF event[e].created THEN event
              ELSE [event EXCEPT ![e] = [created |-> TRUE, on |-> d]]
  /\ IF refused
     THEN UNCHANGED <<pc, completed, overlapped, overtaken>>
     ELSE /\ Clear(e)
          /\ overlapped' = overlapped \cup (IF completed[e] THEN {} ELSE {e})
          /\ overtaken' = overtaken \cup (IF Awaited(e) THEN {e} ELSE {})
          /\ Goto(t, [op |-> "record", event |-> e, on |-> Current(t)])
  /\ UNCHANGED <<poolVars, current, device, held, queue, running, done, before>>

orEventRecord(t) ==
  LET e == pc[t].event
      h == pc[t].on IN
  /\ pc[t].op = "record"
  /\ addTaskToStream(h, [op |-> "record", event |-> e])
  /\ before' = IF e \in Events THEN [before EXCEPT ![e] = Pending(h)] ELSE before
  /\ Goto(t, IF e \in Events THEN Idle ELSE [op |-> "wait", event |-> e])
  /\ UNCHANGED <<poolVars, current, device, held, completed, running, done, event,
                 overlapped, overtaken, ops>>

(* A stream waits for an event only when the event has been made. *)
block(t, e) ==
  /\ Call(t) /\ Free(e) /\ event[e].created /\ Current(t) # Null
  /\ addTaskToStream(Current(t), [op |-> "wait", event |-> e])
  /\ UNCHANGED <<poolVars, threadVars, completed, running, done, eventVars>>

(* A stream is synchronised by an event of its own, an event by waiting for  *)
(* its flag.                                                                 *)
synchronizeStream(t) ==
  /\ Call(t) /\ Current(t) # Null
  /\ Clear(t)
  /\ Goto(t, [op |-> "record", event |-> t, on |-> Current(t)])
  /\ UNCHANGED <<poolVars, current, device, held, queue, running, done, eventVars>>

synchronizeEvent(t, e) ==
  /\ Call(t) /\ Free(e) /\ event[e].created
  /\ Goto(t, [op |-> "wait", event |-> e])
  /\ UNCHANGED <<poolVars, current, device, held, workVars, eventVars>>

Resume(t) ==
  /\ pc[t].op = "wait" /\ completed[pc[t].event]
  /\ Goto(t, Idle)
  /\ UNCHANGED <<poolVars, current, device, held, workVars, eventVars, ops>>

(* ---- a stream's worker -------------------------------------------------- *)

Take(h) ==
  /\ running[h] = NoTask /\ queue[h] # << >>
  /\ running' = [running EXCEPT ![h] = Head(queue[h])]
  /\ queue' = [queue EXCEPT ![h] = Tail(@)]
  /\ UNCHANGED <<poolVars, threadVars, completed, done, eventVars, ops>>

Run(h) ==
  LET task == running[h] IN
  /\ \/ task.op = "work" /\ done' = done \cup {task.id} /\ UNCHANGED completed
     \/ /\ task.op = "record" /\ completed' = [completed EXCEPT ![task.event] = TRUE]
        /\ UNCHANGED done
     \/ task.op = "wait" /\ completed[task.event] /\ UNCHANGED <<completed, done>>
  /\ running' = [running EXCEPT ![h] = NoTask]
  /\ UNCHANGED <<poolVars, threadVars, queue, eventVars, ops>>

(* A step a thread takes on its own once its call has begun. *)
Continue(t) ==
  \/ initSingleDeviceStream(t) \/ orEventRecord(t) \/ Resume(t)
  \/ \E d \in Devices : pc[t] = [op |-> "take", on |-> d] /\ TakeFromPool(t, d)

Next ==
  \/ \E t \in Threads : \/ Continue(t)
                        \/ setCurrentOpenRegStream(t)
                        \/ Launch(t) \/ synchronizeStream(t)
                        \/ \E d \in Devices : \/ GetStreamFromPool(t, d)
                                              \/ TakeFromPool(t, d)
                                              \/ set_device(t, d)
                        \/ \E e \in Events : record(t, e) \/ block(t, e)
                                             \/ synchronizeEvent(t, e)
  \/ \E h \in Addresses : Take(h) \/ Run(h)

Fairness ==
  /\ \A t \in Threads : WF_vars(Continue(t))
  /\ \A h \in Addresses : WF_vars(Take(h)) /\ WF_vars(Run(h))

Spec == Init /\ [][Next]_vars /\ Fairness

(* ---- what the streams promise ------------------------------------------- *)

(* Two streams a pool has handed out are the same stream exactly when the    *)
(* pool has gone round between them, whichever threads asked and whoever     *)
(* created the pool; and each of them exists, whatever its number: the       *)
(* creation runs once, no place is given twice in a round, and a number is   *)
(* never taken for an address.                                               *)
StreamsAreDealtRound ==
  LET given == {h \in {held[t] : t \in Threads} : h.ticket > 0}
      address(h) == stream(h.on, h.id) IN
  \A a, b \in given :
    /\ address(a) \notin {Null, External}
    /\ address(a) = address(b)
         <=> a.on = b.on /\ (a.ticket - b.ticket) % PoolSize = 0

(* When an event reads as complete, everything its stream had been given     *)
(* before the event was recorded there has run: what waits for the event, a  *)
(* stream or a thread, comes after it. This holds of an event that is not    *)
(* recorded again before it has completed; the flag cannot tell one record   *)
(* from another.                                                             *)
EventFollowsWork ==
  \A e \in Events : completed[e] /\ e \notin overlapped => before[e] \subseteq done

(* When the calls come to an end every stream comes to the end of its queue  *)
(* and every thread back from waiting, unless an event has been recorded     *)
(* while a wait for it was still queued: such a wait looks at the flag of    *)
(* the later record, which may be queued behind it on the same stream.       *)
EverythingRuns ==
  <>[](\/ overtaken # {}
       \/ /\ \A h \in Addresses : queue[h] = << >> /\ running[h] = NoTask
          /\ \A t \in Threads : pc[t] = Idle)
(* The inductive invariant of StreamPoolProofs. A pool is created by one     *)
(* thread, place by place; a stream handed out is the one its ticket stands  *)
(* for; and an event that is not recorded again before it has completed has  *)
(* one record under way, behind the work it was queued after.                *)
Flags == Events \cup Threads
Numbers == {External} \cup {makeStreamId(DEFAULT, i) : i \in Places}
Calls ==
  {Idle} \cup [op : {"create"}, on : Devices, i : Places]
    \cup [op : {"take"}, on : Devices]
    \cup [op : {"record"}, event : Flags, on : Addresses]
    \cup [op : {"wait"}, event : Flags]
WorkTasks == [op : {"work"}, id : Nat] \cup [op : {"record", "wait"}, event : Flags]

TypeOK ==
  /\ pool \in [Devices -> {"none", "creating", "ready"}]
  /\ streams \in [Devices -> [Places -> Addresses \cup {Null}]]
  /\ counter \in [Devices -> 0 .. CounterSize - 1]
  /\ tickets \in [Devices -> Nat]
  /\ current \in [Threads -> [Devices -> Numbers]]
  /\ device \in [Threads -> Devices]
  /\ pc \in [Threads -> Calls]
  /\ held \in [Threads -> [on : Devices, id : Numbers, ticket : Nat]]
  /\ event \in [Events -> [created : BOOLEAN, on : Devices]]
  /\ completed \in [Flags -> BOOLEAN]
  /\ queue \in [Addresses -> Seq(WorkTasks)]
  /\ running \in [Addresses -> WorkTasks \cup {NoTask}]
  /\ ops \in Nat
  /\ done \subseteq Nat
  /\ before \in [Events -> SUBSET Nat]
  /\ overlapped \subseteq Events
  /\ overtaken \subseteq Events

CreatedOnce ==
  /\ \A t \in Threads :
       pc[t].op = "create" =>
         /\ pool[pc[t].on] = "creating"
         /\ \A i \in Places : i < pc[t].i => streams[pc[t].on][i] = Address(pc[t].on, i)
  /\ \A t, u \in Threads :
       pc[t].op = "create" /\ pc[u].op = "create" /\ pc[t].on = pc[u].on => t = u
  /\ \A d \in Devices :
       IF pool[d] = "ready" THEN \A i \in Places : streams[d][i] = Address(d, i)
       ELSE tickets[d] = 0

Dealt ==
  /\ \A d \in Devices : counter[d] % PoolSize = tickets[d] % PoolSize
  /\ \A t \in Threads :
       held[t].ticket > 0 =>
         /\ pool[held[t].on] = "ready"
         /\ held[t].id = makeStreamId(DEFAULT, (held[t].ticket - 1) % PoolSize)

(* The task at a place of a stream: the one that runs, then those queued. *)
At(h, i) == IF i = 0 THEN running[h] ELSE queue[h][i]
Line(h) == 0 .. Len(queue[h])
RecordTask(e) == [op |-> "record", event |-> e]
Recording(t, e) == pc[t].op = "record" /\ pc[t].event = e

Recorded(e) ==
  /\ completed[e] =>
       /\ \A t \in Threads : ~Recording(t, e)
       /\ \A h \in Addresses : \A i \in Line(h) : At(h, i) # RecordTask(e)
       /\ before[e] \subseteq done
  /\ \A t \in Threads : Recording(t, e) =>
       \A h \in Addresses : \A i \in Line(h) : At(h, i) # RecordTask(e)
  /\ \A h, g \in Addresses : \A i \in Line(h), j \in Line(g) :
       At(h, i) = RecordTask(e) /\ At(g, j) = RecordTask(e) => h = g /\ i = j
  /\ \A h \in Addresses : \A i \in Line(h) : At(h, i) = RecordTask(e) =>
       \A w \in before[e] :
         w \in done \/ \E j \in Line(h) : j < i /\ At(h, j) = [op |-> "work", id |-> w]

TurnsTaken ==
  \A e \in Events : \A t, u \in Threads : Recording(t, e) /\ Recording(u, e) => t = u

IInv ==
  /\ TypeOK /\ CreatedOnce /\ Dealt /\ TurnsTaken
  /\ \A e \in Events \ overlapped : Recorded(e)
=============================================================================
