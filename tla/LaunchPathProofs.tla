--------------------------- MODULE LaunchPathProofs ---------------------------
(* The way of a kernel from the client to the simulator keeps its promises   *)
(* for any devices, kernels, programs and capacities. No session leaves a    *)
(* process behind; and when the client is on device 0, for which the streams *)
(* are registered, synchronize waits for what was launched, and a session    *)
(* that has returned has simulated it. The accesses of the simulated kernels *)
(* take the time that the simlets answer, for any clocks.                    *)
EXTENDS LaunchPath, TLAPS

-----------------------------------------------------------------------------
(* Processes: these need nothing of the streams.                             *)

LEMMA SessionsInit == Init => Sessions
  BY DEF Init, Sessions, Ended

(* The client of a session moves within its session's states. *)
LEMMA SessionsClient ==
  ASSUME Sessions,
         \/ ClientReturns \/ ClientChooses \/ Until \/ TimeoutExpires
  PROVE  Sessions'
<1>1. CASE OpenFifo
      BY <1>1 DEF OpenFifo, Sessions, Ended
<1>2. CASE SyncReturns
      BY <1>2 DEF SyncReturns, Sessions, Ended
<1>3. CASE CloseFifo
      BY <1>3 DEF CloseFifo, Sessions, Ended
<1>4. CASE communicate
      BY <1>4 DEF communicate, driverVars, Sessions, Ended
<1>5. CASE UntilReturns
      BY <1>5 DEF UntilReturns, Sessions, Ended
<1>6. CASE StandaloneReturns
      BY <1>6 DEF StandaloneReturns, Sessions, Ended
<1>7. ASSUME NEW s \in Devices, SyncNext(s) PROVE Sessions'
      BY <1>7 DEF SyncNext, driverVars, Sessions, Ended
<1>8. ASSUME NEW k \in Kernels, NEW d \in Devices, Launch(k, d) PROVE Sessions'
      BY <1>8 DEF Launch, Sessions, Ended
<1>9. ASSUME NEW next \in {"sync", "until"}, Synchronize(next) PROVE Sessions'
      BY <1>9 DEF Synchronize, Sessions, Ended
<1>10. CASE TimeoutExpires
      BY <1>10 DEF TimeoutExpires, Sessions, Ended
<1>11. QED
      BY <1>1, <1>2, <1>3, <1>4, <1>5, <1>6, <1>7, <1>8, <1>9, <1>10
      DEF ClientReturns, ClientChooses, Until

(* The other processes leave the client alone, and none comes to life again. *)
LEMMA OthersLeaveClient ==
  ASSUME \/ Simulator \/ Crash \/ CoordinatorExits
         \/ \E s \in Devices : Worker(s)
         \/ \E l \in {"ssd", "dram"} : Simlet(l)
  PROVE  /\ session' = session /\ client' = client /\ live' \subseteq live
         /\ "coordinator" \in live /\ "coordinator" \notin live' => live' = {}
         /\ launched' = launched /\ promised' = promised /\ handle' = handle
<1> USE DEF driverVars
<1>1. CASE Simulator
  <2>1. CASE SimStart
        BY <2>1 DEF SimStart
  <2>2. CASE ReadCommand
        BY <2>2 DEF ReadCommand
  <2>3. CASE EndOfFile
        BY <2>3 DEF EndOfFile
  <2>4. CASE SimulateAccesses \/ AnswerArrives
        BY <2>4 DEF SimulateAccesses, AnswerArrives
  <2>5. CASE CycleReturns
        BY <2>5 DEF CycleReturns
  <2>6. CASE ShutdownLinks
        BY <2>6 DEF ShutdownLinks, Shutdown
  <2>7. CASE Exit
        BY <2>7 DEF Exit
  <2>8. QED
        BY <1>1, <2>1, <2>2, <2>3, <2>4, <2>5, <2>6, <2>7 DEF Simulator
<1>2. CASE Crash
      BY <1>2 DEF Crash
<1>3. CASE CoordinatorExits
      BY <1>3 DEF CoordinatorExits
<1>4. ASSUME NEW s \in Devices, SendCommand(s)
      PROVE  /\ session' = session /\ client' = client /\ live' = live
             /\ launched' = launched /\ promised' = promised /\ handle' = handle
      BY <1>4 DEF SendCommand
<1>5. ASSUME NEW s \in Devices, UNCHANGED <<driverVars, simVars, fifo, live, legoVars>>
      PROVE  /\ session' = session /\ client' = client /\ live' = live
             /\ launched' = launched /\ promised' = promised /\ handle' = handle
      BY <1>5
<1>6. ASSUME NEW l \in {"ssd", "dram"}, Simlet(l)
      PROVE  /\ session' = session /\ client' = client /\ live' \subseteq live
             /\ "coordinator" \in live => "coordinator" \in live'
             /\ launched' = launched /\ promised' = promised /\ handle' = handle
      BY <1>6 DEF Simlet
<1>7. QED
      BY <1>1, <1>2, <1>3, <1>4, <1>5, <1>6 DEF Worker

LEMMA SessionsNext == Sessions /\ [Next]_vars => Sessions'
<1> SUFFICES ASSUME Sessions, [Next]_vars PROVE Sessions'
    OBVIOUS
<1>1. CASE UNCHANGED vars
      BY <1>1 DEF vars, driverVars, Sessions, Ended
<1>2. CASE ClientReturns \/ ClientChooses \/ Until \/ TimeoutExpires
      BY <1>2, SessionsClient
<1>3. CASE \/ Simulator \/ Crash \/ CoordinatorExits
           \/ \E s \in Devices : Worker(s)
           \/ \E l \in {"ssd", "dram"} : Simlet(l)
  <2>1. /\ session' = session /\ client' = client /\ live' \subseteq live
        /\ "coordinator" \in live /\ "coordinator" \notin live' => live' = {}
        BY <1>3, OthersLeaveClient
  <2>2. QED
        BY <2>1 DEF Sessions, Ended
<1>4. CASE Terminated
      BY <1>1, <1>4 DEF Terminated
<1>5. QED
      BY <1>1, <1>2, <1>3, <1>4 DEF Next

(* A session that has returned or raised leaves no process behind, on any    *)
(* device, with any links and however the simulator ends: until waits for    *)
(* the simulator, the coordinator for every process, and a limit that passes *)
(* kills the whole group.                                                    *)
THEOREM NoProcessLeft == Spec => []NoOrphans
<1>1. Sessions => NoOrphans
      BY DEF Sessions, NoOrphans, Ended
<1>2. QED
      BY <1>1, SessionsInit, SessionsNext, PTL DEF Spec

-----------------------------------------------------------------------------
(* Types.                                                                    *)

LEMMA TaskKinds ==
  /\ RecordTask \in Tasks /\ SyncTask \in Tasks
  /\ \A k \in Kernels : LaunchTask(k) \in Tasks
  /\ \A x \in Tasks : x # NoTask /\ (x.op = "launch" => x.kernel \in Kernels
                                                        /\ x = LaunchTask(x.kernel))
  /\ \A k : LaunchTask(k) # RecordTask /\ LaunchTask(k) # NoTask /\ LaunchTask(k) # SyncTask
  /\ RecordTask # NoTask /\ SyncTask # RecordTask /\ SyncTask # NoTask
  /\ \A j, k \in Kernels : LaunchTask(j) = LaunchTask(k) => j = k
<1>1. \A k : LaunchTask(k).op = "launch" /\ LaunchTask(k).kernel = k
      BY DEF LaunchTask
<1>2. RecordTask.op = "record" /\ SyncTask.op = "sync" /\ NoTask.op = "none"
      BY DEF RecordTask, SyncTask, NoTask
<1>3. \A x \in Tasks : x = RecordTask \/ x = SyncTask \/ \E k \in Kernels : x = LaunchTask(k)
      BY DEF Tasks
<1>4. /\ RecordTask \in Tasks /\ SyncTask \in Tasks
      /\ \A k \in Kernels : LaunchTask(k) \in Tasks
      BY DEF Tasks
<1>5. ASSUME NEW x \in Tasks
      PROVE  x # NoTask /\ (x.op = "launch" => x.kernel \in Kernels /\ x = LaunchTask(x.kernel))
      BY <1>1, <1>2, <1>3
<1>6. /\ \A k : LaunchTask(k) # RecordTask /\ LaunchTask(k) # NoTask /\ LaunchTask(k) # SyncTask
      /\ RecordTask # NoTask /\ SyncTask # RecordTask /\ SyncTask # NoTask
      BY <1>1, <1>2
<1>7. \A j, k \in Kernels : LaunchTask(j) = LaunchTask(k) => j = k
      BY <1>1
<1>8. QED
      BY <1>4, <1>5, <1>6, <1>7

LEMMA TypeInit == Init => TypeOK
<1> SUFFICES ASSUME Init PROVE TypeOK
    OBVIOUS
<1>1. /\ queue \in [Devices -> Seq(Tasks)] /\ running \in [Devices -> Tasks \cup {NoTask}]
      /\ unsynced \subseteq Devices /\ completed \in BOOLEAN
      BY DEF Init, StreamsInit
<1>2. launched \subseteq Kernels \X Devices /\ fifo \in Seq(Tasks)
  <2>1. CASE launched = {} /\ fifo = << >>
        BY <2>1
  <2>2. ASSUME NEW k \in Kernels, fifo = <<LaunchTask(k)>>, launched = {<<k, Home>>}
        PROVE  launched \subseteq Kernels \X Devices /\ fifo \in Seq(Tasks)
        BY <2>2, LaunchAssumption, TaskKinds
  <2>3. QED
        BY <2>1, <2>2 DEF Init
<1>3. /\ promised = {} /\ ran = {} /\ pending = {} /\ simulated = {}
      /\ sim = "starting" /\ handle = "closed"
      BY DEF Init
<1>4. QED
      BY <1>1, <1>2, <1>3 DEF TypeOK

LEMMA QueueType ==
  ASSUME TypeOK, NEW s \in Devices, NEW x \in Tasks, AddTaskToStream(s, x)
  PROVE  queue' \in [Devices -> Seq(Tasks)]
  BY DEF TypeOK, AddTaskToStream

(* The client's steps keep the types. *)
LEMMA TypeClient ==
  ASSUME TypeOK, \/ ClientReturns \/ ClientChooses \/ Until \/ TimeoutExpires
  PROVE  TypeOK'
<1> USE DEF driverVars, simVars, streamVars
<1>1. CASE OpenFifo
      BY <1>1 DEF OpenFifo, TypeOK
<1>2. CASE SyncReturns
      BY <1>2 DEF SyncReturns, TypeOK
<1>3. CASE CloseFifo
      BY <1>3 DEF CloseFifo, TypeOK
<1>4. CASE communicate
      BY <1>4 DEF communicate, TypeOK
<1>5. CASE UntilReturns
      BY <1>5 DEF UntilReturns, TypeOK
<1>6. CASE StandaloneReturns
      BY <1>6 DEF StandaloneReturns, TypeOK
<1>7. ASSUME NEW s \in Devices, SyncNext(s) PROVE TypeOK'
  <2>1. queue' \in [Devices -> Seq(Tasks)]
        BY <1>7, QueueType, TaskKinds DEF SyncNext, RecordEvent
  <2>2. UNCHANGED <<running, driverVars, simVars, fifo>>
        BY <1>7 DEF SyncNext, RecordEvent
  <2>3. unsynced' \subseteq Devices /\ completed' \in BOOLEAN
        BY <1>7 DEF SyncNext, RecordEvent, TypeOK
  <2>4. QED
        BY <2>1, <2>2, <2>3 DEF TypeOK
<1>8. ASSUME NEW k \in Kernels, NEW d \in Devices, Launch(k, d) PROVE TypeOK'
  <2>1. queue' \in [Devices -> Seq(Tasks)]
        BY <1>8, QueueType, TaskKinds DEF Launch
  <2>2. launched' = launched \cup {<<k, d>>}
        BY <1>8 DEF Launch
  <2>3. UNCHANGED <<running, unsynced, completed, promised, ran, handle, simVars, fifo>>
        BY <1>8 DEF Launch
  <2>4. QED
        BY <2>1, <2>2, <2>3 DEF TypeOK
<1>9. ASSUME NEW next \in {"sync", "until"}, Synchronize(next) PROVE TypeOK'
  <2>1. queue' \in [Devices -> Seq(Tasks)]
        BY <1>9, QueueType, TaskKinds, LaunchAssumption DEF Synchronize
  <2>2. unsynced' \subseteq Devices
        BY <1>9 DEF Synchronize, StartDeviceSync, Registered
  <2>3. UNCHANGED <<running, completed, launched, promised, ran, handle, simVars, fifo>>
        BY <1>9 DEF Synchronize
  <2>4. QED
        BY <2>1, <2>2, <2>3 DEF TypeOK
<1>10. CASE TimeoutExpires
      BY <1>10 DEF TimeoutExpires, TypeOK
<1>11. QED
      BY <1>1, <1>2, <1>3, <1>4, <1>5, <1>6, <1>7, <1>8, <1>9, <1>10
      DEF ClientReturns, ClientChooses, Until

(* The workers' steps keep the types. *)
LEMMA TypeWorker ==
  ASSUME TypeOK, NEW s \in Devices, Worker(s)
  PROVE  TypeOK'
<1> USE DEF driverVars, simVars, streamVars
<1>1. CASE SendCommand(s)
  <2> DEFINE t == running[s]
  <2>1. t \in Tasks
        BY <1>1 DEF SendCommand, TypeOK, NoTask
  <2>2. fifo' \in Seq(Tasks)
    <3>1. fifo' = Append(fifo, t) \/ fifo' = fifo
          BY <1>1 DEF SendCommand
    <3>2. fifo \in Seq(Tasks)
          BY DEF TypeOK
    <3> HIDE DEF t
    <3>3. QED
          BY <2>1, <3>1, <3>2
  <2>3. ran' \subseteq Kernels
        BY <1>1, <2>1, TaskKinds DEF SendCommand, TypeOK
  <2>4. running' \in [Devices -> Tasks \cup {NoTask}]
        BY <1>1 DEF SendCommand, TypeOK
  <2>5. UNCHANGED <<launched, promised, handle, simVars, queue, unsynced, completed>>
        BY <1>1 DEF SendCommand
  <2>6. QED
        BY <2>2, <2>3, <2>4, <2>5 DEF TypeOK
<1>2. CASE Take(s) /\ UNCHANGED <<driverVars, simVars, fifo, live, legoVars>>
  <2>1. queue[s] \in Seq(Tasks) /\ queue[s] # << >>
        BY <1>2 DEF Take, TypeOK
  <2>2. Head(queue[s]) \in Tasks /\ Tail(queue[s]) \in Seq(Tasks)
        BY <2>1
  <2>3. /\ queue' \in [Devices -> Seq(Tasks)] /\ running' \in [Devices -> Tasks \cup {NoTask}]
        /\ UNCHANGED <<unsynced, completed>>
        BY <1>2, <2>2 DEF Take, TypeOK
  <2>4. QED
        BY <1>2, <2>3 DEF TypeOK
<1>3. CASE RunRecord(s) /\ UNCHANGED <<driverVars, simVars, fifo, live, legoVars>>
      BY <1>3 DEF RunRecord, TypeOK
<1>4. QED
      BY <1>1, <1>2, <1>3 DEF Worker

(* A command that is read leaves the FIFO for the scheduler or for nowhere. *)
LEMMA HeadOfFifo ==
  ASSUME TypeOK, fifo # << >>
  PROVE  /\ Head(fifo) \in Tasks /\ Tail(fifo) \in Seq(Tasks) /\ Head(fifo) = fifo[1]
         /\ \A i \in DOMAIN fifo : i = 1 \/ (i - 1 \in DOMAIN Tail(fifo)
                                             /\ Tail(fifo)[i - 1] = fifo[i])
<1>1. fifo \in Seq(Tasks)
      BY DEF TypeOK
<1>2. QED
      BY <1>1

(* What the simulator and the other processes do to what the proofs are      *)
(* about.                                                                    *)
LEMMA SimulatorSteps ==
  ASSUME \/ Simulator \/ Crash \/ CoordinatorExits
         \/ \E l \in {"ssd", "dram"} : Simlet(l)
  PROVE  /\ UNCHANGED streamVars /\ UNCHANGED driverVars
         /\ \/ /\ sim' = sim /\ pending' = pending /\ simulated' = simulated /\ fifo' = fifo
               /\ "sim" \in live' <=> "sim" \in live
            \/ SimStart \/ ReadCommand \/ EndOfFile \/ CycleReturns \/ ShutdownLinks \/ Exit
            \/ Crash
<1> USE DEF simVars
<1>1. CASE SimStart \/ ReadCommand \/ EndOfFile \/ CycleReturns \/ Exit \/ Crash
      BY <1>1 DEF SimStart, ReadCommand, EndOfFile, CycleReturns, Exit, Crash
<1>2. CASE ShutdownLinks
      BY <1>2 DEF ShutdownLinks, Shutdown
<1>3. CASE SimulateAccesses \/ AnswerArrives
      BY <1>3 DEF SimulateAccesses, AnswerArrives
<1>4. CASE CoordinatorExits
      BY <1>4 DEF CoordinatorExits
<1>5. ASSUME NEW l \in {"ssd", "dram"}, Simlet(l)
      PROVE  /\ UNCHANGED streamVars /\ UNCHANGED driverVars /\ UNCHANGED simVars
             /\ fifo' = fifo /\ ("sim" \in live' <=> "sim" \in live)
      BY <1>5 DEF Simlet
<1>6. QED
      BY <1>1, <1>2, <1>3, <1>4, <1>5 DEF Simulator

LEMMA TypeSimulator ==
  ASSUME TypeOK, \/ Simulator \/ Crash \/ CoordinatorExits
                 \/ \E l \in {"ssd", "dram"} : Simlet(l)
  PROVE  TypeOK'
<1>1. UNCHANGED streamVars /\ UNCHANGED driverVars
      BY SimulatorSteps
<1>2. SUFFICES /\ pending' \subseteq Kernels /\ simulated' \subseteq Kernels /\ fifo' \in Seq(Tasks)
               /\ sim' \in {"starting", "opened", "simulating", "final"} \cup Ending \cup Gone
      BY <1>1 DEF TypeOK, streamVars, driverVars
<1> USE DEF Ending, Gone
<1>3. CASE sim' = sim /\ pending' = pending /\ simulated' = simulated /\ fifo' = fifo
      BY <1>3 DEF TypeOK
<1>4. CASE SimStart
      BY <1>4 DEF SimStart, TypeOK
<1>5. CASE ReadCommand
  <2>1. Head(fifo) \in Tasks /\ Tail(fifo) \in Seq(Tasks)
        BY <1>5, HeadOfFifo DEF ReadCommand
  <2>2. pending' \subseteq Kernels
        BY <1>5, <2>1, TaskKinds DEF ReadCommand, TypeOK
  <2>3. fifo' \in Seq(Tasks) /\ simulated' = simulated /\ (sim' = sim \/ sim' = "simulating")
        BY <1>5, <2>1 DEF ReadCommand
  <2>4. QED
        BY <2>2, <2>3 DEF TypeOK
<1>6. CASE EndOfFile
      BY <1>6 DEF EndOfFile, TypeOK
<1>7. CASE CycleReturns
      BY <1>7 DEF CycleReturns, TypeOK
<1>8. CASE ShutdownLinks
      BY <1>8 DEF ShutdownLinks, Shutdown, TypeOK
<1>9. CASE Exit
      BY <1>9 DEF Exit, TypeOK
<1>10. CASE Crash
      BY <1>10 DEF Crash, TypeOK
<1>11. QED
      BY <1>3, <1>4, <1>5, <1>6, <1>7, <1>8, <1>9, <1>10, SimulatorSteps

LEMMA TypeNext == TypeOK /\ [Next]_vars => TypeOK'
<1> SUFFICES ASSUME TypeOK, [Next]_vars PROVE TypeOK'
    OBVIOUS
<1>1. CASE UNCHANGED vars
      BY <1>1 DEF vars, driverVars, simVars, streamVars, TypeOK
<1>2. CASE Terminated
      BY <1>1, <1>2 DEF Terminated
<1>3. QED
      BY <1>1, <1>2, TypeClient, TypeWorker, TypeSimulator DEF Next

-----------------------------------------------------------------------------
(* Streams. The places of a stream's tasks, under the three ways a stream    *)
(* changes.                                                                  *)

(* A task is queued behind the others. *)
LEMMA AppendPlaces ==
  ASSUME TypeOK, NEW d \in Devices, NEW x \in Tasks, AddTaskToStream(d, x),
         running' = running
  PROVE  /\ \A s \in Devices : Line(s) \subseteq Line(s)'
                               /\ \A i \in Line(s) : At(s, i)' = At(s, i)
         /\ \A s \in Devices : \A i \in Line(s)' \ Line(s) : s = d /\ At(d, i)' = x
         /\ \A i, j \in Line(d)' \ Line(d) : i = j
         /\ \E j \in Line(d)' : At(d, j)' = x /\ \A i \in Line(d) : i < j
<1>1. PICK n \in Nat : queue[d] \in Seq(Tasks) /\ n = Len(queue[d])
      BY DEF TypeOK
<1>2. queue'[d] = Append(queue[d], x) /\ \A s \in Devices : s # d => queue'[s] = queue[s]
      BY DEF AddTaskToStream, TypeOK
<1>3. /\ Len(queue'[d]) = n + 1 /\ queue'[d][n + 1] = x
      /\ \A i \in 1 .. n : queue'[d][i] = queue[d][i]
      BY <1>1, <1>2
<1>4. Line(d) = 0 .. n /\ Line(d)' = 0 .. n + 1
      BY <1>1, <1>3 DEF Line
<1>5. At(d, n + 1)' = x
      BY <1>1, <1>3 DEF At
<1>6. \A i \in Line(d) : At(d, i)' = At(d, i)
  <2> TAKE i \in Line(d)
  <2>1. i = 0 \/ i \in 1 .. n
        BY <1>1, <1>4
  <2>2. QED
        BY <1>3, <2>1 DEF At
<1>7. Line(d) \subseteq Line(d)' /\ \A i \in Line(d)' \ Line(d) : i = n + 1
      BY <1>1, <1>4
<1>8. n + 1 \in Line(d)' /\ \A i \in Line(d) : i < n + 1
      BY <1>1, <1>4
<1>9. \A s \in Devices : s # d => Line(s)' = Line(s) /\ \A i \in Line(s) : At(s, i)' = At(s, i)
      BY <1>2 DEF Line, At
<1>10. ASSUME NEW s \in Devices
       PROVE  /\ Line(s) \subseteq Line(s)'
              /\ \A i \in Line(s) : At(s, i)' = At(s, i)
              /\ \A i \in Line(s)' \ Line(s) : s = d /\ At(d, i)' = x
  <2>1. CASE s = d
        BY <1>5, <1>6, <1>7, <2>1
  <2>2. CASE s # d
        BY <1>9, <2>2
  <2>3. QED
        BY <2>1, <2>2
<1>11. QED
       BY <1>5, <1>7, <1>8, <1>10

(* A worker takes the front task: those behind it move up by one. *)
LEMMA TakePlaces ==
  ASSUME TypeOK, NEW d \in Devices, Take(d)
  PROVE  /\ \A s \in Devices : s # d => Line(s)' = Line(s)
                                        /\ \A i \in Line(s) : At(s, i)' = At(s, i)
         /\ \A i \in Line(d)' : i + 1 \in Line(d) /\ At(d, i)' = At(d, i + 1)
         /\ \A i \in Line(d) :
              \/ i = 0 /\ At(d, i) = NoTask
              \/ i - 1 \in Line(d)' /\ At(d, i - 1)' = At(d, i)
<1>1. PICK n \in Nat : queue[d] \in Seq(Tasks) /\ Len(queue[d]) = n + 1
  <2>1. queue[d] \in Seq(Tasks) /\ queue[d] # << >>
        BY DEF Take, TypeOK
  <2>2. Len(queue[d]) \in Nat /\ Len(queue[d]) # 0
        BY <2>1
  <2>3. Len(queue[d]) - 1 \in Nat /\ Len(queue[d]) = (Len(queue[d]) - 1) + 1
        BY <2>2
  <2>4. QED
        BY <2>1, <2>3
<1>2. /\ running[d] = NoTask /\ running'[d] = Head(queue[d]) /\ queue'[d] = Tail(queue[d])
      /\ \A s \in Devices : s # d => running'[s] = running[s] /\ queue'[s] = queue[s]
      BY DEF Take, TypeOK
<1>3. /\ running'[d] = queue[d][1] /\ Len(queue'[d]) = n
      /\ \A i \in 1 .. n : queue'[d][i] = queue[d][i + 1]
      BY <1>1, <1>2
<1>4. Line(d) = 0 .. n + 1 /\ Line(d)' = 0 .. n
      BY <1>1, <1>3 DEF Line
<1>5. \A i \in 0 .. n : At(d, i)' = At(d, i + 1)
  <2> TAKE i \in 0 .. n
  <2>1. CASE i = 0
        BY <1>3, <2>1 DEF At
  <2>2. CASE i \in 1 .. n
        BY <1>3, <2>2 DEF At
  <2>3. QED
        BY <2>1, <2>2
<1>6. At(d, 0) = NoTask
      BY <1>2 DEF At
<1>7. \A i \in 0 .. n : i + 1 \in 0 .. n + 1
      BY <1>1
<1>8. ASSUME NEW i \in 0 .. n + 1
      PROVE  \/ i = 0 /\ At(d, i) = NoTask
             \/ i - 1 \in 0 .. n /\ At(d, i - 1)' = At(d, i)
  <2>1. CASE i = 0
        BY <1>6, <2>1
  <2>2. CASE i # 0
    <3>1. PICK j \in 0 .. n : i = j + 1 /\ i - 1 = j
          BY <1>1, <2>2
    <3>2. QED
          BY <1>5, <3>1
  <2>3. QED
        BY <2>1, <2>2
<1>9. \A s \in Devices : s # d => Line(s)' = Line(s) /\ \A i \in Line(s) : At(s, i)' = At(s, i)
      BY <1>2 DEF Line, At
<1>10. QED
       BY <1>4, <1>5, <1>7, <1>8, <1>9

(* A task has run: its place is empty. *)
LEMMA RunPlaces ==
  ASSUME TypeOK, NEW d \in Devices, queue' = queue,
         running' = [running EXCEPT ![d] = NoTask]
  PROVE  /\ \A s \in Devices : Line(s)' = Line(s)
         /\ At(d, 0)' = NoTask /\ At(d, 0) = running[d]
         /\ \A s \in Devices : \A i \in Line(s) :
              (s = d /\ i = 0) \/ At(s, i)' = At(s, i)
<1>1. running'[d] = NoTask /\ \A s \in Devices : s # d => running'[s] = running[s]
      BY DEF TypeOK
<1>2. QED
      BY <1>1 DEF Line, At

LEMMA Places ==
  ASSUME TypeOK
  PROVE  \A s \in Devices : 0 \in Line(s) /\ Line(s) \subseteq Nat
<1> TAKE s \in Devices
<1>1. Len(queue[s]) \in Nat
      BY DEF TypeOK
<1>2. QED
      BY <1>1 DEF Line

LEMMA StreamsInitially == Init => Streams
<1> SUFFICES ASSUME Init PROVE Streams
    OBVIOUS
<1>1. /\ queue = [s \in Devices |-> << >>] /\ running = [s \in Devices |-> NoTask]
      /\ promised = {} /\ ran = {} /\ ~Syncing
      /\ session = "stream" => launched = {} /\ client = "opening"
      /\ session # "stream" => client # "opening"
      BY DEF Init, StreamsInit, Syncing
<1>2. \A s \in Devices : Line(s) = {0} /\ At(s, 0) = NoTask
      BY <1>1 DEF Line, At
<1>3. \A s \in Devices : \A i \in Line(s) : i = 0 /\ At(s, i) = NoTask
      BY <1>2
<1>4. OneRecord /\ Known
      BY <1>3, TaskKinds DEF OneRecord, Known
<1>5. Queued /\ Recorded
      BY <1>1 DEF Queued, Recorded
<1>6. Awaited
      BY <1>1 DEF Awaited, SynchronizeWaits, Closed
<1>7. QED
      BY <1>4, <1>5, <1>6 DEF Streams

(* A step that leaves the streams, the client's place and what it has        *)
(* launched alone.                                                           *)
LEMMA StreamsFrame ==
  ASSUME Streams, UNCHANGED streamVars, UNCHANGED <<launched, promised, ran, session>>,
         Syncing' => Syncing, client' = "opening" => client = "opening",
         client' = "closing" \/ Closed' => client = "closing" \/ Closed \/ session # "stream"
  PROVE  Streams'
<1>1. \A s : Line(s)' = Line(s) /\ \A i : At(s, i)' = At(s, i)
      BY DEF Line, At, streamVars
<1>2. Launches' = Launches /\ unsynced' = unsynced /\ completed' = completed
      BY DEF Launches, streamVars
<1>3. OneRecord' /\ Known'
      BY <1>1, <1>2 DEF Streams, OneRecord, Known
<1>4. Queued'
      BY <1>1 DEF Streams, Queued
<1>5. Recorded'
      BY <1>1, <1>2 DEF Streams, Recorded
<1>6. Awaited'
      BY <1>2 DEF Streams, Awaited, SynchronizeWaits
<1>7. QED
      BY <1>3, <1>4, <1>5, <1>6 DEF Streams

(* A kernel that is launched stands in its stream's queue. *)
LEMMA StreamsLaunch ==
  ASSUME TypeOK, Sessions, Streams, NEW k \in Kernels, NEW d \in Devices, Launch(k, d)
  PROVE  Streams'
<1> DEFINE x == LaunchTask(k)
<1>1. /\ client = "script" /\ client' = client /\ AddTaskToStream(d, x)
      /\ launched' = launched \cup {<<k, d>>} /\ session' = session
      /\ UNCHANGED <<promised, ran, running, unsynced, completed>>
      BY DEF Launch
<1>2. x \in Tasks /\ x # RecordTask /\ x # NoTask
      BY TaskKinds
<1>3. session = "stream"
      BY <1>1 DEF Sessions
<1>4. k \in Launches' /\ Launches \subseteq Launches'
      BY <1>1 DEF Launches
<1>5. /\ \A s \in Devices : Line(s) \subseteq Line(s)'
                            /\ \A i \in Line(s) : At(s, i)' = At(s, i)
      /\ \A s \in Devices : \A i \in Line(s)' \ Line(s) : s = d /\ At(d, i)' = x
      /\ \E j \in Line(d)' : At(d, j)' = x
      BY <1>1, <1>2, AppendPlaces
<1>6. \A s \in Devices : \A i \in Line(s)' :
        At(s, i)' = RecordTask => i \in Line(s) /\ At(s, i) = RecordTask
      BY <1>2, <1>5
<1>7. OneRecord'
      BY <1>1, <1>6 DEF Streams, OneRecord
<1>8. Queued'
  <2> SUFFICES ASSUME NEW l \in launched'
               PROVE  l[1] \in ran \/ \E i \in Line(l[2])' : At(l[2], i)' = LaunchTask(l[1])
      BY <1>1 DEF Queued
  <2>1. CASE l \in launched
    <3>1. l[2] \in Devices
          BY <2>1 DEF TypeOK
    <3>2. l[1] \in ran \/ \E i \in Line(l[2]) : At(l[2], i) = LaunchTask(l[1])
          BY <1>3, <2>1 DEF Streams, Queued
    <3>3. QED
          BY <1>5, <3>1, <3>2
  <2>2. CASE l = <<k, d>>
        BY <1>5, <2>2
  <2>3. QED
        BY <1>1, <2>1, <2>2
<1>9. Known'
  <2> SUFFICES ASSUME NEW s \in Devices, NEW i \in Line(s)'
               PROVE  /\ At(s, i)' # NoTask => session' = "stream"
                      /\ \A j \in Kernels : At(s, i)' = LaunchTask(j) => j \in Launches'
      BY DEF Known
  <2>1. CASE i \in Line(s)
        BY <1>1, <1>3, <1>4, <1>5, <2>1 DEF Streams, Known
  <2>2. CASE i \notin Line(s)
        BY <1>1, <1>3, <1>4, <1>5, <2>2, TaskKinds
  <2>3. QED
        BY <2>1, <2>2
<1>10. Recorded' /\ Awaited'
       BY <1>1 DEF Streams, Recorded, Syncing, Awaited, SynchronizeWaits, Closed
<1>11. QED
       BY <1>7, <1>8, <1>9, <1>10 DEF Streams

(* A task that is neither a launch nor a record is queued. *)
LEMMA StreamsCommand ==
  ASSUME TypeOK, Sessions, Streams, NEW next \in {"sync", "until"}, Synchronize(next), Home = 0
  PROVE  Streams'
<1>1. /\ client = "script" /\ client' = next /\ AddTaskToStream(Home, SyncTask)
      /\ unsynced' = Devices /\ UNCHANGED <<launched, promised, ran, running, completed, session>>
      BY DEF Synchronize, StartDeviceSync, Registered
<1>2. /\ \A s \in Devices : Line(s) \subseteq Line(s)'
                            /\ \A i \in Line(s) : At(s, i)' = At(s, i)
      /\ \A s \in Devices : \A i \in Line(s)' \ Line(s) : s = Home /\ At(Home, i)' = SyncTask
      BY <1>1, TaskKinds, LaunchAssumption, AppendPlaces
<1>3. \A s \in Devices : \A i \in Line(s)' :
        At(s, i)' = RecordTask => i \in Line(s) /\ At(s, i) = RecordTask
      BY <1>2, TaskKinds
<1>4. OneRecord'
      BY <1>1, <1>3 DEF Streams, OneRecord
<1>5. \A l \in launched : l[2] \in Devices
      BY DEF TypeOK
<1>6. Queued'
      BY <1>1, <1>2, <1>5 DEF Streams, Queued
<1>7. Recorded'
      BY <1>1, <1>5 DEF Recorded
<1>8. session = "stream" /\ session' = session /\ Launches' = Launches
      BY <1>1 DEF Sessions, Launches
<1>9. Known'
  <2> SUFFICES ASSUME NEW s \in Devices, NEW i \in Line(s)'
               PROVE  /\ At(s, i)' # NoTask => session' = "stream"
                      /\ \A j \in Kernels : At(s, i)' = LaunchTask(j) => j \in Launches'
      BY DEF Known
  <2>1. CASE i \in Line(s)
        BY <1>2, <1>8, <2>1 DEF Streams, Known
  <2>2. CASE i \notin Line(s)
        BY <1>2, <1>8, <2>2, TaskKinds
  <2>3. QED
        BY <2>1, <2>2
<1>10. Awaited'
       BY <1>1, <1>8 DEF Streams, Awaited, SynchronizeWaits, Closed
<1>11. QED
       BY <1>4, <1>6, <1>7, <1>9, <1>10 DEF Streams

(* An event is recorded: what was launched on its stream stands before it,   *)
(* and no other event is under way.                                          *)
LEMMA StreamsRecord ==
  ASSUME TypeOK, Sessions, Streams, NEW d \in Devices, SyncNext(d)
  PROVE  Streams'
<1>1. /\ completed /\ d \in unsynced /\ completed' = FALSE /\ Syncing
      /\ AddTaskToStream(d, RecordTask) /\ unsynced' = unsynced \ {d}
      /\ UNCHANGED <<running, launched, promised, ran, session, client>>
      BY DEF SyncNext, RecordEvent, driverVars, Syncing
<1>2. session = "stream" /\ Launches' = Launches
      BY <1>1 DEF Sessions, Syncing, Launches
<1>3. /\ \A s \in Devices : Line(s) \subseteq Line(s)'
                            /\ \A i \in Line(s) : At(s, i)' = At(s, i)
      /\ \A s \in Devices : \A i \in Line(s)' \ Line(s) : s = d /\ At(d, i)' = RecordTask
      /\ \A i, j \in Line(d)' \ Line(d) : i = j
      /\ \E j \in Line(d)' : At(d, j)' = RecordTask /\ \A i \in Line(d) : i < j
      BY <1>1, TaskKinds, AppendPlaces
<1>4. \A s \in Devices : \A i \in Line(s) : At(s, i) # RecordTask
      BY <1>1 DEF Streams, OneRecord
<1>5. \A s \in Devices : \A i \in Line(s)' : At(s, i)' = RecordTask => s = d /\ i \notin Line(d)
      BY <1>3, <1>4
<1>6. OneRecord'
      BY <1>1, <1>3, <1>5 DEF OneRecord
<1>7. \A l \in launched : l[2] \in Devices
                          /\ (l[1] \in ran \/ \E i \in Line(l[2]) : At(l[2], i) = LaunchTask(l[1]))
      BY <1>2 DEF TypeOK, Streams, Queued
<1>8. Queued'
      BY <1>1, <1>3, <1>7 DEF Queued
<1>9. Recorded'
  <2> SUFFICES ASSUME NEW l \in launched, l[2] \notin unsynced', l[1] \notin ran
               PROVE  \E i, j \in Line(l[2])' : /\ i < j /\ At(l[2], i)' = LaunchTask(l[1])
                                                /\ At(l[2], j)' = RecordTask
      BY <1>1 DEF Recorded
  <2>1. l[2] = d
        BY <1>1, <1>4, <1>7 DEF Streams, Recorded
  <2>2. PICK i \in Line(d) : At(d, i) = LaunchTask(l[1])
        BY <1>7, <2>1
  <2>3. QED
        BY <1>3, <2>1, <2>2
<1>10. Known'
  <2> SUFFICES ASSUME NEW s \in Devices, NEW i \in Line(s)'
               PROVE  /\ At(s, i)' # NoTask => session' = "stream"
                      /\ \A j \in Kernels : At(s, i)' = LaunchTask(j) => j \in Launches'
      BY DEF Known
  <2>1. CASE i \in Line(s)
        BY <1>2, <1>1, <1>3, <2>1 DEF Streams, Known
  <2>2. CASE i \notin Line(s)
        BY <1>2, <1>1, <1>3, <2>2, TaskKinds
  <2>3. QED
        BY <2>1, <2>2
<1>11. Awaited'
       BY <1>1, <1>2 DEF Streams, Awaited, SynchronizeWaits, Closed
<1>12. QED
       BY <1>6, <1>8, <1>9, <1>10, <1>11 DEF Streams

(* Every stream has been recorded and no event is under way: all has run. *)
LEMMA StreamsReturn ==
  ASSUME TypeOK, Streams, SyncReturns
  PROVE  Streams'
<1>1. /\ Syncing /\ unsynced = {} /\ completed /\ client' \in {"script", "closing"}
      /\ UNCHANGED <<session, launched, ran, streamVars>>
      /\ promised' \subseteq launched
      BY DEF SyncReturns, DeviceSynchronized, Syncing
<1>2. \A s : Line(s)' = Line(s) /\ \A i : At(s, i)' = At(s, i)
      BY <1>1 DEF Line, At, streamVars
<1>3. Launches' = Launches /\ unsynced' = unsynced /\ completed' = completed
      BY <1>1 DEF Launches, streamVars
<1>4. OneRecord' /\ Known' /\ Queued'
      BY <1>1, <1>2, <1>3 DEF Streams, OneRecord, Known, Queued
<1>5. Recorded'
      BY <1>1 DEF Recorded, Syncing
<1>6. \A l \in launched : l[1] \in ran
  <2> SUFFICES ASSUME NEW l \in launched, l[1] \notin ran PROVE FALSE
      OBVIOUS
  <2>1. PICK j \in Line(l[2]) : At(l[2], j) = RecordTask
        BY <1>1 DEF Streams, Recorded
  <2>2. QED
        BY <1>1, <2>1 DEF TypeOK, Streams, OneRecord
<1>7. Awaited'
      BY <1>1, <1>6 DEF Awaited, SynchronizeWaits, Launches
<1>8. QED
      BY <1>4, <1>5, <1>7 DEF Streams

(* A worker takes its next task: the order of the tasks is kept. *)
LEMMA StreamsTake ==
  ASSUME TypeOK, Streams, NEW d \in Devices, Take(d),
         UNCHANGED <<session, client, launched, promised, ran>>
  PROVE  Streams'
<1>1. /\ \A s \in Devices : s # d => Line(s)' = Line(s)
                                     /\ \A i \in Line(s) : At(s, i)' = At(s, i)
      /\ \A i \in Line(d)' : i + 1 \in Line(d) /\ At(d, i)' = At(d, i + 1)
      /\ \A i \in Line(d) :
           \/ i = 0 /\ At(d, i) = NoTask
           \/ i - 1 \in Line(d)' /\ At(d, i - 1)' = At(d, i)
      BY TakePlaces
<1>2. unsynced' = unsynced /\ completed' = completed
      BY DEF Take
<1>3. Launches' = Launches
      BY DEF Launches
<1>4. \A s \in Devices : Line(s) \subseteq Nat /\ Line(s)' \subseteq Nat
  <2>1. \A s \in Devices : Line(s) \subseteq Nat
        BY Places
  <2>2. \A i \in Line(d)' : i \in Nat
        BY <1>1 DEF Line
  <2>3. QED
        BY <1>1, <2>1, <2>2
<1>5. OneRecord'
  <2>1. ASSUME completed', NEW s \in Devices, NEW i \in Line(s)'
        PROVE  At(s, i)' # RecordTask
    <3>1. CASE s = d
          BY <1>1, <1>2, <2>1, <3>1 DEF Streams, OneRecord
    <3>2. CASE s # d
          BY <1>1, <1>2, <2>1, <3>2 DEF Streams, OneRecord
    <3>3. QED
          BY <3>1, <3>2
  <2>2. ASSUME NEW s \in Devices, NEW z \in Devices, NEW i \in Line(s)', NEW j \in Line(z)',
               At(s, i)' = RecordTask, At(z, j)' = RecordTask
        PROVE  s = z /\ i = j
    <3>1. PICK m \in Line(s) : At(s, m) = RecordTask /\ m = IF s = d THEN i + 1 ELSE i
          BY <1>1, <2>2
    <3>2. PICK n \in Line(z) : At(z, n) = RecordTask /\ n = IF z = d THEN j + 1 ELSE j
          BY <1>1, <2>2
    <3>3. s = z /\ m = n
          BY <3>1, <3>2 DEF Streams, OneRecord
    <3>4. i \in Nat /\ j \in Nat
          BY <1>4
    <3>5. QED
          BY <3>1, <3>2, <3>3, <3>4
  <2>3. QED
        BY <2>1, <2>2 DEF OneRecord
<1>6. \A l \in launched : l[2] \in Devices /\ l[1] \in Kernels
      BY DEF TypeOK
<1>7. Queued'
  <2> SUFFICES ASSUME session = "stream", NEW l \in launched, l[1] \notin ran
               PROVE  \E i \in Line(l[2])' : At(l[2], i)' = LaunchTask(l[1])
      BY DEF Queued
  <2>1. PICK i \in Line(l[2]) : At(l[2], i) = LaunchTask(l[1])
        BY DEF Streams, Queued
  <2>2. At(l[2], i) # NoTask
        BY <1>6, <2>1, TaskKinds
  <2>3. CASE l[2] = d
        BY <1>1, <2>1, <2>2, <2>3
  <2>4. CASE l[2] # d
        BY <1>1, <1>6, <2>1, <2>4
  <2>5. QED
        BY <2>3, <2>4
<1>8. Recorded'
  <2> SUFFICES ASSUME Syncing, NEW l \in launched, l[2] \notin unsynced, l[1] \notin ran
               PROVE  \E i, j \in Line(l[2])' : /\ i < j /\ At(l[2], i)' = LaunchTask(l[1])
                                                /\ At(l[2], j)' = RecordTask
      BY <1>2 DEF Recorded, Syncing
  <2>1. PICK i \in Line(l[2]), j \in Line(l[2]) : /\ i < j /\ At(l[2], i) = LaunchTask(l[1])
                                                  /\ At(l[2], j) = RecordTask
        BY DEF Streams, Recorded
  <2>2. At(l[2], i) # NoTask /\ At(l[2], j) # NoTask
        BY <1>6, <2>1, TaskKinds
  <2>3. CASE l[2] = d
    <3>1. /\ i - 1 \in Line(d)' /\ At(d, i - 1)' = At(d, i)
          /\ j - 1 \in Line(d)' /\ At(d, j - 1)' = At(d, j)
          BY <1>1, <2>1, <2>2, <2>3
    <3>2. i - 1 < j - 1
          BY <1>4, <2>1, <2>3
    <3>3. QED
          BY <2>1, <2>3, <3>1, <3>2
  <2>4. CASE l[2] # d
        BY <1>1, <1>6, <2>1, <2>4
  <2>5. QED
        BY <2>3, <2>4
<1>9. Known'
  <2> SUFFICES ASSUME NEW s \in Devices, NEW i \in Line(s)'
               PROVE  /\ At(s, i)' # NoTask => session = "stream"
                      /\ \A j \in Kernels : At(s, i)' = LaunchTask(j) => j \in Launches
      BY <1>3 DEF Known
  <2>1. CASE s = d
        BY <1>1, <2>1 DEF Streams, Known
  <2>2. CASE s # d
        BY <1>1, <2>2 DEF Streams, Known
  <2>3. QED
        BY <2>1, <2>2
<1>10. Awaited'
       BY <1>3 DEF Streams, Awaited, SynchronizeWaits, Closed
<1>11. QED
       BY <1>5, <1>7, <1>8, <1>9, <1>10 DEF Streams

(* A task has run: a launch is known to have run, a record has set the flag, *)
(* and a record is never overtaken by what stood before it.                  *)
LEMMA StreamsRun ==
  ASSUME TypeOK, Streams, NEW d \in Devices, running[d] # NoTask,
         queue' = queue, running' = [running EXCEPT ![d] = NoTask], unsynced' = unsynced,
         completed' = (completed \/ running[d] = RecordTask), ran \subseteq ran',
         \A k \in Kernels : running[d] = LaunchTask(k) => k \in ran',
         UNCHANGED <<session, client, launched, promised>>
  PROVE  Streams'
<1>1. /\ \A s \in Devices : Line(s)' = Line(s)
      /\ At(d, 0)' = NoTask /\ At(d, 0) = running[d]
      /\ \A s \in Devices : \A i \in Line(s) :
           (s = d /\ i = 0) \/ At(s, i)' = At(s, i)
      BY RunPlaces
<1>2. \A s \in Devices : 0 \in Line(s) /\ Line(s) \subseteq Nat
      BY Places
<1>3. Launches' = Launches
      BY DEF Launches
<1>4. \A s \in Devices : \A i \in Line(s)' :
        /\ i \in Line(s)
        /\ At(s, i)' # NoTask => At(s, i)' = At(s, i) /\ ~(s = d /\ i = 0)
      BY <1>1
<1>5. OneRecord'
  <2>1. ASSUME completed', NEW s \in Devices, NEW i \in Line(s)', At(s, i)' = RecordTask
        PROVE  FALSE
    <3>1. i \in Line(s) /\ At(s, i) = RecordTask /\ ~(s = d /\ i = 0)
          BY <1>4, <2>1, TaskKinds
    <3>2. CASE completed
          BY <3>1, <3>2 DEF Streams, OneRecord
    <3>3. CASE running[d] = RecordTask
          BY <1>1, <1>2, <3>1, <3>3 DEF Streams, OneRecord
    <3>4. QED
          BY <2>1, <3>2, <3>3
  <2>2. \A s \in Devices : \A i \in Line(s)' :
          At(s, i)' = RecordTask => i \in Line(s) /\ At(s, i) = RecordTask
        BY <1>4, TaskKinds
  <2>3. QED
        BY <2>1, <2>2 DEF Streams, OneRecord
<1>6. \A l \in launched : l[2] \in Devices /\ l[1] \in Kernels
      BY DEF TypeOK
<1>7. ASSUME NEW l \in launched, l[1] \notin ran', NEW i \in Line(l[2]),
             At(l[2], i) = LaunchTask(l[1])
      PROVE  i \in Line(l[2])' /\ At(l[2], i)' = LaunchTask(l[1])
      BY <1>1, <1>6, <1>7
<1>8. Queued'
  <2> SUFFICES ASSUME session = "stream", NEW l \in launched, l[1] \notin ran'
               PROVE  \E i \in Line(l[2])' : At(l[2], i)' = LaunchTask(l[1])
      BY DEF Queued
  <2>1. PICK i \in Line(l[2]) : At(l[2], i) = LaunchTask(l[1])
        BY DEF Streams, Queued
  <2>2. QED
        BY <1>7, <2>1
<1>9. Recorded'
  <2> SUFFICES ASSUME Syncing, NEW l \in launched, l[2] \notin unsynced, l[1] \notin ran'
               PROVE  \E i, j \in Line(l[2])' : /\ i < j /\ At(l[2], i)' = LaunchTask(l[1])
                                                /\ At(l[2], j)' = RecordTask
      BY DEF Recorded, Syncing
  <2>1. PICK i \in Line(l[2]), j \in Line(l[2]) : /\ i < j /\ At(l[2], i) = LaunchTask(l[1])
                                                  /\ At(l[2], j) = RecordTask
        BY DEF Streams, Recorded
  <2>2. i \in Line(l[2])' /\ At(l[2], i)' = LaunchTask(l[1])
        BY <1>7, <2>1
  <2>3. j # 0
        BY <1>2, <1>6, <2>1
  <2>4. j \in Line(l[2])' /\ At(l[2], j)' = RecordTask
        BY <1>1, <1>6, <2>1, <2>3
  <2>5. QED
        BY <2>1, <2>2, <2>4
<1>10. Known'
  <2> SUFFICES ASSUME NEW s \in Devices, NEW i \in Line(s)'
               PROVE  /\ At(s, i)' # NoTask => session = "stream"
                      /\ \A j \in Kernels : At(s, i)' = LaunchTask(j) => j \in Launches
      BY <1>3 DEF Known
  <2>1. QED
        BY <1>4, TaskKinds DEF Streams, Known
<1>11. Awaited'
       BY <1>3 DEF Streams, Awaited, SynchronizeWaits, Closed
<1>12. QED
       BY <1>5, <1>8, <1>9, <1>10, <1>11 DEF Streams

(* The workers: a launch, a command that runs the simulator, or a record. *)
LEMMA StreamsWorker ==
  ASSUME TypeOK, Streams, NEW d \in Devices, Worker(d)
  PROVE  Streams'
<1>1. CASE SendCommand(d)
  <2>1. /\ running[d].op \in {"launch", "sync"} /\ queue' = queue /\ unsynced' = unsynced
        /\ running' = [running EXCEPT ![d] = NoTask] /\ completed' = completed
        /\ UNCHANGED <<session, client, launched, promised>> /\ ran \subseteq ran'
        BY <1>1 DEF SendCommand
  <2>2. running[d] # NoTask /\ running[d] # RecordTask
        BY <2>1 DEF NoTask, RecordTask
  <2>3. \A k \in Kernels : running[d] = LaunchTask(k) => k \in ran'
        BY <1>1 DEF SendCommand, LaunchTask
  <2>4. completed' = (completed \/ running[d] = RecordTask)
        BY <2>1, <2>2 DEF TypeOK
  <2>5. QED
        BY <2>1, <2>2, <2>3, <2>4, StreamsRun
<1>2. CASE Take(d) /\ UNCHANGED <<driverVars, simVars, fifo, live, legoVars>>
      BY <1>2, StreamsTake DEF driverVars
<1>3. CASE RunRecord(d) /\ UNCHANGED <<driverVars, simVars, fifo, live, legoVars>>
  <2>1. /\ running[d] = RecordTask /\ queue' = queue /\ unsynced' = unsynced
        /\ running' = [running EXCEPT ![d] = NoTask] /\ completed' = TRUE
        BY <1>3 DEF RunRecord
  <2>2. UNCHANGED <<session, client, launched, promised, ran>>
        BY <1>3 DEF driverVars
  <2>3. running[d] # NoTask /\ \A k \in Kernels : running[d] # LaunchTask(k)
        BY <2>1, TaskKinds
  <2>4. completed' = (completed \/ running[d] = RecordTask)
        BY <2>1
  <2>5. ran \subseteq ran' /\ \A k \in Kernels : running[d] = LaunchTask(k) => k \in ran'
        BY <2>2, <2>3
  <2>6. QED
        BY <2>1, <2>2, <2>3, <2>4, <2>5, StreamsRun
<1>4. QED
      BY <1>1, <1>2, <1>3 DEF Worker

(* The client. *)
LEMMA StreamsClient ==
  ASSUME TypeOK, Sessions, Streams, Home = 0,
         \/ ClientReturns \/ ClientChooses \/ Until \/ TimeoutExpires
  PROVE  Streams'
<1> USE DEF Syncing, Closed
<1>1. CASE OpenFifo
      BY <1>1, StreamsFrame DEF OpenFifo
<1>2. CASE CloseFifo
      BY <1>2, StreamsFrame DEF CloseFifo
<1>3. CASE communicate
      BY <1>3, StreamsFrame DEF communicate, driverVars
<1>4. CASE UntilReturns
      BY <1>4, StreamsFrame DEF UntilReturns
<1>5. CASE StandaloneReturns
  <2>1. session # "stream"
        BY <1>5 DEF StandaloneReturns, Sessions
  <2>2. QED
        BY <1>5, <2>1, StreamsFrame DEF StandaloneReturns
<1>6. CASE TimeoutExpires
      BY <1>6, StreamsFrame DEF TimeoutExpires
<1>7. QED
      BY <1>1, <1>2, <1>3, <1>4, <1>5, <1>6, StreamsReturn, StreamsRecord, StreamsLaunch,
         StreamsCommand
      DEF ClientReturns, ClientChooses, Until

LEMMA StreamsNext == Home = 0 /\ TypeOK /\ Sessions /\ Streams /\ [Next]_vars => Streams'
<1> SUFFICES ASSUME Home = 0, TypeOK, Sessions, Streams, [Next]_vars PROVE Streams'
    OBVIOUS
<1>1. CASE UNCHANGED vars
      BY <1>1, StreamsFrame DEF vars, driverVars, Syncing, Closed
<1>2. CASE \/ Simulator \/ Crash \/ CoordinatorExits
           \/ \E l \in {"ssd", "dram"} : Simlet(l)
  <2>1. UNCHANGED streamVars /\ UNCHANGED driverVars
        BY <1>2, SimulatorSteps
  <2>2. QED
        BY <2>1, StreamsFrame DEF driverVars, Syncing, Closed
<1>3. CASE Terminated
      BY <1>1, <1>3 DEF Terminated
<1>4. QED
      BY <1>1, <1>2, <1>3, StreamsClient, StreamsWorker DEF Next

-----------------------------------------------------------------------------
(* Commands. From a stream's worker to the simulator's last cycle.           *)

LEMMA CommandsInit == Init => Commands
<1> SUFFICES ASSUME Init PROVE Commands
    OBVIOUS
<1>1. sim = "starting" /\ ran = {} /\ handle = "closed"
      BY DEF Init
<1>2. CASE session = "stream" /\ client = "opening" /\ live = {"sim"}
      BY <1>1, <1>2 DEF Commands, Written, Ending, Gone
<1>3. ASSUME session = "standalone", NEW k \in Kernels, fifo = <<LaunchTask(k)>>,
             launched = {<<k, Home>>}
      PROVE  Commands
  <2>1. Launches \subseteq {k} /\ 1 \in DOMAIN fifo /\ fifo[1] = LaunchTask(k)
        BY <1>3 DEF Launches
  <2>2. QED
        BY <1>1, <1>3, <2>1 DEF Commands, Written, Ending
<1>4. QED
      BY <1>2, <1>3 DEF Init

(* A step that writes no command and reads none. *)
LEMMA CommandsFrame ==
  ASSUME Commands, UNCHANGED <<session, sim, pending, simulated, fifo, handle>>,
         Written' = Written,
         session = "stream" => /\ "sim" \in live' <=> "sim" \in live
                               /\ client' = "opening" <=> client = "opening"
                               /\ Closed' <=> Closed
  PROVE  Commands'
  BY DEF Commands

LEMMA CommandsClient ==
  ASSUME Sessions, Commands, \/ ClientReturns \/ ClientChooses \/ Until \/ TimeoutExpires
  PROVE  Commands'
<1> USE DEF simVars, Closed
<1>1. CASE OpenFifo
  <2>1. /\ client = "opening" /\ client' = "script" /\ handle' = "open" /\ sim = "opened"
        /\ UNCHANGED <<session, sim, pending, simulated, fifo, live>> /\ session = "stream"
        /\ Written' = Written
        BY <1>1 DEF OpenFifo, Sessions, Written, Launches
  <2>2. QED
        BY <2>1 DEF Commands, Ending
<1>2. CASE CloseFifo
  <2>1. /\ client = "closing" /\ client' = "draining" /\ handle' = "closed"
        /\ UNCHANGED <<session, sim, pending, simulated, fifo, live>> /\ session = "stream"
        /\ Written' = Written
        BY <1>2 DEF CloseFifo, Sessions, Written, Launches
  <2>2. QED
        BY <2>1 DEF Commands
<1>3. CASE communicate
      BY <1>3, CommandsFrame DEF communicate, driverVars, Written, Launches
<1>4. CASE UntilReturns
      BY <1>4, CommandsFrame DEF UntilReturns, Written, Launches
<1>5. CASE StandaloneReturns \/ TimeoutExpires
  <2>1. /\ session # "stream" /\ Written' = Written
        /\ UNCHANGED <<session, sim, pending, simulated, fifo, handle>>
        BY <1>5 DEF StandaloneReturns, TimeoutExpires, Sessions, Written, Launches
  <2>2. QED
        BY <2>1, CommandsFrame
<1>6. CASE SyncReturns
      BY <1>6, CommandsFrame DEF SyncReturns, Written, Launches
<1>7. ASSUME NEW d \in Devices, SyncNext(d) PROVE Commands'
      BY <1>7, CommandsFrame DEF SyncNext, driverVars, Written, Launches
<1>8. ASSUME NEW k \in Kernels, NEW d \in Devices, Launch(k, d) PROVE Commands'
  <2>1. /\ session = "stream" /\ UNCHANGED <<session, client, ran, handle, simVars, fifo, live>>
        BY <1>8 DEF Launch, Sessions
  <2>2. QED
        BY <2>1, CommandsFrame DEF Written
<1>9. ASSUME NEW next \in {"sync", "until"}, Synchronize(next) PROVE Commands'
      BY <1>9, CommandsFrame DEF Synchronize, Written, Launches
<1>10. QED
       BY <1>1, <1>2, <1>3, <1>4, <1>5, <1>6, <1>7, <1>8, <1>9
       DEF ClientReturns, ClientChooses, Until

(* A command is written while the client holds the FIFO open and the         *)
(* simulator reads; it is dropped when the simulator has died, for the       *)
(* streams have nothing left to write once the FIFO is closed.               *)
LEMMA CommandsSend ==
  ASSUME TypeOK, Streams, Commands, NEW d \in Devices, SendCommand(d)
  PROVE  Commands'
<1> DEFINE t == running[d]
<1>1. /\ t.op \in {"launch", "sync"}
      /\ ran' = IF t.op = "launch" THEN ran \cup {t.kernel} ELSE ran
      /\ UNCHANGED <<session, client, launched, handle, sim, pending, simulated, live>>
      BY DEF SendCommand, simVars
<1>2. t \in Tasks /\ fifo \in Seq(Tasks)
      BY <1>1 DEF TypeOK, NoTask
<1>3. t.op = "launch" => t.kernel \in Kernels /\ t = LaunchTask(t.kernel)
      BY <1>2, TaskKinds
<1>4. At(d, 0) = t /\ 0 \in Line(d)
      BY Places DEF At
<1>5. session = "stream" /\ (t.op = "launch" => t.kernel \in Launches)
      BY <1>2, <1>3, <1>4, TaskKinds DEF Streams, Known
<1>6. Written = ran /\ Written' = ran' /\ Launches' = Launches
      BY <1>1, <1>5 DEF Written, Launches
<1> HIDE DEF t
<1>7. CASE "sim" \in live /\ handle = "open" /\ fifo' = Append(fifo, t)
  <2>1. sim \notin {"final"} \cup Ending
        BY <1>5, <1>7 DEF Commands
  <2>2. \E i \in DOMAIN fifo' : fifo'[i] = t
    <3>1. Len(fifo) + 1 \in DOMAIN fifo' /\ fifo'[Len(fifo) + 1] = t
          BY <1>2, <1>7
    <3>2. QED
          BY <3>1
  <2>3. \A i \in DOMAIN fifo : i \in DOMAIN fifo' /\ fifo'[i] = fifo[i]
        BY <1>2, <1>7
  <2>4. ASSUME sim \notin {"refused", "crashed"}, NEW k \in ran' \ Faulty
        PROVE  k \in pending \cup simulated \/ \E i \in DOMAIN fifo' : fifo'[i] = LaunchTask(k)
    <3>1. CASE k \in ran
          BY <1>6, <2>3, <2>4, <3>1 DEF Commands
    <3>2. CASE t.op = "launch" /\ k = t.kernel
          BY <1>3, <2>2, <3>2
    <3>3. QED
          BY <1>1, <2>4, <3>1, <3>2
  <2>5. QED
        BY <1>1, <1>5, <1>6, <2>1, <2>4 DEF Commands, Closed
<1>8. CASE fifo' = fifo /\ ("sim" \notin live \/ handle = "closed")
  <2>1. CASE sim \in {"refused", "crashed"}
        BY <1>1, <1>5, <1>8, <2>1 DEF Commands, Closed
  <2>2. CASE sim \notin {"refused", "crashed"}
    <3>1. client = "opening" \/ Closed
      <4>1. CASE handle = "closed"
            BY <1>5, <4>1 DEF Commands
      <4>2. CASE "sim" \notin live
            BY <1>5, <2>2, <4>2 DEF Commands, Gone, Ending
      <4>3. QED
            BY <1>8, <4>1, <4>2
    <3>2. t.op = "launch" => t.kernel \in ran
      <4>1. CASE client = "opening"
            BY <1>5, <4>1 DEF Streams, Awaited, Launches
      <4>2. CASE Closed
            BY <1>5, <4>2 DEF Streams, Awaited
      <4>3. QED
            BY <3>1, <4>1, <4>2
    <3>3. ran' = ran
          BY <1>1, <3>2
    <3>4. QED
          BY <1>1, <1>6, <1>8, <3>3, CommandsFrame DEF Closed
  <2>3. QED
        BY <2>1, <2>2
<1>9. QED
      BY <1>7, <1>8 DEF SendCommand, t

(* A command that is read is handed to the scheduler, or was refused. *)
LEMMA CommandsRead ==
  ASSUME TypeOK, Commands, ReadCommand
  PROVE  Commands'
<1>1. /\ sim = "opened" /\ fifo # << >> /\ fifo' = Tail(fifo) /\ sim' \in {"opened", "simulating"}
      /\ UNCHANGED <<session, client, launched, ran, handle, simulated, live>>
      /\ pending \subseteq pending'
      BY DEF ReadCommand, driverVars
<1>2. Written' = Written
      BY <1>1 DEF Written, Launches
<1>3. /\ Head(fifo) \in Tasks /\ Head(fifo) = fifo[1]
      /\ \A i \in DOMAIN fifo : i = 1 \/ (i - 1 \in DOMAIN fifo' /\ fifo'[i - 1] = fifo[i])
      BY <1>1, HeadOfFifo
<1>4. \A k \in Kernels : Head(fifo) = LaunchTask(k) => k \in pending' \/ k \in Faulty
      BY <1>3 DEF ReadCommand, LaunchTask
<1>5. ASSUME NEW k \in Written \ Faulty
      PROVE  k \in pending' \cup simulated \/ \E i \in DOMAIN fifo' : fifo'[i] = LaunchTask(k)
  <2>1. k \in Kernels
        BY DEF Written, Launches, TypeOK
  <2>2. k \in pending \cup simulated \/ \E i \in DOMAIN fifo : fifo[i] = LaunchTask(k)
        BY <1>1 DEF Commands
  <2>3. ASSUME NEW i \in DOMAIN fifo, fifo[i] = LaunchTask(k)
        PROVE  k \in pending' \/ \E j \in DOMAIN fifo' : fifo'[j] = LaunchTask(k)
    <3>1. CASE i = 1
          BY <1>3, <1>4, <2>1, <2>3, <3>1
    <3>2. CASE i # 1
          BY <1>3, <2>3, <3>2
    <3>3. QED
          BY <3>1, <3>2
  <2>4. QED
        BY <1>1, <2>2, <2>3
<1>6. sim' \notin {"final"} \cup Ending /\ sim \notin Gone /\ sim' \notin Gone
      BY <1>1 DEF Ending, Gone
<1>7. (session = "stream" => ("sim" \in live' <=> sim' \notin Gone)
                             /\ (handle' = "closed" <=> client' = "opening" \/ Closed'))
      /\ (session = "standalone" => handle' = "closed")
      BY <1>1, <1>6 DEF Commands, Closed
<1>8. QED
      BY <1>1, <1>2, <1>5, <1>6, <1>7 DEF Commands

(* The last cycle simulates what was handed over after the last command that *)
(* runs the simulator; the links are shut down after it.                     *)
LEMMA CommandsSimulator ==
  ASSUME TypeOK, Commands, \/ Simulator \/ Crash \/ CoordinatorExits
                           \/ \E l \in {"ssd", "dram"} : Simlet(l)
  PROVE  Commands'
<1> DEFINE Dead == {"refused", "crashed"}
<1>1. UNCHANGED driverVars
      BY SimulatorSteps
<1>2. /\ UNCHANGED <<session, client, handle>> /\ Written' = Written /\ Closed' = Closed
      BY <1>1 DEF driverVars, Written, Launches, Closed
<1>3. CASE /\ sim' = sim /\ pending' = pending /\ simulated' = simulated /\ fifo' = fifo
           /\ "sim" \in live' <=> "sim" \in live
      BY <1>2, <1>3, CommandsFrame
<1>4. CASE SimStart
  <2>1. /\ sim = "starting" /\ UNCHANGED <<pending, simulated, fifo>>
        /\ \/ sim' = "opened" /\ live' = live
           \/ sim' = "refused" /\ live' = live \ {"sim"}
        BY <1>4 DEF SimStart
  <2>2. QED
        BY <1>2, <2>1 DEF Commands, Ending, Gone
<1>5. CASE EndOfFile
  <2>1. /\ sim = "opened" /\ sim' = "final" /\ fifo = << >> /\ handle = "closed"
        /\ client # "opening" /\ UNCHANGED <<pending, simulated, fifo, live>>
        BY <1>5 DEF EndOfFile
  <2>2. session = "stream" => Closed
        BY <2>1 DEF Commands
  <2>3. QED
        BY <1>2, <2>1, <2>2 DEF Commands, Ending, Gone
<1>6. CASE CycleReturns
  <2>1. /\ sim \in {"simulating", "final"} /\ sim' = IF sim = "final" THEN "end_ssd" ELSE "opened"
        /\ simulated' = simulated \cup pending /\ pending' = {} /\ UNCHANGED <<fifo, live>>
        BY <1>6 DEF CycleReturns, Simulating
  <2>2. QED
        BY <1>2, <2>1 DEF Commands, Ending, Gone
<1>7. CASE ShutdownLinks
  <2>1. /\ sim \in {"end_ssd", "ack_ssd", "end_dram", "ack_dram"}
        /\ sim' \in {"ack_ssd", "end_dram", "ack_dram", "leaving"}
        /\ UNCHANGED <<pending, simulated, fifo, live>>
        BY <1>7 DEF ShutdownLinks, Shutdown
  <2>2. QED
        BY <1>2, <2>1 DEF Commands, Ending, Gone
<1>8. CASE Exit
  <2>1. /\ sim = "leaving" /\ sim' = "exited" /\ live' = live \ {"sim"}
        /\ UNCHANGED <<pending, simulated, fifo>>
        BY <1>8 DEF Exit
  <2>2. QED
        BY <1>2, <2>1 DEF Commands, Ending, Gone
<1>9. CASE Crash
  <2>1. /\ sim' = "crashed" /\ live' = live \ {"sim"} /\ UNCHANGED <<pending, simulated, fifo>>
        BY <1>9 DEF Crash
  <2>2. QED
        BY <1>2, <2>1 DEF Commands, Ending, Gone
<1>10. QED
       BY <1>3, <1>4, <1>5, <1>6, <1>7, <1>8, <1>9, CommandsRead, SimulatorSteps

LEMMA CommandsNext == TypeOK /\ Sessions /\ Streams /\ Commands /\ [Next]_vars => Commands'
<1> SUFFICES ASSUME TypeOK, Sessions, Streams, Commands, [Next]_vars PROVE Commands'
    OBVIOUS
<1>1. CASE UNCHANGED vars
      BY <1>1, CommandsFrame DEF vars, driverVars, simVars, Written, Launches, Closed
<1>2. ASSUME NEW d \in Devices, UNCHANGED <<driverVars, simVars, fifo, live, legoVars>>
      PROVE  Commands'
      BY <1>2, CommandsFrame DEF driverVars, simVars, Written, Launches, Closed
<1>3. ASSUME NEW d \in Devices, Worker(d) PROVE Commands'
      BY <1>2, <1>3, CommandsSend DEF Worker
<1>4. CASE Terminated
      BY <1>1, <1>4 DEF Terminated
<1>5. QED
      BY <1>1, <1>3, <1>4, CommandsClient, CommandsSimulator DEF Next

-----------------------------------------------------------------------------
(* What the session promises, for a client on device 0.                      *)

(* The inductive invariant: the places of what was launched, from the        *)
(* streams through the FIFO to the simulator.                                *)
THEOREM LaunchInvariant == ASSUME Home = 0 PROVE Spec => []IInv
<1>1. Init => IInv
      BY TypeInit, SessionsInit, StreamsInitially, CommandsInit DEF IInv
<1>2. IInv /\ [Next]_vars => IInv'
      BY TypeNext, SessionsNext, StreamsNext, CommandsNext DEF IInv
<1>3. QED
      BY <1>1, <1>2, PTL DEF Spec

(* When synchronize has returned, the workers have run every kernel launched *)
(* on the current device: each stream's record stands behind its launches,   *)
(* and the client has seen them all complete.                                *)
THEOREM SynchronizeKeepsPromise == ASSUME Home = 0 PROVE Spec => []SynchronizeWaits
<1>1. IInv => SynchronizeWaits
      BY DEF IInv, Streams, Awaited
<1>2. QED
      BY <1>1, LaunchInvariant, PTL

(* A session that has returned, with the simulator gone through its normal   *)
(* exit, has simulated every kernel launched in it: until leaves nothing in  *)
(* the streams, and the simulator leaves nothing in the FIFO or unscheduled. *)
THEOREM NoLaunchLost == ASSUME Home = 0 PROVE Spec => []LaunchedIsSimulated
<1>1. IInv => LaunchedIsSimulated
  <2> SUFFICES ASSUME IInv, client = "returned", sim = "exited"
               PROVE  Launches \ Faulty \subseteq simulated
      BY DEF LaunchedIsSimulated
  <2>1. session \in {"stream", "standalone"}
        BY DEF IInv, Sessions
  <2>2. Launches \subseteq Written
        BY <2>1 DEF IInv, Streams, Awaited, Closed, Written
  <2>3. fifo = << >> /\ pending = {}
        BY DEF IInv, Commands, Ending
  <2>4. DOMAIN fifo = {}
        BY <2>3
  <2>5. QED
        BY <2>2, <2>3, <2>4 DEF IInv, Commands
<1>2. QED
      BY <1>1, LaunchInvariant, PTL

-----------------------------------------------------------------------------
(* Accesses. Rounding to cycles and back.                                    *)

LEMMA Division ==
  ASSUME NEW a \in Nat, NEW b \in Nat \ {0}
  PROVE  /\ a \div b \in Nat /\ (a \div b) * b <= a /\ a < (a \div b) * b + b
         /\ CeilDiv(a, b) \in Nat /\ a <= CeilDiv(a, b) * b /\ CeilDiv(a, b) * b < a + b
<1>1. \A x \in Nat : x \div b \in Nat /\ (x \div b) * b <= x /\ x < (x \div b) * b + b
      OBVIOUS
<1>2. a + b - 1 \in Nat
      OBVIOUS
<1>3. CeilDiv(a, b) = (a + b - 1) \div b
      BY DEF CeilDiv
<1>4. PICK q \in Nat : q = CeilDiv(a, b) /\ q * b <= a + b - 1 /\ a + b - 1 < q * b + b
      BY <1>1, <1>2, <1>3
<1>5. q * b \in Nat
      BY <1>4
<1>6. a <= q * b /\ q * b < a + b
      BY <1>4, <1>5
<1>7. QED
      BY <1>1, <1>4, <1>6

(* A point in time in nanoseconds and in cycles. *)
LEMMA Conversion ==
  ASSUME NEW x \in Nat
  PROVE  /\ ToNs(x) \in Nat /\ x * 1000 < ToNs(x) * CoreMHz + CoreMHz
         /\ ToCycles(x) \in Nat
         /\ ToCycles(x) * 1000 <= x * CoreMHz /\ x * CoreMHz < ToCycles(x) * 1000 + 1000
<1>1. CoreMHz \in Nat \ {0} /\ x * 1000 \in Nat /\ x * CoreMHz \in Nat
      BY LegoAssumption
<1>2. /\ ToNs(x) \in Nat /\ x * 1000 < ToNs(x) * CoreMHz + CoreMHz
  <2>1. PICK a \in Nat : a = x * 1000
        BY <1>1
  <2>2. a \div CoreMHz \in Nat /\ a < (a \div CoreMHz) * CoreMHz + CoreMHz
        BY <1>1, Division
  <2>3. ToNs(x) = a \div CoreMHz
        BY <2>1 DEF ToNs
  <2>4. QED
        BY <2>1, <2>2, <2>3
<1>3. /\ ToCycles(x) \in Nat
      /\ ToCycles(x) * 1000 <= x * CoreMHz /\ x * CoreMHz < ToCycles(x) * 1000 + 1000
      BY <1>1, Division DEF ToCycles
<1>4. QED
      BY <1>2, <1>3

(* A number of cycles, rounded up to nanoseconds. *)
LEMMA InNanoseconds ==
  ASSUME NEW e \in Nat
  PROVE  /\ CeilDiv(e * 1000, CoreMHz) \in Nat
         /\ e * 1000 <= CeilDiv(e * 1000, CoreMHz) * CoreMHz
         /\ CeilDiv(e * 1000, CoreMHz) * CoreMHz < e * 1000 + CoreMHz
<1>1. PICK a \in Nat : a = e * 1000
      OBVIOUS
<1>2. CoreMHz \in Nat \ {0}
      BY LegoAssumption
<1>3. CeilDiv(a, CoreMHz) \in Nat /\ a <= CeilDiv(a, CoreMHz) * CoreMHz
      /\ CeilDiv(a, CoreMHz) * CoreMHz < a + CoreMHz
      BY <1>2, Division
<1>4. QED
      BY <1>1, <1>3

(* The cycles an engine is busy cover the latency it was told. *)
LEMMA BusyCycles ==
  ASSUME NEW ns \in Nat, NEW cycles, cycles = Larger(1, CeilDiv(ns * CoreMHz, 1000))
  PROVE  /\ cycles \in Nat /\ cycles >= 1 /\ ns * CoreMHz <= cycles * 1000
         /\ ns >= 1 => cycles * 1000 < ns * CoreMHz + 1000
<1>1. CoreMHz \in Nat \ {0} /\ ns * CoreMHz \in Nat
      BY LegoAssumption
<1>2. PICK p \in Nat : p = ns * CoreMHz
      BY <1>1
<1>3. PICK q \in Nat : q = CeilDiv(p, 1000) /\ p <= q * 1000 /\ q * 1000 < p + 1000
  <2>1. PICK b \in Nat \ {0} : b = 1000
        OBVIOUS
  <2>2. PICK q \in Nat : q = CeilDiv(p, b) /\ p <= q * b /\ q * b < p + b
        BY Division
  <2>3. QED
        BY <2>1, <2>2
<1>4. cycles = IF 1 > q THEN 1 ELSE q
      BY <1>2, <1>3 DEF Larger
<1>5. ns >= 1 => p >= 1
      BY <1>1, <1>2
<1>6. /\ cycles \in Nat /\ cycles >= 1 /\ p <= cycles * 1000
      /\ p >= 1 => cycles * 1000 < p + 1000
      BY <1>3, <1>4
<1>7. QED
      BY <1>2, <1>5, <1>6

(* An access takes a nanosecond at least. *)
LEMMA Latency ==
  ASSUME NEW link \in {"ssd", "dram"}, NEW op \in Accesses
  PROVE  /\ compute_latency_ns(link, op.addr, Bytes(op)) \in Nat
         /\ compute_latency_ns(link, op.addr, Bytes(op)) >= 1
<1>1. op.addr \in Nat /\ op.bits \in Nat \ {0}
      BY DEF Accesses
<1>2. PICK n \in Nat \ {0} : n = Bytes(op)
  <2>1. PICK m \in Nat : m = op.bits + 7 /\ m >= 8
        BY <1>1
  <2>2. 8 \in Nat \ {0}
        OBVIOUS
  <2>3. PICK q \in Nat : q = m \div 8 /\ m < q * 8 + 8
        BY <2>2, Division
  <2>4. q # 0
    <3>1. m \in Nat /\ m >= 8
          BY <2>1
    <3>2. q \in Nat /\ m < q * 8 + 8
          BY <2>3
    <3>3. QED
          BY <3>1, <3>2
  <2>5. QED
        BY <2>1, <2>3, <2>4 DEF Bytes
<1>3. PICK p \in Nat \ {0} : p = pages_touched(op.addr, n)
  <2> DEFINE hi == (op.addr + n - 1) \div PageBytes
             lo == op.addr \div PageBytes
  <2>1. op.addr + n - 1 \in Nat /\ op.addr <= op.addr + n - 1 /\ PageBytes \in Nat \ {0}
        BY <1>1, <1>2, LegoAssumption
  <2>2. hi \in Nat /\ lo \in Nat /\ lo * PageBytes <= op.addr
        /\ op.addr + n - 1 < hi * PageBytes + PageBytes
        BY <1>1, <2>1, Division
  <2>3. pages_touched(op.addr, n) = hi - lo + 1
        BY <1>2 DEF pages_touched
  <2> HIDE DEF hi, lo
  <2>4. lo * PageBytes < (hi + 1) * PageBytes
        BY <1>1, <1>2, <2>1, <2>2
  <2>5. lo < hi + 1
        BY <2>1, <2>2, <2>4
  <2>6. QED
        BY <2>2, <2>3, <2>5
<1>4. Bandwidth[link] \in Nat \ {0} /\ BaseLatency[link] \in Nat /\ PageBytes \in Nat \ {0}
      BY LegoAssumption
<1>5. p * PageBytes \in Nat \ {0}
      BY <1>4
<1>6. PICK q \in Nat : q = CeilDiv(p * PageBytes, Bandwidth[link])
                       /\ p * PageBytes <= q * Bandwidth[link]
      BY <1>4, <1>5, Division
<1>7. q # 0
      BY <1>4, <1>5, <1>6
<1>8. compute_latency_ns(link, op.addr, Bytes(op)) = BaseLatency[link] + q
      BY <1>2, <1>3, <1>6 DEF compute_latency_ns
<1>9. QED
      BY <1>4, <1>7, <1>8

(* The answer of the DRAM simlet, whose clock then shows now, to a question  *)
(* asked at the cycle at: the engine is busy for the latency, its end is not *)
(* before the simlet's, and not much after it.                               *)
AnswerGiven(at, now, latency, resolved, elapsed, cycles) ==
  /\ latency >= 1 /\ now >= ToNs(at) + latency
  /\ resolved = Larger(at, ToCycles(now))
  /\ elapsed = IF resolved > at THEN resolved - at ELSE 1
  /\ elapsed <= cycles /\ cycles * 1000 < elapsed * 1000 + CoreMHz + 1000
AnswerInTime(at, now, latency, cycles) ==
  /\ Covers(cycles, latency, 1)
  /\ (at + cycles) * 1000 <= (now + 1) * CoreMHz + 2000
  /\ now * CoreMHz <= (at + cycles) * 1000 + 1000

LEMMA AnswerTiming ==
  ASSUME NEW at \in Nat, NEW now \in Nat, NEW latency \in Nat, NEW resolved \in Nat,
         NEW elapsed \in Nat, NEW cycles \in Nat,
         AnswerGiven(at, now, latency, resolved, elapsed, cycles)
  PROVE  AnswerInTime(at, now, latency, cycles)
<1>0. /\ latency >= 1 /\ now >= ToNs(at) + latency
      /\ resolved = Larger(at, ToCycles(now))
      /\ elapsed = (IF resolved > at THEN resolved - at ELSE 1)
      /\ elapsed <= cycles /\ cycles * 1000 < elapsed * 1000 + CoreMHz + 1000
      BY DEF AnswerGiven
<1> DEFINE M == CoreMHz
           P == now * CoreMHz
           L == latency * CoreMHz
           S == ToNs(at) * CoreMHz
<1>1. M \in Nat \ {0}
      BY LegoAssumption
<1>2. /\ ToNs(at) \in Nat /\ at * 1000 < S + M
      BY Conversion
<1>3. PICK t \in Nat : t = ToCycles(now) /\ t * 1000 <= P /\ P < t * 1000 + 1000
      BY Conversion
<1>4. P \in Nat /\ L \in Nat /\ S \in Nat /\ L >= M /\ P >= S + L
  <2>1. P \in Nat /\ L \in Nat /\ S \in Nat
        BY <1>1, <1>2
  <2>2. L >= M
        BY <1>0, <1>1
  <2>3. P >= (ToNs(at) + latency) * M
        BY <1>0, <1>1, <1>2
  <2>4. (ToNs(at) + latency) * M = S + L
        BY <1>1, <1>2
  <2>5. QED
        BY <2>1, <2>2, <2>3, <2>4
<1>5. resolved = (IF at > t THEN at ELSE t) /\ elapsed \in Nat /\ elapsed >= 1
      /\ at + elapsed >= t /\ (elapsed = 1 \/ at + elapsed = t)
      BY <1>0, <1>3 DEF Larger
<1>6. elapsed <= cycles /\ cycles * 1000 < elapsed * 1000 + M + 1000
      BY <1>0
<1>7. (latency - 1) * M = L - M /\ (now + 1) * M = P + M
      BY <1>1
<1> HIDE DEF M, P, L, S
<1>8. (cycles + 1) * 1000 >= L - M
      BY <1>1, <1>2, <1>3, <1>4, <1>5, <1>6
<1>9. (at + cycles) * 1000 <= P + M + 2000
      BY <1>1, <1>2, <1>3, <1>4, <1>5, <1>6
<1>10. P <= (at + cycles) * 1000 + 1000
       BY <1>1, <1>3, <1>4, <1>5, <1>6
<1>11. QED
       BY <1>7, <1>8, <1>9, <1>10 DEF AnswerInTime, Covers, M, P

(* A recorded latency, and one of the SSD simlet, is one in nanoseconds. *)
LEMMA PlainTiming ==
  ASSUME NEW latency \in Nat, NEW cycles, cycles = Larger(1, CeilDiv(latency * CoreMHz, 1000))
  PROVE  cycles \in Nat /\ Covers(cycles, latency, 1)
<1>1. CoreMHz \in Nat \ {0} /\ latency * CoreMHz \in Nat
      BY LegoAssumption
<1>2. cycles \in Nat /\ latency * CoreMHz <= cycles * 1000
      BY BusyCycles
<1>3. (latency - 1) * CoreMHz = latency * CoreMHz - CoreMHz
      BY <1>1
<1>4. PICK p \in Nat : p = latency * CoreMHz
      BY <1>1
<1>5. (cycles + 1) * 1000 >= p - CoreMHz
      BY <1>1, <1>2, <1>4
<1>6. QED
      BY <1>2, <1>3, <1>4, <1>5 DEF Covers

LEMMA AccessInit == Init => AccessInv
<1> SUFFICES ASSUME Init PROVE AccessInv
    OBVIOUS
<1>1. /\ cycle = 0 /\ visit = 0 /\ todo = [c \in Cores |-> << >>] /\ call = NoCall
      /\ timeNow = 1 /\ log = << >> /\ replay \in {<< >>, load_latency_file(LatencyRows)}
      /\ links \subseteq {"ssd", "dram"}
      BY DEF Init, LegoInit, SsdTraceManager
<1>2. \A k \in DOMAIN replay : replay[k] \in Seq(Nat) \ {<< >>}
      BY <1>1, FileAssumption
<1>3. visit \in Cores
      BY <1>1, LegoAssumption DEF Cores
<1>4. DOMAIN log = {} /\ log \in Seq(Entries)
      BY <1>1
<1>5. AccessTypes
      BY <1>1, <1>2, <1>3, <1>4 DEF AccessTypes
<1>6. Clocked /\ LatencyCovered
      BY <1>1, <1>4 DEF Clocked, LatencyCovered, Asking
<1>7. QED
      BY <1>5, <1>6 DEF AccessInv

LEMMA TurnPasses ==
  ASSUME AccessTypes, PassTurn
  PROVE  cycle' \in Nat /\ visit' \in Cores
<1>1. visit \in 0 .. NumCores - 1 /\ NumCores \in Nat \ {0} /\ cycle \in Nat
      BY LegoAssumption DEF AccessTypes, Cores
<1>2. visit + 1 \in Nat
      BY <1>1
<1>3. (visit + 1) % NumCores \in 0 .. NumCores - 1
      BY <1>1, <1>2
<1>4. QED
      BY <1>1, <1>3 DEF PassTurn, Cores

LEMMA NoQuestion ==
  ASSUME AccessTypes, call.link = "none"
  PROVE  call = NoCall /\ ~Asking /\ Owed = 0
<1>1. call = NoCall
      BY DEF AccessTypes
<1>2. QED
      BY <1>1 DEF Asking, Owed

(* The next access of the core whose turn it is. *)
LEMMA NextAccess ==
  ASSUME AccessTypes, HasNext
  PROVE  NextOp \in Accesses /\ (IssueTile => todo' \in [Cores -> Seq(Accesses)])
<1>1. todo[visit] \in Seq(Accesses) /\ todo[visit] # << >>
      BY DEF AccessTypes, HasNext
<1>2. Head(todo[visit]) \in Accesses /\ Tail(todo[visit]) \in Seq(Accesses)
      BY <1>1
<1>3. QED
      BY <1>2 DEF NextOp, IssueTile, AccessTypes

(* A step that neither asks nor answers. *)
LEMMA AccessQuiet ==
  ASSUME AccessInv, UNCHANGED <<links, timeNow, log>>, cycle' \in Nat, visit' \in Cores,
         todo' \in [Cores -> Seq(Accesses)],
         \A k \in DOMAIN replay' : replay'[k] \in Seq(Nat) \ {<< >>},
         call' = call, Asking => cycle' = cycle
  PROVE  AccessInv'
<1>1. AccessTypes'
      BY DEF AccessInv, AccessTypes
<1>2. Asking' = Asking /\ Owed' = Owed
      BY DEF Asking, Owed
<1>3. Clocked'
      BY <1>2 DEF AccessInv, Clocked
<1>4. LatencyCovered'
      BY DEF AccessInv, LatencyCovered
<1>5. QED
      BY <1>1, <1>3, <1>4 DEF AccessInv

(* A question or an acknowledgement, of which the ledger knows nothing. *)
LEMMA AccessCall ==
  ASSUME AccessInv, UNCHANGED <<links, cycle, visit, replay, timeNow, log>>,
         todo' \in [Cores -> Seq(Accesses)], Owed = 0,
         \/ call' = NoCall
         \/ \E link \in {"ssd", "dram"}, op \in Accesses : call' = Request(link, op, cycle)
         \/ \E link \in {"ssd", "dram"} : call' = Request(link, Terminate, 0)
  PROVE  AccessInv'
<1>1. /\ call' = NoCall \/ call' \in [link : {"ssd", "dram"}, op : Accesses \cup {Terminate},
             at : Nat, answered : BOOLEAN, latency : Nat, resolved : Nat]
      /\ Asking' => call'.at = cycle /\ ~call'.answered
  <2>1. CASE call' = NoCall
        BY <2>1 DEF Asking
  <2>2. ASSUME NEW link \in {"ssd", "dram"}, NEW op \in Accesses, call' = Request(link, op, cycle)
        PROVE  <1>1!1 /\ <1>1!2
        BY <2>2 DEF Request, AccessInv, AccessTypes
  <2>3. ASSUME NEW link \in {"ssd", "dram"}, call' = Request(link, Terminate, 0)
        PROVE  <1>1!1 /\ <1>1!2
        BY <2>3 DEF Request, Asking
  <2>4. QED
        BY <2>1, <2>2, <2>3
<1>2. Owed' = 0
      BY <1>1 DEF Owed
<1>3. AccessTypes'
      BY <1>1 DEF AccessInv, AccessTypes
<1>4. Clocked'
      BY <1>1, <1>2 DEF AccessInv, Clocked
<1>5. LatencyCovered'
      BY DEF AccessInv, LatencyCovered
<1>6. QED
      BY <1>3, <1>4, <1>5 DEF AccessInv

(* An access is entered in the history. *)
LEMMA LogAppend ==
  ASSUME AccessInv, NEW op \in Accesses, NEW link \in {"ssd", "dram", "replay"},
         NEW latency \in Nat, NEW ns \in Nat, Answered(op, link, latency, ns)
  PROVE  \E cycles \in Nat :
           /\ cycles = Larger(1, CeilDiv(ns * CoreMHz, 1000))
           /\ log' \in Seq(Entries)
           /\ DOMAIN log' = 1 .. Len(log) + 1 /\ Len(log) \in Nat
           /\ \A j \in DOMAIN log : log'[j] = log[j]
           /\ log'[Len(log) + 1].link = link /\ log'[Len(log) + 1].latency = latency
           /\ log'[Len(log) + 1].issued = cycle /\ log'[Len(log) + 1].finish = cycle + cycles
<1>1. PICK cycles \in Nat : cycles = Larger(1, CeilDiv(ns * CoreMHz, 1000))
      BY BusyCycles
<1> DEFINE e == [core |-> visit, op |-> op, link |-> link, issued |-> cycle,
                 latency |-> latency, finish |-> cycle + cycles]
<1>2. log' = Append(log, e)
      BY <1>1 DEF Answered
<1>3. visit \in Cores /\ cycle \in Nat /\ log \in Seq(Entries)
      BY DEF AccessInv, AccessTypes
<1>4. e \in Entries /\ e.link = link /\ e.latency = latency /\ e.issued = cycle
      /\ e.finish = cycle + cycles
      BY <1>1, <1>3 DEF Entries
<1> HIDE DEF e
<1>5. /\ log' \in Seq(Entries) /\ DOMAIN log' = 1 .. Len(log) + 1 /\ Len(log) \in Nat
      /\ \A j \in DOMAIN log : log'[j] = log[j]
      /\ log'[Len(log) + 1] = e
      BY <1>2, <1>3, <1>4
<1>6. QED
      BY <1>1, <1>4, <1>5

(* The history keeps its property when the new entry has it. *)
LEMMA CoveredAppend ==
  ASSUME AccessInv, NEW n \in Nat, n = Len(log), DOMAIN log' = 1 .. n + 1,
         \A j \in DOMAIN log : log'[j] = log[j],
         Covers(log'[n + 1].finish - log'[n + 1].issued, log'[n + 1].latency, 1),
         log'[n + 1].link = "dram" =>
           \A j \in DOMAIN log : log[j].link = "dram" =>
             Covers(log'[n + 1].finish - log[j].finish, log'[n + 1].latency, 3)
  PROVE  LatencyCovered'
<1>1. DOMAIN log = 1 .. n
      BY DEF AccessInv, AccessTypes
<1>2. SUFFICES ASSUME NEW i \in 1 .. n + 1
               PROVE  /\ Covers(log'[i].finish - log'[i].issued, log'[i].latency, 1)
                      /\ \A j \in 1 .. i - 1 :
                           log'[j].link = "dram" /\ log'[i].link = "dram"
                             => Covers(log'[i].finish - log'[j].finish, log'[i].latency, 3)
      BY DEF LatencyCovered, Covers
<1>3. CASE i \in 1 .. n
  <2>1. log'[i] = log[i] /\ \A j \in 1 .. i - 1 : log'[j] = log[j]
        BY <1>1, <1>3
  <2>2. /\ Covers(log[i].finish - log[i].issued, log[i].latency, 1)
        /\ \A j \in 1 .. i - 1 :
             log[j].link = "dram" /\ log[i].link = "dram"
               => Covers(log[i].finish - log[j].finish, log[i].latency, 3)
    <3>1. LatencyCovered /\ i \in DOMAIN log
          BY <1>1, <1>3 DEF AccessInv
    <3>2. QED
          BY <3>1 DEF LatencyCovered
  <2>3. QED
        BY <2>1, <2>2
<1>4. CASE i = n + 1
  <2>1. \A j \in 1 .. i - 1 : j \in 1 .. n
        BY <1>4
  <2>2. QED
        BY <1>1, <1>4, <2>1
<1>5. QED
      BY <1>3, <1>4

(* A recorded latency is replayed. *)
LEMMA AccessReplayed ==
  ASSUME AccessInv, call.link = "none", pop_latency_for_instruction
  PROVE  AccessInv'
<1> DEFINE k == make_latency_key(visit, NextOp.inst)
<1>1. /\ HasNext /\ Route(NextOp) = "replay" /\ IssueTile /\ PassTurn
      /\ Answered(NextOp, "replay", Head(replay[k]), Head(replay[k]))
      /\ replay' = IF Len(replay[k]) = 1 THEN [j \in DOMAIN replay \ {k} |-> replay[j]]
                   ELSE [replay EXCEPT ![k] = Tail(@)]
      /\ UNCHANGED <<links, call, timeNow>>
      BY DEF pop_latency_for_instruction
<1>2. AccessTypes
      BY DEF AccessInv
<1>3. k \in DOMAIN replay
      BY <1>1 DEF Route
<1> HIDE DEF k
<1>4. replay[k] \in Seq(Nat) /\ replay[k] # << >>
      BY <1>2, <1>3 DEF AccessTypes
<1>5. Head(replay[k]) \in Nat /\ Tail(replay[k]) \in Seq(Nat)
      /\ (Len(replay[k]) # 1 => Tail(replay[k]) # << >>)
  <2>1. Head(replay[k]) \in Nat /\ Tail(replay[k]) \in Seq(Nat)
        /\ Len(Tail(replay[k])) = Len(replay[k]) - 1 /\ Len(replay[k]) \in Nat
        BY <1>4
  <2>2. Len(replay[k]) # 1 => Len(Tail(replay[k])) # 0
        BY <2>1
  <2>3. Len(replay[k]) # 1 => Tail(replay[k]) # << >>
    <3>1. Len(<< >>) = 0
          OBVIOUS
    <3>2. CASE Tail(replay[k]) = << >>
          BY <2>2, <3>1, <3>2
    <3>3. QED
          BY <3>2
  <2>4. QED
        BY <2>1, <2>3
<1>6. \A j \in DOMAIN replay' : replay'[j] \in Seq(Nat) \ {<< >>}
  <2>1. CASE Len(replay[k]) = 1
        BY <1>1, <1>2, <2>1 DEF AccessTypes
  <2>2. CASE Len(replay[k]) # 1
        BY <1>1, <1>2, <1>3, <1>5, <2>2 DEF AccessTypes
  <2>3. QED
        BY <2>1, <2>2
<1>7. NextOp \in Accesses /\ todo' \in [Cores -> Seq(Accesses)]
      BY <1>1, <1>2, NextAccess
<1>8. cycle' \in Nat /\ visit' \in Cores
      BY <1>1, <1>2, TurnPasses
<1>9. call = NoCall /\ call' = NoCall /\ Owed = 0 /\ Owed' = 0 /\ ~Asking'
      BY <1>1, <1>2, NoQuestion DEF Asking, Owed
<1>10. PICK latency \in Nat : latency = Head(replay[k])
       BY <1>5
<1>11. PICK cycles \in Nat :
         /\ cycles = Larger(1, CeilDiv(latency * CoreMHz, 1000))
         /\ log' \in Seq(Entries)
         /\ DOMAIN log' = 1 .. Len(log) + 1 /\ Len(log) \in Nat
         /\ \A j \in DOMAIN log : log'[j] = log[j]
         /\ log'[Len(log) + 1].link = "replay" /\ log'[Len(log) + 1].latency = latency
         /\ log'[Len(log) + 1].issued = cycle /\ log'[Len(log) + 1].finish = cycle + cycles
  <2>1. Answered(NextOp, "replay", latency, latency)
        BY <1>1, <1>10
  <2>2. QED
        BY <1>7, <2>1, LogAppend
<1>12. LatencyCovered'
  <2>1. Covers(cycles, latency, 1)
        BY <1>11, PlainTiming
  <2>2. (cycle + cycles) - cycle = cycles
        BY <1>2, <1>11 DEF AccessTypes
  <2>3. QED
        BY <1>11, <2>1, <2>2, CoveredAppend
<1>13. AccessTypes'
       BY <1>1, <1>2, <1>6, <1>7, <1>8, <1>9, <1>11 DEF AccessTypes
<1>14. Clocked'
  <2>1. \A j \in DOMAIN log' : j \in DOMAIN log \/ j = Len(log) + 1
        BY <1>2, <1>11 DEF AccessTypes
  <2>2. ASSUME NEW j \in DOMAIN log', log'[j].link = "dram"
        PROVE  log'[j].finish * 1000 <= (timeNow' - Owed' + 1) * CoreMHz + 2000
    <3>1. j \in DOMAIN log /\ log'[j] = log[j]
          BY <1>11, <2>1, <2>2
    <3>2. log[j].finish * 1000 <= (timeNow - Owed + 1) * CoreMHz + 2000
          BY <2>2, <3>1 DEF AccessInv, Clocked
    <3>3. QED
          BY <1>1, <1>9, <3>1, <3>2
  <2>3. QED
        BY <1>9, <2>2 DEF Clocked
<1>15. QED
       BY <1>12, <1>13, <1>14 DEF AccessInv

(* A question waits in the simlet until it has the answer. *)
LEMMA AccessServed ==
  ASSUME AccessInv, NEW link \in {"ssd", "dram"}, Serve(link)
  PROVE  AccessInv'
<1> DEFINE latency == IF call.op = Terminate THEN 0
                      ELSE compute_latency_ns(link, call.op.addr, Bytes(call.op))
           end == Larger(ToNs(call.at), timeNow) + latency
<1>1. /\ call.link = link /\ ~call.answered
      /\ timeNow' = IF link = "dram" THEN end ELSE timeNow
      /\ call' = [call EXCEPT !.answered = TRUE, !.latency = latency,
                              !.resolved = Larger(call.at, ToCycles(end))]
      /\ UNCHANGED <<links, cycle, visit, todo, replay, log>>
      BY DEF Serve, traceVars
<1>2. AccessTypes
      BY DEF AccessInv
<1>3. call # NoCall /\ call \in [link : {"ssd", "dram"}, op : Accesses \cup {Terminate}, at : Nat,
                                 answered : BOOLEAN, latency : Nat, resolved : Nat]
      BY <1>1, <1>2 DEF AccessTypes, NoCall
<1>4. latency \in Nat /\ (call.op # Terminate => latency >= 1)
      BY <1>3, Latency
<1>5. call.at \in Nat /\ ToNs(call.at) \in Nat /\ timeNow \in Nat
      BY <1>2, <1>3, Conversion DEF AccessTypes
<1>6. end \in Nat /\ end >= timeNow + latency /\ end >= ToNs(call.at) + latency
  <2> HIDE DEF latency
  <2>1. QED
        BY <1>4, <1>5 DEF Larger
<1>7. ToCycles(end) \in Nat
      BY <1>6, Conversion
<1> HIDE DEF latency, end
<1>8. Larger(call.at, ToCycles(end)) \in Nat
      BY <1>5, <1>7 DEF Larger
<1>9. /\ call'.link = link /\ call'.op = call.op /\ call'.at = call.at /\ call'.answered
      /\ call'.latency = latency /\ call'.resolved = Larger(call.at, ToCycles(end))
      /\ call' \in [link : {"ssd", "dram"}, op : Accesses \cup {Terminate}, at : Nat,
                    answered : BOOLEAN, latency : Nat, resolved : Nat]
      BY <1>1, <1>3, <1>4, <1>8
<1>10. call' # NoCall
       BY <1>9 DEF NoCall
<1>11. Asking' <=> Asking
       BY <1>3, <1>9, <1>10 DEF Asking
<1>12. AccessTypes'
       BY <1>1, <1>2, <1>6, <1>9 DEF AccessTypes
<1>13. Owed = 0 /\ \E d \in Nat : timeNow' - Owed' = timeNow + d
  <2>1. Owed = 0
        BY <1>1 DEF Owed
  <2>2. PICK e \in Nat : end = timeNow + latency + e
    <3>1. end - (timeNow + latency) \in Nat
          BY <1>4, <1>5, <1>6
    <3>2. end = timeNow + latency + (end - (timeNow + latency))
          BY <1>4, <1>5, <1>6
    <3>3. QED
          BY <3>1, <3>2
  <2>3. CASE link = "dram" /\ Owed' = latency
    <3>1. (timeNow + latency + e) - latency = timeNow + e
          BY <1>4, <1>5
    <3>2. QED
          BY <1>1, <2>1, <2>2, <2>3, <3>1
  <2>4. CASE link = "dram" /\ Owed' = 0
    <3>1. (timeNow + latency + e) - 0 = timeNow + (latency + e) /\ latency + e \in Nat
          BY <1>4, <1>5
    <3>2. QED
          BY <1>1, <2>1, <2>2, <2>4, <3>1
  <2>5. CASE link # "dram" /\ Owed' = 0
    <3>1. timeNow - 0 = timeNow + 0 /\ 0 \in Nat
          BY <1>5
    <3>2. timeNow' = timeNow
          BY <1>1, <2>5
    <3>3. QED
          BY <2>1, <2>5, <3>1, <3>2
  <2>6. Owed' = 0 \/ (link = "dram" /\ Owed' = latency)
        BY <1>9 DEF Owed
  <2>7. QED
        BY <2>3, <2>4, <2>5, <2>6
<1>14. ASSUME NEW j \in DOMAIN log', log'[j].link = "dram"
       PROVE  log'[j].finish * 1000 <= (timeNow' - Owed' + 1) * CoreMHz + 2000
  <2>1. log[j].finish * 1000 <= (timeNow + 1) * CoreMHz + 2000
    <3>1. log[j].finish * 1000 <= (timeNow - Owed + 1) * CoreMHz + 2000
          BY <1>1, <1>14 DEF AccessInv, Clocked
    <3>2. timeNow - Owed = timeNow
          BY <1>5, <1>13
    <3>3. QED
          BY <3>1, <3>2
  <2>2. PICK d \in Nat : timeNow' - Owed' = timeNow + d
        BY <1>13
  <2>3. (timeNow + d + 1) * CoreMHz = (timeNow + 1) * CoreMHz + d * CoreMHz
        /\ d * CoreMHz \in Nat /\ (timeNow + 1) * CoreMHz \in Nat
        BY <1>5, LegoAssumption
  <2>4. log[j].finish \in Nat
    <3>1. j \in DOMAIN log
          BY <1>1, <1>14
    <3>2. log[j] \in Entries
          BY <1>2, <3>1 DEF AccessTypes
    <3>3. QED
          BY <3>2 DEF Entries
  <2>5. QED
        BY <1>1, <2>1, <2>2, <2>3, <2>4
<1>15. Asking' => call'.at = cycle'
       BY <1>1, <1>9, <1>11 DEF AccessInv, Clocked
<1>16. Asking' /\ call'.answered /\ call'.link = "dram" =>
         /\ call'.latency >= 1 /\ timeNow' >= ToNs(call'.at) + call'.latency
         /\ call'.resolved = Larger(call'.at, ToCycles(timeNow'))
  <2> SUFFICES ASSUME Asking', call'.link = "dram"
               PROVE  /\ latency >= 1 /\ timeNow' >= ToNs(call.at) + latency
                      /\ call'.resolved = Larger(call.at, ToCycles(timeNow'))
      BY <1>9
  <2>1. link = "dram" /\ timeNow' = end
        BY <1>1, <1>9
  <2>2. QED
        BY <1>4, <1>6, <1>9, <1>11, <2>1 DEF Asking
<1>17. Clocked'
       BY <1>14, <1>15, <1>16 DEF Clocked, ToNs, ToCycles
<1>18. LatencyCovered'
       BY <1>1 DEF AccessInv, LatencyCovered
<1>19. QED
       BY <1>12, <1>17, <1>18 DEF AccessInv

(* The answer arrives: the engine is busy for it, and the ledger is squared. *)
LEMMA AccessAnswered ==
  ASSUME AccessInv, TakeAnswer
  PROVE  AccessInv'
<1> DEFINE latency == call.latency
           n == Len(log)
<1>1. /\ call.link # "none" /\ call.answered /\ call.op # Terminate /\ call' = NoCall /\ PassTurn
      /\ Answered(call.op, call.link, call.latency, query_latency_ns)
      /\ UNCHANGED <<links, todo, timeNow, replay>>
      BY DEF TakeAnswer, traceVars
<1>2. AccessTypes
      BY DEF AccessInv
<1>3. /\ call.link \in {"ssd", "dram"} /\ call.op \in Accesses /\ call.at \in Nat
      /\ latency \in Nat /\ call # NoCall
      BY <1>1, <1>2 DEF AccessTypes, NoCall
<1>4. Asking /\ call.at = cycle
      BY <1>1, <1>3 DEF AccessInv, Clocked, Asking
<1>5. timeNow \in Nat /\ cycle \in Nat /\ log \in Seq(Entries) /\ CoreMHz \in Nat \ {0}
      BY <1>2, LegoAssumption DEF AccessTypes
<1>6. ~Asking' /\ Owed' = 0
      BY <1>1 DEF Asking, Owed
<1>7. CASE call.link = "ssd"
  <2>1. query_latency_ns = latency
        BY <1>7 DEF query_latency_ns
  <2>2. Owed = 0
        BY <1>7 DEF Owed
  <2>3. PICK cycles \in Nat :
         /\ cycles = Larger(1, CeilDiv(latency * CoreMHz, 1000))
         /\ log' \in Seq(Entries) /\ DOMAIN log' = 1 .. Len(log) + 1 /\ Len(log) \in Nat
         /\ \A j \in DOMAIN log : log'[j] = log[j]
         /\ log'[Len(log) + 1].link = "ssd" /\ log'[Len(log) + 1].latency = latency
         /\ log'[Len(log) + 1].issued = cycle /\ log'[Len(log) + 1].finish = cycle + cycles
    <3>1. Answered(call.op, "ssd", latency, latency)
          BY <1>1, <1>7, <2>1
    <3> HIDE DEF latency
    <3>2. QED
          BY <1>3, <3>1, LogAppend
  <2>4. Covers(cycles, latency, 1)
    <3>1. PICK l \in Nat : l = latency
          BY <1>3
    <3>2. cycles = Larger(1, CeilDiv(l * CoreMHz, 1000))
          BY <2>3, <3>1
    <3>3. QED
          BY <3>1, <3>2, PlainTiming
  <2>5. (cycle + cycles) - cycle = cycles
        BY <1>5, <2>3
  <2>6. LatencyCovered'
        BY <2>3, <2>4, <2>5, CoveredAppend
  <2>7. ASSUME NEW j \in DOMAIN log', log'[j].link = "dram"
        PROVE  log'[j].finish * 1000 <= (timeNow' - Owed' + 1) * CoreMHz + 2000
    <3>1. j \in DOMAIN log /\ log'[j] = log[j]
          BY <1>5, <2>3, <2>7
    <3>2. log[j].finish * 1000 <= (timeNow - Owed + 1) * CoreMHz + 2000
          BY <2>7, <3>1 DEF AccessInv, Clocked
    <3>3. QED
          BY <1>1, <1>6, <2>2, <3>1, <3>2
  <2>8. Clocked'
        BY <1>6, <2>7 DEF Clocked
  <2>9. AccessTypes'
        BY <1>1, <1>2, <2>3, TurnPasses DEF AccessTypes
  <2>10. QED
         BY <2>6, <2>8, <2>9 DEF AccessInv
<1>8. CASE call.link = "dram"
  <2> DEFINE elapsed == IF call.resolved > call.at THEN call.resolved - call.at ELSE 1
             ns == CeilDiv(elapsed * 1000, CoreMHz)
  <2>1. /\ latency >= 1 /\ timeNow >= ToNs(call.at) + latency
        /\ call.resolved = Larger(call.at, ToCycles(timeNow)) /\ Owed = latency
        BY <1>1, <1>4, <1>8 DEF AccessInv, Clocked, Owed
  <2>2. query_latency_ns = ns
        BY <1>8 DEF query_latency_ns
  <2>3. elapsed \in Nat /\ ns \in Nat /\ call.resolved \in Nat
    <3>1. PICK now \in Nat : now = timeNow
          BY <1>5
    <3>2. ToCycles(now) \in Nat
          BY Conversion
    <3>3. PICK e \in Nat : e = elapsed
          BY <1>3, <2>1, <3>1, <3>2 DEF Larger
    <3>4. PICK a \in Nat : a = e * 1000
          OBVIOUS
    <3>5. CeilDiv(a, CoreMHz) \in Nat
          BY <1>5, Division
    <3>6. call.resolved \in Nat
          BY <1>3, <2>1, <3>1, <3>2 DEF Larger
    <3>7. QED
          BY <3>3, <3>4, <3>5, <3>6
  <2> HIDE DEF ns, elapsed, latency
  <2>4. PICK cycles \in Nat :
         /\ cycles = Larger(1, CeilDiv(ns * CoreMHz, 1000))
         /\ log' \in Seq(Entries) /\ DOMAIN log' = 1 .. Len(log) + 1 /\ Len(log) \in Nat
         /\ \A j \in DOMAIN log : log'[j] = log[j]
         /\ log'[Len(log) + 1].link = "dram" /\ log'[Len(log) + 1].latency = latency
         /\ log'[Len(log) + 1].issued = cycle /\ log'[Len(log) + 1].finish = cycle + cycles
    <3>1. Answered(call.op, "dram", latency, ns)
          BY <1>1, <1>8, <2>2 DEF latency
    <3>2. QED
          BY <1>3, <2>3, <3>1, LogAppend
  <2>5. /\ Covers(cycles, latency, 1)
        /\ (cycle + cycles) * 1000 <= (timeNow + 1) * CoreMHz + 2000
        /\ timeNow * CoreMHz <= (cycle + cycles) * 1000 + 1000
    <3>1. /\ Covers(cycles, latency, 1)
          /\ (call.at + cycles) * 1000 <= (timeNow + 1) * CoreMHz + 2000
          /\ timeNow * CoreMHz <= (call.at + cycles) * 1000 + 1000
      <4>1. PICK at \in Nat, now \in Nat, l \in Nat : at = call.at /\ now = timeNow /\ l = latency
            BY <1>3, <1>5
      <4>2. l >= 1 /\ now >= ToNs(at) + l
            BY <2>1, <4>1
      <4>3. PICK r \in Nat : r = call.resolved /\ r = Larger(at, ToCycles(now))
            BY <2>1, <2>3, <4>1
      <4>4. PICK e \in Nat : e = elapsed /\ e = IF r > at THEN r - at ELSE 1
            BY <2>3, <4>1, <4>3 DEF elapsed
      <4>5. PICK q \in Nat : q = CeilDiv(e * 1000, CoreMHz)
                             /\ cycles = Larger(1, CeilDiv(q * CoreMHz, 1000))
            BY <2>3, <2>4, <4>4 DEF ns
      <4>6. AnswerInTime(at, now, l, cycles)
        <5>1. e * 1000 <= q * CoreMHz /\ q * CoreMHz < e * 1000 + CoreMHz
              BY <4>5, InNanoseconds
        <5>2. e >= 1 /\ CoreMHz \in Nat \ {0}
              BY <1>5, <4>1, <4>3, <4>4
        <5>3. q >= 1
          <6>1. CASE q = 0
                BY <5>1, <5>2, <6>1
          <6>2. QED
                BY <6>1
        <5>4. q * CoreMHz <= cycles * 1000 /\ cycles * 1000 < q * CoreMHz + 1000
              BY <4>5, <5>3, BusyCycles
        <5>5. e <= cycles /\ cycles * 1000 < e * 1000 + CoreMHz + 1000
          <6>1. PICK m \in Nat : m = q * CoreMHz
                BY <5>2
          <6>2. QED
                BY <5>1, <5>2, <5>4, <6>1
        <5>6. AnswerGiven(at, now, l, r, e, cycles)
              BY <4>2, <4>3, <4>4, <5>5 DEF AnswerGiven
        <5>7. QED
              BY <5>6, AnswerTiming
      <4>7. QED
            BY <4>1, <4>6 DEF AnswerInTime
    <3>2. QED
          BY <1>4, <3>1
  <2>6. (cycle + cycles) - cycle = cycles
        BY <1>5, <2>4
  <2>7. ASSUME NEW j \in DOMAIN log, log[j].link = "dram"
        PROVE  /\ log[j].finish \in Nat
               /\ log[j].finish * 1000 <= timeNow * CoreMHz - (latency - 1) * CoreMHz + 2000
    <3>1. log[j] \in Entries
          BY <1>5, <2>7
    <3>2. log[j].finish * 1000 <= (timeNow - latency + 1) * CoreMHz + 2000
          BY <2>1, <2>7 DEF AccessInv, Clocked
    <3>3. (timeNow - latency + 1) * CoreMHz = timeNow * CoreMHz - (latency - 1) * CoreMHz
          BY <1>3, <1>5
    <3>4. QED
          BY <3>1, <3>2, <3>3 DEF Entries
  <2>8. PICK p \in Int, l \in Nat : p = timeNow * CoreMHz /\ l = (latency - 1) * CoreMHz
    <3>1. timeNow * CoreMHz \in Int /\ latency - 1 \in Nat
          BY <1>3, <1>5, <2>1
    <3>2. (latency - 1) * CoreMHz \in Nat
          BY <1>5, <3>1
    <3>3. QED
          BY <3>1, <3>2
  <2>9. (timeNow + 1) * CoreMHz = p + CoreMHz
        BY <1>5, <2>8
  <2>10. ASSUME NEW j \in DOMAIN log, log[j].link = "dram"
         PROVE  /\ Covers((cycle + cycles) - log[j].finish, latency, 3)
                /\ log[j].finish * 1000 <= p + CoreMHz + 2000
    <3>1. PICK f \in Nat : f = log[j].finish /\ f * 1000 <= p - l + 2000
          BY <2>7, <2>8, <2>10
    <3>2. PICK e \in Nat : e = cycle + cycles /\ p <= e * 1000 + 1000
          BY <1>5, <2>4, <2>5, <2>8
    <3>3. (e - f + 3) * 1000 >= l
          BY <2>8, <3>1, <3>2
    <3>4. f * 1000 <= p + CoreMHz + 2000
          BY <1>5, <2>8, <3>1
    <3>5. QED
          BY <2>8, <3>1, <3>2, <3>3, <3>4 DEF Covers
  <2>11. LatencyCovered'
         BY <2>4, <2>5, <2>6, <2>10, CoveredAppend
  <2>12. ASSUME NEW j \in DOMAIN log', log'[j].link = "dram"
         PROVE  log'[j].finish * 1000 <= (timeNow' - Owed' + 1) * CoreMHz + 2000
    <3>1. timeNow - 0 = timeNow
          BY <1>5
    <3>2. timeNow' - Owed' = timeNow
          BY <1>1, <1>6, <3>1
    <3>3. log'[j].finish * 1000 <= (timeNow + 1) * CoreMHz + 2000
      <4>1. CASE j \in DOMAIN log
            BY <2>4, <2>9, <2>10, <2>12, <4>1
      <4>2. CASE j = Len(log) + 1
            BY <2>4, <2>5, <4>2
      <4>3. QED
            BY <1>5, <2>4, <4>1, <4>2
    <3>4. QED
          BY <3>2, <3>3
  <2>13. Clocked'
         BY <1>6, <2>12 DEF Clocked
  <2>14. AccessTypes'
         BY <1>1, <1>2, <2>4, TurnPasses DEF AccessTypes
  <2>15. QED
         BY <2>11, <2>13, <2>14 DEF AccessInv
<1>9. QED
      BY <1>3, <1>7, <1>8

(* A core's turn: nothing to do, an access through the simulator's own       *)
(* memory, a recorded latency, or a question.                                *)
LEMMA AccessTurn ==
  ASSUME AccessInv, SimulateAccesses
  PROVE  AccessInv'
<1>1. call.link = "none" /\ AccessTypes
      BY DEF SimulateAccesses, AccessInv
<1>2. call = NoCall /\ ~Asking /\ Owed = 0
      BY <1>1, NoQuestion
<1>3. /\ \A k \in DOMAIN replay : replay[k] \in Seq(Nat) \ {<< >>}
      /\ todo \in [Cores -> Seq(Accesses)]
      BY <1>1 DEF AccessTypes
<1>4. CASE StillBusy \/ NothingToIssue
  <2>1. PassTurn /\ UNCHANGED <<links, todo, call, timeNow, replay, log>>
        BY <1>4 DEF StillBusy, NothingToIssue, traceVars
  <2>2. cycle' \in Nat /\ visit' \in Cores
        BY <1>1, <2>1, TurnPasses
  <2>3. QED
        BY <1>2, <1>3, <2>1, <2>2, AccessQuiet
<1>5. CASE AccessMemory
  <2>1. HasNext /\ IssueTile /\ PassTurn /\ UNCHANGED <<links, call, timeNow, replay, log>>
        BY <1>5 DEF AccessMemory
  <2>2. cycle' \in Nat /\ visit' \in Cores /\ todo' \in [Cores -> Seq(Accesses)]
        BY <1>1, <2>1, TurnPasses, NextAccess
  <2>3. QED
        BY <1>2, <1>3, <2>1, <2>2, AccessQuiet
<1>6. CASE pop_latency_for_instruction
      BY <1>1, <1>6, AccessReplayed
<1>7. CASE Ask
  <2>1. /\ HasNext /\ Route(NextOp) \in {"ssd", "dram"} /\ IssueTile
        /\ call' = Request(Route(NextOp), NextOp, cycle)
        /\ UNCHANGED <<links, cycle, visit, timeNow, replay, log>>
        BY <1>7 DEF Ask, traceVars
  <2>2. NextOp \in Accesses /\ todo' \in [Cores -> Seq(Accesses)]
        BY <1>1, <2>1, NextAccess
  <2>3. QED
        BY <1>2, <2>1, <2>2, AccessCall
<1>8. QED
      BY <1>4, <1>5, <1>6, <1>7 DEF SimulateAccesses

(* The links are shut down: a request that is no access. *)
LEMMA AccessShutdown ==
  ASSUME AccessInv, ShutdownLinks
  PROVE  AccessInv'
<1>1. AccessTypes
      BY DEF AccessInv
<1>2. todo \in [Cores -> Seq(Accesses)]
      BY <1>1 DEF AccessTypes
<1>3. CASE UNCHANGED legoVars
  <2>1. /\ cycle \in Nat /\ visit \in Cores
        /\ \A k \in DOMAIN replay : replay[k] \in Seq(Nat) \ {<< >>}
        BY <1>1 DEF AccessTypes
  <2>2. QED
        BY <1>2, <1>3, <2>1, AccessQuiet DEF legoVars, traceVars
<1>4. ASSUME NEW link \in {"ssd", "dram"}, AskShutdown(link) PROVE AccessInv'
  <2>1. /\ call = NoCall /\ call' = Request(link, Terminate, 0)
        /\ UNCHANGED <<links, cycle, visit, todo, timeNow, replay, log>>
        BY <1>4 DEF AskShutdown, traceVars
  <2>2. Owed = 0
        BY <2>1 DEF Owed, Asking
  <2>3. QED
        BY <1>2, <2>1, <2>2, AccessCall
<1>5. CASE TakeAck
  <2>1. /\ call' = NoCall /\ call.op = Terminate
        /\ UNCHANGED <<links, cycle, visit, todo, timeNow, replay, log>>
        BY <1>5 DEF TakeAck, traceVars
  <2>2. Owed = 0
        BY <2>1 DEF Owed, Asking
  <2>3. QED
        BY <1>2, <2>1, <2>2, AccessCall
<1>6. QED
      BY <1>3, <1>4, <1>5 DEF ShutdownLinks, Shutdown

(* The other steps leave the accesses alone, or give the cores a kernel. *)
LEMMA AccessNext == TypeOK /\ AccessInv /\ [Next]_vars => AccessInv'
<1> SUFFICES ASSUME TypeOK, AccessInv, [Next]_vars PROVE AccessInv'
    OBVIOUS
<1>1. /\ cycle \in Nat /\ visit \in Cores /\ todo \in [Cores -> Seq(Accesses)]
      /\ \A k \in DOMAIN replay : replay[k] \in Seq(Nat) \ {<< >>}
      BY DEF AccessInv, AccessTypes
<1>2. CASE UNCHANGED legoVars
      BY <1>1, <1>2, AccessQuiet DEF legoVars, traceVars
<1>3. CASE ClientReturns
  <2>1. ASSUME NEW d \in Devices, SyncNext(d) PROVE AccessInv'
        BY <1>2, <2>1 DEF SyncNext
  <2>2. CASE OpenFifo \/ SyncReturns \/ CloseFifo \/ communicate \/ UntilReturns \/ StandaloneReturns
        BY <1>2, <2>2
        DEF OpenFifo, SyncReturns, CloseFifo, communicate, UntilReturns, StandaloneReturns
  <2>3. QED
        BY <1>3, <2>1, <2>2 DEF ClientReturns
<1>4. CASE ClientChooses \/ Until
  <2>1. ASSUME NEW k \in Kernels, NEW d \in Devices, Launch(k, d) PROVE AccessInv'
        BY <1>2, <2>1 DEF Launch
  <2>2. ASSUME NEW next \in {"sync", "until"}, Synchronize(next) PROVE AccessInv'
        BY <1>2, <2>2 DEF Synchronize
  <2>3. QED
        BY <1>4, <2>1, <2>2 DEF ClientChooses, Until
<1>5. ASSUME NEW d \in Devices, Worker(d) PROVE AccessInv'
  <2>1. CASE SendCommand(d)
        BY <1>2, <2>1 DEF SendCommand
  <2>2. QED
        BY <1>2, <1>5, <2>1 DEF Worker
<1>6. CASE ReadCommand
  <2>1. fifo # << >>
        BY <1>6 DEF ReadCommand
  <2>2. todo' \in [Cores -> Seq(Accesses)]
        BY <1>1, <1>6, <2>1, HeadOfFifo, TaskKinds, ProgramAssumption DEF ReadCommand
  <2>3. UNCHANGED <<links, cycle, visit, call, timeNow, replay, log>>
        BY <1>6 DEF ReadCommand, traceVars
  <2>4. QED
        BY <1>1, <2>2, <2>3, AccessQuiet
<1>7. CASE SimStart \/ EndOfFile \/ CycleReturns \/ Exit \/ Crash
      BY <1>2, <1>7 DEF SimStart, EndOfFile, CycleReturns, Exit, Crash
<1>8. CASE AnswerArrives
      BY <1>8, AccessAnswered DEF AnswerArrives
<1>9. ASSUME NEW link \in {"ssd", "dram"}, Simlet(link) PROVE AccessInv'
      BY <1>9, AccessServed DEF Simlet
<1>10. CASE CoordinatorExits \/ TimeoutExpires
       BY <1>2, <1>10 DEF CoordinatorExits, TimeoutExpires
<1>11. CASE Terminated \/ UNCHANGED vars
       BY <1>2, <1>11 DEF Terminated, vars
<1>12. QED
       BY <1>3, <1>4, <1>5, <1>6, <1>7, <1>8, <1>9, <1>10, <1>11, AccessTurn, AccessShutdown
       DEF Next, Simulator

(* Rounding never makes an engine busy for less than the answer, but for a   *)
(* nanosecond and a cycle, nor two DRAM accesses overlap by more than three  *)
(* cycles: for any frequency, bandwidth and latency of the simlets, any      *)
(* programs and any turns of the cores.                                      *)
THEOREM AnswersAreWaitedFor == Spec => []LatencyCovered
<1>1. Init => TypeOK /\ AccessInv
      BY TypeInit, AccessInit
<1>2. TypeOK /\ AccessInv /\ [Next]_vars => (TypeOK /\ AccessInv)'
      BY TypeNext, AccessNext
<1>3. AccessInv => LatencyCovered
      BY DEF AccessInv
<1>4. QED
      BY <1>1, <1>2, <1>3, PTL DEF Spec
=============================================================================
