----------------------------- MODULE LaunchPath -----------------------------
(* The way of a kernel from the client to the simulator. Two sessions:       *)
(*                                                                           *)
(*   stream      The client launches kernels on the streams of its devices;  *)
(*               the worker of a stream writes the command to the FIFO of a  *)
(*               simulator process that runs beside it. The session ends     *)
(*               with until, which synchronises, closes the FIFO and reads   *)
(*               the output of the process until it exits.                   *)
(*   standalone  The client writes one command to a file and starts the      *)
(*               coordinator, which starts the simulator and the simlets,    *)
(*               and waits for it, with or without a limit of time.          *)
(*                                                                           *)
(* The simulator reads commands until the end of the file in both. A kernel  *)
(* is simulated by the loop that Simulator::cycle runs; the memory accesses  *)
(* of a standalone session are those of LegoSim.                             *)
EXTENDS DeviceStream, LegoSim

CONSTANTS
  Kernels,         \* the kernels a client may launch
  Faulty,          \* those whose files the parser refuses
  Home,            \* the client's current device when it synchronises
  Program,         \* the accesses of a kernel, for each core
  SyncBound,       \* calls of synchronize before until
  FifoCapacity,    \* commands the FIFO holds
  OutCapacity      \* lines the output pipe holds

ASSUME LaunchAssumption == Home \in Devices
ASSUME ProgramAssumption == \A k \in Kernels : Program[k] \in [Cores -> Seq(Accesses)]
(* The latencies of the file are numbers. *)
ASSUME FileAssumption ==
  \A k \in DOMAIN load_latency_file(LatencyRows) :
    load_latency_file(LatencyRows)[k] \in Seq(Nat) \ {<< >>}

VARIABLES
  session,     \* "stream" or "standalone"
  timed,       \* whether run_standalone was given a limit
  client,      \* where the client is
  syncs,       \* calls of synchronize so far
  launched,    \* history: <<kernel, device>> the client has launched
  promised,    \* history: what the last synchronize that returned stands for
  ran,         \* history: kernels whose task has run
  fifo,        \* commands written and not read
  handle,      \* the writer's end of the command file: "open" or "closed"
  sim,         \* where the simulator's command loop is
  pending,     \* kernels handed to the scheduler
  simulated,   \* kernels that have been simulated
  out,         \* lines in the output pipe
  live         \* the processes that exist

driverVars == <<session, timed, client, syncs, launched, promised, ran, handle>>
simVars == <<sim, pending, simulated, out>>
vars == <<driverVars, simVars, fifo, live, streamVars, legoVars>>

LaunchTask(k) == [op |-> "launch", kernel |-> k]
SyncTask == [op |-> "sync"]
Launches == { k \in Kernels : \E d \in Devices : <<k, d>> \in launched }

Init ==
  /\ StreamsInit /\ LegoInit
  /\ promised = {} /\ ran = {} /\ syncs = 0
  /\ pending = {} /\ simulated = {} /\ out = 0
  /\ sim = "starting"
  /\ \/ /\ session = "stream" /\ timed = FALSE /\ links = {}
        /\ client = "opening" /\ handle = "closed" /\ fifo = << >>
        /\ live = {"sim"} /\ launched = {}
     \/ /\ session = "standalone" /\ timed \in BOOLEAN
        /\ links \in (SUBSET {"ssd", "dram"}) \ {{}}
        /\ client = "waiting" /\ handle = "closed"
        /\ \E k \in Kernels : fifo = <<LaunchTask(k)>> /\ launched = {<<k, Home>>}
        /\ live = {"coordinator", "sim"} \cup links

-----------------------------------------------------------------------------
(* The client of a stream session.                                           *)

(* The constructor opens the FIFO for writing; this returns only when the    *)
(* simulator opens it for reading.                                           *)
OpenFifo ==
  /\ client = "opening" /\ sim = "opened"
  /\ client' = "script" /\ handle' = "open"
  /\ UNCHANGED <<session, timed, syncs, launched, promised, ran, simVars, fifo, live,
                 streamVars, legoVars>>

(* launch_kernel under a device: the task goes to that device's stream. *)
Launch(k, d) ==
  /\ client = "script" /\ k \notin Launches
  /\ AddTaskToStream(d, LaunchTask(k))
  /\ launched' = launched \cup {<<k, d>>}
  /\ UNCHANGED <<session, timed, client, syncs, promised, ran, handle, simVars, fifo,
                 live, running, unsynced, completed, legoVars>>

(* synchronize: the command that runs the simulator is queued like a launch, *)
(* then the streams of the current device are waited for. until begins with  *)
(* the same.                                                                 *)
Synchronize(next) ==
  /\ client = "script"
  /\ next = "sync" => syncs < SyncBound
  /\ AddTaskToStream(Home, SyncTask)
  /\ StartDeviceSync(Home)
  /\ client' = next /\ syncs' = syncs + 1
  /\ UNCHANGED <<session, timed, launched, promised, ran, handle, simVars, fifo,
                 live, running, completed, legoVars>>

SyncNext(s) ==
  /\ client \in {"sync", "until"}
  /\ RecordEvent(s)
  /\ UNCHANGED <<driverVars, simVars, fifo, live, legoVars>>

SyncReturns ==
  /\ client \in {"sync", "until"} /\ DeviceSynchronized
  /\ client' = IF client = "sync" THEN "script" ELSE "closing"
  /\ promised' = { l \in launched : l[2] = Home }
  /\ UNCHANGED <<session, timed, syncs, launched, ran, handle, simVars, fifo, live,
                 streamVars, legoVars>>

(* until closes the FIFO, then communicate reads what the process prints and *)
(* returns when it has exited.                                               *)
CloseFifo ==
  /\ client = "closing"
  /\ handle' = "closed" /\ client' = "draining"
  /\ UNCHANGED <<session, timed, syncs, launched, promised, ran, simVars, fifo, live,
                 streamVars, legoVars>>

communicate_NoDrain == FALSE /\ UNCHANGED vars     \* wait() in its place
communicate ==
  /\ client = "draining" /\ out > 0
  /\ out' = 0
  /\ UNCHANGED <<driverVars, sim, pending, simulated, fifo, live, streamVars, legoVars>>

UntilReturns ==
  /\ client = "draining" /\ "sim" \notin live
  /\ client' = "returned"
  /\ UNCHANGED <<session, timed, syncs, launched, promised, ran, handle, simVars, fifo,
                 live, streamVars, legoVars>>

-----------------------------------------------------------------------------
(* The workers. A task that raises is printed and forgotten by its worker.   *)

SendCommand(s) ==
  LET t == running[s] IN
  /\ t.op \in {"launch", "sync"}
  /\ \/ /\ "sim" \in live /\ handle = "open" /\ Len(fifo) < FifoCapacity
        /\ fifo' = Append(fifo, t)
     \/ /\ "sim" \notin live \/ handle = "closed"
        /\ UNCHANGED fifo
  /\ running' = [running EXCEPT ![s] = NoTask]
  /\ ran' = IF t.op = "launch" THEN ran \cup {t.kernel} ELSE ran
  /\ UNCHANGED <<session, timed, client, syncs, launched, promised, handle, simVars,
                 live, queue, unsynced, completed, legoVars>>

Worker(s) ==
  \/ SendCommand(s)
  \/ /\ Take(s) \/ RunRecord(s)
     /\ UNCHANGED <<driverVars, simVars, fifo, live, legoVars>>

-----------------------------------------------------------------------------
(* The simulator process.                                                    *)

(* The output of a stream session goes to a pipe that only communicate reads. *)
CanPrint == session = "standalone" \/ out < OutCapacity
PrintLine == out' = IF session = "stream" THEN out + 1 ELSE out

SimStart ==
  /\ sim = "starting"
  /\ \/ sim' = "opened" /\ UNCHANGED live
     \/ sim' = "refused" /\ live' = live \ {"sim"}      \* the configuration is bad
  /\ UNCHANGED <<driverVars, pending, simulated, out, fifo, streamVars, legoVars>>

(* A line of the command file. A launch that throws is reported and dropped. *)
ReadCommand ==
  /\ sim = "opened" /\ "sim" \in live /\ fifo # << >> /\ CanPrint
  /\ fifo' = Tail(fifo) /\ PrintLine
  /\ LET t == Head(fifo) IN
     \/ /\ t.op = "launch" /\ t.kernel \notin Faulty
        /\ pending' = pending \cup {t.kernel}
        /\ todo' = IF session = "standalone" THEN Program[t.kernel] ELSE todo
        /\ UNCHANGED sim
     \/ /\ t.op = "launch" /\ t.kernel \in Faulty
        /\ UNCHANGED <<sim, pending, todo>>
     \/ /\ t.op = "sync"
        /\ sim' = "simulating"
        /\ UNCHANGED <<pending, todo>>
  /\ UNCHANGED <<driverVars, simulated, live, streamVars,
                 links, cycle, visit, dma, call, timeNow, traceVars, log>>

(* No command is left and the writer has closed: the loop ends, and what was *)
(* launched after the last synchronisation is simulated.                     *)
EndOfFile_NoCycle ==     \* the loop's end ends the simulation
  /\ sim = "opened" /\ "sim" \in live
  /\ fifo = << >> /\ handle = "closed" /\ client # "opening"
  /\ sim' = "end_ssd"
  /\ UNCHANGED <<driverVars, pending, simulated, out, fifo, live, streamVars, legoVars>>
EndOfFile ==
  /\ sim = "opened" /\ "sim" \in live
  /\ fifo = << >> /\ handle = "closed" /\ client # "opening"
  /\ sim' = "final"
  /\ UNCHANGED <<driverVars, pending, simulated, out, fifo, live, streamVars, legoVars>>

Simulating == sim \in {"simulating", "final"} /\ "sim" \in live

SimulateAccesses ==
  /\ Simulating /\ call.link = "none" /\ ~Drained
  /\ StillBusy \/ NothingToIssue \/ AccessMemory \/ pop_latency_for_instruction \/ Ask
  /\ UNCHANGED <<driverVars, simVars, fifo, live, streamVars>>

AnswerArrives ==
  /\ Simulating /\ TakeAnswer
  /\ UNCHANGED <<driverVars, simVars, fifo, live, streamVars>>

(* Simulator::cycle returns when every kernel it was handed is finished. *)
CycleReturns ==
  /\ Simulating /\ call = NoCall /\ Drained /\ CanPrint
  /\ simulated' = simulated \cup pending /\ pending' = {}
  /\ PrintLine
  /\ sim' = IF sim = "final" THEN "end_ssd" ELSE "opened"
  /\ UNCHANGED <<driverVars, fifo, live, streamVars, legoVars>>

(* shutdown of a link: nothing when it is disabled, else a request that ends *)
(* the simlet and the wait for its acknowledgement.                          *)
Shutdown(link, from, waits, to) ==
  /\ "sim" \in live
  /\ \/ /\ sim = from /\ link \notin links
        /\ sim' = to
        /\ UNCHANGED legoVars
     \/ /\ sim = from /\ AskShutdown(link)
        /\ sim' = waits
     \/ /\ sim = waits /\ TakeAck
        /\ sim' = to
  /\ UNCHANGED <<driverVars, pending, simulated, out, fifo, live, streamVars>>

ShutdownLinks ==
  \/ Shutdown("ssd", "end_ssd", "ack_ssd", "end_dram")
  \/ Shutdown("dram", "end_dram", "ack_dram", "leaving")

Exit ==
  /\ sim = "leaving" /\ "sim" \in live /\ CanPrint
  /\ sim' = "exited" /\ live' = live \ {"sim"} /\ PrintLine
  /\ UNCHANGED <<driverVars, pending, simulated, fifo, streamVars, legoVars>>

(* An assertion, an error exit or an uncaught exception of the simulator. *)
Crash ==
  /\ sim \in {"opened", "simulating", "final"} /\ "sim" \in live /\ call = NoCall
  /\ client # "opening"
  /\ sim' = "crashed" /\ live' = live \ {"sim"}
  /\ UNCHANGED <<driverVars, pending, simulated, out, fifo, streamVars, legoVars>>

-----------------------------------------------------------------------------
(* The other processes of a standalone session.                              *)

(* A simlet leaves its loop after it has answered the sentinel. *)
Simlet(link) ==
  /\ link \in live /\ Serve(link)
  /\ live' = IF call.op = Terminate THEN live \ {link} ELSE live
  /\ UNCHANGED <<driverVars, simVars, fifo, streamVars>>

(* The coordinator waits for every process it has started. *)
CoordinatorExits ==
  /\ live = {"coordinator"}
  /\ live' = {}
  /\ UNCHANGED <<driverVars, simVars, fifo, streamVars, legoVars>>

StandaloneReturns ==
  /\ client = "waiting" /\ "coordinator" \notin live
  /\ client' = "returned"
  /\ UNCHANGED <<session, timed, syncs, launched, promised, ran, handle, simVars, fifo,
                 live, streamVars, legoVars>>

(* The limit passes first: the whole process group is killed. *)
TimeoutExpires_OnlyChild ==     \* kill in place of killpg
  /\ client = "waiting" /\ timed /\ "coordinator" \in live
  /\ live' = live \ {"coordinator"}
  /\ client' = "raised"
  /\ UNCHANGED <<session, timed, syncs, launched, promised, ran, handle, simVars, fifo,
                 streamVars, legoVars>>
TimeoutExpires ==
  /\ client = "waiting" /\ timed /\ "coordinator" \in live
  /\ live' = {}
  /\ client' = "raised"
  /\ UNCHANGED <<session, timed, syncs, launched, promised, ran, handle, simVars, fifo,
                 streamVars, legoVars>>

-----------------------------------------------------------------------------
(* The two ways to wait for ever: the FIFO is opened for a simulator that is *)
(* gone, and the simlets of a dead simulator are waited for without a limit. *)
Hung ==
  \/ client = "opening" /\ sim = "refused"
  \/ client = "waiting" /\ ~timed /\ sim \in {"refused", "crashed"}
Ended == client \in {"returned", "raised"}

ClientReturns ==
  OpenFifo \/ SyncReturns \/ CloseFifo \/ communicate \/ UntilReturns
    \/ StandaloneReturns \/ \E s \in Devices : SyncNext(s)
ClientChooses ==
  \/ \E k \in Kernels, d \in Devices : Launch(k, d)
  \/ Synchronize("sync")
Until == Synchronize("until")

Simulator ==
  SimStart \/ ReadCommand \/ EndOfFile \/ SimulateAccesses \/ AnswerArrives
    \/ CycleReturns \/ ShutdownLinks \/ Exit

Terminated == (Ended \/ Hung) /\ UNCHANGED vars

Next ==
  \/ ClientReturns \/ ClientChooses \/ Until
  \/ \E s \in Devices : Worker(s)
  \/ Simulator \/ Crash
  \/ \E l \in {"ssd", "dram"} : Simlet(l)
  \/ CoordinatorExits \/ TimeoutExpires \/ Terminated

(* Threads and processes are scheduled; the client's program comes to its    *)
(* end; a limit that was given expires.                                      *)
Fairness ==
  /\ WF_vars(ClientReturns) /\ WF_vars(Until)
  /\ \A s \in Devices : WF_vars(Worker(s))
  /\ WF_vars(Simulator)
  /\ \A l \in {"ssd", "dram"} : WF_vars(Simlet(l))
  /\ WF_vars(CoordinatorExits) /\ WF_vars(TimeoutExpires)

Spec == Init /\ [][Next]_vars /\ Fairness

-----------------------------------------------------------------------------
(* When synchronize has returned, every kernel the client had launched on    *)
(* its current device has been through its stream's worker: the promise of   *)
(* torch.npu.synchronize, kept by the events recorded on registered streams. *)
SynchronizeWaits == \A l \in promised : l[1] \in ran

(* When a session has returned and the simulator has not died, every kernel  *)
(* launched in it whose files could be read has been simulated: none is lost *)
(* between the streams, the FIFO, the command loop and its last cycle.       *)
LaunchedIsSimulated ==
  client = "returned" /\ sim = "exited" => Launches \ Faulty \subseteq simulated

(* A session that has returned or raised leaves no process behind, whatever  *)
(* they were waiting for: the simulator, the simlets and the coordinator.    *)
NoOrphans == Ended => live = {}

(* The engine is busy for the latency the simlet reported, and the accesses  *)
(* of all cores follow each other through the DRAM simlet without overlap,   *)
(* although each answer is rounded four times between cycles and             *)
(* nanoseconds: to within a nanosecond and a cycle for one access, and three *)
(* cycles between two.                                                       *)
Covers(cycles, latency, rounding) == (cycles + rounding) * 1000 >= (latency - 1) * CoreMHz
LatencyCovered ==
  \A i \in DOMAIN log :
    LET a == log[i] IN
    /\ Covers(a.finish - a.issued, a.latency, 1)
    /\ \A j \in 1 .. i - 1 :
         log[j].link = "dram" /\ a.link = "dram"
           => Covers(a.finish - log[j].finish, a.latency, 3)

(* Every answered access is one the link stands for: a read inside a weight  *)
(* range went to the SSD and nothing outside one did. A replayed access has  *)
(* the latency recorded for its instruction, and none of them is traced. And *)
(* each takes the time it was answered.                                      *)
Within(addr, last) ==
  \E r \in ToSet(WeightLines) :
    \/ r[1] <= addr /\ addr <= r[2] - last
    \/ r[2] <= addr /\ addr <= r[1] - last
OracleAnswer ==
  /\ LatencyCovered
  /\ \A i \in DOMAIN log :
       LET a == log[i] IN
       /\ a.link = "ssd" => ~a.op.write /\ Within(a.op.addr, 0)
       /\ ~a.op.write /\ Within(a.op.addr, 1) /\ "ssd" \in links => a.link = "ssd"
       /\ a.link = "replay" =>
            LET same == { j \in 1 .. i : log[j].core = a.core /\ log[j].op = a.op }
                rows == SelectSeq(LatencyRows, LAMBDA r : r[1] = a.core /\ r[2] = a.op.inst)
            IN a.latency = rows[Cardinality(same)][3]
       /\ <<a.core, a.op.inst>> \notin ToSet(trace)

(* Every session ends, save for the two that Hung names: the output of the   *)
(* simulator is read while it is waited for, and each simlet is told to stop. *)
SessionEnds == <>(Ended \/ Hung)

(* The inductive invariant of LaunchPathProofs, in three parts. Sessions: a  *)
(* session has its own client states and processes, and the coordinator is   *)
(* the last to go. Streams: one event is under way at a time, and what was   *)
(* launched on a stream that has been recorded stands before the record or   *)
(* has run. Commands: what has been written is in the FIFO, with the         *)
(* scheduler or simulated, and the FIFO is empty when the simulator stops    *)
(* reading it. Streams needs the client on device 0, where the streams are.  *)
Tasks == {RecordTask, SyncTask} \cup {LaunchTask(k) : k \in Kernels}
Ending == {"end_ssd", "ack_ssd", "end_dram", "ack_dram", "leaving", "exited"}
Gone == {"refused", "crashed", "exited"}
Syncing == client \in {"sync", "until"}
Closed == client \in {"draining", "returned"}

TypeOK ==
  /\ queue \in [Devices -> Seq(Tasks)]
  /\ running \in [Devices -> Tasks \cup {NoTask}]
  /\ unsynced \subseteq Devices /\ completed \in BOOLEAN
  /\ launched \subseteq Kernels \X Devices /\ promised \subseteq launched
  /\ ran \subseteq Kernels /\ pending \subseteq Kernels /\ simulated \subseteq Kernels
  /\ fifo \in Seq(Tasks) /\ handle \in {"open", "closed"}
  /\ sim \in {"starting", "opened", "simulating", "final"} \cup Ending \cup Gone

Sessions ==
  \/ /\ session = "stream" /\ live \subseteq {"sim"}
     /\ client \in {"opening", "script", "sync", "until", "closing", "draining", "returned"}
     /\ client = "returned" => live = {}
  \/ /\ session = "standalone" /\ client \in {"waiting", "returned", "raised"}
     /\ "coordinator" \notin live => live = {}
     /\ Ended => live = {}

(* The task at a place of a stream: the one that runs, then those queued. *)
At(s, i) == IF i = 0 THEN running[s] ELSE queue[s][i]
Line(s) == 0 .. Len(queue[s])

OneRecord ==
  /\ completed => \A s \in Devices : \A i \in Line(s) : At(s, i) # RecordTask
  /\ \A s, z \in Devices : \A i \in Line(s), j \in Line(z) :
       At(s, i) = RecordTask /\ At(z, j) = RecordTask => s = z /\ i = j
Queued ==
  session = "stream" => \A l \in launched :
    l[1] \in ran \/ \E i \in Line(l[2]) : At(l[2], i) = LaunchTask(l[1])
Recorded ==
  Syncing => \A l \in launched :
    \/ l[2] \in unsynced \/ l[1] \in ran
    \/ \E i, j \in Line(l[2]) : /\ i < j /\ At(l[2], i) = LaunchTask(l[1])
                                /\ At(l[2], j) = RecordTask
Known ==
  \A s \in Devices : \A i \in Line(s) :
    /\ At(s, i) # NoTask => session = "stream"
    /\ \A k \in Kernels : At(s, i) = LaunchTask(k) => k \in Launches
Awaited ==
  /\ SynchronizeWaits
  /\ client = "opening" => launched = {}
  /\ session = "stream" /\ (client = "closing" \/ Closed) => Launches \subseteq ran
Streams == OneRecord /\ Queued /\ Recorded /\ Known /\ Awaited

Written == IF session = "stream" THEN ran ELSE Launches
Commands ==
  /\ sim \notin {"refused", "crashed"} => \A k \in Written \ Faulty :
       k \in pending \cup simulated \/ \E i \in DOMAIN fifo : fifo[i] = LaunchTask(k)
  /\ sim \in {"final"} \cup Ending => fifo = << >> /\ handle = "closed"
  /\ sim \in Ending => pending = {}
  /\ session = "stream" =>
       /\ "sim" \in live <=> sim \notin Gone
       /\ handle = "closed" <=> client = "opening" \/ Closed
       /\ sim \in {"final"} \cup Ending => Closed
  /\ session = "standalone" => handle = "closed"

IInv == TypeOK /\ Sessions /\ Streams /\ Commands

(* The inductive invariant of the accesses: the simulator stands still while *)
(* an answer is outstanding, and the end of the last access that the engine  *)
(* knows of is what the DRAM simlet's clock shows without the answer on its  *)
(* way, but for rounding.                                                    *)
Entries == [core : Cores, op : Accesses, link : {"ssd", "dram", "replay"},
            issued : Nat, latency : Nat, finish : Nat]
AccessTypes ==
  /\ cycle \in Nat /\ visit \in Cores /\ timeNow \in Nat /\ links \subseteq {"ssd", "dram"}
  /\ todo \in [Cores -> Seq(Accesses)]
  /\ \A k \in DOMAIN replay : replay[k] \in Seq(Nat) \ {<< >>}
  /\ log \in Seq(Entries)
  /\ \/ call = NoCall
     \/ call \in [link : {"ssd", "dram"}, op : Accesses \cup {Terminate}, at : Nat,
                  answered : BOOLEAN, latency : Nat, resolved : Nat]
Asking == call # NoCall /\ call.op # Terminate
Owed == IF Asking /\ call.answered /\ call.link = "dram" THEN call.latency ELSE 0
Clocked ==
  /\ Asking => call.at = cycle
  /\ Asking /\ call.answered /\ call.link = "dram" =>
       /\ call.latency >= 1 /\ timeNow >= ToNs(call.at) + call.latency
       /\ call.resolved = Larger(call.at, ToCycles(timeNow))
  /\ \A j \in DOMAIN log : log[j].link = "dram" =>
       log[j].finish * 1000 <= (timeNow - Owed + 1) * CoreMHz + 2000
AccessInv == AccessTypes /\ Clocked /\ LatencyCovered
=============================================================================
