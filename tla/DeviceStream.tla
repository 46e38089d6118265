---------------------------- MODULE DeviceStream ----------------------------
(* The streams of the device runtime. The Python package creates one default *)
(* stream for every device, each with a worker thread that runs its tasks in *)
(* order; a device is synchronised by recording an event on each stream      *)
(* registered for it and waiting for the event. A stream is registered for   *)
(* the device that is current when it is created, and the default streams    *)
(* are all created while device 0 is current.                                *)
(*                                                                           *)
(* Streams are named by the device whose default stream they are. The client *)
(* thread waits for one event at a time, so one flag is enough for them all. *)
EXTENDS Integers, Sequences, FiniteSets

CONSTANT Devices       \* the device indices, 0 among them

ASSUME DeviceAssumption == 0 \in Devices

VARIABLES
  queue,       \* tasks: for each stream, the tasks not taken yet
  running,     \* for each stream, the task its worker runs, or NoTask
  unsynced,    \* streams the synchronisation in progress has not reached
  completed    \* the flag of the event the client recorded last

streamVars == <<queue, running, unsynced, completed>>

NoTask == [op |-> "none"]
RecordTask == [op |-> "record"]

(* g_streams_per_device, after _lazy_init has made every default stream from *)
(* the thread whose current device is 0.                                     *)
Registered(d) == IF d = 0 THEN Devices ELSE {}

StreamsInit ==
  /\ queue = [s \in Devices |-> << >>]
  /\ running = [s \in Devices |-> NoTask]
  /\ unsynced = {}
  /\ completed = TRUE

AddTaskToStream(s, t) == queue' = [queue EXCEPT ![s] = Append(@, t)]

(* A worker pops the front task under the stream's lock; the task runs after *)
(* the lock is released, so it is neither queued nor done in between.        *)
Take(s) ==
  /\ running[s] = NoTask /\ queue[s] # << >>
  /\ running' = [running EXCEPT ![s] = Head(queue[s])]
  /\ queue' = [queue EXCEPT ![s] = Tail(@)]
  /\ UNCHANGED <<unsynced, completed>>

(* The task of an event sets its flag and wakes who waits for it. *)
RunRecord(s) ==
  /\ running[s] = RecordTask
  /\ completed' = TRUE
  /\ running' = [running EXCEPT ![s] = NoTask]
  /\ UNCHANGED <<queue, unsynced>>

(* The device's streams are copied under the registry's lock, then they are  *)
(* synchronised one by one in the order of the set, which is by address.     *)
StartDeviceSync(d) == unsynced' = Registered(d)

RecordEvent_StillCompleted(s) ==     \* the flag of the last use is left set
  /\ completed /\ s \in unsynced
  /\ AddTaskToStream(s, RecordTask)
  /\ unsynced' = unsynced \ {s}
  /\ UNCHANGED <<running, completed>>
RecordEvent(s) ==
  /\ completed /\ s \in unsynced
  /\ completed' = FALSE
  /\ AddTaskToStream(s, RecordTask)
  /\ unsynced' = unsynced \ {s}
  /\ UNCHANGED running

(* The last stream has been recorded and its event has completed. *)
DeviceSynchronized == unsynced = {} /\ completed
=============================================================================
