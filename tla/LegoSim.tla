------------------------------- MODULE LegoSim -------------------------------
(* DMA accesses answered by external processes. With LegoSim enabled, a core *)
(* asks the SSD simlet for the latency of a read from a weight tensor and    *)
(* the DRAM simlet for every other access, over the coordinator that relates *)
(* the clocks of the processes, and the DMA engine is busy until the answer  *)
(* has elapsed. The simulator is blocked while a question is open. Without   *)
(* the SSD link a read may instead take the latency that was recorded for it *)
(* in an earlier trace; an access that takes none of these ways is traced.   *)
(*                                                                           *)
(* The SSD answer is a latency. The DRAM answer is a point in time: the      *)
(* simlet serves one request after another on its own clock in nanoseconds,  *)
(* the coordinator hands that time back in core cycles, and the link turns   *)
(* the difference into nanoseconds and the DMA engine back into cycles.      *)
EXTENDS Integers, Sequences, FiniteSets, SequencesExt

CONSTANTS
  NumCores,         \* cores, visited in order within a cycle
  CoreMHz,          \* frequency of the cores
  WeightLines,      \* lines of the weight range file: <<from, to>>
  PageBytes,        \* page of both simlets
  Bandwidth,        \* bytes per nanosecond of each simlet
  BaseLatency,      \* nanoseconds each simlet adds to a transfer
  LatencyRows,      \* rows of the latency file: <<core, instruction, latency>>
  MemoryLatency     \* cycles the simulator's own memory takes

(* What a DMA instruction asks for: a tile of one element at least. *)
Accesses == [inst : Nat, write : BOOLEAN, addr : Nat, bits : Nat \ {0}]

ASSUME LegoAssumption ==
  /\ NumCores \in Nat \ {0} /\ CoreMHz \in Nat \ {0} /\ PageBytes \in Nat \ {0}
  /\ \A l \in {"ssd", "dram"} : Bandwidth[l] \in Nat \ {0} /\ BaseLatency[l] \in Nat

VARIABLES
  links,     \* the links that are enabled
  cycle,     \* core cycle
  visit,     \* the core whose turn it is in this cycle
  todo,      \* for each core, the DMA instructions not issued yet
  dma,       \* for each core, the access in the engine
  call,      \* the question in flight between the simulator and a simlet
  timeNow,   \* clock of the DRAM simlet
  replay,    \* recorded latencies not used yet, by core and instruction
  trace,     \* rows of the SSD trace: <<core, instruction>>
  log        \* history: the accesses that were answered, in order

traceVars == <<replay, trace>>
legoVars == <<links, cycle, visit, todo, dma, call, timeNow, traceVars, log>>

Cores == 0 .. NumCores - 1
IdleEngine == [pending |-> FALSE, finish |-> 0]
NoCall == [link |-> "none"]

Larger(a, b) == IF a > b THEN a ELSE b
CeilDiv(a, b) == (a + b - 1) \div b

(* The ranges, each with its ends in order, sorted by base. *)
Ranges ==
  SetToSortSeq({ IF r[2] < r[1] THEN <<r[2], r[1]>> ELSE r : r \in ToSet(WeightLines) },
               LAMBDA a, b : a[1] < b[1])

(* The last range whose base is not above the address is the only candidate. *)
is_weight_address(addr) ==
  LET below == { i \in DOMAIN Ranges : Ranges[i][1] <= addr } IN
  /\ below # {}
  /\ addr <= Ranges[Cardinality(below)][2]

(* The latencies of the file in order, by the instruction they are for.       *)
make_latency_key(core, inst) == <<core, inst>>
load_latency_file(rows) ==
  [k \in { make_latency_key(r[1], r[2]) : r \in ToSet(rows) } |->
     LET own == SelectSeq(rows, LAMBDA r : make_latency_key(r[1], r[2]) = k)
     IN [i \in DOMAIN own |-> own[i][3]]]

(* The DRAM link claims what neither the SSD link nor a recorded latency has *)
(* claimed; the rest goes to the simulator's own interconnect and DRAM.      *)
Route_Write(op) ==     \* a write to a weight is claimed as well
  IF "ssd" \in links /\ is_weight_address(op.addr) THEN "ssd"
  ELSE IF ~op.write /\ "ssd" \notin links
          /\ make_latency_key(visit, op.inst) \in DOMAIN replay THEN "replay"
  ELSE IF "dram" \in links THEN "dram"
  ELSE "memory"
Route(op) ==
  IF ~op.write /\ "ssd" \in links /\ is_weight_address(op.addr) THEN "ssd"
  ELSE IF ~op.write /\ "ssd" \notin links
          /\ make_latency_key(visit, op.inst) \in DOMAIN replay THEN "replay"
  ELSE IF "dram" \in links THEN "dram"
  ELSE "memory"

pages_touched(addr, nbytes) ==
  IF nbytes = 0 THEN 0
  ELSE (addr + nbytes - 1) \div PageBytes - addr \div PageBytes + 1

compute_latency_ns(link, addr, nbytes) ==
  BaseLatency[link]
    + CeilDiv(pages_touched(addr, nbytes) * PageBytes, Bandwidth[link])

Bytes(op) == (op.bits + 7) \div 8

(* The coordinator relates the clocks: the end of a transfer is the later of *)
(* the writer's and the reader's time, in the unit of the one who asks.      *)
ToNs(c) == (c * 1000) \div CoreMHz
ToCycles(ns) == (ns * CoreMHz) \div 1000

(* A process finds a latency file for its number, or none. *)
SsdTraceManager ==
  /\ trace = << >>
  /\ replay \in {<< >>, load_latency_file(LatencyRows)}

LegoInit ==
  /\ cycle = 0 /\ visit = 0
  /\ todo = [c \in Cores |-> << >>]
  /\ dma = [c \in Cores |-> IdleEngine]
  /\ call = NoCall /\ timeNow = 1 /\ log = << >>
  /\ SsdTraceManager

(* The turn passes to the next core, and after the last one to the next cycle. *)
PassTurn ==
  /\ visit' = (visit + 1) % NumCores
  /\ cycle' = IF visit = NumCores - 1 THEN cycle + 1 ELSE cycle

(* Every instruction has been issued and its latency has elapsed. *)
Drained == \A c \in Cores : todo[c] = << >> /\ ~dma[c].pending

(* An engine is free when it holds nothing or its answer has elapsed now. *)
Free(c) == ~dma[c].pending \/ cycle >= dma[c].finish

StillBusy ==
  /\ ~Free(visit)
  /\ PassTurn
  /\ UNCHANGED <<links, todo, dma, call, timeNow, traceVars, log>>

NothingToIssue ==
  /\ Free(visit) /\ todo[visit] = << >>
  /\ dma' = [dma EXCEPT ![visit] = IdleEngine]
  /\ PassTurn
  /\ UNCHANGED <<links, todo, call, timeNow, traceVars, log>>

HasNext == Free(visit) /\ todo[visit] # << >>
NextOp == Head(todo[visit])
IssueTile == todo' = [todo EXCEPT ![visit] = Tail(@)]

(* The first access of an instruction is a row of the trace. *)
maybe_trace_and_mark(op) ==
  trace' = IF <<visit, op.inst>> \in ToSet(trace) THEN trace ELSE Append(trace, <<visit, op.inst>>)

(* Without a link the access goes through the simulator's own memory. *)
AccessMemory ==
  /\ HasNext /\ Route(NextOp) = "memory"
  /\ IssueTile
  /\ dma' = [dma EXCEPT ![visit] = [pending |-> TRUE,
                                    finish |-> cycle + MemoryLatency]]
  /\ maybe_trace_and_mark(NextOp)
  /\ PassTurn
  /\ UNCHANGED <<links, call, timeNow, replay, log>>

(* The engine is pending for at least one cycle. *)
Answered(op, link, latency, ns) ==
  LET cycles == Larger(1, CeilDiv(ns * CoreMHz, 1000))
  IN /\ dma' = [dma EXCEPT ![visit] = [pending |-> TRUE, finish |-> cycle + cycles]]
     /\ log' = Append(log, [core |-> visit, op |-> op, link |-> link, issued |-> cycle,
                            latency |-> latency, finish |-> cycle + cycles])

(* The oldest latency recorded for the instruction; the last one is dropped  *)
(* with its entry.                                                           *)
pop_latency_for_instruction ==
  /\ HasNext /\ Route(NextOp) = "replay"
  /\ IssueTile
  /\ LET k == make_latency_key(visit, NextOp.inst) IN
     /\ Answered(NextOp, "replay", Head(replay[k]), Head(replay[k]))
     /\ replay' = IF Len(replay[k]) = 1 THEN [j \in DOMAIN replay \ {k} |-> replay[j]]
                  ELSE [replay EXCEPT ![k] = Tail(@)]
  /\ PassTurn
  /\ UNCHANGED <<links, call, timeNow, trace>>

(* A request as it goes out; the simlet fills in the answer. *)
Request(link, op, at) ==
  [link |-> link, op |-> op, at |-> at, answered |-> FALSE, latency |-> 0, resolved |-> 0]
Terminate == [inst |-> 0, write |-> FALSE, addr |-> 0, bits |-> 0]

(* get_memory_access asks before it touches anything else of the access. *)
Ask ==
  /\ HasNext /\ Route(NextOp) \in {"ssd", "dram"}
  /\ IssueTile
  /\ call' = Request(Route(NextOp), NextOp, cycle)
  /\ dma' = [dma EXCEPT ![visit] = IdleEngine]
  /\ UNCHANGED <<links, cycle, visit, timeNow, traceVars, log>>

(* One turn of a simlet's loop: receive, compute, respond. The DRAM simlet   *)
(* answers at the end of the access on its own clock; the sentinel that ends *)
(* the loop is answered before the process exits.                            *)
Serve_OwnClock(link) ==     \* the simlet forgets when it became free
  /\ call.link = link /\ ~call.answered
  /\ LET latency == IF call.op = Terminate THEN 0
                    ELSE compute_latency_ns(link, call.op.addr, Bytes(call.op))
     IN call' = [call EXCEPT !.answered = TRUE, !.latency = latency,
                             !.resolved = ToCycles(ToNs(call.at) + latency)]
  /\ UNCHANGED <<links, cycle, visit, todo, dma, timeNow, traceVars, log>>
Serve(link) ==
  /\ call.link = link /\ ~call.answered
  /\ LET latency == IF call.op = Terminate THEN 0
                    ELSE compute_latency_ns(link, call.op.addr, Bytes(call.op))
         end == Larger(ToNs(call.at), timeNow) + latency
     IN /\ timeNow' = IF link = "dram" THEN end ELSE timeNow
        /\ call' = [call EXCEPT !.answered = TRUE, !.latency = latency,
                                !.resolved = Larger(call.at, ToCycles(end))]
  /\ UNCHANGED <<links, cycle, visit, todo, dma, traceVars, log>>

(* The latency a link reports, in nanoseconds. *)
query_latency_ns ==
  IF call.link = "ssd" THEN call.latency
  ELSE LET elapsed == IF call.resolved > call.at THEN call.resolved - call.at ELSE 1
       IN CeilDiv(elapsed * 1000, CoreMHz)

(* The answer arrives. *)
TakeAnswer ==
  /\ call.link # "none" /\ call.answered /\ call.op # Terminate
  /\ Answered(call.op, call.link, call.latency, query_latency_ns)
  /\ call' = NoCall
  /\ PassTurn
  /\ UNCHANGED <<links, todo, timeNow, traceVars>>

(* main ends the simlets it used, the SSD's first, with a request that asks  *)
(* them to stop, and waits for each acknowledgement.                         *)
AskShutdown(link) ==
  /\ call = NoCall /\ link \in links
  /\ call' = Request(link, Terminate, 0)
  /\ UNCHANGED <<links, cycle, visit, todo, dma, timeNow, traceVars, log>>

TakeAck ==
  /\ call.link # "none" /\ call.answered /\ call.op = Terminate
  /\ call' = NoCall
  /\ UNCHANGED <<links, cycle, visit, todo, dma, timeNow, traceVars, log>>
=============================================================================
