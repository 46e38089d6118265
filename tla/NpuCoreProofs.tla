---------------------------- MODULE NpuCoreProofs ----------------------------
(* Proofs about NpuCore, for any tile graph, instruction graph and number  *)
(* of requests, pipelines and ports.  IInv is inductive: an instruction is *)
(* in one place of the core, its ready counter counts its open             *)
(* predecessors, a tag belongs to one load at a time, and a transfer waits *)
(* for exactly the requests of it that are under way.                      *)
EXTENDS NpuCore, FiniteSetTheorems, SequenceTheorems, TLAPS

(* What the queues of the core and of its DMA engine do to their contents. *)
LEMMA AppendQueue ==
  ASSUME NEW S, NEW q \in Seq(S), NEW x \in S
  PROVE  /\ Append(q, x) \in Seq(S) /\ Append(q, x) # <<>>
         /\ Elems(q) \subseteq S
         /\ Elems(Append(q, x)) = Elems(q) \cup {x}
         /\ x \notin Elems(q) /\ NoRepeat(q) => NoRepeat(Append(q, x))
         /\ Head(Append(q, x)) = IF q = <<>> THEN x ELSE Head(q)
<1> DEFINE r == Append(q, x)
<1>1. /\ r \in Seq(S) /\ Len(r) = Len(q) + 1 /\ Len(q) \in Nat
      /\ r[Len(q) + 1] = x /\ \A k \in 1 .. Len(q) : r[k] = q[k] /\ q[k] \in S
  OBVIOUS
<1>2. \A k \in 1 .. Len(r) : k \in 1 .. Len(q) \/ k = Len(q) + 1
  BY <1>1
<1>3. /\ \A k \in 1 .. Len(q) : k \in 1 .. Len(r)
      /\ Len(q) + 1 \in 1 .. Len(r)
  BY <1>1
<1>4. r # <<>> /\ Head(r) = r[1] /\ (q = <<>> <=> Len(q) = 0)
      /\ (q # <<>> => Head(q) = q[1] /\ 1 \in 1 .. Len(q))
  OBVIOUS
<1> HIDE DEF r
<1>5. Elems(r) = Elems(q) \cup {x}
  <2>1. ASSUME NEW y \in Elems(r) PROVE y \in Elems(q) \cup {x}
    BY <1>1, <1>2 DEF Elems
  <2>2. ASSUME NEW y \in Elems(q) PROVE y \in Elems(r)
    BY <1>1, <1>3 DEF Elems
  <2>3. x \in Elems(r)
    BY <1>1, <1>3 DEF Elems
  <2>4. QED
    BY <2>1, <2>2, <2>3
<1>6. x \notin Elems(q) /\ NoRepeat(q) => NoRepeat(r)
  BY <1>1, <1>2 DEF Elems, NoRepeat
<1>7. Elems(q) \subseteq S
  BY <1>1 DEF Elems
<1>8. Head(r) = IF q = <<>> THEN x ELSE Head(q)
  BY <1>1, <1>4
<1>9. QED
  BY <1>1, <1>4, <1>5, <1>6, <1>7, <1>8 DEF r

LEMMA TailQueue ==
  ASSUME NEW S, NEW q \in Seq(S), q # <<>>
  PROVE  /\ Tail(q) \in Seq(S) /\ Head(q) \in S /\ Head(q) \in Elems(q)
         /\ Elems(q) = {Head(q)} \cup Elems(Tail(q))
         /\ NoRepeat(q) => NoRepeat(Tail(q)) /\ Head(q) \notin Elems(Tail(q))
<1>1. /\ Len(q) \in Nat /\ Len(q) > 0 /\ Tail(q) \in Seq(S)
      /\ Len(Tail(q)) = Len(q) - 1
      /\ \A k \in 1 .. Len(Tail(q)) : Tail(q)[k] = q[k + 1]
      /\ Head(q) = q[1] /\ q[1] \in S
  OBVIOUS
<1>2. /\ 1 \in 1 .. Len(q)
      /\ \A k \in 1 .. Len(Tail(q)) : k + 1 \in 1 .. Len(q) /\ k + 1 # 1
      /\ \A k \in 1 .. Len(q) : k # 1 => k - 1 \in 1 .. Len(Tail(q)) /\ (k - 1) + 1 = k
  BY <1>1
<1>3. Elems(q) = {Head(q)} \cup Elems(Tail(q))
  <2>1. ASSUME NEW y \in Elems(q) PROVE y \in {Head(q)} \cup Elems(Tail(q))
    <3>1. PICK k \in 1 .. Len(q) : y = q[k]
      BY DEF Elems
    <3>2. k # 1 => Tail(q)[k - 1] = y /\ k - 1 \in 1 .. Len(Tail(q))
      BY <1>1, <1>2, <3>1
    <3>3. QED
      BY <1>1, <3>1, <3>2 DEF Elems
  <2>2. ASSUME NEW y \in Elems(Tail(q)) PROVE y \in Elems(q)
    BY <1>1, <1>2 DEF Elems
  <2>3. Head(q) \in Elems(q)
    BY <1>1, <1>2 DEF Elems
  <2>4. QED
    BY <2>1, <2>2, <2>3
<1>4. ASSUME NoRepeat(q) PROVE NoRepeat(Tail(q)) /\ Head(q) \notin Elems(Tail(q))
  <2>1. ASSUME NEW m \in 1 .. Len(Tail(q)), NEW n \in 1 .. Len(Tail(q)),
               Tail(q)[m] = Tail(q)[n]
        PROVE  m = n
    <3>1. m + 1 = n + 1
      BY <1>1, <1>2, <1>4, <2>1 DEF NoRepeat
    <3>2. QED
      BY <3>1
  <2>2. Head(q) \notin Elems(Tail(q))
    BY <1>1, <1>2, <1>4 DEF Elems, NoRepeat
  <2>3. QED
    BY <2>1, <2>2 DEF NoRepeat
<1>5. QED
  BY <1>1, <1>2, <1>3, <1>4 DEF Elems
-----------------------------------------------------------------------------
(* The predecessors of an instruction can be counted.                      *)
LEMMA PredsFinite ==
  ASSUME NEW i \in Insts, NEW S
  PROVE  /\ IsFiniteSet(Preds(i) \ S)
         /\ Cardinality(Preds(i) \ S) \in Nat
         /\ Cardinality(Preds(i) \ S) = 0 <=> Preds(i) \subseteq S
<1>1. IsFiniteSet(Preds(i) \ S)
  BY CoreAssumption, FS_Subset DEF Preds
<1>2. QED
  BY <1>1, FS_CardinalityType, FS_EmptySet

(* Instruction::finish_instruction of an instruction that is not finished  *)
(* and depends on nothing open: dec_ready_counter never meets a zero, and  *)
(* what it releases was in no place yet.                                   *)
LEMMA FinishStep ==
  ASSUME TypeOK, CounterInv, NEW i \in Insts, i \notin finished, counter[i] = 0,
         TileOf[i] \in started, Finish(i)
  PROVE  /\ finished' = finished \cup {i}
         /\ fault' = fault
         /\ counter' \in [Insts -> Nat]
         /\ \A j \in Insts : counter'[j] = Cardinality(Preds(j) \ finished')
         /\ \A j \in Insts : counter[j] = 0 => counter'[j] = 0
         /\ ready' = (ready \ {i}) \cup Released(Succ[i])
         /\ \A j \in Released(Succ[i]) :
              /\ j \in Insts /\ TileOf[j] \in started
              /\ counter'[j] = 0 /\ counter[j] # 0
<1>1. finish_instruction(i)
  BY DEF Finish
<1>2. /\ finished' = finished \cup {i}
      /\ fault' = (fault \/ \E j \in Succ[i] : counter[j] = 0)
      /\ counter' = [j \in Insts |-> IF j \in Succ[i] /\ counter[j] # 0
                                       THEN counter[j] - 1 ELSE counter[j]]
      /\ ready' = (ready \ {i}) \cup Released(Succ[i])
  BY <1>1 DEF finish_instruction, dec_ready_counter
<1>3. /\ Succ[i] \subseteq Insts
      /\ \A j \in Succ[i] : TileOf[j] = TileOf[i]
  BY CoreAssumption
<1>4. counter \in [Insts -> Nat]
      /\ \A j \in Insts : counter[j] = Cardinality(Preds(j) \ finished)
  BY DEF TypeOK, CounterInv
<1>5. ASSUME NEW j \in Succ[i] PROVE counter[j] # 0 /\ i \in Preds(j) \ finished
  <2>1. i \in Preds(j) \ finished
    BY DEF Preds
  <2>2. QED
    BY <1>3, <1>4, <2>1, PredsFinite
<1>6. fault' = fault
  BY <1>2, <1>5 DEF TypeOK
<1>7. counter' \in [Insts -> Nat]
  BY <1>2, <1>4
<1>8. ASSUME NEW j \in Insts
      PROVE  counter'[j] = Cardinality(Preds(j) \ finished')
  <2>1. CASE j \in Succ[i]
    <3>1. Preds(j) \ finished' = (Preds(j) \ finished) \ {i}
      BY <1>2
    <3>2. Cardinality((Preds(j) \ finished) \ {i}) = Cardinality(Preds(j) \ finished) - 1
      BY <1>5, <2>1, PredsFinite, FS_RemoveElement
    <3>3. QED
      BY <1>2, <1>4, <1>5, <2>1, <3>1, <3>2
  <2>2. CASE j \notin Succ[i]
    <3>1. Preds(j) \ finished' = Preds(j) \ finished
      BY <1>2, <2>2 DEF Preds
    <3>2. QED
      BY <1>2, <1>4, <2>2, <3>1
  <2>3. QED
    BY <2>1, <2>2
<1>9. \A j \in Insts : counter[j] = 0 => counter'[j] = 0
  BY <1>2
<1>10. \A j \in Released(Succ[i]) :
              /\ j \in Insts /\ TileOf[j] \in started
              /\ counter'[j] = 0 /\ counter[j] # 0
  BY <1>2, <1>3, <1>4 DEF Released
<1>11. QED
  BY <1>2, <1>6, <1>7, <1>8, <1>9, <1>10
-----------------------------------------------------------------------------
(* What an instruction that is in some place of the core is.               *)
LEMMA WhatIsWhere ==
  ASSUME TypeOK
  PROVE  /\ Moving \subseteq Transfers /\ Landing \subseteq Transfers
         /\ Piped \subseteq Computes /\ Parked \subseteq Async \cup Barriers
         /\ Elems(ldQ) \subseteq Loads \ Sparse /\ Elems(stQ) \subseteq Stores
<1>1. /\ \A k \in 1 .. Len(ldQ) : ldQ[k] \in Loads \ Sparse
      /\ \A k \in 1 .. Len(stQ) : stQ[k] \in Stores
      /\ \A k \in 1 .. Len(doneQ) : doneQ[k] \in Transfers
      /\ \A u \in Units : \A k \in 1 .. Len(pipe[u]) : pipe[u][k] \in Computes
  <2>1. ldQ \in Seq(Loads \ Sparse) /\ stQ \in Seq(Stores) /\ doneQ \in Seq(Transfers)
        /\ \A u \in Units : pipe[u] \in Seq(Computes)
    BY DEF TypeOK
  <2>2. QED
    BY <2>1
<1>2. Elems(ldQ) \subseteq Loads \ Sparse /\ Elems(stQ) \subseteq Stores
      /\ Elems(doneQ) \subseteq Transfers
      /\ \A u \in Units : Elems(pipe[u]) \subseteq Computes
  BY <1>1 DEF Elems
<1>3. Moving \subseteq Transfers
  BY <1>2 DEF TypeOK, Moving, Transfers
<1>4. Landing \subseteq Transfers
  BY <1>2 DEF TypeOK, Landing
<1>5. Piped \subseteq Computes
  BY <1>2 DEF Piped
<1>6. Parked \subseteq Async \cup Barriers
  BY DEF TypeOK, Parked
<1>7. QED
  BY <1>2, <1>3, <1>4, <1>5, <1>6

(* The kinds of instructions.                                              *)
LEMMA Kinds ==
  /\ Loads \subseteq Insts /\ Stores \subseteq Insts /\ Computes \subseteq Insts
  /\ Barriers \subseteq Insts /\ Transfers \subseteq Insts
  /\ Async \subseteq Loads /\ Sparse \subseteq Loads
  /\ Loads \cap Stores = {} /\ Loads \cap Computes = {} /\ Loads \cap Barriers = {}
  /\ Stores \cap Computes = {} /\ Stores \cap Barriers = {}
  /\ Computes \cap Barriers = {}
  /\ NoInst \notin Insts
BY CoreAssumption DEF Loads, Stores, Computes, Barriers, Transfers

(* Nothing is finished or released, and nothing enters the core.           *)
LEMMA CounterFrame ==
  ASSUME CounterInv, UNCHANGED <<finished, counter>>, started \subseteq started',
         ready' \cup Moving' \cup Piped' \cup Parked' \cup Landing'
           \subseteq ready \cup Moving \cup Piped \cup Parked \cup Landing
  PROVE  CounterInv'
BY DEF CounterInv, Preds

(* An instruction that was somewhere is finished and leaves for good, or   *)
(* stays with the transfers that wait for responses.                       *)
LEMMA FinishKeepsPlaces ==
  ASSUME TypeOK, CounterInv, PlaceInv, NoFault, NEW i \in Insts, i \notin finished,
         i \in ready \cup Moving \cup Piped \cup Parked \cup Landing, Finish(i),
         started' = started,
         Moving' \subseteq Moving \ {i}, Piped' \subseteq Piped \ {i},
         Parked' \subseteq Parked \ {i}, Landing' \subseteq Landing \cup {i},
         i \in Landing' => i \in Stores \cup Async
  PROVE  /\ CounterInv' /\ PlaceInv' /\ NoFault'
         /\ finished' = finished \cup {i}
         /\ ready' \subseteq Insts /\ counter' \in [Insts -> Nat] /\ fault' \in BOOLEAN
         /\ finished' \subseteq Insts
<1>1. counter[i] = 0 /\ TileOf[i] \in started
  BY DEF CounterInv
<1>2. /\ finished' = finished \cup {i}
      /\ fault' = fault
      /\ counter' \in [Insts -> Nat]
      /\ \A j \in Insts : counter'[j] = Cardinality(Preds(j) \ finished')
      /\ \A j \in Insts : counter[j] = 0 => counter'[j] = 0
      /\ ready' = (ready \ {i}) \cup Released(Succ[i])
      /\ \A j \in Released(Succ[i]) :
           /\ j \in Insts /\ TileOf[j] \in started
           /\ counter'[j] = 0 /\ counter[j] # 0
  BY <1>1, FinishStep
<1>3. Released(Succ[i]) \cap (ready \cup Moving \cup Piped \cup Parked \cup Landing
                                \cup finished \cup {i}) = {}
  BY <1>1, <1>2 DEF CounterInv
<1>4. PlaceInv'
  BY <1>2, <1>3 DEF PlaceInv
<1>5. CounterInv'
  <2>1. ASSUME NEW j \in ready' \cup Moving' \cup Piped' \cup Parked' \cup Landing'
                           \cup finished'
        PROVE  counter'[j] = 0 /\ TileOf[j] \in started'
    <3>1. CASE j \in Released(Succ[i])
      BY <1>2, <3>1
    <3>2. CASE j \notin Released(Succ[i])
      <4>1. j \in ready \cup Moving \cup Piped \cup Parked \cup Landing \cup finished
        BY <1>2, <2>1, <3>2
      <4>2. j \in Insts
        BY <4>1, WhatIsWhere, Kinds DEF TypeOK
      <4>3. QED
        BY <1>2, <4>1, <4>2 DEF CounterInv
    <3>3. QED
      BY <3>1, <3>2
  <2>2. QED
    BY <1>2, <2>1 DEF CounterInv, Preds
<1>6. QED
  BY <1>2, <1>4, <1>5, Kinds DEF NoFault, TypeOK

(* A step outside of the waking of waiters that lets no load enter keeps   *)
(* the tags, if what it finishes has its tag.                              *)
LEMMA TagFrame ==
  ASSUME TagInv, pc # "wake", pc' # "wake", UNCHANGED <<tag, waiters, wake>>,
         (Moving' \cup Landing') \cap Loads \subseteq Moving \cup Landing,
         \A i \in finished' \ finished :
           /\ i \in Loads => tag[Tag[i]] # "absent"
           /\ i \in Barriers => tag[Tag[i]] \in {"loaded", "sparse"}
  PROVE  TagInv'
BY DEF TagInv

LEMMA TileFrame ==
  ASSUME TileInv, finished \subseteq finished', UNCHANGED <<started, retired, finishedTiles>>
  PROVE  TileInv'
BY DEF TileInv

LEMMA QueueFrame ==
  ASSUME QueueInv, UNCHANGED <<ldQ, stQ, doneQ, cur, waitQ, pipe>>
  PROVE  QueueInv'
BY DEF QueueInv

(* A step that sends, moves and answers no request.                        *)
LEMMA DmaFrame ==
  ASSUME DmaInv, NoLostCompletion,
         UNCHANGED <<cur, dmaFinished, generated, pend, ssd, waitQ, waiting, reqQ, net, mem>>,
         pc' = "generate" => ~dmaFinished,
         cur # NoInst /\ dmaFinished /\ pc' \in {"issue", "cache"} => pc \in {"issue", "cache"}
  PROVE  DmaInv' /\ NoLostCompletion'
BY DEF DmaInv, NoLostCompletion
-----------------------------------------------------------------------------
LEMMA InitInvariant == Init => IInv
<1> SUFFICES ASSUME Init PROVE IInv
  OBVIOUS
<1>1. /\ pc = "idle" /\ finishedTiles = <<>> /\ tiles = <<>>
      /\ started = {} /\ retired = {} /\ ready = {} /\ finished = {} /\ fault = FALSE
      /\ counter = [i \in Insts |-> Cardinality(Preds(i))]
      /\ pipe = [u \in Units |-> <<>>] /\ ldQ = <<>> /\ stQ = <<>> /\ cur = NoInst
      /\ dmaFinished = TRUE /\ generated = FALSE /\ ssd = FALSE
      /\ waitQ = {} /\ doneQ = <<>> /\ wake = {}
      /\ tag = [k \in Tags |-> "absent"]
      /\ waiting = [i \in Loads \cup Stores |-> 0]
      /\ reqQ = waiting /\ net = waiting /\ mem = waiting
  BY DEF Init
<1>2. Elems(<<>>) = {} /\ NoRepeat(<<>>)
  BY DEF Elems, NoRepeat
<1>3. Moving = {} /\ Landing = {} /\ Piped = {}
  BY <1>1, <1>2 DEF Moving, Landing, Piped
<1>4. Parked = {}
  BY <1>1, CoreAssumption DEF Parked, Barriers
<1>5. \A i \in Insts : Preds(i) \ {} = Preds(i) /\ Cardinality(Preds(i)) \in Nat
  <2>1. \A i \in Insts : IsFiniteSet(Preds(i))
    BY CoreAssumption, FS_Subset DEF Preds
  <2>2. QED
    BY <2>1, FS_CardinalityType
<1>6. TypeOK
  <2>1. rr \in 0 .. NSA - 1 /\ zero \subseteq Computes /\ pend \in Nat
    BY CoreAssumption DEF Init
  <2>2. waiters \in [Tags -> SUBSET (Async \cup Barriers)]
    BY DEF Init
  <2>3. counter \in [Insts -> Nat]
    BY <1>1, <1>5
  <2>4. /\ tiles \in Seq(Tiles) /\ finishedTiles \in Seq(Tiles)
        /\ pipe \in [Units -> Seq(Computes)]
        /\ ldQ \in Seq(Loads \ Sparse) /\ stQ \in Seq(Stores) /\ doneQ \in Seq(Transfers)
    BY <1>1
  <2>5. {waiting, reqQ, net, mem} \subseteq [Loads \cup Stores -> Nat]
    BY <1>1
  <2>6. tag \in [Tags -> {"absent", "loading", "sparse", "loaded"}]
    BY <1>1
  <2>7. pc \in {"idle", "compute", "oracle", "drain", "wake", "dma", "generate",
                "issue", "cache"}
        /\ {dmaFinished, generated, ssd} \subseteq BOOLEAN
    BY <1>1
  <2>8. QED
    BY <1>1, <2>1, <2>2, <2>3, <2>4, <2>5, <2>6, <2>7 DEF TypeOK
<1>7. CounterInv
  BY <1>1, <1>3, <1>4, <1>5 DEF CounterInv
<1>8. PlaceInv /\ QueueInv /\ TileInv
  <2>1. PlaceInv
    BY <1>1, <1>3, <1>4 DEF PlaceInv
  <2>2. QueueInv
    BY <1>1, <1>2 DEF QueueInv
  <2>3. QED
    BY <1>1, <1>2, <2>1, <2>2 DEF TileInv
<1>9. TagInv
  BY <1>1, <1>3 DEF TagInv
<1>10. DmaInv /\ NoFault /\ NoLostCompletion
  BY <1>1 DEF DmaInv, NoFault, NoLostCompletion
<1>11. QED
  BY <1>6, <1>7, <1>8, <1>9, <1>10 DEF IInv

(* A step between the parts of Core::cycle, or no step at all.             *)
LEMMA ControlSteps ==
  ASSUME IInv,
         ComputeDone \/ OracleSilent \/ DrainDone \/ DmaIdle \/ DmaGoesOn \/ EndCycle
           \/ UNCHANGED vars
  PROVE  IInv'
<1>1. UNCHANGED <<tileVars, instVars, pipeVars, dmaVars, doneVars, tagVars, memVars>>
  BY DEF ComputeDone, OracleSilent, DrainDone, DmaIdle, DmaGoesOn, EndCycle, vars
<1>2. /\ UNCHANGED <<tiles, finishedTiles, started, retired>>
      /\ UNCHANGED <<ready, counter, finished, fault>>
      /\ UNCHANGED <<pipe, rr, zero>>
      /\ UNCHANGED <<ldQ, stQ, cur, dmaFinished, generated, pend, ssd>>
      /\ UNCHANGED <<waitQ, doneQ, wake>>
      /\ UNCHANGED <<tag, waiters>>
      /\ UNCHANGED <<waiting, reqQ, net, mem>>
  BY <1>1 DEF tileVars, instVars, pipeVars, dmaVars, doneVars, tagVars, memVars
<1>3. UNCHANGED <<Moving, Landing, Piped, Parked>>
  BY <1>2 DEF Moving, Landing, Piped, Parked
<1>4. /\ pc' \in {"idle", "compute", "oracle", "drain", "wake", "dma", "generate",
                  "issue", "cache"}
      /\ pc' = "wake" <=> pc = "wake"
      /\ pc' = "generate" => pc = "generate" \/ ~dmaFinished
      /\ cur # NoInst /\ dmaFinished /\ pc' \in {"issue", "cache"} => pc \in {"issue", "cache"}
  BY DEF IInv, TypeOK, ComputeDone, OracleSilent, DrainDone, DmaIdle, DmaGoesOn, EndCycle, vars
<1>5. TypeOK'
  BY <1>2, <1>4 DEF IInv, TypeOK
<1>6. CounterInv' /\ PlaceInv'
  BY <1>2, <1>3, CounterFrame DEF IInv, PlaceInv
<1>7. QueueInv' /\ TileInv'
  BY <1>2, QueueFrame, TileFrame DEF IInv
<1>8. TagInv'
  BY <1>2, <1>3, <1>4 DEF IInv, TagInv
<1>9. DmaInv' /\ NoLostCompletion'
  BY <1>2, <1>4, DmaFrame DEF IInv, DmaInv
<1>10. QED
  BY <1>2, <1>5, <1>6, <1>7, <1>8, <1>9 DEF IInv, NoFault

(* Core::pop_finished_tile, at the beginning of a core cycle.              *)
LEMMA BeginCycleStep ==
  ASSUME IInv, BeginCycle
  PROVE  IInv'
<1>1. /\ pc = "idle" /\ pc' = "compute" /\ UNCHANGED <<tiles, started>>
      /\ UNCHANGED <<ready, counter, finished, fault>>
      /\ UNCHANGED <<pipe, rr, zero>>
      /\ UNCHANGED <<ldQ, stQ, cur, dmaFinished, generated, pend, ssd>>
      /\ UNCHANGED <<waitQ, doneQ, wake>>
      /\ UNCHANGED <<tag, waiters>>
      /\ UNCHANGED <<waiting, reqQ, net, mem>>
  BY DEF BeginCycle, instVars, pipeVars, dmaVars, doneVars, tagVars, memVars
<1>2. /\ finishedTiles' \in Seq(Tiles) /\ retired' \subseteq Tiles
      /\ Elems(finishedTiles') \cup retired' \subseteq Elems(finishedTiles) \cup retired
      /\ retired \subseteq retired'
  <2>1. finishedTiles \in Seq(Tiles) /\ retired \subseteq Tiles
    BY DEF IInv, TypeOK
  <2>2. CASE finishedTiles = <<>>
    BY <2>1, <2>2 DEF BeginCycle
  <2>3. CASE finishedTiles # <<>>
    <3>1. /\ retired' = retired \cup {Head(finishedTiles)}
          /\ finishedTiles' = Tail(finishedTiles)
      BY <2>3 DEF BeginCycle
    <3>2. /\ Tail(finishedTiles) \in Seq(Tiles) /\ Head(finishedTiles) \in Tiles
          /\ Elems(finishedTiles) = {Head(finishedTiles)} \cup Elems(Tail(finishedTiles))
      BY <2>1, <2>3, TailQueue
    <3>3. QED
      BY <2>1, <3>1, <3>2
  <2>4. QED
    BY <2>2, <2>3
<1>3. UNCHANGED <<Moving, Landing, Piped, Parked>>
  BY <1>1 DEF Moving, Landing, Piped, Parked
<1>4. TypeOK'
  BY <1>1, <1>2 DEF IInv, TypeOK
<1>5. CounterInv' /\ PlaceInv'
  BY <1>1, <1>3, CounterFrame DEF IInv, PlaceInv
<1>6. QueueInv' /\ TagInv'
  BY <1>1, <1>3, QueueFrame, TagFrame DEF IInv
<1>7. TileInv'
  BY <1>1, <1>2 DEF IInv, TileInv
<1>8. DmaInv' /\ NoLostCompletion'
  BY <1>1, DmaFrame DEF IInv
<1>9. QED
  BY <1>1, <1>4, <1>5, <1>6, <1>7, <1>8 DEF IInv, NoFault

(* Core::issue of a tile: only instructions that wait for nothing become   *)
(* ready.                                                                  *)
LEMMA StartTileStep ==
  ASSUME IInv, NEW t \in Tiles, StartTile(t)
  PROVE  IInv'
<1>1. /\ pc = "idle" /\ pc' = "idle" /\ UNCHANGED <<finishedTiles, retired>>
      /\ UNCHANGED <<counter, finished, fault>>
      /\ UNCHANGED <<pipe, rr, zero>>
      /\ UNCHANGED <<ldQ, stQ, cur, dmaFinished, generated, pend, ssd>>
      /\ UNCHANGED <<waitQ, doneQ, wake>>
      /\ UNCHANGED <<tag, waiters>>
      /\ UNCHANGED <<waiting, reqQ, net, mem>>
      /\ t \notin started /\ TileParents(t) \subseteq retired
      /\ started' = started \cup {t} /\ tiles' = Append(tiles, t)
      /\ ready' = ready \cup {i \in InstsOf(t) : counter[i] = 0}
  BY DEF StartTile, pipeVars, dmaVars, doneVars, tagVars, memVars
<1>2. UNCHANGED <<Moving, Landing, Piped, Parked>>
  BY <1>1 DEF Moving, Landing, Piped, Parked
<1>3. tiles' \in Seq(Tiles)
  BY <1>1, AppendQueue DEF IInv, TypeOK
<1>4. TypeOK'
  BY <1>1, <1>3 DEF IInv, TypeOK, InstsOf
<1>5. \A i \in InstsOf(t) : /\ i \in Insts /\ TileOf[i] = t
                            /\ i \notin ready \cup Moving \cup Piped \cup Parked
                                          \cup Landing \cup finished
  BY <1>1 DEF IInv, CounterInv, InstsOf
<1>6. PlaceInv'
  BY <1>1, <1>2, <1>5 DEF IInv, PlaceInv
<1>7. CounterInv'
  <2>1. ASSUME NEW i \in ready' \cup Moving' \cup Piped' \cup Parked' \cup Landing'
                           \cup finished'
        PROVE  counter'[i] = 0 /\ TileOf[i] \in started'
    BY <1>1, <1>2, <1>5 DEF IInv, CounterInv
  <2>2. QED
    BY <1>1, <2>1 DEF IInv, CounterInv, Preds
<1>8. QueueInv' /\ TagInv'
  BY <1>1, <1>2, QueueFrame, TagFrame DEF IInv
<1>9. TileInv'
  BY <1>1 DEF IInv, TileInv
<1>10. DmaInv' /\ NoLostCompletion'
  BY <1>1, DmaFrame DEF IInv
<1>11. QED
  BY <1>1, <1>4, <1>6, <1>7, <1>8, <1>9, <1>10 DEF IInv, NoFault
-----------------------------------------------------------------------------
(* compute_cycle finishes the head of a pipeline.                          *)
LEMMA PipeStep ==
  ASSUME IInv, NEW u \in Units, PipeFinishes(u)
  PROVE  IInv'
<1> DEFINE i == Head(pipe[u])
<1>1. /\ pc = "compute" /\ pc' = "compute" /\ pipe[u] # <<>> /\ Finish(i)
      /\ pipe' = [pipe EXCEPT ![u] = Tail(@)]
      /\ UNCHANGED <<tiles, finishedTiles, started, retired>>
      /\ UNCHANGED <<rr, zero>>
      /\ UNCHANGED <<ldQ, stQ, cur, dmaFinished, generated, pend, ssd>>
      /\ UNCHANGED <<waitQ, doneQ, wake>>
      /\ UNCHANGED <<tag, waiters>>
      /\ UNCHANGED <<waiting, reqQ, net, mem>>
  BY DEF PipeFinishes, tileVars, dmaVars, doneVars, tagVars, memVars
<1>2. pipe \in [Units -> Seq(Computes)] /\ pipe[u] \in Seq(Computes)
  BY DEF IInv, TypeOK
<1>3. /\ Tail(pipe[u]) \in Seq(Computes) /\ i \in Computes /\ i \in Elems(pipe[u])
      /\ Elems(pipe[u]) = {i} \cup Elems(Tail(pipe[u]))
      /\ NoRepeat(Tail(pipe[u])) /\ i \notin Elems(Tail(pipe[u]))
  BY <1>1, <1>2, TailQueue DEF IInv, QueueInv
<1> HIDE DEF i
<1>4. /\ pipe' \in [Units -> Seq(Computes)]
      /\ \A v \in Units : pipe'[v] = IF v = u THEN Tail(pipe[u]) ELSE pipe[v]
  BY <1>1, <1>2, <1>3
<1>5. \A v \in Units : v # u => i \notin Elems(pipe[v])
  BY <1>3 DEF IInv, QueueInv
<1>6. /\ Piped' \subseteq Piped \ {i} /\ i \in Piped
      /\ UNCHANGED <<Moving, Landing, Parked>>
  BY <1>1, <1>3, <1>4, <1>5 DEF Piped, Moving, Landing, Parked
<1>7. i \notin finished /\ i \notin Parked /\ i \notin Moving /\ i \notin Landing /\ i \in Insts
  BY <1>3, <1>6, WhatIsWhere, Kinds DEF IInv, PlaceInv, Transfers
<1>8. /\ CounterInv' /\ PlaceInv' /\ NoFault'
      /\ finished' = finished \cup {i}
      /\ ready' \subseteq Insts /\ counter' \in [Insts -> Nat] /\ fault' \in BOOLEAN
      /\ finished' \subseteq Insts
  BY <1>1, <1>6, <1>7, FinishKeepsPlaces DEF IInv
<1>9. TypeOK'
  BY <1>1, <1>4, <1>8 DEF IInv, TypeOK
<1>10. QueueInv'
  <2>1. ASSUME NEW v \in Units PROVE NoRepeat(pipe'[v]) /\ Elems(pipe'[v]) \subseteq Elems(pipe[v])
    BY <1>3, <1>4 DEF IInv, QueueInv
  <2>2. QED
    BY <1>1, <2>1 DEF IInv, QueueInv
<1>11. TagInv'
  BY <1>1, <1>3, <1>6, <1>8, TagFrame, Kinds DEF IInv
<1>12. TileInv' /\ DmaInv' /\ NoLostCompletion'
  BY <1>1, <1>8, TileFrame, DmaFrame DEF IInv
<1>13. QED
  BY <1>8, <1>9, <1>10, <1>11, <1>12 DEF IInv

(* DMA::update_ssd: the simlet has answered for the current transfer.      *)
LEMMA OracleStep ==
  ASSUME IInv, OracleAnswers
  PROVE  IInv'
<1>1. /\ pc = "oracle" /\ pc' = "drain" /\ ssd /\ ssd' = FALSE /\ dmaFinished' = TRUE
      /\ generated' = FALSE /\ cur' = NoInst
      /\ IF cur \in Stores \cup Async THEN Finish(cur)
                                      ELSE UNCHANGED <<ready, counter, finished, fault>>
      /\ doneQ' = IF cur \in Stores THEN doneQ ELSE Append(doneQ, cur)
      /\ UNCHANGED <<tiles, finishedTiles, started, retired>>
      /\ UNCHANGED <<pipe, rr, zero>>
      /\ UNCHANGED <<ldQ, stQ, pend, waitQ, wake>>
      /\ UNCHANGED <<tag, waiters>>
      /\ UNCHANGED <<waiting, reqQ, net, mem>>
  BY DEF OracleAnswers, tileVars, instVars, pipeVars, tagVars, memVars
<1>2. /\ cur # NoInst /\ ~generated /\ ~dmaFinished /\ waiting[cur] = 0
      /\ cur \in Transfers /\ cur \in Insts /\ cur \in Moving
      /\ doneQ \in Seq(Transfers)
  BY <1>1, Kinds DEF IInv, DmaInv, TypeOK, Moving
<1>3. /\ cur \notin finished /\ cur \notin ready \cup Parked \cup Landing
      /\ cur \notin waitQ \cup Elems(doneQ)
  BY <1>2 DEF IInv, PlaceInv, Landing
<1>4. /\ doneQ' \in Seq(Transfers) /\ NoRepeat(doneQ')
      /\ Elems(doneQ') = IF cur \in Stores THEN Elems(doneQ) ELSE Elems(doneQ) \cup {cur}
  <2>1. CASE cur \in Stores
    BY <1>1, <1>2, <2>1 DEF IInv, QueueInv
  <2>2. CASE cur \notin Stores
    <3>1. doneQ' = Append(doneQ, cur) /\ NoRepeat(doneQ)
      BY <1>1, <2>2 DEF IInv, QueueInv
    <3>2. QED
      BY <1>2, <1>3, <2>2, <3>1, AppendQueue
  <2>3. QED
    BY <2>1, <2>2
<1>5. /\ Moving' \subseteq Moving \ {cur}
      /\ Landing' = IF cur \in Stores THEN Landing ELSE Landing \cup {cur}
      /\ Piped' = Piped /\ Parked' = Parked /\ cur \notin Piped
  <2>1. cur \notin Piped
    BY <1>2, WhatIsWhere, Kinds DEF IInv, Transfers
  <2>2. cur \notin Elems(ldQ) \cup Elems(stQ)
    BY DEF IInv, QueueInv
  <2>3. QED
    BY <1>1, <1>4, <2>1, <2>2 DEF Moving, Landing, Piped, Parked
<1>6. /\ CounterInv' /\ PlaceInv' /\ NoFault' /\ finished \subseteq finished'
      /\ finished' \subseteq finished \cup {cur}
      /\ ready' \subseteq Insts /\ counter' \in [Insts -> Nat] /\ fault' \in BOOLEAN
      /\ finished' \subseteq Insts
  <2>1. CASE cur \in Stores \cup Async
    BY <1>1, <1>2, <1>3, <1>5, <2>1, FinishKeepsPlaces DEF IInv
  <2>2. CASE cur \notin Stores \cup Async
    <3>1. UNCHANGED <<ready, counter, finished, fault>>
      BY <1>1, <2>2
    <3>2. CounterInv'
      BY <1>1, <1>2, <1>5, <3>1, CounterFrame DEF IInv
    <3>3. PlaceInv'
      BY <1>2, <1>3, <1>5, <2>2, <3>1 DEF IInv, PlaceInv
    <3>4. QED
      BY <3>1, <3>2, <3>3 DEF IInv, NoFault, TypeOK
  <2>3. QED
    BY <2>1, <2>2
<1>7. TypeOK'
  BY <1>1, <1>4, <1>6 DEF IInv, TypeOK
<1>8. QueueInv'
  <2>1. NoInst \notin Elems(ldQ) \cup Elems(stQ)
    BY WhatIsWhere, Kinds DEF IInv
  <2>2. QED
    BY <1>1, <1>3, <1>4, <2>1 DEF IInv, QueueInv
<1>9. TagInv'
  <2>1. cur \in Loads => tag[Tag[cur]] # "absent"
    BY <1>1, <1>2 DEF IInv, TagInv
  <2>2. cur \notin Barriers
    BY <1>2, Kinds DEF Transfers
  <2>3. QED
    BY <1>1, <1>2, <1>5, <1>6, <2>1, <2>2, TagFrame DEF IInv
<1>10. TileInv'
  BY <1>1, <1>6, TileFrame DEF IInv
<1>11. DmaInv' /\ NoLostCompletion'
  <2>1. DmaInv'
    BY <1>1, <1>2, Kinds DEF IInv, DmaInv, Transfers
  <2>2. QED
    BY <1>1, <2>1 DEF IInv, NoLostCompletion
<1>12. QED
  BY <1>6, <1>7, <1>8, <1>9, <1>10, <1>11 DEF IInv

(* The loop over _dma_finished_queue, for a transfer that is not an        *)
(* asynchronous load.                                                      *)
LEMMA DrainSyncStep ==
  ASSUME IInv, DrainSync
  PROVE  IInv'
<1> DEFINE i == Head(doneQ)
<1>1. /\ pc = "drain" /\ pc' = "drain" /\ doneQ # <<>> /\ i \notin Async
      /\ IF i \in Loads THEN Finish(i) ELSE UNCHANGED <<ready, counter, finished, fault>>
      /\ doneQ' = Tail(doneQ)
      /\ UNCHANGED <<tiles, finishedTiles, started, retired>>
      /\ UNCHANGED <<pipe, rr, zero>>
      /\ UNCHANGED <<ldQ, stQ, cur, dmaFinished, generated, pend, ssd>>
      /\ UNCHANGED <<waitQ, wake>>
      /\ UNCHANGED <<tag, waiters>>
      /\ UNCHANGED <<waiting, reqQ, net, mem>>
  BY DEF DrainSync, tileVars, instVars, pipeVars, dmaVars, tagVars, memVars
<1>2. /\ doneQ' \in Seq(Transfers) /\ i \in Transfers /\ i \in Elems(doneQ)
      /\ Elems(doneQ) = {i} \cup Elems(doneQ') /\ NoRepeat(doneQ') /\ i \notin Elems(doneQ')
  BY <1>1, TailQueue DEF IInv, TypeOK, QueueInv
<1> HIDE DEF i
<1>3. /\ Landing' \subseteq Landing \ {i} /\ i \in Landing
      /\ UNCHANGED <<Moving, Piped, Parked>>
  BY <1>1, <1>2 DEF IInv, QueueInv, Moving, Landing, Piped, Parked
<1>4. i \notin ready \cup Moving /\ i \in Insts
  BY <1>2, <1>3, Kinds DEF IInv, PlaceInv
<1>5. i \notin Piped /\ i \notin Parked
  BY <1>1, <1>2, WhatIsWhere, Kinds DEF IInv, Transfers
<1>6. /\ CounterInv' /\ PlaceInv' /\ NoFault' /\ finished \subseteq finished'
      /\ finished' \subseteq finished \cup (Loads \cap {i})
      /\ ready' \subseteq Insts /\ counter' \in [Insts -> Nat] /\ fault' \in BOOLEAN
      /\ finished' \subseteq Insts
  <2>1. CASE i \in Loads
    <3>1. i \notin finished
      BY <1>1, <1>3, <2>1, Kinds DEF IInv, PlaceInv
    <3>2. QED
      BY <1>1, <1>3, <1>4, <1>5, <2>1, <3>1, FinishKeepsPlaces DEF IInv
  <2>2. CASE i \notin Loads
    <3>1. UNCHANGED <<ready, counter, finished, fault>>
      BY <1>1, <2>2
    <3>2. CounterInv'
      BY <1>1, <1>3, <3>1, CounterFrame DEF IInv
    <3>3. PlaceInv'
      BY <1>3, <3>1 DEF IInv, PlaceInv
    <3>4. QED
      BY <3>1, <3>2, <3>3 DEF IInv, NoFault, TypeOK
  <2>3. QED
    BY <2>1, <2>2
<1>7. TypeOK'
  BY <1>1, <1>2, <1>6 DEF IInv, TypeOK
<1>8. QueueInv'
  BY <1>1, <1>2 DEF IInv, QueueInv
<1>9. TagInv'
  <2>1. i \in Loads => tag[Tag[i]] # "absent" /\ i \notin Barriers
    BY <1>1, <1>3, Kinds DEF IInv, TagInv
  <2>2. QED
    BY <1>1, <1>3, <1>6, <2>1, TagFrame DEF IInv
<1>10. TileInv' /\ DmaInv' /\ NoLostCompletion'
  BY <1>1, <1>6, TileFrame, DmaFrame DEF IInv
<1>11. QED
  BY <1>6, <1>7, <1>8, <1>9, <1>10 DEF IInv

(* dma_cycle: the current transfer, all of its requests sent, moves to the *)
(* waiting queue.  A request of it is still before the cache port.         *)
LEMMA HandOverStep ==
  ASSUME IInv, DmaHandsOver
  PROVE  IInv'
<1>1. /\ pc = "dma" /\ pc' = "dma" /\ dmaFinished /\ cur # NoInst
      /\ IF cur \in Stores \cup Async THEN Finish(cur)
                                      ELSE UNCHANGED <<ready, counter, finished, fault>>
      /\ waitQ' = waitQ \cup {cur} /\ cur' = NoInst
      /\ UNCHANGED <<tiles, finishedTiles, started, retired>>
      /\ UNCHANGED <<pipe, rr, zero>>
      /\ UNCHANGED <<ldQ, stQ, dmaFinished, generated, pend, ssd, doneQ, wake>>
      /\ UNCHANGED <<tag, waiters>>
      /\ UNCHANGED <<waiting, reqQ, net, mem>>
  BY DEF DmaHandsOver, tileVars, instVars, pipeVars, tagVars, memVars
<1>2. /\ ~generated /\ cur \in Transfers /\ cur \in Insts /\ cur \in Moving
      /\ reqQ[cur] > 0 \/ net[cur] > 0
  BY <1>1, Kinds DEF IInv, DmaInv, TypeOK, Moving
<1>3. /\ cur \notin finished /\ cur \notin ready \cup Parked \cup Landing
      /\ cur \notin Elems(doneQ)
  BY <1>2 DEF IInv, PlaceInv, Landing
<1>4. /\ Moving' \subseteq Moving \ {cur}
      /\ Landing' = Landing \cup {cur}
      /\ Piped' = Piped /\ Parked' = Parked /\ cur \notin Piped
  <2>1. cur \notin Piped
    BY <1>2, WhatIsWhere, Kinds DEF IInv, Transfers
  <2>2. cur \notin Elems(ldQ) \cup Elems(stQ)
    BY DEF IInv, QueueInv
  <2>3. QED
    BY <1>1, <2>1, <2>2 DEF Moving, Landing, Piped, Parked
<1>5. /\ CounterInv' /\ PlaceInv' /\ NoFault' /\ finished \subseteq finished'
      /\ finished' \subseteq finished \cup {cur}
      /\ ready' \subseteq Insts /\ counter' \in [Insts -> Nat] /\ fault' \in BOOLEAN
      /\ finished' \subseteq Insts
  <2>1. CASE cur \in Stores \cup Async
    BY <1>1, <1>2, <1>3, <1>4, <2>1, FinishKeepsPlaces DEF IInv
  <2>2. CASE cur \notin Stores \cup Async
    <3>1. UNCHANGED <<ready, counter, finished, fault>>
      BY <1>1, <2>2
    <3>2. CounterInv'
      BY <1>1, <1>2, <1>4, <3>1, CounterFrame DEF IInv
    <3>3. PlaceInv'
      BY <1>2, <1>3, <1>4, <2>2, <3>1 DEF IInv, PlaceInv
    <3>4. QED
      BY <3>1, <3>2, <3>3 DEF IInv, NoFault, TypeOK
  <2>3. QED
    BY <2>1, <2>2
<1>6. TypeOK'
  BY <1>1, <1>2, <1>5 DEF IInv, TypeOK
<1>7. QueueInv'
  <2>1. NoInst \notin Elems(ldQ) \cup Elems(stQ)
    BY WhatIsWhere, Kinds DEF IInv
  <2>2. QED
    BY <1>1, <1>3, <2>1 DEF IInv, QueueInv
<1>8. TagInv'
  <2>1. cur \in Loads => tag[Tag[cur]] # "absent"
    BY <1>1, <1>2 DEF IInv, TagInv
  <2>2. cur \notin Barriers
    BY <1>2, Kinds DEF Transfers
  <2>3. QED
    BY <1>1, <1>2, <1>4, <1>5, <2>1, <2>2, TagFrame DEF IInv
<1>9. TileInv'
  BY <1>1, <1>5, TileFrame DEF IInv
<1>10. DmaInv' /\ NoLostCompletion'
  <2>1. waiting[cur] > 0
    <3>1. /\ cur \in Loads \cup Stores
          /\ waiting[cur] = reqQ[cur] + net[cur] + mem[cur] + 0
          /\ reqQ[cur] \in Nat /\ net[cur] \in Nat /\ mem[cur] \in Nat
      BY <1>2 DEF IInv, DmaInv, TypeOK, Transfers
    <3>2. QED
      BY <1>2, <3>1
  <2>2. DmaInv'
    BY <1>1, <1>2, Kinds DEF IInv, DmaInv, Transfers
  <2>3. QED
    BY <1>1, <2>1, <2>2 DEF IInv, NoLostCompletion
<1>11. QED
  BY <1>5, <1>6, <1>7, <1>8, <1>9, <1>10 DEF IInv
-----------------------------------------------------------------------------
(* DMA::issue_tile: the head of a queue becomes the current transfer.      *)
LEMMA DmaStartStep ==
  ASSUME IInv, DmaStarts
  PROVE  IInv'
<1>1. /\ pc = "dma" /\ pc' = "generate" /\ dmaFinished /\ cur = NoInst
      /\ dmaFinished' = FALSE /\ ssd' = FALSE
      /\ UNCHANGED <<tiles, finishedTiles, started, retired>>
      /\ UNCHANGED <<ready, counter, finished, fault>>
      /\ UNCHANGED <<pipe, rr, zero>>
      /\ UNCHANGED <<generated, pend, waitQ, doneQ, wake>>
      /\ UNCHANGED <<tag, waiters>>
      /\ UNCHANGED <<waiting, reqQ, net, mem>>
  BY DEF DmaStarts, tileVars, instVars, pipeVars, doneVars, tagVars, memVars
<1>2. /\ ldQ' \in Seq(Loads \ Sparse) /\ stQ' \in Seq(Stores) /\ cur' \in Transfers
      /\ NoRepeat(ldQ') /\ NoRepeat(stQ')
      /\ cur' \notin Elems(ldQ') \cup Elems(stQ')
      /\ Elems(ldQ) \cup Elems(stQ) = Elems(ldQ') \cup Elems(stQ') \cup {cur'}
  <2>1. /\ ldQ \in Seq(Loads \ Sparse) /\ stQ \in Seq(Stores)
        /\ NoRepeat(ldQ) /\ NoRepeat(stQ)
        /\ Elems(ldQ) \subseteq Loads \ Sparse /\ Elems(stQ) \subseteq Stores
    BY WhatIsWhere DEF IInv, TypeOK, QueueInv
  <2>2. CASE ldQ # <<>> /\ cur' = Head(ldQ) /\ ldQ' = Tail(ldQ) /\ UNCHANGED stQ
    BY <2>1, <2>2, TailQueue, Kinds DEF Transfers
  <2>3. CASE stQ # <<>> /\ cur' = Head(stQ) /\ stQ' = Tail(stQ) /\ UNCHANGED ldQ
    BY <2>1, <2>3, TailQueue, Kinds DEF Transfers
  <2>4. QED
    BY <2>2, <2>3 DEF DmaStarts
<1>3. cur' \in Insts /\ cur' # NoInst /\ cur' \in Loads \cup Stores
  BY <1>2, Kinds DEF Transfers
<1>4. UNCHANGED <<Moving, Landing, Piped, Parked>>
  BY <1>1, <1>2, <1>3 DEF Moving, Landing, Piped, Parked
<1>5. cur' \in Moving /\ cur' \notin waitQ
  BY <1>2, <1>3, <1>4 DEF IInv, PlaceInv, Moving, Landing
<1>6. TypeOK'
  BY <1>1, <1>2 DEF IInv, TypeOK
<1>7. CounterInv' /\ PlaceInv' /\ QueueInv' /\ TagInv' /\ TileInv'
  <2>1. CounterInv' /\ PlaceInv'
    BY <1>1, <1>4, CounterFrame DEF IInv, PlaceInv
  <2>2. QueueInv'
    BY <1>1, <1>2 DEF IInv, QueueInv
  <2>3. QED
    BY <1>1, <1>4, <2>1, <2>2, TagFrame, TileFrame DEF IInv
<1>8. waiting[cur'] = 0
  BY <1>1, <1>3, <1>5 DEF IInv, DmaInv, TypeOK
<1>9. DmaInv' /\ NoLostCompletion'
  <2>1. DmaInv'
    BY <1>1, <1>3, <1>8, Kinds DEF IInv, DmaInv
  <2>2. QED
    BY <1>1, <2>1 DEF IInv, NoLostCompletion
<1>10. QED
  BY <1>1, <1>6, <1>7, <1>9 DEF IInv, NoFault

(* DMA::get_memory_access, first part: the simlet is asked.                *)
LEMMA AskOracleStep ==
  ASSUME IInv, WaitsForOracle
  PROVE  IInv'
<1>1. /\ pc = "generate" /\ pc' = "issue" /\ ssd' = TRUE
      /\ ssd \/ ~generated
      /\ UNCHANGED <<tiles, finishedTiles, started, retired>>
      /\ UNCHANGED <<ready, counter, finished, fault>>
      /\ UNCHANGED <<pipe, rr, zero>>
      /\ UNCHANGED <<ldQ, stQ, cur, dmaFinished, generated, pend>>
      /\ UNCHANGED <<waitQ, doneQ, wake>>
      /\ UNCHANGED <<tag, waiters>>
      /\ UNCHANGED <<waiting, reqQ, net, mem>>
  BY DEF WaitsForOracle, tileVars, instVars, pipeVars, doneVars, tagVars, memVars
<1>2. UNCHANGED <<Moving, Landing, Piped, Parked>>
  BY <1>1 DEF Moving, Landing, Piped, Parked
<1>3. TypeOK'
  BY <1>1 DEF IInv, TypeOK
<1>4. CounterInv' /\ PlaceInv' /\ QueueInv' /\ TagInv' /\ TileInv'
  <2>1. CounterInv' /\ PlaceInv'
    BY <1>1, <1>2, CounterFrame DEF IInv, PlaceInv
  <2>2. QED
    BY <1>1, <1>2, <2>1, QueueFrame, TagFrame, TileFrame DEF IInv
<1>5. DmaInv' /\ NoLostCompletion'
  BY <1>1 DEF IInv, DmaInv, NoLostCompletion
<1>6. QED
  BY <1>1, <1>3, <1>4, <1>5 DEF IInv, NoFault

(* DMA::get_memory_access, second part: up to Ports requests are sent, and *)
(* the instruction waits for all of them from the first call on.           *)
LEMMA GenerateStep ==
  ASSUME IInv, GenerateRequests
  PROVE  IInv'
<1> DEFINE left == IF generated THEN pend ELSE Requests[cur]
           sent == IF left < Ports THEN left ELSE Ports
<1>1. /\ pc = "generate" /\ pc' = "issue" /\ ~ssd
      /\ IF generated THEN UNCHANGED waiting ELSE inc_waiting_request(cur, Requests[cur])
      /\ reqQ' = [reqQ EXCEPT ![cur] = @ + sent]
      /\ pend' = left - sent
      /\ dmaFinished' = (left = sent) /\ generated' = (left # sent)
      /\ UNCHANGED <<tiles, finishedTiles, started, retired>>
      /\ UNCHANGED <<ready, counter, finished, fault>>
      /\ UNCHANGED <<pipe, rr, zero>>
      /\ UNCHANGED <<ldQ, stQ, cur, ssd>>
      /\ UNCHANGED <<waitQ, doneQ, wake>>
      /\ UNCHANGED <<tag, waiters>>
      /\ UNCHANGED <<net, mem>>
  BY DEF GenerateRequests, tileVars, instVars, pipeVars, doneVars, tagVars
<1>2. /\ ~dmaFinished /\ cur # NoInst /\ cur \in Loads \cup Stores
      /\ waiting \in [Loads \cup Stores -> Nat] /\ reqQ \in [Loads \cup Stores -> Nat]
      /\ net \in [Loads \cup Stores -> Nat] /\ mem \in [Loads \cup Stores -> Nat]
      /\ pend \in Nat /\ generated \in BOOLEAN
  BY <1>1 DEF IInv, DmaInv, TypeOK, Transfers
<1>3. left \in Nat /\ left > 0
  <2>1. Requests[cur] \in Nat \ {0}
    BY <1>2, CoreAssumption
  <2>2. QED
    BY <1>2, <2>1 DEF IInv, DmaInv
<1>4. sent \in Nat /\ sent > 0 /\ sent <= left
  BY <1>3, CoreAssumption
<1>5. waiting' = [waiting EXCEPT ![cur] = @ + (IF generated THEN 0 ELSE left)]
  BY <1>1, <1>2 DEF inc_waiting_request
<1> HIDE DEF left, sent
<1>6. /\ waiting' \in [Loads \cup Stores -> Nat] /\ reqQ' \in [Loads \cup Stores -> Nat]
      /\ pend' \in Nat /\ dmaFinished' \in BOOLEAN /\ generated' \in BOOLEAN
      /\ generated' => pend' > 0
      /\ ~generated' => pend' = 0
  <2>1. pend' \in Nat /\ (left # sent => pend' > 0) /\ (left = sent => pend' = 0)
    BY <1>1, <1>3, <1>4
  <2>2. reqQ' \in [Loads \cup Stores -> Nat]
    BY <1>1, <1>2, <1>4
  <2>3. waiting' \in [Loads \cup Stores -> Nat]
    BY <1>2, <1>3, <1>5
  <2>4. dmaFinished' \in BOOLEAN /\ generated' \in BOOLEAN
    BY <1>1
  <2>5. generated' <=> left # sent
    BY <1>1
  <2>6. QED
    BY <2>1, <2>2, <2>3, <2>4, <2>5
<1>7. TypeOK'
  BY <1>1, <1>6 DEF IInv, TypeOK
<1>8. UNCHANGED <<Moving, Landing, Piped, Parked>>
  BY <1>1 DEF Moving, Landing, Piped, Parked
<1>9. CounterInv' /\ PlaceInv' /\ QueueInv' /\ TagInv' /\ TileInv'
  <2>1. CounterInv' /\ PlaceInv'
    BY <1>1, <1>8, CounterFrame DEF IInv, PlaceInv
  <2>2. QED
    BY <1>1, <1>8, <2>1, QueueFrame, TagFrame, TileFrame DEF IInv
<1>10. ASSUME NEW i \in Loads \cup Stores
       PROVE  /\ waiting'[i] = reqQ'[i] + net'[i] + mem'[i]
                                 + (IF i = cur' /\ generated' THEN pend' ELSE 0)
              /\ waiting'[i] > 0 => i = cur' \/ i \in waitQ'
              /\ waiting'[i] >= waiting[i]
  <2>1. /\ waiting[i] = reqQ[i] + net[i] + mem[i]
                          + (IF i = cur /\ generated THEN pend ELSE 0)
        /\ waiting[i] > 0 => i = cur \/ i \in waitQ
        /\ waiting[i] \in Nat /\ reqQ[i] \in Nat /\ net[i] \in Nat /\ mem[i] \in Nat
    BY <1>2 DEF IInv, DmaInv
  <2>2. CASE i # cur
    BY <1>1, <1>2, <1>5, <2>1, <2>2
  <2>3. CASE i = cur
    <3>1. /\ waiting'[i] = waiting[i] + (IF generated THEN 0 ELSE left)
          /\ reqQ'[i] = reqQ[i] + sent /\ net'[i] = net[i] /\ mem'[i] = mem[i]
          /\ pend' = left - sent /\ cur' = cur
      BY <1>1, <1>2, <1>5, <2>3
    <3>2. generated => left = pend
      BY DEF left
    <3>3. QED
      BY <1>3, <1>4, <1>6, <2>1, <2>3, <3>1, <3>2
  <2>4. QED
    BY <2>2, <2>3
<1>11. DmaInv'
  <2>1. dmaFinished' => reqQ'[cur] > 0
    BY <1>1, <1>2, <1>4
  <2>2. /\ generated' <=> ~dmaFinished'
        /\ pc' = "issue" /\ ~ssd' /\ cur' = cur
    BY <1>1
  <2>3. QED
    BY <1>2, <1>6, <1>10, <2>1, <2>2 DEF DmaInv
<1>12. NoLostCompletion'
  <2>1. ASSUME NEW i \in waitQ PROVE waiting'[i] > 0
    <3>1. i \in Loads \cup Stores /\ waiting[i] > 0
      BY DEF IInv, NoLostCompletion, TypeOK, Transfers
    <3>2. waiting'[i] >= waiting[i] /\ waiting[i] \in Nat /\ waiting'[i] \in Nat
      BY <1>2, <1>6, <1>10, <3>1
    <3>3. QED
      BY <3>1, <3>2
  <2>2. QED
    BY <1>1, <2>1 DEF NoLostCompletion
<1>13. QED
  BY <1>1, <1>7, <1>9, <1>11, <1>12 DEF IInv, NoFault
-----------------------------------------------------------------------------
(* Two loads with one tag are asynchronous, and a barrier has the tag of   *)
(* an asynchronous or sparse load.                                         *)
LEMMA TagsShared ==
  /\ \A i, j \in Loads : i # j /\ Tag[i] = Tag[j] => {i, j} \subseteq Async \ Sparse
  /\ \A b \in Barriers : \E i \in Loads \cap (Async \cup Sparse) : Tag[i] = Tag[b]
  /\ \A i \in Loads \cup Barriers : Tag[i] \in Tags
BY TagAssumption, CoreAssumption

(* A barrier is ready only when the load that has its tag was issued       *)
(* before: get_tag_finish never throws on an unknown tag.                  *)
LEMMA BarrierTagKnown ==
  ASSUME IInv, NEW b \in Barriers, b \in ready
  PROVE  tag[Tag[b]] # "absent"
<1>1. PICK i \in Loads \cap (Async \cup Sparse) : Tag[i] = Tag[b] /\ Before(i, b)
  BY TagAssumption
<1>2. counter[b] = 0 /\ TileOf[b] \in started /\ b \in Insts /\ i \in Insts
  BY Kinds DEF IInv, CounterInv
<1>3. i \in finished
  <2>1. CASE b \in Succ[i]
    <3>1. i \in Preds(b)
      BY <1>2, <2>1 DEF Preds
    <3>2. Preds(b) \subseteq finished
      BY <1>2, PredsFinite DEF IInv, CounterInv
    <3>3. QED
      BY <3>1, <3>2
  <2>2. CASE TileOf[b] \in TileSucc[TileOf[i]]
    <3>1. TileOf[i] \in TileParents(TileOf[b])
      BY <1>2, <2>2, CoreAssumption DEF TileParents
    <3>2. TileOf[i] \in retired
      BY <1>2, <3>1 DEF IInv, TileInv
    <3>3. QED
      BY <1>2, <3>2 DEF IInv, TileInv, InstsOf
  <2>3. QED
    BY <1>1, <2>1, <2>2 DEF Before
<1>4. QED
  BY <1>1, <1>3 DEF IInv, TagInv

(* What the issue loop knows of the instruction it issues.                 *)
LEMMA ReadyIs ==
  ASSUME IInv, NEW i \in Insts, FirstReady(i)
  PROVE  /\ pc = "issue" /\ i \in ready /\ i \notin finished /\ wake = {}
         /\ i \notin Moving \cup Piped \cup Parked \cup Landing
         /\ \A j \in (Moving \cup Landing) \cap Loads : tag[Tag[j]] = "loading"
BY DEF IInv, PlaceInv, TagInv, FirstReady

(* A step of the issue loop that leaves the requests and the tiles alone.  *)
LEMMA IssueFrame ==
  ASSUME IInv, pc = "issue", pc' \in {"issue", "cache"},
         finished \subseteq finished',
         UNCHANGED <<tiles, finishedTiles, started, retired>>,
         UNCHANGED <<cur, dmaFinished, generated, pend, ssd, waitQ>>,
         UNCHANGED <<waiting, reqQ, net, mem>>
  PROVE  TileInv' /\ DmaInv' /\ NoLostCompletion'
BY TileFrame, DmaFrame DEF IInv

(* MOVIN of a sparse tensor: finished at once, its tag is its own.         *)
LEMMA IssueSparseLoadStep ==
  ASSUME IInv, NEW i \in Insts, IssueSparseLoad(i)
  PROVE  IInv'
<1> DEFINE k == Tag[i]
<1>1. /\ FirstReady(i) /\ i \in Sparse /\ Finish(i) /\ pc' = "cache"
      /\ tag' = [tag EXCEPT ![k] = "sparse"]
      /\ waiters' = [waiters EXCEPT ![k] = {}]
      /\ UNCHANGED <<tiles, finishedTiles, started, retired>>
      /\ UNCHANGED <<pipe, rr, zero>>
      /\ UNCHANGED <<ldQ, stQ, cur, dmaFinished, generated, pend, ssd>>
      /\ UNCHANGED <<waitQ, doneQ, wake>>
      /\ UNCHANGED <<waiting, reqQ, net, mem>>
  BY DEF IssueSparseLoad, Issued, register_tag, tileVars, pipeVars, dmaVars,
         doneVars, memVars
<1>2. /\ i \in Loads /\ k \in Tags /\ i \notin Barriers
      /\ \A j \in Loads : Tag[j] = k => j = i
  BY <1>1, Kinds, TagsShared
<1>3. /\ pc = "issue" /\ i \in ready /\ i \notin finished /\ wake = {}
      /\ i \notin Moving \cup Piped \cup Parked \cup Landing
      /\ \A j \in (Moving \cup Landing) \cap Loads : tag[Tag[j]] = "loading"
  BY <1>1, ReadyIs
<1> HIDE DEF k
<1>4. /\ tag' \in [Tags -> {"absent", "loading", "sparse", "loaded"}]
      /\ waiters' \in [Tags -> SUBSET (Async \cup Barriers)]
      /\ tag'[k] = "sparse" /\ waiters'[k] = {}
      /\ \A m \in Tags : m # k => tag'[m] = tag[m] /\ waiters'[m] = waiters[m]
  BY <1>1, <1>2 DEF IInv, TypeOK
<1>5. UNCHANGED <<Moving, Landing, Piped>>
  BY <1>1 DEF Moving, Landing, Piped
<1>6. Parked' \subseteq Parked
  <2>1. ASSUME NEW j \in Async \cup Barriers, tag'[Tag[j]] = "loading", j \in waiters'[Tag[j]]
        PROVE  tag[Tag[j]] = "loading" /\ j \in waiters[Tag[j]]
    BY <1>4, <2>1, TagsShared, Kinds
  <2>2. QED
    BY <1>1, <1>3, <2>1 DEF Parked
<1>7. /\ CounterInv' /\ PlaceInv' /\ NoFault'
      /\ finished' = finished \cup {i}
      /\ ready' \subseteq Insts /\ counter' \in [Insts -> Nat] /\ fault' \in BOOLEAN
      /\ finished' \subseteq Insts
  BY <1>1, <1>3, <1>5, <1>6, FinishKeepsPlaces DEF IInv
<1>8. TypeOK'
  BY <1>1, <1>4, <1>7 DEF IInv, TypeOK
<1>9. QueueInv'
  BY <1>1, QueueFrame DEF IInv
<1>10. TagInv'
  <2>1. ASSUME NEW j \in (Moving \cup Landing) \cap Loads PROVE tag'[Tag[j]] = "loading"
    <3>1. Tag[j] # k
      BY <1>2, <1>3
    <3>2. QED
      BY <1>3, <1>4, <3>1, TagsShared
  <2>2. ASSUME NEW m \in Tags, tag'[m] = "loading" PROVE \A j \in waiters'[m] : Tag[j] = m
    BY <1>4, <2>2 DEF IInv, TagInv
  <2>3. \A j \in finished' \cap Loads : tag'[Tag[j]] # "absent"
    BY <1>4, <1>7, TagsShared DEF IInv, TagInv, k
  <2>4. \A j \in finished' \cap Barriers : tag'[Tag[j]] \in {"loaded", "sparse"}
    BY <1>2, <1>4, <1>7, TagsShared DEF IInv, TagInv
  <2>5. QED
    BY <1>1, <1>3, <1>5, <2>1, <2>2, <2>3, <2>4 DEF IInv, TagInv
<1>11. TileInv' /\ DmaInv' /\ NoLostCompletion'
  BY <1>1, <1>3, <1>7, IssueFrame
<1>12. QED
  BY <1>7, <1>8, <1>9, <1>10, <1>11 DEF IInv

(* An instruction waits for a tag that is being loaded.                    *)
LEMMA WaitForTag ==
  ASSUME IInv, NEW i \in Async \cup Barriers, FirstReady(i), pc' = "cache",
         tag[Tag[i]] = "loading", register_tag_waiter(Tag[i], i),
         UNCHANGED <<tiles, finishedTiles, started, retired>>,
         UNCHANGED <<pipe, rr, zero>>,
         UNCHANGED <<ldQ, stQ, cur, dmaFinished, generated, pend, ssd>>,
         UNCHANGED <<waitQ, doneQ, wake>>, UNCHANGED tag,
         UNCHANGED <<waiting, reqQ, net, mem>>
  PROVE  IInv'
<1> DEFINE k == Tag[i]
<1>1. /\ waiters' = [waiters EXCEPT ![k] = @ \cup {i}]
      /\ ready' = ready \ {i}
      /\ UNCHANGED <<counter, finished, fault>>
  BY DEF register_tag_waiter
<1>2. i \in Insts /\ k \in Tags
  BY Kinds, TagsShared
<1>3. /\ pc = "issue" /\ i \in ready /\ i \notin finished /\ wake = {}
      /\ i \notin Moving \cup Piped \cup Parked \cup Landing
      /\ \A j \in (Moving \cup Landing) \cap Loads : tag[Tag[j]] = "loading"
  BY <1>2, ReadyIs
<1>4. /\ waiters' \in [Tags -> SUBSET (Async \cup Barriers)]
      /\ waiters'[k] = waiters[k] \cup {i}
      /\ \A m \in Tags : m # k => waiters'[m] = waiters[m]
  BY <1>1, <1>2 DEF IInv, TypeOK
<1>5. UNCHANGED <<Moving, Landing, Piped>>
  BY DEF Moving, Landing, Piped
<1>6. Parked' \subseteq Parked \cup {i}
  <2>1. ASSUME NEW j \in Async \cup Barriers, j \in waiters'[Tag[j]]
        PROVE  j \in waiters[Tag[j]] \/ j = i
    BY <1>4, <2>1, TagsShared, Kinds
  <2>2. QED
    BY <2>1 DEF Parked
<1> HIDE DEF k
<1>7. PlaceInv'
  BY <1>1, <1>3, <1>5, <1>6 DEF IInv, PlaceInv
<1>8. CounterInv'
  BY <1>1, <1>3, <1>5, <1>6, CounterFrame DEF IInv
<1>9. TypeOK'
  BY <1>1, <1>4 DEF IInv, TypeOK
<1>10. QueueInv'
  BY QueueFrame DEF IInv
<1>11. TagInv'
  <2>1. ASSUME NEW m \in Tags, tag[m] = "loading" PROVE \A j \in waiters'[m] : Tag[j] = m
    BY <1>4, <2>1 DEF IInv, TagInv, k
  <2>2. QED
    BY <1>1, <1>3, <1>5, <2>1 DEF IInv, TagInv
<1>12. TileInv' /\ DmaInv' /\ NoLostCompletion'
  BY <1>1, <1>3, IssueFrame
<1>13. QED
  BY <1>1, <1>7, <1>8, <1>9, <1>10, <1>11, <1>12 DEF IInv, NoFault

(* An instruction is finished when it is issued, its tag being known.      *)
LEMMA FinishOnIssue ==
  ASSUME IInv, NEW i \in Insts, FirstReady(i), pc' \in {"issue", "cache"}, Finish(i),
         i \in Loads => tag[Tag[i]] # "absent",
         i \in Barriers => tag[Tag[i]] \in {"loaded", "sparse"},
         UNCHANGED <<tiles, finishedTiles, started, retired>>,
         rr' \in 0 .. NSA - 1, zero' \subseteq Computes,
         UNCHANGED <<ldQ, stQ, cur, dmaFinished, generated, pend, ssd>>,
         UNCHANGED <<pipe, waitQ, doneQ, wake>>, UNCHANGED <<tag, waiters>>,
         UNCHANGED <<waiting, reqQ, net, mem>>
  PROVE  IInv'
<1>1. /\ pc = "issue" /\ i \in ready /\ i \notin finished /\ wake = {}
      /\ i \notin Moving \cup Piped \cup Parked \cup Landing
  BY ReadyIs
<1>2. UNCHANGED <<Moving, Landing, Piped, Parked>>
  BY DEF Moving, Landing, Piped, Parked
<1>3. /\ CounterInv' /\ PlaceInv' /\ NoFault'
      /\ finished' = finished \cup {i}
      /\ ready' \subseteq Insts /\ counter' \in [Insts -> Nat] /\ fault' \in BOOLEAN
      /\ finished' \subseteq Insts
  BY <1>1, <1>2, FinishKeepsPlaces DEF IInv
<1>4. TypeOK'
  BY <1>3 DEF IInv, TypeOK
<1>5. QueueInv' /\ TagInv'
  BY <1>1, <1>2, <1>3, QueueFrame, TagFrame DEF IInv
<1>6. TileInv' /\ DmaInv' /\ NoLostCompletion'
  BY <1>1, <1>3, IssueFrame
<1>7. QED
  BY <1>3, <1>4, <1>5, <1>6 DEF IInv

(* MOVIN whose tag is known already: it shares the load that has the tag.  *)
LEMMA SkipLoadStep ==
  ASSUME IInv, NEW i \in Insts, SkipLoad(i)
  PROVE  IInv'
<1>1. /\ FirstReady(i) /\ i \in Async /\ i \in Async \cup Barriers /\ i \notin Barriers
      /\ tag[Tag[i]] # "absent" /\ pc' = "cache"
      /\ UNCHANGED <<tiles, finishedTiles, started, retired>>
      /\ UNCHANGED <<pipe, rr, zero>>
      /\ UNCHANGED <<ldQ, stQ, cur, dmaFinished, generated, pend, ssd>>
      /\ UNCHANGED <<waitQ, doneQ, wake>> /\ UNCHANGED tag
      /\ UNCHANGED <<waiting, reqQ, net, mem>>
  BY Kinds DEF SkipLoad, tag_key_exist, Issued, tileVars, pipeVars, dmaVars, doneVars, memVars
<1>2. CASE tag[Tag[i]] = "loading"
  <2>1. register_tag_waiter(Tag[i], i)
    BY <1>2 DEF SkipLoad
  <2>2. QED
    BY <1>1, <1>2, <2>1, WaitForTag
<1>3. CASE tag[Tag[i]] # "loading"
  <2>1. Finish(i) /\ UNCHANGED waiters
    BY <1>3 DEF SkipLoad
  <2>2. rr' \in 0 .. NSA - 1 /\ zero' \subseteq Computes
    BY <1>1 DEF IInv, TypeOK
  <2>3. QED
    BY <1>1, <2>1, <2>2, FinishOnIssue
<1>4. QED
  BY <1>2, <1>3

(* BAR: waits for the tag, or is finished because it is loaded or sparse.  *)
LEMMA IssueBarrierStep ==
  ASSUME IInv, NEW i \in Insts, IssueBarrier(i)
  PROVE  IInv'
<1>1. /\ FirstReady(i) /\ i \in Barriers /\ i \notin Loads /\ i \in ready /\ pc' = "cache"
      /\ UNCHANGED <<tiles, finishedTiles, started, retired>>
      /\ UNCHANGED <<pipe, rr>>
      /\ UNCHANGED <<ldQ, stQ, cur, dmaFinished, generated, pend, ssd>>
      /\ UNCHANGED <<waitQ, doneQ, wake>> /\ UNCHANGED tag
      /\ UNCHANGED <<waiting, reqQ, net, mem>>
  BY Kinds DEF IssueBarrier, Issued, FirstReady, tileVars, pipeVars, dmaVars, doneVars, memVars
<1>2. tag[Tag[i]] \in {"loading", "sparse", "loaded"} /\ rr \in 0 .. NSA - 1
      /\ zero \subseteq Computes
  BY <1>1, BarrierTagKnown, TagsShared DEF IInv, TypeOK
<1>3. CASE tag[Tag[i]] = "loading"
  <2>1. register_tag_waiter(Tag[i], i) /\ UNCHANGED zero
    BY <1>3 DEF IssueBarrier
  <2>2. QED
    BY <1>1, <1>3, <2>1, WaitForTag
<1>4. CASE tag[Tag[i]] = "sparse"
  <2>1. Finish(i) /\ MakeFree(i) /\ UNCHANGED waiters
    BY <1>4 DEF IssueBarrier
  <2>2. zero' \subseteq Computes
    BY <1>2, <2>1 DEF MakeFree
  <2>3. QED
    BY <1>1, <1>2, <1>4, <2>1, <2>2, FinishOnIssue
<1>5. CASE tag[Tag[i]] = "loaded"
  <2>1. FinishUser(Tag[i], i) /\ UNCHANGED <<zero, waiters>>
    BY <1>5 DEF IssueBarrier
  <2>2. Finish(i)
    BY <1>5, <2>1 DEF FinishUser
  <2>3. QED
    BY <1>1, <1>2, <1>5, <2>1, <2>2, FinishOnIssue
<1>6. QED
  BY <1>2, <1>3, <1>4, <1>5

(* A compute of zero cycles is finished in the issue loop.                 *)
LEMMA SkipComputeStep ==
  ASSUME IInv, NEW i \in Insts, SkipCompute(i)
  PROVE  IInv'
<1>1. /\ FirstReady(i) /\ i \in Computes /\ i \notin Loads /\ i \notin Barriers
      /\ Finish(i) /\ pc' = pc /\ pc = "issue"
      /\ UNCHANGED <<tiles, finishedTiles, started, retired>>
      /\ UNCHANGED <<pipe, zero>>
      /\ UNCHANGED <<ldQ, stQ, cur, dmaFinished, generated, pend, ssd>>
      /\ UNCHANGED <<waitQ, doneQ, wake>> /\ UNCHANGED <<tag, waiters>>
      /\ UNCHANGED <<waiting, reqQ, net, mem>>
      /\ zero \subseteq Computes
  BY Kinds DEF SkipCompute, FirstReady, IInv, TypeOK, tileVars, dmaVars, doneVars,
               tagVars, memVars
<1>2. rr' \in 0 .. NSA - 1
  BY CoreAssumption DEF SkipCompute, TakeTurn, IInv, TypeOK
<1>3. QED
  BY <1>1, <1>2, FinishOnIssue

(* MOVIN: the load takes its tag and joins the queue of the DMA engine.    *)
LEMMA IssueLoadStep ==
  ASSUME IInv, NEW i \in Insts, IssueLoad(i)
  PROVE  IInv'
<1> DEFINE k == Tag[i]
<1>1. /\ FirstReady(i) /\ i \in Loads \ Sparse /\ pc' = "cache"
      /\ i \in Async => tag[k] = "absent"
      /\ tag' = [tag EXCEPT ![k] = "loading"]
      /\ waiters' = [waiters EXCEPT ![k] = {}]
      /\ ldQ' = Append(ldQ, i) /\ ready' = ready \ {i}
      /\ UNCHANGED <<tiles, finishedTiles, started, retired>>
      /\ UNCHANGED <<counter, finished, fault>>
      /\ UNCHANGED <<pipe, rr, zero>>
      /\ UNCHANGED <<stQ, cur, dmaFinished, generated, pend, ssd>>
      /\ UNCHANGED <<waitQ, doneQ, wake>>
      /\ UNCHANGED <<waiting, reqQ, net, mem>>
  BY DEF IssueLoad, Issued, register_tag, tag_key_exist, tileVars, pipeVars,
         doneVars, memVars
<1>2. /\ pc = "issue" /\ i \in ready /\ i \notin finished /\ wake = {}
      /\ i \notin Moving \cup Piped \cup Parked \cup Landing
      /\ \A j \in (Moving \cup Landing) \cap Loads : tag[Tag[j]] = "loading"
  BY <1>1, ReadyIs
<1>3. k \in Tags /\ i \in Transfers
  BY <1>1, TagsShared DEF Transfers
<1>4. \A j \in (Moving \cup Landing) \cap Loads : Tag[j] # k
  BY <1>1, <1>2, TagsShared
<1>5. \A b \in finished \cap Barriers : Tag[b] # k
  <2>1. SUFFICES ASSUME NEW b \in finished \cap Barriers, Tag[b] = k PROVE FALSE
    OBVIOUS
  <2>2. tag[k] \in {"loaded", "sparse"}
    BY <2>1 DEF IInv, TagInv
  <2>3. PICK j \in Loads \cap (Async \cup Sparse) : Tag[j] = k
    BY <2>1, TagsShared
  <2>4. QED
    BY <1>1, <2>2, <2>3, TagsShared
<1> HIDE DEF k
<1>6. /\ tag' \in [Tags -> {"absent", "loading", "sparse", "loaded"}]
      /\ waiters' \in [Tags -> SUBSET (Async \cup Barriers)]
      /\ tag'[k] = "loading" /\ waiters'[k] = {}
      /\ \A m \in Tags : m # k => tag'[m] = tag[m] /\ waiters'[m] = waiters[m]
  BY <1>1, <1>3 DEF IInv, TypeOK
<1>7. /\ ldQ' \in Seq(Loads \ Sparse) /\ Elems(ldQ') = Elems(ldQ) \cup {i}
      /\ NoRepeat(ldQ')
  <2>1. i \notin Elems(ldQ) /\ NoRepeat(ldQ) /\ ldQ \in Seq(Loads \ Sparse)
    BY <1>2 DEF IInv, TypeOK, QueueInv, Moving
  <2>2. QED
    BY <1>1, <2>1, AppendQueue
<1>8. Moving' = Moving \cup {i} /\ UNCHANGED <<Landing, Piped>>
  BY <1>1, <1>7 DEF Moving, Landing, Piped
<1>9. Parked' \subseteq Parked
  <2>1. ASSUME NEW j \in Async \cup Barriers, tag'[Tag[j]] = "loading", j \in waiters'[Tag[j]]
        PROVE  tag[Tag[j]] = "loading" /\ j \in waiters[Tag[j]]
    BY <1>6, <2>1, TagsShared, Kinds
  <2>2. QED
    BY <1>1, <1>2, <2>1 DEF Parked
<1>10. PlaceInv'
  BY <1>1, <1>2, <1>8, <1>9 DEF IInv, PlaceInv
<1>11. CounterInv'
  BY <1>1, <1>2, <1>8, <1>9, CounterFrame DEF IInv
<1>12. TypeOK'
  BY <1>1, <1>6, <1>7 DEF IInv, TypeOK
<1>13. QueueInv'
  <2>1. cur # i
    BY <1>2, <1>3, Kinds DEF Moving
  <2>2. QED
    BY <1>1, <1>7, <2>1 DEF IInv, QueueInv
<1>14. TagInv'
  <2>1. ASSUME NEW j \in (Moving' \cup Landing') \cap Loads PROVE tag'[Tag[j]] = "loading"
    <3>1. CASE j = i
      BY <1>6, <3>1 DEF k
    <3>2. CASE j # i
      BY <1>2, <1>4, <1>6, <1>8, <2>1, <3>2, TagsShared
    <3>3. QED
      BY <3>1, <3>2
  <2>2. ASSUME NEW j \in (Moving' \cup Landing') \cap Loads,
               NEW l \in (Moving' \cup Landing') \cap Loads, Tag[j] = Tag[l]
        PROVE  j = l
    BY <1>4, <1>8, <2>2 DEF IInv, TagInv, k
  <2>3. ASSUME NEW m \in Tags, tag'[m] = "loading" PROVE \A j \in waiters'[m] : Tag[j] = m
    BY <1>6, <2>3 DEF IInv, TagInv
  <2>4. \A j \in finished \cap Loads : tag'[Tag[j]] # "absent"
    BY <1>6, TagsShared DEF IInv, TagInv
  <2>5. \A j \in finished \cap Barriers : tag'[Tag[j]] \in {"loaded", "sparse"}
    BY <1>5, <1>6, TagsShared DEF IInv, TagInv
  <2>6. QED
    BY <1>1, <1>2, <2>1, <2>2, <2>3, <2>4, <2>5 DEF TagInv
<1>15. TileInv' /\ DmaInv' /\ NoLostCompletion'
  BY <1>1, <1>2, IssueFrame
<1>16. QED
  BY <1>1, <1>10, <1>11, <1>12, <1>13, <1>14, <1>15 DEF IInv, NoFault

(* MOVOUT: the store joins the queue of the DMA engine.                    *)
LEMMA IssueStoreStep ==
  ASSUME IInv, NEW i \in Insts, IssueStore(i)
  PROVE  IInv'
<1>1. /\ FirstReady(i) /\ i \in Stores /\ pc' = "cache"
      /\ stQ' = Append(stQ, i) /\ ready' = ready \ {i}
      /\ UNCHANGED <<tiles, finishedTiles, started, retired>>
      /\ UNCHANGED <<counter, finished, fault>>
      /\ UNCHANGED <<pipe, rr, zero>>
      /\ UNCHANGED <<ldQ, cur, dmaFinished, generated, pend, ssd>>
      /\ UNCHANGED <<waitQ, doneQ, wake>> /\ UNCHANGED <<tag, waiters>>
      /\ UNCHANGED <<waiting, reqQ, net, mem>>
  BY DEF IssueStore, Issued, tileVars, pipeVars, doneVars, tagVars, memVars
<1>2. /\ pc = "issue" /\ i \in ready /\ i \notin finished /\ wake = {}
      /\ i \notin Moving \cup Piped \cup Parked \cup Landing
  BY <1>1, ReadyIs
<1>3. /\ stQ' \in Seq(Stores) /\ Elems(stQ') = Elems(stQ) \cup {i} /\ NoRepeat(stQ')
  <2>1. i \notin Elems(stQ) /\ NoRepeat(stQ) /\ stQ \in Seq(Stores)
    BY <1>2 DEF IInv, TypeOK, QueueInv, Moving
  <2>2. QED
    BY <1>1, <2>1, AppendQueue
<1>4. Moving' = Moving \cup {i} /\ UNCHANGED <<Landing, Piped, Parked>>
  BY <1>1, <1>3 DEF Moving, Landing, Piped, Parked
<1>5. PlaceInv'
  BY <1>1, <1>2, <1>4 DEF IInv, PlaceInv
<1>6. CounterInv'
  BY <1>1, <1>2, <1>4, CounterFrame DEF IInv
<1>7. TypeOK'
  BY <1>1, <1>3 DEF IInv, TypeOK
<1>8. QueueInv'
  <2>1. cur # i
    BY <1>1, <1>2, Kinds DEF Moving
  <2>2. QED
    BY <1>1, <1>3, <2>1 DEF IInv, QueueInv
<1>9. TagInv'
  <2>1. (Moving' \cup Landing') \cap Loads \subseteq Moving \cup Landing
    BY <1>1, <1>4, Kinds
  <2>2. QED
    BY <1>1, <1>2, <2>1, TagFrame DEF IInv
<1>10. TileInv' /\ DmaInv' /\ NoLostCompletion'
  BY <1>1, <1>2, IssueFrame
<1>11. QED
  BY <1>1, <1>5, <1>6, <1>7, <1>8, <1>9, <1>10 DEF IInv, NoFault

(* COMP: the instruction joins a pipeline that exists.                     *)
LEMMA IssueComputeStep ==
  ASSUME IInv, NEW i \in Insts, IssueCompute(i)
  PROVE  IInv'
<1> DEFINE u == TargetPipe(i)
<1>1. /\ FirstReady(i) /\ i \in Computes /\ pc' = "cache"
      /\ pipe' = [pipe EXCEPT ![u] = Append(@, i)] /\ ready' = ready \ {i}
      /\ TakeTurn(i)
      /\ UNCHANGED <<tiles, finishedTiles, started, retired>>
      /\ UNCHANGED <<counter, finished, fault, zero>>
      /\ UNCHANGED <<ldQ, stQ, cur, dmaFinished, generated, pend, ssd>>
      /\ UNCHANGED <<waitQ, doneQ, wake>> /\ UNCHANGED <<tag, waiters>>
      /\ UNCHANGED <<waiting, reqQ, net, mem>>
  BY DEF IssueCompute, Issued, tileVars, dmaVars, doneVars, tagVars, memVars
<1>2. /\ pc = "issue" /\ i \in ready /\ i \notin finished /\ wake = {}
      /\ i \notin Moving \cup Piped \cup Parked \cup Landing
  BY <1>1, ReadyIs
<1>3. u \in Units /\ rr' \in 0 .. NSA - 1
  BY <1>1, CoreAssumption DEF TargetPipe, TakeTurn, Units, IInv, TypeOK
<1> HIDE DEF u
<1>4. pipe \in [Units -> Seq(Computes)] /\ \A v \in Units : i \notin Elems(pipe[v])
  BY <1>2 DEF IInv, TypeOK, Piped
<1>5. /\ Append(pipe[u], i) \in Seq(Computes)
      /\ Elems(Append(pipe[u], i)) = Elems(pipe[u]) \cup {i}
      /\ NoRepeat(Append(pipe[u], i))
  <2>1. pipe[u] \in Seq(Computes) /\ NoRepeat(pipe[u]) /\ i \notin Elems(pipe[u])
    BY <1>3, <1>4 DEF IInv, QueueInv
  <2>2. QED
    BY <1>1, <2>1, AppendQueue
<1>6. /\ pipe' \in [Units -> Seq(Computes)]
      /\ \A v \in Units : pipe'[v] = IF v = u THEN Append(pipe[u], i) ELSE pipe[v]
  BY <1>1, <1>3, <1>4, <1>5
<1>7. Piped' \subseteq Piped \cup {i} /\ UNCHANGED <<Moving, Landing, Parked>>
  <2>1. \A v \in Units : Elems(pipe'[v]) \subseteq Elems(pipe[v]) \cup {i}
    BY <1>5, <1>6
  <2>2. QED
    BY <1>1, <2>1 DEF Piped, Moving, Landing, Parked
<1>8. PlaceInv'
  BY <1>1, <1>2, <1>7 DEF IInv, PlaceInv
<1>9. CounterInv'
  BY <1>1, <1>2, <1>7, CounterFrame DEF IInv
<1>10. TypeOK'
  BY <1>1, <1>3, <1>6 DEF IInv, TypeOK
<1>11. QueueInv'
  <2>1. ASSUME NEW v \in Units
        PROVE  /\ NoRepeat(pipe'[v])
               /\ \A w \in Units \ {v} : Elems(pipe'[v]) \cap Elems(pipe'[w]) = {}
    <3>1. NoRepeat(pipe'[v])
      BY <1>5, <1>6 DEF IInv, QueueInv
    <3>2. ASSUME NEW w \in Units \ {v} PROVE Elems(pipe'[v]) \cap Elems(pipe'[w]) = {}
      <4>1. Elems(pipe[v]) \cap Elems(pipe[w]) = {}
        BY DEF IInv, QueueInv
      <4>2. i \notin Elems(pipe[v]) /\ i \notin Elems(pipe[w])
        BY <1>4
      <4>3. CASE v = u
        <5>1. pipe'[v] = Append(pipe[u], i) /\ pipe'[w] = pipe[w]
          BY <1>6, <3>2, <4>3
        <5>2. QED
          BY <1>5, <4>1, <4>2, <4>3, <5>1
      <4>4. CASE v # u
        <5>1. Elems(pipe'[v]) = Elems(pipe[v])
          BY <1>6, <4>4
        <5>2. Elems(pipe'[w]) \subseteq Elems(pipe[w]) \cup {i}
          BY <1>5, <1>6
        <5>3. QED
          BY <4>1, <4>2, <5>1, <5>2
      <4>5. QED
        BY <4>3, <4>4
    <3>3. QED
      BY <3>1, <3>2
  <2>2. QED
    BY <1>1, <2>1 DEF IInv, QueueInv
<1>12. TagInv'
  BY <1>1, <1>2, <1>7, TagFrame DEF IInv
<1>13. TileInv' /\ DmaInv' /\ NoLostCompletion'
  BY <1>1, <1>2, IssueFrame
<1>14. QED
  BY <1>1, <1>8, <1>9, <1>10, <1>11, <1>12, <1>13 DEF IInv, NoFault
-----------------------------------------------------------------------------
(* The tag of an asynchronous load is set; its waiters are still waiting.  *)
LEMMA DrainAsyncStep ==
  ASSUME IInv, DrainAsync
  PROVE  IInv'
<1> DEFINE i == Head(doneQ)
           k == Tag[i]
<1>1. /\ pc = "drain" /\ pc' = "wake" /\ doneQ # <<>> /\ i \in Async
      /\ fault' = (fault \/ tag[k] # "loading" \/ i \notin finished)
      /\ tag' = [tag EXCEPT ![k] = "loaded"] /\ wake' = waiters[k]
      /\ UNCHANGED <<tiles, finishedTiles, started, retired>>
      /\ UNCHANGED <<ready, counter, finished>>
      /\ UNCHANGED <<pipe, rr, zero>>
      /\ UNCHANGED <<ldQ, stQ, cur, dmaFinished, generated, pend, ssd>>
      /\ UNCHANGED <<waitQ, doneQ, waiters>>
      /\ UNCHANGED <<waiting, reqQ, net, mem>>
  BY DEF DrainAsync, set_tag_finish, get_tag_waiter, tileVars, pipeVars, dmaVars, memVars
<1>2. i \in Elems(doneQ) /\ i \in Landing /\ i \in Loads /\ k \in Tags
  BY <1>1, TailQueue, Kinds, TagsShared DEF IInv, TypeOK, Landing
<1>3. /\ i \in finished /\ tag[k] = "loading" /\ wake = {}
      /\ \A j \in (Moving \cup Landing) \cap Loads : tag[Tag[j]] = "loading"
      /\ \A j \in (Moving \cup Landing) \cap Loads : Tag[j] = k => j = i
  BY <1>1, <1>2 DEF IInv, PlaceInv, TagInv
<1>4. fault' = fault
  BY <1>1, <1>3 DEF IInv, TypeOK
<1> HIDE DEF k
<1>5. /\ tag' \in [Tags -> {"absent", "loading", "sparse", "loaded"}]
      /\ tag'[k] = "loaded" /\ \A m \in Tags : m # k => tag'[m] = tag[m]
  BY <1>1, <1>2 DEF IInv, TypeOK
<1>6. UNCHANGED <<Moving, Landing, Piped>>
  BY <1>1 DEF Moving, Landing, Piped
<1>7. /\ \A j \in wake' : Tag[j] = k /\ j \in Async \cup Barriers
      /\ Parked' \subseteq Parked
  <2>1. \A j \in waiters[k] : Tag[j] = k /\ j \in Async \cup Barriers
    BY <1>2, <1>3 DEF IInv, TypeOK, TagInv
  <2>2. waiters[k] \subseteq Parked
    BY <1>3, <2>1 DEF Parked
  <2>3. ASSUME NEW j \in Async \cup Barriers, tag'[Tag[j]] = "loading"
        PROVE  tag[Tag[j]] = "loading"
    BY <1>5, <2>3, TagsShared, Kinds
  <2>4. Parked' \subseteq Parked
    BY <1>1, <2>2, <2>3 DEF Parked
  <2>5. QED
    BY <1>1, <2>1, <2>4
<1>8. PlaceInv'
  BY <1>1, <1>6, <1>7 DEF IInv, PlaceInv
<1>9. CounterInv'
  BY <1>1, <1>6, <1>7, CounterFrame DEF IInv
<1>10. TypeOK'
  BY <1>1, <1>4, <1>5, <1>7 DEF IInv, TypeOK
<1>11. QueueInv' /\ TileInv' /\ DmaInv' /\ NoLostCompletion'
  BY <1>1, QueueFrame, TileFrame, DmaFrame DEF IInv
<1>12. TagInv'
  <2>1. doneQ' # <<>> /\ Head(doneQ') \in Async /\ tag'[Tag[Head(doneQ')]] = "loaded"
    BY <1>1, <1>5 DEF k
  <2>2. ASSUME NEW j \in (Moving' \cup Landing') \cap Loads
        PROVE  tag'[Tag[j]] = "loading" \/ (pc' = "wake" /\ j = Head(doneQ'))
    <3>1. CASE Tag[j] = k
      BY <1>1, <1>3, <1>6, <2>2, <3>1
    <3>2. CASE Tag[j] # k
      <4>1. j \in (Moving \cup Landing) \cap Loads /\ Tag[j] \in Tags
        BY <1>6, <2>2, TagsShared
      <4>2. tag[Tag[j]] = "loading"
        BY <1>3, <4>1
      <4>3. tag'[Tag[j]] = tag[Tag[j]]
        BY <1>5, <3>2, <4>1
      <4>4. QED
        BY <4>2, <4>3
    <3>3. QED
      BY <3>1, <3>2
  <2>3. \A j, l \in (Moving' \cup Landing') \cap Loads : Tag[j] = Tag[l] => j = l
    BY <1>6 DEF IInv, TagInv
  <2>4. \A j \in wake' : pc' = "wake" /\ Tag[j] = Tag[Head(doneQ')]
    BY <1>1, <1>7 DEF k
  <2>5. \A m \in Tags : tag'[m] = "loading" => \A j \in waiters'[m] : Tag[j] = m
    BY <1>1, <1>5 DEF IInv, TagInv
  <2>6. \A j \in finished \cap Loads : tag'[Tag[j]] # "absent"
    BY <1>5, TagsShared DEF IInv, TagInv
  <2>7. \A j \in finished \cap Barriers : tag'[Tag[j]] \in {"loaded", "sparse"}
    BY <1>5, TagsShared DEF IInv, TagInv
  <2>8. QED
    BY <1>1, <2>1, <2>2, <2>3, <2>4, <2>5, <2>6, <2>7 DEF TagInv
<1>13. QED
  BY <1>4, <1>8, <1>9, <1>10, <1>11, <1>12 DEF IInv, NoFault

(* A waiter of the tag is finished.                                        *)
LEMMA WakeStep ==
  ASSUME IInv, NEW i \in Insts, Wake(i)
  PROVE  IInv'
<1>1. /\ pc = "wake" /\ pc' = "wake" /\ i \in wake /\ FinishUser(Tag[i], i)
      /\ wake' = wake \ {i}
      /\ UNCHANGED <<tiles, finishedTiles, started, retired>>
      /\ UNCHANGED <<pipe, rr, zero>>
      /\ UNCHANGED <<ldQ, stQ, cur, dmaFinished, generated, pend, ssd>>
      /\ UNCHANGED <<waitQ, doneQ>> /\ UNCHANGED <<tag, waiters>>
      /\ UNCHANGED <<waiting, reqQ, net, mem>>
  BY DEF Wake, tileVars, pipeVars, dmaVars, tagVars, memVars
<1>2. tag[Tag[i]] = "loaded"
  BY <1>1 DEF IInv, TagInv
<1>3. Finish(i)
  BY <1>1, <1>2 DEF FinishUser
<1>4. i \in Parked /\ i \in Async \cup Barriers
  BY <1>1 DEF Parked, IInv, TypeOK
<1>5. i \notin finished /\ i \notin Moving
  BY <1>4 DEF IInv, PlaceInv
<1>6. i \notin Landing
  BY <1>4, <1>5, WhatIsWhere, Kinds DEF IInv, PlaceInv, Transfers
<1>7. i \notin Piped
  BY <1>4, WhatIsWhere, Kinds DEF IInv
<1>8. /\ UNCHANGED <<Moving, Landing, Piped>>
      /\ Parked' \subseteq Parked \ {i}
  BY <1>1, <1>2 DEF Moving, Landing, Piped, Parked
<1>9. /\ CounterInv' /\ PlaceInv' /\ NoFault'
      /\ finished' = finished \cup {i}
      /\ ready' \subseteq Insts /\ counter' \in [Insts -> Nat] /\ fault' \in BOOLEAN
      /\ finished' \subseteq Insts
  BY <1>1, <1>3, <1>4, <1>5, <1>6, <1>7, <1>8, FinishKeepsPlaces DEF IInv
<1>10. TypeOK'
  BY <1>1, <1>9 DEF IInv, TypeOK
<1>11. QueueInv' /\ TileInv' /\ DmaInv' /\ NoLostCompletion'
  BY <1>1, <1>9, QueueFrame, TileFrame, DmaFrame DEF IInv
<1>12. TagInv'
  BY <1>1, <1>2, <1>8, <1>9 DEF IInv, TagInv
<1>13. QED
  BY <1>9, <1>10, <1>11, <1>12 DEF IInv

LEMMA WakeDoneStep ==
  ASSUME IInv, WakeDone
  PROVE  IInv'
<1> DEFINE i == Head(doneQ)
<1>1. /\ pc = "wake" /\ pc' = "drain" /\ wake = {} /\ doneQ' = Tail(doneQ)
      /\ UNCHANGED <<tiles, finishedTiles, started, retired>>
      /\ UNCHANGED <<ready, counter, finished, fault>>
      /\ UNCHANGED <<pipe, rr, zero>>
      /\ UNCHANGED <<ldQ, stQ, cur, dmaFinished, generated, pend, ssd>>
      /\ UNCHANGED <<waitQ, wake>> /\ UNCHANGED <<tag, waiters>>
      /\ UNCHANGED <<waiting, reqQ, net, mem>>
  BY DEF WakeDone, tileVars, instVars, pipeVars, dmaVars, tagVars, memVars
<1>2. doneQ # <<>>
  BY <1>1 DEF IInv, TagInv
<1>3. /\ doneQ' \in Seq(Transfers) /\ i \in Elems(doneQ)
      /\ Elems(doneQ) = {i} \cup Elems(doneQ') /\ NoRepeat(doneQ') /\ i \notin Elems(doneQ')
  BY <1>1, <1>2, TailQueue DEF IInv, TypeOK, QueueInv
<1>4. /\ Landing' \subseteq Landing \ {i} /\ i \in Landing
      /\ UNCHANGED <<Moving, Piped, Parked>>
  BY <1>1, <1>3 DEF IInv, QueueInv, Moving, Landing, Piped, Parked
<1>5. CounterInv' /\ PlaceInv'
  BY <1>1, <1>4, CounterFrame DEF IInv, PlaceInv
<1>6. TypeOK'
  BY <1>1, <1>3 DEF IInv, TypeOK
<1>7. QueueInv'
  BY <1>1, <1>3 DEF IInv, QueueInv
<1>8. TileInv' /\ DmaInv' /\ NoLostCompletion'
  BY <1>1, TileFrame, DmaFrame DEF IInv
<1>9. TagInv'
  <2>1. ASSUME NEW j \in (Moving' \cup Landing') \cap Loads
        PROVE  j \in Moving \cup Landing /\ tag[Tag[j]] = "loading"
    <3>1. j \in Moving \cup Landing /\ j # i
      BY <1>4 DEF IInv, PlaceInv
    <3>2. QED
      BY <3>1 DEF IInv, TagInv
  <2>2. QED
    BY <1>1, <2>1 DEF IInv, TagInv
<1>10. QED
  BY <1>1, <1>5, <1>6, <1>7, <1>8, <1>9 DEF IInv, NoFault
-----------------------------------------------------------------------------
(* The first tile whose instructions have all finished leaves the core.    *)
LEMMA RetireStep ==
  ASSUME IInv, RetireTile
  PROVE  IInv'
<1>1. /\ pc = "issue" /\ pc' = "cache"
      /\ UNCHANGED <<started, retired>>
      /\ UNCHANGED <<ready, counter, finished, fault>>
      /\ UNCHANGED <<pipe, rr, zero>>
      /\ UNCHANGED <<ldQ, stQ, cur, dmaFinished, generated, pend, ssd>>
      /\ UNCHANGED <<waitQ, doneQ, wake>> /\ UNCHANGED <<tag, waiters>>
      /\ UNCHANGED <<waiting, reqQ, net, mem>>
  BY DEF RetireTile, instVars, pipeVars, dmaVars, doneVars, tagVars, memVars
<1>2. /\ tiles' \in Seq(Tiles) /\ finishedTiles' \in Seq(Tiles)
      /\ \A t \in Elems(finishedTiles') \ Elems(finishedTiles) : InstsOf(t) \subseteq finished
  <2>1. tiles \in Seq(Tiles) /\ finishedTiles \in Seq(Tiles)
    BY DEF IInv, TypeOK
  <2>2. CASE UNCHANGED <<tiles, finishedTiles>>
    BY <2>1, <2>2
  <2>3. ASSUME NEW k \in 1 .. Len(tiles), AllFinished(tiles[k]),
               finishedTiles' = Append(finishedTiles, tiles[k]),
               tiles' = SubSeq(tiles, 1, k - 1) \o SubSeq(tiles, k + 1, Len(tiles))
        PROVE  /\ tiles' \in Seq(Tiles) /\ finishedTiles' \in Seq(Tiles)
               /\ \A t \in Elems(finishedTiles') \ Elems(finishedTiles) :
                    InstsOf(t) \subseteq finished
    <3>1. tiles[k] \in Tiles
      BY <2>1
    <3>2. /\ finishedTiles' \in Seq(Tiles)
          /\ Elems(finishedTiles') = Elems(finishedTiles) \cup {tiles[k]}
      BY <2>1, <2>3, <3>1, AppendQueue
    <3>3. SubSeq(tiles, 1, k - 1) \in Seq(Tiles) /\ SubSeq(tiles, k + 1, Len(tiles)) \in Seq(Tiles)
      BY <2>1
    <3>4. tiles' \in Seq(Tiles)
      BY <2>3, <3>3
    <3>5. QED
      BY <2>3, <3>2, <3>4 DEF AllFinished
  <2>4. QED
    BY <2>2, <2>3 DEF RetireTile
<1>3. UNCHANGED <<Moving, Landing, Piped, Parked>>
  BY <1>1 DEF Moving, Landing, Piped, Parked
<1>4. TypeOK'
  BY <1>1, <1>2 DEF IInv, TypeOK
<1>5. CounterInv' /\ PlaceInv'
  BY <1>1, <1>3, CounterFrame DEF IInv, PlaceInv
<1>6. QueueInv' /\ TagInv' /\ DmaInv' /\ NoLostCompletion'
  BY <1>1, <1>3, QueueFrame, TagFrame, DmaFrame DEF IInv
<1>7. TileInv'
  BY <1>1, <1>2 DEF IInv, TileInv
<1>8. QED
  BY <1>1, <1>4, <1>5, <1>6, <1>7 DEF IInv, NoFault
-----------------------------------------------------------------------------
(* A step of the interconnect or of the cache port moves a request on.     *)
LEMMA RequestMoves ==
  ASSUME IInv, NEW i \in Loads \cup Stores,
         Inject(i) \/ CachePasses(i)
  PROVE  IInv'
<1>1. /\ pc' = pc /\ pc # "wake"
      /\ UNCHANGED <<tiles, finishedTiles, started, retired>>
      /\ UNCHANGED <<ready, counter, finished, fault>>
      /\ UNCHANGED <<pipe, rr, zero>>
      /\ UNCHANGED <<ldQ, stQ, cur, dmaFinished, generated, pend, ssd>>
      /\ UNCHANGED <<waitQ, doneQ, wake>> /\ UNCHANGED <<tag, waiters>>
      /\ UNCHANGED waiting
      /\ \/ /\ pc = "idle" /\ reqQ[i] > 0 /\ reqQ' = [reqQ EXCEPT ![i] = @ - 1]
            /\ net' = [net EXCEPT ![i] = @ + 1] /\ UNCHANGED mem
         \/ /\ pc = "cache" /\ net[i] > 0 /\ net' = [net EXCEPT ![i] = @ - 1]
            /\ mem' = [mem EXCEPT ![i] = @ + 1] /\ UNCHANGED reqQ
  BY DEF Inject, pop_memory_request, CachePasses, tileVars, instVars, pipeVars,
         dmaVars, doneVars, tagVars
<1>2. /\ reqQ \in [Loads \cup Stores -> Nat] /\ net \in [Loads \cup Stores -> Nat]
      /\ mem \in [Loads \cup Stores -> Nat] /\ waiting \in [Loads \cup Stores -> Nat]
      /\ pend \in Nat
  BY DEF IInv, TypeOK
<1>3. /\ reqQ' \in [Loads \cup Stores -> Nat] /\ net' \in [Loads \cup Stores -> Nat]
      /\ mem' \in [Loads \cup Stores -> Nat]
  BY <1>1, <1>2
<1>4. TypeOK'
  BY <1>1, <1>3 DEF IInv, TypeOK
<1>5. UNCHANGED <<Moving, Landing, Piped, Parked>>
  BY <1>1 DEF Moving, Landing, Piped, Parked
<1>6. CounterInv' /\ PlaceInv' /\ QueueInv' /\ TagInv' /\ TileInv'
  <2>1. CounterInv' /\ PlaceInv'
    BY <1>1, <1>5, CounterFrame DEF IInv, PlaceInv
  <2>2. QED
    BY <1>1, <1>5, <2>1, QueueFrame, TagFrame, TileFrame DEF IInv
<1>7. ASSUME NEW j \in Loads \cup Stores
      PROVE  reqQ'[j] + net'[j] + mem'[j] = reqQ[j] + net[j] + mem[j]
  BY <1>1, <1>2
<1>8. cur # NoInst /\ dmaFinished =>
        reqQ'[cur] > 0 \/ (pc' \notin {"issue", "cache"} /\ net'[cur] > 0)
  <2>1. SUFFICES ASSUME cur # NoInst, dmaFinished
                 PROVE  reqQ'[cur] > 0 \/ (pc' \notin {"issue", "cache"} /\ net'[cur] > 0)
    OBVIOUS
  <2>2. cur \in Loads \cup Stores
    BY <2>1 DEF IInv, TypeOK, Transfers
  <2>3. reqQ[cur] > 0 \/ (pc \notin {"issue", "cache"} /\ net[cur] > 0)
    BY <2>1 DEF IInv, DmaInv
  <2>4. QED
    BY <1>1, <1>2, <2>2, <2>3
<1>9. DmaInv'
  <2>1. ASSUME NEW j \in Loads \cup Stores
        PROVE  /\ waiting'[j] = reqQ'[j] + net'[j] + mem'[j]
                                  + (IF j = cur' /\ generated' THEN pend' ELSE 0)
               /\ waiting'[j] > 0 => j = cur' \/ j \in waitQ'
    <3>1. /\ waiting[j] = reqQ[j] + net[j] + mem[j]
                            + (IF j = cur /\ generated THEN pend ELSE 0)
          /\ waiting[j] > 0 => j = cur \/ j \in waitQ
      BY DEF IInv, DmaInv
    <3>2. QED
      BY <1>1, <1>7, <3>1
  <2>2. QED
    BY <1>1, <1>8, <2>1 DEF IInv, DmaInv
<1>10. QED
  BY <1>1, <1>4, <1>6, <1>9 DEF IInv, NoFault, NoLostCompletion

(* Core::push_memory_response: the last response finds its transfer in the *)
(* waiting queue, because while a transfer is current one of its requests  *)
(* has not been sent or has not passed the cache port.                     *)
LEMMA ResponseStep ==
  ASSUME IInv, NEW i \in Loads \cup Stores, push_memory_response(i)
  PROVE  IInv'
<1>1. /\ pc = "idle" /\ pc' = "idle" /\ mem[i] > 0 /\ mem' = [mem EXCEPT ![i] = @ - 1]
      /\ fault' = (fault \/ waiting[i] = 0)
      /\ waiting' = [waiting EXCEPT ![i] = IF @ = 0 THEN 0 ELSE @ - 1]
      /\ IF waiting[i] = 1 /\ i \in waitQ
           THEN waitQ' = waitQ \ {i} /\ doneQ' = Append(doneQ, i)
           ELSE UNCHANGED <<waitQ, doneQ>>
      /\ UNCHANGED <<tiles, finishedTiles, started, retired>>
      /\ UNCHANGED <<ready, counter, finished>>
      /\ UNCHANGED <<pipe, rr, zero>>
      /\ UNCHANGED <<ldQ, stQ, cur, dmaFinished, generated, pend, ssd>>
      /\ UNCHANGED wake /\ UNCHANGED <<tag, waiters>>
      /\ UNCHANGED <<reqQ, net>>
  BY DEF push_memory_response, dec_waiting_request, tileVars, pipeVars, dmaVars, tagVars
<1>2. /\ reqQ \in [Loads \cup Stores -> Nat] /\ net \in [Loads \cup Stores -> Nat]
      /\ mem \in [Loads \cup Stores -> Nat] /\ waiting \in [Loads \cup Stores -> Nat]
      /\ pend \in Nat /\ doneQ \in Seq(Transfers) /\ i \in Transfers \cup Sparse
  BY DEF IInv, TypeOK, Transfers
<1>3. \A j \in Loads \cup Stores :
        /\ waiting[j] = reqQ[j] + net[j] + mem[j]
                          + (IF j = cur /\ generated THEN pend ELSE 0)
        /\ waiting[j] > 0 => j = cur \/ j \in waitQ
  BY DEF IInv, DmaInv
<1>4. waiting[i] > 0 /\ waiting[i] \in Nat
  <2>1. /\ reqQ[i] \in Nat /\ net[i] \in Nat /\ mem[i] \in Nat /\ mem[i] > 0
        /\ waiting[i] = reqQ[i] + net[i] + mem[i]
                          + (IF i = cur /\ generated THEN pend ELSE 0)
    BY <1>1, <1>2, <1>3
  <2>2. (IF i = cur /\ generated THEN pend ELSE 0) \in Nat
    BY <1>2
  <2>3. QED
    BY <2>1, <2>2
<1>5. fault' = fault
  BY <1>1, <1>2, <1>4 DEF IInv, TypeOK
<1>6. waiting' = [waiting EXCEPT ![i] = @ - 1]
  <2>1. waiting[i] # 0
    BY <1>4
  <2>2. QED
    BY <1>1, <2>1
<1>7. /\ waiting' \in [Loads \cup Stores -> Nat] /\ mem' \in [Loads \cup Stores -> Nat]
      /\ waiting'[i] = waiting[i] - 1 /\ mem'[i] = mem[i] - 1
      /\ \A j \in Loads \cup Stores : j # i => waiting'[j] = waiting[j] /\ mem'[j] = mem[j]
  BY <1>1, <1>2, <1>4, <1>6
<1>8. cur = i => waiting[i] > 1
  <2>1. SUFFICES ASSUME cur = i PROVE waiting[i] > 1
    OBVIOUS
  <2>2. cur # NoInst
    BY <2>1, Kinds
  <2>3. IF dmaFinished THEN reqQ[i] > 0 \/ net[i] > 0 ELSE generated \/ waiting[i] = 0
    BY <2>1, <2>2 DEF IInv, DmaInv
  <2>4. generated => pend > 0
    BY DEF IInv, DmaInv
  <2>5. reqQ[i] \in Nat /\ net[i] \in Nat /\ mem[i] \in Nat
    BY <1>2
  <2>6. waiting[i] = reqQ[i] + net[i] + mem[i] + (IF generated THEN pend ELSE 0)
    BY <1>3, <2>1
  <2>7. CASE dmaFinished
    <3>1. waiting[i] = reqQ[i] + net[i] + mem[i]
      <4>1. ~generated
        BY <2>7 DEF IInv, DmaInv
      <4>2. QED
        BY <2>5, <2>6, <4>1
    <3>2. mem[i] > 0 /\ (reqQ[i] > 0 \/ net[i] > 0)
      BY <1>1, <2>3, <2>7
    <3>3. QED
      BY <2>5, <3>1, <3>2
  <2>8. CASE ~dmaFinished
    <3>1. generated
      BY <1>4, <2>3, <2>8
    <3>2. waiting[i] = reqQ[i] + net[i] + mem[i] + pend /\ pend > 0 /\ mem[i] > 0
      BY <1>1, <2>4, <2>6, <3>1
    <3>3. QED
      BY <1>2, <2>5, <3>2
  <2>9. QED
    BY <2>7, <2>8
<1>9. /\ waitQ' \subseteq Transfers /\ doneQ' \in Seq(Transfers)
      /\ waitQ' \cup Elems(doneQ') = waitQ \cup Elems(doneQ)
      /\ NoRepeat(doneQ') /\ waitQ' \cap Elems(doneQ') = {}
  <2>1. /\ waitQ \subseteq Transfers /\ NoRepeat(doneQ) /\ waitQ \cap Elems(doneQ) = {}
    BY DEF IInv, TypeOK, QueueInv
  <2>2. CASE waiting[i] = 1 /\ i \in waitQ
    <3>1. waitQ' = waitQ \ {i} /\ doneQ' = Append(doneQ, i) /\ i \in Transfers
          /\ i \notin Elems(doneQ)
      BY <1>1, <2>1, <2>2
    <3>2. /\ doneQ' \in Seq(Transfers) /\ NoRepeat(doneQ')
          /\ Elems(doneQ') = Elems(doneQ) \cup {i}
      BY <1>2, <2>1, <3>1, AppendQueue
    <3>3. QED
      BY <2>1, <2>2, <3>1, <3>2
  <2>3. CASE ~(waiting[i] = 1 /\ i \in waitQ)
    BY <1>1, <1>2, <2>1, <2>3
  <2>4. QED
    BY <2>2, <2>3
<1>10. UNCHANGED <<Moving, Landing, Piped, Parked>>
  BY <1>1, <1>9 DEF Moving, Landing, Piped, Parked
<1>11. TypeOK'
  BY <1>1, <1>5, <1>7, <1>9 DEF IInv, TypeOK
<1>12. CounterInv' /\ PlaceInv' /\ QueueInv' /\ TagInv' /\ TileInv'
  <2>1. CounterInv' /\ PlaceInv'
    BY <1>1, <1>10, CounterFrame DEF IInv, PlaceInv
  <2>2. QueueInv'
    BY <1>1, <1>9 DEF IInv, QueueInv
  <2>3. QED
    BY <1>1, <1>10, <2>1, <2>2, TagFrame, TileFrame DEF IInv
<1>13. ASSUME NEW j \in Loads \cup Stores
       PROVE  /\ waiting'[j] = reqQ'[j] + net'[j] + mem'[j]
                                 + (IF j = cur' /\ generated' THEN pend' ELSE 0)
              /\ waiting'[j] > 0 => j = cur' \/ j \in waitQ'
  <2>1. CASE j = i
    <3>1. waiting'[i] = reqQ'[i] + net'[i] + mem'[i]
                          + (IF i = cur' /\ generated' THEN pend' ELSE 0)
      <4>1. reqQ[i] \in Nat /\ net[i] \in Nat /\ mem[i] \in Nat
        BY <1>2
      <4>2. reqQ'[i] = reqQ[i] /\ net'[i] = net[i] /\ cur' = cur /\ generated' = generated
            /\ pend' = pend
        BY <1>1
      <4>3. waiting[i] = reqQ[i] + net[i] + mem[i]
                           + (IF i = cur /\ generated THEN pend ELSE 0)
        BY <1>3
      <4>4. waiting'[i] = reqQ[i] + net[i] + mem'[i]
                            + (IF i = cur /\ generated THEN pend ELSE 0)
        <5> DEFINE own == IF i = cur /\ generated THEN pend ELSE 0
        <5>1. own \in Nat
          BY <1>2
        <5>2. mem[i] >= 1 /\ waiting'[i] = waiting[i] - 1 /\ mem'[i] = mem[i] - 1
          BY <1>1, <1>7, <4>1
        <5>3. waiting[i] = reqQ[i] + net[i] + mem[i] + own
          BY <4>3
        <5> HIDE DEF own
        <5>4. waiting'[i] = reqQ[i] + net[i] + mem'[i] + own
          BY <4>1, <5>1, <5>2, <5>3
        <5>5. QED
          BY <5>4 DEF own
      <4>5. QED
        BY <4>2, <4>4
    <3>2. waiting'[i] > 0 => i = cur' \/ i \in waitQ'
      BY <1>1, <1>2, <1>3, <1>4, <1>7
    <3>3. QED
      BY <2>1, <3>1, <3>2
  <2>2. CASE j # i
    <3>1. waiting'[j] = waiting[j] /\ mem'[j] = mem[j] /\ (j \in waitQ => j \in waitQ')
      BY <1>1, <1>7, <2>2
    <3>2. QED
      BY <1>1, <1>3, <3>1
  <2>3. QED
    BY <2>1, <2>2
<1>14. DmaInv'
  <2>1. cur' # NoInst => IF dmaFinished'
          THEN reqQ'[cur'] > 0 \/ (pc' \notin {"issue", "cache"} /\ net'[cur'] > 0)
          ELSE generated' \/ waiting'[cur'] = 0
    <3>1. SUFFICES ASSUME cur # NoInst
                   PROVE  IF dmaFinished THEN reqQ[cur] > 0 \/ net[cur] > 0
                                         ELSE generated \/ waiting'[cur] = 0
      BY <1>1
    <3>2. /\ cur \in Loads \cup Stores
          /\ IF dmaFinished THEN reqQ[cur] > 0 \/ net[cur] > 0
                            ELSE generated \/ waiting[cur] = 0
      BY <3>1 DEF IInv, DmaInv, TypeOK, Transfers
    <3>3. waiting[cur] = 0 => cur # i
      BY <1>4
    <3>4. QED
      BY <1>7, <3>2, <3>3
  <2>2. QED
    BY <1>1, <1>13, <2>1 DEF IInv, DmaInv
<1>15. NoLostCompletion'
  <2>1. ASSUME NEW j \in waitQ' PROVE waiting'[j] > 0
    <3>1. j \in waitQ /\ j \in Loads \cup Stores /\ waiting[j] > 0
      BY <1>1 DEF IInv, NoLostCompletion, TypeOK, Transfers
    <3>2. CASE j = i
      <4>1. waiting[i] # 1
        BY <1>1, <2>1, <3>1, <3>2
      <4>2. QED
        BY <1>2, <1>4, <1>7, <3>2, <4>1
    <3>3. CASE j # i
      BY <1>7, <3>1, <3>3
    <3>4. QED
      BY <3>2, <3>3
  <2>2. QED
    BY <2>1 DEF NoLostCompletion
<1>16. QED
  BY <1>5, <1>11, <1>12, <1>14, <1>15 DEF IInv, NoFault
-----------------------------------------------------------------------------
LEMMA NextInvariant == IInv /\ [Next]_vars => IInv'
<1> SUFFICES ASSUME IInv, [Next]_vars PROVE IInv'
  OBVIOUS
<1>1. CASE SomeTileStarts
  BY <1>1, StartTileStep DEF SomeTileStarts
<1>2. CASE BeginCycle \/ OracleAnswers \/ DrainSync \/ DrainAsync \/ WakeDone
  BY <1>2, BeginCycleStep, OracleStep, DrainSyncStep, DrainAsyncStep, WakeDoneStep
<1>3. CASE SomePipeFinishes
  BY <1>3, PipeStep DEF SomePipeFinishes
<1>4. CASE ComputeDone \/ OracleSilent \/ DrainDone \/ DmaIdle \/ DmaGoesOn \/ EndCycle
             \/ UNCHANGED vars
  BY <1>4, ControlSteps
<1>5. CASE \E i \in Insts : Wake(i)
  BY <1>5, WakeStep
<1>6. CASE DmaHandsOver \/ DmaStarts \/ WaitsForOracle \/ GenerateRequests \/ RetireTile
  BY <1>6, HandOverStep, DmaStartStep, AskOracleStep, GenerateStep, RetireStep
<1>7. CASE \E i \in Insts : Issue(i)
  <2>1. PICK i \in Insts : Issue(i)
    BY <1>7
  <2>2. QED
    BY <2>1, IssueSparseLoadStep, SkipLoadStep, IssueLoadStep, IssueStoreStep,
       IssueComputeStep, SkipComputeStep, IssueBarrierStep DEF Issue
<1>8. CASE SomeRequestInjected \/ SomeRequestPasses
  BY <1>8, RequestMoves DEF SomeRequestInjected, SomeRequestPasses
<1>9. CASE SomeResponse
  BY <1>9, ResponseStep DEF SomeResponse
<1>10. QED
  BY <1>1, <1>2, <1>3, <1>4, <1>5, <1>6, <1>7, <1>8, <1>9 DEF Next

(* The core keeps its books: every instruction is in one queue, pipeline   *)
(* or waiter list, its ready counter is the number of its open             *)
(* predecessors, and _nr_waiting_request the number of its open requests.  *)
THEOREM InductiveInvariant == Spec => []IInv
<1>1. QED
  BY InitInvariant, NextInvariant, PTL DEF Spec

(* The error exits of Core::finish_instruction and Core::cycle, the        *)
(* asserts of dec_ready_counter and dec_waiting_request and the exceptions *)
(* of the tag table are not reached, whatever the graph.                   *)
THEOREM NothingFails == Spec => []NoFault
<1>1. IInv => NoFault
  BY DEF IInv
<1>2. QED
  BY <1>1, InductiveInvariant, PTL

(* push_memory_response always finds the transfer of a last response in    *)
(* _dma_waiting_queue: nothing in that queue has had its last response.    *)
THEOREM NoResponseIsDropped == Spec => []NoLostCompletion
<1>1. IInv => NoLostCompletion
  BY DEF IInv
<1>2. QED
  BY <1>1, InductiveInvariant, PTL

(* What Core::running looks at covers every transfer that waits for a      *)
(* response, so a core that says it is idle has none under way.            *)
THEOREM IdleIsDrained == Spec => []IdleMeansDrained
<1>1. IInv => IdleMeansDrained
  <2> SUFFICES ASSUME IInv, ~running, NEW i \in Loads \cup Stores PROVE waiting[i] = 0
    BY DEF IdleMeansDrained
  <2>1. waiting[i] \in Nat /\ (waiting[i] > 0 => i = cur \/ i \in waitQ)
    BY DEF IInv, TypeOK, DmaInv
  <2>2. cur = NoInst /\ waitQ = {} /\ i # NoInst
    BY Kinds DEF running
  <2>3. QED
    BY <2>1, <2>2
<1>2. QED
  BY <1>1, InductiveInvariant, PTL

(* An instruction whose ready counter is zero depends on nothing open.     *)
LEMMA ReadyMeansDone ==
  ASSUME CounterInv, NEW i \in Insts, counter[i] = 0
  PROVE  Preds(i) \subseteq finished
<1>1. Cardinality(Preds(i) \ finished) = 0 /\ IsFiniteSet(Preds(i) \ finished)
  BY PredsFinite DEF CounterInv
<1>2. Preds(i) \ finished = {}
  BY <1>1, FS_EmptySet
<1>3. QED
  BY <1>2

(* A compute instruction is in a pipeline only when its barriers have      *)
(* found their tags loaded and its synchronous loads have had their last   *)
(* response: no load of its operands is queued, current or waiting.        *)
THEOREM ComputeHasItsData == Spec => []DataBeforeCompute
<1>1. ASSUME IInv, NEW i \in Loads, Fetching(i)
      PROVE  i \in Moving \/ i \in waitQ
  <2>1. waiting[i] > 0 => i = cur \/ i \in waitQ
    BY <1>1 DEF IInv, DmaInv
  <2>2. i # NoInst
    BY Kinds
  <2>3. QED
    BY <1>1, <2>1, <2>2 DEF Fetching, Moving
<1>2. ASSUME IInv, NEW i \in Loads, Fetching(i)
      PROVE  tag[Tag[i]] = "loading" /\ (i \in finished => i \in Async)
  <2>1. i \in (Moving \cup Landing) \cap Loads /\ (i \in Moving \/ i \in waitQ)
    BY <1>1, <1>2 DEF Landing
  <2>2. tag[Tag[i]] = "loading" \/ (pc = "wake" /\ i = Head(doneQ))
    BY <1>2, <2>1 DEF IInv, TagInv
  <2>3. ~(pc = "wake" /\ i = Head(doneQ))
    <3>1. SUFFICES ASSUME pc = "wake", i = Head(doneQ) PROVE FALSE
      OBVIOUS
    <3>2. doneQ # <<>> /\ doneQ \in Seq(Transfers)
      BY <1>2, <3>1 DEF IInv, TagInv, TypeOK
    <3>3. i \in Elems(doneQ)
      BY <3>1, <3>2, TailQueue
    <3>4. QED
      BY <1>2, <2>1, <3>3 DEF IInv, PlaceInv, QueueInv, Landing
  <2>4. i \in finished => i \in Async
    BY <1>2, <2>1, Kinds DEF IInv, PlaceInv, Landing
  <2>5. QED
    BY <2>2, <2>3, <2>4
<1>3. IInv => DataBeforeCompute
  <2> SUFFICES ASSUME IInv, NEW c \in Computes, InPipe(c) \/ c \in finished
               PROVE  /\ \A b \in Preds(c) \cap Barriers :
                           /\ tag[Tag[b]] \in {"loaded", "sparse"}
                           /\ \A i \in Loads : Tag[i] = Tag[b] => ~Fetching(i)
                      /\ \A i \in (Preds(c) \cap Loads) \ (Async \cup Sparse) : ~Fetching(i)
    BY DEF DataBeforeCompute
  <2>1. c \in Piped \cup finished /\ c \in Insts
    BY Kinds DEF InPipe, Piped
  <2>2. counter[c] = 0
    BY <2>1 DEF IInv, CounterInv
  <2>3. Preds(c) \subseteq finished
    BY <2>1, <2>2, ReadyMeansDone DEF IInv
  <2>4. \A b \in Preds(c) \cap Barriers : tag[Tag[b]] \in {"loaded", "sparse"}
    BY <2>3 DEF IInv, TagInv
  <2>5. \A b \in Preds(c) \cap Barriers : \A i \in Loads : Tag[i] = Tag[b] => ~Fetching(i)
    BY <1>2, <2>4
  <2>6. \A i \in (Preds(c) \cap Loads) \ (Async \cup Sparse) : ~Fetching(i)
    BY <1>2, <2>3
  <2>7. QED
    BY <2>4, <2>5, <2>6
<1>4. QED
  BY <1>3, InductiveInvariant, PTL
-----------------------------------------------------------------------------
(* Core::finish_instruction of an instruction in any place of the core is  *)
(* a step of the abstract graph execution, or the error exit.              *)
LEMMA FinishCompletes ==
  ASSUME IInv, NEW i \in Insts, Finish(i),
         i \in ready \cup Moving \cup Piped \cup Parked \cup Landing
  PROVE  Dag!DagNext \/ finished' = finished
<1>1. CASE i \in finished
  BY <1>1 DEF Finish, Fault
<1>2. CASE i \notin finished
  <2>1. counter[i] = 0
    BY DEF IInv, CounterInv
  <2>2. Preds(i) \subseteq finished
    BY <2>1, ReadyMeansDone DEF IInv
  <2>3. finished' = finished \cup {i}
    BY <1>2 DEF Finish, finish_instruction
  <2>4. Dag!Complete(i)
    BY <1>2, <2>2, <2>3 DEF Dag!Complete, Preds
  <2>5. QED
    BY <2>4 DEF Dag!DagNext
<1>3. QED
  BY <1>1, <1>2

(* Every step of the core completes one instruction of the graph, or none. *)
LEMMA StepCompletes ==
  ASSUME IInv, [Next]_vars
  PROVE  Dag!DagNext \/ finished' = finished
<1>1. CASE \/ SomeTileStarts \/ BeginCycle \/ ComputeDone \/ OracleSilent \/ DrainAsync
           \/ WakeDone \/ DrainDone \/ DmaStarts \/ DmaIdle \/ DmaGoesOn \/ WaitsForOracle
           \/ GenerateRequests \/ RetireTile \/ SomeRequestInjected \/ SomeRequestPasses
           \/ EndCycle \/ SomeResponse \/ UNCHANGED vars
  BY <1>1 DEF SomeTileStarts, StartTile, BeginCycle, ComputeDone, OracleSilent, DrainAsync,
     WakeDone, DrainDone, DmaStarts, DmaIdle, DmaGoesOn, WaitsForOracle, GenerateRequests,
     RetireTile, SomeRequestInjected, Inject, SomeRequestPasses, CachePasses, EndCycle,
     SomeResponse, push_memory_response, vars, instVars
<1>2. CASE SomePipeFinishes
  <2>1. PICK u \in Units : PipeFinishes(u)
    BY <1>2 DEF SomePipeFinishes
  <2>2. pipe[u] \in Seq(Computes) /\ pipe[u] # <<>> /\ Finish(Head(pipe[u]))
    BY <2>1 DEF PipeFinishes, IInv, TypeOK
  <2>3. Head(pipe[u]) \in Elems(pipe[u]) /\ Head(pipe[u]) \in Insts
    BY <2>2, TailQueue, Kinds
  <2>4. Head(pipe[u]) \in Piped
    BY <2>3 DEF Piped
  <2>5. QED
    BY <2>2, <2>3, <2>4, FinishCompletes
<1>3. CASE OracleAnswers \/ DmaHandsOver
  <2>1. IF cur \in Stores \cup Async THEN Finish(cur) ELSE UNCHANGED instVars
    BY <1>3 DEF OracleAnswers, DmaHandsOver
  <2>2. CASE cur \in Stores \cup Async
    <3>1. cur \in Insts /\ cur # NoInst
      BY <2>2, Kinds
    <3>2. cur \in Moving
      BY <3>1 DEF Moving
    <3>3. QED
      BY <2>1, <2>2, <3>1, <3>2, FinishCompletes
  <2>3. CASE cur \notin Stores \cup Async
    BY <2>1, <2>3 DEF instVars
  <2>4. QED
    BY <2>2, <2>3
<1>4. CASE DrainSync
  <2>1. /\ doneQ \in Seq(Transfers) /\ doneQ # <<>>
        /\ IF Head(doneQ) \in Loads THEN Finish(Head(doneQ)) ELSE UNCHANGED instVars
    BY <1>4 DEF DrainSync, IInv, TypeOK
  <2>2. Head(doneQ) \in Landing /\ Head(doneQ) \in Insts
    BY <2>1, TailQueue, Kinds DEF Landing
  <2>3. CASE Head(doneQ) \in Loads
    BY <2>1, <2>2, <2>3, FinishCompletes
  <2>4. CASE Head(doneQ) \notin Loads
    BY <2>1, <2>4 DEF instVars
  <2>5. QED
    BY <2>3, <2>4
<1>5. CASE \E i \in Insts : Wake(i)
  <2>1. PICK i \in Insts : Wake(i)
    BY <1>5
  <2>2. i \in Parked /\ (Finish(i) \/ finished' = finished)
    BY <2>1 DEF Wake, FinishUser, Fault, Parked
  <2>3. QED
    BY <2>2, FinishCompletes
<1>6. CASE \E i \in Insts : Issue(i)
  <2>1. PICK i \in Insts : Issue(i)
    BY <1>6
  <2>2. i \in ready /\ (Finish(i) \/ finished' = finished)
    BY <2>1 DEF Issue, IssueSparseLoad, SkipLoad, IssueLoad, IssueStore, IssueCompute,
       SkipCompute, IssueBarrier, register_tag_waiter, FinishUser, Fault, FirstReady
  <2>3. QED
    BY <2>2, FinishCompletes
<1>7. QED
  BY <1>1, <1>2, <1>3, <1>4, <1>5, <1>6 DEF Next

(* The core implements the abstract execution of its instruction graph:    *)
(* Core finishes an instruction once, alone, and after its predecessors.   *)
THEOREM CoreExecutesGraph == Spec => ExecutesGraph
<1>1. Init => Dag!DagInit
  BY DEF Init, Dag!DagInit
<1>2. IInv /\ [Next]_vars => [Dag!DagNext]_finished
  BY StepCompletes
<1>3. QED
  BY <1>1, <1>2, InductiveInvariant, PTL DEF Spec, ExecutesGraph, Dag!DagSpec
=============================================================================
