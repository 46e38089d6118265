------------------------ MODULE KernelSchedulerProofs ------------------------
(* Proofs about KernelScheduler, for any number of cores, slots, kernels,  *)
(* subgraphs and tiles.  IInv is inductive: a tile's ready counter counts  *)
(* its open parents, and the stage a tile is in agrees with its counter.   *)
EXTENDS KernelScheduler, FiniteSetTheorems, SequenceTheorems, TLAPS

(* Dropping a finished kernel from a queue leaves a queue.                 *)
LEMMA RefreshType ==
  ASSUME NEW q \in Seq(Kernels), NEW pnd, NEW alc, NEW rdy, NEW wtg
  PROVE  refresh_status(q, pnd, alc, rdy, wtg) \in Seq(Kernels)
BY DEF refresh_status

(* Every place control can go to in the two loops of core_cycle exists.    *)
LEMMA ControlType ==
  ASSUME iter \in Slots, cur \in Cores, clock \in Nat,
         NextSlot \/ NextCore \/ EndOfCore
  PROVE  phase' \in {"check", "slots", "cores"} /\ iter' \in Slots /\ cur' \in Cores
BY ShapeAssumption DEF NextSlot, NextCore, EndOfCore, GoTo, Slots, Cores

(* The parents of a tile form a finite set, so they can be counted.        *)
LEMMA ParentsFinite ==
  ASSUME NEW t \in Tiles
  PROVE  /\ IsFiniteSet(Parents(t) \ done)
         /\ Cardinality(Parents(t) \ done) \in Nat
         /\ Cardinality(Parents(t) \ done) = 0 <=> Parents(t) \subseteq done
<1>1. IsFiniteSet(Parents(t) \ done)
  BY GraphAssumption, FS_Subset DEF Parents
<1>2. QED
  BY <1>1, FS_CardinalityType, FS_EmptySet

(* What is known of the tile a core gives back.                            *)
LEMMA FinishedTile ==
  ASSUME IInv, NEW c \in Cores, finishedQ[c] # <<>>
  PROVE  /\ Head(finishedQ[c]) \in Tiles
         /\ FinishedOnCore(c) = {Head(finishedQ[c])}
         /\ Tail(finishedQ[c]) = <<>>
         /\ Head(finishedQ[c]) \notin done
         /\ KernelOf[SubOf[Head(finishedQ[c])]] \in launched
<1>1. PICK t \in Tiles : finishedQ[c] = <<t>>
  BY DEF IInv, StageMatchesCounter
<1>2. Head(<<t>>) = t /\ Tail(<<t>>) = <<>> /\ Len(<<t>>) = 1 /\ <<t>>[1] = t
  OBVIOUS
<1>3. FinishedOnCore(c) = {t}
  BY <1>1, <1>2 DEF FinishedOnCore
<1>4. QED
  BY <1>1, <1>2, <1>3 DEF IInv, TileInOnePlace, StageMatchesCounter

(* TileSubGraph::finish_tile lowers the counter of each child by one, and  *)
(* the children it frees were all waiting.                                 *)
LEMMA HandBackCounts ==
  ASSUME IInv, NEW c \in Cores, HandBack(c)
  PROVE  /\ done' \subseteq Tiles
         /\ done' = done \cup FinishedOnCore(c)
         /\ counter' \in [Tiles -> Nat]
         /\ CounterIsOpenParents'
         /\ ready' \cup waiting' = ready \cup waiting
         /\ ready' \cap waiting' = {}
         /\ \A t \in waiting' : counter'[t] # 0
         /\ \A t \in Tiles \ waiting' :
              KernelOf[SubOf[t]] \in launched => counter'[t] = 0
<1> USE DEF IInv
<1>1. CASE finishedQ[c] = <<>>
  <2>1. FinishedOnCore(c) = {}
    BY <1>1 DEF FinishedOnCore
  <2>2. QED
    BY <1>1, <2>1 DEF HandBack, TypeOK, CounterIsOpenParents, Parents,
                      TileInOnePlace, StageMatchesCounter
<1>2. CASE finishedQ[c] # <<>>
  <2> DEFINE t == Head(finishedQ[c])
             freed == {x \in Children[t] : counter[x] = 1}
  <2>1. /\ t \in Tiles /\ t \notin done
        /\ FinishedOnCore(c) = {t}
        /\ KernelOf[SubOf[t]] \in launched
    BY <1>2, FinishedTile
  <2>2. /\ done' = done \cup {t}
        /\ counter' = [x \in Tiles |-> IF x \in Children[t]
                                         THEN counter[x] - 1 ELSE counter[x]]
        /\ ready' = ready \cup freed
        /\ waiting' = waiting \ freed
    BY <1>2 DEF HandBack
  <2>3. Children[t] \subseteq Tiles
    BY <2>1, GraphAssumption
  <2>4. ASSUME NEW x \in Children[t]
        PROVE  counter[x] \in Nat /\ counter[x] # 0 /\ x \in waiting
    <3>1. t \in Parents(x) \ done
      BY <2>1 DEF Parents
    <3>2. counter[x] # 0
      BY <2>3, <3>1, ParentsFinite DEF CounterIsOpenParents
    <3>3. KernelOf[SubOf[x]] \in launched
      BY <2>1, GraphAssumption
    <3>4. QED
      BY <2>3, <3>2, <3>3 DEF StageMatchesCounter, TypeOK
  <2>5. counter' \in [Tiles -> Nat]
    BY <2>2, <2>4 DEF TypeOK
  <2>6. ASSUME NEW x \in Tiles
        PROVE  counter'[x] = Cardinality(Parents(x) \ done')
    <3>1. CASE x \in Children[t]
      <4>1. Parents(x) \ done' = (Parents(x) \ done) \ {t}
        BY <2>2
      <4>2. t \in Parents(x) \ done
        BY <2>1, <3>1 DEF Parents
      <4>3. Cardinality((Parents(x) \ done) \ {t}) = Cardinality(Parents(x) \ done) - 1
        BY <4>2, ParentsFinite, FS_RemoveElement
      <4>4. QED
        BY <2>2, <3>1, <4>1, <4>3 DEF CounterIsOpenParents
    <3>2. CASE x \notin Children[t]
      <4>1. Parents(x) \ done' = Parents(x) \ done
        BY <2>2, <3>2 DEF Parents
      <4>2. QED
        BY <2>2, <3>2, <4>1 DEF CounterIsOpenParents
    <3>3. QED
      BY <3>1, <3>2
  <2>7. CounterIsOpenParents'
    BY <2>6 DEF CounterIsOpenParents, Parents
  <2>8. freed \subseteq waiting
    BY <2>4
  <2>9. /\ ready' \cup waiting' = ready \cup waiting
        /\ ready' \cap waiting' = {}
    BY <2>2, <2>8 DEF TileInOnePlace
  <2>10. \A x \in waiting' : counter'[x] # 0
    BY <2>2, <2>4 DEF StageMatchesCounter, TypeOK
  <2>11. ASSUME NEW x \in Tiles \ waiting', KernelOf[SubOf[x]] \in launched
         PROVE  counter'[x] = 0
    <3>1. CASE x \in freed
      BY <2>2, <3>1
    <3>2. CASE x \notin freed
      <4>1. x \notin waiting
        BY <2>2, <2>11, <3>2
      <4>2. counter[x] = 0 /\ x \notin Children[t]
        BY <2>4, <2>11, <4>1 DEF StageMatchesCounter
      <4>3. QED
        BY <2>2, <4>2
    <3>3. QED
      BY <3>1, <3>2
  <2>12. QED
    BY <2>1, <2>2, <2>5, <2>7, <2>9, <2>10, <2>11 DEF TypeOK
<1>3. QED
  BY <1>1, <1>2
-----------------------------------------------------------------------------
(* A step that moves no tile and changes no counter keeps the invariant.   *)
LEMMA NothingMoves ==
  ASSUME IInv, TypeOK',
         UNCHANGED <<launched, ready, waiting, counter, onCore, finishedQ, done>>
  PROVE  IInv'
BY DEF IInv, TileInOnePlace, CounterIsOpenParents, StageMatchesCounter,
       executed, FinishedOnCore, Parents

(* Steps of the command loop and of the slot loop that leave the graphs    *)
(* and the cores alone.                                                    *)
LEMMA ControlSteps ==
  ASSUME IInv, Sync \/ Iterate \/ SyncReturns \/ PeekNothing \/ PeekCannotIssue
  PROVE  IInv'
<1>1. CASE Sync \/ SyncReturns
  <2>1. TypeOK'
    BY <1>1 DEF IInv, TypeOK, Sync, SyncReturns, graphVars, loopVars
  <2>2. QED
    BY <1>1, <2>1, NothingMoves DEF Sync, SyncReturns, graphVars
<1>2. CASE Iterate
  <2>1. iter' \in Slots /\ cur' \in Cores
    BY <1>2, ShapeAssumption DEF Iterate, Slots, Cores
  <2>2. TypeOK'
    BY <1>2, <2>1 DEF IInv, TypeOK, Iterate, graphVars
  <2>3. QED
    BY <1>2, <2>2, NothingMoves DEF Iterate, graphVars
<1>3. CASE PeekNothing \/ PeekCannotIssue
  <2>1. phase' \in {"check", "slots", "cores"} /\ iter' \in Slots /\ cur' \in Cores
    BY <1>3, ControlType DEF IInv, TypeOK, PeekNothing, PeekCannotIssue
  <2>2. TypeOK'
    BY <1>3, <2>1 DEF IInv, TypeOK, PeekNothing, PeekCannotIssue, graphVars
  <2>3. QED
    BY <1>3, <2>2, NothingMoves DEF PeekNothing, PeekCannotIssue, graphVars
<1>4. QED
  BY <1>1, <1>2, <1>3

(* LAUNCH_KERNEL: no tile of the kernel was anywhere yet.                  *)
LEMMA LaunchStep ==
  ASSUME IInv, NEW k \in Kernels, Launch(k)
  PROVE  IInv'
<1> DEFINE part == KernelPart[k]
<1>1. /\ k \notin launched
      /\ launched' = launched \cup {k}
      /\ ready' = ready \cup {t \in KernelTiles(k) : counter[t] = 0}
      /\ waiting' = waiting \cup {t \in KernelTiles(k) : counter[t] # 0}
      /\ queue' = [queue EXCEPT ![part] =
                    refresh_status(Append(@, k), pending, alloc, ready', waiting')]
      /\ UNCHANGED <<mode, pending, alloc, counter, onCore, finishedQ, done,
                     clock, phase, iter, cur>>
  BY DEF Launch, loopVars
<1>2. \A t \in KernelTiles(k) : t \in Tiles /\ KernelOf[SubOf[t]] = k
  BY DEF KernelTiles
<1>3. TypeOK'
  <2>1. part \in Partitions
    BY ShapeAssumption
  <2>2. queue[part] \in Seq(Kernels)
    BY <2>1 DEF IInv, TypeOK
  <2>3. Append(queue[part], k) \in Seq(Kernels)
    BY <2>2
  <2>4. refresh_status(Append(queue[part], k), pending, alloc, ready', waiting')
          \in Seq(Kernels)
    BY <2>3, RefreshType
  <2>5. queue' \in [Partitions -> Seq(Kernels)]
    BY <1>1, <2>1, <2>4 DEF IInv, TypeOK
  <2>6. QED
    BY <1>1, <1>2, <2>5 DEF IInv, TypeOK
<1>4. KernelTiles(k) \cap (ready \cup waiting \cup executed
                             \cup UNION {onCore[c] : c \in Cores}) = {}
  BY <1>1, <1>2 DEF IInv, StageMatchesCounter, executed
<1>5. executed' = executed /\ \A c \in Cores : FinishedOnCore(c)' = FinishedOnCore(c)
  BY <1>1 DEF executed, FinishedOnCore
<1>6. /\ ready' \cup waiting' = ready \cup waiting \cup KernelTiles(k)
      /\ ready' \cap waiting' = {}
  BY <1>1, <1>4 DEF IInv, TileInOnePlace
<1>7. TileInOnePlace'
  BY <1>1, <1>4, <1>5, <1>6 DEF IInv, TileInOnePlace
<1>8. CounterIsOpenParents'
  BY <1>1 DEF IInv, CounterIsOpenParents, Parents
<1>9. StageMatchesCounter'
  <2>1. \A t \in waiting' : counter'[t] # 0
    BY <1>1 DEF IInv, StageMatchesCounter
  <2>2. \A t \in Tiles \ waiting' : KernelOf[SubOf[t]] \in launched' => counter'[t] = 0
    BY <1>1 DEF IInv, StageMatchesCounter, KernelTiles
  <2>3. \A t \in ready' \cup waiting' : KernelOf[SubOf[t]] \in launched'
    BY <1>1, <1>2, <1>6 DEF IInv, StageMatchesCounter
  <2>4. QED
    BY <1>1, <1>5, <2>1, <2>2, <2>3 DEF IInv, StageMatchesCounter
<1>10. QED
  BY <1>3, <1>7, <1>8, <1>9 DEF IInv

(* TileGraph::allocate_subgraph moves subgraphs, not tiles.                *)
LEMMA PeekAllocatesStep ==
  ASSUME IInv, PeekAllocates
  PROVE  IInv'
<1>1. phase' \in {"check", "slots", "cores"} /\ iter' \in Slots /\ cur' \in Cores
  BY ControlType DEF IInv, TypeOK, PeekAllocates
<1>2. pending' \in [Kernels -> SUBSET Subs]
  <2>1. pending \in [Kernels -> SUBSET Subs]
    BY DEF IInv, TypeOK
  <2>2. pending' = pending \/ \E s : pending' = [pending EXCEPT ![HeadKernel] = @ \ {s}]
    BY DEF PeekAllocates, allocate_subgraph
  <2>3. QED
    BY <2>1, <2>2
<1>3. alloc' \in [Kernels -> [Cores -> [Slots -> Subs \cup {NoSub}]]]
  <2>1. HeadKernel \in Kernels /\ cur \in Cores /\ iter \in Slots
    BY ShapeAssumption, HeadTailProperties
       DEF IInv, TypeOK, PeekAllocates, CanPeek, HeadQueue, HeadKernel
  <2>2. PICK s \in Subs \cup {NoSub} :
               alloc' = [alloc EXCEPT ![HeadKernel][cur][iter] = s]
    BY <2>1 DEF IInv, TypeOK, PeekAllocates, allocate_subgraph, Candidates
  <2>3. QED
    BY <2>1, <2>2 DEF IInv, TypeOK
<1>4. TypeOK'
  BY <1>1, <1>2, <1>3 DEF IInv, TypeOK, PeekAllocates
<1>5. QED
  BY <1>4, NothingMoves DEF PeekAllocates

(* A tile that is issued leaves the ready queue for one core.              *)
LEMMA IssueStep ==
  ASSUME IInv, NEW t \in Tiles, IssueTile(t)
  PROVE  IInv'
<1> DEFINE part == PartitionOf[cur]
<1>1. /\ t \in ready
      /\ ready' = ready \ {t}
      /\ onCore' = [onCore EXCEPT ![cur] = @ \cup {t}]
      /\ queue' = [queue EXCEPT ![part] =
                     refresh_status(@, pending, alloc, ready', waiting)]
      /\ UNCHANGED <<mode, launched, pending, alloc, waiting, counter, finishedQ,
                     done, clock>>
      /\ NextSlot
  BY DEF IssueTile, ReadyInSlot
<1>2. cur \in Cores /\ part \in Partitions
  BY ShapeAssumption DEF IInv, TypeOK
<1>3. TypeOK'
  <2>1. phase' \in {"check", "slots", "cores"} /\ iter' \in Slots /\ cur' \in Cores
    BY <1>1, ControlType DEF IInv, TypeOK
  <2>2. queue[part] \in Seq(Kernels)
    BY <1>2 DEF IInv, TypeOK
  <2>3. refresh_status(queue[part], pending, alloc, ready', waiting) \in Seq(Kernels)
    BY <2>2, RefreshType
  <2>4. queue' \in [Partitions -> Seq(Kernels)]
    BY <1>1, <1>2, <2>3 DEF IInv, TypeOK
  <2>5. QED
    BY <1>1, <1>2, <2>1, <2>4 DEF IInv, TypeOK
<1>4. executed' = executed /\ \A c \in Cores : FinishedOnCore(c)' = FinishedOnCore(c)
  BY <1>1 DEF executed, FinishedOnCore
<1>5. \A c \in Cores : onCore'[c] = IF c = cur THEN onCore[c] \cup {t} ELSE onCore[c]
  BY <1>1, <1>2 DEF IInv, TypeOK
<1>6. /\ t \notin waiting \cup executed
      /\ \A c \in Cores : t \notin onCore[c] \cup FinishedOnCore(c)
  BY <1>1 DEF IInv, TileInOnePlace, executed
<1>7. TileInOnePlace'
  <2>1. \A c \in Cores, d \in Cores : c # d =>
          (onCore'[c] \cup FinishedOnCore(c)) \cap (onCore'[d] \cup FinishedOnCore(d)) = {}
    <3>1. SUFFICES ASSUME NEW c \in Cores, NEW d \in Cores, c # d
                   PROVE  (onCore'[c] \cup FinishedOnCore(c))
                            \cap (onCore'[d] \cup FinishedOnCore(d)) = {}
      OBVIOUS
    <3>2. (onCore[c] \cup FinishedOnCore(c)) \cap (onCore[d] \cup FinishedOnCore(d)) = {}
      BY <3>1 DEF IInv, TileInOnePlace
    <3>3. onCore'[c] \subseteq onCore[c] \cup {t} /\ onCore'[d] \subseteq onCore[d] \cup {t}
      BY <1>5
    <3>4. ~(t \in onCore'[c] /\ t \in onCore'[d])
      BY <1>5, <1>6, <3>1
    <3>5. QED
      BY <1>6, <3>2, <3>3, <3>4
  <2>2. \A c \in Cores : onCore'[c] \cap (ready' \cup waiting' \cup executed) = {}
    BY <1>1, <1>5, <1>6 DEF IInv, TileInOnePlace
  <2>3. QED
    BY <1>1, <1>4, <2>1, <2>2 DEF IInv, TileInOnePlace
<1>8. CounterIsOpenParents'
  BY <1>1 DEF IInv, CounterIsOpenParents, Parents
<1>9. StageMatchesCounter'
  BY <1>1, <1>4, <1>5 DEF IInv, StageMatchesCounter
<1>10. QED
  BY <1>3, <1>7, <1>8, <1>9 DEF IInv

(* At most one tile of the core that is visited, x, finishes, and the tile  *)
(* that was in its queue has left it.                                      *)
LEMMA TileFinishes ==
  ASSUME IInv,
         CoreCycleIdle \/ \E t \in Tiles : CoreCycleFinishes(t)
  PROVE  \E X \in SUBSET Tiles :
           /\ X = {} \/ \E t \in onCore[cur] : X = {t}
           /\ onCore' = [onCore EXCEPT ![cur] = @ \ X]
           /\ finishedQ' \in [Cores -> Seq(Tiles)]
           /\ \A c \in Cores : finishedQ'[c] # <<>> => \E t \in Tiles : finishedQ'[c] = <<t>>
           /\ \A c \in Cores : FinishedOnCore(c)' =
                                 IF c = cur THEN X ELSE FinishedOnCore(c)
<1>1. /\ cur \in Cores
      /\ finishedQ \in [Cores -> Seq(Tiles)]
      /\ onCore \in [Cores -> SUBSET Tiles]
  BY DEF IInv, TypeOK
<1>2. PopFinished(cur) = <<>>
  BY <1>1, FinishedTile DEF PopFinished
<1>3. CASE CoreCycleIdle
  <2>1. onCore' = [onCore EXCEPT ![cur] = @ \ {}]
    BY <1>1, <1>3 DEF CoreCycleIdle
  <2>2. finishedQ' = [finishedQ EXCEPT ![cur] = <<>>]
    BY <1>2, <1>3 DEF CoreCycleIdle
  <2>3. finishedQ' \in [Cores -> Seq(Tiles)]
    BY <1>1, <2>2
  <2>4. finishedQ'[cur] = <<>> /\ \A c \in Cores \ {cur} : finishedQ'[c] = finishedQ[c]
    BY <1>1, <2>2
  <2>5. \A c \in Cores :
          finishedQ'[c] # <<>> => \E t \in Tiles : finishedQ'[c] = <<t>>
    BY <2>4 DEF IInv, StageMatchesCounter
  <2>6. \A c \in Cores : FinishedOnCore(c)' = IF c = cur THEN {} ELSE FinishedOnCore(c)
    BY <2>4 DEF FinishedOnCore
  <2>7. QED
    BY <2>1, <2>3, <2>5, <2>6
<1>4. ASSUME NEW t \in Tiles, CoreCycleFinishes(t)
      PROVE  \E X \in SUBSET Tiles :
               /\ X = {} \/ \E u \in onCore[cur] : X = {u}
               /\ onCore' = [onCore EXCEPT ![cur] = @ \ X]
               /\ finishedQ' \in [Cores -> Seq(Tiles)]
               /\ \A c \in Cores : finishedQ'[c] # <<>> => \E x \in Tiles : finishedQ'[c] = <<x>>
               /\ \A c \in Cores : FinishedOnCore(c)' =
                                     IF c = cur THEN X ELSE FinishedOnCore(c)
  <2>1. t \in onCore[cur] /\ onCore' = [onCore EXCEPT ![cur] = @ \ {t}]
    BY <1>4 DEF CoreCycleFinishes
  <2>2. finishedQ' = [finishedQ EXCEPT ![cur] = Append(<<>>, t)]
    BY <1>2, <1>4 DEF CoreCycleFinishes
  <2>3. Append(<<>>, t) = <<t>> /\ <<t>> \in Seq(Tiles) /\ Len(<<t>>) = 1
    OBVIOUS
  <2>4. finishedQ' \in [Cores -> Seq(Tiles)]
    BY <1>1, <2>2, <2>3
  <2>5. finishedQ'[cur] = <<t>> /\ \A c \in Cores \ {cur} : finishedQ'[c] = finishedQ[c]
    BY <1>1, <2>2, <2>3
  <2>6. \A c \in Cores :
          finishedQ'[c] # <<>> => \E u \in Tiles : finishedQ'[c] = <<u>>
    BY <2>5 DEF IInv, StageMatchesCounter
  <2>7. \A c \in Cores : FinishedOnCore(c)' = IF c = cur THEN {t} ELSE FinishedOnCore(c)
    BY <2>3, <2>5 DEF FinishedOnCore
  <2>8. QED
    BY <2>1, <2>4, <2>6, <2>7
<1>5. QED
  BY <1>3, <1>4

(* One visit of the core loop: the tile given back becomes done, and at    *)
(* most one tile of the core, x, finishes.                                 *)
LEMMA CoreCycleStep ==
  ASSUME IInv,
         CoreCycleIdle \/ \E t \in Tiles : CoreCycleFinishes(t)
  PROVE  IInv'
<1>1. PICK X \in SUBSET Tiles :
        /\ X = {} \/ \E t \in onCore[cur] : X = {t}
        /\ onCore' = [onCore EXCEPT ![cur] = @ \ X]
        /\ finishedQ' \in [Cores -> Seq(Tiles)]
        /\ \A c \in Cores : finishedQ'[c] # <<>> => \E t \in Tiles : finishedQ'[c] = <<t>>
        /\ \A c \in Cores : FinishedOnCore(c)' =
                              IF c = cur THEN X ELSE FinishedOnCore(c)
  BY TileFinishes
<1>2. HandBack(cur) /\ EndOfCore
      /\ UNCHANGED <<mode, launched, queue, pending, alloc>>
  BY DEF CoreCycleIdle, CoreCycleFinishes
<1>3. cur \in Cores
  BY DEF IInv, TypeOK
<1>4. /\ done' \subseteq Tiles
      /\ done' = done \cup FinishedOnCore(cur)
      /\ counter' \in [Tiles -> Nat]
      /\ CounterIsOpenParents'
      /\ ready' \cup waiting' = ready \cup waiting
      /\ ready' \cap waiting' = {}
      /\ \A t \in waiting' : counter'[t] # 0
      /\ \A t \in Tiles \ waiting' :
           KernelOf[SubOf[t]] \in launched => counter'[t] = 0
  BY <1>2, <1>3, HandBackCounts
<1>5. \A c \in Cores : /\ onCore'[c] = IF c = cur THEN onCore[c] \ X ELSE onCore[c]
                       /\ FinishedOnCore(c)' = IF c = cur THEN X ELSE FinishedOnCore(c)
  BY <1>1, <1>3 DEF IInv, TypeOK
<1>6. executed' = executed \cup X
  <2>1. executed' = done' \cup UNION {FinishedOnCore(c)' : c \in Cores}
    BY DEF executed
  <2>2. UNION {FinishedOnCore(c)' : c \in Cores}
          = X \cup UNION {FinishedOnCore(c) : c \in Cores \ {cur}}
    BY <1>3, <1>5
  <2>3. UNION {FinishedOnCore(c) : c \in Cores}
          = FinishedOnCore(cur) \cup UNION {FinishedOnCore(c) : c \in Cores \ {cur}}
    BY <1>3
  <2>4. QED
    BY <1>4, <2>1, <2>2, <2>3 DEF executed
<1>7. X \subseteq onCore[cur]
  BY <1>1
<1>8. TypeOK'
  <2>1. /\ phase' \in {"check", "slots", "cores"} /\ iter' \in Slots /\ cur' \in Cores
    BY <1>2, ControlType DEF IInv, TypeOK
  <2>2. clock' \in Nat
    BY <1>2 DEF EndOfCore, IInv, TypeOK
  <2>3. ready' \subseteq Tiles /\ waiting' \subseteq Tiles
    BY <1>4 DEF IInv, TypeOK
  <2>4. onCore' \in [Cores -> SUBSET Tiles]
    BY <1>1, <1>3 DEF IInv, TypeOK
  <2>5. QED
    BY <1>1, <1>2, <1>4, <2>1, <2>2, <2>3, <2>4 DEF IInv, TypeOK
<1>9. TileInOnePlace'
  <2>1. (ready' \cup waiting') \cap executed' = {}
    BY <1>3, <1>4, <1>6, <1>7 DEF IInv, TileInOnePlace
  <2>2. ASSUME NEW c \in Cores
        PROVE  /\ onCore'[c] \cap (ready' \cup waiting' \cup executed') = {}
               /\ FinishedOnCore(c)' \cap done' = {}
    <3>1. onCore[c] \cap (ready \cup waiting \cup executed) = {}
      BY DEF IInv, TileInOnePlace
    <3>2. onCore'[c] \subseteq onCore[c] /\ onCore'[c] \cap X = {}
      BY <1>3, <1>5, <1>7 DEF IInv, TileInOnePlace
    <3>3. FinishedOnCore(c)' \cap done' = {}
      <4>1. CASE c = cur
        <5>1. onCore[cur] \cap (done \cup FinishedOnCore(cur)) = {}
          BY <1>3 DEF IInv, TileInOnePlace, executed
        <5>2. FinishedOnCore(c)' = X
          BY <1>5, <4>1
        <5>3. QED
          BY <1>4, <1>7, <5>1, <5>2
      <4>2. CASE c # cur
        <5>1. FinishedOnCore(c) \cap (done \cup FinishedOnCore(cur)) = {}
          BY <1>3, <4>2 DEF IInv, TileInOnePlace
        <5>2. FinishedOnCore(c)' = FinishedOnCore(c)
          BY <1>5, <4>2
        <5>3. QED
          BY <1>4, <5>1, <5>2
      <4>3. QED
        BY <4>1, <4>2
    <3>4. QED
      BY <1>4, <1>6, <3>1, <3>2, <3>3
  <2>3. ASSUME NEW c \in Cores, NEW d \in Cores \ {c}
        PROVE  (onCore'[c] \cup FinishedOnCore(c)')
                 \cap (onCore'[d] \cup FinishedOnCore(d)') = {}
    <3>1. (onCore[c] \cup FinishedOnCore(c)) \cap (onCore[d] \cup FinishedOnCore(d)) = {}
      BY DEF IInv, TileInOnePlace
    <3>2. \A e \in Cores : onCore'[e] \cup FinishedOnCore(e)'
                             \subseteq onCore[e] \cup FinishedOnCore(e)
      BY <1>5, <1>7
    <3>3. QED
      BY <3>1, <3>2
  <2>4. QED
    BY <1>4, <2>1, <2>2, <2>3 DEF TileInOnePlace
<1>10. StageMatchesCounter'
  <2>1. \A t \in ready' \cup waiting' : KernelOf[SubOf[t]] \in launched
    BY <1>4 DEF IInv, StageMatchesCounter
  <2>2. \A c \in Cores : \A t \in onCore'[c] \cup FinishedOnCore(c)' :
          KernelOf[SubOf[t]] \in launched
    BY <1>5, <1>7 DEF IInv, StageMatchesCounter
  <2>3. \A t \in done' : KernelOf[SubOf[t]] \in launched
    BY <1>3, <1>4 DEF IInv, StageMatchesCounter
  <2>4. QED
    BY <1>1, <1>2, <1>4, <2>1, <2>2, <2>3 DEF StageMatchesCounter
<1>11. QED
  BY <1>4, <1>8, <1>9, <1>10 DEF IInv
-----------------------------------------------------------------------------
LEMMA InitInvariant == Init => IInv
<1> SUFFICES ASSUME Init PROVE IInv
  OBVIOUS
<1>1. 0 \in Slots /\ 0 \in Cores
  BY ShapeAssumption DEF Slots, Cores
<1>2. \A t \in Tiles : Parents(t) \ {} = Parents(t)
                       /\ Cardinality(Parents(t)) \in Nat
  <2>1. \A t \in Tiles : IsFiniteSet(Parents(t))
    BY GraphAssumption, FS_Subset DEF Parents
  <2>2. QED
    BY <2>1, FS_CardinalityType
<1>3. counter \in [Tiles -> Nat] /\ CounterIsOpenParents
  BY <1>2 DEF Init, CounterIsOpenParents
<1>4. TypeOK
  BY <1>1, <1>3, ShapeAssumption, GraphAssumption DEF Init, TypeOK
<1>5. \A c \in Cores : finishedQ[c] = <<>> /\ FinishedOnCore(c) = {}
  BY DEF Init, FinishedOnCore
<1>6. executed = {}
  BY <1>5 DEF Init, executed
<1>7. TileInOnePlace
  BY <1>5, <1>6 DEF Init, TileInOnePlace
<1>8. StageMatchesCounter
  BY <1>5 DEF Init, StageMatchesCounter
<1>9. QED
  BY <1>3, <1>4, <1>7, <1>8 DEF IInv

LEMMA NextInvariant == IInv /\ [Next]_vars => IInv'
<1> SUFFICES ASSUME IInv, [Next]_vars PROVE IInv'
  OBVIOUS
<1>1. ASSUME NEW k \in Kernels, Launch(k) PROVE IInv'
  BY <1>1, LaunchStep
<1>2. CASE Sync \/ Iterate \/ SyncReturns \/ PeekNothing \/ PeekCannotIssue
  BY <1>2, ControlSteps
<1>3. CASE PeekAllocates
  BY <1>3, PeekAllocatesStep
<1>4. ASSUME NEW t \in Tiles, IssueTile(t) PROVE IInv'
  BY <1>4, IssueStep
<1>5. CASE CoreCycleIdle \/ \E t \in Tiles : CoreCycleFinishes(t)
  BY <1>5, CoreCycleStep
<1>6. CASE UNCHANGED vars
  <2>1. TypeOK'
    BY <1>6 DEF IInv, TypeOK, vars, graphVars, loopVars
  <2>2. QED
    BY <1>6, <2>1, NothingMoves DEF vars, graphVars
<1>7. QED
  BY <1>1, <1>2, <1>3, <1>4, <1>5, <1>6 DEF Next

(* The inductive invariant holds in every state the scheduler reaches.     *)
THEOREM InductiveInvariant == Spec => []IInv
<1>1. Init => IInv
  BY InitInvariant
<1>2. IInv /\ [Next]_vars => IInv'
  BY NextInvariant
<1>3. QED
  BY <1>1, <1>2, PTL DEF Spec

(* Queues, slots, counters and loop indices stay in range: core_cycle      *)
(* never indexes a core, slot or partition that does not exist.            *)
THEOREM TypeCorrect == Spec => []TypeOK
<1>1. IInv => TypeOK
  BY DEF IInv
<1>2. QED
  BY <1>1, InductiveInvariant, PTL

(* No tile is issued twice or runs on two cores, whatever the tile graph,  *)
(* the number of cores and the order tiles finish in.                      *)
THEOREM TileIssuedOnce == Spec => []TileInOnePlace
<1>1. IInv => TileInOnePlace
  BY DEF IInv
<1>2. QED
  BY <1>1, InductiveInvariant, PTL

(* Tile::dec_ready_counter and the sorting of add_tile into ready and      *)
(* waiting tiles enforce every dependency of the tile graph.               *)
THEOREM DependenciesRespected == Spec => []ParentsFirst
<1>1. IInv => ParentsFirst
  <2> SUFFICES ASSUME IInv, NEW c \in Cores, NEW t \in onCore[c]
               PROVE  Parents(t) \subseteq done
    BY DEF ParentsFirst
  <2>1. t \in Tiles /\ t \notin waiting /\ KernelOf[SubOf[t]] \in launched
    BY DEF IInv, TypeOK, TileInOnePlace, StageMatchesCounter
  <2>2. counter[t] = 0
    BY <2>1 DEF IInv, StageMatchesCounter
  <2>3. QED
    BY <2>1, <2>2, ParentsFinite DEF IInv, CounterIsOpenParents
<1>2. QED
  BY <1>1, InductiveInvariant, PTL
-----------------------------------------------------------------------------
(* The order of the kernels and the barrier of a synchronisation.          *)

(* refresh_status takes the head off a queue or nothing.                   *)
LEMMA RefreshQueue ==
  ASSUME NEW q \in Seq(Kernels), NEW pnd, NEW alc, NEW rdy, NEW wtg
  PROVE  LET r == refresh_status(q, pnd, alc, rdy, wtg) IN
         /\ r \in Seq(Kernels) /\ Len(q) \in Nat
         /\ \/ r = q /\ (q # <<>> => ~GraphFinished(Head(q), pnd, alc, rdy, wtg))
            \/ /\ q # <<>> /\ GraphFinished(Head(q), pnd, alc, rdy, wtg)
               /\ Len(r) = Len(q) - 1
               /\ \A i \in 1 .. Len(r) : r[i] = q[i + 1]
<1>1. q # <<>> => /\ Tail(q) \in Seq(Kernels) /\ Len(Tail(q)) = Len(q) - 1
                  /\ \A i \in 1 .. Len(Tail(q)) : Tail(q)[i] = q[i + 1]
  OBVIOUS
<1>2. QED
  BY <1>1 DEF refresh_status

LEMMA HeadIsFirst ==
  ASSUME NEW q \in Seq(Kernels), q # <<>>
  PROVE  Head(q) = q[1] /\ 1 \in 1 .. Len(q) /\ q[1] \in Kernels
  OBVIOUS

(* What is left of a queue keeps its order; only a finished head is gone.   *)
LEMMA RefreshShrinks ==
  ASSUME NEW q \in Seq(Kernels), NEW pnd, NEW alc, NEW rdy, NEW wtg, NEW r,
         r = refresh_status(q, pnd, alc, rdy, wtg)
  PROVE  /\ \A i \in 1 .. Len(r) : \E j \in 1 .. Len(q) : r[i] = q[j] /\ i <= j
         /\ (\A i, j \in 1 .. Len(q) : q[i] = q[j] => i = j) =>
              \A i, j \in 1 .. Len(r) : r[i] = r[j] => i = j
         /\ r # <<>> =>
              \/ r = q /\ ~GraphFinished(q[1], pnd, alc, rdy, wtg)
              \/ /\ GraphFinished(q[1], pnd, alc, rdy, wtg)
                 /\ 1 \in 1 .. Len(q) /\ 2 \in 1 .. Len(q) /\ Head(r) = q[2]
<1>1. /\ r \in Seq(Kernels) /\ Len(q) \in Nat /\ Len(r) \in Nat
      /\ \/ r = q /\ (q # <<>> => ~GraphFinished(Head(q), pnd, alc, rdy, wtg))
         \/ /\ q # <<>> /\ GraphFinished(Head(q), pnd, alc, rdy, wtg)
            /\ Len(r) = Len(q) - 1
            /\ \A i \in 1 .. Len(r) : r[i] = q[i + 1]
  BY RefreshQueue
<1>2. q # <<>> => Head(q) = q[1]
  BY HeadIsFirst
<1>3. r # <<>> => Head(r) = r[1] /\ 1 \in 1 .. Len(r)
  BY <1>1, HeadIsFirst
<1>4. CASE r = q /\ (q # <<>> => ~GraphFinished(Head(q), pnd, alc, rdy, wtg))
  BY <1>1, <1>2, <1>4
<1>5. CASE /\ q # <<>> /\ GraphFinished(Head(q), pnd, alc, rdy, wtg)
           /\ Len(r) = Len(q) - 1
           /\ \A i \in 1 .. Len(r) : r[i] = q[i + 1]
  <2>1. \A i \in 1 .. Len(r) : i + 1 \in 1 .. Len(q) /\ r[i] = q[i + 1] /\ i <= i + 1
    BY <1>1, <1>5
  <2>2. ASSUME \A i, j \in 1 .. Len(q) : q[i] = q[j] => i = j,
               NEW i \in 1 .. Len(r), NEW j \in 1 .. Len(r), r[i] = r[j]
        PROVE  i = j
    <3>1. i + 1 = j + 1
      BY <2>1, <2>2
    <3>2. QED
      BY <3>1
  <2>3. r # <<>> => 1 \in 1 .. Len(q) /\ 2 \in 1 .. Len(q) /\ Head(r) = q[2]
    BY <1>1, <1>3, <1>5, <2>1
  <2>4. \A i \in 1 .. Len(r) : \E j \in 1 .. Len(q) : r[i] = q[j] /\ i <= j
    BY <2>1
  <2>5. GraphFinished(q[1], pnd, alc, rdy, wtg)
    BY <1>2, <1>5
  <2>6. (\A i, j \in 1 .. Len(q) : q[i] = q[j] => i = j) =>
              \A i, j \in 1 .. Len(r) : r[i] = r[j] => i = j
    BY <2>2
  <2>7. QED
    BY <2>3, <2>4, <2>5, <2>6
<1>6. QED
  BY <1>1, <1>4, <1>5

(* What refresh_status drops is the head, and it was finished.             *)
LEMMA RefreshDrops ==
  ASSUME NEW q \in Seq(Kernels), NEW pnd, NEW alc, NEW rdy, NEW wtg, NEW r,
         r = refresh_status(q, pnd, alc, rdy, wtg),
         NEW j \in 1 .. Len(q), \A i \in 1 .. Len(r) : r[i] # q[j]
  PROVE  j = 1 /\ GraphFinished(q[1], pnd, alc, rdy, wtg)
<1>1. /\ Len(q) \in Nat /\ Len(r) \in Nat
      /\ \/ r = q
         \/ /\ q # <<>> /\ GraphFinished(Head(q), pnd, alc, rdy, wtg)
            /\ Len(r) = Len(q) - 1
            /\ \A i \in 1 .. Len(r) : r[i] = q[i + 1]
  BY RefreshQueue
<1>2. r # q
  OBVIOUS
<1>3. j # 1 => j - 1 \in 1 .. Len(r) /\ r[j - 1] = q[j]
  BY <1>1, <1>2
<1>4. Head(q) = q[1]
  BY <1>1, <1>2, HeadIsFirst
<1>5. QED
  BY <1>1, <1>2, <1>3, <1>4

(* A kernel that refresh_status calls finished has no tile left to issue.  *)
LEMMA FinishedIsIssued ==
  ASSUME NEW k \in Kernels, NEW rdy, NEW wtg,
         GraphFinished(k, pending, alloc, rdy, wtg),
         NEW t \in KernelTiles(k), t \in rdy \cup wtg
  PROVE  /\ SubOf[t] \notin pending[k]
         /\ \A c \in Cores, l \in Slots : alloc[k][c][l] # SubOf[t]
<1>1. t \in TilesOf(SubOf[t]) /\ SubOf[t] \in Subs
  BY GraphAssumption DEF KernelTiles, TilesOf
<1>2. SubOf[t] # NoSub
  BY <1>1, GraphAssumption
<1>3. QED
  BY <1>1, <1>2 DEF GraphFinished, SubIssued

(* A step that leaves the subgraphs where they are and issues no tile.     *)
LEMMA OrderFrame ==
  ASSUME OrderInv, UNCHANGED <<launched, queue, pending, alloc, Unissued, begun>>
  PROVE  OrderInv'
<1>1. QueuedOnce' /\ SlotsHoldOwn'
  BY DEF OrderInv, QueuedOnce, SlotsHoldOwn
<1>2. PendingUnissued'
  BY DEF OrderInv, PendingUnissued
<1>3. NoTileLost'
  BY DEF OrderInv, NoTileLost, Queue
<1>4. KernelOrder' /\ (NoNullKernel => HeadUnissued')
  BY DEF OrderInv, KernelOrder, HeadUnissued
<1>5. QED
  BY <1>1, <1>2, <1>3, <1>4 DEF OrderInv, NoNullKernel

(* A tile has begun when it was handed back, has finished on a core or is  *)
(* on one.                                                                 *)
LEMMA BegunTiles ==
  ASSUME NEW t
  PROVE  /\ t \in begun <=> \/ t \in done
                           \/ \E c \in Cores : t \in FinishedOnCore(c) \cup onCore[c]
         /\ t \in begun' <=> \/ t \in done'
                            \/ \E c \in Cores : t \in FinishedOnCore(c)' \cup onCore'[c]
<1>1. t \in begun <=> \/ t \in done \/ t \in UNION {FinishedOnCore(c) : c \in Cores}
                     \/ t \in UNION {onCore[c] : c \in Cores}
  BY DEF begun, executed
<1>2. t \in begun' <=> \/ t \in done' \/ t \in UNION {FinishedOnCore(c)' : c \in Cores}
                      \/ t \in UNION {onCore'[c] : c \in Cores}
  BY DEF begun, executed
<1>3. QED
  BY <1>1, <1>2

(* A core that is cycled keeps the tiles it has or hands them back.        *)
LEMMA CoreCycleKeepsOrder ==
  ASSUME IInv, OrderInv, CoreCycleIdle \/ \E t \in Tiles : CoreCycleFinishes(t)
  PROVE  OrderInv'
<1>1. PICK X \in SUBSET Tiles :
        /\ X = {} \/ \E t \in onCore[cur] : X = {t}
        /\ onCore' = [onCore EXCEPT ![cur] = @ \ X]
        /\ \A c \in Cores : FinishedOnCore(c)' =
                              IF c = cur THEN X ELSE FinishedOnCore(c)
  BY TileFinishes
<1>2. HandBack(cur) /\ cur \in Cores /\ onCore \in [Cores -> SUBSET Tiles]
      /\ UNCHANGED <<launched, queue, pending, alloc>>
  BY DEF CoreCycleIdle, CoreCycleFinishes, IInv, TypeOK
<1>3. done' = done \cup FinishedOnCore(cur) /\ Unissued' = Unissued
  BY <1>2, HandBackCounts DEF Unissued
<1>4. \A c \in Cores : onCore'[c] = IF c = cur THEN onCore[c] \ X ELSE onCore[c]
  BY <1>1, <1>2
<1>5. begun' = begun
  <2>1. ASSUME NEW t PROVE t \in begun' => t \in begun
    <3>1. SUFFICES ASSUME t \in begun' PROVE t \in begun
      OBVIOUS
    <3>2. CASE t \in done'
      BY <1>2, <1>3, <3>2, BegunTiles
    <3>3. ASSUME NEW c \in Cores, t \in FinishedOnCore(c)' \cup onCore'[c]
          PROVE  t \in FinishedOnCore(c) \cup onCore[c]
      BY <1>1, <1>4, <3>3
    <3>4. QED
      BY <3>1, <3>2, <3>3, BegunTiles
  <2>2. ASSUME NEW t PROVE t \in begun => t \in begun'
    <3>1. SUFFICES ASSUME t \in begun PROVE t \in begun'
      OBVIOUS
    <3>2. CASE t \in done \cup FinishedOnCore(cur)
      BY <1>3, <3>2, BegunTiles
    <3>3. ASSUME NEW c \in Cores, t \in FinishedOnCore(c) \cup onCore[c],
                 t \notin FinishedOnCore(cur)
          PROVE  t \in FinishedOnCore(c)' \cup onCore'[c]
      <4>1. CASE c = cur
        BY <1>1, <1>4, <3>3, <4>1
      <4>2. CASE c # cur
        BY <1>1, <1>4, <3>3, <4>2
      <4>3. QED
        BY <4>1, <4>2
    <3>4. QED
      BY <3>1, <3>2, <3>3, BegunTiles
  <2>3. QED
    BY <2>1, <2>2
<1>6. QED
  BY <1>2, <1>3, <1>5, OrderFrame

(* TileGraph::allocate_subgraph: a subgraph comes from the pending ones,   *)
(* and what it replaces in the slot had no tile left.                      *)
LEMMA AllocateKeepsOrder ==
  ASSUME IInv, OrderInv, PeekAllocates
  PROVE  OrderInv'
<1> DEFINE h == HeadKernel
<1>1. /\ cur \in Cores /\ iter \in Slots
      /\ pending \in [Kernels -> SUBSET Subs]
      /\ alloc \in [Kernels -> [Cores -> [Slots -> Subs \cup {NoSub}]]]
      /\ queue \in [Partitions -> Seq(Kernels)]
  BY DEF IInv, TypeOK
<1>2. h \in Kernels /\ h \in launched /\ KernelPart[h] = PartitionOf[cur]
  <2>1. PartitionOf[cur] \in Partitions /\ queue[PartitionOf[cur]] # <<>>
    BY <1>1, ShapeAssumption DEF PeekAllocates, CanPeek, HeadQueue
  <2>2. h = queue[PartitionOf[cur]][1] /\ 1 \in 1 .. Len(queue[PartitionOf[cur]])
        /\ h \in Kernels
    BY <1>1, <2>1, HeadIsFirst DEF HeadKernel, HeadQueue
  <2>3. QED
    BY <2>1, <2>2 DEF OrderInv, QueuedOnce
<1>3. PICK s \in Subs \cup {NoSub} :
        /\ alloc' = [alloc EXCEPT ![h][cur][iter] = s]
        /\ \/ s = NoSub /\ pending' = pending
           \/ s \in pending[h] /\ pending' = [pending EXCEPT ![h] = @ \ {s}]
  BY <1>1, <1>2 DEF PeekAllocates, allocate_subgraph, Candidates
<1> HIDE DEF h
<1>4. \A k \in Kernels, c \in Cores, l \in Slots :
        alloc'[k][c][l] = IF k = h /\ c = cur /\ l = iter THEN s ELSE alloc[k][c][l]
  BY <1>1, <1>2, <1>3
<1>5. \A k \in Kernels : /\ pending'[k] \subseteq pending[k]
                         /\ k # h => pending'[k] = pending[k]
                         /\ pending[k] \ {s} \subseteq pending'[k]
  BY <1>1, <1>2, <1>3
<1>6. alloc[h][cur][iter] = NoSub \/ TilesOf(alloc[h][cur][iter]) \cap Unissued = {}
  BY DEF PeekAllocates, SlotFree, CurSub, SubIssued, Unissued, h
<1>7. UNCHANGED <<launched, queue, ready, waiting, onCore, finishedQ, done>>
  BY DEF PeekAllocates
<1>8. Unissued' = Unissued /\ begun' = begun
  BY <1>7 DEF Unissued, begun, executed, FinishedOnCore
<1>9. QueuedOnce' /\ KernelOrder' /\ (NoNullKernel => HeadUnissued')
  BY <1>7, <1>8 DEF OrderInv, QueuedOnce, KernelOrder, HeadUnissued
<1>10. SlotsHoldOwn'
  <2>1. SUFFICES ASSUME NEW k \in Kernels, NEW c \in Cores, NEW l \in Slots,
                        alloc'[k][c][l] # NoSub
                 PROVE  /\ KernelOf[alloc'[k][c][l]] = k /\ alloc'[k][c][l] \notin pending'[k]
                        /\ PartitionOf[c] = KernelPart[k]
    BY DEF SlotsHoldOwn
  <2>2. CASE k = h /\ c = cur /\ l = iter
    <3>1. alloc'[k][c][l] = s /\ s \in pending[h] /\ s \notin pending'[h]
      BY <1>1, <1>2, <1>3, <1>4, <2>1, <2>2
    <3>2. KernelOf[s] = h
      BY <1>2, <3>1 DEF OrderInv, PendingUnissued
    <3>3. QED
      BY <1>2, <2>2, <3>1, <3>2
  <2>3. CASE ~(k = h /\ c = cur /\ l = iter)
    BY <1>4, <1>5, <2>1, <2>3 DEF OrderInv, SlotsHoldOwn
  <2>4. QED
    BY <2>2, <2>3
<1>11. PendingUnissued'
  <2>1. \A k \in Kernels : \A r \in pending'[k] : KernelOf[r] = k
    BY <1>5 DEF OrderInv, PendingUnissued
  <2>2. ASSUME NEW k \in Kernels \ launched, NEW r \in Subs, KernelOf[r] = k
        PROVE  r \in pending'[k]
    BY <1>2, <1>5, <2>2 DEF OrderInv, PendingUnissued
  <2>3. ASSUME NEW k \in launched, NEW r \in pending'[k]
        PROVE  TilesOf(r) \subseteq Unissued
    <3>1. k \in Kernels
      BY DEF IInv, TypeOK
    <3>2. QED
      BY <1>5, <2>3, <3>1 DEF OrderInv, PendingUnissued
  <2>4. QED
    BY <1>7, <1>8, <2>1, <2>2, <2>3 DEF PendingUnissued
<1>12. NoTileLost'
  <2>1. SUFFICES ASSUME NEW t \in Unissued
                 PROVE  LET k == KernelOf[SubOf[t]] IN
                        \/ SubOf[t] \in pending'[k]
                        \/ \E c \in Cores, l \in Slots : alloc'[k][c][l] = SubOf[t]
    BY <1>7, <1>8 DEF OrderInv, NoTileLost, Queue
  <2> DEFINE k == KernelOf[SubOf[t]]
  <2>2. t \in Tiles /\ SubOf[t] \in Subs /\ k \in Kernels
    BY GraphAssumption DEF IInv, TypeOK, Unissued
  <2>3. CASE SubOf[t] \in pending[k]
    <3>1. SubOf[t] \in pending'[k] \/ SubOf[t] = s
      BY <1>5, <2>2, <2>3
    <3>2. SubOf[t] = s => s \in pending[h] /\ k = h
      BY <1>2, <1>3, <2>2, GraphAssumption DEF OrderInv, PendingUnissued
    <3>3. CASE SubOf[t] = s
      <4>1. cur \in Cores /\ iter \in Slots /\ h \in Kernels
        BY <1>1, <1>2
      <4>2. alloc'[h][cur][iter] = s
        BY <1>4, <4>1
      <4>3. QED
        BY <3>2, <3>3, <4>1, <4>2
    <3>4. QED
      BY <3>1, <3>3
  <2>4. ASSUME NEW c \in Cores, NEW l \in Slots, alloc[k][c][l] = SubOf[t]
        PROVE  alloc'[k][c][l] = SubOf[t]
    <3>1. t \in TilesOf(SubOf[t]) /\ SubOf[t] # NoSub
      BY <2>2, GraphAssumption DEF TilesOf
    <3>2. ~(k = h /\ c = cur /\ l = iter)
      BY <1>6, <2>4, <3>1
    <3>3. QED
      BY <1>4, <2>2, <2>4, <3>2
  <2>5. QED
    BY <2>3, <2>4 DEF OrderInv, NoTileLost
<1>13. QED
  BY <1>9, <1>10, <1>11, <1>12 DEF OrderInv

(* Scheduler::get_tile takes a tile of the head kernel, and the head only  *)
(* leaves the queue with its last tile.                                    *)
LEMMA IssueKeepsOrder ==
  ASSUME IInv, OrderInv, NEW t \in Tiles, IssueTile(t)
  PROVE  OrderInv'
<1> DEFINE p == PartitionOf[cur]
           q == queue[p]
           h == HeadKernel
           r == refresh_status(q, pending, alloc, ready', waiting)
<1>1. /\ p \in Partitions /\ cur \in Cores /\ iter \in Slots
      /\ q \in Seq(Kernels) /\ q # <<>>
      /\ queue \in [Partitions -> Seq(Kernels)]
      /\ pending \in [Kernels -> SUBSET Subs]
  BY ShapeAssumption DEF IInv, TypeOK, IssueTile, CanPeek, HeadQueue
<1>2. h = q[1] /\ 1 \in 1 .. Len(q) /\ h \in Kernels /\ h = Head(q)
  BY <1>1, HeadIsFirst DEF HeadKernel, HeadQueue
<1>3. h \in launched /\ KernelPart[h] = p /\ \A i, j \in 1 .. Len(q) : q[i] = q[j] => i = j
  BY <1>1, <1>2 DEF OrderInv, QueuedOnce
<1>4. /\ t \in ready /\ ready' = ready \ {t}
      /\ onCore' = [onCore EXCEPT ![cur] = @ \cup {t}]
      /\ queue' = [queue EXCEPT ![p] = r]
      /\ UNCHANGED <<launched, pending, alloc, waiting, finishedQ, done>>
      /\ SubOf[t] = alloc[h][cur][iter] /\ SubOf[t] \in Subs /\ SubOf[t] # NoSub
  BY GraphAssumption DEF IssueTile, ReadyInSlot, CurSub
<1>5. KernelOf[SubOf[t]] = h /\ SubOf[t] \notin pending[h]
  BY <1>1, <1>2, <1>4 DEF OrderInv, SlotsHoldOwn
<1>6. Unissued' = Unissued \ {t} /\ Unissued' = ready' \cup waiting
  BY <1>4 DEF IInv, TileInOnePlace, Unissued
<1>7. ASSUME NEW x PROVE x \in begun' <=> x \in begun \/ x = t
  <2>1. \A c \in Cores : onCore'[c] = IF c = cur THEN onCore[c] \cup {t} ELSE onCore[c]
    BY <1>1, <1>4 DEF IInv, TypeOK
  <2>2. \A c \in Cores : FinishedOnCore(c)' = FinishedOnCore(c)
    BY <1>4 DEF FinishedOnCore
  <2>3. x \in begun <=> x \in done \/ \E c \in Cores : x \in FinishedOnCore(c) \cup onCore[c]
    BY BegunTiles
  <2>4. x \in begun' <=> x \in done' \/ \E c \in Cores : x \in FinishedOnCore(c)' \cup onCore'[c]
    BY BegunTiles
  <2>5. t \in onCore'[cur]
    BY <1>1, <2>1
  <2>6. x \in begun => x \in begun'
    BY <1>4, <2>1, <2>2, <2>3, <2>4
  <2>7. x \in begun' => x \in begun \/ x = t
    BY <1>4, <2>1, <2>2, <2>3, <2>4
  <2>8. x = t => x \in begun'
    BY <1>1, <2>4, <2>5
  <2>9. QED
    BY <2>6, <2>7, <2>8
<1>8. /\ queue'[p] = r /\ \A o \in Partitions \ {p} : queue'[o] = queue[o]
      /\ queue'[p] \in Seq(Kernels)
  BY <1>1, <1>4, RefreshType
<1> HIDE DEF h, r, q, p
<1>9. /\ \A i \in 1 .. Len(r) : \E j \in 1 .. Len(q) : r[i] = q[j] /\ i <= j
      /\ \A i, j \in 1 .. Len(r) : r[i] = r[j] => i = j
      /\ \A j \in 1 .. Len(q) : \/ \E i \in 1 .. Len(r) : r[i] = q[j]
                                \/ GraphFinished(h, pending, alloc, ready', waiting) /\ j = 1
      /\ r # <<>> =>
           \/ r = q /\ ~GraphFinished(h, pending, alloc, ready', waiting)
           \/ 1 \in 1 .. Len(q) /\ 2 \in 1 .. Len(q) /\ Head(r) = q[2]
  <2>1. q \in Seq(Kernels) /\ r = refresh_status(q, pending, alloc, ready', waiting)
    BY <1>1 DEF r
  <2>2. \A i \in 1 .. Len(r) : \E j \in 1 .. Len(q) : r[i] = q[j] /\ i <= j
    BY <2>1, RefreshShrinks
  <2>3. (\A i, j \in 1 .. Len(q) : q[i] = q[j] => i = j) =>
          \A i, j \in 1 .. Len(r) : r[i] = r[j] => i = j
    BY <2>1, RefreshShrinks
  <2>4. ASSUME NEW j \in 1 .. Len(q), \A i \in 1 .. Len(r) : r[i] # q[j]
        PROVE  j = 1 /\ GraphFinished(q[1], pending, alloc, ready', waiting)
    BY <2>1, <2>4, RefreshDrops
  <2>5. r # <<>> =>
          \/ r = q /\ ~GraphFinished(q[1], pending, alloc, ready', waiting)
          \/ 1 \in 1 .. Len(q) /\ 2 \in 1 .. Len(q) /\ Head(r) = q[2]
    BY <2>1, RefreshShrinks
  <2>6. QED
    BY <1>2, <1>3, <2>2, <2>3, <2>4, <2>5
<1>10. \A x \in Tiles : x \in KernelTiles(h) <=> KernelOf[SubOf[x]] = h
  BY DEF KernelTiles
<1>11. QueuedOnce'
  <2>1. SUFFICES ASSUME NEW o \in Partitions, NEW i \in 1 .. Len(queue'[o])
                 PROVE  /\ queue'[o][i] \in launched /\ KernelPart[queue'[o][i]] = o
                        /\ \A j \in 1 .. Len(queue'[o]) : queue'[o][i] = queue'[o][j] => i = j
    BY <1>4 DEF QueuedOnce
  <2>2. CASE o = p
    <3>1. PICK j \in 1 .. Len(q) : r[i] = q[j]
      BY <1>8, <1>9, <2>1, <2>2
    <3>2. q[j] \in launched /\ KernelPart[q[j]] = p
      BY <1>1, <3>1 DEF OrderInv, QueuedOnce, q
    <3>3. QED
      BY <1>8, <1>9, <2>1, <2>2, <3>1, <3>2
  <2>3. CASE o # p
    BY <1>8, <2>1, <2>3 DEF OrderInv, QueuedOnce
  <2>4. QED
    BY <2>2, <2>3
<1>12. SlotsHoldOwn'
  BY <1>4 DEF OrderInv, SlotsHoldOwn
<1>13. PendingUnissued'
  <2>1. ASSUME NEW k \in launched, NEW s \in pending[k]
        PROVE  TilesOf(s) \subseteq Unissued'
    <3>1. k \in Kernels
      BY DEF IInv, TypeOK
    <3>2. TilesOf(s) \subseteq Unissued /\ KernelOf[s] = k
      BY <2>1, <3>1 DEF OrderInv, PendingUnissued
    <3>3. t \notin TilesOf(s)
      BY <1>5, <2>1, <3>2 DEF TilesOf
    <3>4. QED
      BY <1>6, <3>2, <3>3
  <2>2. QED
    BY <1>4, <2>1 DEF OrderInv, PendingUnissued
<1>14. NoTileLost'
  <2>1. ASSUME NEW x \in Tiles, KernelOf[SubOf[x]] \in launched
        PROVE  x \in Unissued' \cup begun'
    BY <1>6, <1>7, <2>1 DEF OrderInv, NoTileLost
  <2>2. ASSUME NEW x \in Unissued'
        PROVE  /\ KernelOf[SubOf[x]] \in Queue(KernelPart[KernelOf[SubOf[x]]])'
               /\ \/ SubOf[x] \in pending[KernelOf[SubOf[x]]]
                  \/ \E c \in Cores, l \in Slots : alloc[KernelOf[SubOf[x]]][c][l] = SubOf[x]
    <3> DEFINE k == KernelOf[SubOf[x]]
    <3>1. x \in Tiles /\ x \in ready' \cup waiting /\ k \in Kernels /\ KernelPart[k] \in Partitions
      BY <1>6, <2>2, GraphAssumption, ShapeAssumption DEF IInv, TypeOK, Unissued
    <3>2. /\ k \in Queue(KernelPart[k])
          /\ \/ SubOf[x] \in pending[k]
             \/ \E c \in Cores, l \in Slots : alloc[k][c][l] = SubOf[x]
      BY <1>6, <2>2 DEF OrderInv, NoTileLost
    <3>3. CASE KernelPart[k] = p
      <4>1. PICK j \in 1 .. Len(q) : q[j] = k
        BY <3>2, <3>3 DEF Queue, q
      <4>2. k = h => ~GraphFinished(h, pending, alloc, ready', waiting)
        BY <3>1, <3>2, FinishedIsIssued DEF KernelTiles
      <4>3. PICK i \in 1 .. Len(r) : r[i] = k
        <5>1. CASE j = 1
          <6>1. k = h
            BY <1>2, <4>1, <5>1
          <6>2. QED
            BY <1>9, <4>1, <4>2, <6>1
        <5>2. CASE j # 1
          BY <1>9, <4>1, <5>2
        <5>3. QED
          BY <5>1, <5>2
      <4>4. QED
        BY <1>8, <3>2, <3>3, <4>3 DEF Queue
    <3>4. CASE KernelPart[k] # p
      BY <1>8, <3>1, <3>2, <3>4 DEF Queue
    <3>5. QED
      BY <3>3, <3>4
  <2>3. QED
    BY <1>4, <2>1, <2>2 DEF NoTileLost
<1>15. KernelOrder'
  <2>1. SUFFICES ASSUME NEW o \in Partitions, NEW i \in 2 .. Len(queue'[o]), NEW x \in begun'
                 PROVE  x \notin KernelTiles(queue'[o][i])
    BY DEF KernelOrder, KernelTiles
  <2>2. PICK j \in 2 .. Len(queue[o]) : queue'[o][i] = queue[o][j]
    <3>1. CASE o = p
      <4>1. /\ Len(r) \in Nat /\ Len(q) \in Nat /\ i \in 1 .. Len(r)
        BY <1>1, <1>8, <2>1, <3>1
      <4>2. PICK j \in 1 .. Len(q) : r[i] = q[j] /\ i <= j
        BY <1>9, <4>1
      <4>3. j \in 2 .. Len(q)
        BY <1>8, <2>1, <3>1, <4>1, <4>2
      <4>4. QED
        BY <1>8, <3>1, <4>2, <4>3 DEF q
    <3>2. CASE o # p
      BY <1>8, <2>1, <3>2
    <3>3. QED
      BY <3>1, <3>2
  <2>3. KernelTiles(queue[o][j]) \cap begun = {}
    BY DEF OrderInv, KernelOrder
  <2>4. Len(queue[o]) \in Nat /\ j \in 1 .. Len(queue[o]) /\ j # 1
    BY <1>1
  <2>5. queue[o][j] # h
    <3>1. CASE o = p
      BY <1>2, <1>3, <2>4, <3>1 DEF q
    <3>2. CASE o # p
      BY <1>3, <2>4, <3>2 DEF OrderInv, QueuedOnce
    <3>3. QED
      BY <3>1, <3>2
  <2>6. t \notin KernelTiles(queue[o][j])
    BY <1>5, <2>5 DEF KernelTiles
  <2>7. QED
    BY <1>7, <2>1, <2>2, <2>3, <2>6
<1>16. ASSUME NoNullKernel PROVE HeadUnissued'
  <2>1. SUFFICES ASSUME NEW o \in Partitions, queue'[o] # <<>>
                 PROVE  KernelTiles(Head(queue'[o])) \cap Unissued' # {}
    BY DEF HeadUnissued
  <2>2. CASE o # p
    <3>1. queue[o] \in Seq(Kernels) /\ queue[o] # <<>>
      BY <1>1, <1>8, <2>1, <2>2
    <3>2. Head(queue[o]) # h
      BY <1>3, <2>2, <3>1, HeadIsFirst DEF OrderInv, QueuedOnce
    <3>3. t \notin KernelTiles(Head(queue[o]))
      BY <1>5, <3>2 DEF KernelTiles
    <3>4. KernelTiles(Head(queue[o])) \cap Unissued # {}
      BY <1>16, <3>1 DEF OrderInv, HeadUnissued
    <3>5. QED
      BY <1>6, <1>8, <2>2, <3>3, <3>4
  <2>3. CASE o = p /\ r = q /\ ~GraphFinished(h, pending, alloc, ready', waiting)
    <3>1. CASE pending[h] # {}
      <4>1. PICK s \in pending[h] : TRUE
        BY <3>1
      <4>2. s \in Subs /\ KernelOf[s] = h /\ TilesOf(s) \subseteq Unissued
        BY <1>1, <1>2, <1>3, <4>1 DEF OrderInv, PendingUnissued
      <4>3. PICK u \in TilesOf(s) : TRUE
        BY <1>16, <4>2 DEF NoNullKernel
      <4>4. u # t /\ u \in KernelTiles(h)
        BY <1>5, <4>1, <4>2, <4>3 DEF TilesOf, KernelTiles
      <4>5. QED
        BY <1>2, <1>6, <1>8, <2>3, <4>2, <4>3, <4>4
    <3>2. CASE pending[h] = {}
      <4>1. PICK c \in Cores, l \in Slots :
              /\ alloc[h][c][l] # NoSub
              /\ TilesOf(alloc[h][c][l]) \cap (ready' \cup waiting) # {}
        BY <2>3, <3>2 DEF GraphFinished, SubIssued
      <4>2. KernelOf[alloc[h][c][l]] = h
        BY <1>2, <4>1 DEF OrderInv, SlotsHoldOwn
      <4>3. TilesOf(alloc[h][c][l]) \subseteq KernelTiles(h)
        BY <4>2 DEF TilesOf, KernelTiles
      <4>4. QED
        BY <1>2, <1>6, <1>8, <2>3, <4>1, <4>3
    <3>3. QED
      BY <3>1, <3>2
  <2>4. CASE o = p /\ 1 \in 1 .. Len(q) /\ 2 \in 1 .. Len(q) /\ Head(r) = q[2]
    <3>1. q[2] # h /\ q[2] \in launched /\ q[2] \in Kernels
      <4>1. q[2] # h
        BY <1>2, <1>3, <2>4
      <4>2. q[2] \in launched
        BY <1>1, <2>4 DEF OrderInv, QueuedOnce, q
      <4>3. QED
        BY <4>1, <4>2 DEF IInv, TypeOK
    <3>2. KernelTiles(q[2]) \cap begun = {}
      <4>1. 2 \in 2 .. Len(q)
        BY <1>1, <2>4
      <4>2. QED
        BY <1>1, <4>1 DEF OrderInv, KernelOrder, q
    <3>3. PICK s \in Subs : KernelOf[s] = q[2]
      BY <1>16, <3>1 DEF NoNullKernel
    <3>4. PICK u \in TilesOf(s) : TRUE
      BY <1>16, <3>3 DEF NoNullKernel
    <3>5. u \in KernelTiles(q[2]) /\ u # t
      BY <1>5, <3>1, <3>3, <3>4 DEF TilesOf, KernelTiles
    <3>6. u \in Unissued
      BY <3>1, <3>2, <3>5 DEF OrderInv, NoTileLost, KernelTiles
    <3>7. QED
      BY <1>6, <1>8, <2>4, <3>5, <3>6
  <2>5. QED
    BY <1>8, <1>9, <2>1, <2>2, <2>3, <2>4
<1>17. QED
  BY <1>11, <1>12, <1>13, <1>14, <1>15, <1>16 DEF OrderInv, NoNullKernel

(* LAUNCH_KERNEL: every tile of the kernel is in a pending subgraph.       *)
LEMMA LaunchKeepsOrder ==
  ASSUME IInv, OrderInv, NEW k \in Kernels, Launch(k)
  PROVE  OrderInv'
<1> DEFINE p == KernelPart[k]
           q == Append(queue[p], k)
           r == refresh_status(q, pending, alloc, ready', waiting')
<1>1. /\ k \notin launched /\ launched' = launched \cup {k}
      /\ ready' = ready \cup {t \in KernelTiles(k) : counter[t] = 0}
      /\ waiting' = waiting \cup {t \in KernelTiles(k) : counter[t] # 0}
      /\ queue' = [queue EXCEPT ![p] = r]
      /\ UNCHANGED <<pending, alloc, onCore, finishedQ, done>>
  BY DEF Launch
<1>2. /\ p \in Partitions /\ queue[p] \in Seq(Kernels)
      /\ queue \in [Partitions -> Seq(Kernels)]
      /\ pending \in [Kernels -> SUBSET Subs]
      /\ launched \subseteq Kernels
  BY ShapeAssumption DEF IInv, TypeOK
<1>3. /\ q \in Seq(Kernels) /\ q # <<>> /\ Len(q) = Len(queue[p]) + 1
      /\ Len(queue[p]) \in Nat
      /\ q[Len(q)] = k /\ \A i \in 1 .. Len(queue[p]) : q[i] = queue[p][i]
  BY <1>2
<1>4. /\ queue'[p] = r /\ \A o \in Partitions \ {p} : queue'[o] = queue[o]
      /\ r \in Seq(Kernels)
  BY <1>1, <1>2, <1>3, RefreshType
<1>5. Unissued' = Unissued \cup KernelTiles(k) /\ Unissued' = ready' \cup waiting'
  BY <1>1 DEF Unissued
<1>6. begun' = begun
  BY <1>1 DEF begun, executed, FinishedOnCore
<1>7. KernelTiles(k) \cap begun = {} /\ KernelTiles(k) \cap Unissued = {}
  BY <1>1 DEF IInv, StageMatchesCounter, begun, executed, KernelTiles, Unissued
<1>8. ASSUME NEW i \in 1 .. Len(q)
      PROVE  /\ q[i] \in launched' /\ KernelPart[q[i]] = p
             /\ i # Len(q) => i \in 1 .. Len(queue[p]) /\ q[i] \in launched
             /\ \A j \in 1 .. Len(q) : q[i] = q[j] => i = j
  <2>1. \A j \in 1 .. Len(q) : j = Len(q) \/ j \in 1 .. Len(queue[p])
    BY <1>3
  <2>2. \A j \in 1 .. Len(queue[p]) :
          /\ queue[p][j] \in launched /\ KernelPart[queue[p][j]] = p
          /\ \A l \in 1 .. Len(queue[p]) : queue[p][j] = queue[p][l] => j = l
    BY <1>2 DEF OrderInv, QueuedOnce
  <2>3. QED
    BY <1>1, <1>3, <2>1, <2>2
<1> HIDE DEF r, q, p
<1>9. \A i \in 1 .. Len(r) : \E j \in 1 .. Len(q) : r[i] = q[j] /\ i <= j
  BY <1>3, RefreshShrinks DEF r
<1>10. (\A i, j \in 1 .. Len(q) : q[i] = q[j] => i = j) =>
          \A i, j \in 1 .. Len(r) : r[i] = r[j] => i = j
  <2>1. q \in Seq(Kernels) /\ r = refresh_status(q, pending, alloc, ready', waiting')
    BY <1>3 DEF r
  <2>2. QED
    BY <2>1, RefreshShrinks
<1>11. QueuedOnce'
  <2>1. SUFFICES ASSUME NEW o \in Partitions, NEW i \in 1 .. Len(queue'[o])
                 PROVE  /\ queue'[o][i] \in launched' /\ KernelPart[queue'[o][i]] = o
                        /\ \A j \in 1 .. Len(queue'[o]) : queue'[o][i] = queue'[o][j] => i = j
    BY DEF QueuedOnce
  <2>2. CASE o = p
    <3>1. PICK j \in 1 .. Len(q) : r[i] = q[j]
      BY <1>4, <1>9, <2>1, <2>2
    <3>2. q[j] \in launched' /\ KernelPart[q[j]] = p
      BY <1>8
    <3>3. \A l \in 1 .. Len(r) : r[i] = r[l] => i = l
      BY <1>4, <1>8, <1>10, <2>1, <2>2
    <3>4. QED
      BY <1>4, <2>2, <3>1, <3>2, <3>3
  <2>3. CASE o # p
    BY <1>1, <1>4, <2>1, <2>3 DEF OrderInv, QueuedOnce
  <2>4. QED
    BY <2>2, <2>3
<1>12. SlotsHoldOwn'
  BY <1>1 DEF OrderInv, SlotsHoldOwn
<1>13. PendingUnissued'
  <2>1. \A m \in Kernels : \A s \in pending'[m] : KernelOf[s] = m
    BY <1>1 DEF OrderInv, PendingUnissued
  <2>2. \A m \in Kernels \ launched' : \A s \in Subs : KernelOf[s] = m => s \in pending'[m]
    BY <1>1 DEF OrderInv, PendingUnissued
  <2>3. ASSUME NEW m \in launched', NEW s \in pending'[m]
        PROVE  TilesOf(s) \subseteq Unissued'
    <3>1. CASE m = k
      BY <1>1, <1>5, <2>1, <2>3, <3>1 DEF TilesOf, KernelTiles
    <3>2. CASE m \in launched
      BY <1>1, <1>5, <2>3, <3>2 DEF OrderInv, PendingUnissued
    <3>3. QED
      BY <1>1, <2>3, <3>1, <3>2
  <2>4. QED
    BY <2>1, <2>2, <2>3 DEF PendingUnissued
<1>14. ASSUME NEW x \in Unissued'
       PROVE  LET m == KernelOf[SubOf[x]] IN
              /\ x \in Tiles /\ SubOf[x] \in Subs /\ m \in Kernels
              /\ x \in KernelTiles(m)
              /\ \/ SubOf[x] \in pending[m]
                 \/ \E c \in Cores, l \in Slots : alloc[m][c][l] = SubOf[x]
  <2>1. x \in Tiles /\ SubOf[x] \in Subs /\ KernelOf[SubOf[x]] \in Kernels
    BY <1>5, GraphAssumption DEF IInv, TypeOK, Unissued, KernelTiles
  <2>2. x \in KernelTiles(KernelOf[SubOf[x]])
    BY <2>1 DEF KernelTiles
  <2>3. CASE x \in Unissued
    BY <2>1, <2>2, <2>3 DEF OrderInv, NoTileLost
  <2>4. CASE x \in KernelTiles(k)
    BY <1>1, <2>1, <2>2, <2>4 DEF OrderInv, PendingUnissued, KernelTiles
  <2>5. QED
    BY <1>5, <2>3, <2>4
<1>15. ASSUME NEW m \in Kernels, NEW x \in Unissued', KernelOf[SubOf[x]] = m
       PROVE  ~GraphFinished(m, pending, alloc, ready', waiting')
  BY <1>5, <1>14, <1>15, FinishedIsIssued
<1>16. NoTileLost'
  <2>1. ASSUME NEW x \in Tiles, KernelOf[SubOf[x]] \in launched'
        PROVE  x \in Unissued' \cup begun'
    <3>1. CASE KernelOf[SubOf[x]] = k
      BY <1>5, <3>1 DEF KernelTiles
    <3>2. CASE KernelOf[SubOf[x]] \in launched
      BY <1>5, <1>6, <3>2 DEF OrderInv, NoTileLost
    <3>3. QED
      BY <1>1, <2>1, <3>1, <3>2
  <2>2. ASSUME NEW x \in Unissued'
        PROVE  KernelOf[SubOf[x]] \in Queue(KernelPart[KernelOf[SubOf[x]]])'
    <3> DEFINE m == KernelOf[SubOf[x]]
    <3>1. m \in Kernels /\ KernelPart[m] \in Partitions
      BY <1>14, ShapeAssumption
    <3>2. CASE KernelPart[m] = p
      <4>1. PICK j \in 1 .. Len(q) : q[j] = m
        <5>1. CASE x \in Unissued
          <6>1. PICK j \in 1 .. Len(queue[p]) : queue[p][j] = m
            BY <3>2, <5>1 DEF OrderInv, NoTileLost, Queue
          <6>2. QED
            BY <1>3, <6>1
        <5>2. CASE x \in KernelTiles(k)
          <6>1. m = k
            BY <5>2 DEF KernelTiles
          <6>2. QED
            BY <1>3, <6>1
        <5>3. QED
          BY <1>5, <2>2, <5>1, <5>2
      <4>2. PICK i \in 1 .. Len(r) : r[i] = m
        <5>1. SUFFICES ASSUME \A i \in 1 .. Len(r) : r[i] # q[j] PROVE FALSE
          BY <4>1
        <5>2. j = 1 /\ GraphFinished(q[1], pending, alloc, ready', waiting')
          BY <1>3, <5>1, RefreshDrops DEF r
        <5>3. QED
          BY <1>15, <2>2, <3>1, <4>1, <5>2
      <4>3. QED
        BY <1>4, <3>2, <4>2 DEF Queue
    <3>3. CASE KernelPart[m] # p
      <4>1. x \in Unissued
        BY <1>5, <2>2, <3>3 DEF KernelTiles, p
      <4>2. m \in Queue(KernelPart[m])
        BY <4>1 DEF OrderInv, NoTileLost
      <4>3. QED
        BY <1>4, <3>1, <3>3, <4>2 DEF Queue
    <3>4. QED
      BY <3>2, <3>3
  <2>3. QED
    BY <1>1, <1>14, <2>1, <2>2 DEF NoTileLost
<1>17. KernelOrder'
  <2>1. SUFFICES ASSUME NEW o \in Partitions, NEW i \in 2 .. Len(queue'[o])
                 PROVE  KernelTiles(queue'[o][i]) \cap begun = {}
    BY <1>6 DEF KernelOrder, KernelTiles
  <2>2. CASE o # p
    BY <1>4, <2>1, <2>2 DEF OrderInv, KernelOrder
  <2>3. CASE o = p
    <3>1. Len(r) \in Nat /\ Len(q) \in Nat /\ i \in 1 .. Len(r)
      BY <1>3, <1>4, <2>1, <2>3
    <3>2. PICK j \in 1 .. Len(q) : r[i] = q[j] /\ i <= j
      BY <1>9, <3>1
    <3>3. CASE j = Len(q)
      BY <1>3, <1>4, <1>7, <2>3, <3>2, <3>3
    <3>4. CASE j # Len(q)
      <4>1. j \in 2 .. Len(queue[p])
        BY <1>3, <2>1, <3>1, <3>2, <3>4
      <4>2. KernelTiles(queue[p][j]) \cap begun = {}
        BY <1>2, <4>1 DEF OrderInv, KernelOrder
      <4>3. QED
        BY <1>3, <1>4, <1>8, <2>3, <3>2, <3>4, <4>2
    <3>5. QED
      BY <3>3, <3>4
  <2>4. QED
    BY <2>2, <2>3
<1>18. ASSUME NoNullKernel PROVE HeadUnissued'
  <2>1. SUFFICES ASSUME NEW o \in Partitions, queue'[o] # <<>>
                 PROVE  KernelTiles(Head(queue'[o])) \cap Unissued' # {}
    BY DEF HeadUnissued
  <2>2. CASE o # p
    <3>1. KernelTiles(Head(queue[o])) \cap Unissued # {}
      BY <1>4, <1>18, <2>1, <2>2 DEF OrderInv, HeadUnissued
    <3>2. QED
      BY <1>4, <1>5, <2>2, <3>1
  <2>3. CASE o = p
    <3>1. PICK x \in KernelTiles(q[1]) : x \in Unissued'
      <4>1. CASE queue[p] = <<>>
        <5>1. q[1] = k
          BY <1>3, <4>1
        <5>2. PICK s \in Subs : KernelOf[s] = k
          BY <1>18 DEF NoNullKernel
        <5>3. PICK x \in TilesOf(s) : TRUE
          BY <1>18, <5>2 DEF NoNullKernel
        <5>4. x \in KernelTiles(k)
          BY <5>2, <5>3 DEF KernelTiles, TilesOf
        <5>5. QED
          BY <1>5, <5>1, <5>4
      <4>2. CASE queue[p] # <<>>
        <5>1. Head(queue[p]) = q[1]
          BY <1>2, <1>3, <4>2, HeadIsFirst
        <5>2. KernelTiles(Head(queue[p])) \cap Unissued # {}
          BY <1>2, <1>18, <4>2 DEF OrderInv, HeadUnissued
        <5>3. QED
          BY <1>5, <5>1, <5>2
      <4>3. QED
        BY <4>1, <4>2
    <3>2. q[1] \in Kernels /\ Head(q) = q[1]
      BY <1>3, HeadIsFirst
    <3>3. ~GraphFinished(q[1], pending, alloc, ready', waiting')
      BY <1>15, <3>1, <3>2 DEF KernelTiles
    <3>4. r = q
      BY <3>2, <3>3 DEF r, refresh_status
    <3>5. QED
      BY <1>4, <2>3, <3>1, <3>2, <3>4
  <2>4. QED
    BY <2>2, <2>3
<1>19. QED
  BY <1>11, <1>12, <1>13, <1>16, <1>17, <1>18 DEF OrderInv, NoNullKernel
-----------------------------------------------------------------------------
LEMMA OrderInit == Init => OrderInv
<1> SUFFICES ASSUME Init PROVE OrderInv
  OBVIOUS
<1>1. /\ launched = {} /\ ready = {} /\ waiting = {} /\ done = {}
      /\ queue = [p \in Partitions |-> <<>>]
      /\ pending = [k \in Kernels |-> {s \in Subs : KernelOf[s] = k}]
      /\ alloc = [k \in Kernels |-> [c \in Cores |-> [l \in Slots |-> NoSub]]]
      /\ Unissued = {}
  BY DEF Init, Unissued
<1>2. \A p \in Partitions : queue[p] = <<>> /\ Len(queue[p]) = 0
  BY <1>1
<1>3. QueuedOnce /\ SlotsHoldOwn /\ KernelOrder /\ HeadUnissued
  BY <1>1, <1>2 DEF QueuedOnce, SlotsHoldOwn, KernelOrder, HeadUnissued
<1>4. PendingUnissued /\ NoTileLost
  BY <1>1, GraphAssumption DEF PendingUnissued, NoTileLost
<1>5. QED
  BY <1>3, <1>4 DEF OrderInv

LEMMA OrderNext == IInv /\ OrderInv /\ [Next]_vars => OrderInv'
<1> SUFFICES ASSUME IInv, OrderInv, [Next]_vars PROVE OrderInv'
  OBVIOUS
<1>1. ASSUME NEW k \in Kernels, Launch(k) PROVE OrderInv'
  BY <1>1, LaunchKeepsOrder
<1>2. CASE Sync \/ Iterate \/ SyncReturns \/ PeekNothing \/ PeekCannotIssue
           \/ UNCHANGED vars
  <2>1. UNCHANGED <<launched, queue, pending, alloc, ready, waiting, onCore,
                    finishedQ, done>>
    BY <1>2 DEF Sync, Iterate, SyncReturns, PeekNothing, PeekCannotIssue,
                vars, graphVars
  <2>2. UNCHANGED <<Unissued, begun>>
    BY <2>1 DEF Unissued, begun, executed, FinishedOnCore
  <2>3. QED
    BY <2>1, <2>2, OrderFrame
<1>3. CASE PeekAllocates
  BY <1>3, AllocateKeepsOrder
<1>4. ASSUME NEW t \in Tiles, IssueTile(t) PROVE OrderInv'
  BY <1>4, IssueKeepsOrder
<1>5. CASE CoreCycleIdle \/ \E t \in Tiles : CoreCycleFinishes(t)
  BY <1>5, CoreCycleKeepsOrder
<1>6. QED
  BY <1>1, <1>2, <1>3, <1>4, <1>5 DEF Next

(* Where the subgraphs and the kernels that still have tiles to issue are,  *)
(* in every state the scheduler reaches.                                   *)
THEOREM OrderInvariant == Spec => [](IInv /\ OrderInv)
<1>1. Init => IInv /\ OrderInv
  BY InitInvariant, OrderInit
<1>2. (IInv /\ OrderInv) /\ [Next]_vars => (IInv /\ OrderInv)'
  BY NextInvariant, OrderNext
<1>3. QED
  BY <1>1, <1>2, PTL DEF Spec

(* No tile of a kernel runs while a kernel launched before it on the same  *)
(* partition is still in the queue: the cores of a partition, in whatever  *)
(* order they are visited, issue the kernels in launch order.              *)
THEOREM KernelsInOrder == Spec => []KernelOrder
<1>1. OrderInv => KernelOrder
  BY DEF OrderInv
<1>2. QED
  BY <1>1, OrderInvariant, PTL

(* Simulator::running is false only when no launched kernel has a tile     *)
(* left: SchedulerEmpty looks at the head of a queue only, which is enough *)
(* because the head has a tile to issue.                                   *)
LEMMA IdleIsFinished ==
  ASSUME IInv, OrderInv, NoNullKernel, ~running
  PROVE  AllExecuted
<1> SUFFICES ASSUME NEW k \in launched, NEW t \in KernelTiles(k), t \notin executed
             PROVE  FALSE
  BY DEF AllExecuted
<1>1. \A c \in Cores : onCore[c] = {} /\ SchedulerEmpty(c)
  BY DEF running, CoreRunning
<1>2. t \in Tiles /\ KernelOf[SubOf[t]] = k /\ k \in Kernels
  BY DEF KernelTiles, IInv, TypeOK
<1>3. t \in Unissued
  <2>1. t \notin begun
    BY <1>1 DEF begun
  <2>2. QED
    BY <1>2, <2>1 DEF OrderInv, NoTileLost
<1> DEFINE p == KernelPart[k]
           h == Head(queue[p])
<1>4. /\ p \in Partitions /\ queue[p] \in Seq(Kernels) /\ queue[p] # <<>>
      /\ h \in Kernels /\ KernelPart[h] = p
  <2>1. p \in Partitions /\ queue[p] \in Seq(Kernels)
    BY <1>2, ShapeAssumption DEF IInv, TypeOK
  <2>2. k \in Queue(p)
    BY <1>2, <1>3 DEF OrderInv, NoTileLost
  <2>3. queue[p] # <<>>
    BY <2>1, <2>2 DEF Queue
  <2>4. QED
    BY <2>1, <2>3, HeadIsFirst DEF OrderInv, QueuedOnce
<1>5. PICK u \in KernelTiles(h) : u \in Unissued
  BY <1>4 DEF OrderInv, HeadUnissued
<1>6. PICK d \in Cores : PartitionOf[d] = p
  BY <1>2 DEF NoNullKernel
<1>7. pending[h] = {}
  BY <1>1, <1>4, <1>6 DEF SchedulerEmpty
<1>8. KernelOf[SubOf[u]] = h /\ SubOf[u] \in Subs
  BY <1>5, GraphAssumption DEF KernelTiles
<1>9. PICK c \in Cores, l \in Slots : alloc[h][c][l] = SubOf[u]
  BY <1>5, <1>7, <1>8 DEF OrderInv, NoTileLost
<1>10. alloc[h][c][l] # NoSub
  BY <1>8, <1>9, GraphAssumption
<1>11. PartitionOf[c] = p
  BY <1>4, <1>9, <1>10 DEF OrderInv, SlotsHoldOwn
<1>12. QED
  BY <1>1, <1>4, <1>9, <1>10, <1>11 DEF SchedulerEmpty

(* "Device synchronization completed" is true: when Simulator::cycle       *)
(* returns, every tile of every kernel launched before has been executed,  *)
(* provided that no kernel is null (without subgraphs or without tiles)    *)
(* and every kernel goes to a partition that has a core.  MCNullKernel     *)
(* shows that a null kernel breaks it.                                     *)
THEOREM SynchronizationIsBarrier == NoNullKernel => (Spec => SyncIsBarrier)
<1> SUFFICES ASSUME NoNullKernel PROVE Spec => SyncIsBarrier
  OBVIOUS
<1>1. IInv /\ OrderInv /\ [Next]_vars =>
        [mode = "cycling" /\ mode' = "reading" => AllExecuted]_vars
  <2> SUFFICES ASSUME IInv, OrderInv, [Next]_vars, mode = "cycling", mode' = "reading"
               PROVE  AllExecuted
    OBVIOUS
  <2>1. SyncReturns
    BY DEF Next, vars, Launch, Sync, Iterate, PeekNothing, PeekAllocates,
           PeekCannotIssue, IssueTile, CoreCycleIdle, CoreCycleFinishes
  <2>2. QED
    BY <2>1, IdleIsFinished DEF SyncReturns
<1>2. QED
  BY <1>1, OrderInvariant, PTL DEF Spec, SyncIsBarrier
=============================================================================
