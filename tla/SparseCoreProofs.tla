--------------------------- MODULE SparseCoreProofs ---------------------------
(***************************************************************************)
(* Subcores that collect each other's completions and share one table of   *)
(* requests finish no instruction twice, and take none before the loads    *)
(* ahead of it have all their data, for any traces, any number of subcores *)
(* and ports, any order of the answers of memory, and whatever the memory  *)
(* of the ready counters held; save where that memory makes a counter wrap *)
(* to zero.                                                                *)
(***************************************************************************)
EXTENDS SparseCore, FiniteSetTheorems, SequenceTheorems, WellFoundedInduction, TLAPS

(* What the traces are.                                                    *)
LEMMA InstFacts ==
  /\ \A t \in Tiles : Len(Prog[t]) \in Nat /\ \A k \in 1 .. Len(Prog[t]) : <<t, k>> \in Insts
  /\ \A i \in Insts : /\ i[1] \in Tiles /\ i[2] \in 1 .. Len(Prog[i[1]])
                      /\ i[2] \in Nat /\ i[2] >= 1 /\ i = <<i[1], i[2]>>
                      /\ Op(i) \in Opcodes /\ AddrsOf(i) \subseteq Addrs
                      /\ IsFiniteSet(AddrsOf(i)) /\ IsFiniteSet(KeysOf(i))
<1> DEFINE Lines == [op : Opcodes, addrs : SUBSET Addrs]
<1>1. \A t \in Tiles : Prog[t] \in Seq(Lines)
  BY TraceAssumption
<1>2. \A x \in Lines : x.op \in Opcodes /\ x.addrs \subseteq Addrs
  OBVIOUS
<1> HIDE DEF Lines
<1>3. \A t \in Tiles : Len(Prog[t]) \in Nat /\ DOMAIN Prog[t] = 1 .. Len(Prog[t])
  BY <1>1
<1>4. ASSUME NEW i \in Insts
      PROVE  /\ i[1] \in Tiles /\ i[2] \in 1 .. Len(Prog[i[1]])
             /\ i[2] \in Nat /\ i[2] >= 1 /\ i = <<i[1], i[2]>>
             /\ Op(i) \in Opcodes /\ AddrsOf(i) \subseteq Addrs
             /\ IsFiniteSet(AddrsOf(i)) /\ IsFiniteSet(KeysOf(i))
  <2>1. PICK t \in Tiles : i \in {t} \X DOMAIN Prog[t]
    BY DEF Insts
  <2>2. i[1] = t /\ i[2] \in 1 .. Len(Prog[t]) /\ i = <<i[1], i[2]>>
    BY <1>3, <2>1
  <2>3. i[2] \in Nat /\ i[2] >= 1
    BY <1>3, <2>2
  <2>4. Prog[t][i[2]] \in Lines
    BY <1>1, <1>3, <2>2
  <2>5. Op(i) \in Opcodes /\ AddrsOf(i) \subseteq Addrs
    BY <1>2, <2>2, <2>4 DEF Op, AddrsOf
  <2>6. IsFiniteSet(AddrsOf(i))
    BY <2>5, TraceAssumption, FS_Subset
  <2>7. IsFiniteSet(KeysOf(i))
    BY <2>6, FS_Singleton, FS_Product DEF KeysOf
  <2>8. QED
    BY <2>2, <2>3, <2>5, <2>6, <2>7
<1>5. QED
  BY <1>3, <1>4 DEF Insts

(* An instruction joins a queue, ...                                       *)
LEMMA AppendOnce ==
  ASSUME NEW S, NEW q \in Seq(S), NEW x \in S
  PROVE  /\ Append(q, x) \in Seq(S)
         /\ \A n \in DOMAIN Append(q, x) :
              Append(q, x)[n] = x \/ (n \in DOMAIN q /\ Append(q, x)[n] = q[n])
         /\ Once(q) /\ (\A n \in DOMAIN q : q[n] # x) => Once(Append(q, x))
<1> DEFINE a == Append(q, x)
<1>1. /\ a \in Seq(S) /\ Len(q) \in Nat
      /\ DOMAIN a = 1 .. Len(q) + 1 /\ DOMAIN q = 1 .. Len(q)
      /\ a[Len(q) + 1] = x /\ \A i \in 1 .. Len(q) : a[i] = q[i]
  OBVIOUS
<1> HIDE DEF a
<1>2. \A n \in DOMAIN a : (n = Len(q) + 1 /\ a[n] = x) \/ (n \in DOMAIN q /\ a[n] = q[n])
  BY <1>1
<1>3. Once(q) /\ (\A n \in DOMAIN q : q[n] # x) => Once(a)
  BY <1>2 DEF Once
<1>4. QED
  BY <1>1, <1>2, <1>3 DEF a

(* ... and those at its front leave it.                                    *)
LEMMA FrontLeaves ==
  ASSUME NEW S, NEW q \in Seq(S), NEW k \in 0 .. Len(q)
  PROVE  /\ SubSeq(q, k + 1, Len(q)) \in Seq(S)
         /\ \A n \in DOMAIN SubSeq(q, k + 1, Len(q)) :
              \E m \in DOMAIN q : SubSeq(q, k + 1, Len(q))[n] = q[m] /\ m > k
         /\ Once(q) => Once(SubSeq(q, k + 1, Len(q)))
<1> DEFINE b == SubSeq(q, k + 1, Len(q))
<1>1. /\ b \in Seq(S) /\ Len(q) \in Nat /\ k \in Nat
      /\ DOMAIN b = 1 .. Len(q) - k /\ DOMAIN q = 1 .. Len(q)
      /\ \A n \in 1 .. Len(q) - k : b[n] = q[n + k]
  OBVIOUS
<1> HIDE DEF b
<1>2. \A n \in DOMAIN b : n + k \in DOMAIN q /\ n + k > k /\ b[n] = q[n + k]
  BY <1>1
<1>3. \A m, n \in DOMAIN b : m + k = n + k => m = n
  BY <1>1
<1>4. Once(q) => Once(b)
  BY <1>2, <1>3 DEF Once
<1>5. QED
  BY <1>1, <1>2, <1>4 DEF b

(* The least of a set of numbers is among them.                            *)
LEMMA LeastOne ==
  ASSUME NEW S \in SUBSET Nat, S # {}
  PROVE  Min(S) \in S /\ \A m \in S : Min(S) <= m
<1> DEFINE Less == OpToRel(<, Nat)
<1>1. PICK n \in S : \A m \in S : <<m, n>> \notin Less
  BY NatLessThanWellFounded, WFMin
<1> HIDE DEF Less
<1>2. \A m \in S : n <= m
  <2> TAKE m \in S
  <2>1. n \in Nat /\ m \in Nat /\ <<m, n>> \notin Less
    BY <1>1
  <2>2. ~(m < n)
    BY <2>1 DEF OpToRel, Less
  <2>3. QED
    BY <2>1, <2>2
<1>3. QED
  BY <1>2 DEF Min

(* The loop over _dma_finished_queue takes transfers from its front, and   *)
(* those wait for nothing.                                                 *)
LEMMA DrainedFacts ==
  ASSUME TypeOK
  PROVE  /\ Len(Drained) \in 0 .. Len(dmaQ)
         /\ ToSet(Drained) = {dmaQ[m] : m \in 1 .. Len(Drained)}
         /\ \A m \in 1 .. Len(Drained) : m \in DOMAIN dmaQ /\ waiting[dmaQ[m]] = 0
<1> DEFINE I == {m \in 1 .. Len(dmaQ) : waiting[dmaQ[m]] > 0}
           n == SelectInSeq(dmaQ, LAMBDA i : waiting[i] > 0)
<1>1. /\ dmaQ \in Seq(Insts) /\ Len(dmaQ) \in Nat /\ DOMAIN dmaQ = 1 .. Len(dmaQ)
      /\ \A m \in 1 .. Len(dmaQ) : waiting[dmaQ[m]] \in Nat
  BY DEF TypeOK
<1>2. n = IF I # {} THEN Min(I) ELSE 0
  BY DEF SelectInSeq
<1>3. Drained = IF n = 0 THEN dmaQ ELSE SubSeq(dmaQ, 1, n - 1)
  BY DEF Drained
<1> HIDE DEF n
<1>4. CASE I = {}
  <2>1. Drained = dmaQ
    BY <1>2, <1>3, <1>4
  <2>2. \A m \in 1 .. Len(dmaQ) : waiting[dmaQ[m]] = 0
    BY <1>1, <1>4
  <2>3. QED
    BY <1>1, <2>1, <2>2 DEF ToSet
<1>5. CASE I # {}
  <2>1. n \in I /\ \A m \in I : n <= m
    <3> HIDE DEF I
    <3>1. I \in SUBSET Nat
      BY DEF I
    <3>2. QED
      BY <1>2, <1>5, <3>1, LeastOne
  <2>2. n \in 1 .. Len(dmaQ) /\ n # 0
    BY <2>1
  <2>3. /\ Drained = SubSeq(dmaQ, 1, n - 1) /\ Len(Drained) = n - 1
        /\ \A m \in 1 .. n - 1 : Drained[m] = dmaQ[m]
    BY <1>1, <1>3, <2>2
  <2>4. \A m \in 1 .. n - 1 : m \in DOMAIN dmaQ /\ m \notin I
    BY <1>1, <2>1, <2>2
  <2>5. \A m \in 1 .. n - 1 : m \in DOMAIN dmaQ /\ waiting[dmaQ[m]] = 0
    BY <1>1, <2>4
  <2>6. DOMAIN Drained = 1 .. Len(Drained)
    BY <1>1, <2>2, <2>3
  <2>7. ToSet(Drained) = {dmaQ[m] : m \in 1 .. Len(Drained)}
    BY <2>3, <2>6 DEF ToSet
  <2>8. QED
    BY <1>1, <2>2, <2>3, <2>5, <2>7
<1>6. QED
  BY <1>4, <1>5
-----------------------------------------------------------------------------
(* The traces are empty and nothing is under way.                          *)
LEMMA InitInvariant == Init => IInv
<1> SUFFICES ASSUME Init PROVE IInv
  OBVIOUS
<1> USE DEF Init
<1>1. InFlight = {}
  BY DEF InFlight
<1>2. \A i \in Insts : i[1] \in Tiles /\ i[2] \in Nat /\ i[2] >= 1
  BY InstFacts
<1>3. TypeOK
  <2>1. 0 \in Subs
    BY TraceAssumption DEF Subs
  <2>2. \A t \in Tiles : pos[t] <= Len(Prog[t])
    BY InstFacts
  <2>3. pos \in [Tiles -> Nat] /\ waiting \in [Insts -> Nat]
    OBVIOUS
  <2>4. tilesAt \in [Subs -> Seq(Tiles)] /\ busy \in [Subs -> BOOLEAN]
    OBVIOUS
  <2>5. fresh \in [Insts -> 0 .. CounterSize - 1]
    BY TraceAssumption
  <2>6. QED
    BY <1>1, <2>1, <2>2, <2>3, <2>4, <2>5 DEF TypeOK
<1>4. OrderInv
  <2>1. \A i \in Insts : ~(i[2] < pos[i[1]])
    BY <1>2
  <2>2. QED
    BY <2>1 DEF OrderInv, Once
<1>5. StageInv /\ CallInv /\ NoFault
  BY <1>1 DEF StageInv, CallInv, NoFault
<1>6. CountInv
  <2>1. \A i \in Insts : OpenKeys(i) = {}
    BY <1>1 DEF OpenKeys, Calling
  <2>2. \A i \in Insts : waiting[i] = 0
    OBVIOUS
  <2>3. QED
    BY <2>1, <2>2, FS_EmptySet DEF CountInv
<1>7. QED
  BY <1>3, <1>4, <1>5, <1>6 DEF IInv

(* What a step leaves alone that moves tiles only.                         *)
LEMMA SameInsts ==
  ASSUME IInv, UNCHANGED <<instVars, memVars>>
  PROVE  /\ OrderInv' /\ StageInv' /\ CallInv' /\ CountInv' /\ NoFault'
         /\ pos' = pos /\ finished' = finished /\ pipe' = pipe /\ dmaQ' = dmaQ
         /\ waiting' = waiting /\ fresh' = fresh /\ InFlight' = InFlight
<1>1. /\ UNCHANGED <<pos, finished, pipe, dmaQ, waiting, fresh, fault>>
      /\ UNCHANGED <<table, reqQ, net, respQ>>
  BY DEF instVars, memVars
<1>2. InFlight' = InFlight /\ Taken' = Taken
  BY <1>1 DEF InFlight, Taken
<1>3. OrderInv'
  BY <1>1, <1>2 DEF IInv, OrderInv, WrapsToZero
<1>4. StageInv' /\ NoFault'
  BY <1>1 DEF IInv, StageInv, NoFault, WrapsToZero
<1>5. CallInv'
  BY <1>1, <1>2 DEF IInv, CallInv
<1>6. CountInv'
  BY <1>1, <1>2 DEF IInv, CountInv, OpenKeys
<1>7. QED
  BY <1>1, <1>2, <1>3, <1>4, <1>5, <1>6

(* The next subcore, or the end of the loop over them.                     *)
LEMMA NextSubType ==
  ASSUME sub \in Subs, NextSub
  PROVE  pc' \in {"drain", "memory"} /\ sub' \in Subs
<1>1. NSub \in Nat /\ NSub > 0 /\ sub \in 0 .. NSub - 1
  BY TraceAssumption DEF Subs
<1>2. QED
  BY <1>1 DEF NextSub, Subs

(* A tile comes, is given back, or leaves its subcore; or nothing is to be *)
(* issued.                                                                 *)
LEMMA TileSteps ==
  ASSUME IInv,
         (\E t \in Tiles : issue(t)) \/ BeginCycle \/ SkipUnused \/ FinishTile \/ NothingToIssue
  PROVE  IInv'
<1>1. UNCHANGED <<instVars, memVars>>
  BY DEF issue, BeginCycle, SkipUnused, FinishTile, NothingToIssue
<1>2. /\ OrderInv' /\ StageInv' /\ CallInv' /\ CountInv' /\ NoFault'
      /\ pos' = pos /\ finished' = finished /\ pipe' = pipe /\ dmaQ' = dmaQ
      /\ waiting' = waiting /\ fresh' = fresh /\ InFlight' = InFlight
  BY <1>1, SameInsts
<1>3. TypeOK /\ 0 \in Subs
  BY TraceAssumption DEF IInv, Subs
<1> DEFINE TileType ==
      /\ pc \in {"idle", "drain", "tile", "memory"} /\ sub \in Subs
      /\ issued \subseteq Tiles /\ rr \in Subs /\ traced \subseteq Subs
      /\ busy \in [Subs -> BOOLEAN] /\ tilesAt \in [Subs -> Seq(Tiles)]
      /\ finishedQ \in Seq(Tiles) /\ given \subseteq Tiles
<1>4. TileType
  BY <1>3 DEF TypeOK
<1>5. TileType'
  <2>1. ASSUME NEW t \in Tiles, issue(t) PROVE TileType'
    <3>1. /\ UNCHANGED <<pc, sub, finishedQ, given>> /\ issued' = issued \cup {t}
          /\ rr' = (rr + 1) % NSub /\ busy' = [busy EXCEPT ![rr] = TRUE]
          /\ traced' = traced \cup {rr} /\ tilesAt' = [tilesAt EXCEPT ![rr] = Append(@, t)]
      BY <2>1 DEF issue, Selected, NextTurn
    <3>2. rr' \in Subs
      <4>1. rr \in Nat /\ NSub \in Nat /\ NSub > 0
        BY <1>4, TraceAssumption DEF Subs
      <4>2. (rr + 1) % NSub \in 0 .. NSub - 1
        BY <4>1
      <4>3. QED
        BY <3>1, <4>2 DEF Subs
    <3>3. tilesAt[rr] \in Seq(Tiles)
      BY <1>4
    <3>4. Append(tilesAt[rr], t) \in Seq(Tiles)
      BY <3>3
    <3>5. tilesAt' \in [Subs -> Seq(Tiles)] /\ busy' \in [Subs -> BOOLEAN]
      BY <1>4, <3>1, <3>4
    <3>6. QED
      BY <1>4, <3>1, <3>2, <3>5
  <2>2. CASE BeginCycle
    <3>1. /\ pc' = "drain" /\ sub' = 0 /\ UNCHANGED <<issued, rr, busy, traced, tilesAt>>
          /\ finishedQ' = IF finishedQ = <<>> THEN <<>> ELSE Tail(finishedQ)
          /\ given' = IF finishedQ = <<>> THEN given ELSE given \cup {Head(finishedQ)}
      BY <2>2 DEF BeginCycle
    <3>2. finishedQ # <<>> => Tail(finishedQ) \in Seq(Tiles) /\ Head(finishedQ) \in Tiles
      BY <1>4
    <3>3. QED
      BY <1>3, <1>4, <3>1, <3>2
  <2>3. CASE SkipUnused \/ NothingToIssue
    <3>1. NextSub /\ UNCHANGED tileVars
      BY <2>3 DEF SkipUnused, NothingToIssue
    <3>2. QED
      BY <1>4, <3>1, NextSubType DEF tileVars
  <2>4. CASE FinishTile
    <3>1. /\ NextSub /\ UNCHANGED <<issued, rr, traced, given>>
          /\ tilesAt[sub] # <<>> /\ finishedQ' = Append(finishedQ, Head(tilesAt[sub]))
          /\ tilesAt' = [tilesAt EXCEPT ![sub] = Tail(@)]
          /\ busy' = [busy EXCEPT ![sub] = FALSE]
      BY <2>4 DEF FinishTile, AtTile, Current
    <3>2. tilesAt[sub] \in Seq(Tiles)
      BY <1>4
    <3>3. Tail(tilesAt[sub]) \in Seq(Tiles) /\ Head(tilesAt[sub]) \in Tiles
      BY <3>1, <3>2
    <3>4. finishedQ' \in Seq(Tiles)
      BY <1>4, <3>1, <3>3
    <3>5. tilesAt' \in [Subs -> Seq(Tiles)] /\ busy' \in [Subs -> BOOLEAN]
      BY <1>4, <3>1, <3>3
    <3>6. QED
      BY <1>4, <3>1, <3>4, <3>5, NextSubType
  <2>5. QED
    BY <2>1, <2>2, <2>3, <2>4
<1>6. TypeOK'
  BY <1>2, <1>3, <1>5 DEF TypeOK
<1>7. QED
  BY <1>2, <1>6 DEF IInv

-----------------------------------------------------------------------------
(* What a step leaves alone that touches no request.                       *)
LEMMA SameRequests ==
  ASSUME IInv, UNCHANGED memVars, Taken \subseteq Taken'
  PROVE  /\ StageInv' /\ CallInv' /\ InFlight' = InFlight
         /\ \A i \in Insts : OpenKeys(i)' = OpenKeys(i)
<1>1. UNCHANGED <<table, reqQ, net, respQ>>
  BY DEF memVars
<1>2. InFlight' = InFlight
  BY <1>1 DEF InFlight
<1>3. StageInv'
  BY <1>1 DEF IInv, StageInv
<1>4. CallInv'
  BY <1>1, <1>2 DEF IInv, CallInv
<1>5. \A i \in Insts : OpenKeys(i)' = OpenKeys(i)
  BY <1>2 DEF OpenKeys
<1>6. QED
  BY <1>2, <1>3, <1>4, <1>5

(* What waits for no request has none under way.                           *)
LEMMA NothingOpen ==
  ASSUME IInv, NEW i \in Insts, waiting[i] = 0
  PROVE  OpenKeys(i) = {}
<1>1. OpenKeys(i) \subseteq KeysOf(i)
  BY DEF OpenKeys, Calling, IInv, CallInv
<1>2. IsFiniteSet(OpenKeys(i))
  BY <1>1, InstFacts, FS_Subset
<1>3. Cardinality(OpenKeys(i)) = 0
  BY DEF IInv, CountInv
<1>4. QED
  BY <1>2, <1>3, FS_EmptySet

(* What waits in _dma_finished_queue.                                      *)
LEMMA TransfersTaken ==
  ASSUME IInv, NEW m \in DOMAIN dmaQ
  PROVE  /\ dmaQ[m] \in Taken /\ Op(dmaQ[m]) # "COMP"
         /\ Op(dmaQ[m]) = "MOVIN" => dmaQ[m] \notin finished
<1>1. \A n \in DOMAIN dmaQ : /\ dmaQ[n] \in Taken
                             /\ Op(dmaQ[n]) # "COMP"
                             /\ Op(dmaQ[n]) = "MOVIN" => dmaQ[n] \notin finished
  BY DEF IInv, OrderInv
<1>2. QED
  BY <1>1

(* What is finished for the first time runs into an assertion only if the  *)
(* counter of an instruction wrapped to zero.                              *)
LEMMA FailsIfWrapped ==
  ASSUME NEW S \in SUBSET Insts, S \cap finished = {}, FailsToFinish(S)
  PROVE  \E i \in Insts : WrapsToZero(i)
<1>1. PICK i \in S : After(i) \in Insts /\ ready_counter(After(i)) = 0
  BY DEF FailsToFinish
<1>2. i[2] \in Nat /\ i[2] >= 1 /\ i = <<i[1], i[2]>>
  BY InstFacts
<1>3. After(i)[2] > 1 /\ Before(After(i)) = i
  BY <1>2 DEF After, Before
<1>4. Raised(fresh[After(i)]) = 0
  BY <1>1, <1>3 DEF ready_counter
<1>5. QED
  BY <1>1, <1>3, <1>4 DEF WrapsToZero

(* A subcore collects what is through, for all of them.                    *)
LEMMA DrainStep ==
  ASSUME IInv, NEW computed \in BOOLEAN, DrainCompletions(computed)
  PROVE  IInv'
<1> DEFINE D == Drained
           k == Len(Drained)
           old == FinishedHere(Drained)
           new == old \cup IF computed THEN {Head(pipe)} ELSE {}
<1>1. /\ computed => pipe # <<>>
      /\ finished' = finished \cup new /\ fault' = FailsToFinish(new)
      /\ pipe' = IF computed THEN Tail(pipe) ELSE pipe
      /\ dmaQ' = SubSeq(dmaQ, k + 1, Len(dmaQ))
      /\ pc' = "tile" /\ UNCHANGED <<sub, tileVars, pos, waiting, fresh, memVars>>
  BY DEF DrainCompletions
<1>2. TypeOK /\ OrderInv /\ CountInv /\ pipe \in Seq(Insts) /\ dmaQ \in Seq(Insts)
  BY DEF IInv, TypeOK
<1>3. /\ k \in 0 .. Len(dmaQ) /\ old = {i \in {dmaQ[m] : m \in 1 .. k} : Op(i) = "MOVIN"}
      /\ \A m \in 1 .. k : m \in DOMAIN dmaQ /\ waiting[dmaQ[m]] = 0
  BY <1>2, DrainedFacts DEF FinishedHere
<1>4. Taken' = Taken
  BY <1>1 DEF Taken
<1>5. \A i \in old : i \in Taken \ finished /\ Op(i) = "MOVIN" /\ OpenKeys(i) = {}
  <2> TAKE i \in old
  <2>1. PICK m \in 1 .. k : i = dmaQ[m] /\ Op(i) = "MOVIN"
    BY <1>3
  <2>2. m \in DOMAIN dmaQ /\ waiting[dmaQ[m]] = 0
    BY <1>3
  <2>3. dmaQ[m] \in Taken /\ (Op(dmaQ[m]) = "MOVIN" => dmaQ[m] \notin finished)
    BY <2>2, TransfersTaken
  <2>4. i \in Taken \ finished /\ waiting[i] = 0
    BY <2>1, <2>2, <2>3
  <2>5. i \in Insts
    BY <2>4 DEF Taken
  <2>6. QED
    BY <2>1, <2>4, <2>5, NothingOpen
<1>6. /\ dmaQ' \in Seq(Insts) /\ Once(dmaQ')
      /\ \A n \in DOMAIN dmaQ' : \E m \in DOMAIN dmaQ : dmaQ'[n] = dmaQ[m] /\ m > k
  <2>1. Once(dmaQ)
    BY <1>2 DEF OrderInv
  <2>2. QED
    BY <1>1, <1>2, <1>3, <2>1, FrontLeaves
<1> HIDE DEF k, old
<1>7. /\ pipe' \in Seq(Insts) /\ Once(pipe')
      /\ \A n \in DOMAIN pipe' : \E m \in DOMAIN pipe :
           pipe'[n] = pipe[m] /\ (computed => m > 1)
      /\ computed => 1 \in DOMAIN pipe /\ Head(pipe) = pipe[1]
  <2>1. Once(pipe)
    BY <1>2 DEF OrderInv
  <2>2. CASE computed
    <3>1. /\ Len(pipe) \in Nat /\ Len(pipe) > 0 /\ DOMAIN pipe = 1 .. Len(pipe)
          /\ Head(pipe) = pipe[1] /\ 1 \in 0 .. Len(pipe)
          /\ Tail(pipe) = SubSeq(pipe, 1 + 1, Len(pipe))
      BY <1>1, <1>2, <2>2
    <3>2. /\ pipe' \in Seq(Insts) /\ Once(pipe')
          /\ \A n \in DOMAIN pipe' : \E m \in DOMAIN pipe : pipe'[n] = pipe[m] /\ m > 1
      <4>1. pipe' = SubSeq(pipe, 1 + 1, Len(pipe)) /\ pipe \in Seq(Insts)
        BY <1>1, <1>2, <2>2, <3>1
      <4>2. QED
        BY <2>1, <3>1, <4>1, FrontLeaves
    <3>3. QED
      BY <3>1, <3>2
  <2>3. CASE ~computed
    BY <1>1, <1>2, <2>1, <2>3
  <2>4. QED
    BY <2>2, <2>3
<1>8. computed => Head(pipe) \in Taken \ finished /\ Op(Head(pipe)) = "COMP"
  BY <1>2, <1>7 DEF OrderInv
<1>9. new \subseteq Taken \ finished /\ Taken \subseteq Insts
  BY <1>5, <1>8 DEF Taken
<1>10. NoFault'
  <2> HIDE DEF new
  <2>1. new \subseteq Insts /\ new \cap finished = {}
    BY <1>9
  <2>2. fault' => \E i \in Insts : WrapsToZero(i)
    BY <1>1, <2>1, FailsIfWrapped
  <2>3. QED
    BY <1>1, <2>2 DEF NoFault, WrapsToZero
<1>11. OrderInv'
  <2>1. /\ finished' \subseteq Taken'
        /\ \A i \in Insts : i[2] < pos'[i[1]] /\ ~WrapsToZero(After(i))' => i \in finished'
    BY <1>1, <1>2, <1>4, <1>9 DEF OrderInv, WrapsToZero
  <2>2. ASSUME NEW n \in DOMAIN pipe'
        PROVE  pipe'[n] \in Taken' \ finished' /\ Op(pipe'[n]) = "COMP"
    <3>1. PICK m \in DOMAIN pipe : pipe'[n] = pipe[m] /\ (computed => m > 1)
      BY <1>7
    <3>2. pipe[m] \in Taken \ finished /\ Op(pipe[m]) = "COMP"
      BY <1>2 DEF OrderInv
    <3>3. pipe[m] \notin old
      BY <1>5, <3>2
    <3>4. computed => pipe[m] # Head(pipe)
      <4>1. computed => m # 1
        BY <1>2, <3>1
      <4>2. QED
        BY <1>2, <1>7, <4>1 DEF OrderInv, Once
    <3>5. QED
      BY <1>1, <1>4, <3>1, <3>2, <3>3, <3>4
  <2>3. ASSUME NEW n \in DOMAIN dmaQ'
        PROVE  /\ dmaQ'[n] \in Taken' /\ Op(dmaQ'[n]) # "COMP"
               /\ Op(dmaQ'[n]) = "MOVIN" => dmaQ'[n] \notin finished'
    <3>1. PICK m \in DOMAIN dmaQ : dmaQ'[n] = dmaQ[m] /\ m > k
      BY <1>6
    <3>2. /\ dmaQ[m] \in Taken /\ Op(dmaQ[m]) # "COMP"
          /\ Op(dmaQ[m]) = "MOVIN" => dmaQ[m] \notin finished
      BY TransfersTaken
    <3>3. dmaQ[m] \notin old
      <4> SUFFICES ASSUME dmaQ[m] \in old PROVE FALSE
        OBVIOUS
      <4>1. PICK l \in 1 .. k : dmaQ[m] = dmaQ[l]
        BY <1>3
      <4>2. l = m
        BY <1>2, <1>3, <4>1 DEF OrderInv, Once
      <4>3. QED
        BY <1>2, <1>3, <3>1, <4>1, <4>2
    <3>4. computed => dmaQ[m] # Head(pipe)
      BY <1>8, <3>2
    <3>5. QED
      BY <1>1, <1>4, <3>1, <3>2, <3>3, <3>4
  <2>4. QED
    BY <1>6, <1>7, <2>1, <2>2, <2>3 DEF OrderInv
<1>12. /\ StageInv' /\ CallInv' /\ InFlight' = InFlight
       /\ \A i \in Insts : OpenKeys(i)' = OpenKeys(i)
  BY <1>1, <1>4, SameRequests
<1>13. CountInv'
  <2>1. \A i \in Insts : waiting'[i] = Cardinality(OpenKeys(i)')
    BY <1>1, <1>2, <1>12 DEF CountInv
  <2>2. ASSUME NEW i \in finished', Op(i) = "MOVIN" PROVE OpenKeys(i)' = {}
    <3>1. i \in finished \/ i \in new
      BY <1>1
    <3>2. i \in Insts
      BY <1>2, <1>9, <3>1 DEF TypeOK
    <3>3. i \in finished \/ i \in old
      BY <1>8, <2>2, <3>1
    <3>4. OpenKeys(i) = {}
      BY <1>2, <1>5, <2>2, <3>3 DEF CountInv
    <3>5. QED
      BY <1>12, <3>2, <3>4
  <2>3. QED
    BY <2>1, <2>2 DEF CountInv
<1>14. TypeOK'
  <2>1. finished' \subseteq Insts
    BY <1>1, <1>2, <1>9 DEF TypeOK
  <2>2. QED
    BY <1>1, <1>2, <1>6, <1>7, <1>12, <2>1 DEF TypeOK, tileVars
<1>15. QED
  BY <1>10, <1>11, <1>12, <1>13, <1>14 DEF IInv

-----------------------------------------------------------------------------
(* get_instructions: the next instruction of the tile has not been taken,  *)
(* and is taken when those before it are finished, if their counters did   *)
(* not wrap.                                                               *)
LEMMA TakeNext ==
  ASSUME IInv, AtTile, ~Emptied, pos' = [pos EXCEPT ![Current] = @ + 1]
  PROVE  /\ inst \in Insts \ Taken /\ Taken' = Taken \cup {inst} /\ Taken \subseteq Insts
         /\ pos' \in [Tiles -> Nat] /\ \A t \in Tiles : pos'[t] <= Len(Prog[t])
         /\ is_ready(inst) => \A i \in Insts :
              i[2] < pos'[i[1]] /\ ~WrapsToZero(After(i)) => i \in finished
<1> DEFINE c == Current
           n == pos[c] + 1
<1>1. TypeOK /\ OrderInv
  BY DEF IInv
<1>2. c \in Tiles
  <2>1. tilesAt[sub] \in Seq(Tiles) /\ tilesAt[sub] # <<>>
    BY <1>1 DEF TypeOK, AtTile
  <2>2. QED
    BY <2>1 DEF Current
<1>3. /\ pos \in [Tiles -> Nat] /\ pos[c] \in Nat /\ pos[c] < Len(Prog[c])
      /\ \A t \in Tiles : Len(Prog[t]) \in Nat /\ pos[t] <= Len(Prog[t])
  <2>1. /\ pos \in [Tiles -> Nat] /\ pos[c] \in Nat
        /\ \A t \in Tiles : Len(Prog[t]) \in Nat /\ pos[t] <= Len(Prog[t])
    BY <1>1, <1>2, InstFacts DEF TypeOK
  <2>2. pos[c] # Len(Prog[c])
    BY DEF Emptied
  <2>3. QED
    BY <1>2, <2>1, <2>2
<1>4. inst = <<c, n>> /\ n \in 1 .. Len(Prog[c])
  BY <1>2, <1>3 DEF inst
<1> HIDE DEF c
<1>5. inst \in Insts /\ inst[1] = c /\ inst[2] = n
  BY <1>2, <1>4, InstFacts
<1>6. /\ pos' \in [Tiles -> Nat]
      /\ \A t \in Tiles : pos'[t] = IF t = c THEN n ELSE pos[t]
  BY <1>2, <1>3 DEF c
<1>7. \A t \in Tiles : pos'[t] <= Len(Prog[t])
  BY <1>3, <1>6
<1>8. inst \notin Taken /\ Taken \subseteq Insts
  BY <1>3, <1>5 DEF Taken
<1>9. \A i \in Insts : /\ i[1] \in Tiles /\ i[2] \in Nat /\ i[2] >= 1 /\ i = <<i[1], i[2]>>
  BY InstFacts
<1>10. ASSUME NEW i \in Insts PROVE i[2] <= pos'[i[1]] <=> i[2] <= pos[i[1]] \/ i = inst
  <2>1. CASE i[1] # c
    BY <1>5, <1>6, <1>9, <2>1
  <2>2. CASE i[1] = c
    <3>1. i = inst <=> i[2] = n
      BY <1>4, <1>5, <1>9, <2>2
    <3>2. QED
      BY <1>3, <1>6, <1>9, <2>2, <3>1
  <2>3. QED
    BY <2>1, <2>2
<1>11. Taken' = Taken \cup {inst}
  BY <1>5, <1>10 DEF Taken
<1>12. ASSUME is_ready(inst), NEW i \in Insts, i[2] < pos'[i[1]], ~WrapsToZero(After(i))
       PROVE  i \in finished
  <2>1. CASE i[2] < pos[i[1]]
    BY <1>1, <1>12, <2>1 DEF OrderInv
  <2>2. CASE ~(i[2] < pos[i[1]])
    <3>1. i[1] = c /\ i[2] = n - 1
      BY <1>3, <1>6, <1>9, <1>12, <2>2
    <3>2. inst[2] # 1 /\ inst[2] > 1
      BY <1>5, <1>9, <3>1
    <3>3. After(i) = inst /\ Before(inst) = i
      <4>1. inst = <<c, n>> /\ i = <<c, n - 1>> /\ n - 1 + 1 = n
        BY <1>3, <1>4, <1>9, <3>1
      <4>2. QED
        BY <4>1 DEF After, Before
    <3>4. Raised(fresh[inst]) # 0
      BY <1>12, <3>2, <3>3 DEF WrapsToZero
    <3>5. QED
      BY <1>12, <3>2, <3>3, <3>4 DEF is_ready, ready_counter
  <2>3. QED
    BY <2>1, <2>2
<1>13. QED
  BY <1>5, <1>6, <1>7, <1>8, <1>11, <1>12

(* An instruction that joins a queue is not in it already.                 *)
LEMMA NewToQueues ==
  ASSUME IInv, NEW i, i \notin Taken
  PROVE  /\ \A n \in DOMAIN pipe : pipe[n] # i
         /\ \A n \in DOMAIN dmaQ : dmaQ[n] # i
         /\ i \notin finished
<1>1. \A n \in DOMAIN pipe : pipe[n] \in Taken
  BY DEF IInv, OrderInv
<1>2. \A n \in DOMAIN dmaQ : dmaQ[n] \in Taken
  BY TransfersTaken
<1>3. finished \subseteq Taken
  BY DEF IInv, OrderInv
<1>4. QED
  BY <1>1, <1>2, <1>3

(* What taking an instruction does besides what depends on its opcode.     *)
LEMMA TakeFrame ==
  ASSUME IInv, NEW op \in Opcodes, Issuing(op)
  PROVE  /\ inst \in Insts \ Taken /\ Taken' = Taken \cup {inst} /\ Taken \subseteq Insts
         /\ Op(inst) = op
         /\ pos' \in [Tiles -> Nat] /\ \A t \in Tiles : pos'[t] <= Len(Prog[t])
         /\ \A i \in Insts : i[2] < pos'[i[1]] /\ ~WrapsToZero(After(i))' => i \in finished
         /\ fresh' = fresh
         /\ pc' \in {"drain", "memory"} /\ sub' \in Subs
         /\ UNCHANGED <<issued, rr, busy, traced, tilesAt, finishedQ, given>>
<1>1. /\ AtTile /\ ~Emptied /\ Op(inst) = op /\ is_ready(inst)
      /\ pos' = [pos EXCEPT ![Current] = @ + 1] /\ NextSub /\ UNCHANGED <<tileVars, fresh>>
  BY DEF Issuing
<1>2. sub \in Subs
  BY DEF IInv, TypeOK
<1>3. pc' \in {"drain", "memory"} /\ sub' \in Subs
  BY <1>1, <1>2, NextSubType
<1>4. \A i \in Insts : i[2] < pos'[i[1]] /\ ~WrapsToZero(After(i)) => i \in finished
  BY <1>1, TakeNext
<1>5. \A i \in Insts : i[2] < pos'[i[1]] /\ ~WrapsToZero(After(i))' => i \in finished
  BY <1>1, <1>4 DEF WrapsToZero
<1>6. QED
  BY <1>1, <1>3, <1>5, TakeNext DEF tileVars

(* A computation goes to the pipeline.                                     *)
LEMMA ComputeStep ==
  ASSUME IInv, IssueCompute
  PROVE  IInv'
<1>1. /\ Issuing("COMP") /\ "COMP" \in Opcodes /\ pipe' = Append(pipe, inst)
      /\ UNCHANGED <<finished, dmaQ, waiting, fault, memVars>>
  BY DEF IssueCompute, Opcodes
<1>2. /\ inst \in Insts \ Taken /\ Taken' = Taken \cup {inst} /\ Taken \subseteq Insts
      /\ Op(inst) = "COMP"
      /\ pos' \in [Tiles -> Nat] /\ \A t \in Tiles : pos'[t] <= Len(Prog[t])
      /\ \A i \in Insts : i[2] < pos'[i[1]] /\ ~WrapsToZero(After(i))' => i \in finished
      /\ fresh' = fresh
      /\ pc' \in {"drain", "memory"} /\ sub' \in Subs
      /\ UNCHANGED <<issued, rr, busy, traced, tilesAt, finishedQ, given>>
  BY <1>1, TakeFrame
<1> DEFINE i == inst
<1> HIDE DEF i
<1>3. /\ StageInv' /\ CallInv' /\ InFlight' = InFlight
      /\ \A j \in Insts : OpenKeys(j)' = OpenKeys(j)
  BY <1>1, <1>2, SameRequests
<1>4. TypeOK /\ OrderInv /\ CountInv /\ pipe \in Seq(Insts)
  BY DEF IInv, TypeOK
<1>5. /\ pipe' \in Seq(Insts) /\ Once(pipe')
      /\ \A n \in DOMAIN pipe' : pipe'[n] = i \/ (n \in DOMAIN pipe /\ pipe'[n] = pipe[n])
  BY <1>1, <1>2, <1>4, AppendOnce, NewToQueues DEF OrderInv, i
<1>6. i \in Taken' \ finished /\ Op(i) = "COMP"
  BY <1>2, NewToQueues DEF i
<1>7. OrderInv'
  <2>1. \A n \in DOMAIN pipe' : pipe'[n] \in Taken' \ finished' /\ Op(pipe'[n]) = "COMP"
    BY <1>1, <1>2, <1>4, <1>5, <1>6 DEF OrderInv
  <2>2. \A n \in DOMAIN dmaQ' : /\ dmaQ'[n] \in Taken'
                                /\ Op(dmaQ'[n]) # "COMP"
                                /\ Op(dmaQ'[n]) = "MOVIN" => dmaQ'[n] \notin finished'
    BY <1>1, <1>2, TransfersTaken
  <2>3. finished' \subseteq Taken' /\ Once(dmaQ')
    BY <1>1, <1>2, <1>4 DEF OrderInv
  <2>4. QED
    BY <1>1, <1>2, <1>5, <2>1, <2>2, <2>3 DEF OrderInv
<1>8. CountInv'
  <2>1. \A j \in Insts : waiting'[j] = Cardinality(OpenKeys(j)')
    BY <1>1, <1>3, <1>4 DEF CountInv
  <2>2. \A j \in finished' : j \in Insts /\ (Op(j) = "MOVIN" => OpenKeys(j)' = {})
    BY <1>1, <1>3, <1>4 DEF CountInv, TypeOK
  <2>3. QED
    BY <2>1, <2>2 DEF CountInv
<1>9. TypeOK'
  BY <1>1, <1>2, <1>3, <1>4, <1>5 DEF TypeOK
<1>10. NoFault'
  BY <1>1, <1>2 DEF IInv, NoFault, WrapsToZero
<1>11. QED
  BY <1>3, <1>7, <1>8, <1>9, <1>10 DEF IInv

-----------------------------------------------------------------------------
(* registerMemfetch, for all addresses of a transfer that has just been    *)
(* taken: it is called back once for each.                                 *)
LEMMA RegisterStep ==
  ASSUME IInv, NEW i \in Insts \ Taken, Op(i) \in {"MOVIN", "MOVOUT"},
         Taken' = Taken \cup {i}, table' = Registered(i), UNCHANGED <<reqQ, net, respQ>>
  PROVE  /\ InFlight' \subseteq Requests /\ StageInv' /\ CallInv'
         /\ OpenKeys(i) = {}
         /\ \A j \in Insts : OpenKeys(j)' = IF j = i THEN KeysOf(i) ELSE OpenKeys(j)
<1> DEFINE Mine == KeysOf(i)
           Rest == {w \in table : w.key \notin Mine}
           Calls(k) == {i} \cup UNION {w.calls : w \in {w \in table : w.key = k}}
           Joined(k) == [key |-> k, calls |-> Calls(k)]
           Others == reqQ \cup net \cup respQ
<1>1. /\ InFlight = table \cup Others /\ InFlight' = table' \cup Others
      /\ table \cap Others = {} /\ InFlight \subseteq Requests
  BY DEF InFlight, IInv, StageInv, TypeOK
<1>2. table' = Rest \cup {Joined(k) : k \in Mine}
  <2>1. Mine = {<<a, Op(i)>> : a \in AddrsOf(i)}
    BY DEF KeysOf
  <2>2. QED
    BY <2>1 DEF Registered
<1>3. Mine \subseteq Keys
  BY InstFacts DEF KeysOf, Keys
<1>4. \A w \in InFlight : w.calls \subseteq Insts /\ w.key \in Keys
  BY <1>1 DEF Requests
<1>5. /\ \A w \in InFlight : w.calls # {} /\ \A j \in w.calls : j \in Taken /\ w.key \in KeysOf(j)
      /\ \A w, v \in InFlight : w.key = v.key /\ w.calls \cap v.calls # {} => w = v
      /\ \A w, v \in table : w.key = v.key => w = v
  BY DEF IInv, CallInv
<1>6. \A w \in InFlight : i \notin w.calls
  BY <1>5
<1>7. \A k : /\ Joined(k).key = k /\ Joined(k).calls = Calls(k) /\ i \in Calls(k)
             /\ \A j \in Calls(k) : j = i \/ \E w \in table : w.key = k /\ j \in w.calls
  OBVIOUS
<1>8. \A k : \A w \in table : w.key = k => w.calls \subseteq Calls(k)
  OBVIOUS
<1>9. \A k \in Mine : Joined(k) \in Requests
  <2> TAKE k \in Mine
  <2>1. Calls(k) \subseteq Insts /\ k \in Keys
    BY <1>1, <1>3, <1>4
  <2>2. QED
    BY <2>1 DEF Requests
<1> HIDE DEF Mine, Joined, Calls
<1>10. ASSUME NEW w \in InFlight'
       PROVE  \/ w \in InFlight /\ (w \in table => w.key \notin Mine)
              \/ \E k \in Mine : w = Joined(k)
  BY <1>1, <1>2
<1>11. /\ \A w \in Others : w \in InFlight' /\ w \notin table
       /\ \A w \in table : w.key \notin Mine => w \in InFlight'
       /\ \A k \in Mine : Joined(k) \in table' /\ Joined(k) \in InFlight' /\ Joined(k) \notin InFlight
  BY <1>1, <1>2, <1>6, <1>7
<1>12. InFlight' \subseteq Requests
  BY <1>1, <1>9, <1>10
<1>13. StageInv'
  <2>1. table' \cap Others = {}
    BY <1>1, <1>2, <1>11
  <2>2. QED
    BY <2>1 DEF StageInv, IInv
<1>14. ASSUME NEW w \in InFlight'
       PROVE  w.calls # {} /\ \A j \in w.calls : j \in Taken' /\ w.key \in KeysOf(j)
  <2>1. CASE w \in InFlight
    BY <1>5, <2>1
  <2>2. CASE \E k \in Mine : w = Joined(k)
    <3>1. PICK k \in Mine : w = Joined(k)
      BY <2>2
    <3>2. w.key = k /\ w.calls = Calls(k) /\ i \in Calls(k)
      BY <1>7, <3>1
    <3>3. ASSUME NEW j \in Calls(k) PROVE j \in Taken' /\ k \in KeysOf(j)
      <4>1. CASE j = i
        BY <4>1 DEF Mine
      <4>2. CASE \E v \in table : v.key = k /\ j \in v.calls
        BY <1>1, <1>5, <4>2
      <4>3. QED
        BY <1>7, <4>1, <4>2
    <3>4. QED
      BY <3>2, <3>3
  <2>3. QED
    BY <1>10, <2>1, <2>2
<1>15. ASSUME NEW k \in Mine, NEW v \in InFlight', v.key = k, v.calls \cap Calls(k) # {}
       PROVE  v = Joined(k)
  <2>1. CASE \E l \in Mine : v = Joined(l)
    BY <1>7, <1>15, <2>1
  <2>2. CASE v \in InFlight /\ (v \in table => v.key \notin Mine)
    <3>1. v \notin table
      BY <1>15, <2>2
    <3>2. PICK j \in Calls(k) : j \in v.calls
      BY <1>15
    <3>3. j # i
      BY <1>6, <2>2, <3>2
    <3>4. PICK u \in table : u.key = k /\ j \in u.calls
      BY <1>7, <3>3
    <3>5. u = v
      BY <1>1, <1>5, <1>15, <2>2, <3>2, <3>4
    <3>6. QED
      BY <3>1, <3>5
  <2>3. QED
    BY <1>10, <2>1, <2>2
<1>16. ASSUME NEW w \in InFlight', NEW v \in InFlight', w.key = v.key, w.calls \cap v.calls # {}
       PROVE  w = v
  <2>1. CASE w \in InFlight /\ v \in InFlight
    BY <1>5, <1>16, <2>1
  <2>2. CASE \E k \in Mine : w = Joined(k)
    BY <1>7, <1>15, <1>16, <2>2
  <2>3. CASE \E k \in Mine : v = Joined(k)
    BY <1>7, <1>15, <1>16, <2>3
  <2>4. QED
    BY <1>10, <2>1, <2>2, <2>3
<1>17. ASSUME NEW w \in table', NEW v \in table', w.key = v.key
       PROVE  w = v
  <2>1. CASE w \in Rest /\ v \in Rest
    BY <1>5, <1>17, <2>1
  <2>2. \A k \in Mine : Joined(k).key = k
    BY <1>7
  <2>3. QED
    BY <1>2, <1>17, <2>1, <2>2
<1>18. CallInv'
  BY <1>14, <1>16, <1>17 DEF CallInv
<1>19. OpenKeys(i) = {}
  BY <1>6 DEF OpenKeys, Calling
<1>20. \A j \in Insts : /\ \A x : x \in OpenKeys(j)' <=>
                                    \E w \in InFlight' : x = w.key /\ j \in w.calls
                        /\ \A x : x \in OpenKeys(j) <=>
                                    \E w \in InFlight : x = w.key /\ j \in w.calls
  BY DEF OpenKeys, Calling
<1>21. OpenKeys(i)' = Mine
  <2>1. ASSUME NEW x \in Mine PROVE x \in OpenKeys(i)'
    BY <1>7, <1>11, <1>20
  <2>2. ASSUME NEW x \in OpenKeys(i)' PROVE x \in Mine
    <3>1. PICK w \in InFlight' : x = w.key /\ i \in w.calls
      BY <1>20
    <3>2. PICK k \in Mine : w = Joined(k)
      BY <1>6, <1>10, <3>1
    <3>3. QED
      BY <1>7, <3>1, <3>2
  <2>3. QED
    BY <2>1, <2>2
<1>22. ASSUME NEW j \in Insts, j # i PROVE OpenKeys(j)' = OpenKeys(j)
  <2>1. ASSUME NEW x \in OpenKeys(j)' PROVE x \in OpenKeys(j)
    <3>1. PICK w \in InFlight' : x = w.key /\ j \in w.calls
      BY <1>20
    <3>2. CASE w \in InFlight
      BY <1>20, <3>1, <3>2
    <3>3. CASE \E k \in Mine : w = Joined(k)
      <4>1. PICK k \in Mine : w = Joined(k)
        BY <3>3
      <4>2. x = k /\ j \in Calls(k)
        BY <1>7, <3>1, <4>1
      <4>3. \E u \in table : u.key = k /\ j \in u.calls
        BY <1>7, <1>22, <4>2
      <4>4. QED
        BY <1>1, <1>20, <4>2, <4>3
    <3>4. QED
      BY <1>10, <3>2, <3>3
  <2>2. ASSUME NEW x \in OpenKeys(j) PROVE x \in OpenKeys(j)'
    <3>1. PICK w \in InFlight : x = w.key /\ j \in w.calls
      BY <1>20
    <3>2. CASE w \in table /\ w.key \in Mine
      <4>1. j \in Calls(w.key)
        BY <1>8, <3>1, <3>2
      <4>2. Joined(w.key) \in InFlight' /\ Joined(w.key).key = x /\ j \in Joined(w.key).calls
        BY <1>7, <1>11, <3>1, <3>2, <4>1
      <4>3. QED
        BY <1>20, <4>2
    <3>3. CASE ~(w \in table /\ w.key \in Mine)
      <4>1. w \in InFlight'
        BY <1>1, <1>11, <3>3
      <4>2. QED
        BY <1>20, <3>1, <4>1
    <3>4. QED
      BY <3>2, <3>3
  <2>3. QED
    BY <2>1, <2>2
<1>23. QED
  BY <1>12, <1>13, <1>18, <1>19, <1>21, <1>22 DEF Mine

(* A transfer asks for each of its addresses and waits for as many.        *)
LEMMA TransferStep ==
  ASSUME IInv, IssueLoad \/ IssueStore
  PROVE  IInv'
<1>1. PICK op \in {"MOVIN", "MOVOUT"} :
         /\ Issuing(op) /\ Transfer
         /\ IF op = "MOVIN" THEN UNCHANGED <<finished, fault>>
            ELSE finished' = finished \cup {inst} /\ fault' = FailsToFinish({inst})
  BY DEF IssueLoad, IssueStore
<1>2. /\ inst \in Insts \ Taken /\ Taken' = Taken \cup {inst} /\ Taken \subseteq Insts
      /\ Op(inst) = op
      /\ pos' \in [Tiles -> Nat] /\ \A t \in Tiles : pos'[t] <= Len(Prog[t])
      /\ \A i \in Insts : i[2] < pos'[i[1]] /\ ~WrapsToZero(After(i))' => i \in finished
      /\ fresh' = fresh
      /\ pc' \in {"drain", "memory"} /\ sub' \in Subs
      /\ UNCHANGED <<issued, rr, busy, traced, tilesAt, finishedQ, given>>
  BY <1>1, TakeFrame DEF Opcodes
<1>3. /\ waiting' = [waiting EXCEPT ![inst] = @ + Cardinality(AddrsOf(inst))]
      /\ table' = Registered(inst) /\ dmaQ' = Append(dmaQ, inst)
      /\ UNCHANGED <<pipe, reqQ, net, respQ>>
  BY <1>1 DEF Transfer
<1> DEFINE i == inst
<1> HIDE DEF i
<1>4. /\ InFlight' \subseteq Requests /\ StageInv' /\ CallInv' /\ OpenKeys(i) = {}
      /\ \A j \in Insts : OpenKeys(j)' = IF j = i THEN KeysOf(i) ELSE OpenKeys(j)
  BY <1>1, <1>2, <1>3, RegisterStep DEF i
<1>5. TypeOK /\ OrderInv /\ CountInv /\ NoFault /\ dmaQ \in Seq(Insts)
  BY DEF IInv, TypeOK
<1>6. i \notin finished
  BY <1>2, NewToQueues DEF i
<1>7. \A n \in DOMAIN pipe : pipe[n] # i
  BY <1>2, NewToQueues DEF i
<1>8. /\ dmaQ' \in Seq(Insts) /\ Once(dmaQ')
      /\ \A n \in DOMAIN dmaQ' : dmaQ'[n] = i \/ (n \in DOMAIN dmaQ /\ dmaQ'[n] = dmaQ[n])
  BY <1>2, <1>3, <1>5, AppendOnce, NewToQueues DEF OrderInv, i
<1>9. /\ finished \subseteq finished' /\ finished' \subseteq finished \cup {i}
      /\ i \in finished' => Op(i) = "MOVOUT"
  BY <1>1, <1>2, <1>6 DEF i
<1>10. OrderInv'
  <2>1. \A n \in DOMAIN pipe' : pipe'[n] \in Taken' \ finished' /\ Op(pipe'[n]) = "COMP"
    BY <1>2, <1>3, <1>5, <1>7, <1>9 DEF OrderInv
  <2>2. ASSUME NEW n \in DOMAIN dmaQ'
        PROVE  /\ dmaQ'[n] \in Taken'
               /\ Op(dmaQ'[n]) # "COMP"
               /\ Op(dmaQ'[n]) = "MOVIN" => dmaQ'[n] \notin finished'
    <3>1. CASE dmaQ'[n] = i
      BY <1>1, <1>2, <1>9, <3>1 DEF i
    <3>2. CASE n \in DOMAIN dmaQ /\ dmaQ'[n] = dmaQ[n]
      <4>1. dmaQ[n] # i
        BY <1>2, <3>2, NewToQueues DEF i
      <4>2. QED
        BY <1>2, <1>9, <3>2, <4>1, TransfersTaken
    <3>3. QED
      BY <1>8, <3>1, <3>2
  <2>3. finished' \subseteq Taken' /\ Once(pipe')
    BY <1>2, <1>3, <1>5, <1>9 DEF OrderInv, i
  <2>4. QED
    BY <1>2, <1>8, <1>9, <2>1, <2>2, <2>3 DEF OrderInv
<1>11. /\ i \in Insts /\ waiting[i] = 0 /\ Cardinality(AddrsOf(i)) \in Nat
       /\ Cardinality(KeysOf(i)) = Cardinality(AddrsOf(i))
  <2>1. i \in Insts
    BY <1>2 DEF i
  <2>2. waiting[i] = 0
    BY <1>4, <1>5, <2>1, FS_EmptySet DEF CountInv
  <2>3. IsFiniteSet(AddrsOf(i)) /\ Cardinality(AddrsOf(i)) \in Nat
    BY <2>1, InstFacts, FS_CardinalityType
  <2>4. IsFiniteSet({Op(i)}) /\ Cardinality({Op(i)}) = 1
    BY FS_Singleton
  <2>5. Cardinality(KeysOf(i)) = Cardinality(AddrsOf(i)) * Cardinality({Op(i)})
    BY <2>3, <2>4, FS_Product DEF KeysOf
  <2>6. QED
    BY <2>1, <2>2, <2>3, <2>4, <2>5
<1>12. /\ waiting' \in [Insts -> Nat]
       /\ \A j \in Insts : waiting'[j] = IF j = i THEN Cardinality(KeysOf(i)) ELSE waiting[j]
  BY <1>3, <1>5, <1>11 DEF TypeOK, i
<1>13. CountInv'
  <2>1. \A j \in Insts : waiting'[j] = Cardinality(OpenKeys(j)')
    BY <1>4, <1>5, <1>12 DEF CountInv
  <2>2. ASSUME NEW j \in finished', Op(j) = "MOVIN" PROVE OpenKeys(j)' = {}
    <3>1. j # i /\ j \in finished
      BY <1>9, <2>2
    <3>2. j \in Insts /\ OpenKeys(j) = {}
      BY <1>5, <2>2, <3>1 DEF CountInv, TypeOK
    <3>3. QED
      BY <1>4, <3>1, <3>2
  <2>3. QED
    BY <2>1, <2>2 DEF CountInv
<1>14. TypeOK'
  <2>1. finished' \subseteq Insts
    BY <1>5, <1>9, <1>11 DEF TypeOK
  <2>2. QED
    BY <1>2, <1>3, <1>4, <1>5, <1>8, <1>12, <2>1 DEF TypeOK
<1>15. NoFault'
  <2>1. {inst} \subseteq Insts /\ {inst} \cap finished = {}
    BY <1>2, <1>6 DEF i
  <2>2. fault' => fault \/ \E j \in Insts : WrapsToZero(j)
    BY <1>1, <2>1, FailsIfWrapped
  <2>3. fault' => \E j \in Insts : WrapsToZero(j)
    BY <1>5, <2>2 DEF NoFault
  <2>4. QED
    BY <1>2, <2>3 DEF NoFault, WrapsToZero
<1>16. QED
  BY <1>4, <1>10, <1>13, <1>14, <1>15 DEF IInv

-----------------------------------------------------------------------------
(* An instruction is called back once for each address of the responses.   *)
LEMMA CallsAreAddresses ==
  ASSUME IInv, NEW R \in SUBSET InFlight, NEW i \in Insts
  PROVE  LET K == {w.key : w \in Calling(i, R)}
         IN  /\ Cardinality(Calling(i, R)) = Cardinality(K)
             /\ K \subseteq OpenKeys(i) /\ IsFiniteSet(OpenKeys(i))
<1> DEFINE C == Calling(i, R)
           K == {w.key : w \in C}
           f == [w \in C |-> w.key]
<1>1. OpenKeys(i) \subseteq KeysOf(i)
  BY DEF OpenKeys, Calling, IInv, CallInv
<1>2. IsFiniteSet(OpenKeys(i))
  BY <1>1, InstFacts, FS_Subset
<1>3. K \subseteq OpenKeys(i)
  BY DEF OpenKeys, Calling
<1>4. IsFiniteSet(K)
  BY <1>2, <1>3, FS_Subset
<1>5. \A w, v \in C : w.key = v.key => w = v
  BY DEF IInv, CallInv, Calling
<1> HIDE DEF C
<1>6. f \in Injection(C, K) /\ f \in Surjection(C, K)
  BY <1>5 DEF Injection, Surjection, IsInjective
<1>7. Cardinality(C) = Cardinality(K)
  BY <1>4, <1>6, FS_Injection
<1>8. QED
  BY <1>2, <1>3, <1>7 DEF C

(* The end of cycle(): requests leave the table, and responses call back.  *)
LEMMA MemoryStep ==
  ASSUME IInv, NEW S \in Burst(table), NEW R \in Burst(respQ), HandleMemory(S, R)
  PROVE  IInv'
<1>1. /\ S \subseteq table /\ R \subseteq respQ /\ R \subseteq InFlight
      /\ pc' = "idle" /\ sub' = 0
      /\ table' = table \ S /\ reqQ' = reqQ \cup S /\ respQ' = respQ \ R
      /\ waiting' = [i \in Insts |-> waiting[i] - Cardinality(Calling(i, R))]
      /\ UNCHANGED <<net, tileVars, pos, finished, pipe, dmaQ, fresh, fault>>
  BY DEF Burst, HandleMemory, InFlight, Calling
<1>2. TypeOK /\ OrderInv /\ StageInv /\ CallInv /\ CountInv /\ NoFault /\ 0 \in Subs
  BY TraceAssumption DEF IInv, Subs
<1>3. InFlight' = InFlight \ R
  BY <1>1, <1>2 DEF InFlight, StageInv
<1>4. Taken' = Taken
  BY <1>1 DEF Taken
<1>5. StageInv'
  BY <1>1, <1>2 DEF StageInv
<1>6. CallInv'
  <2>1. table' \subseteq table
    BY <1>1
  <2>2. QED
    BY <1>2, <1>3, <1>4, <2>1 DEF CallInv
<1>7. ASSUME NEW i \in Insts
      PROVE  OpenKeys(i)' = OpenKeys(i) \ {w.key : w \in Calling(i, R)}
  <2>1. ASSUME NEW w \in Calling(i, InFlight), NEW v \in Calling(i, R), w.key = v.key
        PROVE  w = v
    BY <1>1, <1>2, <2>1 DEF CallInv, Calling
  <2>2. Calling(i, InFlight)' = Calling(i, InFlight) \ Calling(i, R)
    BY <1>3 DEF Calling
  <2>3. Calling(i, R) \subseteq Calling(i, InFlight)
    BY <1>1 DEF Calling
  <2>4. OpenKeys(i)' = {w.key : w \in Calling(i, InFlight) \ Calling(i, R)}
    BY <2>2 DEF OpenKeys
  <2>5. QED
    BY <2>1, <2>3, <2>4 DEF OpenKeys
<1>8. ASSUME NEW i \in Insts
      PROVE  waiting'[i] = Cardinality(OpenKeys(i)') /\ waiting'[i] \in Nat
  <2> DEFINE K == {w.key : w \in Calling(i, R)}
  <2>1. /\ Cardinality(Calling(i, R)) = Cardinality(K)
        /\ K \subseteq OpenKeys(i) /\ IsFiniteSet(OpenKeys(i))
    BY <1>1, CallsAreAddresses
  <2>2. OpenKeys(i)' = OpenKeys(i) \ K
    BY <1>7
  <2> HIDE DEF K
  <2>3. OpenKeys(i) \cap K = K
    BY <2>1
  <2>4. /\ IsFiniteSet(OpenKeys(i)')
        /\ Cardinality(OpenKeys(i)') = Cardinality(OpenKeys(i)) - Cardinality(K)
    BY <2>1, <2>2, <2>3, FS_Difference
  <2>5. waiting'[i] = waiting[i] - Cardinality(K)
    BY <1>1, <2>1
  <2>6. waiting[i] = Cardinality(OpenKeys(i))
    BY <1>2 DEF CountInv
  <2>7. Cardinality(OpenKeys(i)') \in Nat
    BY <2>4, FS_CardinalityType
  <2>8. QED
    BY <2>4, <2>5, <2>6, <2>7
<1>9. CountInv'
  <2>1. ASSUME NEW i \in finished', Op(i) = "MOVIN" PROVE OpenKeys(i)' = {}
    <3>1. i \in Insts /\ OpenKeys(i) = {}
      BY <1>1, <1>2, <2>1 DEF CountInv, TypeOK
    <3>2. QED
      BY <1>7, <3>1
  <2>2. QED
    BY <1>8, <2>1 DEF CountInv
<1>10. OrderInv' /\ NoFault'
  BY <1>1, <1>2, <1>4 DEF OrderInv, NoFault, WrapsToZero
<1>11. TypeOK'
  <2>1. waiting' \in [Insts -> Nat]
    BY <1>1, <1>8
  <2>2. InFlight' \subseteq Requests
    BY <1>2, <1>3 DEF TypeOK
  <2>3. QED
    BY <1>1, <1>2, <2>1, <2>2 DEF TypeOK, tileVars
<1>12. QED
  BY <1>5, <1>6, <1>9, <1>10, <1>11 DEF IInv

(* A request or a response moves between the core and the memory.          *)
LEMMA TravelSteps ==
  ASSUME IInv,
         \/ \E w \in reqQ : pop_memory_request(w)
         \/ \E w \in net : push_memory_response(w)
  PROVE  IInv'
<1>1. /\ UNCHANGED <<pc, sub, table, tileVars, instVars>>
      /\ \/ \E w \in reqQ : reqQ' = reqQ \ {w} /\ net' = net \cup {w} /\ respQ' = respQ
         \/ \E w \in net : net' = net \ {w} /\ respQ' = respQ \cup {w} /\ reqQ' = reqQ
  BY DEF pop_memory_request, push_memory_response
<1>2. UNCHANGED <<table, pos, finished, pipe, dmaQ, waiting, fresh, fault>>
  BY <1>1 DEF instVars
<1>3. TypeOK /\ OrderInv /\ StageInv /\ CallInv /\ CountInv /\ NoFault
  BY DEF IInv
<1>4. InFlight' = InFlight
  BY <1>1, <1>2 DEF InFlight
<1>5. StageInv'
  BY <1>1, <1>2, <1>3 DEF StageInv
<1>6. Taken' = Taken
  BY <1>2 DEF Taken
<1>7. OrderInv' /\ CallInv' /\ NoFault'
  BY <1>2, <1>3, <1>4, <1>6 DEF OrderInv, CallInv, NoFault, WrapsToZero
<1>8. CountInv'
  BY <1>2, <1>3, <1>4 DEF CountInv, OpenKeys
<1>9. TypeOK'
  BY <1>1, <1>2, <1>3, <1>4 DEF TypeOK, tileVars
<1>10. QED
  BY <1>5, <1>7, <1>8, <1>9 DEF IInv

(* Every step of the core preserves the invariant.                         *)
LEMMA NextInvariant ==
  ASSUME IInv, [Next]_vars
  PROVE  IInv'
<1>1. CASE UNCHANGED vars \/ Aborted
  <2>1. /\ UNCHANGED <<instVars, memVars>>
        /\ UNCHANGED <<pc, sub, issued, rr, busy, traced, tilesAt, finishedQ, given>>
    BY <1>1 DEF vars, tileVars, Aborted
  <2>2. /\ OrderInv' /\ StageInv' /\ CallInv' /\ CountInv' /\ NoFault'
        /\ pos' = pos /\ finished' = finished /\ pipe' = pipe /\ dmaQ' = dmaQ
        /\ waiting' = waiting /\ fresh' = fresh /\ InFlight' = InFlight
    BY <2>1, SameInsts
  <2>3. TypeOK'
    BY <2>1, <2>2 DEF IInv, TypeOK
  <2>4. QED
    BY <2>2, <2>3 DEF IInv
<1>2. CASE \E t \in Tiles : issue(t)
  BY <1>2, TileSteps
<1>3. CASE BeginCycle \/ SkipUnused \/ FinishTile \/ NothingToIssue
  BY <1>3, TileSteps
<1>4. CASE \E c \in BOOLEAN : DrainCompletions(c)
  BY <1>4, DrainStep
<1>5. CASE IssueLoad \/ IssueStore
  BY <1>5, TransferStep
<1>6. CASE IssueCompute
  BY <1>6, ComputeStep
<1>7. CASE \E S \in Burst(table), R \in Burst(respQ) : HandleMemory(S, R)
  BY <1>7, MemoryStep
<1>8. CASE RequestLeaves \/ ResponseComes
  BY <1>8, TravelSteps DEF RequestLeaves, ResponseComes
<1>9. QED
  BY <1>1, <1>2, <1>3, <1>4, <1>5, <1>6, <1>7, <1>8 DEF Next, CycleStep

(* What every reachable state of the core satisfies.                       *)
THEOREM InductiveInvariant == Spec => []IInv
<1>1. Init => IInv
  BY InitInvariant
<1>2. IInv /\ [Next]_vars => IInv'
  BY NextInvariant
<1>3. QED
  BY <1>1, <1>2, PTL DEF Spec

(* SparseCore::finish_instruction never meets an instruction that already  *)
(* is finished and exits the simulator, although any subcore collects what *)
(* all of them have put in the shared pipeline and queue; and its call of  *)
(* dec_ready_counter fails the assertion only if uninitialised memory made *)
(* the counter of an instruction wrap to zero.                             *)
THEOREM NothingFinishesTwice == Spec => []NoFault
<1>1. IInv => NoFault
  BY DEF IInv
<1>2. QED
  BY <1>1, InductiveInvariant, PTL

(* SparseCore::cycle takes an instruction of a tile when no response to a  *)
(* load before it is outstanding, however its requests were merged with    *)
(* those of other subcores, and when no computation before it is under     *)
(* way, whatever its ready counter started from, unless it wrapped to zero.*)
THEOREM DataArrivesBeforeUse == Spec => []DataBeforeUse
<1>1. ASSUME IInv PROVE DataBeforeUse
  <2>1. OrderInv /\ CountInv
    BY <1>1 DEF IInv
  <2>2. ASSUME NEW i \in Insts, i[2] < pos[i[1]], ~WrapsToZero(After(i))
        PROVE  /\ Op(i) = "MOVIN" => \A w \in InFlight : i \notin w.calls
               /\ \A n \in DOMAIN pipe : pipe[n] # i
    <3>1. i \in finished
      BY <2>1, <2>2 DEF OrderInv
    <3>2. Op(i) = "MOVIN" => OpenKeys(i) = {}
      BY <2>1, <3>1 DEF CountInv
    <3>3. \A w \in InFlight : i \in w.calls => w.key \in OpenKeys(i)
      BY DEF OpenKeys, Calling
    <3>4. \A n \in DOMAIN pipe : pipe[n] \notin finished
      BY <2>1 DEF OrderInv
    <3>5. QED
      BY <3>1, <3>2, <3>3, <3>4
  <2>3. QED
    BY <2>2 DEF DataBeforeUse
<1>2. QED
  BY <1>1, InductiveInvariant, PTL
=============================================================================
