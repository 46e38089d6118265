------------------------------- MODULE TogParser -------------------------------
(***************************************************************************)
(* TileGraphParser: from the tile operation graph of a kernel to its       *)
(* subgraphs of tiles and instructions.  The constructor first scans the   *)
(* nodes in file order ("scan"), then walks the body of the innermost      *)
(* parallel loop once per iteration of the parallel loops ("build");       *)
(* TileLoopNode::get_tiles_from_iter is the walk, a stack frame per        *)
(* loop iteration being expanded.                                          *)
(***************************************************************************)
EXTENDS TogGenerator, IntervalTree

CONSTANTS
  Graphs,       (* the graphs a kernel may have: results of TileGraphOf    *)
  SystolicSize, (* metadata "systolic_size"                                *)
  SparseTiles,  (* ordinals of the loads that dma_access marks as sparse   *)
  Literals,     (* index names that stand for a number, such as "c0"       *)
  AddressInfo,  (* address_info of the attribute file: array to address    *)
  Plans,        (* the buffers sram_alloc may list, as intervals           *)
  RequestSize,  (* dram_req_size                                           *)
  CounterSize,  (* values of a size_t                                      *)
  FreshCounters,(* what new memory may hold in place of a ready_counter    *)
  MinBucket     (* minbucket of the interval tree, 64 in the code          *)

VARIABLES
  tog,         (* the graph being parsed                                   *)
  plan,        (* _cache_plan                                              *)
  cachePlan,   (* TileGraph::_cache_plan                                   *)
  phase,       (* "scan", "build", "done", or "failed" by an exception     *)
  pos,         (* nodes scanned so far                                     *)
  depth,       (* _loop_stack_pointer                                      *)
  loopNodes,   (* _loop_nodes: the loops of each depth, in file order      *)
  body,        (* TileLoopNode::_body_node                                 *)
  kids,        (* TileNode::_child                                         *)
  sizeMap,     (* _loop_size_map: by name of the index                     *)
  outer,       (* TileGraph::Iterator::indices_                            *)
  root,        (* which of the loops at the last parallel depth is built   *)
  stack,       (* calls of get_tiles_from_iter                             *)
  tagTable,    (* _tag_table                                               *)
  dmaCount,    (* dma_counter                                              *)
  insts,       (* all instructions, in order of creation                   *)
  tiles,       (* all tiles, in order of creation                          *)
  subgraphs    (* TileGraph::_subgraph_vec; the last one is being filled   *)

scanVars == <<pos, depth, loopNodes, body, kids, sizeMap>>
buildVars == <<outer, root, stack, tagTable, dmaCount, insts, tiles, subgraphs>>
vars == <<tog, plan, cachePlan, phase, scanVars, buildVars>>

Nodes == ToSet(tog.order)
Attr(n) == tog.raw[n]
KindOf(n) == Kind(tog.raw, n)
None == 0

(***************************************************************************)
(* The scan.                                                               *)
(***************************************************************************)
(* TileLoopNode: the loop type the file names, and no other.               *)
LoopType(l) ==
  CASE Attr(l).type = "outer_loop" -> "PARALLEL_LOOP"
    [] Attr(l).type = "accumulation_loop" -> "ACCUMULATION_LOOP"
    [] Attr(l).type = "inner_loop" -> "INNER_LOOP"
    [] OTHER -> "NORMAL_LOOP"

(* get_top_loop: null before the first loop; out of range at depth 0 later. *)
HasTop == loopNodes = <<>> \/ depth > 0
TopLoop == IF loopNodes = <<>> THEN None ELSE Last(loopNodes[depth])

(* The end of register_tile: a node is a child of its inputs, a child of   *)
(* the loop if the input ends one, and of nobody if the input is a loop.   *)
Linked(n) ==
  LET from(p) == IF KindOf(p) = "end" THEN p - Len(tog.raw) ELSE p
      inputs == {e[1] : e \in {x \in tog.links : x[2] = n /\ KindOf(x[1]) # "loop"}}
  IN  IF KindOf(n) = "end" THEN kids
      ELSE [p \in DOMAIN kids |->
              IF \E q \in inputs : from(q) = p THEN kids[p] \cup {n} ELSE kids[p]]

(* register_tile without its exception. *)
Registered(n) ==
  /\ HasTop
  /\ body' = IF TopLoop = None THEN body ELSE [body EXCEPT ![TopLoop] = Append(@, n)]
  /\ kids' = Linked(n)
  /\ pos' = pos + 1

(* register_loop at the current depth. *)
WithLoop(l) ==
  IF Len(loopNodes) <= depth THEN Append(loopNodes, <<l>>)
  ELSE [loopNodes EXCEPT ![depth + 1] = Append(@, l)]

Scanning == phase = "scan" /\ pos < Len(tog.order)
Next1 == tog.order[pos + 1]

ScanLoop ==
  /\ Scanning
  /\ KindOf(Next1) = "loop"
  /\ Registered(Next1)
  /\ loopNodes' = WithLoop(Next1)
  /\ depth' = depth + 1
  /\ sizeMap' = [x \in DOMAIN sizeMap \cup {Attr(Next1).idx} |->
                  IF x # Attr(Next1).idx THEN sizeMap[x]
                  ELSE [size |-> Attr(Next1).end - Attr(Next1).start,
                        step |-> Attr(Next1).step, type |-> LoopType(Next1)]]
  /\ UNCHANGED <<tog, plan, cachePlan, phase, buildVars>>

ScanLoopEnd ==
  /\ Scanning
  /\ KindOf(Next1) = "end"
  /\ Registered(Next1)
  /\ depth' = depth - 1
  /\ UNCHANGED <<tog, plan, cachePlan, phase, loopNodes, sizeMap, buildVars>>

ScanOperation ==
  /\ Scanning
  /\ KindOf(Next1) \notin {"loop", "end"}
  /\ Registered(Next1)
  /\ UNCHANGED <<tog, plan, cachePlan, phase, depth, loopNodes, sizeMap, buildVars>>

(* A node behind the outermost loop: _loop_nodes.at(0 - 1). *)
ScanThrows ==
  /\ Scanning
  /\ ~HasTop
  /\ phase' = "failed"
  /\ UNCHANGED <<tog, plan, cachePlan, scanVars, buildVars>>

(***************************************************************************)
(* The parallel loops.                                                     *)
(***************************************************************************)
(* The first loop of each depth, as long as those are parallel.            *)
Outer ==
  LET first(d) == loopNodes[d][1]
      par == {d \in DOMAIN loopNodes : \A e \in 1 .. d : LoopType(first(e)) = "PARALLEL_LOOP"}
  IN  [d \in 1 .. Cardinality(par) |-> first(d)]

(* An exhausted range is not reset. *)
NextIndices_NoReset(ind) ==
  LET up == {d \in DOMAIN ind : ind[d] + Attr(Outer[d]).step < Attr(Outer[d]).end}
  IN  IF up = {} THEN <<>> ELSE [ind EXCEPT ![Max(up)] = @ + Attr(Outer[Max(up)]).step]

(* Iterator::operator++ on a vector of indices; <<>> when it is finished.  *)
NextIndices(ind) ==
  LET up == {d \in DOMAIN ind : ind[d] + Attr(Outer[d]).step < Attr(Outer[d]).end}
  IN  IF up = {} THEN <<>>
      ELSE [d \in DOMAIN ind |-> IF d < Max(up) THEN ind[d]
                                 ELSE IF d = Max(up) THEN ind[d] + Attr(Outer[d]).step
                                 ELSE Attr(Outer[d]).start]

(* get_indices. *)
Indices(ind) == [x \in {Attr(Outer[d]).idx : d \in DOMAIN ind} |->
                   ind[CHOOSE d \in DOMAIN ind : Attr(Outer[d]).idx = x]]

NewTile == [insts |-> <<>>, kids |-> <<>>, ready |-> 0]
Frame(l, iter, t) == [loop |-> l, at |-> 1, iter |-> iter, mine |-> <<t>>, link |-> {}, nest |-> <<>>]

EndScan ==
  /\ phase = "scan"
  /\ pos = Len(tog.order)
  /\ phase' = CASE loopNodes = <<>> -> "done"      (* a null kernel *)
                [] Outer = <<>> -> "failed"        (* _loop_nodes.at(-1) *)
                [] OTHER -> "build"
  /\ outer' = [d \in DOMAIN Outer |-> Attr(Outer[d]).start]
  /\ subgraphs' = IF phase' = "build" THEN <<<<>>>> ELSE <<>>
  /\ cachePlan' = IntervalTreeOf(plan, 16, MinBucket)
  /\ UNCHANGED <<tog, plan, scanVars, root, stack, tagTable, dmaCount, insts, tiles>>

Roots == loopNodes[Len(Outer)]

(* clear_tag_table is left out. *)
BuildRoot_KeepsTags ==
  /\ phase = "build"
  /\ stack = <<>>
  /\ root < Len(Roots)
  /\ root' = root + 1
  /\ tiles' = Append(tiles, NewTile)
  /\ stack' = <<Frame(Roots[root + 1], Indices(outer), Len(tiles) + 1)>>
  /\ UNCHANGED <<tog, plan, cachePlan, phase, scanVars, outer, tagTable, dmaCount, insts, subgraphs>>

(* One call of get_tiles_from_iter from the constructor. *)
BuildRoot ==
  /\ phase = "build"
  /\ stack = <<>>
  /\ root < Len(Roots)
  /\ root' = root + 1
  /\ tagTable' = {}
  /\ tiles' = Append(tiles, NewTile)
  /\ stack' = <<Frame(Roots[root + 1], Indices(outer), Len(tiles) + 1)>>
  /\ UNCHANGED <<tog, plan, cachePlan, phase, scanVars, outer, dmaCount, insts, subgraphs>>

NextSubgraph ==
  /\ phase = "build"
  /\ stack = <<>>
  /\ root = Len(Roots)
  /\ root' = 0
  /\ outer' = NextIndices(outer)
  /\ IF outer' = <<>>
     THEN phase' = "done" /\ UNCHANGED subgraphs
     ELSE subgraphs' = Append(subgraphs, <<>>) /\ UNCHANGED phase
  /\ UNCHANGED <<tog, plan, cachePlan, scanVars, stack, tagTable, dmaCount, insts, tiles>>

(***************************************************************************)
(* get_tiles_from_iter.                                                    *)
(***************************************************************************)
Top == Last(stack)
Here == body[Top.loop][Top.at]
InBody == phase = "build" /\ stack # <<>> /\ Top.nest = <<>> /\ Top.at <= Len(body[Top.loop])
SetTop(f) == [stack EXCEPT ![Len(stack)] = f]

TypeOfIdx(x) == IF x \in DOMAIN sizeMap THEN sizeMap[x].type ELSE "NORMAL_LOOP"
Known(iter, x) == x \in DOMAIN Literals \cup DOMAIN iter
ValueOf(iter, x) == IF x \in DOMAIN Literals THEN Literals[x] ELSE iter[x]

Dot(a, b) == FoldLeft(LAMBDA acc, i : acc + a[i] * b[i], 0, [i \in 1 .. Len(a) |-> i])
OrZero(seq) == IF seq = <<>> THEN <<0>> ELSE seq

(* lookup: an array without an address is at 0. *)
Lookup(a) == IF a \in DOMAIN AddressInfo THEN AddressInfo[a] ELSE 0

(* The address a load or a store is about. *)
Address(n, iter) ==
  Lookup(Attr(n).addr) + Dot([i \in DOMAIN Attr(n).loops |-> ValueOf(iter, Attr(n).loops[i])],
                             Attr(n).strides)

(* The tag key of a load: the indices of the accumulation loops, then the  *)
(* position of its part of the tile.                                       *)
LoadKey(n, iter) ==
  LET a == Attr(n)
      inner == Cardinality({i \in DOMAIN a.loops : TypeOfIdx(a.loops[i]) = "INNER_LOOP"})
      accum == SelectSeq(SubSeq(a.loops, 1, Len(a.loops) - inner),
                         LAMBDA x : TypeOfIdx(x) = "ACCUMULATION_LOOP")
      unit(x) == Min({sizeMap[x].step, SystolicSize})
      tag(x) == IF x \notin DOMAIN iter THEN 0 ELSE iter[x] \div unit(x)
  IN  <<a.addr>> \o OrZero([i \in DOMAIN accum |-> ValueOf(iter, accum[i])])
      \o <<Dot([i \in DOMAIN a.tagIdx |-> tag(a.tagIdx[i])], a.tagStride)>>

(* The same key as a wait computes it, from one list of indices. *)
WaitKey(n, iter) ==
  LET a == Attr(n)
      isAccum(i) == a.tagIdx[i] \in DOMAIN iter /\ TypeOfIdx(a.tagIdx[i]) = "ACCUMULATION_LOOP"
      places == [i \in DOMAIN a.tagIdx |-> i]
      accum == SelectSeq(places, isAccum)
      rest == SelectSeq(places, LAMBDA i : ~isAccum(i))
      tag(i) == IF a.tagIdx[i] \notin DOMAIN iter THEN 0 ELSE iter[a.tagIdx[i]] \div a.tagDiv[i]
  IN  <<a.addr>> \o OrZero([i \in DOMAIN accum |-> iter[a.tagIdx[accum[i]]]])
      \o <<Dot([i \in DOMAIN rest |-> tag(rest[i])],
               SelectSeq(a.tagStride, LAMBDA s : s # -1))>>

(* fresh is the ready_counter the constructor leaves, which is zero for a  *)
(* constructor that is given the number of parents.                        *)
Inst(op, n, key, addr, sparse) ==
  [op |-> op, node |-> n, iter |-> Top.iter, key |-> key, addr |-> addr, sparse |-> sparse,
   kids |-> {}, fresh |-> 0, ready |-> 0]

(* The instruction joins the last tile and link_map. *)
Emit(inst) ==
  /\ insts' = Append(insts, inst)
  /\ tiles' = [tiles EXCEPT ![Last(Top.mine)].insts = Append(@, Len(insts) + 1)]
  /\ stack' = SetTop([Top EXCEPT !.at = @ + 1, !.link = @ \cup {<<Here, Len(insts) + 1>>}])

AllKnown(n) == \A i \in DOMAIN Attr(n).loops : Known(Top.iter, Attr(n).loops[i])

Fetched(n) == <<Attr(n).addr, LoadKey(n, Top.iter)>>

Load ==
  /\ InBody /\ KindOf(Here) = "load" /\ AllKnown(Here)
  /\ Fetched(Here) \notin tagTable
  /\ tagTable' = tagTable \cup {Fetched(Here)}
  /\ dmaCount' = dmaCount + 1
  /\ Emit(Inst("MOVIN", Here, LoadKey(Here, Top.iter), Address(Here, Top.iter),
               dmaCount \in SparseTiles))
  /\ UNCHANGED <<tog, plan, cachePlan, phase, scanVars, outer, root, subgraphs>>

(* check_memory_tag: another load of the subgraph fetches it. *)
LoadSkipped ==
  /\ InBody /\ KindOf(Here) = "load" /\ AllKnown(Here)
  /\ Fetched(Here) \in tagTable
  /\ stack' = SetTop([Top EXCEPT !.at = @ + 1])
  /\ UNCHANGED <<tog, plan, cachePlan, phase, scanVars, outer, root, tagTable, dmaCount, insts, tiles, subgraphs>>

Store ==
  /\ InBody /\ KindOf(Here) = "store" /\ AllKnown(Here)
  /\ Emit(Inst("MOVOUT", Here, <<Attr(Here).addr, 0>>, Address(Here, Top.iter), FALSE))
  /\ UNCHANGED <<tog, plan, cachePlan, phase, scanVars, outer, root, tagTable, dmaCount, subgraphs>>

Wait ==
  /\ InBody /\ KindOf(Here) = "wait"
  /\ Emit(Inst("BAR", Here, WaitKey(Here, Top.iter), Lookup(Attr(Here).addr), FALSE))
  /\ UNCHANGED <<tog, plan, cachePlan, phase, scanVars, outer, root, tagTable, dmaCount, subgraphs>>

(* Computations, and the nodes of a STONNE layer or trace, which carry no  *)
(* tags.  Instruction(Opcode), which makes the latter, does not initialise *)
(* their ready_counter.                                                    *)
Plain == [comp |-> "COMP", stonne |-> "COMP", trace_comp |-> "COMP",
          trace_load |-> "MOVIN", trace_store |-> "MOVOUT"]

PlainNode ==
  /\ InBody /\ KindOf(Here) \in DOMAIN Plain
  /\ \E c \in IF KindOf(Here) = "comp" THEN {0} ELSE FreshCounters :
       Emit([Inst(Plain[KindOf(Here)], Here, <<>>, 0, FALSE) EXCEPT !.fresh = c, !.ready = c])
  /\ UNCHANGED <<tog, plan, cachePlan, phase, scanVars, outer, root, tagTable, dmaCount, subgraphs>>

(* The end of a loop is a node of its body that makes no instruction. *)
SkipLoopEnd ==
  /\ InBody /\ KindOf(Here) = "end"
  /\ stack' = SetTop([Top EXCEPT !.at = @ + 1])
  /\ UNCHANGED <<tog, plan, cachePlan, phase, scanVars, outer, root, tagTable, dmaCount, insts, tiles, subgraphs>>

(* getLoopIndexValue finds neither an index nor a number. *)
BuildThrows ==
  /\ InBody /\ KindOf(Here) \in {"load", "store"} /\ ~AllKnown(Here)
  /\ phase' = "failed"
  /\ UNCHANGED <<tog, plan, cachePlan, scanVars, buildVars>>

(* A ready_counter raised n times by add_child. *)
Raised(c, n) == (c + n) % CounterSize

(* add_child counts the edge for the parent. *)
WithLinks_CountsParents(link) ==
  LET pairs == {x \in link \X link : x[2][1] \in kids[x[1][1]]}
  IN  [i \in DOMAIN insts |->
        [insts[i] EXCEPT !.kids = @ \cup {x[2][2] : x \in {y \in pairs : y[1][2] = i}},
                         !.ready = Raised(@, Cardinality({x \in pairs : x[1][2] = i}))]]

(* add_child for the pairs of a link_map: nodes that are parent and child. *)
WithLinks(link) ==
  LET pairs == {x \in link \X link : x[2][1] \in kids[x[1][1]]}
  IN  [i \in DOMAIN insts |->
        [insts[i] EXCEPT !.kids = @ \cup {x[2][2] : x \in {y \in pairs : y[1][2] = i}},
                         !.ready = Raised(@, Cardinality({x \in pairs : x[2][2] = i}))]]

(* Tile::append_child. *)
WithChild(ts, t, c) == [ts EXCEPT ![t].kids = Append(@, c), ![c].ready = @ + 1]

(* Before a nested loop: what was linked so far is settled, and a tile for *)
(* what follows the loop is made.                                          *)
EnterLoop ==
  /\ InBody /\ KindOf(Here) = "loop"
  /\ insts' = WithLinks(Top.link)
  /\ tiles' = Append(tiles, NewTile)
  /\ LET par == Last(Top.mine)
         last == IF tiles[par].insts = <<>> THEN None ELSE Last(tiles[par].insts)
     IN  stack' = SetTop([Top EXCEPT !.link = {},
                            !.nest = <<[i |-> Attr(Here).start, par |-> par, last |-> last,
                                        hub |-> Len(tiles) + 1]>>])
  /\ UNCHANGED <<tog, plan, cachePlan, phase, scanVars, outer, root, tagTable, dmaCount, subgraphs>>

Nest == Top.nest[1]
InNest == phase = "build" /\ stack # <<>> /\ Top.nest # <<>>
WithIdx(iter, x, v) == [y \in DOMAIN iter \cup {x} |-> IF y = x THEN v ELSE iter[y]]

Iterate ==
  /\ InNest
  /\ Nest.i < Attr(Here).end
  /\ tiles' = Append(tiles, NewTile)
  /\ stack' = Append(stack, Frame(Here, WithIdx(Top.iter, Attr(Here).idx, Nest.i), Len(tiles) + 1))
  /\ UNCHANGED <<tog, plan, cachePlan, phase, scanVars, outer, root, tagTable, dmaCount, insts, subgraphs>>

LeaveLoop ==
  /\ InNest
  /\ Nest.i >= Attr(Here).end
  /\ tiles' = WithChild(tiles, Nest.par, Nest.hub)
  /\ stack' = SetTop([Top EXCEPT !.at = @ + 1, !.mine = Append(@, Nest.hub), !.nest = <<>>])
  /\ UNCHANGED <<tog, plan, cachePlan, phase, scanVars, outer, root, tagTable, dmaCount, insts, subgraphs>>

Returning == phase = "build" /\ stack # <<>> /\ Top.nest = <<>> /\ Top.at > Len(body[Top.loop])
Caller == stack[Len(stack) - 1]
CallNest == Caller.nest[1]
InstsIn(ts) == FlattenSeq([k \in DOMAIN ts |-> tiles[ts[k]].insts])
Popped(f) == Append(SubSeq(stack, 1, Len(stack) - 2),
                    [f EXCEPT !.nest = <<[@[1] EXCEPT !.i = @ + Attr(Top.loop).step]>>])

(* The tiles of an inner iteration are dissolved: their instructions go to *)
(* the tile around the loop, as children of its last instruction.          *)
ReturnInner ==
  /\ Returning /\ Len(stack) > 1 /\ LoopType(Top.loop) = "INNER_LOOP"
  /\ LET moved == InstsIn(Top.mine)
         linked == WithLinks(Top.link)
     IN  /\ tiles' = [tiles EXCEPT ![CallNest.par].insts = @ \o moved]
         /\ insts' = IF CallNest.last = None THEN linked
                     ELSE [i \in DOMAIN insts |->
                            IF i = CallNest.last
                            THEN [linked[i] EXCEPT !.kids = @ \cup ToSet(moved)]
                            ELSE IF i \in ToSet(moved) THEN [linked[i] EXCEPT !.ready = Raised(@, 1)]
                            ELSE linked[i]]
  /\ stack' = Popped(Caller)
  /\ UNCHANGED <<tog, plan, cachePlan, phase, scanVars, outer, root, tagTable, dmaCount, subgraphs>>

(* The tile after the loop waits for the tile before it only. *)
ReturnTiles_Loose ==
  /\ Returning /\ Len(stack) > 1 /\ LoopType(Top.loop) # "INNER_LOOP"
  /\ insts' = WithLinks(Top.link)
  /\ tiles' = WithChild(tiles, CallNest.par, Head(Top.mine))
  /\ stack' = Popped([Caller EXCEPT !.mine = @ \o Top.mine])
  /\ UNCHANGED <<tog, plan, cachePlan, phase, scanVars, outer, root, tagTable, dmaCount, subgraphs>>

(* The tiles of any other iteration come between the tile before the loop  *)
(* and the one after it.                                                   *)
ReturnTiles ==
  /\ Returning /\ Len(stack) > 1 /\ LoopType(Top.loop) # "INNER_LOOP"
  /\ insts' = WithLinks(Top.link)
  /\ tiles' = WithChild(WithChild(tiles, CallNest.par, Head(Top.mine)), Last(Top.mine), CallNest.hub)
  /\ stack' = Popped([Caller EXCEPT !.mine = @ \o Top.mine])
  /\ UNCHANGED <<tog, plan, cachePlan, phase, scanVars, outer, root, tagTable, dmaCount, subgraphs>>

ReturnRoot ==
  /\ Returning /\ Len(stack) = 1
  /\ insts' = WithLinks(Top.link)
  /\ subgraphs' = [subgraphs EXCEPT ![Len(subgraphs)] = @ \o Top.mine]
  /\ stack' = <<>>
  /\ UNCHANGED <<tog, plan, cachePlan, phase, scanVars, outer, root, tagTable, dmaCount, tiles>>

Init ==
  /\ tog \in Graphs
  /\ plan \in Plans
  /\ cachePlan = IntervalTreeOf(<<>>, 16, MinBucket)
  /\ phase = "scan"
  /\ pos = 0 /\ depth = 0 /\ loopNodes = <<>>
  /\ body = [n \in Nodes |-> <<>>]
  /\ kids = [n \in Nodes |-> {}]
  /\ sizeMap = <<>>
  /\ outer = <<>> /\ root = 0 /\ stack = <<>> /\ tagTable = {} /\ dmaCount = 0
  /\ insts = <<>> /\ tiles = <<>> /\ subgraphs = <<>>

Parsed == phase \in {"done", "failed"} /\ UNCHANGED vars

Scan == ScanLoop \/ ScanLoopEnd \/ ScanOperation \/ ScanThrows \/ EndScan
Expand == EnterLoop \/ Iterate \/ LeaveLoop \/ ReturnInner \/ ReturnTiles \/ ReturnRoot
Body == Load \/ LoadSkipped \/ Store \/ Wait \/ PlainNode \/ SkipLoopEnd \/ BuildThrows
Next == Scan \/ BuildRoot \/ NextSubgraph \/ Body \/ Expand \/ Parsed

Spec == Init /\ [][Next]_vars

(***************************************************************************)
(* What the nest means, and what was made of it.                           *)
(***************************************************************************)
Done == phase = "done"
Operations == {n \in DOMAIN tog.raw : Attr(n).kind # "loop"}

(* The loops around a node, by the parents the compiler wrote. *)
Around(n) ==
  LET up(S) == S \cup {Attr(x).parent : x \in S}
  IN  FoldLeft(LAMBDA S, i : up(S) \ {0}, {Attr(n).parent} \ {0}, tog.raw)

(* The operations the parser looks at: those under a loop it builds from.  *)
RootOf(n) == Around(n) \cap ToSet(Roots)
Built == {n \in Operations : RootOf(n) # {}}

LoopWithIdx(n, x) == CHOOSE l \in Around(n) : Attr(l).idx = x
Values(l) == {v \in Attr(l).start .. Attr(l).end - 1 : (v - Attr(l).start) % Attr(l).step = 0}
Names(n) == {Attr(l).idx : l \in Around(n)}
Iterations(n) ==
  {f \in [Names(n) -> 0 .. Max({Attr(l).end : l \in Around(n)})] :
     \A x \in Names(n) : f[x] \in Values(LoopWithIdx(n, x))}

Instances(n) == {i \in DOMAIN insts : insts[i].node = n}
Placed == UNION {ToSet(s) : s \in ToSet(subgraphs)}
TileOf(i) == CHOOSE t \in Placed : i \in ToSet(tiles[t].insts)
Together(i, j) == \E s \in ToSet(subgraphs) : {TileOf(i), TileOf(j)} \subseteq ToSet(s)

(* What follows x along the edges next, x included. *)
Following(next(_), x, bound) ==
  FoldLeft(LAMBDA S, i : S \cup UNION {next(y) : y \in S}, {x}, [i \in 1 .. bound |-> i])
TileKids(t) == ToSet(tiles[t].kids)
InstKids(i) == insts[i].kids

(* Instruction j cannot start before i has ended: the edges of their tile, *)
(* or those between their tiles, say so.                                   *)
Before(i, j) ==
  IF TileOf(i) = TileOf(j) THEN i # j /\ j \in Following(InstKids, i, Len(tiles[TileOf(i)].insts))
  ELSE TileOf(j) \in Following(TileKids, TileOf(i), Cardinality(Placed))

(* Core::issue lines up the instructions that wait for nothing before any  *)
(* that waits, in the order of the tile, and the core issues from the      *)
(* front of the line.                                                      *)
IssuedBefore(i, j) ==
  \/ Before(i, j)
  \/ TileOf(i) = TileOf(j) /\ insts[i].ready = 0
     /\ LET seq == tiles[TileOf(i)].insts
        IN  insts[j].ready > 0 \/ \E k \in DOMAIN seq : seq[k] = j /\ \E h \in 1 .. k - 1 : seq[h] = i

(***************************************************************************)
(* Properties.                                                             *)
(***************************************************************************)
(* The constructor and get_tiles_from_iter make every operation under a    *)
(* parallel loop exactly once per iteration of the loops around it, in one *)
(* place of one tile of a subgraph; for a load, one of the same address    *)
(* and tag in the subgraph may stand in.                                   *)
ExactlyOnce ==
  Done /\ loopNodes # <<>> =>
    \A n \in Built :
      /\ \A i \in Instances(n) :
           Cardinality({p \in UNION {{<<t, k>> : k \in DOMAIN tiles[t].insts} : t \in Placed} :
                          tiles[p[1]].insts[p[2]] = i}) = 1
      /\ \A f \in Iterations(n) :
           LET made == {i \in Instances(n) : insts[i].iter = f}
           IN  \/ Cardinality(made) = 1
               \/ /\ Attr(n).kind = "load" /\ made = {}
                  /\ \E j \in DOMAIN insts :
                       /\ insts[j].op = "MOVIN" /\ insts[j].addr = Address(n, f)
                       /\ insts[j].key = LoadKey(n, f)
                       /\ \A d \in DOMAIN Outer : insts[j].iter[Attr(Outer[d]).idx] = f[Attr(Outer[d]).idx]
      /\ \A i \in Instances(n) : insts[i].iter \in Iterations(n)

(* The loops of the node m closer to the root than n, and the first one    *)
(* that differs: the children of the innermost common loop.                *)
Chains(n) == Around(n) \cup {n}
Common(m, n) == Around(m) \cap Around(n)
BranchOf(m, n) == CHOOSE x \in Chains(m) : Attr(x).parent = Max(Common(m, n))

(* The order between an operation and a loop next to it: what follows a    *)
(* loop starts after all iterations of it, and an accumulation or plain    *)
(* loop starts after what comes before it, in every iteration of the loops *)
(* around both; inner loops are dissolved and keep no order inside.        *)
LoopOrder ==
  Done /\ loopNodes # <<>> =>
    \A m, n \in Built :
      LET a == BranchOf(m, n)
          b == BranchOf(n, m)
          isLoop(x) == Attr(x).kind = "loop"
      IN  /\ m < n /\ RootOf(m) = RootOf(n)
          /\ LoopType(Max(Common(m, n))) # "INNER_LOOP"
          /\ isLoop(a) \/ (isLoop(b) /\ LoopType(b) # "INNER_LOOP")
          => \A i \in Instances(m), j \in Instances(n) :
               (\A l \in Common(m, n) : insts[i].iter[Attr(l).idx] = insts[j].iter[Attr(l).idx])
               => Before(i, j)

(* The ready counter that gates a tile (TileSubGraph::add_tile) counts the *)
(* edges that will be resolved, and no tile waits for itself.  That of an  *)
(* instruction (Core::issue, SparseCore::cycle) has been raised once for   *)
(* each edge of its tile, whichever of the calls of add_child made it, and *)
(* counts exactly those where the constructor set it: no tile, and no      *)
(* instruction but one of a STONNE node, can wait for ever.                *)
CountersAgree ==
  Done =>
    /\ \A t \in Placed :
         /\ tiles[t].ready = Cardinality({p \in UNION {{<<s, k>> : k \in DOMAIN tiles[s].kids} : s \in Placed} :
                                            tiles[p[1]].kids[p[2]] = t})
         /\ \A u \in TileKids(t) : t \notin Following(TileKids, u, Cardinality(Placed))
    /\ \A i \in DOMAIN insts :
         LET edges == Cardinality({j \in DOMAIN insts : i \in insts[j].kids /\ TileOf(i) = TileOf(j)})
         IN  /\ insts[i].ready = Raised(insts[i].fresh, edges)
             /\ KindOf(insts[i].node) \in {"comp", "load", "store", "wait"} => insts[i].ready = edges
    /\ \A i \in DOMAIN insts, j \in DOMAIN insts : j \in insts[i].kids => j > i

(* A barrier waits for a tag; the core throws "Key does not exist" if no   *)
(* load of the tag was issued before (DMA::get_tag_finish).  So a load of  *)
(* the same tag comes before every barrier, also where check_memory_tag    *)
(* dropped the load in front of it for one of another tile.                *)
BarrierAfterLoad ==
  Done =>
    \A j \in DOMAIN insts :
      insts[j].op = "BAR" =>
        \E i \in DOMAIN insts :
          /\ insts[i].op = "MOVIN" /\ insts[i].key = insts[j].key
          /\ Together(i, j) /\ IssuedBefore(i, j)

(* is_cacheable finds a buffer of the plan, whatever the shape of the tree,*)
(* exactly when the first request of a DMA overlaps one.                   *)
CachePlanFound ==
  Done =>
    \A i \in DOMAIN insts :
      insts[i].op \in {"MOVIN", "MOVOUT"} =>
        (FindOverlapping(cachePlan, insts[i].addr, insts[i].addr + RequestSize) # <<>>
         <=> \E iv \in ToSet(plan) : iv.start <= insts[i].addr + RequestSize /\ insts[i].addr <= iv.stop)
=============================================================================
