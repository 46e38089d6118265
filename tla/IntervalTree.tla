----------------------------- MODULE IntervalTree -----------------------------
(***************************************************************************)
(* include/IntervalTree.h: the plan of the buffers that the L2 cache keeps *)
(* is a tree of address intervals, built once per kernel and asked for     *)
(* every DMA whether it overlaps one of them.                              *)
(***************************************************************************)
EXTENDS Naturals, Sequences, SequencesExt, FiniteSetsExt, TLC

(* Interval: its ends in either order. *)
Interval(a, b) == [start |-> Min({a, b}), stop |-> Max({a, b})]

Node(own, left, right, center) == [own |-> own, left |-> left, right |-> right, center |-> center]

(* The constructor: a leaf of fewer than minbucket intervals, or those     *)
(* around the center and a tree for each side of it.  The center of an     *)
(* empty tree is not set and never read.                                   *)
RECURSIVE IntervalTreeOf(_, _, _)
IntervalTreeOf(ivals, depth, minbucket) ==
  LET sorted == SortSeq(ivals, LAMBDA a, b : a.start < b.start)
      center == (Min({iv.start : iv \in ToSet(ivals)}) + Max({iv.stop : iv \in ToSet(ivals)})) \div 2
      child(seq) == IF seq = <<>> THEN <<>> ELSE <<IntervalTreeOf(seq, depth - 1, minbucket)>>
  IN  IF ivals = <<>> THEN Node(<<>>, <<>>, <<>>, 0)
      ELSE IF depth = 1 \/ Len(ivals) < minbucket THEN Node(sorted, <<>>, <<>>, center)
      ELSE Node(SelectSeq(sorted, LAMBDA iv : iv.start <= center /\ center <= iv.stop),
                child(SelectSeq(sorted, LAMBDA iv : iv.stop < center)),
                child(SelectSeq(sorted, LAMBDA iv : iv.start > center)), center)

(* visit_near: the intervals of every node the range may touch. *)
RECURSIVE VisitNear(_, _, _)
VisitNear(tree, start, stop) ==
  (IF tree.own # <<>> /\ ~(stop < Head(tree.own).start) THEN tree.own ELSE <<>>)
  \o (IF tree.left # <<>> /\ start <= tree.center THEN VisitNear(tree.left[1], start, stop) ELSE <<>>)
  \o (IF tree.right # <<>> /\ stop >= tree.center THEN VisitNear(tree.right[1], start, stop) ELSE <<>>)

(* findOverlapping, as a filter on the intervals that are visited; one     *)
(* variant takes the ends of the range for exclusive.                      *)
FindOverlapping_Open(tree, start, stop) ==
  SelectSeq(VisitNear(tree, start, stop), LAMBDA iv : iv.stop > start /\ iv.start < stop)
FindOverlapping(tree, start, stop) ==
  SelectSeq(VisitNear(tree, start, stop), LAMBDA iv : iv.stop >= start /\ iv.start <= stop)
=============================================================================
