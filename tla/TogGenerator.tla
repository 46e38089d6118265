----------------------------- MODULE TogGenerator -----------------------------
(***************************************************************************)
(* AsmParser/tog_generator.py: the compiler writes the nodes of a kernel   *)
(* in program order, each with the loop it is in; tog_generator adds a     *)
(* node for the end of every loop and connects the nodes into a graph.     *)
(*                                                                         *)
(* A raw graph is a sequence of records with fields kind and parent (and   *)
(* the attributes of the kind, which are passed on).  A node is its        *)
(* position, 0 is the root, and l + Len(raw) is the end node of loop l.    *)
(***************************************************************************)
EXTENDS Naturals, Sequences, FiniteSets, FiniteSetsExt, SequencesExt

End(raw, l) == l + Len(raw)

Kind(raw, x) == IF x = 0 THEN "base" ELSE IF x > Len(raw) THEN "end" ELSE raw[x].kind

IsFetch(raw, x) == Kind(raw, x) \in {"load", "wait"}

(* The state of the translation: the nodes in the order of the file, the   *)
(* edges, prev_node (the nodes since the last change of nesting) and the   *)
(* loops still open.                                                       *)
Start == [order |-> <<>>, links |-> {}, run |-> <<0>>, open |-> <<>>]

(* connect_nodes between siblings: loads in a row hang on the node before  *)
(* them, waits likewise, and a computation hangs on all of them.           *)
SiblingLinks(raw, s, n) ==
  LET p == Last(s.run)
      k == raw[n].kind
  IN  CASE k = Kind(raw, p) /\ k \in {"load", "wait"} ->
             {<<CHOOSE q \in 0 .. 2 * Len(raw) : <<q, p>> \in s.links, n>>}
        [] k = "comp" /\ IsFetch(raw, p) ->
             {<<q, n>> : q \in {x \in ToSet(s.run) : IsFetch(raw, x)}}
        [] OTHER -> {<<p, n>>}

(* The nodes the end of a loop waits for: the last one that is not a load  *)
(* and the loads behind it.                                                *)
RunTail(raw, run) ==
  {run[j] : j \in {i \in DOMAIN run : \A h \in i + 1 .. Len(run) : Kind(raw, run[h]) = "load"}}

(* The ends of the loops from position j of the stack on, innermost first.  *)
EndsFrom(raw, open, j) == [i \in 1 .. Len(open) - j + 1 |-> End(raw, open[Len(open) - i + 1])]
Chain(seq) == {<<seq[i], seq[i + 1]>> : i \in 1 .. Len(seq) - 1}

(* create_node for node n, and the bookkeeping of parse_graph around it.   *)
CreateNode(raw, s, n) ==
  LET p == Last(s.run)
      sibling == p # 0 /\ raw[p].parent = raw[n].parent
      child == p = raw[n].parent
      j == Max({i \in DOMAIN s.open : raw[s.open[i]].parent = raw[n].parent} \cup {1})
      left == IF sibling \/ child THEN <<>> ELSE EndsFrom(raw, s.open, j)
      stay == IF sibling \/ child THEN s.open ELSE SubSeq(s.open, 1, j - 1)
  IN  [order |-> s.order \o Append(left, n),
       links |-> s.links \cup
                 (CASE sibling -> SiblingLinks(raw, s, n)
                    [] child -> {<<p, n>>}
                    [] OTHER -> {<<q, left[1]>> : q \in RunTail(raw, s.run)}
                                \cup Chain(Append(left, n))),
       run |-> IF sibling THEN Append(s.run, n) ELSE <<n>>,
       open |-> IF raw[n].kind = "loop" THEN Append(stay, n) ELSE stay]

(* parse_graph: all nodes, then the loops that are still open are ended.   *)
ParseGraph(raw) ==
  LET s == FoldLeft(LAMBDA acc, n : CreateNode(raw, acc, n), Start, [n \in DOMAIN raw |-> n])
      rest == EndsFrom(raw, s.open, 1)
  IN  [order |-> s.order \o rest,
       links |-> s.links \cup Chain(<<Last(s.run)>> \o rest)]

(* generate_tile_graph leaves out the root and the edge from it.           *)
TileGraphOf(raw) ==
  LET g == ParseGraph(raw)
  IN  [raw |-> raw, order |-> g.order, links |-> {e \in g.links : e[1] # 0}]
=============================================================================
