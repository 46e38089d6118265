------------------------------ MODULE MCNpuCore ------------------------------
(* Two sibling tiles and a child tile of the first.  T1 loads x without    *)
(* waiting and s synchronously, waits for x, multiplies and stores.  T2     *)
(* needs x too, so its load is skipped or waits; the oracle times its load  *)
(* d and its store e, and its vector operation takes no cycle.  T3 loads a  *)
(* sparse tile, whose matrix product becomes free, waits for x as well and  *)
(* has a synchronous load g that the oracle times.                          *)
EXTENDS NpuCore, TLC

MCTileSucc == "T1" :> {"T3"} @@ "T2" :> {} @@ "T3" :> {}
T1 == {"a", "s", "b", "c", "o"}
T2 == {"d", "e", "f", "a2", "b2", "c2"}
MCTileOf == [i \in Insts |-> IF i \in T1 THEN "T1" ELSE IF i \in T2 THEN "T2" ELSE "T3"]
MCSucc == "a" :> {"b"} @@ "s" :> {"c"} @@ "b" :> {"c"} @@ "c" :> {"o"} @@ "o" :> {}
          @@ "d" :> {"f"} @@ "f" :> {"c2"} @@ "a2" :> {"b2"} @@ "b2" :> {"c2"}
          @@ "c2" :> {"e"} @@ "e" :> {}
          @@ "p" :> {"q"} @@ "q" :> {"m"} @@ "r" :> {"m"} @@ "g" :> {"m"} @@ "m" :> {}
MCOp == [i \in Insts |-> CASE i \in {"a", "s", "a2", "d", "g", "p"} -> "MOVIN"
                           [] i \in {"e", "o"} -> "MOVOUT"
                           [] i \in {"b", "b2", "f", "q", "r"} -> "BAR"
                           [] OTHER -> "COMP"]
MCUnit == "c" :> "MATMUL" @@ "c2" :> "VU" @@ "m" :> "MATMUL"
MCTag == "a" :> "x" @@ "b" :> "x" @@ "a2" :> "x" @@ "b2" :> "x"
         @@ "s" :> "s" @@ "d" :> "d" @@ "f" :> "d" @@ "g" :> "g" @@ "p" :> "y" @@ "q" :> "y" @@ "r" :> "x"
MCRequests == "a" :> 2 @@ "s" :> 2 @@ "a2" :> 2 @@ "o" :> 2 @@ "d" :> 2 @@ "e" :> 2 @@ "g" :> 1 @@ "p" :> 1
=============================================================================
