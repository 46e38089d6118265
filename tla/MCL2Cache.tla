------------------------------ MODULE MCL2Cache ------------------------------
(* A slice of two ways in four configurations.                              *)
(*   back     write back: a sector of block a is read and written, b is     *)
(*            read and c written, so that the three push each other out     *)
(*   through  write through, one MSHR that merges nothing, a memory that    *)
(*            reorders: a read and a write of one sector and a read of b,   *)
(*            whose tag a fresh line may hold                               *)
(*   evict    write evict without allocation: two sectors of a, one read    *)
(*            and written, and an uncacheable read of it                    *)
(*   whole    the shape of back in a cache of whole lines                   *)
EXTENDS L2Cache
CONSTANTS r1, r2, r3, r4, r5, r6, a, b, c
MCBlockOf == (r1 :> a) @@ (r2 :> a) @@ (r3 :> b) @@ (r4 :> a) @@ (r5 :> c) @@ (r6 :> a)
MCSectorOf == [r \in Requests |-> IF r = r4 THEN 1 ELSE 0]
MCCoreOf == [r \in Requests |-> 0]

back == [write |-> "B", allocate |-> TRUE, sectored |-> TRUE,
         entries |-> 4, merge |-> 2, reorders |-> FALSE, load |-> {r1, r2, r3, r5},
         fresh |-> {None}]
through == [write |-> "T", allocate |-> TRUE, sectored |-> TRUE,
            entries |-> 1, merge |-> 1, reorders |-> TRUE, load |-> {r1, r2, r3},
            fresh |-> {None, b}]
evict == [write |-> "E", allocate |-> FALSE, sectored |-> TRUE,
          entries |-> 2, merge |-> 2, reorders |-> FALSE, load |-> {r1, r2, r4, r6},
          fresh |-> {None}]
whole == [write |-> "B", allocate |-> TRUE, sectored |-> FALSE,
          entries |-> 2, merge |-> 2, reorders |-> TRUE, load |-> {r1, r3, r5},
          fresh |-> {None}]
MCSetups == {back, through, evict, whole}
=============================================================================
