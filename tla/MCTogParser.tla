------------------------------ MODULE MCTogParser ------------------------------
(* Kernels of the shapes the templates of PyTorchSimFrontend/mlir have,    *)
(* written as nests and turned into the node lists the compiler emits.     *)
EXTENDS TogParser

Blank == [kind |-> "", parent |-> 0, body |-> <<>>, idx |-> "", start |-> 0, end |-> 0, step |-> 1,
          type |-> "", addr |-> "", loops |-> <<>>, strides |-> <<>>, tagIdx |-> <<>>,
          tagStride |-> <<>>, tagDiv |-> <<>>]

For(type, x, end, step, nest) ==
  [Blank EXCEPT !.kind = "loop", !.type = type, !.idx = x, !.end = end, !.step = step, !.body = nest]
LoadOf(a, loops, strides, tagIdx, tagStride) ==
  [Blank EXCEPT !.kind = "load", !.addr = a, !.loops = loops, !.strides = strides,
                !.tagIdx = tagIdx, !.tagStride = tagStride]
StoreOf(a, loops, strides) ==
  [Blank EXCEPT !.kind = "store", !.addr = a, !.loops = loops, !.strides = strides]
WaitFor(a, tagIdx, tagStride, tagDiv) ==
  [Blank EXCEPT !.kind = "wait", !.addr = a, !.tagIdx = tagIdx, !.tagStride = tagStride, !.tagDiv = tagDiv]
Op(kind) == [Blank EXCEPT !.kind = kind]

RECURSIVE Listed(_, _, _)
Listed(nest, parent, first) ==
  IF nest = <<>> THEN <<>>
  ELSE LET mine == <<[Head(nest) EXCEPT !.parent = parent, !.body = <<>>]>>
                   \o Listed(Head(nest).body, first, first + 1)
       IN  mine \o Listed(Tail(nest), parent, first + Len(mine))
TogOf(nest) == TileGraphOf(Listed(nest, 0, 1))

Outer2(m, n, nest) == <<For("outer_loop", "m", m, 1, <<For("outer_loop", "n", n, 1, nest)>>)>>

(* A matrix multiplication: the bias, the accumulation loop with the loads *)
(* of the subtiles of X and W and the computation on them, the store.      *)
Bias == <<LoadOf("B", <<"m", "n">>, <<4, 2>>, <<"c0">>, <<1>>)>>
LoadX(fine) ==
  IF fine THEN <<For("inner_loop", "im", 4, 2, <<LoadOf("X", <<"m", "k", "im">>, <<8, 2, 1>>, <<"im">>, <<1>>)>>)>>
  ELSE <<LoadOf("X", <<"m", "k">>, <<8, 2>>, <<"c0">>, <<1>>)>>
WaitX(fine) ==
  IF fine THEN WaitFor("X", <<"k", "jm">>, <<-1, 1>>, <<1, 2>>)
  ELSE WaitFor("X", <<"k", "c0">>, <<-1, 1>>, <<1, 1>>)
LoadW == <<LoadOf("W", <<"k", "n">>, <<4, 1>>, <<"c0">>, <<1>>)>>
WaitW == WaitFor("W", <<"k", "c0">>, <<-1, 1>>, <<1, 1>>)
Multiply(fine) == <<For("inner_loop", "jm", 4, 2, <<WaitX(fine), WaitW, Op("comp")>>)>>
Accumulate(fine) == <<For("accumulation_loop", "k", 4, 2, LoadX(fine) \o LoadW \o Multiply(fine))>>
StoreY == <<StoreOf("Y", <<"m", "n">>, <<4, 2>>)>>
Gemm(bias, fine) ==
  Outer2(2, 2, (IF bias THEN Bias ELSE <<Op("comp")>>) \o Accumulate(fine) \o StoreY)

(* A convolution: nested accumulation loops. *)
Conv == Outer2(1, 2,
  <<Op("comp"),
    For("accumulation_loop", "kh", 2, 1, <<For("accumulation_loop", "kw", 2, 1,
      <<LoadOf("X", <<"m", "kh", "kw">>, <<8, 2, 1>>, <<"c0">>, <<1>>),
        LoadOf("W", <<"kh", "kw", "n">>, <<8, 4, 1>>, <<"c0">>, <<1>>),
        For("inner_loop", "oh", 2, 1, <<For("inner_loop", "ow", 2, 1,
          <<WaitFor("X", <<"kh", "kw", "c0">>, <<-1, -1, 1>>, <<1, 1, 1>>),
            WaitFor("W", <<"kh", "kw", "c0">>, <<-1, -1, 1>>, <<1, 1, 1>>), Op("comp")>>)>>)>>)>>)>>
  \o StoreY)

(* A pointwise kernel, with a plain loop around the vector operations. *)
Elementwise == <<For("outer_loop", "m", 3, 1,
  <<LoadOf("X", <<"m">>, <<4>>, <<"c0">>, <<1>>), LoadOf("W", <<"m">>, <<4>>, <<"c0">>, <<1>>),
    WaitFor("X", <<"c0">>, <<1>>, <<1>>), WaitFor("W", <<"c0">>, <<1>>, <<1>>),
    For("normal_loop", "v", 2, 1, <<Op("comp")>>), StoreOf("Y", <<"m">>, <<4>>)>>)>>

(* Two sums over the same tile: the second reads what is there already. *)
TwoPass == <<For("outer_loop", "m", 2, 1,
  <<LoadOf("X", <<"m">>, <<4>>, <<"c0">>, <<1>>), WaitFor("X", <<"c0">>, <<1>>, <<1>>), Op("comp"),
    For("normal_loop", "v", 2, 1, <<Op("comp")>>),
    LoadOf("X", <<"m">>, <<4>>, <<"c0">>, <<1>>), WaitFor("X", <<"c0">>, <<1>>, <<1>>), Op("comp"),
    StoreOf("Y", <<"m">>, <<4>>)>>)>>

(* A STONNE layer and the replay of its trace. *)
Layer == <<For("outer_loop", "m", 1, 1, <<Op("stonne")>>)>>
Trace == <<For("outer_loop", "m", 2, 1, <<Op("trace_load"), Op("trace_comp"), Op("trace_store")>>)>>

(* Shapes the parser fails on: a second nest, a nest whose first loop is   *)
(* not parallel, parallel siblings of which the second names its own index.*)
Second == Outer2(1, 1, StoreY) \o <<Op("comp")>>
NoOuter == <<For("normal_loop", "v", 2, 1, <<Op("comp")>>)>>
Siblings == <<For("outer_loop", "m", 1, 1,
  <<For("outer_loop", "n", 1, 1, StoreY), For("outer_loop", "p", 1, 1, <<StoreOf("Y", <<"p">>, <<1>>)>>)>>)>>

MCGraphs == {TogOf(nest) : nest \in {Gemm(TRUE, TRUE), Gemm(FALSE, FALSE), Conv, Elementwise, TwoPass,
                                     Layer, Trace, Second, NoOuter, Siblings, <<>>}}
MCLiterals == [x \in {"c0"} |-> 0]
MCAddressInfo == [x \in {"X", "W", "Y"} |-> CASE x = "X" -> 0 [] x = "W" -> 32 [] x = "Y" -> 64]
MCPlans == {<<>>, <<Interval(32, 40)>>, <<Interval(70, 64), Interval(0, 9), Interval(20, 30)>>,
            <<Interval(0, 3), Interval(31, 31), Interval(34, 38), Interval(68, 80)>>}
=============================================================================
