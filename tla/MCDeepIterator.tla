---------------------------- MODULE MCDeepIterator ----------------------------
EXTENDS DeepIterator, FiniteSets

CONSTANTS o1, o2, o3, leaf, nil

MCObj2 == {o1, o2}
MCObj3 == {o1, o2, o3}
MCPrim == {leaf, nil}
MCNil == {nil}
MCKey == 1..2

\* the objects whose properties are named 1, 2, ... in this order
ObjectsOver(vals) ==
  UNION {{[i \in 1..n |-> [key |-> i, val |-> f[i]]] : f \in [1..n -> vals]} : n \in 0..2}

\* every graph of two objects with at most two properties each
AllHeaps == [Obj -> ObjectsOver(Obj \cup {leaf})]

\* every graph of three objects with at most two properties each, the third
\* with at most one
MostHeaps == {h \in AllHeaps : Len(h[o3]) <= 1}

\* one cyclic graph to start from; the program builds the others itself
SmallHeap == {[o \in Obj |-> << [key |-> 1, val |-> o1] >>]}
=============================================================================
