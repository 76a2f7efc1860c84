----------------------------- MODULE MCTreeWalker -----------------------------
EXTENDS TreeWalker

CONSTANTS o1, o2, leaf, nil

MCObj2 == {o1, o2}
MCPrim == {leaf, nil}
MCKey == 1..2
MCMethods == AllMethods

\* before the first property, on the second by way of 2^32 + 1, and behind it
MCIndexes == {-1, 17, 2}

\* the objects whose properties are named 1, 2, ... in this order
ObjectsOver(vals) ==
  UNION {{[i \in 1..n |-> [key |-> i, val |-> f[i]]] : f \in [1..n -> vals]} : n \in 0..2}

AllHeaps == [Obj -> ObjectsOver(Obj \cup {leaf})]

\* every graph of the objects, the root with at most two properties and the
\* others with at most one
ThinHeaps == {h \in AllHeaps : \A o \in Obj \ {o1} : Len(h[o]) <= 1}
=============================================================================
