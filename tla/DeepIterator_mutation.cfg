SPECIFICATION FairSpec
CONSTANTS
  o1 = o1
  o2 = o2
  o3 = o3
  leaf = leaf
  nil = nil
  Obj <- MCObj2
  Prim <- MCNil
  Key <- MCKey
  Undefined = nil
  Heaps <- SmallHeap
  Root = o1
  MaxDepth = 9
  Mutable = TRUE
  MaxProps = 2
  MaxNested = 0
INVARIANTS TypeOK NoRepeatedAncestor FramesOnProperties NoAbort
PROPERTIES StrictlyForward NextReturns
