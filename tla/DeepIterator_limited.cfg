SPECIFICATION Spec
CONSTANTS
  o1 = o1
  o2 = o2
  o3 = o3
  leaf = leaf
  nil = nil
  Obj <- MCObj3
  Prim <- MCPrim
  Key <- MCKey
  Undefined = nil
  Heaps <- MostHeaps
  Root = o1
  MaxDepth = 2
  Mutable = FALSE
  MaxProps = 2
  MaxNested = 1
PROPERTY ImplementsWalk
CHECK_DEADLOCK FALSE
