SPECIFICATION FairSpec
CONSTANTS
  o1 = o1
  o2 = o2
  leaf = leaf
  nil = nil
  Prim <- MCPrim
  Key <- MCKey
  Undefined = nil
  Root = o1
  Obj <- MCObj2
  Heaps <- ThinHeaps
  Methods <- MCMethods
  Indexes <- MCIndexes
  IdxSize = 16
  MaxDepth = 3
  MaxCalls = 1
INVARIANT PathLeadsToNode
PROPERTIES NextInOrder NextNodeStops
CHECK_DEADLOCK FALSE
