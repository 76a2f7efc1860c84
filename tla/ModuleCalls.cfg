SPECIFICATION CallSpec
CONSTANTS
  root = root
  o1 = o1
  o2 = o2
  o3 = o3
  o4 = o4
  leaf = leaf
  nil = nil
  Obj <- MCObj
  Prim <- MCPrim
  Undefined = nil
  Key <- MCKey
  Root = root
  FirstName = 1
  MaxPath = 3
  MaxMade = 2
  MaxProps = 2
  DepthTop = 20
  NameRoom = 2
  Graphs <- MCGraphs
  Predicates <- MCPredicates
  Arguments <- MCArguments
  Systems <- MCSystems
  Paths <- MCPaths
  Absolutes <- MCAbsolutes
  Patterns <- MCPatterns
  Texts <- MCTexts
  Documents <- MCDocuments
  MaxLinks = 5
  Expressions <- MCExpressions
  Definitions <- MCDefinitions
  DefinedNames <- MCDefinedNames
  MaxRules = 3
  Part <- MCPart
  Installations <- MCInstallations
  Imports <- MCImports
  BuiltIn <- MCBuiltIn
  MaxImports = 3
INVARIANTS PathsLead SearchesShow ClonesEqual InspectsWhole PredicatesAnswer PathsResolve
INVARIANTS PathsRelate PatternsMatch XmlReadsBack RulesStand ImportsAgree
PROPERTY ImportsEnd
CHECK_DEADLOCK FALSE
