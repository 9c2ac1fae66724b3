\* Routes and requests in every order, and the loops on all short texts.
SPECIFICATION Spec
CONSTANTS
  Names <- MCNames
  Upper <- MCUpper
  Routes <- MCRoutes
  Paths <- MCPaths
  TagOrder <- MCTagOrder
  Groups <- MCGroups
  NoMatch = NoMatch
  Callbacks = {f, g}
  NoCallback = NoCallback
  MaxRoutes = 3
  Symbols <- MCSymbols
  MaxLength = 6
INVARIANTS
  TypeOK
  MissedOnlyWhenDiverted
  RoutesAreReadAsWritten
PROPERTY IsRouteTable
