CONSTANTS
  File <- MCFile
  MaxSections = 2
SPECIFICATION Spec
INVARIANTS TypeOK RoutesServed FirstBridgeServes
