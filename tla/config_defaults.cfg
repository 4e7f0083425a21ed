CONSTANTS
  File <- MCFile
  MaxSections = 2
SPECIFICATION Spec
INVARIANT DefaultsApplied
