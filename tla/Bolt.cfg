SPECIFICATION Spec
CONSTANTS
  Keys = {1, 2}
  Readers = {r1, r2}
  MaxTx = 3
  MaxCrashes = 1
  MapSizes = {6, 10, 20, 40}
  Faults = {"write", "metatorn"}
INVARIANTS TypeOK NoPageReuse CheckClean NoDoubleFree
PROPERTY ImplementsStore
SYMMETRY Symmetry
