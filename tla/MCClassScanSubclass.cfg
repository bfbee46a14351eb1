CONSTANTS
  NoArg = NoArg
  Classes <- MCClasses
  Classpaths <- MCClasspaths
  VMTypes <- MCVMTypes
  ArgVectors <- MCSubclassArgs
SPECIFICATION Spec
INVARIANTS
  TypeMapsCoverHeap
CHECK_DEADLOCK FALSE
