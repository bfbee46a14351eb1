CONSTANTS
  NoArg = NoArg
  Classes <- MCClasses
  Classpaths <- MCClasspaths
  VMTypes <- MCVMTypes
  ArgVectors <- MCPrefixArgs
SPECIFICATION Spec
INVARIANTS
  CompiledExactly
CHECK_DEADLOCK FALSE
