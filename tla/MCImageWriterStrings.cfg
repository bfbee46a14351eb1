\* 32-bit little-endian host writing an image for a 64-bit little-endian target.
CONSTANTS
  BytesPerWord = 4
  TargetBytesPerWord = 8
  HostLittleEndian = TRUE
  TargetLittleEndian = TRUE
  c1 = c1
  s1 = s1
  bl = bl
  al = al
  a = a
  b = b
  arr = arr
  Null = Null
  Obj <- MCObj
  MapOf <- MCMapOf
  ArrayLength <- MCArrayLength
  ClassType = {c1}
  SystemClassLoaders = {bl, al}
  ClassStaticTable <- MCClassStaticTable
  BootClasses <- MCBootClasses
  BootLoader = bl
  AppLoader = al
  Types = arr
  Heaps <- MCHeaps
  ConstantLists <- MCIWConstantLists
  \* 38 words: every walk fits (all seven objects take 37 words).
  Capacity = 38
  FixedMark = 1
  BootShift = 6
  Layout <- MCLayout
  m1 = m1
  m2 = m2
  CodeBase <- MCCodeBase
  NativeThunk = 48
  NativeMethods = {m2}
  Compiled <- MCCompiled
  Calls <- MCCalls
  Addresses <- MCAddresses
  Listeners <- MCListeners
  AppClasses <- MCAppClasses
  InternedStrings <- MCInternedStrings
  BootFlatConstant <- MCBootFlatConstant
  BootHeapOffset <- MCBootHeapOffset
  HeaderSize <- MCHeaderSize
  CallCount <- MCCallCount
  CodeSize <- MCCodeSize

SPECIFICATION IWSpec
CHECK_DEADLOCK FALSE
INVARIANT
  StringTableResolved
