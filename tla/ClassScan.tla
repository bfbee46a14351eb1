------------------------------ MODULE ClassScan ------------------------------
(***************************************************************************)
(* The CLI and the class-by-class scan of makeCodeImage: main (1331-1387)  *)
(* checks the argument count and opens the output; makeCodeImage          *)
(* (166-478) iterates the classpath entries, resolves each selected class, *)
(* registers its pool, member and static-table TypeMaps, compiles each     *)
(* selected method and resolves its declared exception types; then         *)
(* writeBootImage2 installs the VM type descriptors' maps (1023-1155).     *)
(*                                                                         *)
(* A class name is a sequence of letters; an entry is [stem, isClass],     *)
(* isClass standing for endsWith(".class", name, nameSize).  The layouts   *)
(* of the maps are TypeMaps' business: here a TypeMap is known by its key  *)
(* and by who made it.  What the VM does (class loading, the compiler) is  *)
(* given by the constants.                                                 *)
(***************************************************************************)
EXTENDS Naturals, Sequences, SequencesExt, FiniteSets

CONSTANTS
  Classpaths,   \* classpath argument -> the Finder's entries in iteration
                \*   order: Seq([stem, isClass])
  Classes,      \* stem -> [super, statics, fields, methods]; methods:
                \*   Seq([name, spec, code, native, throws]); super a stem or NoArg
  VMTypes,      \* the stems whose class is a VM type (a descriptor map)
  ArgVectors,   \* the argument vectors main may get: Seq of strings
  NoArg         \* a null char* (an absent argument, no superclass)

VARIABLES
  argv,       \* av[1..ac - 1]
  stage,      \* "main", "scan", "methods", "types", "done", "exit"
  i,          \* the entry of the Finder iteration
  cls,        \* the class whose methods are being scanned
  j,          \* the method of cls
  loaded,     \* the classes the VM has loaded
  typeMaps,   \* key -> "scan" or "descriptor": the typeMaps hash map
  compiled,   \* the methods <<class, index>> handed to compileMethod
  exit        \* main's return value, NoArg while running

csVars == <<argv, stage, i, cls, j, loaded, typeMaps, compiled, exit>>

(* ac > k ? av[k] : 0                                                      *)
Arg(k) == IF Len(argv) >= k THEN argv[k] ELSE NoArg

className  == Arg(3)
classpath  == Arg(1)
methodName == Arg(4)
methodSpec == Arg(5)

(* makeFinder(s, h, av[1], 0): the entries, and the classes the VM finds.  *)
Entries  == Classpaths[classpath]
Findable == {Entries[n].stem : n \in {n \in DOMAIN Entries : Entries[n].isClass}}

(* A class and its superclasses: resolving a class loads them all.         *)
RECURSIVE Chain(_)
Chain(c) == {c} \cup (IF Classes[c].super = NoArg THEN {} ELSE Chain(Classes[c].super))

(* Variant: the class filter as the spec states it, names equal.           *)
classSelectedExact(stem) == className = NoArg \/ stem = className

(* className == 0 or strncmp(name, className, nameSize - 6) == 0: the      *)
(* first nameSize - 6 characters of className equal the stem; className   *)
(* is NUL-terminated, so it must be at least as long.                      *)
classSelected(stem) == className = NoArg \/ IsPrefix(stem, className)

(* (methodName == 0 or strcmp(...) == 0) and (methodSpec == 0 or ...).     *)
methodSelected(m) ==
  /\ methodName = NoArg \/ m.name = methodName
  /\ methodSpec = NoArg \/ m.spec = methodSpec

(* The maps registered for one class: its pool's (if count, keyed through *)
(* PoolMap), the members map if it has a field table, and, inside that     *)
(* branch, the static table's map if it has one.  hashMapInsert prepends,  *)
(* so the newest entry for a key is the one found.                         *)
ClassMaps(c) ==
  {<<c, "pool">>}
    \cup (IF Classes[c].fields
          THEN {<<c, "class">>} \cup (IF Classes[c].statics THEN {<<c, "statics">>} ELSE {})
          ELSE {})

Insert(tm, keys, who) == [k \in keys |-> who] @@ tm

-----------------------------------------------------------------------------
(* main: the argument count check, then fopen of av[2], which may fail.    *)
Main ==
  /\ stage = "main"
  /\ \/ /\ Len(argv) + 1 < 3 \/ Len(argv) + 1 > 6
        /\ exit' = -1 /\ stage' = "exit"
     \/ /\ Len(argv) + 1 \in 3..6
        /\ \E opened \in BOOLEAN :
             IF opened THEN stage' = "scan" /\ UNCHANGED exit
             ELSE exit' = -1 /\ stage' = "exit"
  /\ UNCHANGED <<argv, i, cls, j, loaded, typeMaps, compiled>>

(* One iteration of the Finder loop: a selected .class entry is resolved  *)
(* and its TypeMaps registered, then its methods are scanned.              *)
ScanEntry ==
  /\ stage = "scan"
  /\ i <= Len(Entries)
  /\ LET e == Entries[i]
     IN IF e.isClass /\ classSelected(e.stem)
        THEN /\ loaded' = loaded \cup Chain(e.stem)
             /\ typeMaps' = Insert(typeMaps, ClassMaps(e.stem), "scan")
             /\ cls' = e.stem /\ j' = 1 /\ stage' = "methods"
             /\ UNCHANGED i
        ELSE /\ i' = i + 1
             /\ UNCHANGED <<loaded, typeMaps, cls, j, stage>>
  /\ UNCHANGED <<argv, compiled, exit>>

ScanMethod ==
  /\ stage = "methods"
  /\ LET ms == Classes[cls].methods
     IN IF j <= Len(ms)
        THEN LET m == ms[j]
             IN IF ~methodSelected(m)
                THEN j' = j + 1 /\ UNCHANGED <<i, loaded, compiled, stage, exit>>
                ELSE /\ compiled' = compiled \cup
                                      (IF m.code \/ m.native THEN {<<cls, j>>} ELSE {})
                     /\ IF m.throws \subseteq Findable
                        THEN /\ loaded' = loaded \cup UNION {Chain(x) : x \in m.throws}
                             /\ j' = j + 1
                             /\ UNCHANGED <<i, stage, exit>>
                        ELSE exit' = -1 /\ stage' = "exit" /\ UNCHANGED <<i, loaded, j>>
        ELSE i' = i + 1 /\ stage' = "scan" /\ UNCHANGED <<j, loaded, compiled, exit>>
  /\ UNCHANGED <<argv, cls, typeMaps>>

(* After the scan (and the call and address passes of ImageWriter), the    *)
(* descriptor loop hashMapInsertOrReplace's the map of every VM type.      *)
InstallTypes ==
  /\ stage = "scan"
  /\ i > Len(Entries)
  /\ typeMaps' = Insert(typeMaps, {<<t, "class">> : t \in VMTypes}, "descriptor")
  /\ stage' = "done"
  /\ UNCHANGED <<argv, i, cls, j, loaded, compiled, exit>>

(* The rest of writeBootImage2 (ImageWriter) runs; run() returns with no   *)
(* exception and main returns 0.                                           *)
Finish ==
  /\ stage = "done"
  /\ exit' = 0 /\ stage' = "exit"
  /\ UNCHANGED <<argv, i, cls, j, loaded, typeMaps, compiled>>

Init ==
  /\ argv \in ArgVectors
  /\ stage = "main"
  /\ i = 1 /\ cls = NoArg /\ j = 1
  /\ loaded = UNION {Chain(t) : t \in VMTypes}   \* the Machine's bootstrap types
  /\ typeMaps = [k \in {} |-> "scan"]
  /\ compiled = {}
  /\ exit = NoArg

Next == Main \/ ScanEntry \/ ScanMethod \/ InstallTypes \/ Finish

(* One thread runs main to its end.                                        *)
Spec == Init /\ [][Next]_csVars /\ WF_csVars(Next)
-----------------------------------------------------------------------------
(* The methods spec line 177 says are compiled: with no filters every     *)
(* method with code (or native), with filters only those of the named     *)
(* class whose name and spec match.                                        *)
Intended ==
  LET wanted(c, k) == LET m == Classes[c].methods[k]
                      IN /\ methodName \in {NoArg, m.name}
                         /\ methodSpec \in {NoArg, m.spec}
                         /\ m.code \/ m.native
  IN UNION {{<<c, k>> : k \in {k \in DOMAIN Classes[c].methods : wanted(c, k)}} :
              c \in {c \in Findable : classSelectedExact(c)}}

(* When main returns 0, compileMethod was called on exactly the methods    *)
(* the command line selects (spec 177): the class filter of the Finder     *)
(* loop and the name and spec filters of the method loop together.         *)
CompiledExactly == exit = 0 => compiled = Intended

(* When main returns 0, every loaded class that has a static table has a  *)
(* TypeMap for it: the heap walk copies each static table through          *)
(* typeMap(), which does not check that hashMapFind found one (spec 205:   *)
(* an object lacking a TypeMap is an InvariantViolation).                  *)
TypeMapsCoverHeap ==
  exit = 0 => \A c \in loaded : Classes[c].statics => <<c, "statics">> \in DOMAIN typeMaps

=============================================================================
