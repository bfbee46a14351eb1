---------------------------- MODULE MCImageWriter ----------------------------
(***************************************************************************)
(* The image writer over MCHeapWalk's heaps: two compiled methods, one of  *)
(* them native, two deferred calls, two deferred addresses (one flat), and *)
(* listener chains for the constants s1, a (two listeners) and b.  The     *)
(* object b is an interned string, reachable or not depending on the      *)
(* graph.  Immediates start at unaligned code offsets 8 bytes apart.       *)
(***************************************************************************)
EXTENDS MCHeapWalk, ImageWriter

CONSTANTS m1, m2

MCCodeBase == 1024

MCCompiled == m1 :> 0 @@ m2 :> 16

MCCalls == <<[method |-> m1, loc |-> 1], [method |-> m2, loc |-> 9]>>

MCAddresses ==
  <<[value |-> MCCodeBase + 16, loc |-> 17, flat |-> FALSE],
    [value |-> MCCodeBase + 40, loc |-> 25, flat |-> TRUE]>>

MCListeners ==
  s1 :> <<[loc |-> 33, flat |-> TRUE]>>
  @@ a :> <<[loc |-> 41, flat |-> FALSE], [loc |-> 49, flat |-> TRUE]>>
  @@ b :> <<[loc |-> 57, flat |-> FALSE]>>

(* The app loader's map holds no classes in these heaps; b and a are      *)
(* interned, so the tables hold an odd number of four-byte entries.        *)
MCAppClasses      == <<>>
MCInternedStrings == <<b, a>>

(* No constants; two, the second with a chain of two listeners; and a      *)
(* constant that only the constants list makes a root.                     *)
MCIWConstantLists == {<<>>, <<s1, a>>, <<b>>}

(* The tag bits sit just above BootShift.                                  *)
MCBootFlatConstant == 2^BootShift
MCBootHeapOffset   == 2^(BootShift + 1)
(* The header is a whole number of target words (spec 6: its fields have  *)
(* target word width): eight fields and a four-word thunks descriptor.     *)
MCHeaderSize == 12 * TargetBytesPerWord

(* One call table entry; the code ends after the last immediate, at a     *)
(* length that is not a multiple of a word.                                *)
MCCallCount == 1
MCCodeSize  == 65
=============================================================================
