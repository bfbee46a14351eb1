----------------------------- MODULE MCHeapWalk -----------------------------
(***************************************************************************)
(* A heap for HeapWalk: a class c1 with its static table s1, the boot and  *)
(* app class loaders bl and al (system class loaders), two plain objects a *)
(* and b, and the type array arr.  Every object's class word refers to c1. *)
(* The layouts are built by the TypeMaps builders, so host and target      *)
(* offsets differ whenever the two word sizes do.                          *)
(***************************************************************************)
EXTENDS HeapWalk

CONSTANTS c1, s1, bl, al, a, b, arr

MCObj == {c1, s1, bl, al, a, b, arr}

(* Machine::ClassType: static table, flags, one more reference.            *)
ClassTypeMap  == DescriptorMap(<<"object", "int32_t", "object">>)
(* A plain type with two ints before two references.                       *)
PairMap       == DescriptorMap(<<"int32_t", "int32_t", "object", "object">>)
(* SystemClassLoader: one reference (its class map).                       *)
LoaderMap     == DescriptorMap(<<"object">>)
(* An object array: length word, then reference elements.                  *)
ArrayMap      == DescriptorMap(<<"uintptr_t", "array", "object">>)
(* c1's statics: a long and a reference, at the VM's host offsets.         *)
StaticsMap    ==
  ClassStaticsMap(<<[code |-> "long", static |-> TRUE, offset |-> 2 * BytesPerWord],
                    [code |-> "object", static |-> TRUE,
                     offset |-> 2 * BytesPerWord + 8]>>,
                  1 + 8 \div BytesPerWord)

MCMapOf == [o \in MCObj |->
             CASE o = c1 -> ClassTypeMap
               [] o = s1 -> StaticsMap
               [] o \in {bl, al} -> LoaderMap
               [] o \in {a, b} -> PairMap
               [] o = arr -> ArrayMap]

MCArrayLength == [o \in MCObj |-> IF o = arr THEN 2 ELSE 0]

(* The build offset of a class's static table: its first declared field.  *)
MCClassStaticTable == BytesPerWord

(* The n-th (1-based) reference field of a map, by build offset.           *)
RefAt(m, n) ==
  Ascending({f.offset : f \in {g \in Range(m.fields) : g.type = "object"}})[n]

(* The graphs: the class word of everything is c1, c1's static table is    *)
(* s1, the boot loader's map is c1; the other references vary.  A static   *)
(* table is referred to only by its class and by compiled code constants.  *)
MCHeaps ==
  {[o \in MCObj |->
     CASE o = c1 -> (0 :> c1) @@ (RefAt(ClassTypeMap, 2) :> s1)
                    @@ (RefAt(ClassTypeMap, 3) :> a)
       [] o = s1 -> (0 :> c1) @@ (RefAt(StaticsMap, 2) :> sv)
       [] o = bl -> (0 :> c1) @@ (BytesPerWord :> c1)
       [] o = al -> (0 :> c1) @@ (BytesPerWord :> am)
       [] o = a  -> (0 :> c1) @@ (RefAt(PairMap, 2) :> fa[1]) @@ (RefAt(PairMap, 3) :> fa[2])
       [] o = b  -> (0 :> c1) @@ (RefAt(PairMap, 2) :> fb[1]) @@ (RefAt(PairMap, 3) :> fb[2])
       [] o = arr -> (0 :> c1) @@ (2 * BytesPerWord :> a) @@ (3 * BytesPerWord :> ae)]
   : sv \in {Null, b}, am \in {Null, arr}, ae \in {Null, b},
     fa \in {Null, a, b} \X {Null, a, b}, fb \in {Null, a, b} \X {Null, a, b}}

MCConstantLists == {<<>>, <<s1>>, <<a>>}

MCBootClasses == <<c1>>

(* LayoutOf for these maps with a 4-byte host and an 8-byte target,      *)
(* written out: HeapWalk's ASSUME checks that it is LayoutOf.             *)
MCLayout ==
  ( c1 :>
        [ offsets |-> {0, 4, 12},
          refs |-> <<0, 4, 12>>,
          size |-> 4,
          body |-> (0 :> 0 @@ 1 :> 0 @@ 2 :> -2 @@ 3 :> 0),
          slot |-> (0 :> 0 @@ 4 :> 1 @@ 12 :> 3) ] @@
    s1 :>
        [ offsets |-> {0, 16},
          refs |-> <<0, 16>>,
          size |-> 5,
          body |-> (0 :> 0 @@ 1 :> -2 @@ 2 :> -2 @@ 3 :> 0 @@ 4 :> -4),
          slot |-> (0 :> 0 @@ 16 :> 3) ] @@
    bl :>
        [ offsets |-> {0, 4},
          refs |-> <<0, 4>>,
          size |-> 2,
          body |-> (0 :> 0 @@ 1 :> 0),
          slot |-> (0 :> 0 @@ 4 :> 1) ] @@
    al :>
        [ offsets |-> {0, 4},
          refs |-> <<0, 4>>,
          size |-> 2,
          body |-> (0 :> 0 @@ 1 :> 0),
          slot |-> (0 :> 0 @@ 4 :> 1) ] @@
    a :>
        [ offsets |-> {0, 12, 16},
          refs |-> <<0, 12, 16>>,
          size |-> 4,
          body |-> (0 :> 0 @@ 1 :> -2 @@ 2 :> 0 @@ 3 :> 0),
          slot |-> (0 :> 0 @@ 12 :> 2 @@ 16 :> 3) ] @@
    b :>
        [ offsets |-> {0, 12, 16},
          refs |-> <<0, 12, 16>>,
          size |-> 4,
          body |-> (0 :> 0 @@ 1 :> -2 @@ 2 :> 0 @@ 3 :> 0),
          slot |-> (0 :> 0 @@ 12 :> 2 @@ 16 :> 3) ] @@
    arr :>
        [ offsets |-> {0, 8, 12},
          refs |-> <<0, 8, 12>>,
          size |-> 4,
          body |-> (0 :> 0 @@ 1 :> -2 @@ 2 :> 0 @@ 3 :> 0),
          slot |-> (0 :> 0 @@ 8 :> 2 @@ 12 :> 3) ] )
=============================================================================
