---------------------------- MODULE MCObjectCopy ----------------------------
(***************************************************************************)
(* Objects for copy() to transcribe, their TypeMaps made by the TypeMaps  *)
(* builders: an instance of a class with int, char, reference and long     *)
(* fields; one with byte, short and double fields; a static table with a   *)
(* float and a reference; a constant pool with Class, Integer, Float, Long *)
(* and Utf8 entries; and a VM type with a uint16_t array tail.  Each has  *)
(* the host bytes of several field values (Seeds), every value wider than  *)
(* its first byte so that width and byte order matter.                     *)
(***************************************************************************)
EXTENDS ObjectCopy

CONSTANT Seeds

Ref(w)  == [width |-> w, kind |-> "ref"]
Scalar(w)  == [width |-> w, kind |-> "int"]
Flt(w)  == [width |-> w, kind |-> "float"]
Word(w)  == [width |-> w, kind |-> "word"]
Len0(w) == [width |-> w, kind |-> "len"]

(* The value the source object holds at build offset off, least         *)
(* significant byte first: every byte differs, so that width and byte     *)
(* order matter.                                                           *)
ValueOf(off, t, seed, count) ==
  IF t.kind = "len" THEN [k \in 1..t.width |-> IF k = 1 THEN count ELSE 0]
  ELSE [k \in 1..t.width |-> (off * 7 + seed * 31 + k * 13 + 1) % 256]

(* The host bytes of an object of size bytes whose fields are truth.       *)
SrcOf(truth, size, seed, count) ==
  [b \in 0..(size - 1) |->
     LET at == {o \in DOMAIN truth : o <= b /\ b < o + truth[o].width}
     IN IF at = {} THEN 0
        ELSE LET o == CHOOSE o \in at : TRUE
             IN LowFirst(ValueOf(o, truth[o], seed, count), HostLittleEndian)[b - o + 1]]

MembersMap ==
  ClassMembersMap(<<[code |-> "int",    static |-> FALSE, offset |-> 4],
                    [code |-> "char",   static |-> FALSE, offset |-> 8],
                    [code |-> "object", static |-> FALSE, offset |-> 12],
                    [code |-> "long",   static |-> FALSE, offset |-> 16]>>, 24)
MembersTruth ==
  (0 :> Ref(4)) @@ (4 :> Scalar(4)) @@ (8 :> Scalar(2)) @@ (12 :> Ref(4)) @@ (16 :> Scalar(8))

SmallMap ==
  ClassMembersMap(<<[code |-> "byte",   static |-> FALSE, offset |-> 4],
                    [code |-> "short",  static |-> FALSE, offset |-> 6],
                    [code |-> "double", static |-> FALSE, offset |-> 8]>>, 16)
SmallTruth == (0 :> Ref(4)) @@ (4 :> Scalar(1)) @@ (6 :> Scalar(2)) @@ (8 :> Flt(8))

StaticsMap ==
  ClassStaticsMap(<<[code |-> "float",  static |-> TRUE, offset |-> 8],
                    [code |-> "object", static |-> TRUE, offset |-> 12]>>, 2)
StaticsTruth == (0 :> Ref(4)) @@ (4 :> Word(4)) @@ (8 :> Flt(4)) @@ (12 :> Ref(4))

(* Slots 2..7: Class, Integer, Float, Long (two slots), Utf8.              *)
ConstPoolMap == PoolMap(6, <<"Class", "Integer", "Float", "Long", "Utf8">>)
PoolTruth ==
  (0 :> Ref(4)) @@ (4 :> Word(4)) @@ (8 :> Ref(4)) @@ (12 :> Scalar(4))
    @@ (16 :> Flt(4)) @@ (20 :> Scalar(8)) @@ (28 :> Ref(4))

CharArrayMap == DescriptorMap(<<"uintptr_t", "array", "uint16_t">>)
CharArrayTruth == (0 :> Ref(4)) @@ (4 :> Len0(4)) @@ (8 :> Scalar(2)) @@ (10 :> Scalar(2))

Input(map, truth, size, seed, count) ==
  [map |-> map, truth |-> truth, src |-> SrcOf(truth, size, seed, count)]

(* Every kind of TypeMap and every field type copy() distinguishes.        *)
MCInputs ==
  UNION {{Input(MembersMap, MembersTruth, 24, s, 0),
          Input(SmallMap, SmallTruth, 16, s, 0),
          Input(StaticsMap, StaticsTruth, 16, s, 0),
          Input(ConstPoolMap, PoolTruth, 32, s, 0),
          Input(CharArrayMap, CharArrayTruth, 12, s, 2)} : s \in Seeds}

(* The objects with a char or short field.                                 *)
MCCharInputs ==
  UNION {{Input(MembersMap, MembersTruth, 24, s, 0),
          Input(SmallMap, SmallTruth, 16, s, 0)} : s \in Seeds}

MCPoolInputs == {Input(ConstPoolMap, PoolTruth, 32, s, 0) : s \in Seeds}
(* The objects without a char or short field.                              *)
MCWideInputs ==
  UNION {{Input(StaticsMap, StaticsTruth, 16, s, 0),
          Input(ConstPoolMap, PoolTruth, 32, s, 0),
          Input(CharArrayMap, CharArrayTruth, 12, s, 2)} : s \in Seeds}
=============================================================================
