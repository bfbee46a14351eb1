------------------------------ MODULE TypeMaps ------------------------------
(***************************************************************************)
(* Components B, C and D as operators: the three ways bootimage.cpp builds *)
(* a TypeMap (from a VM type descriptor, from a class's field table, from a *)
(* class file's constant pool), the size and offset calculator that reads  *)
(* a TypeMap, and the word-level effect of copying one object with it.     *)
(*                                                                         *)
(* A TypeMap is a record with the fields of class TypeMap, plus "fields"   *)
(* (the fixedFields() array) and "targetFixedOffsets" (the table indexed   *)
(* by build byte offset, 0 where no field starts: the map lives in a       *)
(* zero-filled byte array).                                                *)
(***************************************************************************)
EXTENDS Abi, SequencesExt, TLC

Field(type, offset, targetOffset) ==
  [type |-> type, offset |-> offset, targetOffset |-> targetOffset]

(* The TypeMap constructor followed by the loop that fills                 *)
(* targetFixedOffsets() and fixedFields(); a later field at the same build *)
(* offset overwrites an earlier one, as the loop does.                     *)
MakeTypeMap(bfw, tfw, fields, kind, baes, taes, aet) ==
  [buildFixedSizeInWords         |-> bfw,
   targetFixedSizeInWords        |-> tfw,
   fixedFieldCount               |-> Len(fields),
   fields                        |-> fields,
   targetFixedOffsets            |->
     [b \in 0..(bfw * BytesPerWord - 1) |->
        LET at == {i \in DOMAIN fields : fields[i].offset = b}
        IN IF at = {} THEN 0 ELSE fields[Max(at)].targetOffset],
   buildArrayElementSizeInBytes  |-> baes,
   targetArrayElementSizeInBytes |-> taes,
   arrayElementType              |-> aet,
   kind                          |-> kind]

(* The expect() in every fill loop: each field starts inside the prefix.  *)
FieldsInPrefix(map) ==
  \A i \in DOMAIN map.fields :
    map.fields[i].offset < map.buildFixedSizeInWords * BytesPerWord

-----------------------------------------------------------------------------
(* (c) VM type descriptors, writeBootImage2 lines 1025-1155.               *)

(* The switch on source[j - 1]: the normalised tag and its sizes.          *)
DescriptorTag(tag) ==
  CASE tag = "object" ->
         [type |-> "object", buildSize |-> BytesPerWord, targetSize |-> TargetBytesPerWord]
    [] tag \in {"word", "intptr_t", "uintptr_t"} ->
         [type |-> "intptr_t", buildSize |-> BytesPerWord, targetSize |-> TargetBytesPerWord]
    [] tag \in {"int8_t", "uint8_t"} ->
         [type |-> "int8_t", buildSize |-> 1, targetSize |-> 1]
    [] tag \in {"int16_t", "uint16_t"} ->
         [type |-> "int16_t", buildSize |-> 2, targetSize |-> 2]
    [] tag \in {"int32_t", "uint32_t", "float"} ->
         [type |-> "int32_t", buildSize |-> 4, targetSize |-> 4]
    [] tag \in {"int64_t", "uint64_t", "double"} ->
         [type |-> "int64_t", buildSize |-> 8, targetSize |-> 8]
    [] tag = "array" ->
         [type |-> "none", buildSize |-> 0, targetSize |-> 0]

(* One iteration of the "for (j = 1; j < count; ++j)" loop.                *)
DescriptorStep(st, tag) ==
  LET d   == DescriptorTag(tag)
      saw == st.sawArray \/ tag = "array"
      bo  == AlignUp(st.buildOffset, d.buildSize)
      to  == AlignUp(st.targetOffset, d.targetSize)
  IN [st EXCEPT !.types        = Append(@, d.type),
                !.buildSize    = d.buildSize,
                !.targetSize   = d.targetSize,
                !.sawArray     = saw,
                !.fields       = IF saw THEN @ ELSE Append(@, Field(d.type, bo, to)),
                !.buildOffset  = IF saw THEN @ ELSE bo + d.buildSize,
                !.targetOffset = IF saw THEN @ ELSE to + d.targetSize]

(* The TypeMap of one VM type whose descriptor (without its Type_none      *)
(* terminator) is source; an array marker, when present, is second-last.  *)
DescriptorMap(source) ==
  LET st == FoldLeft(DescriptorStep,
                     [types |-> <<"object">>, fields |-> <<Field("object", 0, 0)>>,
                      buildOffset |-> BytesPerWord, targetOffset |-> TargetBytesPerWord,
                      sawArray |-> FALSE, buildSize |-> BytesPerWord,
                      targetSize |-> TargetBytesPerWord],
                     source)
  IN MakeTypeMap(ceiling(st.buildOffset, BytesPerWord),
                 ceiling(st.targetOffset, TargetBytesPerWord),
                 st.fields, "Normal",
                 IF st.sawArray THEN st.buildSize ELSE 0,
                 IF st.sawArray THEN st.targetSize ELSE 0,
                 IF st.sawArray THEN Last(st.types) ELSE "none")

-----------------------------------------------------------------------------
(* (b) A class's field table, makeCodeImage lines 285-424.  A field is a   *)
(* record [code, static, offset] where offset is the VM's fieldOffset.     *)

(* fieldSize() of machine.h for each field code.                          *)
fieldSize(code) ==
  CASE code = "object"              -> BytesPerWord
    [] code \in {"byte", "boolean"} -> 1
    [] code \in {"char", "short"}   -> 2
    [] code \in {"int", "float"}    -> 4
    [] code \in {"long", "double"}  -> 8

(* The switch on fieldCode: CharField and ShortField map to Type_int8_t.   *)
FieldCodeType(code) ==
  CASE code = "object"                             -> "object"
    [] code \in {"byte", "boolean", "char", "short"} -> "int8_t"
    [] code \in {"int", "float"}                   -> "int32_t"
    [] code \in {"long", "double"}                 -> "int64_t"

(* Variant: a reference field keeps its host size.                        *)
classFieldSizeHost(code) == fieldSize(code)

(* size = fieldSize(code), replaced by TargetBytesPerWord for ObjectField. *)
classFieldSize(code) == IF code = "object" THEN TargetBytesPerWord ELSE fieldSize(code)

(* One iteration of "for (i = 0; i < count; ++i)" over the field table.    *)
ClassFieldStep(st, f) ==
  LET type == FieldCodeType(f.code)
      size == classFieldSize(f.code)
  IN IF f.static
     THEN LET to == AlignUp(st.targetStaticOffset, size)
          IN [st EXCEPT !.statics = Append(@, Field(type, f.offset, to)),
                        !.targetStaticOffset = to + size]
     ELSE LET to == AlignUp(st.targetMemberOffset, size)
          IN [st EXCEPT !.members = Append(@, Field(type, f.offset, to)),
                        !.targetMemberOffset = to + size]

ClassFieldLayout(fieldTable) ==
  FoldLeft(ClassFieldStep,
           [members |-> <<Field("object", 0, 0)>>,
            targetMemberOffset |-> TargetBytesPerWord,
            statics |-> <<Field("object", 0, 0),
                          Field("intptr_t", BytesPerWord, TargetBytesPerWord)>>,
            targetStaticOffset |-> 2 * TargetBytesPerWord],
           fieldTable)

(* The NormalKind map of the instances, keyed by the class.                *)
ClassMembersMap(fieldTable, classFixedSize) ==
  LET st == ClassFieldLayout(fieldTable)
  IN MakeTypeMap(ceiling(classFixedSize, BytesPerWord),
                 ceiling(st.targetMemberOffset, TargetBytesPerWord),
                 st.members, "Normal", 0, 0, "none")

(* The SingletonKind map of the static table, keyed by the table.          *)
ClassStaticsMap(fieldTable, singletonCount) ==
  LET st == ClassFieldLayout(fieldTable)
  IN MakeTypeMap(singletonCount + 2,
                 ceiling(st.targetStaticOffset, TargetBytesPerWord),
                 st.statics, "Singleton", 0, 0, "none")

-----------------------------------------------------------------------------
(* (a) A class file's constant pool, makeCodeImage lines 213-276.  count   *)
(* is the pool count read from the file minus one; entries are the tags   *)
(* read in order.  The result maps each slot index written to its type;   *)
(* a Long or Double read at the last slot writes index count + 2, one past *)
(* the end of "Type types[count + 2]".                                     *)
PoolTypes(count, entries) ==
  LET RECURSIVE Loop(_, _, _)
      Loop(i, rest, types) ==
        IF i >= count + 2 THEN types
        ELSE LET tag == Head(rest)
             IN CASE tag \in {"Class", "String", "NameAndType", "Fieldref",
                              "Methodref", "InterfaceMethodref", "Utf8"} ->
                       Loop(i + 1, Tail(rest), types @@ (i :> "object"))
                  [] tag \in {"Integer", "Float"} ->
                       Loop(i + 1, Tail(rest), types @@ (i :> "int32_t"))
                  [] tag = "Long" ->
                       Loop(i + 2, Tail(rest),
                            types @@ (i :> "int64_t") @@ (i + 1 :> "int64_t_pad"))
                  [] tag = "Double" ->
                       Loop(i + 2, Tail(rest),
                            types @@ (i :> "double") @@ (i + 1 :> "double_pad"))
  IN Loop(2, entries, (0 :> "object") @@ (1 :> "intptr_t"))

PoolMap(count, entries) ==
  LET types == PoolTypes(count, entries)
  IN MakeTypeMap(count + 2, count + 2,
                 [i \in 1..(count + 2) |->
                    Field(types[i - 1], (i - 1) * BytesPerWord,
                          (i - 1) * TargetBytesPerWord)],
                 "Pool", 0, 0, "none")

-----------------------------------------------------------------------------
(* D. Sizes and offsets, lines 555-603, and the mask sizes of machine.h.   *)

singletonMaskSize(count, bitsPerWord) ==
  IF count > 0 THEN ceiling(count + 2, bitsPerWord) ELSE 0

poolMaskSize(count, bitsPerWord) == ceiling(count, bitsPerWord)

(* targetOffset: the target byte offset of the build byte offset.          *)
targetOffset(map, offset) ==
  IF map.targetArrayElementSizeInBytes # 0
     /\ offset >= map.buildFixedSizeInWords * BytesPerWord
  THEN map.targetFixedSizeInWords * TargetBytesPerWord
       + ((offset - map.buildFixedSizeInWords * BytesPerWord)
            \div map.buildArrayElementSizeInBytes)
         * map.targetArrayElementSizeInBytes
  ELSE map.targetFixedOffsets[offset]

(* targetSize: the target size in words of an object whose array length   *)
(* (read from its last fixed host word) is len.                           *)
targetSize(map, len) ==
  IF map.targetArrayElementSizeInBytes # 0
  THEN map.targetFixedSizeInWords
       + ceiling(map.targetArrayElementSizeInBytes * len, TargetBytesPerWord)
  ELSE CASE map.kind = "Normal" -> map.targetFixedSizeInWords
         [] map.kind = "Singleton" ->
              map.targetFixedSizeInWords
              + singletonMaskSize(map.targetFixedSizeInWords - 2, TargetBitsPerWord)
         [] map.kind = "Pool" ->
              LET maskSize == poolMaskSize(map.targetFixedSizeInWords - 2,
                                           TargetBitsPerWord)
              IN map.targetFixedSizeInWords + maskSize
                 + singletonMaskSize(map.targetFixedSizeInWords - 2 + maskSize,
                                     TargetBitsPerWord)

-----------------------------------------------------------------------------
(* C at word granularity: what copy(t, typeMaps, p, dst), lines 713-820,   *)
(* leaves in the words of the body.  A reference slot is zeroed, a word    *)
(* holding scalar bytes is data, the trailing masks are mask words, and a  *)
(* word no field touches keeps what the (unzeroed) buffer held.            *)

DataWord == -2
MaskWord == -4

(* The bytes copy(Thread*, src, dst, Type) writes for one field.           *)
TargetFieldSize(type) ==
  CASE type = "int8_t"                 -> 1
    [] type = "int16_t"                -> 2
    [] type \in {"int32_t", "float"}   -> 4
    [] type \in {"int64_t", "double"}  -> 8
    [] type \in {"intptr_t", "object"} -> TargetBytesPerWord
    [] type \in {"int64_t_pad", "double_pad"} -> 0

WordsOf(start, bytes) ==
  {w \in 0..((start + bytes - 1) \div TargetBytesPerWord) :
     bytes > 0 /\ w >= start \div TargetBytesPerWord}

(* The (target byte offset, type) of every field and array element.        *)
CopiedFields(map, len) ==
  {<<f.targetOffset, f.type>> : f \in Range(map.fields)}
  \cup (IF map.targetArrayElementSizeInBytes = 0 THEN {}
        ELSE {<<map.targetFixedSizeInWords * TargetBytesPerWord
                + i * map.targetArrayElementSizeInBytes, map.arrayElementType>> :
              i \in 0..(len - 1)})

BodyWords(map, len) ==
  LET fs    == CopiedFields(map, len)
      refs  == {f[1] \div TargetBytesPerWord : f \in {g \in fs : g[2] = "object"}}
      data  == UNION {WordsOf(f[1], TargetFieldSize(f[2])) :
                      f \in {g \in fs : g[2] # "object"}}
      masks == IF map.targetArrayElementSizeInBytes # 0 \/ map.kind = "Normal"
               THEN {}
               ELSE map.targetFixedSizeInWords..(targetSize(map, len) - 1)
  IN [w \in refs \cup data \cup masks |->
        IF w \in refs THEN 0 ELSE IF w \in masks THEN MaskWord ELSE DataWord]

(* The finite set of numbers S as an increasing sequence.                  *)
Ascending(S) ==
  [i \in 1..Cardinality(S) |-> CHOOSE x \in S : Cardinality({y \in S : y < x}) = i - 1]

(* The build byte offsets of the reference fields and elements of an      *)
(* object: the edges the heap walker reports for it.                       *)
ReferenceOffsets(map, len) ==
  {f.offset : f \in {g \in Range(map.fields) : g.type = "object"}}
  \cup (IF map.arrayElementType # "object" THEN {}
        ELSE {map.buildFixedSizeInWords * BytesPerWord
              + i * map.buildArrayElementSizeInBytes : i \in 0..(len - 1)})
=============================================================================
