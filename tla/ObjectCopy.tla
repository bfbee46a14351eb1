------------------------------ MODULE ObjectCopy ------------------------------
(***************************************************************************)
(* Component C at byte level: copy(Thread*, object typeMaps, object p,     *)
(* uint8_t* dst) (bootimage.cpp 713-820) transcribing one object through   *)
(* its TypeMap, with copy(Thread*, src, dst, Type) (605-649) for each      *)
(* field and array element, then the Singleton or Pool masks.             *)
(*                                                                         *)
(* An input is a record: the TypeMap (built by the TypeMaps builders), the *)
(* array length, the object's host bytes src, and what the source object   *)
(* holds at each field's build offset: its width in bytes and whether it  *)
(* is a reference, a float or an integer (the "truth" the properties read *)
(* the image against).  The DebugNativeTarget branches are dead code (the *)
(* flag is false) and are left out.                                        *)
(***************************************************************************)
EXTENDS TypeMaps, FiniteSetsExt

CONSTANTS
  Inputs   \* the objects copy may be asked to transcribe

Garbage == -1   \* a byte of the heap buffer copy did not write (not zeroed)

VARIABLES
  obj,    \* the input being copied
  dst,    \* dst[b]: byte b of the target object
  i,      \* the loop index of the current loop
  stage   \* "fields", "array", "masks" or "done"

ovars == <<obj, dst, i, stage>>

(* The n bytes of bytes starting at offset at, as a sequence.              *)
Slice(bytes, at, n) == [k \in 1..n |-> bytes[at + k - 1]]

(* The bytes of dst from at replaced by the sequence s.                    *)
Store(d, at, s) ==
  [b \in DOMAIN d |-> IF b - at + 1 \in DOMAIN s THEN s[b - at + 1] ELSE d[b]]

(* The bytes of a value held in the given byte order, least significant  *)
(* first (and back: the reordering is its own inverse).  Values of up to   *)
(* eight bytes are kept as byte sequences, as TLC's integers are 32 bits. *)
LowFirst(bytes, little) == IF little THEN bytes ELSE Reverse(bytes)

(* Variant: the value written in the host's byte order (no TARGET_V swap). *)
copyFieldNoSwap(d, src, so, to, type) ==
  IF type = "object"
  THEN Store(d, to, [k \in 1..TargetBytesPerWord |-> 0])
  ELSE LET readW  == IF type = "intptr_t" THEN BytesPerWord ELSE TargetFieldSize(type)
           writeW == TargetFieldSize(type)
           value  == LowFirst(Slice(src, so, readW), HostLittleEndian)
           out    == [k \in 1..writeW |-> IF k <= readW THEN value[k] ELSE 0]
       IN IF writeW = 0 THEN d
          ELSE Store(d, to, LowFirst(out, HostLittleEndian))

(* copy(t, src, dst, type): a reference is zeroed; a pad writes nothing;   *)
(* any other type reads its host width and writes its target width in the *)
(* target's byte order (the TARGET_V* swaps); a value read narrower than   *)
(* it is written (intptr_t on a 32-bit host, 64-bit target) is extended   *)
(* with zero bytes: intptr_t values of the inputs are non-negative, so     *)
(* TARGET_VW's sign extension adds zeros.                                  *)
copyField(d, src, so, to, type) ==
  IF type = "object"
  THEN Store(d, to, [k \in 1..TargetBytesPerWord |-> 0])
  ELSE LET readW  == IF type = "intptr_t" THEN BytesPerWord ELSE TargetFieldSize(type)
           writeW == TargetFieldSize(type)
           value  == LowFirst(Slice(src, so, readW), HostLittleEndian)
           out    == [k \in 1..writeW |-> IF k <= readW THEN value[k] ELSE 0]
       IN IF writeW = 0 THEN d
          ELSE Store(d, to, LowFirst(out, TargetLittleEndian))

(* The byte and the bit in it of bit k of a mask kept as unit-byte words   *)
(* in the given byte order (uint32_t: unit 4; target_uintptr_t: unit 8).   *)
MaskByte(base, k, unit, little) ==
  LET bits == 8 * unit
      inW  == (k % bits) \div 8
  IN base + unit * (k \div bits) + (IF little THEN inW ELSE unit - 1 - inW)

(* The mask bytes [base, base + n) zeroed, then the bits of ks set in      *)
(* unit-byte words of the host's byte order ("|= 1 << (k % 32)").          *)
WriteMask(d, base, n, ks, unit) ==
  [b \in DOMAIN d |->
     IF b \in base..(base + n - 1)
     THEN FoldSet(LAMBDA k, acc : acc + 2^(k % 8), 0,
                  {k \in ks : MaskByte(base, k, unit, HostLittleEndian) = b})
     ELSE d[b]]

(* Variant: the singleton mask indexed by the build offset.               *)
singletonBitsBuild(map) ==
  {map.fields[j].offset \div TargetBytesPerWord :
     j \in {j \in DOMAIN map.fields : map.fields[j].type = "object"}}

(* The singleton mask bits: targetOffset / TargetBytesPerWord of each      *)
(* reference field.                                                        *)
singletonBits(map) ==
  {map.fields[j].targetOffset \div TargetBytesPerWord :
     j \in {j \in DOMAIN map.fields : map.fields[j].type = "object"}}

(* The pool masks: object slots in objectMask, Type_float and Type_double  *)
(* slots in poolMask, both indexed by field index.                         *)
poolObjectBits(map) == {j - 1 : j \in {j \in DOMAIN map.fields : map.fields[j].type = "object"}}
poolFloatBits(map)  == {j - 1 : j \in {j \in DOMAIN map.fields :
                                          map.fields[j].type \in {"float", "double"}}}

(* cast<uintptr_t>(p, fixedSize - BytesPerWord): the length word of an     *)
(* object with an array tail, read from its last fixed host word.          *)
(* The inputs' lengths are below 2^24: the low three bytes hold them.    *)
ArrayCount(o) ==
  Decode(SubSeq(LowFirst(Slice(o.src, o.map.buildFixedSizeInWords * BytesPerWord - BytesPerWord,
                               BytesPerWord), HostLittleEndian), 1, 3), TRUE)

(* The heap buffer is not zeroed: every byte of the target object starts   *)
(* as garbage.                                                             *)
Init ==
  /\ obj \in Inputs
  /\ dst = [b \in 0..(targetSize(obj.map, ArrayCount(obj)) * TargetBytesPerWord - 1) |-> Garbage]
  /\ i = 1
  /\ stage = "fields"

(* One iteration of the fixedFields loop.                                  *)
CopyFixedField ==
  /\ stage = "fields"
  /\ i <= obj.map.fixedFieldCount
  /\ LET f == obj.map.fields[i]
     IN dst' = copyField(dst, obj.src, f.offset, f.targetOffset, f.type)
  /\ i' = i + 1
  /\ UNCHANGED <<obj, stage>>

(* After the fixed fields: the array loop if the map has an array tail,    *)
(* else the switch on the kind.                                            *)
EndFixedFields ==
  /\ stage = "fields"
  /\ i > obj.map.fixedFieldCount
  /\ stage' = IF obj.map.targetArrayElementSizeInBytes # 0 THEN "array" ELSE "masks"
  /\ i' = 0
  /\ UNCHANGED <<obj, dst>>

(* One element of the array tail; count is the object's length word.       *)
CopyElement ==
  /\ stage = "array"
  /\ LET m == obj.map
     IN IF i < ArrayCount(obj)
        THEN /\ dst' = copyField(dst, obj.src,
                                 m.buildFixedSizeInWords * BytesPerWord
                                   + i * m.buildArrayElementSizeInBytes,
                                 m.targetFixedSizeInWords * TargetBytesPerWord
                                   + i * m.targetArrayElementSizeInBytes,
                                 m.arrayElementType)
             /\ i' = i + 1
             /\ UNCHANGED stage
        ELSE /\ stage' = "done"
             /\ UNCHANGED <<dst, i>>
  /\ UNCHANGED obj

(* The switch on map->kind: nothing for NormalKind; the zeroed singleton   *)
(* mask with a bit per reference; the zeroed pool and object masks with a  *)
(* bit per float/double and per reference slot.                            *)
WriteMasks ==
  /\ stage = "masks"
  /\ LET m    == obj.map
         base == m.targetFixedSizeInWords * TargetBytesPerWord
         pms  == poolMaskSize(m.targetFixedSizeInWords - 2, TargetBitsPerWord)
     IN dst' = CASE m.kind = "Normal" -> dst
                 [] m.kind = "Singleton" ->
                      WriteMask(dst, base,
                                singletonMaskSize(m.targetFixedSizeInWords - 2,
                                                  TargetBitsPerWord) * TargetBytesPerWord,
                                singletonBits(m), 4)
                 [] m.kind = "Pool" ->
                      WriteMask(WriteMask(dst, base, pms * TargetBytesPerWord,
                                          poolFloatBits(m), TargetBytesPerWord),
                                base + pms * TargetBytesPerWord,
                                singletonMaskSize(m.targetFixedSizeInWords - 2 + pms,
                                                  TargetBitsPerWord) * TargetBytesPerWord,
                                poolObjectBits(m), 4)
  /\ stage' = "done"
  /\ UNCHANGED <<obj, i>>

Next == CopyFixedField \/ EndFixedFields \/ CopyElement \/ WriteMasks

Spec == Init /\ [][Next]_ovars /\ WF_ovars(Next)

-----------------------------------------------------------------------------
(* Definitions used by the properties: the image as the target reads it.   *)

(* Bit k of a mask the target runtime reads as unit-byte integer words of *)
(* its own byte order (uint32_t for singleton and object masks,            *)
(* uintptr_t for the pool's float mask).                                   *)
MaskBit(base, k, unit) ==
  (dst[MaskByte(base, k, unit, TargetLittleEndian)] \div 2^(k % 8)) % 2 = 1

(* The target word index of each source field of the given kinds.          *)
SlotsOf(kinds) ==
  {targetOffset(obj.map, off) \div TargetBytesPerWord :
     off \in {o \in DOMAIN obj.truth : obj.truth[o].kind \in kinds}}

Done == stage = "done"

MaskBase     == obj.map.targetFixedSizeInWords * TargetBytesPerWord
FixedSlots   == 0..(obj.map.targetFixedSizeInWords - 1)
PoolMaskWords == poolMaskSize(obj.map.targetFixedSizeInWords - 2, TargetBitsPerWord)

-----------------------------------------------------------------------------
(* Properties.                                                             *)

(* The fields of every TypeMap the builders make are laid out soundly in  *)
(* the target: spec 8.1 (targetFixedOffsets[offset] = targetOffset), spec  *)
(* 8.2 (aligned to the width copy writes), and the bytes copy writes for   *)
(* two fields never overlap and stay in the fixed part, across the         *)
(* alignment loops and the host/target word sizes.                         *)
LayoutSound ==
  LET m == obj.map
      F == DOMAIN m.fields
      w(j) == TargetFieldSize(m.fields[j].type)
  IN /\ \A j \in F : m.targetFixedOffsets[m.fields[j].offset] = m.fields[j].targetOffset
     /\ \A j \in F : w(j) > 0 => m.fields[j].targetOffset % w(j) = 0
     /\ \A j \in F : m.fields[j].targetOffset + w(j) <= m.targetFixedSizeInWords * TargetBytesPerWord
     /\ \A j, k \in F : j # k /\ w(j) > 0 /\ w(k) > 0 =>
          \/ m.fields[j].targetOffset + w(j) <= m.fields[k].targetOffset
          \/ m.fields[k].targetOffset + w(k) <= m.fields[j].targetOffset

(* Once copied, the Singleton mask of a static table, and the object mask *)
(* of a pool, read as the target reads them, mark exactly the words of the *)
(* object that hold references: the bit index is taken from the target    *)
(* offset (singleton) or the slot index (pool), and the uint32_t words are *)
(* written in the host's byte order.                                       *)
MasksMarkReferences ==
  Done =>
    /\ obj.map.kind = "Singleton" =>
         \A k \in FixedSlots : MaskBit(MaskBase, k, 4) <=> k \in SlotsOf({"ref"})
    /\ obj.map.kind = "Pool" =>
         \A k \in FixedSlots :
           MaskBit(MaskBase + PoolMaskWords * TargetBytesPerWord, k, 4) <=> k \in SlotsOf({"ref"})

(* Spec 4.4: a Pool's float mask marks the pool slots that are floating    *)
(* point (CONSTANT_Float and CONSTANT_Double).                             *)
PoolMaskMarksFloats ==
  Done /\ obj.map.kind = "Pool" =>
    \A k \in FixedSlots :
      MaskBit(MaskBase, k, TargetBytesPerWord) <=> k \in SlotsOf({"float"})

(* Spec 8.6: every scalar field of the source object reads back, in the   *)
(* target's byte order at its target offset, as the value the host held;  *)
(* an intptr_t word ("word", "len") is read with the target word width.   *)
FieldsRoundTrip ==
  Done =>
    \A off \in {o \in DOMAIN obj.truth : obj.truth[o].kind # "ref"} :
      LET t  == obj.truth[off]
          tw == IF t.kind \in {"word", "len"} THEN TargetBytesPerWord ELSE t.width
          v  == LowFirst(Slice(obj.src, off, t.width), HostLittleEndian)
      IN LowFirst(Slice(dst, targetOffset(obj.map, off), tw), TargetLittleEndian)
           = [k \in 1..tw |-> IF k <= t.width THEN v[k] ELSE 0]
=============================================================================
