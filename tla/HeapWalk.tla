------------------------------ MODULE HeapWalk ------------------------------
(***************************************************************************)
(* Components E, E' and G: makeHeapImage (bootimage.cpp 822-957), the     *)
(* depth-first heap walker it drives (heapwalk.cpp, not in src/: modelled  *)
(* from spec sections 4.5, 6 and 9) and the root enumeration visitRoots    *)
(* (522-542).  The walker numbers objects and calls the visitor; the       *)
(* visitor copies each new object into the target heap buffer with its     *)
(* TypeMap, wraps static tables and system class loaders in a fixie        *)
(* header, and back-patches the slot of the edge that led to the object.   *)
(***************************************************************************)
EXTENDS TypeMaps

CONSTANTS
  Obj,                \* the heap objects of the VM
  Null,               \* the null reference
  MapOf,              \* Obj -> TypeMap: typeMap(t, typeMaps, p) of each object
  ArrayLength,        \* Obj -> Nat: the length word of objects with an array tail
  ClassType,          \* the objects whose class is Machine::ClassType
  SystemClassLoaders, \* the instances of Machine::SystemClassLoaderType
  ClassStaticTable,   \* build byte offset of a class's static table field
  BootClasses,        \* the classes of the boot loader's map, in iteration order
  BootLoader, AppLoader, Types, \* root(BootLoader), root(AppLoader), m->types
  Heaps,              \* the object graphs the VM can hand to the writer
  ConstantLists,      \* the compiler constant lists makeCodeImage can return
  Capacity,           \* heap capacity in target words (capacity / TargetBytesPerWord)
  FixedMark,          \* low tag bit or'ed into a fixed object's first word
  BootShift,          \* shift of the tag bits in an image reference
  Layout              \* Obj -> the layout LayoutOf computes from MapOf

ASSUME Null \notin Obj
ASSUME Capacity \in Nat /\ BootShift \in Nat /\ FixedMark \in 1..(BytesPerWord - 1)

(* Heap buffer words that are not references: the buffer is not zeroed     *)
(* (Garbage), and the fixie header's first bytes hold age/hasMask/size.    *)
Garbage    == -1
HeaderWord == -3

TargetFixieSizeInBytes == 8 + TargetBytesPerWord * 2
TargetFixieSizeInWords == ceiling(TargetFixieSizeInBytes, TargetBytesPerWord)

(* What targetOffset, targetSize and copy read from typeMap(t, typeMaps,  *)
(* p) for each object: the build offsets of its reference fields (as a set *)
(* and in increasing order, the order walkNext reports them), its target   *)
(* size in words, its target body, and the target word of each reference.  *)
LayoutOf ==
  [o \in Obj |->
     LET offs == ReferenceOffsets(MapOf[o], ArrayLength[o])
     IN [offsets |-> offs,
         refs    |-> Ascending(offs),
         size    |-> targetSize(MapOf[o], ArrayLength[o]),
         body    |-> BodyWords(MapOf[o], ArrayLength[o]),
         slot    |-> [off \in offs |->
                        targetOffset(MapOf[o], off) \div TargetBytesPerWord]]]

(* Layout is LayoutOf, evaluated once when the model is loaded.            *)
ASSUME Layout = LayoutOf

RefOffsets(o) == Layout[o].offsets
SizeOf(o)     == Layout[o].size

VARIABLES
  ref,        \* ref[o][off]: the object the build offset off of o refers to
  constants,  \* the compiler constants list (roots visited last)
  stack,      \* walker: DFS frames [obj, next child index]
  rootIdx,    \* walker: index of the next root of visitRoots
  numbers,    \* walker: the number given to each object, 0 if none yet
  v,          \* visitor: currentObject/Number/Offset, position, heap, map
  image,      \* BootImage fields written by visitRoots and makeHeapImage
  phase,      \* "walk", "done" or "aborted" (a failed expect())
  fixed       \* ghost: the objects emitted as fixed objects

vars == <<ref, constants, stack, rootIdx, numbers, v, image, phase, fixed>>

(* Variant: the compiler constants visited before the classes.           *)
visitRootsConstantsFirst == constants \o BootClasses \o <<BootLoader, AppLoader, Types>>

(* Variant: the compiler constants are not visited.                     *)
visitRootsNoConstants == BootClasses \o <<BootLoader, AppLoader, Types>>

(* visitRoots: boot classes, boot loader, app loader, types, constants.    *)
(* The processor's roots (line 537) are outside src/ and not modelled.     *)
visitRoots == BootClasses \o <<BootLoader, AppLoader, Types>> \o constants

(* The non-null reference edges of o in the order walkNext reports them.   *)
Children(o) == SelectSeq(Layout[o].refs, LAMBDA off : ref[o][off] # Null)

-----------------------------------------------------------------------------
(* The visitor's callbacks, as functions of its state.                     *)

(* ~PointerMask keeps the low tag bits of a word; a word that is not a     *)
(* reference slot has no tag the model tracks.                             *)
TagBits(w) == IF w >= 0 THEN w % BytesPerWord ELSE 0

(* Variant: the slot taken at the build offset, without targetOffset.     *)
visitHostOffset(vs, number) ==
  IF vs.currentObject = Null THEN vs
  ELSE LET offset == vs.currentNumber - 1 + (vs.currentOffset * BytesPerWord) \div TargetBytesPerWord
           value  == BitOr(number, TagBits(vs.heap[offset]) * 2^BootShift)
       IN [vs EXCEPT !.heap[offset] = value,
                     !.map = IF value # 0 THEN @ \cup {offset} ELSE @]

(* Visitor::visit: back-patch the slot of the current edge with number.    *)
visit(vs, number) ==
  IF vs.currentObject = Null THEN vs
  ELSE LET offset == vs.currentNumber - 1
                     + Layout[vs.currentObject].slot[vs.currentOffset * BytesPerWord]
           mark   == TagBits(vs.heap[offset])
           value  == BitOr(number, mark * 2^BootShift)
       IN [vs EXCEPT !.heap[offset] = value,
                     !.map = IF value # 0 THEN @ \cup {offset} ELSE @]

root(vs) == [vs EXCEPT !.currentObject = Null]

push(vs, object, number, offset) ==
  [vs EXCEPT !.currentObject = object, !.currentNumber = number,
             !.currentOffset = offset]

pop(vs) == [vs EXCEPT !.currentObject = Null]

(* The condition of visitNew's fixed branch.                               *)
IsFixedEdge(vs, p) ==
  \/ /\ vs.currentObject # Null
     /\ vs.currentObject \in ClassType
     /\ vs.currentOffset * BytesPerWord = ClassStaticTable
  \/ p \in SystemClassLoaders

(* The heap after copy(t, typeMaps, p, heap + at).                         *)
CopyTo(heap, p, at) ==
  LET body == Layout[p].body
  IN [i \in DOMAIN heap |-> IF i - at \in DOMAIN body THEN body[i - at] ELSE heap[i]]

(* Variant: the capacity expect()s left out.                             *)
visitNewNoExpect(vs, p) ==
  LET size == SizeOf(p)
  IN IF IsFixedEdge(vs, p)
     THEN LET dst      == vs.position + TargetFixieSizeInWords
              maskSize == ceiling(size, TargetBytesPerWord)
              total    == TargetFixieSizeInWords + size + maskSize
              hdr      == [i \in DOMAIN vs.heap |->
                             IF i \in vs.position..(dst - 1)
                             THEN IF (i - vs.position) * TargetBytesPerWord < 8
                                  THEN HeaderWord ELSE 0
                             ELSE IF i \in (dst + size)..(dst + size + maskSize - 1)
                                  THEN 0 ELSE vs.heap[i]]
              body     == CopyTo(hdr, p, dst)
              marked   == [body EXCEPT ![dst] = IF @ >= 0 THEN BitOr(@, FixedMark) ELSE @]
          IN [ok     |-> TRUE,
              fixed  |-> TRUE,
              number |-> dst + 1,
              vs     |-> [vs EXCEPT !.heap = marked, !.position = @ + total]]
     ELSE [ok     |-> TRUE,
           fixed  |-> FALSE,
           number |-> vs.position + 1,
           vs     |-> [vs EXCEPT !.heap = CopyTo(@, p, vs.position),
                                 !.position = @ + size]]

(* Variant: a fixed object's total without its mask.                    *)
visitNewNoMask(vs, p) ==
  LET size == SizeOf(p)
  IN IF IsFixedEdge(vs, p)
     THEN LET dst      == vs.position + TargetFixieSizeInWords
              maskSize == ceiling(size, TargetBytesPerWord)
              total    == TargetFixieSizeInWords + size
              hdr      == [i \in DOMAIN vs.heap |->
                             IF i \in vs.position..(dst - 1)
                             THEN IF (i - vs.position) * TargetBytesPerWord < 8
                                  THEN HeaderWord ELSE 0
                             ELSE IF i \in (dst + size)..(dst + size + maskSize - 1)
                                  THEN 0 ELSE vs.heap[i]]
              body     == CopyTo(hdr, p, dst)
              marked   == [body EXCEPT ![dst] = IF @ >= 0 THEN BitOr(@, FixedMark) ELSE @]
          IN [ok     |-> vs.position + total < Capacity,
              fixed  |-> TRUE,
              number |-> dst + 1,
              vs     |-> [vs EXCEPT !.heap = marked, !.position = @ + total]]
     ELSE [ok     |-> vs.position + size < Capacity,
           fixed  |-> FALSE,
           number |-> vs.position + 1,
           vs     |-> [vs EXCEPT !.heap = CopyTo(@, p, vs.position),
                                 !.position = @ + size]]

(* Variant: a fixed object numbered from its header, not from dst.      *)
visitNewFixedNumber(vs, p) ==
  LET size == SizeOf(p)
  IN IF IsFixedEdge(vs, p)
     THEN LET dst      == vs.position + TargetFixieSizeInWords
              maskSize == ceiling(size, TargetBytesPerWord)
              total    == TargetFixieSizeInWords + size + maskSize
              hdr      == [i \in DOMAIN vs.heap |->
                             IF i \in vs.position..(dst - 1)
                             THEN IF (i - vs.position) * TargetBytesPerWord < 8
                                  THEN HeaderWord ELSE 0
                             ELSE IF i \in (dst + size)..(dst + size + maskSize - 1)
                                  THEN 0 ELSE vs.heap[i]]
              body     == CopyTo(hdr, p, dst)
              marked   == [body EXCEPT ![dst] = IF @ >= 0 THEN BitOr(@, FixedMark) ELSE @]
          IN [ok     |-> vs.position + total < Capacity,
              fixed  |-> TRUE,
              number |-> dst,
              vs     |-> [vs EXCEPT !.heap = marked, !.position = @ + total]]
     ELSE [ok     |-> vs.position + size < Capacity,
           fixed  |-> FALSE,
           number |-> vs.position + 1,
           vs     |-> [vs EXCEPT !.heap = CopyTo(@, p, vs.position),
                                 !.position = @ + size]]

(* Visitor::visitNew for p # 0, up to its closing visit(number): the       *)
(* capacity expect() (ok), the fixie header, copy, FixedMark and zeroed    *)
(* mask of a fixed object, or the plain copy; number and position.         *)
visitNew(vs, p) ==
  LET size == SizeOf(p)
  IN IF IsFixedEdge(vs, p)
     THEN LET dst      == vs.position + TargetFixieSizeInWords
              maskSize == ceiling(size, TargetBytesPerWord)
              total    == TargetFixieSizeInWords + size + maskSize
              hdr      == [i \in DOMAIN vs.heap |->
                             IF i \in vs.position..(dst - 1)
                             THEN IF (i - vs.position) * TargetBytesPerWord < 8
                                  THEN HeaderWord ELSE 0
                             ELSE IF i \in (dst + size)..(dst + size + maskSize - 1)
                                  THEN 0 ELSE vs.heap[i]]
              body     == CopyTo(hdr, p, dst)
              marked   == [body EXCEPT ![dst] = IF @ >= 0 THEN BitOr(@, FixedMark) ELSE @]
          IN [ok     |-> vs.position + total < Capacity,
              fixed  |-> TRUE,
              number |-> dst + 1,
              vs     |-> [vs EXCEPT !.heap = marked, !.position = @ + total]]
     ELSE [ok     |-> vs.position + size < Capacity,
           fixed  |-> FALSE,
           number |-> vs.position + 1,
           vs     |-> [vs EXCEPT !.heap = CopyTo(@, p, vs.position),
                                 !.position = @ + size]]

(* Variant: the walker's map is not consulted; every visit is a new one.  *)
VisitObjectAlwaysNew(vs, p) == visitNew(vs, p)

(* The walker's "visit" label: an object seen before is visitOld'ed with   *)
(* its number, a new one visitNew'ed.  Both end in visit(number), which    *)
(* the steps apply to the vs this returns (see Patched).                  *)
VisitObject(vs, p) ==
  IF numbers[p] # 0
  THEN [ok |-> TRUE, fixed |-> FALSE, number |-> numbers[p], vs |-> vs]
  ELSE visitNew(vs, p)

(* The outcome with the trailing visit(number) of visitNew and visitOld.   *)
Patched(e) == [e EXCEPT !.vs = visit(e.vs, e.number)]

-----------------------------------------------------------------------------
(* The steps of the walk.                                                  *)

Init ==
  /\ ref \in Heaps
  /\ constants \in ConstantLists
  /\ stack = <<>>
  /\ rootIdx = 1
  /\ numbers = [o \in Obj |-> 0]
  /\ v = [currentObject |-> Null, currentNumber |-> 0, currentOffset |-> 0,
          position |-> 0, heap |-> [i \in 0..(Capacity - 1) |-> Garbage],
          map |-> {}]
  /\ image = [bootLoader |-> 0, appLoader |-> 0, types |-> 0, heapSize |-> 0]
  /\ phase = "walk"
  /\ fixed = {}

(* The outcome of one visit of p: the process aborts on a failed expect(); *)
(* otherwise p is numbered and the walker continues with stack s2 and the  *)
(* visitor state vs2.                                                      *)
Visited(r, p, s2, vs2, img2) ==
  \/ /\ ~r.ok
     /\ phase' = "aborted"
     /\ UNCHANGED <<stack, rootIdx, numbers, v, image, fixed>>
  \/ /\ r.ok
     /\ numbers' = [numbers EXCEPT ![p] = r.number]
     /\ fixed' = IF r.fixed THEN fixed \cup {p} ELSE fixed
     /\ stack' = s2
     /\ v' = vs2
     /\ image' = img2
     /\ UNCHANGED phase

(* HeapWalker::visitRoot(r) for the next root: root(), then visit r.       *)
WalkRoot ==
  /\ phase = "walk"
  /\ stack = <<>>
  /\ rootIdx <= Len(visitRoots)
  /\ LET p     == visitRoots[rootIdx]
         at    == rootIdx - Len(BootClasses)
         isNew == numbers[p] = 0
     IN \E e \in {VisitObject(root(v), p)} :
        \E r \in {Patched(e)} :
          /\ Visited(r, p,
                     IF isNew /\ Children(p) # <<>> THEN <<[obj |-> p, next |-> 1]>>
                     ELSE <<>>,
                     r.vs,
                     [image EXCEPT !.bootLoader = IF at = 1 THEN r.number ELSE @,
                                   !.appLoader  = IF at = 2 THEN r.number ELSE @,
                                   !.types      = IF at = 3 THEN r.number ELSE @])
          /\ rootIdx' = IF r.ok THEN rootIdx + 1 ELSE rootIdx
  /\ UNCHANGED <<ref, constants>>

(* The next edge of the top frame: push(p, number, offset), visit the      *)
(* child, and pop() unless the walk descends into it.                      *)
WalkChild ==
  /\ phase = "walk"
  /\ stack # <<>>
  /\ LET p == Last(stack).obj
         k == Last(stack).next
     IN /\ k <= Len(Children(p))
        /\ LET off     == Children(p)[k]
               c       == ref[p][off]
               rest    == [stack EXCEPT ![Len(stack)].next = k + 1]
               descend == numbers[c] = 0 /\ Children(c) # <<>>
           IN \E e \in {VisitObject(push(v, p, numbers[p], off \div BytesPerWord), c)} :
              \E r \in {Patched(e)} :
                Visited(r, c,
                        IF descend THEN Append(rest, [obj |-> c, next |-> 1]) ELSE rest,
                        IF descend THEN r.vs ELSE pop(r.vs), image)
  /\ UNCHANGED <<ref, constants, rootIdx>>

(* Variant: the finished frame is left on the stack.                    *)
WalkReturnKeepsFrame ==
  /\ phase = "walk"
  /\ stack # <<>>
  /\ Last(stack).next > Len(Children(Last(stack).obj))
  /\ v' = IF Len(stack) > 1 THEN pop(v) ELSE v
  /\ UNCHANGED <<ref, constants, stack, rootIdx, numbers, image, phase, fixed>>

(* The top frame has no edge left: the walker pops it, and pop() ends the  *)
(* edge that led to it unless it is the root.                              *)
WalkReturn ==
  /\ phase = "walk"
  /\ stack # <<>>
  /\ Last(stack).next > Len(Children(Last(stack).obj))
  /\ stack' = Front(stack)
  /\ v' = IF Len(stack) > 1 THEN pop(v) ELSE v
  /\ UNCHANGED <<ref, constants, rootIdx, numbers, image, phase, fixed>>

(* makeHeapImage after visitRoots: image->heapSize = position * BytesPerWord. *)
WalkDone ==
  /\ phase = "walk"
  /\ stack = <<>>
  /\ rootIdx > Len(visitRoots)
  /\ image' = [image EXCEPT !.heapSize = v.position * BytesPerWord]
  /\ phase' = "done"
  /\ UNCHANGED <<ref, constants, stack, rootIdx, numbers, v, fixed>>

Next == WalkRoot \/ WalkChild \/ WalkReturn \/ WalkDone

Spec == Init /\ [][Next]_vars /\ WF_vars(Next)

-----------------------------------------------------------------------------
(* Definitions used by the properties.                                     *)

Numbered == {o \in Obj : numbers[o] # 0}

(* The reference fields of the objects of S, as pairs <<o, off>>.        *)
FieldsOf(S) == UNION {{<<o, off>> : off \in RefOffsets(o)} : o \in S}

(* The non-null ones.                                                      *)
EdgesOf(S) == {e \in FieldsOf(S) : ref[e[1]][e[2]] # Null}

RECURSIVE Closure(_)
Closure(S) ==
  LET S2 == S \cup {ref[e[1]][e[2]] : e \in EdgesOf(S)}
  IN IF S2 = S THEN S ELSE Closure(S2)

Reachable == Closure(Range(visitRoots))

(* The words an emitted object occupies: header, body and trailing mask.   *)
Extent(o) ==
  IF o \in fixed
  THEN (numbers[o] - 1 - TargetFixieSizeInWords)
         ..(numbers[o] - 1 + SizeOf(o) + ceiling(SizeOf(o), TargetBytesPerWord) - 1)
  ELSE (numbers[o] - 1)..(numbers[o] - 1 + SizeOf(o) - 1)

(* The heap word of the reference field at build offset off of o.          *)
Slot(o, off) == numbers[o] - 1 + Layout[o].slot[off]

(* What the image loader reads from a heap word: the object number below  *)
(* BootShift and the tag bits above it.                                    *)
DecodeRef(w) == [number |-> w % 2^BootShift, tag |-> w \div 2^BootShift]

(* A reference slot reads back as its referent's number with the fixed     *)
(* mark of a fixed object's first word as its tag; a null slot keeps the   *)
(* unshifted mark copy left there.                                         *)
SlotReadsBack(o, off) ==
  LET tag == IF o \in fixed /\ Slot(o, off) = numbers[o] - 1 THEN FixedMark ELSE 0
      w   == v.heap[Slot(o, off)]
  IN IF ref[o][off] = Null THEN w = tag
     ELSE DecodeRef(w) = [number |-> numbers[ref[o][off]], tag |-> tag]

ReferenceSlots == {Slot(e[1], e[2]) : e \in FieldsOf(Numbered)}

IsStaticTable(o) ==
  \E c \in ClassType : ClassStaticTable \in RefOffsets(c) /\ ref[c][ClassStaticTable] = o

(* The walk seen as HeapImage: the walker's number map, the phase, the     *)
(* non-null referents of each object and the roots of visitRoots.          *)
HI == INSTANCE HeapImage
        WITH num    <- numbers,
             status <- phase,
             edges  <- [o \in Obj |-> {ref[o][off] : off \in RefOffsets(o)} \ {Null}],
             roots  <- Range(visitRoots)

-----------------------------------------------------------------------------
(* Properties.                                                             *)

TypeOK ==
  /\ stack \in Seq([obj : Obj, next : Nat])
  /\ numbers \in [Obj -> 0..Capacity]
  /\ v.currentObject \in Obj \cup {Null}
  /\ v.position \in 0..Capacity
  /\ v.map \subseteq 0..(Capacity - 1)
  /\ phase \in {"walk", "done", "aborted"}
  /\ fixed \subseteq Numbered

(* Objects the visitor emits never overlap and stay inside the buffer: the *)
(* capacity checks in visitNew count the fixie header and mask, and        *)
(* position advances past everything written.                              *)
ObjectsDisjoint ==
  /\ \A o \in Numbered : Extent(o) \subseteq 0..(Capacity - 1)
  /\ \A o, q \in Numbered : o # q => Extent(o) \cap Extent(q) = {}

(* When the walk finishes, every object reachable from visitRoots has a    *)
(* number, every reference slot of every emitted object reads back, as the *)
(* loader decodes it, as the number of its referent with the fixed mark of *)
(* a fixed object's first word as its tag (number | mark << BootShift must *)
(* not mix the two), null slots hold no number, and the heap bitmap marks  *)
(* exactly the non-null reference slots: the back-patching of            *)
(* Visitor::visit through push/pop, targetOffset and currentNumber.       *)
ImageReferencesResolved ==
  phase = "done" =>
    /\ Numbered = Reachable
    /\ \A e \in FieldsOf(Numbered) : SlotReadsBack(e[1], e[2])
    /\ v.map = {Slot(e[1], e[2]) : e \in EdgesOf(Numbered)}

(* Static tables and system class loaders, and nothing else, are emitted   *)
(* as fixed objects (spec 8.7), whatever the graph: this depends on        *)
(* visitRoots visiting every class before the compiler constants, since    *)
(* visitNew only recognises a static table by the edge it arrives through. *)
FixedObjectsClassified ==
  \A o \in Numbered : o \in fixed <=> (IsStaticTable(o) \/ o \in SystemClassLoaders)

(* No step changes an emitted word other than a reference slot that has    *)
(* not been patched yet: copies never overwrite earlier objects and a      *)
(* back-patch lands on a reference slot of the object being walked.        *)
PatchesOnlyReferenceSlots ==
  [][\A i \in UNION {Extent(o) : o \in Numbered} :
        v'.heap[i] # v.heap[i] => /\ i \in ReferenceSlots
                                  /\ v.heap[i] \in {0, FixedMark}]_vars

(* The heap size recorded in the image header is the size in bytes of the *)
(* heap the visitor produced (position target words).                     *)
HeapSizeCoversHeap ==
  phase = "done" => image.heapSize = v.position * TargetBytesPerWord

(* The walker implements HeapImage: each walk step numbers at most one     *)
(* object, which is a root or the referent of a numbered object, above all *)
(* earlier numbers; no number is ever changed (visitOld reuses the map);   *)
(* the walk is done only when every reachable object is numbered; and it   *)
(* ends.                                                                    *)
HeapImageRefinement == HI!Spec

=============================================================================
