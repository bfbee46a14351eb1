----------------------------- MODULE ImageWriter -----------------------------
(***************************************************************************)
(* Components F and H composed with the heap walk: writeBootImage2 as a    *)
(* sequence of stages over one state.                                      *)
(*   "calls"      the method-call pass of makeCodeImage (480-491)          *)
(*   "addresses"  the address pass of makeCodeImage (493-510)              *)
(*   "heap"       makeHeapImage (HeapWalk, 1220-1227)                      *)
(*   "constants"  updateConstants (959-986), reading the walker's map      *)
(*   "written"    the index tables and the header (1231-1309)              *)
(* A failed expect() aborts the process ("aborted").  The code buffer is   *)
(* abstracted to the immediates the compiler left behind: code[l] is the   *)
(* target word whose first byte is at byte offset l of the code buffer.    *)
(***************************************************************************)
EXTENDS HeapWalk

CONSTANTS
  CodeBase,          \* the host address of the code buffer (image->codeBase)
  NativeThunk,       \* image->thunks.native.start, a code offset
  NativeMethods,     \* the methods with ACC_NATIVE
  Compiled,          \* method -> codeCompiled(methodCode(method)) - code
  Calls,             \* the deferred calls: Seq([method, loc])
  Addresses,         \* the deferred addresses: Seq([value, loc, flat])
  Listeners,         \* constant object -> its listener chain: Seq([loc, flat])
  AppClasses,        \* the classes of the app loader's map, in iteration order
  InternedStrings,   \* the targets of the StringMap's keys, in iteration order
  BootFlatConstant,  \* tag bit of a flat immediate
  BootHeapOffset,    \* tag bit of an immediate that is a heap number
  HeaderSize,        \* sizeof(BootImage)
  CallCount,         \* image->callCount: the processor's call table entries
  CodeSize           \* image->codeSize, set by the compiler

(* The code offsets the compiler left an immediate at.                    *)
CodeLocs ==
  {Calls[i].loc : i \in DOMAIN Calls} \cup {Addresses[i].loc : i \in DOMAIN Addresses}
    \cup UNION {{Listeners[o][i].loc : i \in DOMAIN Listeners[o]} : o \in DOMAIN Listeners}

Unresolved == -1

VARIABLES
  code,     \* code[l]: the immediate at code offset l
  codeMap,  \* the set bits of the code bitmap (code byte offsets)
  cursor,   \* the position of the current pass in its list
  stage,    \* see above
  tables,   \* bootClassTable, appClassTable, stringTable
  file      \* the output: Seq([name, len]) in fwrite order; the padding
            \*   between the tables and the heap bitmap is zero bytes

codeVars == <<code, codeMap, cursor, stage, tables, file>>
allVars  == <<vars, codeVars>>

FlatBit(flat) == IF flat THEN BootFlatConstant ELSE 0

(* Variant: the bit of an immediate counted in target words.            *)
codeBitInWords(l) == l \div TargetBytesPerWord

(* markBit(codeMap, location - code): one bit per byte of code.           *)
codeBit(l) == l

(* The method-call pass: the listener of a call is resolved with the       *)
(* native thunk or the method's compiled code, as an absolute address.     *)
ResolveCall ==
  /\ stage = "calls"
  /\ cursor <= Len(Calls)
  /\ LET c       == Calls[cursor]
         address == IF c.method \in NativeMethods THEN CodeBase + NativeThunk
                    ELSE CodeBase + Compiled[c.method]
     IN code' = [code EXCEPT ![c.loc] = address]
  /\ cursor' = cursor + 1
  /\ UNCHANGED <<codeMap, stage, tables, file>>

(* The address pass: expect(value >= code), the offset from the code base  *)
(* tagged flat or not is stored at the listener's location, and the bit of *)
(* that location is marked.  The second expect (location >= code) holds of *)
(* every offset in CodeLocs.                                               *)
ResolveAddress ==
  /\ stage = "addresses"
  /\ cursor <= Len(Addresses)
  /\ LET a      == Addresses[cursor]
         offset == BitOr(a.value - CodeBase, FlatBit(a.flat))
     IN IF a.value >= CodeBase
        THEN /\ code' = [code EXCEPT ![a.loc] = offset]
             /\ codeMap' = codeMap \cup {codeBit(a.loc)}
             /\ cursor' = cursor + 1
             /\ UNCHANGED stage
        ELSE /\ stage' = "aborted"
             /\ UNCHANGED <<code, codeMap, cursor>>
  /\ UNCHANGED <<tables, file>>

(* Variant: the loop over pl stops after the first listener.              *)
listenerChainHead(o) == SubSeq(Listeners[o], 1, 1)

(* The listeners of a constant: ListenPromise::listener, then pl->next.   *)
listenerChain(o) == Listeners[o]

(* Variant: the heap number stored without BootHeapOffset.                *)
heapImmediateUntagged(target, flat) == BitOr(target, FlatBit(flat))

(* target | BootHeapOffset, or'ed with BootFlatConstant for a flat one.    *)
heapImmediate(target, flat) == BitOr(BitOr(target, BootHeapOffset), FlatBit(flat))

(* One iteration of updateConstants: expect(target > 0) on the walker's    *)
(* number of the constant, then every listener of its chain gets its       *)
(* heapImmediate, and its bit is marked.                                   *)
UpdateConstant ==
  /\ stage = "constants"
  /\ cursor <= Len(constants)
  /\ LET o      == constants[cursor]
         target == numbers[o]
         chain  == listenerChain(o)
         at(l)  == CHOOSE i \in DOMAIN chain : chain[i].loc = l
         locs   == {chain[i].loc : i \in DOMAIN chain}
     IN IF target > 0
        THEN /\ code' = [l \in DOMAIN code |->
                           IF l \in locs THEN heapImmediate(target, chain[at(l)].flat)
                           ELSE code[l]]
             /\ codeMap' = codeMap \cup {codeBit(l) : l \in locs}
             /\ cursor' = cursor + 1
             /\ UNCHANGED stage
        ELSE /\ stage' = "aborted"
             /\ UNCHANGED <<code, codeMap, cursor>>
  /\ UNCHANGED <<tables, file>>

(* The end of a pass: the next loop of writeBootImage2 starts.  The heap   *)
(* stage ends when the walk is done (an aborted walk ends the process).    *)
EndPass ==
  /\ \/ stage = "calls" /\ cursor > Len(Calls) /\ stage' = "addresses"
     \/ stage = "addresses" /\ cursor > Len(Addresses) /\ stage' = "heap"
     \/ stage = "heap" /\ phase = "done" /\ stage' = "constants"
  /\ cursor' = 1
  /\ UNCHANGED <<code, codeMap, tables, file>>

(* pad(n): n rounded up to a word; spec 6: each section padded to a      *)
(* target word.                                                            *)
pad(n) == AlignUp(n, TargetBytesPerWord)

(* heapMapSize(n), codeMapSize(n): one bit per target word of the heap     *)
(* (spec 6), one bit per byte of code (markBit(codeMap, location - code)), *)
(* in whole target words.                                                  *)
heapMapSize(n) ==
  ceiling(n \div TargetBytesPerWord, 8 * TargetBytesPerWord) * TargetBytesPerWord
codeMapSize(n) == ceiling(n, 8 * TargetBytesPerWord) * TargetBytesPerWord

(* while (offset % TargetBytesPerWord) fwrite one zero byte: offset counts *)
(* the four tables, not the header before them.                            *)
TablePadding(offset) ==
  (TargetBytesPerWord - (offset % TargetBytesPerWord)) % TargetBytesPerWord

(* The sections of the file in fwrite order, with the header counts the    *)
(* table lengths come from.                                                *)
ImageFile(boot, app, strings) ==
  LET tableBytes == 4 * (Len(boot) + Len(app) + Len(strings)) + 8 * CallCount
      section(n, l) == [name |-> n, len |-> l]
  IN << section("header", HeaderSize),
        section("bootClassTable", 4 * Len(boot)),
        section("appClassTable", 4 * Len(app)),
        section("stringTable", 4 * Len(strings)),
        section("callTable", 8 * CallCount),
        section("padding", TablePadding(tableBytes)),
        section("heapMap", pad(heapMapSize(image.heapSize))),
        section("heap", pad(image.heapSize)),
        section("codeMap", pad(codeMapSize(CodeSize))),
        section("code", pad(CodeSize)) >>

(* writeBootImage2 after updateConstants: each index table entry is        *)
(* heapWalker->map()->find of the class or string, then the header and the *)
(* sections are written.                                                   *)
WriteImage ==
  /\ stage = "constants"
  /\ cursor > Len(constants)
  /\ tables' = [boot    |-> [i \in DOMAIN BootClasses |-> numbers[BootClasses[i]]],
                app     |-> [i \in DOMAIN AppClasses |-> numbers[AppClasses[i]]],
                strings |-> [i \in DOMAIN InternedStrings |-> numbers[InternedStrings[i]]]]
  /\ file' = ImageFile(tables'.boot, tables'.app, tables'.strings)
  /\ stage' = "written"
  /\ UNCHANGED <<code, codeMap, cursor>>

IWInit ==
  /\ Init
  /\ code = [l \in CodeLocs |-> Unresolved]
  /\ codeMap = {}
  /\ cursor = 1
  /\ stage = "calls"
  /\ tables = [boot |-> <<>>, app |-> <<>>, strings |-> <<>>]
  /\ file = <<>>

IWNext ==
  \/ /\ stage = "heap" /\ Next /\ UNCHANGED codeVars
  \/ /\ \/ ResolveCall \/ ResolveAddress \/ EndPass
        \/ UpdateConstant \/ WriteImage
     /\ UNCHANGED vars

(* One thread: every enabled step is eventually taken.                     *)
IWSpec == IWInit /\ [][IWNext]_allVars /\ WF_allVars(IWNext)

-----------------------------------------------------------------------------
(* Definitions used by the properties.                                     *)

(* What the image loader reads back from an immediate: the heap and flat   *)
(* tag bits and the offset or number below them.                           *)
DecodeImmediate(w) ==
  [heap  |-> (w \div BootHeapOffset) % 2 = 1,
   flat  |-> (w \div BootFlatConstant) % 2 = 1,
   value |-> w % BootFlatConstant]

ConstantListeners ==
  UNION {{Listeners[o][i] : i \in DOMAIN Listeners[o]} : o \in Range(constants)}

ConstantOf(l) == CHOOSE o \in Range(constants) : \E i \in DOMAIN Listeners[o] : Listeners[o][i] = l

AddressLocs  == {Addresses[i].loc : i \in DOMAIN Addresses}
ConstantLocs == {l.loc : l \in ConstantListeners}

-----------------------------------------------------------------------------
(* Properties.                                                             *)

(* Once updateConstants has run, every address immediate decodes to its   *)
(* code offset and flat flag, and every listener of every heap constant    *)
(* decodes to a heap number with its flat flag, and that number is the one *)
(* the walk gave the constant: the number map read after makeHeapImage,    *)
(* the tags and the listener chains of three passes agree.                 *)
ImmediatesResolved ==
  stage = "written" =>
    /\ \A i \in DOMAIN Addresses :
         DecodeImmediate(code[Addresses[i].loc])
           = [heap |-> FALSE, flat |-> Addresses[i].flat, value |-> Addresses[i].value - CodeBase]
    /\ \A l \in ConstantListeners :
         /\ numbers[ConstantOf(l)] \in 1..Capacity
         /\ DecodeImmediate(code[l.loc])
              = [heap |-> TRUE, flat |-> l.flat, value |-> numbers[ConstantOf(l)]]

(* The code bitmap marks only immediates that have been rewritten to an    *)
(* image-relative value, and once the image is written it marks every      *)
(* address and heap-constant immediate (the markBit calls of 493-510 and   *)
(* 959-986, spec 4.6).                                                      *)
CodeBitmapExact ==
  /\ \A l \in codeMap : l \in CodeLocs /\ code[l] # Unresolved
  /\ stage = "written" => codeMap = AddressLocs \cup ConstantLocs

(* Spec 8.5: every immediate rewritten in code, call immediates included,  *)
(* has its code-bitmap bit set.                                             *)
CodeBitmapCoversRewrites ==
  stage = "written" => {l \in CodeLocs : code[l] # Unresolved} \subseteq codeMap

(* Spec 4.8: each entry of the string table is the number of its string    *)
(* in the heap image.                                                       *)
StringTableResolved ==
  stage = "written" => \A i \in DOMAIN tables.strings : tables.strings[i] # 0

(* Every run of the writer ends with the image written unless the heap    *)
(* does not fit (the capacity expect() of visitNew aborts the walk): no    *)
(* expect() of the code passes or of updateConstants fails, which needs    *)
(* visitRoots to have numbered every compiler constant.                    *)
ImageWritten == <>(stage = "written" \/ phase = "aborted")

=============================================================================
