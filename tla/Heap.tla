-------------------------------- MODULE Heap --------------------------------
(***************************************************************************)
(* The kernel heap (src/memory.c): a list of blocks, each with its header  *)
(* in front of it, first-fit allocation with splitting, and a free that    *)
(* merges every block with the ones that follow it in the list while both  *)
(* are free.  memory_init makes one region after the kernel and the boot   *)
(* modules, or two, before and after the modules.                          *)
(***************************************************************************)
EXTENDS Integers, Sequences, SequencesExt

CONSTANTS
  Header,         \* sizeof(block_header_t)
  Grain,          \* what sizes are rounded up to
  KernelEnd, ModsStart, ModsEnd, HeapEnd,   \* addresses; no modules: both KernelEnd
  Requests        \* sizes that are asked for

ASSUME SizesAssumption == Header \in Nat \ {0} /\ Grain \in Nat \ {0}
ASSUME LayoutAssumption ==
  /\ {KernelEnd, ModsStart, ModsEnd, HeapEnd} \subseteq Nat
  /\ KernelEnd <= ModsStart /\ ModsStart <= ModsEnd /\ ModsEnd + Header < HeapEnd
ASSUME RequestsAssumption == Requests \subseteq Nat \ {0}

VARIABLES
  blocks,    \* the list from heap_head on: addresses of headers, sizes, free bits
  live       \* history: sizes asked for, by the address that was returned

vars == <<blocks, live>>

Block(a, size, free) == [addr |-> a, size |-> size, free |-> free]
Addresses == KernelEnd .. HeapEnd

(* memory_init: the regions that have room for more than a header. *)
Region(from, to) ==
  IF to > from + Header THEN <<Block(from, to - from - Header, TRUE)>> ELSE <<>>

Init ==
  /\ blocks = Region(KernelEnd, ModsStart) \o Region(ModsEnd, HeapEnd)
  /\ live = <<>>

-----------------------------------------------------------------------------

(* align_up *)
AlignUp(n) == ((n + Grain - 1) \div Grain) * Grain

(* Block i is the one that kmalloc's loop stops at. *)
FirstFit(i, needed) ==
  /\ blocks[i].free /\ blocks[i].size >= needed
  /\ \A j \in 1 .. i - 1 : ~(blocks[j].free /\ blocks[j].size >= needed)

(* Mutant: no room is left for the header of the rest. *)
AllocatedNoHeader(list, i, needed) ==
  LET b == list[i]
  IN  IF b.size > needed + Header + Grain
      THEN SubSeq(list, 1, i - 1)
             \o <<Block(b.addr, needed, FALSE),
                  Block(b.addr + Header + needed, b.size - needed, TRUE)>>
             \o SubSeq(list, i + 1, Len(list))
      ELSE [list EXCEPT ![i].free = FALSE]

(* Mutant: a block is split even if the rest has no room for a header. *)
AllocatedAlwaysSplits(list, i, needed) ==
  LET b == list[i]
  IN  IF b.size > needed
      THEN SubSeq(list, 1, i - 1)
             \o <<Block(b.addr, needed, FALSE),
                  Block(b.addr + Header + needed, b.size - needed - Header, TRUE)>>
             \o SubSeq(list, i + 1, Len(list))
      ELSE [list EXCEPT ![i].free = FALSE]

(* The body of kmalloc's loop for the block that fits: it is split when    *)
(* the rest has room for a header and more than a grain.                   *)
Allocated(list, i, needed) ==
  LET b == list[i]
  IN  IF b.size > needed + Header + Grain
      THEN SubSeq(list, 1, i - 1)
             \o <<Block(b.addr, needed, FALSE),
                  Block(b.addr + Header + needed, b.size - needed - Header, TRUE)>>
             \o SubSeq(list, i + 1, Len(list))
      ELSE [list EXCEPT ![i].free = FALSE]

(* Mutant: the first block of the list is never merged with the next. *)
MergeSkipsHead(list) ==
  FoldLeft(LAMBDA done, b :
    IF done # <<>> /\ Last(done).free /\ b.free /\ Len(done) # 1
    THEN Append(Front(done), [Last(done) EXCEPT !.size = @ + Header + b.size])
    ELSE Append(done, b), <<>>, list)

(* merge_blocks, and memory_defragment: a free block takes in the free     *)
(* ones that follow it in the list.                                        *)
Merge(list) ==
  FoldLeft(LAMBDA done, b :
    IF done # <<>> /\ Last(done).free /\ b.free
    THEN Append(Front(done), [Last(done) EXCEPT !.size = @ + Header + b.size])
    ELSE Append(done, b), <<>>, list)

(* kfree: the header in front of the pointer. *)
Freed(list, ptr) ==
  Merge([i \in 1 .. Len(list) |->
           IF list[i].addr + Header = ptr THEN [list[i] EXCEPT !.free = TRUE] ELSE list[i]])

Without(f, ptr) == [p \in DOMAIN f \ {ptr} |-> f[p]]
With(f, ptr, n) == [p \in DOMAIN f \cup {ptr} |-> IF p = ptr THEN n ELSE f[p]]

-----------------------------------------------------------------------------
Kmalloc(n) ==
  /\ \E i \in 1 .. Len(blocks) :
       /\ FirstFit(i, AlignUp(n))
       /\ blocks' = Allocated(blocks, i, AlignUp(n))
       /\ live' = With(live, blocks[i].addr + Header, n)

Kfree(ptr) ==
  /\ ptr \in DOMAIN live
  /\ blocks' = Freed(blocks, ptr)
  /\ live' = Without(live, ptr)

(* krealloc of a block that is large enough returns it as it is ... *)
KreallocInPlace(ptr, n) ==
  /\ ptr \in DOMAIN live
  /\ \E i \in 1 .. Len(blocks) : blocks[i].addr + Header = ptr /\ blocks[i].size >= n
  /\ live' = With(live, ptr, n)
  /\ UNCHANGED blocks

(* ... and otherwise moves: the new block is taken before the old is freed.*)
KreallocMoves(ptr, n) ==
  /\ ptr \in DOMAIN live
  /\ \E i \in 1 .. Len(blocks) : blocks[i].addr + Header = ptr /\ blocks[i].size < n
  /\ \E i \in 1 .. Len(blocks) :
       /\ FirstFit(i, AlignUp(n))
       /\ blocks' = Freed(Allocated(blocks, i, AlignUp(n)), ptr)
       /\ live' = Without(With(live, blocks[i].addr + Header, n), ptr)

(* memory_defragment, called when a page directory cannot be created *)
Defragment ==
  /\ blocks' = Merge(blocks)
  /\ UNCHANGED live

Next ==
  \/ \E n \in Requests : Kmalloc(n)
  \/ \E ptr \in Addresses : Kfree(ptr)
  \/ \E ptr \in Addresses, n \in Requests : KreallocInPlace(ptr, n) \/ KreallocMoves(ptr, n)
  \/ Defragment

Spec == Init /\ [][Next]_vars

-----------------------------------------------------------------------------
End(b) == b.addr + Header + b.size

(* Types. *)
TypeOK ==
  /\ blocks # <<>>
  /\ \A i \in 1 .. Len(blocks) :
       blocks[i] \in [addr : Addresses, size : 0 .. HeapEnd, free : BOOLEAN]
  /\ DOMAIN live \subseteq Addresses
  /\ \A ptr \in DOMAIN live : live[ptr] \in Requests

(* The blocks tile their region: every byte of the heap belongs to one     *)
(* block or header, in address order, so that no two allocations overlap   *)
(* and none is lost, whatever order blocks are split, freed, moved and     *)
(* merged in (kmalloc, krealloc, merge_blocks).  One region.               *)
BlocksTile ==
  /\ blocks[1].addr = ModsEnd /\ End(blocks[Len(blocks)]) = HeapEnd
  /\ \A i \in 1 .. Len(blocks) - 1 : blocks[i + 1].addr = End(blocks[i])


(* Free space does not stay in pieces: no two neighbours are free, so that *)
(* an empty heap is one block again (kfree calls merge_blocks).            *)
FreeIsMerged ==
  \A i \in 1 .. Len(blocks) - 1 : ~(blocks[i].free /\ blocks[i + 1].free)

(* No block reaches into the boot modules: the two regions stay two (the   *)
(* comments in memory_init and memory_defragment).                         *)
ModulesUntouched ==
  \A i \in 1 .. Len(blocks) : End(blocks[i]) <= ModsStart \/ ModsEnd <= blocks[i].addr
=============================================================================
