------------------------------- MODULE Paging -------------------------------
(***************************************************************************)
(* Physical frames and address spaces: the bitmap of frames, page          *)
(* directories and tables, allocation of user pages, the copy-on-write     *)
(* copy made by fork, the page fault that ends it, kernel writes to user   *)
(* memory, execve and the destruction of a directory (src/paging.c, and    *)
(* the parts of src/task.c that call it).                                  *)
(*                                                                         *)
(* All user pages of a process share one page table.  A frame holds one    *)
(* value, and 0 once no entry names it, since every page that is allocated *)
(* is filled first.  The fault handler copies through a temporary mapping in  *)
(* the last 4 MiB below KERNEL_VIRTUAL_BASE, which it enters in the        *)
(* kernel's directory; the running directory has it only if it was there   *)
(* when the directory was created.  It reads the old frame at its physical *)
(* address, which for a frame in the user window names something else.     *)
(***************************************************************************)
EXTENDS Integers, FiniteSets, FiniteSetsExt

CONSTANTS
  Procs,          \* slots of the task table
  ImagePages,     \* pages of the program: image, stack and TLS
  MmapPages,      \* pages of the mmap area
  TotalFrames,    \* total_frames
  FirstFrame,     \* first_frame
  TempPresent,    \* does the kernel directory have a table for the temporary
                  \* mapping from the start (a framebuffer mapped there)?
  Shadowed,       \* frames whose physical address lies in the user window
  Values          \* contents of a frame; 0 is what memset leaves

ASSUME FramesAssumption ==
  /\ TotalFrames \in Nat \ {0} /\ FirstFrame \in 0 .. TotalFrames
  /\ Shadowed \subseteq 0 .. TotalFrames - 1
ASSUME PagesAssumption == ImagePages \cap MmapPages = {} /\ ImagePages # {}
ASSUME ValuesAssumption == 0 \in Values
ASSUME TempAssumption == TempPresent \in BOOLEAN

Pages == ImagePages \cup MmapPages
Frames == 0 .. TotalFrames - 1
NoFrame == -1
NoPte == [present |-> FALSE, frame |-> NoFrame, rw |-> FALSE, cow |-> FALSE]

VARIABLES
  used,        \* the bits that are set in the bitmap of frames
  pd, table,   \* frames of the page directory and of the page table
  pte,         \* page table entries
  mmaps,       \* current_task.mappings
  mem,         \* contents of the frames
  life,        \* "free", "live" or "zombie"
  panicked,    \* the kernel has stopped
  want,        \* history: what the program of a process has put in a page
  spoiled      \* history: frames that hold something else for a reason
               \* other than a write of user code

spaceVars == <<used, pd, table, pte, mem, want, spoiled>>
vars == <<used, pd, table, pte, mmaps, mem, life, panicked, want, spoiled>>

(* frame_alloc_init; no process yet *)
Init ==
  /\ used = {f \in Frames : f < FirstFrame}
  /\ pd = [p \in Procs |-> NoFrame] /\ table = [p \in Procs |-> NoFrame]
  /\ pte = [p \in Procs |-> [v \in Pages |-> NoPte]]
  /\ mmaps = [p \in Procs |-> {}]
  /\ mem = [f \in Frames |-> 0]
  /\ life = [p \in Procs |-> "free"]
  /\ panicked = FALSE
  /\ want = [p \in Procs |-> [v \in Pages |-> 0]]
  /\ spoiled = {}

-----------------------------------------------------------------------------
(* frame_alloc: the lowest free frame *)
FirstFit(u) == Min(Frames \ u)

(* The first n frames that frame_alloc hands out, one after the other. *)
Taken(u, n) == {f \in Frames \ u : Cardinality({g \in Frames \ u : g < f}) < n}
Free(n) == Cardinality(Frames \ used) >= n

Live(p) == life[p] # "free"

(* No frame is free that a process still maps. *)
FramesHeld ==
  \A p \in Procs : Live(p) =>
    /\ pd[p] \in used
    /\ \A v \in Pages : pte[p][v].present => pte[p][v].frame \in used

(* A step of a process; any live one may be the one that runs.  What       *)
(* happens once a mapped frame has been freed is not followed any further. *)
Running(p) == life[p] = "live" /\ ~panicked /\ FramesHeld

Maps(p, v, f) == Live(p) /\ pte[p][v].present /\ pte[p][v].frame = f
Mapped(f) == \E p \in Procs, v \in Pages : Maps(p, v, f)

(* The contents m of the frames that are still mapped after the step. *)
Settle(m, s) ==
  /\ mem' = [f \in Frames |-> IF Mapped(f)' THEN m[f] ELSE 0]
  /\ spoiled' = {f \in s : Mapped(f)'}

Fresh(f, rw) == [present |-> TRUE, frame |-> f, rw |-> rw, cow |-> FALSE]


(* What page_directory_destroy frees: every present page, the table and    *)
(* the directory.                                                          *)
Destroyed(p) ==
  {pte[p][v].frame : v \in {x \in Pages : pte[p][x].present}}
    \cup ({pd[p], table[p]} \cap Frames)

(* page_directory_create, elf_load_paged and the stack and TLS pages: a    *)
(* directory, then a page, the table that page_map finds missing, and the  *)
(* other pages; old is freed once the new one is complete.                 *)
NewImage(p, old) ==
  LET n == Cardinality(ImagePages)
  IN  /\ Free(n + 2)
      /\ LET u == Taken(used, n + 2)
             d == FirstFit(used)
             t == FirstFit(used \cup Taken(used, 2))
             place == CHOOSE g \in [ImagePages -> u \ {d, t}] :
                        \A v, x \in ImagePages : v # x => g[v] # g[x]
         IN  /\ used' = (used \cup u) \ old
             /\ pd' = [pd EXCEPT ![p] = d] /\ table' = [table EXCEPT ![p] = t]
             /\ pte' = [pte EXCEPT ![p] = [v \in Pages |->
                          IF v \in ImagePages THEN Fresh(place[v], TRUE) ELSE NoPte]]
             /\ Settle([f \in Frames |-> IF f \in u THEN 0 ELSE mem[f]], spoiled \ u)
             /\ want' = [want EXCEPT ![p] = [v \in Pages |-> 0]]
  /\ mmaps' = [mmaps EXCEPT ![p] = {}]

-----------------------------------------------------------------------------
(* task_seed_slot, for a program started by the kernel or by spawn *)
Start(p) ==
  /\ life[p] = "free" /\ ~panicked /\ FramesHeld
  /\ life' = [life EXCEPT ![p] = "live"]
  /\ NewImage(p, {})
  /\ UNCHANGED panicked

(* task_execve_from_user: the old directory is destroyed at the end. *)
Exec(p) ==
  /\ Running(p)
  /\ UNCHANGED <<life, panicked>>
  /\ NewImage(p, Destroyed(p))

-----------------------------------------------------------------------------
(* Mutant: the address of a fixed mapping is not checked. *)
MmapAnywhere(p, v, rw) ==
  /\ Running(p) /\ v \notin mmaps[p] /\ Free(1)
  /\ LET f == FirstFit(used)
     IN  /\ used' = used \cup {f}
         /\ pte' = [pte EXCEPT ![p][v] = Fresh(f, rw)]
         /\ UNCHANGED <<pd, table, life, panicked>>
         /\ Settle([mem EXCEPT ![f] = 0], spoiled \ {f})
  /\ want' = [want EXCEPT ![p][v] = 0]
  /\ mmaps' = [mmaps EXCEPT ![p] = @ \cup {v}]

(* task_mmap, anonymous: a zeroed page; an entry left by munmap is         *)
(* overwritten.                                                            *)
Mmap(p, v, rw) ==
  /\ Running(p) /\ v \in MmapPages \ mmaps[p] /\ Free(1)
  /\ LET f == FirstFit(used)
     IN  /\ used' = used \cup {f}
         /\ pte' = [pte EXCEPT ![p][v] = Fresh(f, rw)]
         /\ UNCHANGED <<pd, table, life, panicked>>
         /\ Settle([mem EXCEPT ![f] = 0], spoiled \ {f})
  /\ want' = [want EXCEPT ![p][v] = 0]
  /\ mmaps' = [mmaps EXCEPT ![p] = @ \cup {v}]

(* task_munmap: page_unmap only invalidates the TLB entry. *)
Munmap(p, v) ==
  /\ Running(p) /\ v \in mmaps[p]
  /\ mmaps' = [mmaps EXCEPT ![p] = @ \ {v}]
  /\ UNCHANGED <<spaceVars, life, panicked>>

-----------------------------------------------------------------------------
(* A write of user code to a writable page. *)
UserWrite(p, v, x) ==
  /\ Running(p) /\ pte[p][v].present /\ pte[p][v].rw
  /\ mem' = [mem EXCEPT ![pte[p][v].frame] = x]
  /\ want' = [want EXCEPT ![p][v] = x]
  /\ UNCHANGED <<used, pd, table, pte, mmaps, life, panicked, spoiled>>


(* The page fault of a write to a copy-on-write page.  The write follows   *)
(* once the page is private.                                               *)
CowCopies(p, v) ==
  /\ Running(p) /\ pte[p][v].present /\ pte[p][v].cow /\ ~pte[p][v].rw /\ Free(1)
  /\ TempPresent
  /\ LET old == pte[p][v].frame
         f == FirstFit(used)
     IN  /\ used' = used \cup {f}
         /\ pte' = [pte EXCEPT ![p][v] = Fresh(f, TRUE)]
         /\ UNCHANGED <<pd, table, mmaps, life, panicked, want>>
         /\ \E x \in IF old \in Shadowed THEN Values ELSE {mem[old]} :
              Settle([mem EXCEPT ![f] = x],
                     IF old \in Shadowed \cup spoiled THEN spoiled \cup {f} ELSE spoiled \ {f})

(* The same fault when the temporary mapping, or the address of the old    *)
(* frame, is not in the running directory: a page fault in the kernel.     *)
CowPanics(p, v) ==
  /\ Running(p) /\ pte[p][v].present /\ pte[p][v].cow /\ ~pte[p][v].rw /\ Free(1)
  /\ ~TempPresent \/ pte[p][v].frame \in Shadowed
  /\ panicked' = TRUE
  /\ UNCHANGED <<spaceVars, mmaps, life>>

(* A fault that the handler cannot resolve ends the process: no frame for  *)
(* the copy, a write to a read-only page, an address that is not mapped.   *)
UserFault(p, v) ==
  /\ Running(p) /\ ~pte[p][v].rw
  /\ pte[p][v].present /\ pte[p][v].cow => ~Free(1)
  /\ life' = [life EXCEPT ![p] = "zombie"]
  /\ UNCHANGED <<spaceVars, mmaps, panicked>>

(* task_copy_to_user and the other writes of the kernel to user memory:    *)
(* CR0.WP is clear, so a read-only page is written like any other.         *)
KernelWrite(p, v, x) ==
  /\ Running(p) /\ pte[p][v].present
  /\ LET f == pte[p][v].frame
     IN  /\ mem' = [mem EXCEPT ![f] = x]
         /\ spoiled' = IF \E q \in Procs \ {p}, w \in Pages : Maps(q, w, f)
                       THEN spoiled \cup {f} ELSE spoiled
  /\ want' = [want EXCEPT ![p][v] = x]
  /\ UNCHANGED <<used, pd, table, pte, mmaps, life, panicked>>

-----------------------------------------------------------------------------

(* page_directory_copy_cow: an entry of the parent, and of the child. *)
SourceEntry(e) == IF e.present /\ e.rw THEN [e EXCEPT !.rw = FALSE, !.cow = TRUE] ELSE e
ChildEntry(e) == IF e.present THEN [e EXCEPT !.rw = FALSE, !.cow = TRUE] ELSE NoPte

(* task_fork_from_user.  When there is no frame for the child's table the  *)
(* child is left without pages: page_map's answer is not looked at.        *)
Fork(p, child) ==
  /\ Running(p) /\ life[child] = "free" /\ Free(1)
  /\ pd' = [pd EXCEPT ![child] = FirstFit(used)]
  /\ \/ /\ Free(2)
        /\ used' = used \cup Taken(used, 2)
        /\ table' = [table EXCEPT ![child] = FirstFit(used \cup {FirstFit(used)})]
        /\ pte' = [pte EXCEPT ![p] = [v \in Pages |-> SourceEntry(@[v])],
                              ![child] = [v \in Pages |-> ChildEntry(pte[p][v])]]
     \/ /\ ~Free(2)
        /\ used' = used \cup {FirstFit(used)}
        /\ table' = [table EXCEPT ![child] = NoFrame]
        /\ pte' = [pte EXCEPT ![p] = [v \in Pages |-> SourceEntry(@[v])],
                              ![child] = [v \in Pages |-> NoPte]]
  /\ life' = [life EXCEPT ![child] = "live"]
  /\ mmaps' = [mmaps EXCEPT ![child] = mmaps[p]]
  /\ want' = [want EXCEPT ![child] = want[p]]
  /\ UNCHANGED <<mem, panicked, spoiled>>

(* task_exit_current *)
Exit(p) ==
  /\ Running(p)
  /\ life' = [life EXCEPT ![p] = "zombie"]
  /\ UNCHANGED <<spaceVars, mmaps, panicked>>

(* task_free_slot *)
Reap(p) ==
  /\ life[p] = "zombie" /\ ~panicked /\ FramesHeld
  /\ used' = used \ Destroyed(p)
  /\ life' = [life EXCEPT ![p] = "free"]
  /\ pd' = [pd EXCEPT ![p] = NoFrame] /\ table' = [table EXCEPT ![p] = NoFrame]
  /\ pte' = [pte EXCEPT ![p] = [v \in Pages |-> NoPte]]
  /\ mmaps' = [mmaps EXCEPT ![p] = {}]
  /\ want' = [want EXCEPT ![p] = [v \in Pages |-> 0]]
  /\ Settle(mem, spoiled)
  /\ UNCHANGED panicked

Next ==
  \/ \E p \in Procs : Start(p) \/ Exec(p) \/ Exit(p) \/ Reap(p)
  \/ \E p, q \in Procs : Fork(p, q)
  \/ \E p \in Procs, v \in Pages :
       \/ Munmap(p, v) \/ CowCopies(p, v) \/ CowPanics(p, v) \/ UserFault(p, v)
       \/ \E rw \in BOOLEAN : Mmap(p, v, rw)
       \/ \E x \in Values \ {0} : UserWrite(p, v, x) \/ KernelWrite(p, v, x)

Spec == Init /\ [][Next]_vars

-----------------------------------------------------------------------------
(* Types. *)
TypeOK ==
  /\ used \subseteq Frames /\ spoiled \subseteq Frames
  /\ pd \in [Procs -> Frames \cup {NoFrame}] /\ table \in [Procs -> Frames \cup {NoFrame}]
  /\ pte \in [Procs -> [Pages -> [present : BOOLEAN, frame : Frames \cup {NoFrame},
                                  rw : BOOLEAN, cow : BOOLEAN]]]
  /\ mmaps \in [Procs -> SUBSET MmapPages]
  /\ mem \in [Frames -> Values] /\ want \in [Procs -> [Pages -> Values]]
  /\ life \in [Procs -> {"free", "live", "zombie"}]
  /\ panicked \in BOOLEAN




(* The same without the exception: copy-on-write keeps parent and child    *)
(* apart whoever writes (task_copy_to_user after fork).                    *)
PagesPrivateAlways ==
  FramesHeld => \A p \in Procs, v \in Pages :
    life[p] = "live" /\ pte[p][v].present => mem[pte[p][v].frame] = want[p][v]

(* A page of the mmap area is accessible only while it is mapped: munmap   *)
(* takes it away (the comment in task_munmap).                             *)
OnlyMappedPresent ==
  \A p \in Procs, v \in MmapPages : pte[p][v].present => v \in mmaps[p]

(* A write to a page shared by fork does not stop the kernel               *)
(* (page_fault_handler).                                                   *)
CowSurvives == ~panicked
=============================================================================
