---------------------------- MODULE Descriptors ----------------------------
(***************************************************************************)
(* Descriptor tables and the reference counts of the pipes and sockets     *)
(* they name: task_alloc_fd, task_close, dup in its three forms, close on  *)
(* exec, the copies made by fork and spawn, the counting done by every     *)
(* task_slot_save_state, and task_free_slot (src/task.c, src/syscall.c,    *)
(* and the allocation and release of src/pipe.c and src/socket.c).         *)
(*                                                                         *)
(* The table of a process is current_task.fds while it runs and            *)
(* task_slots[s].state.fds while it does not.  The console descriptors     *)
(* 0, 1 and 2 are left out.                                                *)
(***************************************************************************)
EXTENDS Integers, FiniteSets

CONSTANTS
  Procs,            \* slots of the task table
  Fds,              \* descriptor numbers, from 3 on
  Pipes, Sockets,   \* places of pipe_endpoints and socket_endpoints
  MaxRef            \* bound: reference counts stop here

ASSUME FdsAssumption == Fds \subseteq Nat /\ Fds # {}
ASSUME MaxRefAssumption == MaxRef \in Nat

None == "none"
Objects == Pipes \cup Sockets
Kinds == {"FREE", "SOCKET", "PIPE_READ", "PIPE_WRITE"}
Entries == [kind : Kinds, obj : Objects \cup {None}, cloexec : BOOLEAN]
FreeEntry == [kind |-> "FREE", obj |-> None, cloexec |-> FALSE]

VARIABLES
  running,               \* the process that executes, or None
  life,                  \* "free", "live" or "zombie"
  fds,                   \* the descriptor tables
  ref,                   \* refcount; 0 when the object is not used
  readOpen, writeOpen,   \* the ends of the pipes
  copied                 \* history: objects duplicated without being counted

objVars == <<ref, readOpen, writeOpen>>
vars == <<running, life, fds, ref, readOpen, writeOpen, copied>>

Init ==
  /\ running = None
  /\ \E p \in Procs : life = [q \in Procs |-> IF q = p THEN "live" ELSE "free"]
  /\ fds = [p \in Procs |-> [f \in Fds |-> FreeEntry]]
  /\ ref = [o \in Objects |-> 0]
  /\ readOpen = [o \in Pipes |-> FALSE] /\ writeOpen = [o \in Pipes |-> FALSE]
  /\ copied = {}

-----------------------------------------------------------------------------
(* Descriptors of a table that name o. *)
Naming(table, o) == {f \in Fds : table[f].kind # "FREE" /\ table[f].obj = o}

Entry(kind, o) == [kind |-> kind, obj |-> o, cloexec |-> FALSE]

(* task_alloc_fd: the first free descriptor; the entry is not marked. *)
FirstFreeFd(table, f) ==
  /\ table[f].kind = "FREE"
  /\ \A g \in Fds : g < f => table[g].kind # "FREE"

NoFreeFd(table) == \A f \in Fds : table[f].kind # "FREE"

(* Mutant: save_state does not count. *)
NotCounted(counts, table) == counts

(* The counting done by task_slot_save_state for the table it stores. *)
Counted(counts, table) ==
  [o \in Objects |-> counts[o] + Cardinality(Naming(table, o))]

(* Mutant: an object that is no longer used is released again. *)
ReleasedTwice(counts, table, closed) ==
  [o \in Objects |-> counts[o] - Cardinality(Naming(table, o) \cap closed)]

(* Counts with the given descriptors of a table released; releasing an     *)
(* object that is not used any more does nothing.                          *)
Released(counts, table, closed) ==
  [o \in Objects |->
     LET left == counts[o] - Cardinality(Naming(table, o) \cap closed)
     IN  IF left > 0 THEN left ELSE 0]

(* pipe_close_read, pipe_close_write and pipe_release for the same          *)
(* descriptors: a descriptor that goes closes its end for everybody.        *)
CloseEnds(table, closed, counts) ==
  LET Kept(o, kind) == ~\E f \in closed : table[f].kind = kind /\ table[f].obj = o
  IN  /\ readOpen' = [o \in Pipes |-> readOpen[o] /\ counts[o] > 0 /\ Kept(o, "PIPE_READ")]
      /\ writeOpen' = [o \in Pipes |-> writeOpen[o] /\ counts[o] > 0 /\ Kept(o, "PIPE_WRITE")]

Release(table, closed, counts) ==
  /\ ref' = Released(counts, table, closed)
  /\ CloseEnds(table, closed, ref')

Bounded(counts) == \A o \in Objects : counts[o] <= MaxRef

-----------------------------------------------------------------------------
(* Scheduling.  Every switch away from a process saves its state. *)
Resume(p) ==
  /\ running = None /\ life[p] = "live"
  /\ running' = p
  /\ UNCHANGED <<copied, life, fds, objVars>>

SwitchOut ==
  /\ running # None
  /\ ref' = Counted(ref, fds[running]) /\ Bounded(ref')
  /\ running' = None
  /\ UNCHANGED <<copied, life, fds, readOpen, writeOpen>>

-----------------------------------------------------------------------------
(* sys_socket.  An endpoint for which there is no descriptor stays used. *)
Socket(o) ==
  /\ running # None /\ ref[o] = 0
  /\ ref' = [ref EXCEPT ![o] = 1]
  /\ \/ \E f \in Fds :
          /\ FirstFreeFd(fds[running], f)
          /\ fds' = [fds EXCEPT ![running][f] = Entry("SOCKET", o)]
     \/ NoFreeFd(fds[running]) /\ UNCHANGED fds
  /\ UNCHANGED <<copied, running, life, readOpen, writeOpen>>

(* sys_pipe: task_alloc_fd is asked twice before either entry is marked. *)
Pipe(o) ==
  /\ running # None /\ ref[o] = 0
  /\ \E readfd, writefd \in Fds :
       /\ FirstFreeFd(fds[running], readfd) /\ FirstFreeFd(fds[running], writefd)
       /\ fds' = [fds EXCEPT ![running][readfd] = Entry("PIPE_READ", o),
                             ![running][writefd] = Entry("PIPE_WRITE", o)]
  /\ ref' = [ref EXCEPT ![o] = 2]
  /\ readOpen' = [readOpen EXCEPT ![o] = TRUE]
  /\ writeOpen' = [writeOpen EXCEPT ![o] = TRUE]
  /\ UNCHANGED <<copied, running, life>>

(* task_close *)
Close(f) ==
  /\ running # None /\ fds[running][f].kind # "FREE"
  /\ Release(fds[running], {f}, ref)
  /\ fds' = [fds EXCEPT ![running][f] = FreeEntry]
  /\ UNCHANGED <<copied, running, life>>

(* sys_dup: the entry is copied, the object is not counted. *)
Dup(f) ==
  /\ running # None /\ fds[running][f].kind # "FREE"
  /\ \E g \in Fds :
       /\ FirstFreeFd(fds[running], g)
       /\ fds' = [fds EXCEPT ![running][g] = fds[running][f]]
  /\ copied' = copied \cup {fds[running][f].obj}
  /\ UNCHANGED <<running, life, objVars>>

(* sys_dup2: the target is closed first; the object is not counted. *)
Dup2(f, g) ==
  /\ f # g
  /\ running # None /\ fds[running][f].kind # "FREE"
  /\ \/ fds[running][g].kind # "FREE" /\ Release(fds[running], {g}, ref)
     \/ fds[running][g].kind = "FREE" /\ UNCHANGED objVars
  /\ fds' = [fds EXCEPT ![running][g] = fds[running][f]]
  /\ copied' = copied \cup {fds[running][f].obj}
  /\ UNCHANGED <<running, life>>

(* sys_fcntl(F_DUPFD) and task_dup: the target is overwritten, not closed, *)
(* and only pipes are counted.                                             *)
DupFd(f, g) ==
  /\ running # None /\ fds[running][f].kind # "FREE"
  /\ ref' = [o \in Objects |->
               IF o \in Pipes /\ o = fds[running][f].obj THEN ref[o] + 1 ELSE ref[o]]
  /\ Bounded(ref')
  /\ \E cloexec \in {TRUE, fds[running][f].cloexec} :
       fds' = [fds EXCEPT ![running][g] = [fds[running][f] EXCEPT !.cloexec = cloexec]]
  /\ copied' = copied \cup ({fds[running][f].obj} \cap Sockets)
  /\ UNCHANGED <<running, life, readOpen, writeOpen>>

(* sys_fcntl(F_SETFD) *)
SetCloexec(f) ==
  /\ running # None /\ fds[running][f].kind # "FREE"
  /\ fds' = [fds EXCEPT ![running][f].cloexec = ~@]
  /\ UNCHANGED <<copied, running, life, objVars>>

(* task_execve_from_user: descriptors marked close-on-exec are forgotten,  *)
(* the objects they name are not released.                                 *)
Exec ==
  /\ running # None
  /\ fds' = [fds EXCEPT ![running] = [f \in Fds |-> IF @[f].cloexec THEN FreeEntry ELSE @[f]]]
  /\ UNCHANGED <<copied, running, life, objVars>>

-----------------------------------------------------------------------------
(* task_fork_from_user: the child's slot is saved from the parent. *)
Fork(child) ==
  /\ running # None /\ life[child] = "free"
  /\ ref' = Counted(ref, fds[running]) /\ Bounded(ref')
  /\ fds' = [fds EXCEPT ![child] = fds[running]]
  /\ life' = [life EXCEPT ![child] = "live"]
  /\ UNCHANGED <<copied, running, readOpen, writeOpen>>

(* The page directory cannot be copied: task_free_slot releases what the   *)
(* save has counted, and closes the pipe ends with it.                     *)
ForkFails(child) ==
  /\ running # None /\ life[child] = "free"
  /\ Release(fds[running], Fds, Counted(ref, fds[running]))
  /\ UNCHANGED <<copied, running, life, fds>>

(* task_spawn_from_user saves the caller, then the child it has seeded. *)
Spawn(child) ==
  /\ running # None /\ life[child] = "free"
  /\ ref' = Counted(Counted(ref, fds[running]), fds[running]) /\ Bounded(ref')
  /\ fds' = [fds EXCEPT ![child] = fds[running]]
  /\ life' = [life EXCEPT ![child] = "live"]
  /\ UNCHANGED <<copied, running, readOpen, writeOpen>>

(* The new program cannot be loaded: the caller stays counted. *)
SpawnFails ==
  /\ running # None
  /\ ref' = Counted(ref, fds[running]) /\ Bounded(ref')
  /\ UNCHANGED <<copied, running, life, fds, readOpen, writeOpen>>

(* task_exit_current: the table stays with the zombie ... *)
Exit ==
  /\ running # None
  /\ life' = [life EXCEPT ![running] = "zombie"]
  /\ running' = None
  /\ UNCHANGED <<copied, fds, objVars>>

(* ... until task_free_slot releases all of it. *)
Reap(p) ==
  /\ life[p] = "zombie"
  /\ Release(fds[p], Fds, ref)
  /\ fds' = [fds EXCEPT ![p] = [f \in Fds |-> FreeEntry]]
  /\ life' = [life EXCEPT ![p] = "free"]
  /\ UNCHANGED <<copied, running>>

Next ==
  \/ \E p \in Procs : Resume(p) \/ Fork(p) \/ ForkFails(p) \/ Spawn(p) \/ Reap(p)
  \/ SwitchOut \/ SpawnFails \/ Exec \/ Exit
  \/ \E o \in Sockets : Socket(o)
  \/ \E o \in Pipes : Pipe(o)
  \/ \E f \in Fds : Close(f) \/ Dup(f) \/ SetCloexec(f)
  \/ \E f, g \in Fds : Dup2(f, g) \/ DupFd(f, g)

Spec == Init /\ [][Next]_vars

-----------------------------------------------------------------------------
(* Types; reference counts are never negative. *)
TypeOK ==
  /\ running \in Procs \cup {None}
  /\ life \in [Procs -> {"free", "live", "zombie"}]
  /\ fds \in [Procs -> [Fds -> Entries]]
  /\ ref \in [Objects -> Nat]
  /\ readOpen \in [Pipes -> BOOLEAN] /\ writeOpen \in [Pipes -> BOOLEAN]
  /\ copied \subseteq Objects

Holders(o) == {pf \in Procs \X Fds : pf[2] \in Naming(fds[pf[1]], o)}

(* No object is released under a descriptor that names it: the count never *)
(* falls below the number of descriptors, whatever fork, spawn, exec,      *)
(* close, F_DUPFD of a pipe, switches, exit and reaping do in between      *)
(* (task_slot_save_state, task_dup, task_close, task_free_slot).  Objects  *)
(* that dup, dup2 or F_DUPFD have copied without counting are excepted.    *)
HoldersAreCounted ==
  \A o \in Objects \ copied : Cardinality(Holders(o)) <= ref[o]

(* The same without the exception: every duplicate is counted (the comment *)
(* in task_dup).                                                           *)
DuplicatesAreCounted ==
  \A o \in Objects : Cardinality(Holders(o)) <= ref[o]

(* Nothing but its descriptors keeps a socket in use: a descriptor is      *)
(* counted once, when it comes to be (the comment on the counting in       *)
(* task_slot_save_state).                                                  *)
OnlyHoldersAreCounted ==
  \A o \in Sockets : ref[o] <= Cardinality(Holders(o))

(* Both ends of an open pipe are within some program's reach (sys_pipe     *)
(* returns a descriptor for each).                                         *)
OpenEndsAreHeld ==
  \A o \in Pipes :
    /\ readOpen[o] => \E pf \in Holders(o) : fds[pf[1]][pf[2]].kind = "PIPE_READ"
    /\ writeOpen[o] => \E pf \in Holders(o) : fds[pf[1]][pf[2]].kind = "PIPE_WRITE"

(* An end of a pipe is open for as long as a descriptor names it: the      *)
(* references of a forked child count too.                                 *)
HeldEndsAreOpen ==
  \A p \in Procs, f \in Fds :
    LET e == fds[p][f]
    IN  /\ e.kind = "PIPE_READ" => readOpen[e.obj]
        /\ e.kind = "PIPE_WRITE" => writeOpen[e.obj]
=============================================================================
