---------------------------- MODULE TaskContext ----------------------------
(***************************************************************************)
(* What the processor holds while processes come and go: the general       *)
(* registers, the page directory in CR3 and the base of GS.  Every step of *)
(* TaskSched that saves, activates, creates or frees a slot (src/task.c)   *)
(* is composed with what it does to them; computing and execve are added.  *)
(*                                                                         *)
(* Registers are abstracted to eax, which system calls write, and the      *)
(* rest, which only the program writes.  A page directory is the number of *)
(* the frame that holds it.                                                *)
(***************************************************************************)
EXTENDS TaskSched

CONSTANT
  TlsBases     \* GS bases of programs: USER_TLS_ADDR + the size of their TLS

ASSUME TlsAssumption == TlsBases \subseteq Nat \ {0}

KernelPd == 0
Pds == 1 .. NumSlots + 1
Eip == 2                                  \* a register seeded with the EIP
Frames == [eax : {0, 1, Eip}, rest : {0, 1, Eip}]
ZeroFrame == [eax |-> 0, rest |-> 0]
StartFrame == [eax |-> 1, rest |-> 1]     \* argc, argv, environ
NoTls == 0

VARIABLES
  frame,     \* task_slots[s].regs
  pd,        \* task_slots[s].page_directory
  tls,       \* task_slots[s].tls_vaddr
  gpr,       \* the trap frame of the running process
  cr3, gs,   \* CR3 and the base of the GS segment
  want       \* history: the registers the program of a slot must see

ctx == <<frame, pd, tls, gpr, cr3, gs, want>>
allVars == <<vars, ctx>>

CtxInit ==
  /\ Init
  /\ frame = [s \in Slots |-> ZeroFrame]
  /\ pd = [s \in Slots |-> KernelPd] /\ tls = [s \in Slots |-> NoTls]
  /\ gpr = ZeroFrame /\ cr3 = KernelPd /\ gs = NoTls
  /\ want = [s \in Slots |-> ZeroFrame]

-----------------------------------------------------------------------------
(* Helpers. *)
NewSlot == CHOOSE s \in Slots : FirstFree(s)

(* frame_alloc takes the lowest free frame for a page directory. *)
Held == {pd[s] : s \in {t \in Slots : Used(t)}}
FreshPd == CHOOSE p \in Pds \ Held : \A q \in Pds \ Held : p <= q

SetEax(f, v) == [f EXCEPT !.eax = v]

(* The safety net of task_timer_tick: all-zero registers become the EIP. *)
Net(f) == IF f = ZeroFrame THEN [eax |-> Eip, rest |-> Eip] ELSE f

(* task_slot_save_state(active, f): the slot takes the frame. *)
Save(f) == frame' = [frame EXCEPT ![active] = f]

(* task_slot_activate(s) *)
Activate(s) == cr3' = pd[s] /\ gs' = tls[s]


(* task_free_slot: leave the page directory before it is destroyed, then   *)
(* clear the slot; loaded is what CR3 holds before.                        *)
FreeSlots(freed, saved, wanted, loaded) ==
  LET Clear(f, zero) == [s \in Slots |-> IF s \in freed THEN zero ELSE f[s]]
  IN  /\ frame' = Clear(saved, ZeroFrame) /\ want' = Clear(wanted, ZeroFrame)
      /\ pd' = Clear(pd, KernelPd) /\ tls' = Clear(tls, NoTls)
      /\ cr3' = IF \E s \in freed : pd[s] = loaded THEN KernelPd ELSE loaded

(* The part of task_seed_slot that fills the slot of a new program. *)
SeedSlot(s, saved, wanted) ==
  /\ frame' = [saved EXCEPT ![s] = StartFrame]
  /\ want' = [wanted EXCEPT ![s] = StartFrame]
  /\ pd' = [pd EXCEPT ![s] = FreshPd]
  /\ \E b \in TlsBases : tls' = [tls EXCEPT ![s] = b]

-----------------------------------------------------------------------------
(* Steps of the kernel outside processes. *)
CtxStartFromKernel ==
  /\ SpawnBackground \/ RunAlongside
  /\ SeedSlot(NewSlot, frame, want)
  /\ UNCHANGED <<gpr, cr3, gs>>

CtxStartFails ==
  /\ RunAlongsideFails
  /\ UNCHANGED ctx

(* task_resume_user loads the saved frame as it is. *)
CtxResume ==
  /\ Resume
  /\ Activate(active')
  /\ gpr' = frame[active']
  /\ UNCHANGED <<frame, pd, tls, want>>

(* page_directory_switch_to_kernel, then task_free_slot. *)
CtxFinish ==
  /\ Finish
  /\ FreeSlots(SlotOf(root), frame, want, KernelPd)
  /\ UNCHANGED <<gpr, gs>>

-----------------------------------------------------------------------------
(* System calls.  The trap frame is gone once the caller has blocked. *)

(* task_fork_from_user: the child takes a copy of the frame with 0 in eax, *)
(* its own page directory and the TLS address of the parent.               *)
CtxFork ==
  /\ Fork
  /\ frame' = [frame EXCEPT ![NewSlot] = SetEax(gpr, 0)]
  /\ pd' = [pd EXCEPT ![NewSlot] = FreshPd]
  /\ tls' = [tls EXCEPT ![NewSlot] = tls[active]]
  /\ gpr' = SetEax(gpr, 1)
  /\ want' = [want EXCEPT ![NewSlot] = SetEax(want[active], 0), ![active].eax = 1]
  /\ UNCHANGED <<cr3, gs>>

(* task_spawn_from_user saves the caller, seeds the child and activates    *)
(* the caller again.                                                       *)
CtxSpawn ==
  /\ Spawn
  /\ SeedSlot(NewSlot, [frame EXCEPT ![active] = gpr], [want EXCEPT ![active].eax = 1])
  /\ Activate(active)
  /\ gpr' = SetEax(gpr, 1)

CtxSpawnFails ==
  /\ SpawnFails
  /\ Save(gpr) /\ Activate(active)
  /\ gpr' = SetEax(gpr, 1)
  /\ want' = [want EXCEPT ![active].eax = 1]
  /\ UNCHANGED <<pd, tls>>

CtxWaitpidCollects(requested) ==
  /\ WaitpidCollects(requested)
  /\ FreeSlots({s \in Slots : Used(s) /\ status'[s] = "FREE"}, frame,
               [want EXCEPT ![active].eax = 1], cr3)
  /\ gpr' = SetEax(gpr, 1)
  /\ UNCHANGED gs

(* Mutant: the frame is saved before the result of the call is in it. *)
CtxBlockOldEax ==
  /\ \/ \E requested \in Pids \cup {AnyChild} : WaitpidBlocks(requested)
     \/ \E d \in SleepTicks : Nanosleep(d)
     \/ SleepForever \/ Yield
  /\ Save(gpr)
  /\ gpr' = ZeroFrame
  /\ want' = [want EXCEPT ![active].eax = 0]
  /\ UNCHANGED <<pd, tls, cr3, gs>>

(* waitpid, nanosleep, a blocking recv or accept, and sched_yield save the *)
(* caller with 0 in eax and return to the scheduler loop.                  *)
CtxBlock ==
  /\ \/ \E requested \in Pids \cup {AnyChild} : WaitpidBlocks(requested)
     \/ \E d \in SleepTicks : Nanosleep(d)
     \/ SleepForever \/ Yield
  /\ Save(SetEax(gpr, 0))
  /\ gpr' = ZeroFrame
  /\ want' = [want EXCEPT ![active].eax = 0]
  /\ UNCHANGED <<pd, tls, cr3, gs>>

(* task_wake_slot writes the result of the call that slept. *)
CtxWake(s) ==
  /\ WakeSlot(s)
  /\ \E v \in {0, 1} :
       /\ frame' = [frame EXCEPT ![s].eax = v]
       /\ want' = IF s = active THEN want ELSE [want EXCEPT ![s].eax = v]
  /\ UNCHANGED <<pd, tls, gpr, cr3, gs>>

CtxExitZombie(code) ==
  /\ ExitZombie(code)
  /\ gpr' = ZeroFrame
  /\ UNCHANGED <<frame, pd, tls, cr3, gs, want>>

(* The waiting parent finds the child's pid in eax. *)
CtxExitCollected(code) ==
  /\ ExitCollected(code)
  /\ LET q == CHOOSE s \in Slots : status[s] = "WAITING" /\ status'[s] = "RUNNABLE"
     IN  FreeSlots({active}, [frame EXCEPT ![q].eax = 1], [want EXCEPT ![q].eax = 1], cr3)
  /\ gpr' = ZeroFrame
  /\ UNCHANGED gs

-----------------------------------------------------------------------------
(* The tick: nothing changes unless it switches to another slot. *)
CtxTick ==
  /\ Tick
  /\ \/ /\ active' = active
        /\ UNCHANGED ctx
     \/ /\ active' # active
        /\ Save(gpr) /\ Activate(active')
        /\ gpr' = Net(frame[active'])
        /\ UNCHANGED <<pd, tls, want>>

-----------------------------------------------------------------------------
(* User code. *)
Compute ==
  /\ InUser
  /\ \E f \in [eax : {0, 1}, rest : {0, 1}] :
       gpr' = f /\ want' = [want EXCEPT ![active] = f]
  /\ UNCHANGED <<vars, frame, pd, tls, cr3, gs>>

(* task_execve_from_user: a new page directory and a new TLS area.  The    *)
(* base of GS is left to the next task_slot_activate.                      *)
Execve ==
  /\ InUser
  /\ pd' = [pd EXCEPT ![active] = FreshPd]
  /\ cr3' = FreshPd
  /\ \E b \in TlsBases : tls' = [tls EXCEPT ![active] = b]
  /\ gpr' = SetEax(gpr, 0)
  /\ want' = [want EXCEPT ![active].eax = 0]
  /\ UNCHANGED <<vars, frame, gs>>

-----------------------------------------------------------------------------
CtxNext ==
  \/ CtxStartFromKernel \/ CtxStartFails \/ CtxResume \/ CtxFinish
  \/ CtxFork \/ CtxSpawn \/ CtxSpawnFails \/ CtxBlock
  \/ \E requested \in Pids \cup {AnyChild} : CtxWaitpidCollects(requested)
  \/ \E s \in Slots : CtxWake(s)
  \/ \E code \in ExitCodes : CtxExitZombie(code) \/ CtxExitCollected(code)
  \/ CtxTick
  \/ Compute \/ Execve

CtxSpec == CtxInit /\ [][CtxNext]_allVars

-----------------------------------------------------------------------------

(* A register holds what the program left in it, or the EIP that the       *)
(* safety net put there in place of zero.                                  *)
Matches(f, w) == \A r \in {"eax", "rest"} : f[r] = w[r] \/ (w[r] = 0 /\ f[r] = Eip)

(* Registers follow their process through fork, spawn, blocking, wake-ups  *)
(* and preemption: neither another process's frame nor a stale one is ever *)
(* loaded, up to the zeros that the safety net of task_timer_tick replaces.*)
RegistersFollowProcess ==
  /\ InUser => Matches(gpr, want[active])
  /\ \A s \in Slots : Used(s) /\ s # active /\ status[s] # "ZOMBIE" =>
       Matches(frame[s], want[s])

(* Preemption is invisible to the program: it finds the registers it had   *)
(* (the comment on the safety net in task_timer_tick).                     *)
PreemptionTransparent ==
  InUser => gpr = want[active]

(* The base of GS is that of the running program's TLS area                *)
(* (task_slot_activate, and the TLS set-up of execve).                     *)
GsBaseIsCurrent ==
  InUser => gs = tls[active]
=============================================================================
