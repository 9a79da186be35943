---------------------------- MODULE ProcessLife ----------------------------
(***************************************************************************)
(* What the process table promises to programs, without slots, scheduling  *)
(* or time: every pid is used for one process only; a process exits once;  *)
(* and its exit status is reported once, to the process that created it    *)
(* while that process is still alive, or to the kernel if the kernel       *)
(* started it.  A process that is never waited for stays a zombie.         *)
(***************************************************************************)
EXTENDS Integers, Sequences

CONSTANTS Pids, ExitCodes, Word(_)

Kernel == 0
Phases == {"unborn", "live", "zombie", "gone"}

VARIABLES
  phase,    \* where each pid is in its life
  creator,  \* who created it
  codes,    \* the codes it exited with
  reports   \* the <<receiver, value>> pairs that were delivered for it

lvars == <<phase, creator, codes, reports>>

LifeInit ==
  /\ phase = [p \in Pids |-> "unborn"]
  /\ creator = [p \in Pids |-> 0]
  /\ codes = [p \in Pids |-> <<>>]
  /\ reports = [p \in Pids |-> <<>>]

Alive(q) == q \in Pids /\ phase[q] = "live"

(* A process gets a pid above every pid used before. *)
Create(p, q) ==
  /\ \A r \in Pids : phase[r] # "unborn" => r < p
  /\ q = Kernel \/ Alive(q)
  /\ phase' = [phase EXCEPT ![p] = "live"]
  /\ creator' = [creator EXCEPT ![p] = q]
  /\ UNCHANGED <<codes, reports>>

BecomeZombie(p, c) ==
  /\ phase[p] = "live"
  /\ phase' = [phase EXCEPT ![p] = "zombie"]
  /\ codes' = [codes EXCEPT ![p] = Append(@, c)]
  /\ UNCHANGED <<creator, reports>>

(* Its creator is waiting: the exit and the report are one step. *)
ExitReported(p, c) ==
  /\ phase[p] = "live" /\ Alive(creator[p])
  /\ phase' = [phase EXCEPT ![p] = "gone"]
  /\ codes' = [codes EXCEPT ![p] = Append(@, c)]
  /\ reports' = [reports EXCEPT ![p] = Append(@, <<creator[p], Word(c)>>)]
  /\ UNCHANGED creator

Report(p) ==
  /\ phase[p] = "zombie" /\ Alive(creator[p])
  /\ phase' = [phase EXCEPT ![p] = "gone"]
  /\ reports' = [reports EXCEPT ![p] = Append(@, <<creator[p], Word(codes[p][1])>>)]
  /\ UNCHANGED <<creator, codes>>

(* The kernel learns the code of what it started, unencoded. *)
ReportToKernel(p) ==
  /\ phase[p] = "zombie" /\ creator[p] = Kernel
  /\ phase' = [phase EXCEPT ![p] = "gone"]
  /\ reports' = [reports EXCEPT ![p] = Append(@, <<Kernel, codes[p][1]>>)]
  /\ UNCHANGED <<creator, codes>>

LifeNext ==
  \E p \in Pids :
    \/ \E q \in Pids \cup {Kernel} : Create(p, q)
    \/ \E c \in ExitCodes : BecomeZombie(p, c) \/ ExitReported(p, c)
    \/ Report(p) \/ ReportToKernel(p)

LifeSpec == LifeInit /\ [][LifeNext]_lvars
=============================================================================
