-------------------------------- MODULE Proc --------------------------------
(***************************************************************************)
(* The process table of kernel/fork.c and kernel/exit.c: pid allocation in *)
(* find_empty_process, the task copy of copy_process, do_exit with its     *)
(* reparenting, kill_session and tell_father, sys_waitpid with its sleep,  *)
(* sys_kill and release.  A task runs without preemption from one sleep to *)
(* the next, so each system call is one step up to its sleep.              *)
(*                                                                         *)
(* Every signal has its default action here (SIGCHLD ignored, the others   *)
(* call do_exit); handlers and masks are the Signal module's subject.      *)
(* Slot 0 is task 0 (pid 0), which never acts.  Slot 1 is init, the       *)
(* specification's root process (pid 1) that reaps the orphans handed to   *)
(* it: it calls waitpid(-1, &status, 0) over and over (init/main.c is not  *)
(* in this repository).  It starts with one child, a shell that leads its  *)
(* own session.                                                            *)
(***************************************************************************)
EXTENDS Integers, FiniteSets, FiniteSetsExt

CONSTANTS
  NR_TASKS,   \* size of task[]
  PID_MAX,    \* largest value of last_pid; ++last_pid past it goes negative
  KillSigs    \* the signals user programs send with kill

ASSUME NR_TASKS \in Nat /\ NR_TASKS >= 3 /\ PID_MAX \in Nat /\ PID_MAX >= NR_TASKS

Slots == 0..NR_TASKS-1
UserSlots == 1..NR_TASKS-1

SIGHUP == 1
SIGCHLD == 17

ASSUME KillSigs \subseteq {SIGHUP, SIGCHLD}

\* a free slot of task[] (task[i] == NULL)
Free == [state |-> "unused", pid |-> 0, father |-> 0, pgrp |-> 0, session |-> 0,
         leader |-> FALSE, at |-> "user", wpid |-> 0, signal |-> {}]

VARIABLES
  task,       \* task[i]: state, pid, father, pgrp, session, leader, signal;
              \* at/wpid: asleep in sys_waitpid and its pid argument
  last_pid,   \* fork.c's last_pid
  init        \* TRUE while init's program runs (until init itself exits)

vars == <<task, last_pid, init>>

Used(j) == task[j].state # "unused"

-----------------------------------------------------------------------------
(* find_empty_process *)

\* find_empty_process miscoded: the wrap test one step late
NextPidLate(p) == IF p > PID_MAX THEN 1 ELSE p + 1

\* if ((++last_pid) < 0) last_pid = 1
NextPid(p) == IF p = PID_MAX THEN 1 ELSE p + 1

\* find_empty_process without its in-use loop
ProbeNoSkip(p) == NextPid(p)

\* repeat: the next last_pid that no task in task[] (zombies included) has
RECURSIVE Probe(_)
Probe(p) ==
  LET n == NextPid(p) IN
  IF \E j \in Slots : Used(j) /\ task[j].pid = n THEN Probe(n) ELSE n

\* the first NULL slot from task[1]
FreeSlots == {j \in UserSlots : ~Used(j)}

-----------------------------------------------------------------------------
(* do_exit, on the table t, for the task in slot i *)

\* Each step of do_exit is the set of slots it touches; DoExit applies them
\* together.  No step reads what an earlier one wrote: the reparenting
\* changes fathers, kill_session reads sessions and tell_father pids.

\* do_exit without its reparenting loop
ReparentNone(t, i) == {}

\* the children, which get father 1
Reparent(t, i) == {j \in Slots : t[j].state # "unused" /\ t[j].father = t[i].pid}

\* a child already a zombie makes do_exit send SIGCHLD to task[1]
\* ("assumption task[1] is always init"); send_sig ignores a NULL task[1]
HandsZombie(t, i) ==
  (\E j \in Reparent(t, i) : t[j].state = "zombie") /\ t[1].state # "unused"

\* kill_session: SIGHUP to every task after task 0 in the leader's session
KillSession(t, i) ==
  {j \in Slots : j > 0 /\ t[j].state # "unused" /\ t[j].session = t[i].session}

\* tell_father miscoded as tell_father(current->pid)
TellFatherSelf(t, i) ==
  LET f == {j \in Slots : t[j].state # "unused" /\ t[j].pid = t[i].pid} IN
  IF t[i].pid # 0 /\ f # {} THEN {Min(f)} ELSE {}

\* tell_father: the first slot whose pid is the father gets SIGCHLD; none
\* (or father 0) and the task releases itself
TellFather(t, i) ==
  LET f == {j \in Slots : t[j].state # "unused" /\ t[j].pid = t[i].father} IN
  IF t[i].father # 0 /\ f # {} THEN {Min(f)} ELSE {}

\* the task becomes a zombie after the reparenting and kill_session, and
\* tell_father then signals the father or releases the task
DoExit(t, i) ==
  LET kids == Reparent(t, i)
      hup == IF t[i].leader THEN KillSession(t, i) ELSE {}
      chld == (IF HandsZombie(t, i) THEN {1} ELSE {}) \cup TellFather(t, i)
  IN [j \in Slots |->
        IF j = i /\ TellFather(t, i) = {} THEN Free
        ELSE [t[j] EXCEPT !.father = IF j \in kids THEN 1 ELSE @,
                          !.signal = @ \cup (IF j \in hup THEN {SIGHUP} ELSE {})
                                       \cup (IF j \in chld THEN {SIGCHLD} ELSE {}),
                          !.state = IF j = i THEN "zombie" ELSE @,
                          !.at = IF j = i THEN "user" ELSE @]]

\* init's program ends when init itself exits
InitAfterExit(i) == init /\ i # 1

-----------------------------------------------------------------------------
(* sys_waitpid's scan from LAST_TASK down, for the task in slot i *)

Matches(t, i, w) ==
  {j \in UserSlots :
     /\ t[j].state # "unused" /\ j # i /\ t[j].father = t[i].pid
     /\ CASE w > 0 -> t[j].pid = w
          [] w = 0 -> t[j].pgrp = t[i].pgrp
          [] w = -1 -> TRUE
          [] OTHER -> t[j].pgrp = -w}

\* sys_waitpid returning a zombie's pid without release(*p)
WaitScanNoRelease(t, i, w, nohang) ==
  LET m == Matches(t, i, w)
      z == {j \in m : t[j].state = "zombie"}
  IN IF z # {} THEN [t |-> [t EXCEPT ![i].at = "user", ![i].wpid = 0], ret |-> t[Max(z)].pid]
     ELSE IF m # {} /\ ~nohang
       THEN [t |-> [t EXCEPT ![i].state = "interruptible", ![i].at = "wait",
                             ![i].wpid = w], ret |-> 0]
     ELSE [t |-> [t EXCEPT ![i].at = "user", ![i].wpid = 0],
           ret |-> IF m # {} THEN 0 ELSE -1]

\* the first zombie met is released and its pid returned; children that
\* are not zombies make the task sleep (or return 0 with WNOHANG); no child
\* at all is -ECHILD.  Result: the new task[] and the return value.
WaitScan(t, i, w, nohang) ==
  LET m == Matches(t, i, w)
      z == {j \in m : t[j].state = "zombie"}
  IN IF z # {} THEN [t |-> [t EXCEPT ![Max(z)] = Free, ![i].at = "user", ![i].wpid = 0],
                     ret |-> t[Max(z)].pid]
     ELSE IF m # {} /\ ~nohang
       THEN [t |-> [t EXCEPT ![i].state = "interruptible", ![i].at = "wait",
                             ![i].wpid = w], ret |-> 0]
     ELSE [t |-> [t EXCEPT ![i].at = "user", ![i].wpid = 0],
           ret |-> IF m # {} THEN 0 ELSE -1]

-----------------------------------------------------------------------------
(* Steps *)

\* task i runs in user mode: ret_from_sys_call has delivered every
\* pending signal (none is blocked here) before the task goes on
InUser(i) == Used(i) /\ task[i].state = "running" /\ task[i].at = "user"
             /\ task[i].signal = {}

\* a task of a user program (init runs only its loop)
User(i) == InUser(i) /\ ~(i = 1 /\ init)

\* fork: find_empty_process moves last_pid on even when no slot is free;
\* copy_process may still fail for lack of memory (-EAGAIN)
Fork(i) ==
  LET pid == Probe(last_pid)
      nr == Min(FreeSlots)
  IN /\ User(i)
     /\ last_pid' = pid
     /\ \/ /\ FreeSlots # {}
           /\ task' = [task EXCEPT ![nr] =
                 [Free EXCEPT !.state = "running", !.pid = pid, !.father = task[i].pid,
                              !.pgrp = task[i].pgrp, !.session = task[i].session]]
        \/ UNCHANGED task
     /\ UNCHANGED init

\* sys_exit
Exit(i) ==
  /\ User(i)
  /\ task' = DoExit(task, i)
  /\ UNCHANGED <<last_pid, init>>

\* sys_waitpid(w, &status, nohang ? WNOHANG : 0)
Waitpid(i, w, nohang) ==
  LET r == WaitScan(task, i, w, nohang) IN
  /\ User(i)
  /\ task' = r.t
  /\ UNCHANGED <<last_pid, init>>

\* init: waitpid(-1, &status, 0), again and again
InitWait ==
  /\ init /\ InUser(1)
  /\ task' = WaitScan(task, 1, -1, FALSE).t
  /\ UNCHANGED <<last_pid, init>>

\* sys_waitpid after schedule(): woken by a signal, it clears SIGCHLD and
\* scans again if no other signal is pending, else returns -EINTR
WaitResume(i) ==
  LET s1 == task[i].signal \ {SIGCHLD}
      t0 == [task EXCEPT ![i].state = "running", ![i].signal = s1, ![i].at = "user",
                         ![i].wpid = 0]
      r == IF s1 = {} THEN WaitScan(t0, i, task[i].wpid, FALSE)
           ELSE [t |-> t0, ret |-> -2]
  IN /\ Used(i) /\ task[i].at = "wait" /\ task[i].signal # {}
     /\ task' = r.t
     /\ UNCHANGED <<last_pid, init>>

\* sys_kill(w, s): w == 0 means tasks whose pgrp is the caller's pid;
\* w > 0 that pid; w == -1 every task after task 0; w < -1 the group -w
Kill(i, w, s) ==
  LET hit(j) == j > 0 /\ Used(j) /\
                CASE w = 0 -> task[j].pgrp = task[i].pid
                  [] w > 0 -> task[j].pid = w
                  [] w = -1 -> TRUE
                  [] OTHER -> task[j].pgrp = -w
  IN /\ User(i)
     /\ task' = [j \in Slots |-> IF hit(j) THEN [task[j] EXCEPT !.signal = @ \cup {s}]
                                 ELSE task[j]]
     /\ UNCHANGED <<last_pid, init>>

\* ret_from_sys_call hands a pending signal to do_signal: SIGCHLD is
\* ignored, any other signal's default is do_exit
Deliver(i) ==
  /\ Used(i) /\ task[i].state = "running" /\ task[i].at = "user"
  /\ \E s \in task[i].signal :
       LET t0 == [task EXCEPT ![i].signal = @ \ {s}] IN
       \/ s = SIGCHLD /\ task' = t0 /\ UNCHANGED init
       \/ s # SIGCHLD /\ task' = DoExit(t0, i) /\ init' = InitAfterExit(i)
  /\ UNCHANGED last_pid

\* after boot: task 0, init, and init's child the shell (pid 2, which
\* leads its own session)
Init ==
  /\ task = [j \in Slots |->
               CASE j = 0 -> [Free EXCEPT !.state = "running"]
                 [] j = 1 -> [Free EXCEPT !.state = "running", !.pid = 1]
                 [] j = 2 -> [Free EXCEPT !.state = "running", !.pid = 2, !.father = 1,
                               !.pgrp = 2, !.session = 2, !.leader = TRUE]
                 [] OTHER -> Free]
  /\ last_pid = 2
  /\ init = TRUE

\* pid arguments of waitpid and kill: any, own group, each live pid, and
\* each group of a session leader (negated)
PidArgs ==
  {-1, 0} \cup {task[j].pid : j \in {k \in UserSlots : Used(k)}}
          \cup {-task[j].pgrp : j \in {k \in UserSlots : Used(k) /\ task[k].pgrp > 1}}

Next ==
  \/ InitWait
  \/ \E i \in UserSlots :
       \/ Fork(i)
       \/ Exit(i)
       \/ \E w \in PidArgs, nohang \in BOOLEAN : Waitpid(i, w, nohang)
       \/ \E w \in PidArgs, s \in KillSigs : Kill(i, w, s)
       \/ WaitResume(i)
       \/ Deliver(i)

\* schedule() runs every runnable task in time, and ret_from_sys_call
\* (also taken from the timer interrupt) delivers pending signals; init's
\* loop always goes on.  What user programs do is not assumed fair.
Fairness ==
  /\ WF_vars(InitWait)
  /\ \A i \in UserSlots : WF_vars(WaitResume(i)) /\ WF_vars(Deliver(i))

Spec == Init /\ [][Next]_vars /\ Fairness

-----------------------------------------------------------------------------
(* Properties *)

Task == [state : {"unused", "running", "interruptible", "zombie"},
         pid : 0..PID_MAX, father : 0..PID_MAX, pgrp : 0..PID_MAX,
         session : 0..PID_MAX, leader : BOOLEAN, at : {"user", "wait"},
         wpid : -PID_MAX..PID_MAX, signal : SUBSET {SIGHUP, SIGCHLD}]

TypeOK ==
  /\ task \in [Slots -> Task]
  /\ last_pid \in 0..PID_MAX
  /\ init \in BOOLEAN

\* find_empty_process: last_pid wraps to 1 and skips every pid still in
\* task[], zombies included, so no two tasks share a pid.
PidUnique ==
  \A i, j \in Slots : i # j /\ Used(i) /\ Used(j) => task[i].pid # task[j].pid

\* do_exit hands a task's children to init before it becomes a zombie: while
\* init lives, every task's father is in task[] (so tell_father finds it)
\* and is init or a task that has not exited.
FatherValid ==
  init =>
    \A j \in 2..NR_TASKS-1 : Used(j) =>
      \E k \in Slots : /\ Used(k) /\ task[k].pid = task[j].father
                      /\ (task[k].pid = 1 \/ task[k].state # "zombie")

Zombie(p) == \E j \in UserSlots : task[j].state = "zombie" /\ task[j].pid = p

\* do_exit signals init for a child that is already a zombie when it is
\* handed over, and tell_father signals it for later ones; init's
\* wait loop then reaps every zombie it is given, unless init dies.
OrphanReaped ==
  \A p \in 2..PID_MAX :
    (init /\ \E j \in UserSlots :
        task[j].state = "zombie" /\ task[j].pid = p /\ task[j].father = 1)
    ~> (~Zombie(p) \/ ~init)

\* tell_father's SIGCHLD wakes a task asleep in sys_waitpid: one whose
\* awaited child is a zombie leaves the wait.
WaitReturns ==
  \A i \in UserSlots :
    (task[i].at = "wait" /\ \E j \in Matches(task, i, task[i].wpid) : task[j].state = "zombie")
    ~> task[i].at = "user"
====
