------------------------------- MODULE Signal -------------------------------
(***************************************************************************)
(* The signal state of one task, from kernel/signal.c: the pending and     *)
(* blocked sets, the sigaction table, sys_signal, sys_sigaction,           *)
(* sys_ssetmask and do_signal.  Other tasks and the kernel post signals    *)
(* with send_sig (kernel/exit.c).  A pending signal that is not blocked is *)
(* delivered on the way back to user mode (ret_from_sys_call, which is not *)
(* in this repository: the delivery rule is taken from the specification). *)
(* A handler runs in user mode and returns through its restorer, which     *)
(* calls ssetmask with the mask do_signal saved on the user stack, if it   *)
(* saved one.  The frames of handlers that have not returned yet form a    *)
(* stack.                                                                  *)
(*                                                                         *)
(* The 32-bit masks are sets of signal numbers: bit 1 << (s-1) is s.       *)
(***************************************************************************)
EXTENDS Naturals, Sequences, SequencesExt

CONSTANTS
  Sigs,         \* the signal numbers in play (SIGKILL among them)
  MaskChoices,  \* the sa_mask values a task passes to sigaction
  MAX_FRAMES    \* bound on nested handler frames

SIGKILL == 9
SIGCHLD == 17

ASSUME Sigs \subseteq 1..32 /\ SIGKILL \in Sigs
ASSUME MaskChoices \subseteq SUBSET Sigs /\ MAX_FRAMES \in Nat

\* sa_handler values: SIG_DFL, SIG_IGN, and the address of a user function
SIG_DFL == 0
SIG_IGN == 1
HANDLER == 2
Handlers == {SIG_DFL, SIG_IGN, HANDLER}

Flags == {"SA_ONESHOT", "SA_NOMASK"}

VARIABLES
  signal,     \* current->signal
  blocked,    \* current->blocked
  sigaction,  \* current->sigaction[s-1], as sigaction[s]
  frames,     \* frames of running handlers: signal, SA_NOMASK, saved mask
  exited,     \* 0 while the task runs; then the code do_exit was given
  unmasked    \* ghost: ssetmask was called while a handler was running

vars == <<signal, blocked, sigaction, frames, exited, unmasked>>

Action == [handler : Handlers, mask : SUBSET Sigs, flags : SUBSET Flags]

Alive == exited = 0

-----------------------------------------------------------------------------

\* send_sig(sig, p, priv): sets the bit (the permission test is passed: the
\* sender is privileged or has the task's euid)
SendSig(s) ==
  /\ Alive
  /\ signal' = signal \cup {s}
  /\ UNCHANGED <<blocked, sigaction, frames, exited, unmasked>>

\* sys_ssetmask(newmask): SIGKILL is taken out of the new mask
SysSsetmask(m) ==
  /\ Alive
  /\ blocked' = m \ {SIGKILL}
  /\ unmasked' = (unmasked \/ frames # <<>>)
  /\ UNCHANGED <<signal, sigaction, frames, exited>>

\* sys_signal(signum, handler): SIGKILL is refused; the handler is
\* installed with SA_ONESHOT | SA_NOMASK and an empty mask
SysSignal(s, h) ==
  /\ Alive /\ s # SIGKILL
  /\ sigaction' = [sigaction EXCEPT ![s] =
                     [handler |-> h, mask |-> {}, flags |-> Flags]]
  /\ UNCHANGED <<signal, blocked, frames, exited, unmasked>>

\* sys_sigaction miscoded: the signal is not added to its own mask
SysSigactionNoSelfMask(s, a) ==
  /\ Alive /\ s # SIGKILL
  /\ sigaction' = [sigaction EXCEPT ![s] =
                     IF "SA_NOMASK" \in a.flags THEN [a EXCEPT !.mask = {}] ELSE a]
  /\ UNCHANGED <<signal, blocked, frames, exited, unmasked>>

\* sys_sigaction(signum, action, oldaction): SIGKILL is refused; the new
\* action is copied in; with SA_NOMASK its mask is cleared, otherwise the
\* signal itself is added to it.  (The old action written to *oldaction
\* is user memory, not modelled.)
SysSigaction(s, a) ==
  /\ Alive /\ s # SIGKILL
  /\ sigaction' = [sigaction EXCEPT ![s] =
                     IF "SA_NOMASK" \in a.flags THEN [a EXCEPT !.mask = {}]
                     ELSE [a EXCEPT !.mask = @ \cup {s}]]
  /\ UNCHANGED <<signal, blocked, frames, exited, unmasked>>

\* do_signal miscoded: do_exit(1 << signr), one bit too far
DoSignalExitShift(s) ==
  LET sa == sigaction[s] IN
  \/ /\ sa.handler = SIG_IGN \/ (sa.handler = SIG_DFL /\ s = SIGCHLD)
     /\ UNCHANGED <<blocked, sigaction, frames, exited, unmasked>>
  \/ /\ sa.handler = SIG_DFL /\ s # SIGCHLD
     /\ exited' = 2^s
     /\ UNCHANGED <<blocked, sigaction, frames, unmasked>>

\* do_signal(signr) once ret_from_sys_call has taken s off signal: SIG_IGN
\* returns; the default is nothing for SIGCHLD and do_exit for any other
\* signal; a handler is reset to SIG_DFL if SA_ONESHOT, its frame saves
\* blocked unless SA_NOMASK, and blocked |= sa_mask
DoSignal(s) ==
  LET sa == sigaction[s] IN
  \/ /\ sa.handler = SIG_IGN \/ (sa.handler = SIG_DFL /\ s = SIGCHLD)
     /\ UNCHANGED <<blocked, sigaction, frames, exited, unmasked>>
  \/ /\ sa.handler = SIG_DFL /\ s # SIGCHLD
     /\ exited' = 2^(s-1)
     /\ UNCHANGED <<blocked, sigaction, frames, unmasked>>
  \/ /\ sa.handler \notin {SIG_DFL, SIG_IGN}
     /\ Len(frames) < MAX_FRAMES
     /\ sigaction' = IF "SA_ONESHOT" \in sa.flags
                     THEN [sigaction EXCEPT ![s].handler = SIG_DFL] ELSE sigaction
     /\ frames' = Append(frames, [sig |-> s, nomask |-> "SA_NOMASK" \in sa.flags,
                                  saved |-> blocked])
     /\ blocked' = blocked \cup sa.mask
     /\ UNCHANGED <<exited, unmasked>>

\* ret_from_sys_call: a pending signal that is not blocked is taken off
\* signal and handed to do_signal
Deliver(s) ==
  /\ Alive
  /\ s \in signal \ blocked
  /\ signal' = signal \ {s}
  /\ DoSignal(s)

\* the handler returns into its restorer, which restores the saved mask
\* with ssetmask when the frame holds one
HandlerReturn ==
  LET top == Last(frames) IN
  /\ Alive /\ frames # <<>>
  /\ frames' = Front(frames)
  /\ blocked' = IF top.nomask THEN blocked ELSE top.saved \ {SIGKILL}
  /\ unmasked' = (unmasked /\ frames' # <<>>)
  /\ UNCHANGED <<signal, sigaction, exited>>

\* a task fresh from execve: default actions, nothing pending or blocked
Init ==
  /\ signal = {} /\ blocked = {}
  /\ sigaction = [s \in Sigs |-> [handler |-> SIG_DFL, mask |-> {}, flags |-> {}]]
  /\ frames = <<>> /\ exited = 0 /\ unmasked = FALSE

Next ==
  \/ \E s \in Sigs : SendSig(s)
  \/ \E m \in SUBSET Sigs : SysSsetmask(m)
  \/ \E s \in Sigs, h \in Handlers : SysSignal(s, h)
  \/ \E s \in Sigs, m \in MaskChoices, f \in SUBSET Flags, h \in Handlers :
       SysSigaction(s, [handler |-> h, mask |-> m, flags |-> f])
  \/ \E s \in Sigs : Deliver(s)
  \/ HandlerReturn

Spec == Init /\ [][Next]_vars

-----------------------------------------------------------------------------
(* Properties *)

TypeOK ==
  /\ signal \subseteq Sigs /\ blocked \subseteq Sigs
  /\ sigaction \in [Sigs -> Action]
  /\ frames \in Seq([sig : Sigs, nomask : BOOLEAN, saved : SUBSET Sigs])
  /\ Len(frames) <= MAX_FRAMES
  /\ exited \in {0} \cup {2^(s-1) : s \in Sigs} /\ unmasked \in BOOLEAN

\* sys_sigaction adds the signal to its own mask unless SA_NOMASK, and
\* do_signal blocks that mask while the handler runs, saving the old mask
\* for the restorer: a handler installed without SA_NOMASK is not entered
\* again for its signal before it returns, even across handlers of other
\* signals returning, unless the task changed its mask with ssetmask.
NoReentry ==
  ~unmasked =>
    \A i, j \in 1..Len(frames) :
      i < j /\ frames[i].sig = frames[j].sig => frames[i].nomask

\* sys_ssetmask: "SIGKILL cannot be blocked" (its comment); sys_signal and
\* sys_sigaction refuse to install a handler for it.
KillNeverBlocked == SIGKILL \notin blocked
====
