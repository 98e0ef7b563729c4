----------------------------- MODULE BlkAbstract -----------------------------
(***************************************************************************)
(* What the block layer promises a buffer, independent of request slots,   *)
(* the elevator and the disk controller: a buffer is free, locked by a     *)
(* task, or locked with an I/O request outstanding.  A request is made     *)
(* only for a locked buffer (or one locked in the same step), it is never  *)
(* dropped while the buffer stays locked, its completion releases the      *)
(* lock, and every outstanding request eventually completes.               *)
(***************************************************************************)
CONSTANT Bufs

VARIABLE st

States == {"free", "locked", "queued"}

\* The transitions one buffer may take in a step
Moves == {<<"free", "locked">>, <<"locked", "free">>, <<"locked", "queued">>,
          <<"free", "queued">>, <<"queued", "free">>}

Init == st = [b \in Bufs |-> "free"]

\* Several buffers may change at once (one interrupt can end a request and,
\* while starting the next, fail that one too), each by an allowed move.
Next ==
  /\ st' \in [Bufs -> States]
  /\ st' # st
  /\ \A b \in Bufs : st'[b] = st[b] \/ <<st[b], st'[b]>> \in Moves

\* The outstanding request on b completes
Complete(b) == st[b] = "queued" /\ st' = [st EXCEPT ![b] = "free"]

Spec == Init /\ [][Next]_st /\ \A b \in Bufs : WF_st(Complete(b))
=============================================================================
