------------------------------ MODULE BlkQueue ------------------------------
(***************************************************************************)
(* The block request queue of kernel/blk_drv/ll_rw_blk.c and the hard-disk *)
(* driver of kernel/blk_drv/hd.c, with the tasks that call ll_rw_block.   *)
(*                                                                         *)
(* The kernel is not preemptive: a task runs from one sleep to the next   *)
(* as one step.  Only the disk interrupt comes in between, and only where *)
(* interrupts are enabled.  cli/sti regions (lock_buffer, add_request)    *)
(* lie inside a step.  One window lies between two steps: make_request    *)
(* has found no free request slot but has not yet put itself on           *)
(* wait_for_request (ll_rw_blk.c:140-149).  While a task is in that        *)
(* window no other task runs, but the interrupt may.                       *)
(*                                                                         *)
(* Abstractions: one disk and one partition; a buffer holds one block     *)
(* (two sectors) given by BlockOf; a sector transfer and win_result are   *)
(* an interrupt that succeeds or fails.  The driver's state is bundled in *)
(* a record so that do_hd_request, which loops and may fail requests on   *)
(* its way, is a recursive operator returning the set of possible results.*)
(***************************************************************************)
EXTENDS Naturals, Sequences, SequencesExt, FiniteSets

CONSTANTS
  Procs,          \* tasks calling ll_rw_block
  Bufs,           \* buffer heads
  BlockOf,        \* BlockOf[b]: b->b_blocknr
  NR_REQUEST,     \* size of request[]
  MAX_ERRORS,     \* hd.c: max read/write errors per request
  NR_SECTS,       \* hd[dev].nr_sects: the sectors of the partition
  NoReq,          \* request[i].dev == -1
  WaitForRequest  \* the wait channel wait_for_request

\* include/linux/fs.h
READ == 0
WRITE == 1
READA == 2
WRITEA == 3

RSlots == 1..NR_REQUEST

ASSUME
  /\ NR_REQUEST \in Nat \ {0} /\ MAX_ERRORS \in Nat \ {0} /\ NR_SECTS \in Nat
  /\ BlockOf \in [Bufs -> Nat]
  /\ \A b, c \in Bufs : b # c => BlockOf[b] # BlockOf[c]
  /\ WaitForRequest \notin Bufs

VARIABLES
  request,      \* request[i]: NoReq or [cmd, bh, sector, nr_sectors, errors]
  queue,        \* blk_dev[3].current_request and its next links
  bh,           \* bh[b]: b_lock, b_dirt, b_uptodate of buffer b
  hd,           \* reset, recalibrate, do_hd; busy: an interrupt is due;
                \* owe (ghost): a request failed and no reset followed yet
  pc            \* pc[p]: where task p is and whether it sleeps

vars == <<request, queue, bh, hd, pc>>

Req == [cmd : {READ, WRITE}, bh : Bufs, sector : Nat, nr_sectors : 1..2,
        errors : 0..MAX_ERRORS]
Handlers == {"none", "read", "write", "recal"}
Where == {"user", "lock", "gap", "req", "io"}

-----------------------------------------------------------------------------
(* The driver state as one record, and the steps of hd.c on it. *)

Drv == [request |-> request, queue |-> queue, bh |-> bh, hd |-> hd, woke |-> {}]

\* make_request: the first sector of buffer b's block, b_blocknr<<1
Sector(b) == 2 * BlockOf[b]

\* blk.h IN_ORDER on one device: reads before writes, then by sector
InOrder(s1, s2) ==
  \/ s1.cmd < s2.cmd
  \/ s1.cmd = s2.cmd /\ s1.sector < s2.sector

\* unlock_buffer: clear b_lock and wake_up(&bh->b_wait)
UnlockBuffer(d, b) == [d EXCEPT !.bh[b].b_lock = FALSE, !.woke = @ \cup {b}]

\* blk.h end_request: b_uptodate, unlock_buffer, wake_up(&wait_for_request),
\* free the slot, CURRENT = CURRENT->next
EndRequest(d, uptodate) ==
  LET c == Head(d.queue)
      b == d.request[c].bh
      d1 == [UnlockBuffer(d, b) EXCEPT !.bh[b].b_uptodate = uptodate]
  IN [d1 EXCEPT !.request[c] = NoReq, !.queue = Tail(@),
                !.woke = @ \cup {WaitForRequest}]

\* hd_out: the command is written and an interrupt will call intr
HdOut(d, intr) == [d EXCEPT !.hd.do_hd = intr, !.hd.busy = TRUE]

\* bad_rw_intr: count the error, fail the request at MAX_ERRORS, then set
\* reset when CURRENT->errors > MAX_ERRORS/2.  After end_request CURRENT is
\* the next request, or NULL: reading NULL->errors is undefined, so both
\* outcomes are possible then.
BadRwIntr(d) ==
  LET c  == Head(d.queue)
      e  == d.request[c].errors + 1
      d1 == [d EXCEPT !.request[c].errors = e]
      d2 == IF e >= MAX_ERRORS THEN [EndRequest(d1, FALSE) EXCEPT !.hd.owe = TRUE]
                               ELSE d1
  IN IF d2.queue = <<>>
     THEN {d2, [d2 EXCEPT !.hd.reset = TRUE]}
     ELSE IF d2.request[Head(d2.queue)].errors > MAX_ERRORS \div 2
          THEN {[d2 EXCEPT !.hd.reset = TRUE]}
          ELSE {d2}

\* do_hd_request's range test: block = CURRENT->sector, which read_intr
\* and write_intr have advanced past the sectors already transferred,
\* and block+2 > hd[dev].nr_sects
OutOfRange(r) == r.sector + 2 > NR_SECTS

\* do_hd_request: INIT_REQUEST returns on an empty queue; a request past
\* the partition is ended with end_request(0) and the next one taken
\* (goto repeat); a pending reset sends WIN_SPECIFY (reset_hd), a pending
\* recalibrate WIN_RESTORE, both answered by recal_intr; a write sends
\* WIN_WRITE and polls for DRQ, and when DRQ never comes counts an error
\* and starts over (the command is left without an interrupt); a read
\* sends WIN_READ.
RECURSIVE DoHdRequest(_)
DoHdRequest(d) ==
  IF d.queue = <<>> THEN {d}
  ELSE IF OutOfRange(d.request[Head(d.queue)]) THEN DoHdRequest(EndRequest(d, FALSE))
  ELSE IF d.hd.reset
  THEN {HdOut([d EXCEPT !.hd.reset = FALSE, !.hd.recalibrate = TRUE,
                        !.hd.owe = FALSE], "recal")}
  ELSE IF d.hd.recalibrate
  THEN {HdOut([d EXCEPT !.hd.recalibrate = FALSE], "recal")}
  ELSE IF d.request[Head(d.queue)].cmd = WRITE
  THEN LET sent == [d EXCEPT !.hd.do_hd = "write"] IN
       {HdOut(d, "write")} \cup UNION {DoHdRequest(x) : x \in BadRwIntr(sent)}
  ELSE {HdOut(d, "read")}

\* read_intr miscoded: the next request is not started after end_request
ReadIntrNoNext(d, ok) ==
  IF ~ok THEN UNION {DoHdRequest(x) : x \in BadRwIntr(d)}
  ELSE LET c  == Head(d.queue)
           d1 == [d EXCEPT !.request[c].errors = 0,
                           !.request[c].sector = @ + 1,
                           !.request[c].nr_sectors = @ - 1]
       IN IF d1.request[c].nr_sectors > 0 THEN {HdOut(d1, "read")}
          ELSE {EndRequest(d1, TRUE)}

\* read_intr: on an error bad_rw_intr and start over; otherwise one sector
\* is read, errors reset, and either the next sector is awaited or the
\* request ends and the next one is started.
ReadIntr(d, ok) ==
  IF ~ok THEN UNION {DoHdRequest(x) : x \in BadRwIntr(d)}
  ELSE LET c  == Head(d.queue)
           d1 == [d EXCEPT !.request[c].errors = 0,
                           !.request[c].sector = @ + 1,
                           !.request[c].nr_sectors = @ - 1]
       IN IF d1.request[c].nr_sectors > 0 THEN {HdOut(d1, "read")}
          ELSE DoHdRequest(EndRequest(d1, TRUE))

\* write_intr miscoded: tests nr_sectors before decrementing it
WriteIntrPostDec(d, ok) ==
  IF ~ok THEN UNION {DoHdRequest(x) : x \in BadRwIntr(d)}
  ELSE LET c  == Head(d.queue)
           d1 == [d EXCEPT !.request[c].nr_sectors = @ - 1]
       IN IF d.request[c].nr_sectors > 0
          THEN {HdOut([d1 EXCEPT !.request[c].sector = @ + 1], "write")}
          ELSE DoHdRequest(EndRequest(d1, TRUE))

\* write_intr: as read_intr, but errors are not reset on success and the
\* sector advances only while one remains
WriteIntr(d, ok) ==
  IF ~ok THEN UNION {DoHdRequest(x) : x \in BadRwIntr(d)}
  ELSE LET c  == Head(d.queue)
           d1 == [d EXCEPT !.request[c].nr_sectors = @ - 1]
       IN IF d1.request[c].nr_sectors > 0
          THEN {HdOut([d1 EXCEPT !.request[c].sector = @ + 1], "write")}
          ELSE DoHdRequest(EndRequest(d1, TRUE))

\* recal_intr miscoded: it returns after bad_rw_intr
RecalIntrNoRetry(d, ok) ==
  IF ok THEN DoHdRequest(d) ELSE BadRwIntr(d)

\* recal_intr: an error is counted, then do_hd_request
RecalIntr(d, ok) ==
  UNION {DoHdRequest(x) : x \in IF ok THEN {d} ELSE BadRwIntr(d)}

-----------------------------------------------------------------------------
(* ll_rw_blk.c on the same record. *)

\* add_request's scan miscoded: without the wrap-around test
ElevatorPosNoWrap(d, c) ==
  LET q == d.queue
      r == d.request[c]
      R(i) == d.request[q[i]]
      fits == {i \in 1..(Len(q) - 1) : InOrder(R(i), r) /\ InOrder(r, R(i + 1))}
  IN IF fits = {} THEN Len(q) ELSE Min(fits)

\* add_request's scan: after the first tmp with (IN_ORDER(tmp,req) ||
\* !IN_ORDER(tmp,tmp->next)) && IN_ORDER(req,tmp->next), else at the end
ElevatorPos(d, c) ==
  LET q == d.queue
      r == d.request[c]
      R(i) == d.request[q[i]]
      fits == {i \in 1..(Len(q) - 1) :
                 /\ InOrder(R(i), r) \/ ~InOrder(R(i), R(i + 1))
                 /\ InOrder(r, R(i + 1))}
  IN IF fits = {} THEN Len(q) ELSE Min(fits)

\* add_request's link miscoded: tmp->next = req before req->next =
\* tmp->next, which loses the rest of the list
LinkRequestLoseTail(q, i, c) == SubSeq(q, 1, i) \o <<c>>

\* add_request's link: req->next = tmp->next; tmp->next = req, where tmp
\* is the i-th request of the list
LinkRequest(q, i, c) == InsertAt(q, i + 1, c)

\* add_request: b_dirt is cleared; an idle queue gets the request as
\* CURRENT and do_hd_request runs at once, else it is linked in place.
AddRequest(d, c) ==
  LET d1 == [d EXCEPT !.bh[d.request[c].bh].b_dirt = FALSE] IN
  IF d1.queue = <<>> THEN DoHdRequest([d1 EXCEPT !.queue = <<c>>])
  ELSE {[d1 EXCEPT !.queue = LinkRequest(@, ElevatorPos(d1, c), c)]}

\* The slots make_request may use: writes only the first two thirds
Limit(rw) == IF rw = READ THEN NR_REQUEST ELSE (NR_REQUEST * 2) \div 3

-----------------------------------------------------------------------------
(* Tasks.  pc[p].at: "user" (outside ll_rw_block), "lock" (sleeping in    *)
(* lock_buffer), "gap" (found no free slot, not yet asleep), "req"         *)
(* (in sleep_on(&wait_for_request)), "io" (in wait_on_buffer after a read). *)

Task == [at : Where, rw : {READ, WRITE}, ahead : BOOLEAN, b : Bufs, asleep : BOOLEAN]

\* the wait channel a sleeping task is on
Chan(s) == IF s.at = "req" THEN WaitForRequest ELSE s.b

\* sched.c wake_up: every task sleeping on a woken channel becomes runnable
\* (sleep_on chains the sleepers, each waking the one before it)
Woken(s, W) == IF s.asleep /\ Chan(s) \in W THEN [s EXCEPT !.asleep = FALSE] ELSE s

\* a task runs only when it is runnable; none runs while one is in the gap
\* (the kernel does not preempt it there, only the interrupt comes in)
Runnable(p) == ~pc[p].asleep /\ \A q \in Procs : pc[q].at # "gap"

\* the driver record d becomes the state; task p continues as s
Run(p, d, s) ==
  /\ request' = d.request /\ queue' = d.queue /\ bh' = d.bh /\ hd' = d.hd
  /\ pc' = [q \in Procs |-> IF q = p THEN s ELSE Woken(pc[q], d.woke)]

Idle == [at |-> "user", rw |-> READ, ahead |-> FALSE, b |-> CHOOSE b \in Bufs : TRUE,
         asleep |-> FALSE]

\* make_request from "repeat:": scan request[] from the limit downwards
\* for a free slot; with none an ahead request gives up (unlock_buffer)
\* and any other is about to sleep; else fill the slot and add_request.
\* A read then waits on the buffer (bread's wait_on_buffer).
Repeat(p, d, s) ==
  LET free == {i \in 1..Limit(s.rw) : d.request[i] = NoReq}
      c    == Max(free)
      new  == [cmd |-> s.rw, bh |-> s.b, sector |-> Sector(s.b), nr_sectors |-> 2,
               errors |-> 0]
  IN IF free = {}
     THEN IF s.ahead THEN Run(p, UnlockBuffer(d, s.b), Idle)
          ELSE Run(p, d, [s EXCEPT !.at = "gap"])
     ELSE \E d1 \in AddRequest([d EXCEPT !.request[c] = new], c) :
            Run(p, d1, IF s.rw = READ /\ ~s.ahead
                       THEN [s EXCEPT !.at = "io", !.asleep = d1.bh[s.b].b_lock]
                       ELSE Idle)

\* make_request miscoded: returns for a clean or up-to-date buffer
\* without unlock_buffer
LockedNoUnlock(p, s) ==
  LET d == [Drv EXCEPT !.bh[s.b].b_lock = TRUE]
      b == d.bh[s.b]
  IN IF (s.rw = WRITE /\ ~b.b_dirt) \/ (s.rw = READ /\ b.b_uptodate)
     THEN Run(p, d, Idle)
     ELSE Repeat(p, d, s)

\* make_request after lock_buffer has set b_lock: a clean buffer is not
\* written and an up-to-date one not read (unlock_buffer and return)
Locked(p, s) ==
  LET d == [Drv EXCEPT !.bh[s.b].b_lock = TRUE]
      b == d.bh[s.b]
  IN IF (s.rw = WRITE /\ ~b.b_dirt) \/ (s.rw = READ /\ b.b_uptodate)
     THEN Run(p, UnlockBuffer(d, s.b), Idle)
     ELSE Repeat(p, d, s)

\* ll_rw_block -> make_request: a read-/write-ahead of a locked buffer is
\* dropped, else it becomes a READ/WRITE; lock_buffer sleeps while the
\* buffer is locked.
LlRwBlock(p) ==
  /\ pc[p].at = "user" /\ Runnable(p)
  /\ \E rw \in {READ, WRITE, READA, WRITEA}, b \in Bufs :
       LET s == [at |-> "lock", rw |-> rw % 2, ahead |-> rw >= READA, b |-> b,
                 asleep |-> FALSE]
       IN IF s.ahead /\ bh[b].b_lock THEN UNCHANGED vars
          ELSE IF bh[b].b_lock THEN Run(p, Drv, [s EXCEPT !.asleep = TRUE])
          ELSE Locked(p, s)

\* woken in lock_buffer: the while loop tests b_lock again
LockWake(p) ==
  /\ pc[p].at = "lock" /\ Runnable(p)
  /\ IF bh[pc[p].b].b_lock THEN Run(p, Drv, [pc[p] EXCEPT !.asleep = TRUE])
     ELSE Locked(p, pc[p])

\* sleep_on(&wait_for_request), entered with interrupts enabled
GapSleep(p) ==
  /\ pc[p].at = "gap"
  /\ pc' = [pc EXCEPT ![p].at = "req", ![p].asleep = TRUE]
  /\ UNCHANGED <<request, queue, bh, hd>>

\* woken from wait_for_request: goto repeat (the buffer is still locked)
ReqWake(p) ==
  /\ pc[p].at = "req" /\ Runnable(p)
  /\ Repeat(p, Drv, pc[p])

\* wait_on_buffer: sleep again while b_lock, else bread returns
IoWake(p) ==
  /\ pc[p].at = "io" /\ Runnable(p)
  /\ Run(p, Drv, IF bh[pc[p].b].b_lock THEN [pc[p] EXCEPT !.asleep = TRUE] ELSE Idle)

\* system_call.s hd_interrupt: do_hd is taken and cleared, then called;
\* win_result is either outcome
HdInterrupt ==
  /\ hd.busy
  /\ \E ok \in BOOLEAN :
       LET d0 == [Drv EXCEPT !.hd.do_hd = "none", !.hd.busy = FALSE]
           ds == CASE hd.do_hd = "read"  -> ReadIntr(d0, ok)
                   [] hd.do_hd = "write" -> WriteIntr(d0, ok)
                   [] hd.do_hd = "recal" -> RecalIntr(d0, ok)
       IN \E d \in ds :
            /\ request' = d.request /\ queue' = d.queue /\ bh' = d.bh /\ hd' = d.hd
            /\ pc' = [q \in Procs |-> Woken(pc[q], d.woke)]

\* buffer.c, with the buffer unlocked: a task changes the data (b_dirt),
\* or getblk gives the buffer to another block (not up to date)
Dirty(b) ==
  /\ ~bh[b].b_lock /\ \A q \in Procs : pc[q].at # "gap"
  /\ bh' = [bh EXCEPT ![b].b_dirt = TRUE]
  /\ UNCHANGED <<request, queue, hd, pc>>

Reuse(b) ==
  /\ ~bh[b].b_lock /\ ~bh[b].b_dirt /\ \A q \in Procs : pc[q].at # "gap"
  /\ bh' = [bh EXCEPT ![b].b_uptodate = FALSE]
  /\ UNCHANGED <<request, queue, hd, pc>>

\* hd.c's static initialisers: the first request resets the controller
HdInit == [reset |-> TRUE, recalibrate |-> TRUE, do_hd |-> "none", busy |-> FALSE,
           owe |-> FALSE]

\* blk_dev_init (every slot free) with the driver as hd.c initialises it; buffers start unlocked
Init ==
  /\ request = [i \in RSlots |-> NoReq]
  /\ queue = <<>>
  /\ bh \in [Bufs -> [b_lock : {FALSE}, b_dirt : BOOLEAN, b_uptodate : BOOLEAN]]
  /\ hd = HdInit
  /\ pc = [p \in Procs |-> Idle]

Next ==
  \/ \E p \in Procs : LlRwBlock(p) \/ LockWake(p) \/ GapSleep(p) \/ ReqWake(p) \/ IoWake(p)
  \/ HdInterrupt
  \/ \E b \in Bufs : Dirty(b) \/ Reuse(b)

\* The controller answers every command it is given: the driver has no
\* timeout, so nothing else would ever continue the queue.  Tasks need no
\* fairness for the properties below, which are about the driver.
Fairness == WF_vars(HdInterrupt)

Spec == Init /\ [][Next]_vars /\ Fairness

-----------------------------------------------------------------------------
(* Properties *)

TypeOK ==
  /\ request \in [RSlots -> Req \cup {NoReq}]
  /\ queue \in Seq(RSlots)
  /\ bh \in [Bufs -> [b_lock : BOOLEAN, b_dirt : BOOLEAN, b_uptodate : BOOLEAN]]
  /\ hd \in [reset : BOOLEAN, recalibrate : BOOLEAN, do_hd : Handlers,
             busy : BOOLEAN, owe : BOOLEAN]
  /\ pc \in [Procs -> Task]

\* the request slots in use for buffer b, and the tasks in make_request
\* holding b's lock without a slot yet
Holders(b) == {i \in RSlots : request[i] # NoReq /\ request[i].bh = b}
Waiting(b) == {p \in Procs : pc[p].at \in {"gap", "req"} /\ pc[p].b = b}

\* Buffer locking (lock_buffer, unlock_buffer, end_request): a locked
\* buffer belongs to exactly one request or one task in make_request, and
\* an unlocked one to none; so no buffer is ever in two requests.
LockAccounted ==
  \A b \in Bufs :
    /\ Cardinality(Holders(b)) + Cardinality(Waiting(b)) <= 1
    /\ bh[b].b_lock <=> Holders(b) \cup Waiting(b) # {}

\* do_hd_request and the interrupt handlers: while requests are queued
\* the controller has a command whose interrupt will continue them (no
\* request is left with nobody to start it).
DriverNeverIdle == queue # <<>> => hd.busy

\* the places where the IN_ORDER order breaks along a request list
Breaks(rq, q) == {i \in 1..(Len(q) - 1) : ~InOrder(rq[q[i]], rq[q[i + 1]])}

\* the list lengths over which add_request's elevator is checked
ElevatorDepth == 3

\* add_request's elevator (ll_rw_blk.c:94-100) on every list it can be
\* given: requests for distinct sectors, the order broken at most once
\* (one sweep up, one wrap-around).  Linking a new request after the
\* place the scan finds keeps every request exactly once, never displaces
\* current_request, and still breaks the order at most once.  The lists
\* range over sectors 0..ElevatorDepth, not over the model's buffers.
ElevatorKeepsOrder ==
  \A n \in 1..ElevatorDepth :
    LET q == [i \in 1..n |-> i]
        c == n + 1
        Rs == {rq \in [1..c -> [cmd : {READ, WRITE}, sector : 0..ElevatorDepth]] :
                 \A i, j \in 1..c : i # j => rq[i].sector # rq[j].sector}
    IN \A rq \in Rs :
         Cardinality(Breaks(rq, q)) <= 1 =>
           LET q1 == LinkRequest(q, ElevatorPos([request |-> rq, queue |-> q], c), c)
           IN /\ Len(q1) = c /\ Range(q1) = 1..c /\ q1[1] = q[1]
              /\ Cardinality(Breaks(rq, q1)) <= 1

\* The elevator of add_request: the list from current_request breaks the
\* IN_ORDER order at most once in every reachable state, and linking any
\* further request into any such list keeps it so.
ElevatorSound ==
  /\ Cardinality(Breaks(request, queue)) <= 1
  /\ ElevatorKeepsOrder

\* make_request's lost wakeup (comment at ll_rw_blk.c:131-134): a task
\* asleep on wait_for_request has an outstanding request to wake it.
NoLostWakeup ==
  \A p \in Procs : pc[p].at = "req" /\ pc[p].asleep => \E i \in RSlots : request[i] # NoReq

\* bad_rw_intr failing a request (MAX_ERRORS errors): no read or write
\* command is sent before the controller has been reset.
ResetBeforeNextCommand == hd.busy /\ hd.do_hd \in {"read", "write"} => ~hd.owe

\* the abstract state of a buffer
BlkSt == [b \in Bufs |-> IF Holders(b) # {} THEN "queued"
                         ELSE IF bh[b].b_lock THEN "locked" ELSE "free"]

Abs == INSTANCE BlkAbstract WITH st <- BlkSt

\* The block layer implements BlkAbstract: requests are made only for
\* locked buffers, dropped only by completing (which unlocks), and every
\* request is eventually completed by the interrupt chain.
AbsSpec == Abs!Spec

====
