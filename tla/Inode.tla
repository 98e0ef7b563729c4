------------------------------- MODULE Inode --------------------------------
(***************************************************************************)
(* The in-memory inode table of fs/inode.c: iget, iput, get_empty_inode,   *)
(* read_inode, write_inode, wait_on_inode and sync_inodes, run by several  *)
(* tasks.  The kernel does not preempt a task, so a task runs atomically   *)
(* from one sleep to the next.  It sleeps in wait_on_inode/lock_inode     *)
(* while i_lock is set (an action enabled once the inode is unlocked: the  *)
(* loops run under cli, so no wakeup is lost) and in bread inside          *)
(* read_inode and write_inode (a step of its own).                         *)
(*                                                                         *)
(* An identity (i_dev, i_num) is a model value of Ids; NoId is i_dev == 0. *)
(* The on-disk inode is disk[x], the buffer-cache copy bread and brelse    *)
(* go through.  A task's changes to an inode it holds (file writes, chmod) *)
(* are one action writing a value of Vals and setting i_dirt.  A pipe      *)
(* (get_pipe_inode) is an inode with i_pipe set and no identity, held by   *)
(* the task that made it as two references (reader and writer); the page  *)
(* it buffers is not modelled, only whether get_free_page gives one.       *)
(***************************************************************************)
EXTENDS Naturals, FiniteSets, FiniteSetsExt

CONSTANTS
  Procs,     \* tasks
  Ids,       \* inode identities (dev, nr)
  NoId,      \* i_dev == 0: an unused slot
  Vals,      \* contents of an inode
  NR_INODE   \* size of inode_table

Slots == 1..NR_INODE

ASSUME NoId \notin Ids /\ NR_INODE \in Nat \ {0}

VARIABLES
  ino,       \* ino[i]: i_dev/i_num, i_count, i_lock, i_dirt, data of inode_table[i]
  last,      \* get_empty_inode's static last_inode
  disk,      \* disk[x]: the inode x in its inode block
  latest,    \* ghost: the last value a task gave inode x
  pc         \* pc[p]: where task p is, and its locals

vars == <<ino, last, disk, latest, pc>>

\* pc fields: at; op (iget or get_pipe_inode); id (iget's dev/nr); c (the
\* inode in hand); e (iget's empty inode, 0 if none); h (the inode p holds,
\* 0 if none) and n (the references to it p holds); ok (get_pipe_inode's
\* get_free_page will succeed); ret (where write_inode returns to)
Labels == {"user", "ge_wait", "ig_wait", "ri_io", "wi_io", "ip_wait", "sy_wait", "panic"}
Rets == {"ge_wait", "ip_wait", "sy_wait"}

Blank == [id |-> NoId, count |-> 0, lock |-> FALSE, dirt |-> FALSE, pipe |-> FALSE,
          data |-> CHOOSE v \in Vals : TRUE]

-----------------------------------------------------------------------------
(* A step of task p leaves the world w = [ino, last, disk] and the task's  *)
(* locals s; the operators below compute them.                             *)

W == [ino |-> ino, last |-> last, disk |-> disk]

Res(w, s) == [w |-> w, s |-> s]

\* where a task goes when write_inode returns: get_empty_inode and iput
\* wait on the inode again; sync_inodes goes on with the next inode
Return(s, c, ret) ==
  IF ret # "sy_wait" THEN [s EXCEPT !.at = ret, !.c = c]
  ELSE IF c = NR_INODE THEN [s EXCEPT !.at = "user", !.c = 0]
  ELSE [s EXCEPT !.at = "sy_wait", !.c = c + 1]

\* write_inode up to its sleep in bread: lock_inode (the callers have just
\* waited for the inode, so it is unlocked); a clean or unused inode is
\* unlocked again at once
WriteInode(w, s, c, ret) ==
  IF ~w.ino[c].dirt \/ w.ino[c].id = NoId
  THEN Res(w, Return(s, c, ret))
  ELSE Res([w EXCEPT !.ino[c].lock = TRUE], [s EXCEPT !.at = "wi_io", !.c = c, !.ret = ret])

\* iget miscoded: the empty inode is not given back
IgetCountKeepEmpty(w, s, j) ==
  Res([w EXCEPT !.ino[j].count = @ + 1],
      [s EXCEPT !.at = "user", !.h = j, !.n = 1, !.e = 0, !.c = 0])

\* iget with inode j matching dev/nr and unlocked: i_count++, and the
\* empty inode is given back by iput (i_dev == 0: only i_count--)
IgetCount(w, s, j) ==
  Res([w EXCEPT !.ino[j].count = @ + 1, !.ino[s.e].count = @ - 1],
      [s EXCEPT !.at = "user", !.h = j, !.n = 1, !.e = 0, !.c = 0])

\* iget's scan from inode_table[0] for dev/nr; a locked match is waited
\* on.  Without a match the empty inode takes dev/nr, and read_inode locks
\* it and sleeps in bread.
IgetScan(w, s) ==
  LET hits == {j \in Slots : w.ino[j].id = s.id}
      j == Min(hits)
  IN IF hits = {}
     THEN Res([w EXCEPT !.ino[s.e].id = s.id, !.ino[s.e].lock = TRUE],
              [s EXCEPT !.at = "ri_io", !.c = s.e])
     ELSE IF w.ino[j].lock THEN Res(w, [s EXCEPT !.at = "ig_wait", !.c = j])
     ELSE IgetCount(w, s, j)

\* get_pipe_inode once get_empty_inode has given it inode c: without a
\* page i_count = 0 gives the inode back; else i_count = 2 and i_pipe = 1
PipeGot(w, s, c) ==
  IF ~s.ok THEN Res([w EXCEPT !.ino[c].count = 0], [s EXCEPT !.at = "user", !.c = 0])
  ELSE Res([w EXCEPT !.ino[c].count = 2, !.ino[c].pipe = TRUE],
           [s EXCEPT !.at = "user", !.h = c, !.n = 2, !.c = 0])

\* get_empty_inode after wait_on_inode(inode): a dirty inode is written
\* first; one that got a user meanwhile means starting over; else it is
\* cleared with i_count = 1, and iget goes on with its scan (or
\* get_pipe_inode with its page).
RECURSIVE GetEmpty(_, _)
GeAfterWait(w, s, c) ==
  IF w.ino[c].dirt THEN WriteInode(w, s, c, "ge_wait")
  ELSE IF w.ino[c].count > 0 THEN GetEmpty(w, s)
  ELSE LET w1 == [w EXCEPT !.ino[c] = [Blank EXCEPT !.count = 1]] IN
       IF s.op = "pipe" THEN PipeGot(w1, s, c)
       ELSE IgetScan(w1, [s EXCEPT !.e = c])

\* get_empty_inode's scan: NR_INODE steps of ++last_inode (wrapping); the
\* first free (i_count == 0) inode that is clean and unlocked is taken,
\* else the last free one seen; with none the kernel panics.
Order(w, k) == ((w.last + k - 1) % NR_INODE) + 1

GetEmpty(w, s) ==
  LET free == {k \in 1..NR_INODE : w.ino[Order(w, k)].count = 0}
      good == {k \in free : ~w.ino[Order(w, k)].dirt /\ ~w.ino[Order(w, k)].lock}
      c == IF good # {} THEN Order(w, Min(good)) ELSE Order(w, Max(free))
      w1 == IF good # {} THEN [w EXCEPT !.last = c] ELSE w
  IN IF free = {} THEN Res(w, [s EXCEPT !.at = "panic"])
     ELSE IF w1.ino[c].lock THEN Res(w1, [s EXCEPT !.at = "ge_wait", !.c = c])
     ELSE GeAfterWait(w1, s, c)

\* iput miscoded: no return after i_count-- for a shared inode, so it goes
\* on to the last-reference code
IputRepeatNoReturn(w, s, h) ==
  LET w1 == IF w.ino[h].count > 1 THEN [w EXCEPT !.ino[h].count = @ - 1] ELSE w IN
  IF ~w1.ino[h].dirt
  THEN Res([w1 EXCEPT !.ino[h].count = @ - 1], [s EXCEPT !.at = "user", !.h = 0, !.n = 0, !.c = 0])
  ELSE WriteInode(w1, s, h, "ip_wait")

\* iput miscoded: the last reference is dropped without write_inode
IputRepeatNoWrite(w, s, h) ==
  Res([w EXCEPT !.ino[h].count = @ - 1], [s EXCEPT !.at = "user", !.h = 0, !.n = 0, !.c = 0])

\* iput from "repeat:" (the inode is unlocked): another user left means
\* i_count--; a dirty inode is written and waited for, then repeat;
\* else the last reference is dropped.
IputRepeat(w, s, h) ==
  IF w.ino[h].count > 1 \/ ~w.ino[h].dirt
  THEN Res([w EXCEPT !.ino[h].count = @ - 1], [s EXCEPT !.at = "user", !.h = 0, !.n = 0, !.c = 0])
  ELSE WriteInode(w, s, h, "ip_wait")

\* sync_inodes from wait_on_inode(inode_table[c]): a dirty inode is written
\* (write_inode returns to the loop), then the next one
SyncFrom(w, s, c) ==
  IF w.ino[c].dirt /\ ~w.ino[c].pipe THEN WriteInode(w, s, c, "sy_wait")
  ELSE Res(w, Return(s, c, "sy_wait"))

-----------------------------------------------------------------------------

\* task p's step yields r
Commit(p, r) ==
  /\ ino' = r.w.ino /\ last' = r.w.last /\ disk' = r.w.disk
  /\ pc' = [pc EXCEPT ![p] = r.s]
  /\ UNCHANGED latest

\* the kernel has panicked ("No free inodes in mem")
Halted == \E p \in Procs : pc[p].at = "panic"

\* task p is at label l and the kernel still runs
At(p, l) == pc[p].at = l /\ ~Halted

Idle == [at |-> "user", op |-> "iget", id |-> NoId, c |-> 0, e |-> 0, h |-> 0, n |-> 0,
         ok |-> TRUE, ret |-> "ge_wait"]

\* iget(dev, nr) by a task holding no inode: get_empty_inode first
Iget(p, x) ==
  /\ At(p, "user") /\ pc[p].h = 0
  /\ Commit(p, GetEmpty(W, [pc[p] EXCEPT !.op = "iget", !.id = x]))

\* get_pipe_inode by a task holding no inode: get_empty_inode, then
\* get_free_page, which gives a page or not
GetPipeInode(p) ==
  /\ At(p, "user") /\ pc[p].h = 0
  /\ \E ok \in BOOLEAN :
       Commit(p, GetEmpty(W, [pc[p] EXCEPT !.op = "pipe", !.id = NoId, !.ok = ok]))

\* iget miscoded: after the sleep the inode is not checked again
WaitOnInodeNoRecheck(p) ==
  LET s == pc[p]
      c == s.c
  IN /\ s.at \in {"ge_wait", "ig_wait", "ip_wait", "sy_wait"} /\ ~Halted
     /\ ~ino[c].lock
     /\ Commit(p, CASE s.at = "ge_wait" -> GeAfterWait(W, s, c)
                    [] s.at = "ig_wait" -> IgetCount(W, s, c)
                    [] s.at = "ip_wait" -> IputRepeat(W, s, c)
                    [] s.at = "sy_wait" -> SyncFrom(W, s, c))

\* iget miscoded: a changed inode makes the scan go on from the next
\* inode (inode++) instead of from inode_table[0]
WaitOnInodeNoRescan(p) ==
  LET s == pc[p]
      c == s.c
      hits == {j \in (c + 1)..NR_INODE : ino[j].id = s.id}
      j == Min(hits)
      rest == IF hits = {}
              THEN Res([W EXCEPT !.ino[s.e].id = s.id, !.ino[s.e].lock = TRUE],
                       [s EXCEPT !.at = "ri_io", !.c = s.e])
              ELSE IF ino[j].lock THEN Res(W, [s EXCEPT !.at = "ig_wait", !.c = j])
              ELSE IgetCount(W, s, j)
  IN /\ s.at \in {"ge_wait", "ig_wait", "ip_wait", "sy_wait"} /\ ~Halted
     /\ ~ino[c].lock
     /\ Commit(p, CASE s.at = "ge_wait" -> GeAfterWait(W, s, c)
                    [] s.at = "ig_wait" -> IF ino[c].id # s.id THEN rest
                                           ELSE IgetCount(W, s, c)
                    [] s.at = "ip_wait" -> IputRepeat(W, s, c)
                    [] s.at = "sy_wait" -> SyncFrom(W, s, c))

\* wait_on_inode returns once the inode is unlocked, and the caller goes
\* on: get_empty_inode tests it again; iget checks that it is still
\* dev/nr and else scans again from inode_table[0]; iput goes to
\* "repeat:"; sync_inodes writes it if dirty
WaitOnInode(p) ==
  LET s == pc[p]
      c == s.c
  IN /\ s.at \in {"ge_wait", "ig_wait", "ip_wait", "sy_wait"} /\ ~Halted
     /\ ~ino[c].lock
     /\ Commit(p, CASE s.at = "ge_wait" -> GeAfterWait(W, s, c)
                    [] s.at = "ig_wait" -> IF ino[c].id # s.id THEN IgetScan(W, s)
                                           ELSE IgetCount(W, s, c)
                    [] s.at = "ip_wait" -> IputRepeat(W, s, c)
                    [] s.at = "sy_wait" -> SyncFrom(W, s, c))

\* read_inode after bread: the on-disk inode is copied in, unlock_inode,
\* and iget returns it
ReadDone(p) ==
  LET c == pc[p].c IN
  /\ At(p, "ri_io")
  /\ ino' = [ino EXCEPT ![c].data = disk[ino[c].id], ![c].lock = FALSE]
  /\ pc' = [pc EXCEPT ![p].at = "user", ![p].h = c, ![p].n = 1, ![p].e = 0, ![p].c = 0]
  /\ UNCHANGED <<last, disk, latest>>

\* write_inode after bread: the inode is copied into its block, i_dirt = 0,
\* unlock_inode
WriteDone(p) ==
  LET c == pc[p].c IN
  /\ At(p, "wi_io")
  /\ disk' = [disk EXCEPT ![ino[c].id] = ino[c].data]
  /\ ino' = [ino EXCEPT ![c].dirt = FALSE, ![c].lock = FALSE]
  /\ pc' = [pc EXCEPT ![p] = Return(pc[p], c, pc[p].ret)]
  /\ UNCHANGED <<last, latest>>

\* a task changes the inode it holds (fields written, i_dirt = 1), without
\* locking it
Modify(p, v) ==
  LET h == pc[p].h IN
  /\ At(p, "user") /\ h # 0 /\ ~ino[h].pipe
  /\ ino' = [ino EXCEPT ![h].data = v, ![h].dirt = TRUE]
  /\ latest' = [latest EXCEPT ![ino[h].id] = v]
  /\ UNCHANGED <<last, disk, pc>>

\* iput of a pipe (after wait_on_inode, which a pipe never sleeps in):
\* i_count--, and the last reference frees the page and clears i_count,
\* i_dirt and i_pipe
IputPipe(w, s, h) ==
  IF w.ino[h].count > 1
  THEN Res([w EXCEPT !.ino[h].count = @ - 1], [s EXCEPT !.n = @ - 1])
  ELSE Res([w EXCEPT !.ino[h].count = 0, !.ino[h].dirt = FALSE, !.ino[h].pipe = FALSE],
           [s EXCEPT !.h = 0, !.n = 0])

\* iput of one reference to the held inode: wait_on_inode, then the pipe
\* branch or "repeat:"
Iput(p) ==
  LET h == pc[p].h IN
  /\ At(p, "user") /\ h # 0
  /\ Commit(p, IF ino[h].lock THEN Res(W, [pc[p] EXCEPT !.at = "ip_wait", !.c = h])
               ELSE IF ino[h].pipe THEN IputPipe(W, pc[p], h)
               ELSE IputRepeat(W, pc[p], h))

\* sync_inodes: wait_on_inode for each inode in turn
Sync(p) ==
  /\ At(p, "user")
  /\ Commit(p, IF ino[1].lock THEN Res(W, [pc[p] EXCEPT !.at = "sy_wait", !.c = 1])
               ELSE SyncFrom(W, pc[p], 1))

\* inode_table is zeroed at boot; the disk holds any contents
Init ==
  /\ ino = [i \in Slots |-> Blank]
  /\ last = 1
  /\ disk \in [Ids -> Vals]
  /\ latest = disk
  /\ pc = [p \in Procs |-> Idle]

Next ==
  \E p \in Procs :
    \/ \E x \in Ids : Iget(p, x)
    \/ GetPipeInode(p)
    \/ WaitOnInode(p) \/ ReadDone(p) \/ WriteDone(p)
    \/ \E v \in Vals : Modify(p, v)
    \/ Iput(p) \/ Sync(p)

Spec == Init /\ [][Next]_vars

-----------------------------------------------------------------------------
(* Properties *)

TypeOK ==
  /\ ino \in [Slots -> [id : Ids \cup {NoId}, count : 0..2 * Cardinality(Procs),
                        lock : BOOLEAN, dirt : BOOLEAN, pipe : BOOLEAN, data : Vals]]
  /\ last \in Slots
  /\ disk \in [Ids -> Vals] /\ latest \in [Ids -> Vals]
  /\ pc \in [Procs -> [at : Labels, op : {"iget", "pipe"}, id : Ids \cup {NoId},
                       c : 0..NR_INODE, e : 0..NR_INODE, h : 0..NR_INODE, n : 0..2,
                       ok : BOOLEAN, ret : Rets]]

\* iget and get_empty_inode: no inode is in inode_table twice, even though
\* both scans sleep and restart.
UniqueIdentity ==
  \A i, j \in Slots : i # j /\ ino[i].id # NoId => ino[i].id # ino[j].id

\* i_count (iget, iput, get_empty_inode, get_pipe_inode) equals the
\* references held: the inodes tasks got from iget, both ends of a pipe
\* until each is put, and the empty inodes iget holds meanwhile.
CountExact ==
  \A i \in Slots :
    ino[i].count = Cardinality({p \in Procs : pc[p].h = i})
                   + Cardinality({p \in Procs : pc[p].h = i /\ pc[p].n = 2})
                   + Cardinality({p \in Procs : pc[p].e = i})

\* iget returns the inode asked for, with its latest contents (read from
\* disk, or kept in memory since the last change).
IgetFresh ==
  \A p \in Procs : pc[p].h # 0 /\ pc[p].op = "iget" =>
    /\ ino[pc[p].h].id = pc[p].id
    /\ ino[pc[p].h].data = latest[pc[p].id]

\* iput writes a dirty inode back before it drops the last reference, and
\* sync_inodes and get_empty_inode lock only dirty inodes: a free inode
\* (i_count == 0) is never dirty or locked, so get_empty_inode never has
\* to wait for or write the inode it picks.
FreeInodeClean ==
  \A i \in Slots : ino[i].count = 0 => ~ino[i].dirt /\ ~ino[i].lock

====
