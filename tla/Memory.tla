------------------------------- MODULE Memory -------------------------------
(***************************************************************************)
(* The physical page allocator, the per-task page tables, copy-on-write,  *)
(* demand loading and page sharing of mm/memory.c, together with the      *)
(* address-space steps of the system calls that drive them: fork          *)
(* (kernel/fork.c copy_process/copy_mem), exit and reaping (kernel/exit.c *)
(* do_exit/release), execve (fs/exec.c do_execve/change_ldt) and the      *)
(* kernel's writes into user memory (verify_area, then put_fs_long).    *)
(*                                                                         *)
(* Data abstraction.  A frame is an index of mem_map (all frames lie above *)
(* LOW_MEM; the kernel's low megabyte and task 0 are not modelled).  A    *)
(* task's 64MB window is a few linear pages, each in one page-directory   *)
(* entry given by DirOf; a directory entry is either absent or names the  *)
(* frame that holds its page table.  A page-table entry keeps its present,*)
(* writable and dirty bits.  Frame contents are abstract values: a zero   *)
(* page, the argument page built by execve, page pg of executable e, or a *)
(* value written by a task.  The ghost variable view records what each    *)
(* task has a right to see at each of its pages; it is not kernel state.  *)
(***************************************************************************)
EXTENDS Naturals, FiniteSets, FiniteSetsExt, Sequences

CONSTANTS
  Slots,         \* indices of task[] for user tasks (task[0] is not modelled)
  NFrames,       \* number of physical page frames above LOW_MEM
  Pages,         \* linear page indices of a task's window
  NDirs,         \* number of page-directory entries the window spans
  DirOf,         \* DirOf[pg]: the directory entry covering page pg
  Exes,          \* executable inodes
  InitExe,       \* the executable init runs initially
  NoExe,         \* current->executable == NULL
  ExeData,       \* ExeData[e]: pages below end_data of e (demand-loaded)
  StackPage,     \* page where change_ldt maps the argument page
  Vals,          \* values a task may write into a page
  KernelWrites   \* whether system calls that write user memory are modelled

Frames == 1..NFrames
Dirs   == 1..NDirs
NoFrame == 0

ASSUME
  /\ Slots \subseteq Nat \ {0} /\ Slots # {}
  /\ NFrames \in Nat \ {0}
  /\ DirOf \in [Pages -> Dirs]
  /\ NoExe \notin Exes /\ InitExe \in Exes
  /\ ExeData \in [Exes -> SUBSET Pages]
  /\ StackPage \in Pages /\ \A e \in Exes : StackPage \notin ExeData[e]
  /\ KernelWrites \in BOOLEAN

VARIABLES
  mem_map,   \* mem_map[f]: share count of frame f (mm/memory.c:57)
  task,      \* task[s]: "free" (task[s] == NULL), "running" or "zombie"
  ts,        \* ts[s]: frame holding task s's task_struct (copy_process)
  exe,       \* exe[s]: current->executable
  pt,        \* pt[s][d]: frame of the page table in directory entry d
  pte,       \* pte[s][pg]: the page-table entry of page pg
  pc,        \* pc[s]: where task s is inside the kernel
  kw,        \* kw[s]: page a system call of s is writing (0: none)
  content,   \* content[f]: what frame f holds
  view       \* ghost: view[s][pg] is what task s must see at page pg

vars == <<mem_map, task, ts, exe, pt, pte, pc, kw, content, view>>

-----------------------------------------------------------------------------
(* Abstract frame contents. *)
ZeroVal        == <<"zero", NoExe, 0>>
ArgsVal        == <<"args", NoExe, 0>>
FileVal(e, pg) == <<"file", e, pg>>
WriteVal(v)    == <<"data", v, 0>>

NoPte == [p |-> FALSE, f |-> NoFrame, rw |-> FALSE, d |-> FALSE]
\* put_page's entry: page | 7 (present, writable, user); dirty bit clear
NewPte(f) == [p |-> TRUE, f |-> f, rw |-> TRUE, d |-> FALSE]

Run      == [op |-> "run",  pg |-> 0,  f |-> NoFrame]
Load(pg, f) == [op |-> "load", pg |-> pg, f |-> f]
Oom      == [op |-> "oom",  pg |-> 0,  f |-> NoFrame]

NoTables == [d \in Dirs |-> NoFrame]
NoPtes   == [pg \in Pages |-> NoPte]
NoView   == [pg \in Pages |-> ZeroVal]

Present(s, pg) == pt[s][DirOf[pg]] # NoFrame /\ pte[s][pg].p

\* Runnable: the task is not asleep in the kernel nor about to die
CanRun(s) == task[s] = "running" /\ pc[s].op = "run"
\* ... and is executing user code (no system call writing user memory)
User(s)   == CanRun(s) /\ kw[s] = 0

\* executable->i_count as far as tasks hold it
ExeCount(e) == Quantify(Slots, LAMBDA s : exe[s] = e)

-----------------------------------------------------------------------------
(* The allocator. *)

\* get_free_page: scans mem_map from the top and takes the last free frame
GetFreePage(mm) ==
  IF \E f \in Frames : mm[f] = 0 THEN Max({f \in Frames : mm[f] = 0})
                                 ELSE NoFrame

\* mm with frame f taken by get_free_page (mem_map[f] = 1)
Take(mm, f) == [mm EXCEPT ![f] = 1]

\* free_page: drop one reference to f
FreePage(mm, f) == [mm EXCEPT ![f] = @ - 1]

\* free_page_tables over the whole window of s: every present entry of every
\* present table is freed, then the table itself
FreePageTables(s, mm) ==
  [f \in Frames |->
     mm[f] - Quantify(Pages, LAMBDA pg : Present(s, pg) /\ pte[s][pg].f = f)
           - Quantify(Dirs, LAMBDA d : pt[s][d] = f)]

\* put_page: the table for pg, allocating it when the directory entry is
\* absent; tbl = NoFrame when that allocation fails
PutPageTable(s, pg, mm) ==
  LET d == DirOf[pg] IN
  IF pt[s][d] # NoFrame THEN [tbl |-> pt[s][d], mm |-> mm]
  ELSE LET t == GetFreePage(mm) IN
       [tbl |-> t, mm |-> IF t = NoFrame THEN mm ELSE Take(mm, t)]

\* put_page(f, pg) for task s when the table r.tbl is available: the pte
\* and directory of s afterwards (the rest of the table is untouched)
MapPage(s, pg, f, r) ==
  /\ pt'  = [pt  EXCEPT ![s][DirOf[pg]] = r.tbl]
  /\ pte' = [pte EXCEPT ![s][pg] = NewPte(f)]

-----------------------------------------------------------------------------
(* Task creation and death (address-space part). *)

InitTask == Min(Slots)

\* mem_init leaves every frame free; init has then been forked (its
\* task_struct page) and has exec'd InitExe (its argument page, mapped at
\* StackPage through a freshly allocated page table).
Mem0    == [f \in Frames |-> 0]
InitTs  == GetFreePage(Mem0)
InitArg == GetFreePage(Take(Mem0, InitTs))
InitTbl == GetFreePage(Take(Take(Mem0, InitTs), InitArg))

Init ==
  /\ mem_map = Take(Take(Take(Mem0, InitTs), InitArg), InitTbl)
  /\ task = [s \in Slots |-> IF s = InitTask THEN "running" ELSE "free"]
  /\ ts   = [s \in Slots |-> IF s = InitTask THEN InitTs ELSE NoFrame]
  /\ exe  = [s \in Slots |-> IF s = InitTask THEN InitExe ELSE NoExe]
  /\ pt   = [s \in Slots |-> IF s = InitTask
                             THEN [NoTables EXCEPT ![DirOf[StackPage]] = InitTbl]
                             ELSE NoTables]
  /\ pte  = [s \in Slots |-> IF s = InitTask
                             THEN [NoPtes EXCEPT ![StackPage] =
                                     [NewPte(InitArg) EXCEPT !.d = TRUE]]
                             ELSE NoPtes]
  /\ pc   = [s \in Slots |-> Run]
  /\ kw   = [s \in Slots |-> 0]
  /\ content = [f \in Frames |-> IF f = InitArg THEN ArgsVal ELSE ZeroVal]
  /\ view = [s \in Slots |-> IF s = InitTask
                             THEN [NoView EXCEPT ![StackPage] = ArgsVal]
                             ELSE NoView]

\* do_exit: free_page_tables of the code and data segments (together the
\* whole window), iput(executable), TASK_ZOMBIE.  Reached by sys_exit, by
\* a fatal signal in the middle of a system call, and by oom().
DoExit(s) ==
  /\ task[s] = "running"
  /\ pc[s].op \in {"run", "oom"}
  /\ mem_map' = FreePageTables(s, mem_map)
  /\ task' = [task EXCEPT ![s] = "zombie"]
  /\ exe'  = [exe  EXCEPT ![s] = NoExe]
  /\ pt'   = [pt   EXCEPT ![s] = NoTables]
  /\ pte'  = [pte  EXCEPT ![s] = NoPtes]
  /\ pc'   = [pc   EXCEPT ![s] = Run]
  /\ kw'   = [kw   EXCEPT ![s] = 0]
  /\ view' = [view EXCEPT ![s] = NoView]
  /\ UNCHANGED <<ts, content>>

\* release (from sys_waitpid, or tell_father when no father is found):
\* task[i] = NULL and the task_struct page is freed
Release(s) ==
  /\ task[s] = "zombie"
  /\ mem_map' = FreePage(mem_map, ts[s])
  /\ task' = [task EXCEPT ![s] = "free"]
  /\ ts'   = [ts   EXCEPT ![s] = NoFrame]
  /\ UNCHANGED <<exe, pt, pte, pc, kw, content, view>>

DirSeq == [i \in Dirs |-> i]

\* copy_page_tables(old_data_base, new_data_base, data_limit) for parent s,
\* directory entries ds in ascending order.  r accumulates: ok (no table
\* allocation failed), mm, the child's directory tbl, and ro, the parent's
\* present pages that were copied and so write-protected in both tasks.
RECURSIVE CopyTables(_, _, _)
CopyTables(s, ds, r) ==
  IF ds = <<>> THEN r
  ELSE LET d == Head(ds) IN
    IF pt[s][d] = NoFrame THEN CopyTables(s, Tail(ds), r)
    ELSE LET t == GetFreePage(r.mm) IN
      IF t = NoFrame THEN [r EXCEPT !.ok = FALSE]
      ELSE LET pgs == {pg \in Pages : DirOf[pg] = d /\ pte[s][pg].p}
               mm1 == [f \in Frames |->
                         IF f = t THEN 1
                         ELSE r.mm[f] + Quantify(pgs, LAMBDA pg : pte[s][pg].f = f)]
           IN CopyTables(s, Tail(ds),
                [r EXCEPT !.mm = mm1, !.tbl = [@ EXCEPT ![d] = t], !.ro = @ \cup pgs])

\* find_empty_process: the lowest free slot of task[] (-EAGAIN when none)
FindEmptyProcess == Min({x \in Slots : task[x] = "free"})

\* copy_mem for parent s once the task_struct frame p is taken:
\* copy_page_tables over the whole window
CopyMem(s, p) ==
  CopyTables(s, DirSeq, [ok |-> TRUE, mm |-> Take(mem_map, p),
                         tbl |-> NoTables, ro |-> {}])

\* sys_fork: find_empty_process takes the lowest free slot; copy_process
\* takes a page for the task_struct, then copy_mem copies the page tables.
\* When copy_page_tables runs out of frames, copy_mem frees what it built
\* (free_page_tables) and copy_process frees the task_struct: mem_map is as
\* before, but the parent's entries already copied stay write-protected.
\* (No free slot or no page for the task_struct: -EAGAIN, nothing changes.)
Fork(s) ==
  /\ User(s)
  /\ \E x \in Slots : task[x] = "free"
  /\ LET c  == FindEmptyProcess
         p  == GetFreePage(mem_map)
         r  == CopyMem(s, p)
         parent == [pg \in Pages |->
                      IF pg \in r.ro THEN [pte[s][pg] EXCEPT !.rw = FALSE]
                                     ELSE pte[s][pg]]
     IN /\ p # NoFrame
        /\ IF r.ok
           THEN /\ mem_map' = r.mm
                /\ task' = [task EXCEPT ![c] = "running"]
                /\ ts'   = [ts   EXCEPT ![c] = p]
                /\ exe'  = [exe  EXCEPT ![c] = exe[s]]
                /\ pt'   = [pt   EXCEPT ![c] = r.tbl]
                /\ pte'  = [pte  EXCEPT ![s] = parent,
                                        ![c] = [pg \in Pages |->
                                                  IF pg \in r.ro THEN parent[pg]
                                                                 ELSE NoPte]]
                /\ view' = [view EXCEPT ![c] = view[s]]
           ELSE /\ pte' = [pte EXCEPT ![s] = parent]
                /\ UNCHANGED <<mem_map, task, ts, exe, pt, view>>
  /\ UNCHANGED <<pc, kw, content>>

-----------------------------------------------------------------------------
(* Page faults. *)

\* Variants of un_wp_page as it could have been miscoded: the old frame's
\* count is not dropped after the copy, or a frame held twice is taken for
\* a private one and made writable in place.
UnWpPageNoDrop(s, pg) ==
  LET old == pte[s][pg].f
      new == GetFreePage(mem_map)
  IN IF mem_map[old] = 1
     THEN /\ pte' = [pte EXCEPT ![s][pg].rw = TRUE]
          /\ UNCHANGED <<mem_map, content, pc>>
     ELSE IF new = NoFrame
     THEN /\ pc' = [pc EXCEPT ![s] = Oom]
          /\ UNCHANGED <<mem_map, content, pte>>
     ELSE /\ mem_map' = Take(mem_map, new)
          /\ pte' = [pte EXCEPT ![s][pg] = NewPte(new)]
          /\ content' = [content EXCEPT ![new] = content[old]]
          /\ UNCHANGED pc

UnWpPageInPlaceTwo(s, pg) ==
  IF mem_map[pte[s][pg].f] <= 2
  THEN /\ pte' = [pte EXCEPT ![s][pg].rw = TRUE]
       /\ UNCHANGED <<mem_map, content, pc>>
  ELSE UnWpPageNoDrop(s, pg)

\* un_wp_page: a frame held once is made writable in place; a shared one is
\* copied to a fresh frame, mapped writable, and the old count dropped.
\* No frame for the copy: oom().
UnWpPage(s, pg) ==
  LET old == pte[s][pg].f
      new == GetFreePage(mem_map)
  IN IF mem_map[old] = 1
     THEN /\ pte' = [pte EXCEPT ![s][pg].rw = TRUE]
          /\ UNCHANGED <<mem_map, content, pc>>
     ELSE IF new = NoFrame
     THEN /\ pc' = [pc EXCEPT ![s] = Oom]
          /\ UNCHANGED <<mem_map, content, pte>>
     ELSE /\ mem_map' = [Take(mem_map, new) EXCEPT ![old] = @ - 1]
          /\ pte' = [pte EXCEPT ![s][pg] = NewPte(new)]
          /\ content' = [content EXCEPT ![new] = content[old]]
          /\ UNCHANGED pc

\* do_wp_page: a user write to a present, write-protected page
DoWpPage(s, pg) ==
  /\ User(s)
  /\ Present(s, pg)
  /\ ~pte[s][pg].rw
  /\ UnWpPage(s, pg)
  /\ UNCHANGED <<task, ts, exe, pt, kw, view>>

\* A user write that the page tables allow: the hardware sets the dirty bit
UserWrite(s, pg, v) ==
  /\ User(s)
  /\ Present(s, pg)
  /\ pte[s][pg].rw
  /\ content' = [content EXCEPT ![pte[s][pg].f] = WriteVal(v)]
  /\ pte'  = [pte  EXCEPT ![s][pg].d = TRUE]
  /\ view' = [view EXCEPT ![s][pg] = WriteVal(v)]
  /\ UNCHANGED <<mem_map, task, ts, exe, pt, pc, kw>>

\* get_empty_page: a zeroed frame mapped writable; oom() when either the
\* frame or the page table for it cannot be had (free_page(tmp) first)
GetEmptyPage(s, pg) ==
  LET f == GetFreePage(mem_map)
      r == PutPageTable(s, pg, Take(mem_map, f))
  IN IF f = NoFrame \/ r.tbl = NoFrame
     THEN /\ pc' = [pc EXCEPT ![s] = Oom]
          /\ UNCHANGED <<mem_map, pt, pte, content, view>>
     ELSE /\ mem_map' = r.mm
          /\ MapPage(s, pg, f, r)
          /\ content' = [content EXCEPT ![f] = ZeroVal]
          /\ view' = [view EXCEPT ![s][pg] = ZeroVal]
          /\ UNCHANGED pc

\* try_to_share's test of the source entry: (phys_addr & 0x41) == 0x01
Clean(e) == e.p /\ ~e.d

\* The tasks share_page would try, and that try_to_share accepts: same
\* executable, source page table present, source page clean and present
Sharers(s, pg) ==
  {p \in Slots \ {s} : /\ exe[p] = exe[s]
                       /\ pt[p][DirOf[pg]] # NoFrame
                       /\ Clean(pte[p][pg])}

\* share_page: only when executable->i_count >= 2, and some task accepts
CanShare(s, pg) == ExeCount(exe[s]) >= 2 /\ Sharers(s, pg) # {}

\* A variant of try_to_share that maps the frame into s without counting
\* the new holder (mem_map[MAP_NR(phys_addr)]++ forgotten).
TryToShareNoCount(s, pg) ==
  LET p   == Max(Sharers(s, pg))
      src == [pte[p][pg] EXCEPT !.rw = FALSE]
      r   == PutPageTable(s, pg, mem_map)
  IN IF r.tbl = NoFrame
     THEN /\ pc' = [pc EXCEPT ![s] = Oom]
          /\ UNCHANGED <<mem_map, pt, pte, view>>
     ELSE /\ mem_map' = r.mm
          /\ pt'  = [pt  EXCEPT ![s][DirOf[pg]] = r.tbl]
          /\ pte' = [pte EXCEPT ![p][pg] = src, ![s][pg] = src]
          /\ view' = [view EXCEPT ![s][pg] = FileVal(exe[s], pg)]
          /\ UNCHANGED pc

\* try_to_share with the first task found scanning task[] downwards: the
\* source entry loses its write bit and is copied into s, and the frame's
\* count goes up.  No frame for s's page table: oom().
TryToShare(s, pg) ==
  LET p   == Max(Sharers(s, pg))
      src == [pte[p][pg] EXCEPT !.rw = FALSE]
      r   == PutPageTable(s, pg, mem_map)
  IN IF r.tbl = NoFrame
     THEN /\ pc' = [pc EXCEPT ![s] = Oom]
          /\ UNCHANGED <<mem_map, pt, pte, view>>
     ELSE /\ mem_map' = [r.mm EXCEPT ![src.f] = @ + 1]
          /\ pt'  = [pt  EXCEPT ![s][DirOf[pg]] = r.tbl]
          /\ pte' = [pte EXCEPT ![p][pg] = src, ![s][pg] = src]
          /\ view' = [view EXCEPT ![s][pg] = FileVal(exe[s], pg)]
          /\ UNCHANGED pc

\* do_no_page: outside the executable's data, an empty page; else share a
\* clean copy of another task, else take a frame and sleep in bread_page
\* reading the page from the executable (LoadFinish completes it).
DoNoPage(s, pg) ==
  /\ CanRun(s)
  /\ kw[s] \in {0, pg}
  /\ ~Present(s, pg)
  /\ IF exe[s] = NoExe \/ pg \notin ExeData[exe[s]]
     THEN GetEmptyPage(s, pg)
     ELSE IF CanShare(s, pg)
     THEN /\ TryToShare(s, pg) /\ UNCHANGED content
     ELSE LET f == GetFreePage(mem_map) IN
          IF f = NoFrame
          THEN /\ pc' = [pc EXCEPT ![s] = Oom]
               /\ UNCHANGED <<mem_map, pt, pte, content, view>>
          ELSE /\ mem_map' = Take(mem_map, f)
               /\ pc' = [pc EXCEPT ![s] = Load(pg, f)]
               /\ UNCHANGED <<pt, pte, content, view>>
  /\ UNCHANGED <<task, ts, exe, kw>>

\* do_no_page after bread_page returns: the frame holds the file page
\* (zero-padded past end_data); put_page maps it, or, when no frame is left
\* for the page table, the frame is freed and oom() follows.
LoadFinish(s) ==
  LET pg == pc[s].pg
      f  == pc[s].f
      r  == PutPageTable(s, pg, mem_map)
  IN /\ task[s] = "running"
     /\ pc[s].op = "load"
     /\ content' = [content EXCEPT ![f] = FileVal(exe[s], pg)]
     /\ IF r.tbl = NoFrame
        THEN /\ mem_map' = FreePage(mem_map, f)
             /\ pc' = [pc EXCEPT ![s] = Oom]
             /\ UNCHANGED <<pt, pte, view>>
        ELSE /\ mem_map' = r.mm
             /\ MapPage(s, pg, f, r)
             /\ view' = [view EXCEPT ![s][pg] = FileVal(exe[s], pg)]
             /\ pc' = [pc EXCEPT ![s] = Run]
     /\ UNCHANGED <<task, ts, exe, kw>>

-----------------------------------------------------------------------------
(* execve and the kernel's writes into user memory. *)

\* A variant of do_execve whose free_page_tables released the old frames
\* but left the old page-table entries in place (only the stack entry is
\* rewritten).
ExecKeepsEntries(s, e) ==
  LET a   == GetFreePage(mem_map)
      mm1 == FreePageTables(s, Take(mem_map, a))
      t   == GetFreePage(mm1)
  IN /\ User(s)
     /\ a # NoFrame /\ t # NoFrame
     /\ exe' = [exe EXCEPT ![s] = e]
     /\ content' = [content EXCEPT ![a] = ArgsVal]
     /\ mem_map' = Take(mm1, t)
     /\ pt'   = [pt   EXCEPT ![s][DirOf[StackPage]] = t]
     /\ pte'  = [pte  EXCEPT ![s][StackPage] = [NewPte(a) EXCEPT !.d = TRUE]]
     /\ view' = [view EXCEPT ![s][StackPage] = ArgsVal]
     /\ UNCHANGED <<task, ts, pc, kw>>

\* do_execve of executable e, address-space part.  copy_strings stages the
\* arguments in a fresh frame before the point of no return (no frame:
\* -ENOMEM and the caller is untouched).  Then iput(old executable),
\* free_page_tables of the old image, and change_ldt maps the argument page
\* at the top of the window with put_page, whose failure (no frame for the
\* page table) change_ldt ignores.  create_tables writes argc/argv/envp
\* into that page.  Format and permission errors change nothing here.
Exec(s, e) ==
  LET a   == GetFreePage(mem_map)
      mm1 == FreePageTables(s, Take(mem_map, a))
      t   == GetFreePage(mm1)
  IN /\ User(s)
     /\ a # NoFrame
     /\ exe' = [exe EXCEPT ![s] = e]
     /\ content' = [content EXCEPT ![a] = ArgsVal]
     /\ IF t = NoFrame
        THEN /\ mem_map' = mm1
             /\ pt'   = [pt   EXCEPT ![s] = NoTables]
             /\ pte'  = [pte  EXCEPT ![s] = NoPtes]
             /\ view' = [view EXCEPT ![s] = NoView]
        ELSE /\ mem_map' = Take(mm1, t)
             /\ pt'   = [pt EXCEPT ![s] =
                           [NoTables EXCEPT ![DirOf[StackPage]] = t]]
             /\ pte'  = [pte EXCEPT ![s] =
                           [NoPtes EXCEPT ![StackPage] =
                              [NewPte(a) EXCEPT !.d = TRUE]]]
             /\ view' = [view EXCEPT ![s] =
                           [NoView EXCEPT ![StackPage] = ArgsVal]]
     /\ UNCHANGED <<task, ts, pc, kw>>

\* write_verify: un_wp_page only when the page table and the entry are
\* present and the entry is read-only; otherwise nothing
WriteVerify(s, pg) ==
  IF Present(s, pg) /\ ~pte[s][pg].rw
  THEN UnWpPage(s, pg)
  ELSE UNCHANGED <<mem_map, pte, content, pc>>

\* A system call about to write user page pg (sys_waitpid's status,
\* do_signal's frame): verify_area -> write_verify, which un-shares the
\* page only when its table and entry are present and it is read-only.
KVerify(s, pg) ==
  /\ KernelWrites
  /\ User(s)
  /\ kw' = [kw EXCEPT ![s] = pg]
  /\ WriteVerify(s, pg)
  /\ UNCHANGED <<task, ts, exe, pt, view>>

\* The system call's put_fs_long: a not-present page faults (DoNoPage),
\* but the write protection of a present page is not honoured in
\* supervisor mode on the 386, so the write goes to whatever frame is mapped.
KPut(s, v) ==
  LET pg == kw[s] IN
  /\ CanRun(s)
  /\ pg # 0
  /\ Present(s, pg)
  /\ content' = [content EXCEPT ![pte[s][pg].f] = WriteVal(v)]
  /\ pte'  = [pte  EXCEPT ![s][pg].d = TRUE]
  /\ view' = [view EXCEPT ![s][pg] = WriteVal(v)]
  /\ kw'   = [kw   EXCEPT ![s] = 0]
  /\ UNCHANGED <<mem_map, task, ts, exe, pt, pc>>

\* The system call returns without writing after all: sys_waitpid's
\* -ECHILD or -EINTR, after verify_area has already run.
KAbort(s) ==
  /\ CanRun(s)
  /\ kw[s] # 0
  /\ kw' = [kw EXCEPT ![s] = 0]
  /\ UNCHANGED <<mem_map, task, ts, exe, pt, pte, pc, content, view>>

-----------------------------------------------------------------------------
Next ==
  \E s \in Slots :
     \/ Fork(s)
     \/ DoExit(s)
     \/ Release(s)
     \/ \E e \in Exes : Exec(s, e)
     \/ LoadFinish(s)
     \/ \E v \in Vals : KPut(s, v)
     \/ KAbort(s)
     \/ \E pg \in Pages :
           \/ DoWpPage(s, pg)
           \/ DoNoPage(s, pg)
           \/ KVerify(s, pg)
           \/ \E v \in Vals : UserWrite(s, pg, v)

Spec == Init /\ [][Next]_vars

\* What distinguishes two states for TLC: the contents of a frame that no
\* present entry maps are never read (every allocation overwrites them:
\* get_free_page zero-fills, un_wp_page copies, bread_page reads), so
\* they are left out of the fingerprint.
MappedContent ==
  [f \in Frames |->
     IF \E s \in Slots, pg \in Pages : Present(s, pg) /\ pte[s][pg].f = f
     THEN content[f] ELSE ZeroVal]

StateView == <<mem_map, task, ts, exe, pt, pte, pc, kw, MappedContent, view>>

\* The kernel state alone: contents and the ghost view never decide a step,
\* so runs whose properties do not read them fingerprint only this.
ControlView == <<mem_map, task, ts, exe, pt, pte, pc, kw>>

-----------------------------------------------------------------------------
(* Properties. *)

Entry == [p : BOOLEAN, f : Frames \cup {NoFrame}, rw : BOOLEAN, d : BOOLEAN]

TypeOK ==
  /\ mem_map \in [Frames -> Nat]
  /\ task \in [Slots -> {"free", "running", "zombie"}]
  /\ ts   \in [Slots -> Frames \cup {NoFrame}]
  /\ exe  \in [Slots -> Exes \cup {NoExe}]
  /\ pt   \in [Slots -> [Dirs -> Frames \cup {NoFrame}]]
  /\ pte  \in [Slots -> [Pages -> Entry]]
  /\ pc   \in [Slots -> {Run, Oom} \cup {Load(pg, f) : pg \in Pages, f \in Frames}]
  /\ kw   \in [Slots -> Pages \cup {0}]

\* Everything that holds a frame: the present entries of present page
\* tables, the page tables, the task_structs, and the frame a task holds
\* while it sleeps in bread_page.
Holders(f) ==
    Quantify(Slots \X Pages, LAMBDA x : Present(x[1], x[2]) /\ pte[x[1]][x[2]].f = f)
  + Quantify(Slots \X Dirs,  LAMBDA x : pt[x[1]][x[2]] = f)
  + Quantify(Slots, LAMBDA s : ts[s] = f)
  + Quantify(Slots, LAMBDA s : pc[s].op = "load" /\ pc[s].f = f)

\* mem_map is exact: every frame's count is the number of its holders.
\* A count above it leaks the frame for good; one below it lets
\* get_free_page hand out a frame still in use, or makes free_page panic
\* ("trying to free free page").  Broken by any increment or decrement
\* missing along fork, sharing, copy-on-write, exit, exec or release.
RefCountExact == \A f \in Frames : mem_map[f] = Holders(f)

\* Copy-on-write isolation: a page a task can write without faulting is
\* held by nobody else (un_wp_page only makes a page writable in place
\* when mem_map says it has a single holder; fork and try_to_share
\* write-protect both sides).
WritableExclusive ==
  \A s \in Slots, pg \in Pages :
     Present(s, pg) /\ pte[s][pg].rw => mem_map[pte[s][pg].f] = 1

\* Every live task sees at each present page exactly what its own history
\* says: its own last write, the executable's page, a zero page or its
\* arguments - never another task's write.  Sharing a page that was
\* written (not clean), or writing through a shared mapping, breaks it.
MemoryCoherent ==
  \A s \in Slots, pg \in Pages :
     task[s] = "running" /\ Present(s, pg) => content[pte[s][pg].f] = view[s][pg]

\* Write isolation (an action property): a write into a task's page, by
\* the task itself or by the kernel on its behalf (put_fs_long), lands in
\* a frame that no other task, table or task_struct holds.  A kernel write
\* into a page that is shared at that moment - left shared because
\* write_verify skips a page that is not present, or shared again while
\* the system call sleeps after verify_area - breaks it.
WriteIsolation ==
  [][\A t \in Slots, pg \in Pages :
       \/ \E v \in Vals : UserWrite(t, pg, v)
       \/ kw[t] = pg /\ \E v \in Vals : KPut(t, v)
       => mem_map[pte[t][pg].f] = 1]_vars
=============================================================================
