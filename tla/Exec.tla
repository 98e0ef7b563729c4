-------------------------------- MODULE Exec --------------------------------
(***************************************************************************)
(* The argument handling of do_execve in fs/exec.c: count, copy_strings    *)
(* into the staging pages page[0..MAX_ARG_PAGES-1], the #! interpreter     *)
(* splice that restarts at restart_interp, and create_tables, which reads  *)
(* argv and envp back from the staged strings after the point of no        *)
(* return.  One call of do_execve is modelled; nothing else touches its    *)
(* locals, so each stretch between two labels is one step.                 *)
(*                                                                         *)
(* Abstractions: a string is a sequence of characters without NUL; a file  *)
(* is what namei finds for a path (an a.out that passes the header check,  *)
(* one that fails it, a #! script with the rest of its first block, or a   *)
(* non-regular file); the caller may execute every file.  The fs-segment   *)
(* games of from_kmem do not change what is copied.  p is an unsigned      *)
(* long of WORD_BITS bits, and PAGE_SIZE is scaled down with it.           *)
(***************************************************************************)
EXTENDS Integers, Sequences, SequencesExt, FiniteSets

CONSTANTS
  PAGE_SIZE,      \* bytes per page
  MAX_ARG_PAGES,  \* size of do_execve's page[]
  WORD_BITS,      \* width of unsigned long
  Letters,        \* characters other than ' ', '\t', '\n' and '/'
  FS,             \* FS[path]: the inode namei(path) finds
  Paths,          \* the filenames a caller may pass
  Argvs, Envps    \* the argv and envp lists a caller may pass

SP == " "
TAB == "\t"
NL == "\n"
SLASH == "/"
Chars == Letters \cup {SP, TAB, NL, SLASH}
Blank(ch) == ch \in {SP, TAB}

Word == 2 ^ WORD_BITS

\* p - n on unsigned longs
USub(a, n) == (a - n) % Word

\* unsigned long p = PAGE_SIZE*MAX_ARG_PAGES-4
PTop == PAGE_SIZE * MAX_ARG_PAGES - 4

File == [kind : {"aout", "bad", "script", "dir"}, line : Seq(Chars)]

ASSUME
  /\ PAGE_SIZE \in Nat \ {0} /\ MAX_ARG_PAGES \in Nat \ {0}
  /\ WORD_BITS \in Nat /\ PTop > 0 /\ Word > PAGE_SIZE * MAX_ARG_PAGES
  /\ FS \in [DOMAIN FS -> File] /\ DOMAIN FS \subseteq Seq(Chars)
  /\ Argvs \subseteq Seq(Seq(Letters)) /\ Envps \subseteq Seq(Seq(Letters))

VARIABLES
  filename, argv, envp,  \* do_execve's arguments
  ino,          \* the inode being executed (the script's, then the interpreter's)
  argc, envc,   \* do_execve's argc and envc
  st,           \* [p, page, stage, over]: p, the page[] slots allocated, the
                \* strings staged from p upwards, and a write past page[]
  sh_bang,
  pc,           \* "start", "restart", "done", "error", "overrun"
  retval,
  out           \* argv and envp as create_tables lays them out

vars == <<filename, argv, envp, ino, argc, envc, st, sh_bang, pc, retval, out>>

-----------------------------------------------------------------------------
(* copy_strings *)

\* Copy len bytes below c.p, last byte first.  offset counts down within
\* the current page; when it falls below 0 the page of the new p is
\* fetched from page[p/PAGE_SIZE], and get_free_page is called for an
\* empty slot (it may fail: copy_strings returns 0).  An index past the
\* end of page[] reads and writes outside the array.
RECURSIVE CopyBytes(_, _)
CopyBytes(c, len) ==
  IF len = 0 THEN {c}
  ELSE LET p1 == USub(c.p, 1)
           i  == p1 \div PAGE_SIZE
       IN IF c.off - 1 >= 0 THEN CopyBytes([c EXCEPT !.p = p1, !.off = @ - 1], len - 1)
          ELSE IF i >= MAX_ARG_PAGES THEN {[c EXCEPT !.p = p1, !.ret = "overrun"]}
          ELSE IF i \in c.page
          THEN CopyBytes([c EXCEPT !.p = p1, !.off = p1 % PAGE_SIZE], len - 1)
          ELSE {[c EXCEPT !.p = p1, !.ret = "nomem"]} \cup
               CopyBytes([c EXCEPT !.p = p1, !.off = p1 % PAGE_SIZE,
                                   !.page = @ \cup {i}], len - 1)

\* while (argc-- > 0): strs[argc] with its NUL; the 128kB test is
\* p-len < 0 on an unsigned long
RECURSIVE CopyList(_, _, _)
CopyList(n, strs, c) ==
  IF n <= 0 THEN {c}
  ELSE LET s   == strs[n]
           len == Len(s) + 1
       IN IF USub(c.p, len) < 0 THEN {[c EXCEPT !.ret = "e2big"]}
          ELSE UNION {IF d.ret = "ok"
                      THEN CopyList(n - 1, strs, [d EXCEPT !.stage = <<s>> \o @])
                      ELSE {d} : d \in CopyBytes(c, len)}

\* copy_strings(n, strs, page, p): returns 0 at once for p == 0, and 0
\* when a page cannot be had or the string does not fit
CopyStrings(n, strs, s) ==
  IF s.p = 0 \/ s.over THEN {s}
  ELSE {[p |-> IF d.ret \in {"ok", "overrun"} THEN d.p ELSE 0, page |-> d.page,
         stage |-> d.stage, over |-> d.ret = "overrun"] :
          d \in CopyList(n, strs, [p |-> s.p, off |-> 0, page |-> s.page,
                                   stage |-> s.stage, ret |-> "ok"])}

-----------------------------------------------------------------------------
(* The #! line: buf holds the rest of the first block.  The line ends at  *)
(* the first '\n'; leading blanks are skipped; the interpreter name runs  *)
(* to the first blank, and whatever follows that one blank is i_arg;      *)
(* i_name is the part after the last '/'.                                 *)

ShBang(buf) ==
  LET nl   == SelectInSeq(buf, LAMBDA ch : ch = NL)
      line == SubSeq(buf, 1, nl - 1)
      k    == SelectInSeq(line, LAMBDA ch : ~Blank(ch))
      rest == SubSeq(line, k, Len(line))
      w    == SelectInSeq(rest, Blank)
      interp == IF w = 0 THEN rest ELSE SubSeq(rest, 1, w - 1)
  IN [ok     |-> nl # 0 /\ k # 0,
      interp |-> interp,
      i_name |-> SubSeq(interp, SelectLastInSeq(interp, LAMBDA ch : ch = SLASH) + 1,
                        Len(interp)),
      i_arg  |-> IF w = 0 THEN <<>> ELSE <<SubSeq(rest, w + 1, Len(rest))>>]

-----------------------------------------------------------------------------
(* do_execve *)

Fail(code) == /\ pc' = "error" /\ retval' = code
              /\ UNCHANGED <<ino, argc, envc, st, sh_bang, out>>

\* after copy_strings: a write went past page[], or p is 0 (-ENOMEM,
\* exec_error1 frees the pages), or the call goes on as k
Staged(s, k) ==
  IF s.over THEN /\ pc' = "overrun" /\ st' = s /\ UNCHANGED <<ino, retval, out>>
  ELSE IF s.p = 0 THEN /\ pc' = "error" /\ retval' = "ENOMEM" /\ st' = s
                       /\ UNCHANGED <<ino, out>>
  ELSE /\ st' = s /\ k

\* namei(filename), then count(argv) and count(envp)
Start ==
  /\ pc = "start"
  /\ IF filename \notin DOMAIN FS THEN Fail("ENOENT")
     ELSE /\ ino' = FS[filename] /\ argc' = Len(argv) /\ envc' = Len(envp)
          /\ pc' = "restart"
          /\ UNCHANGED <<st, sh_bang, retval, out>>
  /\ UNCHANGED <<filename, argv, envp>>

\* restart_interp with a #! file, the first time: parse the line, copy
\* envp and argv[1..] (--argc), then splice filename, i_arg and i_name
\* in front; namei(interp) and goto restart_interp
Interp ==
  /\ pc = "restart" /\ ino.kind = "script" /\ sh_bang = 0
  /\ LET h == ShBang(ino.line) IN
     IF ~h.ok THEN Fail("ENOEXEC")
     ELSE \E s1 \in CopyStrings(envc, envp, st) :
          \E s2 \in CopyStrings(argc - 1, SubSeq(argv, 2, Len(argv)), s1) :
          \E s3 \in CopyStrings(1, <<filename>>, s2) :
          \E s4 \in CopyStrings(Len(h.i_arg), h.i_arg, s3) :
          \E s5 \in CopyStrings(1, <<h.i_name>>, s4) :
            /\ sh_bang' = 1
            /\ argc' = argc - 1 + 2 + Len(h.i_arg)
            /\ Staged(s5,
                 IF h.interp \notin DOMAIN FS
                 THEN /\ pc' = "error" /\ retval' = "ENOENT" /\ UNCHANGED <<ino, out>>
                 ELSE /\ ino' = FS[h.interp] /\ UNCHANGED <<pc, retval, out>>)
  /\ UNCHANGED <<filename, argv, envp, envc>>

\* create_tables: argc strings from p up are argv, the next envc envp
CreateTables(s, n, m) == [argv |-> SubSeq(s.stage, 1, n), envp |-> SubSeq(s.stage, n + 1, n + m)]

\* restart_interp otherwise: a non-regular file gives -EACCES, a failed
\* a.out header check -ENOEXEC (also for a #! interpreter met after the
\* splice); without #! envp and argv are copied now; past the point of
\* no return create_tables lays out the stack
Load ==
  /\ pc = "restart" /\ ~(ino.kind = "script" /\ sh_bang = 0)
  /\ IF ino.kind = "dir" THEN Fail("EACCES")
     ELSE IF ino.kind # "aout" THEN Fail("ENOEXEC")
     ELSE \E s \in IF sh_bang # 0 THEN {st}
                   ELSE UNION {CopyStrings(argc, argv, s1) : s1 \in CopyStrings(envc, envp, st)} :
            /\ Staged(s, /\ pc' = "done" /\ retval' = 0
                         /\ out' = CreateTables(s, argc, envc) /\ UNCHANGED ino)
            /\ UNCHANGED <<argc, envc, sh_bang>>
  /\ UNCHANGED <<filename, argv, envp>>

Init ==
  /\ filename \in Paths /\ argv \in Argvs /\ envp \in Envps
  /\ ino = [kind |-> "dir", line |-> <<>>]
  /\ argc = 0 /\ envc = 0
  /\ st = [p |-> PTop, page |-> {}, stage |-> <<>>, over |-> FALSE]
  /\ sh_bang = 0 /\ pc = "start" /\ retval = 0
  /\ out = [argv |-> <<>>, envp |-> <<>>]

Next == Start \/ Interp \/ Load

Spec == Init /\ [][Next]_vars

-----------------------------------------------------------------------------
(* Properties *)

====
