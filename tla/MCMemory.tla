------------------------------ MODULE MCMemory ------------------------------
(* Instantiation of Memory for TLC.  Page 1 lies below end_data of e1     *)
(* (demand-loaded, shareable) but is plain bss of e2 (get_empty_page);    *)
(* page 2 is the stack page where execve maps the arguments.  MCDirOf     *)
(* puts the two pages in separate directory entries, as a real task's     *)
(* code (bottom of its 64MB window) and arguments (top) are; MCDirOfOne   *)
(* puts them in one page table, which leaves frames for sharing.          *)
EXTENDS Memory, TLC

MCDirOf    == [pg \in Pages |-> pg]
MCDirOfOne == [pg \in Pages |-> 1]
MCExeData  == [e \in Exes |-> IF e = InitExe THEN {1} ELSE {}]
=============================================================================
