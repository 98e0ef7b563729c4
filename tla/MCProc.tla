------------------------------- MODULE MCProc -------------------------------
EXTENDS Proc
====
