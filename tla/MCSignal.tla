------------------------------ MODULE MCSignal ------------------------------
EXTENDS Signal

SIGHUP == 1

\* the signals in play: a plain one, SIGKILL and SIGCHLD (default: ignored)
MCSigs == {SIGHUP, SIGKILL, SIGCHLD}

\* sa_mask values passed to sigaction: the empty mask (sys_sigaction adds
\* the signal itself unless SA_NOMASK)
MCMasks == {{}}

\* sa_mask values passed to sigaction, SIGKILL among them
MCKillMasks == {{}, {SIGKILL}}
====
