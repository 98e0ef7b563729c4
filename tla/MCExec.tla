------------------------------- MODULE MCExec -------------------------------
EXTENDS Exec, TLC

\* /s: an a.out; x: a script "#!/s x\n" run by it; s: no such file;
\* /x: a file that fails the a.out checks; /: a directory
MCSh == <<"/", "s">>
MCScript == <<"x">>
MCMissing == <<"s">>
MCBad == <<"/", "x">>
MCDir == <<"/">>

MCFS == (MCSh :> [kind |-> "aout", line |-> <<>>])
        @@ (MCScript :> [kind |-> "script", line |-> <<"/", "s", " ", "x", "\n">>])
        @@ (MCBad :> [kind |-> "bad", line |-> <<>>])
        @@ (MCDir :> [kind |-> "dir", line |-> <<>>])

MCPaths == {MCSh, MCScript, MCMissing, MCBad, MCDir}

\* one short argument, or four strings of 14 bytes with their NULs: more
\* than the PAGE_SIZE * MAX_ARG_PAGES - 4 = 12 bytes of staging
MCArgvs == {<<<<"x">>>>,
            <<<<"x">>, <<"s", "s", "s">>, <<"s", "s", "s">>, <<"s", "s", "s">>>>}
MCEnvps == {<<>>, <<<<"s">>>>}
====
