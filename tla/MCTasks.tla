------------------------------ MODULE MCTasks ------------------------------
(* Instances of Tasks for TLC: which system calls and events happen. *)
EXTENDS Tasks

MCLifeCycle == {"fork", "exit", "waitpid", "yield"}
MCSleep == {"fork", "forkfail", "exit", "waitpid", "nohang", "sleep", "fault",
            "ctrl_c"}
MCSignals == {"fork", "exit", "waitpid", "sleep", "kill", "mask"}
\* The shell's "sleep n": fork, sleep in the child, wait in the parent.
MCShellSleep == {"fork", "exit", "waitpid", "sleep"}
=============================================================================
