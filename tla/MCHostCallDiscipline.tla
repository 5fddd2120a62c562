------------------------ MODULE MCHostCallDiscipline ------------------------
(* The discipline, evaluated on every host function of HostCallCode, and   *)
(* checked on an instance with host functions that satisfy it: some that   *)
(* record buffers, one that calls back while it holds the lock, one that   *)
(* the callbacks use and that takes the lock again, and sigprocmask.       *)
EXTENDS HostCallDiscipline, HostCallCode

CONSTANTS s1, p1, p2

(* The host functions that break the discipline.                           *)
Undisciplined ==
    {c \in DOMAIN HostFunctions :
        ~UsedSafely(HostFunctions[c], Infer(HostFunctions[c]))}

ASSUME UndisciplinedAre ==
    Undisciplined = {"poll", "execve", "setgroups", "getaddrinfo",
                     "getgrent", "getgrnam", "getpwnam", "endgrent"}
=============================================================================
