---------------------------- MODULE HostCallCode ----------------------------
(***************************************************************************)
(* The host functions of emscripten_runtime.c that block signals, hold     *)
(* heap buffers, call WebAssembly back or abort: their control, over the   *)
(* operations of HostCall.  What a function computes is left out; every    *)
(* early return, error path, abort and their order relative to blocking    *)
(* and unblocking signals is kept.                                         *)
(*                                                                         *)
(* A location is the index of an operation.  "libc" stands for work on     *)
(* state that is not async-signal-safe (libc, the heap, the context)       *)
(* between block and unblock, "sys" for a system call that may block for   *)
(* ever, "branch" for any other test.                                      *)
(***************************************************************************)
EXTENDS Naturals, Sequences

Do(op) == [op |-> op, arg |-> 0, err |-> 0]
Or(op, e) == [op |-> op, arg |-> 0, err |-> e]
On(op, b) == [op |-> op, arg |-> b, err |-> 0]
OnOr(op, b, e) == [op |-> op, arg |-> b, err |-> e]

Block == Do("block")
Unblock == Do("unblock")
Sys == Do("sys")
Libc == Do("libc")
Invoke == Do("invoke")
Abt == Do("abort")
Ret == Do("return")
Jmp(e) == Or("goto", e)
If(e) == Or("branch", e)

(* ____setErrNo: invoke ___errno_location, abort at location a when that   *)
(* or the store fails.                                                     *)
setErrNo(a) == <<Invoke, If(a)>>
(* getMemory: invoke malloc; e is where its failure is handled.            *)
getMemory(e) == <<If(e), Invoke, If(e)>>
(* freeMemory: invoke free, abort at a when that fails.                    *)
freeMemory(a) == <<If(a), Invoke, If(a)>>

-----------------------------------------------------------------------------
(* Functions whose buffers are recorded in unfreed_pointers while signals  *)
(* can be delivered.  Buffer 1 is the iovec (or pollfd) copy, buffer 2 the *)
(* control message copy.                                                   *)

(* Mutant: the iovec copy is not recorded.                                 *)
writev_NoRecord ==
    <<If(11),
      Block, OnOr("alloc", 1, 8), If(0), Unblock,
      Sys,
      Block, On("remove", 1), On("free", 1), Unblock, Ret>>

(* Mutant: signals stay blocked during the system call.                    *)
writev_StaysBlocked ==
    <<If(11),
      Block, OnOr("alloc", 1, 8), OnOr("add", 1, 8), If(0),
      Sys,
      Block, On("remove", 1), On("free", 1), Unblock, Ret>>

(* Mutant: the copy is freed and left recorded.                            *)
writev_NoRemove ==
    <<If(11),
      Block, OnOr("alloc", 1, 8), OnOr("add", 1, 8), Unblock,
      Sys,
      Block, If(0), On("free", 1), Unblock, Ret>>

(* Mutant: the function returns with signals blocked.                      *)
writev_NoUnblock ==
    <<If(11),
      Block, OnOr("alloc", 1, 8), OnOr("add", 1, 8), Unblock,
      Sys,
      Block, On("remove", 1), On("free", 1), If(0), Ret>>

writev ==
    <<If(11),                                             \* LOAD_ARGS
      Block, OnOr("alloc", 1, 8), OnOr("add", 1, 8), Unblock,
      Sys,
      Block, On("remove", 1), On("free", 1), Unblock, Ret>>

pwritev ==
    <<If(11),
      Block, OnOr("alloc", 1, 8), OnOr("add", 1, 8), Unblock,
      Sys,
      Block, On("remove", 1), On("free", 1), Unblock, Ret>>

sendmsg ==
    <<If(19),                                             \* flags, LOAD_ARGS
      Block, OnOr("alloc", 1, 14), OnOr("add", 1, 14),
      If(8),                                              \* emmsg.control
      If(14), Jmp(11),                                   \* emmsg.controllen
      OnOr("alloc", 2, 14), If(14), OnOr("add", 2, 14),   \* copy_cmsg
      Unblock, Sys, Block,
      On("remove", 2), On("remove", 1), On("free", 2), On("free", 1),
      Unblock, Ret>>

recvmsg ==
    <<If(22),                                             \* flags, msg
      Block, If(14),                                      \* msg_name range
      OnOr("alloc", 1, 14), OnOr("add", 1, 14),
      If(8), Jmp(11),                                    \* msg_control
      If(14), OnOr("alloc", 2, 14), OnOr("add", 2, 14),
      Unblock, Sys, Block,
      On("remove", 2), On("remove", 1), On("free", 2), On("free", 1),
      Unblock,
      If(21), Jmp(22),                                   \* ret == LONG_MIN
      Abt, Ret>>

(* The branch compiled where the POLL* values differ from Emscripten's.    *)
poll ==
    <<If(12),                                             \* LOAD_ARGS, range
      Block, OnOr("alloc", 1, 9), OnOr("add", 1, 9), Unblock,
      If(9),                                              \* check_poll_events
      Sys,
      Block, On("remove", 1), On("free", 1), Unblock, Ret>>

-----------------------------------------------------------------------------
(* Functions that hold buffers they do not record.                         *)

readv ==
    <<If(7), Block, OnOr("alloc", 1, 6), Sys, On("free", 1), Unblock, Ret>>

execve ==
    <<Block, If(8), OnOr("alloc", 1, 8), OnOr("alloc", 2, 8), Unblock,
      Do("exec"),
      Block>> \o setErrNo(14) \o
    <<On("free", 1), On("free", 2), Unblock, Ret, Abt>>

(* Mutant: signals are not blocked.                                        *)
setgroups_NoBlock ==
    <<If(0), If(6), OnOr("alloc", 1, 6), Or("libc", 6), Jmp(8)>>
    \o setErrNo(11) \o <<On("free", 1), If(0), Ret, Abt>>

setgroups ==
    <<Block, If(6), OnOr("alloc", 1, 6), Or("libc", 6), Jmp(8)>>
    \o setErrNo(11) \o <<On("free", 1), Unblock, Ret, Abt>>

(* Buffer 1 is the list getaddrinfo returned; the elements of the list are *)
(* converted alike, one stands for all.  The tests before block jump to    *)
(* the err label (11), whose unblock then reads a set nothing has filled.  *)
getaddrinfo ==
    <<If(11), Block, OnOr("alloc", 1, 16)>>
    \o getMemory(7) \o
    <<On("free", 1), If(21), Unblock, Ret,
      If(14)>> \o setErrNo(21) \o <<Do("unblock_uninit"), Ret,
      If(19)>> \o setErrNo(21) \o <<Unblock, Ret, Abt>>

-----------------------------------------------------------------------------
(* Functions that return a buffer of WebAssembly memory cached in the      *)
(* context: free the old one, get a new one.                               *)

(* convert_group and convert_passwd from location n on, and the unblock    *)
(* and return of their callers; aborts go to a.                            *)
convert_group(n, a) ==
    <<If(n + 4)>> \o freeMemory(a) \o getMemory(n + 9) \o
    <<Unblock, Ret>> \o setErrNo(a) \o <<Unblock, Ret>>

(* A failed lookup returns without unblocking.                             *)
getgrent ==
    <<Block, Or("libc", 16)>> \o convert_group(3, 19) \o
    setErrNo(19) \o <<Ret, Abt>>

getgrnam ==
    <<If(19), Block, Or("libc", 17)>> \o convert_group(4, 20) \o
    setErrNo(20) \o <<Ret, Abt>>

getpwnam ==
    <<If(19), Block, Or("libc", 17)>> \o convert_group(4, 20) \o
    setErrNo(20) \o <<Ret, Abt>>

(* gmtime_r and localtime_r                                                *)
time_exploder ==
    <<Block, If(13), Or("libc", 13)>> \o convert_group(4, 17) \o <<Abt>>

(* localtime_r blocks and unblocks again inside: no effect.                *)
localtime ==
    <<Block, If(6)>> \o getMemory(17) \o
    <<If(17), Or("libc", 17)>> \o convert_group(8, 21) \o <<Abt>>

gai_strerror ==
    <<Block, If(6)>> \o getMemory(9) \o <<Libc, Unblock, Ret, Abt>>

getenv ==
    <<If(12), Block, Or("libc", 11), If(8)>> \o freeMemory(13) \o getMemory(11) \o
    <<Unblock, Ret, Abt>>

buildEnvironment ==
    <<Block, If(11), If(20)>> \o freeMemory(20) \o <<If(20)>> \o freeMemory(20) \o
    getMemory(20) \o getMemory(20) \o <<If(20), Unblock, Ret, Abt>>

-----------------------------------------------------------------------------
(* Functions that only protect libc or context state.                      *)

(* _stackSave and _stackRestore: invoke the export, abort at a.            *)
stackHelper(a) == <<If(a), Invoke, If(a)>>

llvm_stackrestore ==
    <<Block, If(9), Or("libc", 9), Unblock>> \o stackHelper(10) \o <<Ret, Abt, Abt>>

llvm_stacksave ==
    stackHelper(9) \o <<Block, Or("libc", 8), Unblock, Ret, Abt, Abt>>

mktime ==
    <<If(7), Block, Libc, Unblock, If(7), Ret>> \o setErrNo(10) \o <<Ret, Abt>>

sem_init ==
    <<Block, If(6), Or("libc", 6), Unblock, Ret>> \o setErrNo(10) \o
    <<Unblock, Ret, Abt>>

sem_op ==
    <<If(4), Or("sys", 4), Ret>> \o setErrNo(7) \o <<Ret, Abt>>

setitimer ==
    <<Block, If(7), Or("libc", 7), If(11), Unblock, Ret>> \o setErrNo(11) \o
    <<Unblock, Ret, Abt>>

setgrent == <<Block, Libc, Unblock, Ret>>

(* endgrent does not block signals.                                        *)
endgrent == <<Libc, Ret>>

strftime == <<If(5), Block, Libc, Unblock, Ret>>

sysconf ==
    <<If(7), Block, Libc, Unblock, If(7), Ret>> \o setErrNo(10) \o <<Ret, Abt>>

getrlimit == <<If(5), Block, Libc, Unblock, Ret>>

prlimit64 == <<If(5), Block, Libc, Unblock, Ret>>

setrlimit == <<If(5), Block, Libc, Unblock, Ret>>

statfs64 == <<If(5), Block, Libc, Unblock, Ret>>

fadvise64 == <<If(5), Block, Libc, Unblock, Ret>>

setpriority == <<If(5), Block, Libc, Unblock, Ret>>

ioctl == <<If(6), Block, If(5), Libc, Unblock, Ret>>

(* The rest are the versions compiled outside Linux, where descriptors of  *)
(* directories are kept in ctx->fd_table.                                  *)
close == <<If(5), Block, Libc, Unblock, Ret>>

llseek == <<If(7), Block, Libc, Unblock, If(7), Sys, Ret>>

getdents64 ==
    <<If(8), Block, If(7), Or("libc", 7), Libc, If(9), Unblock, Ret, Abt>>

-----------------------------------------------------------------------------
(* Functions that change the program's mask, or leave it.                  *)

sigprocmask ==
    <<If(4), Or("sigprocmask", 4), Ret>> \o setErrNo(7) \o <<Ret, Abt>>

abort == <<Abt>>

exit == <<Abt>>

(* The host functions by name.                                             *)
HostFunctions ==
    [writev |-> writev, pwritev |-> pwritev, sendmsg |-> sendmsg, recvmsg |-> recvmsg,
     poll |-> poll, readv |-> readv, execve |-> execve, setgroups |-> setgroups,
     getaddrinfo |-> getaddrinfo, getgrent |-> getgrent, getgrnam |-> getgrnam,
     getpwnam |-> getpwnam, time_exploder |-> time_exploder, localtime |-> localtime,
     gai_strerror |-> gai_strerror, getenv |-> getenv,
     buildEnvironment |-> buildEnvironment, llvm_stackrestore |-> llvm_stackrestore,
     llvm_stacksave |-> llvm_stacksave, mktime |-> mktime, sem_init |-> sem_init,
     sem_op |-> sem_op, setitimer |-> setitimer, setgrent |-> setgrent,
     endgrent |-> endgrent, strftime |-> strftime, sysconf |-> sysconf, getrlimit |-> getrlimit,
     prlimit64 |-> prlimit64, setrlimit |-> setrlimit, statfs64 |-> statfs64,
     fadvise64 |-> fadvise64, setpriority |-> setpriority, ioctl |-> ioctl,
     close |-> close, llseek |-> llseek, getdents64 |-> getdents64,
     sigprocmask |-> sigprocmask, abort |-> abort, exit |-> exit]
=============================================================================
