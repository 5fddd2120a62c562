----------------------------- MODULE ControlMsg -----------------------------
(***************************************************************************)
(* sendmsg and recvmsg of the Emscripten runtime: the vectors of buffers   *)
(* and the control messages that pass between the memory of a program and  *)
(* the kernel.                                                             *)
(*                                                                         *)
(* The two sides lay control messages out differently: the program has a   *)
(* header of three 32-bit words and aligns to 4 bytes, the host a header   *)
(* of 16 bytes and aligns to 8.  copy_cmsg walks the program's list twice, *)
(* once to size the host's buffer and once to fill it.  A program, whose   *)
(* one thread makes one call at a time, sends messages to itself through a *)
(* pair of sockets and arranges its memory anew before each call.  Memory  *)
(* is a sequence of 32-bit words, addresses are in bytes.                  *)
(* The signal discipline of the two calls is the subject of HostCall.      *)
(***************************************************************************)
EXTENDS Integers, Sequences

CONSTANTS
    AddrMod,   \* 2^32, the addresses of a program
    MemSize,   \* size of a program's memory
    Sends,     \* what a program may have in memory when it calls sendmsg
    Receives,  \* likewise for recvmsg
    MaxQueue   \* bound on the messages in the socket

ASSUME SizesAssumption ==
    /\ AddrMod \in Nat /\ MemSize \in 4..AddrMod /\ MemSize % 4 = 0
    /\ MaxQueue \in Nat \ {0}

(* A program's memory, and its em_msghdr: any words.  creds tells whether  *)
(* the receiving socket asks for credentials.                              *)
Word == 0..AddrMod - 1
Memory == [1..MemSize \div 4 -> Word]
MsgHdr == [name : Word, namelen : Word, iov : Word, iovlen : Word, control : Word,
           controllen : Word, ctrunc : BOOLEAN]

ASSUME CallsAssumption ==
    /\ \A c \in Sends \cup Receives : c.mem \in Memory /\ c.em \in MsgHdr
    /\ \A c \in Receives : c.creds \in BOOLEAN

SOL_SOCKET == 1
SCM_RIGHTS == 1
SCM_CREDENTIALS == 2
Ucred == 12       \* sizeof(struct linux_ucred)

VARIABLES
    snd,     \* sendmsg: pc, memory, locals of sendmsg and copy_cmsg
    rcv,     \* recvmsg: pc, memory, locals of recvmsg and write_cmsg
    socket,  \* the file descriptors of each message in transit
    wild     \* history: the messages of the call at which an access left its range

vars == <<snd, rcv, socket, wild>>

-----------------------------------------------------------------------------
(* Memory of a program.                                                    *)

(* Mutant: the end of the range is computed in 32 bits.                    *)
check_range_wraps(ptr, extent) == ptr # 0 /\ (ptr + extent) % AddrMod <= MemSize

(* The sum is 64 bits wide and cannot wrap.                                *)
check_range(ptr, extent) == ptr # 0 /\ ptr + extent <= MemSize

(* A word read by wasmjit_memcpy_from_user, whose index is clamped.        *)
FromUser(mem, a) == mem[1 + (IF a + 4 <= MemSize THEN a ELSE 0) \div 4]

(* memcpy of words to base + a.                                            *)
ToUser(mem, a, words) ==
    [w \in DOMAIN mem |->
       LET k == w - a \div 4 IN IF k \in DOMAIN words THEN words[k] ELSE mem[w]]
Inside(a, words, from, to) == from <= a /\ a + 4 * Len(words) <= to

(* copy_iov: the buffers of the vector, if all of them are in memory.  The *)
(* address of an entry is truncated to 32 bits.                            *)
IovAt(iov, k) == (iov + 8 * k) % AddrMod
IovValid(mem, iov, k) ==
    /\ check_range(IovAt(iov, k), 8)
    /\ check_range(FromUser(mem, IovAt(iov, k)), FromUser(mem, IovAt(iov, k) + 4))
copy_iov(mem, iov, n) ==
    [k \in 1..n |-> [base |-> FromUser(mem, IovAt(iov, k - 1)),
                     len |-> FromUser(mem, IovAt(iov, k - 1) + 4)]]
IovFails(mem, iov, n) == \E k \in 0..n - 1 : ~IovValid(mem, iov, k)

-----------------------------------------------------------------------------
(* Layout of control messages: cmsg_len, level, type, data.                *)

Align(len, to) == ((len + to - 1) \div to) * to
EM_CMSG_ALIGN(len) == Align(len, 4) % AddrMod
EmHeader == 12
CMSG_LEN(len) == 16 + len
CMSG_SPACE(len) == 16 + Align(len, 8)

(* A host buffer; cmsg_len takes two words.                                *)
HostWord(buf, o) == buf[1 + o \div 4]
CMSG_DATA(buf, o, n) == [k \in 1..n |-> HostWord(buf, o + 12 + 4 * k)]
FIRSTHDR(controllen) == IF controllen >= 16 THEN 0 ELSE -1
NXTHDR(buf, o) ==
    LET next == o + Align(HostWord(buf, o), 8)
    IN  IF \/ HostWord(buf, o) < 16
           \/ next + 16 > 4 * Len(buf)
           \/ next + Align(HostWord(buf, next), 8) > 4 * Len(buf)
        THEN -1 ELSE next

-----------------------------------------------------------------------------
(* sendmsg.                                                                *)

Init ==
    /\ snd = [pc |-> "idle"]
    /\ rcv = [pc |-> "idle"]
    /\ socket = <<>>
    /\ wild = {}

(* The conversion of a message accesses memory, within range or not.       *)
Access(within, type, len) == wild' = IF within THEN wild ELSE wild \cup {[type |-> type, len |-> len]}

Fail(errno) == [pc |-> "idle", ret |-> errno]
(* A failed assertion ends the program.                                    *)
Aborted == [pc |-> "aborted"]

(* The program calls sendmsg with its em_msghdr and memory.                *)
SendCall(c) ==
    /\ snd.pc = "idle" /\ rcv.pc = "idle"
    /\ Len(socket) < MaxQueue
    /\ snd' = [pc |-> "iov", mem |-> c.mem, em |-> c.em]
    /\ UNCHANGED <<rcv, socket, wild>>

(* copy_iov, then the checks copy_cmsg begins with.                        *)
SendIov ==
    /\ snd.pc = "iov"
    /\ LET em == snd.em
           max == em.control + em.controllen
       IN  snd' = IF IovFails(snd.mem, em.iov, em.iovlen) THEN Fail("EFAULT")
                  ELSE IF em.control = 0
                  THEN IF em.controllen # 0 THEN Fail("EINVAL")
                       ELSE [pc |-> "sys", mem |-> snd.mem, em |-> em, buf |-> <<>>,
                             liov |-> copy_iov(snd.mem, em.iov, em.iovlen)]
                  ELSE IF max >= AddrMod THEN Fail("EFAULT")
                  ELSE IF max < EmHeader THEN Fail("EINVAL")
                  ELSE [pc |-> "count", mem |-> snd.mem, em |-> em, max |-> max,
                        ptr |-> em.control, off |-> 0,
                        liov |-> copy_iov(snd.mem, em.iov, em.iovlen)]
    /\ UNCHANGED <<rcv, socket, wild>>

(* An allocation fails, or a buffer cannot be recorded.                    *)
SendNoMemory ==
    /\ snd.pc \in {"iov", "alloc", "sys"}
    /\ snd.pc = "sys" => snd.em.control # 0
    /\ snd' = Fail("ENOMEM")
    /\ UNCHANGED <<rcv, socket, wild>>

Header(s) == [len |-> FromUser(s.mem, s.ptr), level |-> FromUser(s.mem, s.ptr + 4),
              type |-> FromUser(s.mem, s.ptr + 8)]
More(s) == s.ptr <= s.max - EmHeader

(* The error copy_cmsg returns for a header, or "none".                    *)
Refusal(h) ==
    IF \/ h.len < EmHeader \/ h.level # SOL_SOCKET
       \/ h.type \notin {SCM_RIGHTS, SCM_CREDENTIALS}
    THEN "EFAULT"
    ELSE IF \/ h.type = SCM_RIGHTS /\ (h.len - EmHeader) % 4 # 0
            \/ h.type = SCM_CREDENTIALS /\ h.len - EmHeader # Ucred
    THEN "EINVAL" ELSE "none"

(* Mutant: the alignment of the data at the host is not counted.           *)
Counted_Packed(h) == CMSG_LEN(h.len - EmHeader)

(* The space the message takes at the host.                                *)
Counted(h) == CMSG_SPACE(h.len - EmHeader)

(* First walk: one header is checked and its space at the host counted.    *)
CountOne ==
    /\ snd.pc = "count" /\ More(snd)
    /\ LET h == Header(snd)
           len == EM_CMSG_ALIGN(h.len)
       IN  snd' = IF \/ ~check_range(snd.ptr, EmHeader)
                     \/ len < h.len \/ len + snd.ptr >= AddrMod
                  THEN Fail("EFAULT")
                  ELSE IF len + snd.ptr > snd.max THEN [snd EXCEPT !.pc = "alloc"]
                  ELSE IF ~check_range(snd.ptr, len) THEN Fail("EFAULT")
                  ELSE IF Refusal(h) # "none" THEN Fail(Refusal(h))
                  ELSE [snd EXCEPT !.off = @ + Counted(h), !.ptr = @ + len]
    /\ UNCHANGED <<rcv, socket, wild>>

CountEnd ==
    /\ snd.pc = "count" /\ ~More(snd)
    /\ snd' = [snd EXCEPT !.pc = "alloc"]
    /\ UNCHANGED <<rcv, socket, wild>>

(* calloc of the host's buffer.                                            *)
SendAlloc ==
    /\ snd.pc = "alloc"
    /\ snd' = [pc |-> "convert", mem |-> snd.mem, em |-> snd.em, max |-> snd.max,
               ptr |-> snd.em.control, liov |-> snd.liov,
               buf |-> [w \in 1..snd.off \div 4 |-> 0], cmsg |-> FIRSTHDR(snd.off)]
    /\ UNCHANGED <<rcv, socket, wild>>

(* Second walk: one message is converted.  assert(cmsg) comes before the   *)
(* test that ended the first walk.                                         *)
ConvertOne ==
    /\ snd.pc = "convert" /\ More(snd)
    /\ LET h == Header(snd)
           len == EM_CMSG_ALIGN(h.len)
           n == (h.len - EmHeader) \div 4
           data == [k \in 1..n |-> FromUser(snd.mem, snd.ptr + EmHeader + 4 * (k - 1))]
           words == <<CMSG_LEN(4 * n), 0, h.level, h.type>> \o data
           buf == ToUser(snd.buf, snd.cmsg, words)
           stop == len + snd.ptr > snd.max
       IN  IF snd.cmsg = -1
           THEN snd' = Aborted /\ UNCHANGED wild
           ELSE /\ snd' = IF stop THEN [snd EXCEPT !.pc = "sys"]
                          ELSE [snd EXCEPT !.buf = buf, !.cmsg = NXTHDR(buf, @), !.ptr = @ + len]
                /\ Access(\/ stop
                          \/ /\ Inside(snd.cmsg, words, 0, 4 * Len(buf))
                             /\ snd.ptr + h.len <= MemSize,
                          h.type, h.len - EmHeader)
    /\ UNCHANGED <<rcv, socket>>

ConvertEnd ==
    /\ snd.pc = "convert" /\ ~More(snd)
    /\ snd' = [snd EXCEPT !.pc = "sys"]
    /\ UNCHANGED <<rcv, socket, wild>>

-----------------------------------------------------------------------------
(* The kernel.                                                             *)

(* finish_sendmsg checks the address and calls the kernel.                 *)
SendSys ==
    /\ snd.pc = "sys"
    /\ snd' = IF snd.em.name # 0 /\ ~check_range(snd.em.name, snd.em.namelen) THEN Fail("EFAULT")
              ELSE [pc |-> "kernel", mem |-> snd.mem, em |-> snd.em, liov |-> snd.liov,
                    buf |-> snd.buf, at |-> 0, fds |-> <<>>]
    /\ UNCHANGED <<rcv, socket, wild>>

(* A message begins at offset o of a host buffer of len bytes.             *)
HostMsgAt(buf, len, o) == o + 16 <= len /\ HostWord(buf, o) \in 16..len - o
HostData(buf, o) == CMSG_DATA(buf, o, (HostWord(buf, o) - 16) \div 4)
HostNext(buf, o) == o + Align(HostWord(buf, o), 8)

(* The kernel walks the host's buffer.  The file descriptors of a message  *)
(* travel as one list.                                                     *)
KernelOne ==
    /\ snd.pc = "kernel" /\ HostMsgAt(snd.buf, 4 * Len(snd.buf), snd.at)
    /\ snd' = [snd EXCEPT !.at = HostNext(snd.buf, @),
                          !.fds = IF HostWord(snd.buf, snd.at + 12) # SCM_RIGHTS THEN @
                                  ELSE @ \o HostData(snd.buf, snd.at)]
    /\ UNCHANGED <<rcv, socket, wild>>

KernelEnd ==
    /\ snd.pc = "kernel" /\ ~HostMsgAt(snd.buf, 4 * Len(snd.buf), snd.at)
    /\ socket' = Append(socket, snd.fds)
    /\ snd' = [pc |-> "idle"]
    /\ UNCHANGED <<rcv, wild>>

KernelFails ==
    /\ snd.pc = "kernel"
    /\ snd' = Fail("errno")
    /\ UNCHANGED <<rcv, socket, wild>>

(* What recvmsg of the kernel puts into a buffer of len bytes: credentials *)
(* if the socket asks for them, cut off where the buffer ends, then as     *)
(* many descriptors as fit.                                                *)
Credentials(len) ==
    IF len < CMSG_LEN(0) THEN <<>>
    ELSE IF len < CMSG_SPACE(Ucred)
    THEN <<len, 0, SOL_SOCKET, SCM_CREDENTIALS>> \o [k \in 1..(len - CMSG_LEN(0)) \div 4 |-> 0]
    ELSE <<CMSG_LEN(Ucred), 0, SOL_SOCKET, SCM_CREDENTIALS, 0, 0, 0, 0>>
Delivered(fds, len, creds) ==
    LET first == IF creds THEN Credentials(len) ELSE <<>>
        room == len - 4 * Len(first) - 16
        n == IF room <= 0 THEN 0 ELSE IF room \div 4 < Len(fds) THEN room \div 4 ELSE Len(fds)
        second == <<CMSG_LEN(4 * n), 0, SOL_SOCKET, SCM_RIGHTS>> \o SubSeq(fds, 1, n)
                  \o (IF n % 2 = 1 /\ 4 * n < room THEN <<0>> ELSE <<>>)
    IN  [buf |-> first \o (IF n = 0 THEN <<>> ELSE second),
         ctrunc |-> n < Len(fds) \/ (creds /\ len < CMSG_SPACE(Ucred))]

-----------------------------------------------------------------------------
(* recvmsg.                                                                *)

RecvCall(c) ==
    /\ snd.pc = "idle" /\ rcv.pc = "idle"
    /\ rcv' = [pc |-> "iov", mem |-> c.mem, em |-> c.em, creds |-> c.creds]
    /\ UNCHANGED <<snd, socket, wild>>

(* The buffer holds one message with as much data as the program's would.  *)
(* A controllen shorter than the header wraps around to a small size.      *)
ToMalloc(controllen) == CMSG_SPACE(controllen - EmHeader)

(* The checks of recvmsg, copy_iov and the allocations.                    *)
RecvIov ==
    /\ rcv.pc = "iov"
    /\ LET em == rcv.em
           bad == \/ em.name # 0 /\ ~check_range(em.name, em.namelen)
                  \/ IovFails(rcv.mem, em.iov, em.iovlen)
                  \/ em.control # 0 /\ ~check_range(em.control, em.controllen)
       IN  rcv' = IF bad THEN Fail("EFAULT")
                  ELSE [pc |-> "sys", mem |-> rcv.mem, em |-> em, creds |-> rcv.creds,
                        liov |-> copy_iov(rcv.mem, em.iov, em.iovlen),
                        len |-> IF em.control = 0 THEN 0 ELSE ToMalloc(em.controllen)]
    /\ UNCHANGED <<snd, socket, wild>>

RecvNoMemory ==
    /\ rcv.pc = "iov"
    /\ rcv' = Fail("ENOMEM")
    /\ UNCHANGED <<snd, socket, wild>>

RecvFails ==
    /\ rcv.pc = "sys"
    /\ rcv' = Fail("errno")
    /\ UNCHANGED <<snd, socket, wild>>

(* The kernel takes a message from the socket.  It leaves the length of an *)
(* absent name alone, and recvmsg asserts that it is 0.                    *)
RecvSys ==
    /\ rcv.pc = "sys" /\ socket # <<>>
    /\ LET d == Delivered(Head(socket), rcv.len, rcv.creds)
       IN  rcv' = IF rcv.em.name = 0 /\ rcv.em.namelen # 0 THEN Aborted
                  ELSE [pc |-> "write", mem |-> rcv.mem, em |-> rcv.em, liov |-> rcv.liov,
                        fds |-> Head(socket), buf |-> d.buf, ctrunc |-> d.ctrunc,
                        cmsg |-> FIRSTHDR(4 * Len(d.buf)), ptr |-> rcv.em.control]
    /\ socket' = Tail(socket)
    /\ UNCHANGED <<snd, wild>>

(* The message write_cmsg is at.                                           *)
MsgType == HostWord(rcv.buf, rcv.cmsg + 12)
MsgData == HostWord(rcv.buf, rcv.cmsg) - CMSG_LEN(0)
MsgHead == <<EmHeader + MsgData, SOL_SOCKET, MsgType>>
ControlMax == (rcv.em.control + rcv.em.controllen) % AddrMod
Extent == rcv.ptr + EmHeader + MsgData

Fits == Extent < AddrMod /\ Extent <= ControlMax

(* words go to the program, n words of data having been read at the host.  *)
Write(words, n) ==
    /\ rcv' = [rcv EXCEPT !.mem = ToUser(@, rcv.ptr, words), !.ptr = Extent,
                          !.cmsg = NXTHDR(rcv.buf, @)]
    /\ Access(/\ rcv.cmsg + CMSG_LEN(4 * n) <= 4 * Len(rcv.buf)
              /\ Inside(rcv.ptr, words, rcv.em.control, rcv.em.control + rcv.em.controllen),
              MsgType, MsgData)

(* assert(buf_len != sizeof(struct linux_ucred)), the wrong way round      *)
WriteAssert ==
    /\ rcv.pc = "write" /\ rcv.cmsg # -1
    /\ MsgType = SCM_CREDENTIALS /\ MsgData = Ucred
    /\ rcv' = Aborted
    /\ UNCHANGED <<snd, socket, wild>>

(* Descriptors are converted, the header of the message last.              *)
WriteRights ==
    /\ rcv.pc = "write" /\ rcv.cmsg # -1
    /\ MsgType # SCM_CREDENTIALS
    /\ Fits
    /\ Write(MsgHead \o CMSG_DATA(rcv.buf, rcv.cmsg, MsgData \div 4), MsgData \div 4)
    /\ UNCHANGED <<snd, socket>>

(* Credentials that pass the assertion have been cut off by the kernel.    *)
(* Three words are copied all the same; those past the end of the host's   *)
(* buffer are whatever is there.                                           *)
WriteCredentials ==
    /\ rcv.pc = "write" /\ rcv.cmsg # -1
    /\ MsgType = SCM_CREDENTIALS /\ MsgData # Ucred
    /\ Fits
    /\ \E stale \in Word :
          Write(MsgHead \o [k \in 1..3 |-> IF k <= MsgData \div 4
                                           THEN HostWord(rcv.buf, rcv.cmsg + 12 + 4 * k) ELSE stale], 3)
    /\ UNCHANGED <<snd, socket>>

(* There is no room: EM_MSG_CTRUNC is set in flags that recvmsg overwrites.*)
WriteNoRoom ==
    /\ rcv.pc = "write" /\ rcv.cmsg # -1
    /\ ~(MsgType = SCM_CREDENTIALS /\ MsgData = Ucred)
    /\ ~Fits
    /\ rcv' = [rcv EXCEPT !.cmsg = -1]
    /\ UNCHANGED <<snd, socket, wild>>

(* Mutant: msg_controllen is left as the program gave it.                  *)
RecvEnd_KeepsLength ==
    /\ rcv.pc = "write" /\ rcv.cmsg = -1
    /\ rcv' = [pc |-> "done", mem |-> rcv.mem, fds |-> rcv.fds,
               em |-> [rcv.em EXCEPT !.ctrunc = rcv.ctrunc]]
    /\ UNCHANGED <<snd, socket, wild>>

(* The header is written back: msg_controllen, and the kernel's msg_flags. *)
RecvEnd ==
    /\ rcv.pc = "write" /\ rcv.cmsg = -1
    /\ rcv' = [pc |-> "done", mem |-> rcv.mem, fds |-> rcv.fds,
               em |-> [rcv.em EXCEPT !.ctrunc = rcv.ctrunc,
                                     !.controllen = IF rcv.em.control = 0 THEN @
                                                    ELSE rcv.ptr - rcv.em.control]]
    /\ UNCHANGED <<snd, socket, wild>>

RecvAgain ==
    /\ rcv.pc = "done"
    /\ rcv' = [pc |-> "idle"]
    /\ wild' = {}
    /\ UNCHANGED <<snd, socket>>

-----------------------------------------------------------------------------
SendStep ==
    \/ \E c \in Sends : SendCall(c)
    \/ SendIov \/ SendNoMemory \/ CountOne \/ CountEnd \/ SendAlloc
    \/ ConvertOne \/ ConvertEnd \/ SendSys \/ KernelOne \/ KernelEnd \/ KernelFails
RecvStep ==
    \/ \E c \in Receives : RecvCall(c)
    \/ RecvIov \/ RecvNoMemory \/ RecvFails \/ RecvSys
    \/ WriteAssert \/ WriteRights \/ WriteCredentials \/ WriteNoRoom \/ RecvEnd \/ RecvAgain
Next == SendStep \/ RecvStep
Spec == Init /\ [][Next]_vars

-----------------------------------------------------------------------------
(* The message is credentials of which the kernel delivered only a part.   *)
CutCredentials(m) == m.type = SCM_CREDENTIALS /\ m.len < Ucred

(* check_range and the sizes computed from it: the buffers given to the    *)
(* kernel lie in the program's memory, and no message is read or written   *)
(* outside the ranges checked and allocated for it, with one exception:    *)
(* credentials that the kernel has cut off, because the program's control  *)
(* buffer is too small for them, are copied as if they were whole.         *)
AccessesWithin ==
    /\ \A m \in wild : CutCredentials(m)
    /\ \A p \in {snd, rcv} : p.pc \in {"sys", "kernel", "write"} =>
         \A k \in DOMAIN p.liov :
            p.liov[k].base > 0 /\ p.liov[k].base + p.liov[k].len <= MemSize

=============================================================================
