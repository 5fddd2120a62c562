--------------------------- MODULE ControlMsgProof ---------------------------
(***************************************************************************)
(* sendmsg and recvmsg stay within the ranges they checked and allocated,  *)
(* for every memory of a program and every em_msghdr, however control      *)
(* messages are laid out and wherever a call fails.                        *)
(*                                                                         *)
(* That copy_cmsg writes within the buffer it allocated is not inductive:  *)
(* the buffer was sized by an earlier walk over the program's list.  The   *)
(* invariant says that the first walk found headers at P[1], P[2], ... and *)
(* counted their messages at the offsets O[1], O[2], ... of the host, and  *)
(* that the second walk is at one of them, the rest of its buffer still 0. *)
(***************************************************************************)
EXTENDS ControlMsg, TLAPS

(* Leaves that name no prover: how long each is tried, and in which order. *)
USE SMTT(20), ZenonT(20), SMTT(40), Z3T(60)

(* Memory after a call may hold any numbers.                               *)
Mem == [1..MemSize \div 4 -> Nat]
Buffer == {b \in [base : Nat, len : Nat] : b.base > 0 /\ b.base + b.len <= MemSize}
Vector == UNION {[1..n -> Buffer] : n \in Nat}

(* The distance between headers in the program's list and at the host.     *)
Step(mem, p) == EM_CMSG_ALIGN(FromUser(mem, p))
Space(mem, p) == CMSG_SPACE(FromUser(mem, p) - EmHeader)

(* The header at p passed the checks of the first walk.                    *)
Passed(mem, p) ==
    /\ FromUser(mem, p) >= EmHeader
    /\ (FromUser(mem, p) - EmHeader) % 4 = 0
    /\ p + FromUser(mem, p) <= MemSize

(* The walk from P[1] passed K headers and counted O[K + 1] bytes.         *)
Walk(mem, K, P, O) ==
    /\ K \in Nat /\ P \in [Nat -> Nat] /\ O \in [Nat -> Nat]
    /\ O[1] = 0
    /\ \A k \in 1..K : /\ Passed(mem, P[k])
                       /\ P[k + 1] = P[k] + Step(mem, P[k])
                       /\ O[k + 1] = O[k] + Space(mem, P[k])
                       /\ O[k] + Space(mem, P[k]) <= O[K + 1]
    /\ \A k \in 1..K + 1 : O[k] % 8 = 0

(* Where the first walk ends.                                              *)
Ends(mem, max, p) == p > max - EmHeader \/ Step(mem, p) + p > max

-----------------------------------------------------------------------------
(* What is known at each place of sendmsg.                                 *)
IovState(s) == s.mem \in Mem /\ s.em \in MsgHdr

Counting == [pc : {"count", "alloc"}, mem : Mem, em : MsgHdr, max : Nat, ptr : Nat, off : Nat,
             liov : Vector]
CountState(s) ==
    /\ s \in Counting
    /\ \E K, P, O :
          /\ Walk(s.mem, K, P, O) /\ P[1] = s.em.control
          /\ s.ptr = P[K + 1] /\ s.off = O[K + 1]
          /\ s.pc = "alloc" => Ends(s.mem, s.max, P[K + 1])

(* The second walk is at header j and offset O[j], or past the last one.   *)
At(s, K, P, O, j) ==
    /\ j \in 1..K + 1 /\ s.ptr = P[j]
    /\ s.cmsg = IF j <= K THEN O[j] ELSE -1
    /\ j <= K => \A w \in 1..Len(s.buf) : 4 * (w - 1) >= O[j] => s.buf[w] = 0

Converting == [pc : {"convert"}, mem : Mem, em : MsgHdr, max : Nat, ptr : Nat, liov : Vector,
               buf : Seq(Nat), cmsg : Int]
ConvertState(s) ==
    /\ s \in Converting
    /\ \E K, P, O :
          /\ Walk(s.mem, K, P, O)
          /\ Ends(s.mem, s.max, P[K + 1])
          /\ 4 * Len(s.buf) = O[K + 1]
          /\ \E j : At(s, K, P, O, j)

SysState(s) == s.mem \in Mem /\ s.em \in MsgHdr /\ s.liov \in Vector /\ s.buf \in Seq(Nat)

Sending == [pc : {"kernel"}, mem : Mem, em : MsgHdr, liov : Vector, buf : Seq(Nat), at : Nat,
            fds : Seq(Nat)]
KernelState(s) == s \in Sending /\ s.at % 8 = 0

SndInv(s) ==
    /\ s.pc \in {"idle", "aborted", "iov", "count", "alloc", "convert", "sys", "kernel"}
    /\ s.pc = "iov" => IovState(s)
    /\ s.pc \in {"count", "alloc"} => CountState(s)
    /\ s.pc = "convert" => ConvertState(s)
    /\ s.pc = "sys" => SysState(s)
    /\ s.pc = "kernel" => KernelState(s)

(* What is known at each place of recvmsg.                                 *)
RecvIovState(r) == r.mem \in Mem /\ r.em \in MsgHdr /\ r.creds \in BOOLEAN
RecvSysState(r) ==
    /\ r.mem \in Mem /\ r.em \in MsgHdr /\ r.creds \in BOOLEAN /\ r.liov \in Vector
    /\ r.len \in Int /\ r.len % 8 = 0

(* The kernel's first message.  It is the last, or it is whole             *)
(* credentials, and write_cmsg stops there.                                *)
FirstMsg(buf) ==
    /\ Len(buf) >= 4 /\ buf[1] >= 16 /\ buf[1] <= 4 * Len(buf)
    /\ buf[4] = SCM_CREDENTIALS => buf[1] <= CMSG_LEN(Ucred)
    /\ \/ buf[4] = SCM_CREDENTIALS /\ buf[1] = CMSG_LEN(Ucred)
       \/ Align(buf[1], 8) + 16 > 4 * Len(buf)

Writing == [pc : {"write"}, mem : Mem, em : MsgHdr, liov : Vector, fds : Seq(Nat), buf : Seq(Nat),
            ctrunc : BOOLEAN, cmsg : Int, ptr : Nat]
WriteState(r) ==
    /\ r \in Writing
    /\ r.ptr >= r.em.control
    /\ r.cmsg = -1 \/ (r.cmsg = 0 /\ FirstMsg(r.buf))

RcvInv(r) ==
    /\ r.pc \in {"idle", "aborted", "iov", "sys", "write", "done"}
    /\ r.pc = "iov" => RecvIovState(r)
    /\ r.pc = "sys" => RecvSysState(r)
    /\ r.pc = "write" => WriteState(r)

(* The inductive invariant.                                                *)
Excused == \A m \in wild : CutCredentials(m)
WithinInv == Excused /\ socket \in Seq(Seq(Nat)) /\ SndInv(snd) /\ RcvInv(rcv)

-----------------------------------------------------------------------------
(* Arithmetic of the layouts.                                              *)

(* A number of the program.                                                *)
LEMMA Sizes == AddrMod \in Nat \ {0} /\ MemSize \in Nat /\ 4 <= MemSize /\ MemSize <= AddrMod /\ MemSize % 4 = 0
BY SizesAssumption

(* The remainder modulo the addresses.                                     *)
LEMMA Modulo ==
    ASSUME NEW a \in Nat
    PROVE  /\ a % AddrMod \in Nat
           /\ a % AddrMod <= a
<1>1. AddrMod \in Nat \ {0}
    BY Sizes
<1>2. a % AddrMod \in Nat /\ a % AddrMod < AddrMod
    BY <1>1
<1>3. a < AddrMod => a % AddrMod = a
    BY <1>1
<1> QED BY <1>1, <1>2, <1>3

(* Alignment at the host.                                                  *)
LEMMA Aligned ==
    ASSUME NEW x \in Nat
    PROVE  /\ Align(x, 8) \in Nat /\ Align(x, 8) % 8 = 0
           /\ x <= Align(x, 8) /\ Align(x, 8) <= x + 7
BY DEF Align

(* A message of the program with aligned data, at the host.                *)
LEMMA Packing ==
    ASSUME NEW x \in Nat, x >= EmHeader, (x - EmHeader) % 4 = 0, NEW n, n = (x - EmHeader) \div 4
    PROVE  /\ n \in Nat /\ 4 * n = x - EmHeader
           /\ CMSG_SPACE(x - EmHeader) \in Nat
           /\ CMSG_SPACE(x - EmHeader) % 8 = 0
           /\ CMSG_SPACE(x - EmHeader) >= 16 + 4 * n
           /\ Align(CMSG_LEN(4 * n), 8) = CMSG_SPACE(x - EmHeader)
BY DEF EmHeader, CMSG_SPACE, CMSG_LEN, Align

(* A word of the program's memory.                                         *)
LEMMA UserWord ==
    ASSUME NEW mem \in Mem, NEW a \in Nat
    PROVE  FromUser(mem, a) \in Nat
<1> DEFINE i == 1 + (IF a + 4 <= MemSize THEN a ELSE 0) \div 4
<1>1. i \in 1..MemSize \div 4
    BY Sizes
<1> QED BY <1>1 DEF FromUser, Mem

(* The distance to the next header.                                        *)
LEMMA StepNat ==
    ASSUME NEW mem \in Mem, NEW a \in Nat
    PROVE  Step(mem, a) \in Nat
<1>1. FromUser(mem, a) \in Nat
    BY UserWord
<1>2. Align(FromUser(mem, a), 4) \in Nat
    BY <1>1 DEF Align
<1> QED BY <1>2, Modulo DEF Step, EM_CMSG_ALIGN

(* copy_iov: buffers that passed the checks lie in memory.                 *)
LEMMA VectorChecked ==
    ASSUME NEW mem \in Mem, NEW iov \in Nat, NEW n \in Nat, ~IovFails(mem, iov, n)
    PROVE  copy_iov(mem, iov, n) \in Vector
<1> DEFINE B(k) == [base |-> FromUser(mem, IovAt(iov, k - 1)),
                    len |-> FromUser(mem, IovAt(iov, k - 1) + 4)]
<1>1. ASSUME NEW k \in 1..n PROVE B(k) \in Buffer
  <2>1. k - 1 \in 0..n - 1 /\ iov + 8 * (k - 1) \in Nat
      OBVIOUS
  <2>2. IovAt(iov, k - 1) \in Nat
      BY <2>1, Modulo DEF IovAt
  <2>3. IovValid(mem, iov, k - 1)
      BY <2>1 DEF IovFails
  <2> DEFINE b == FromUser(mem, IovAt(iov, k - 1))
             l == FromUser(mem, IovAt(iov, k - 1) + 4)
  <2>4. b \in Nat /\ l \in Nat
      BY <2>2, UserWord
  <2>5. b # 0 /\ b + l <= MemSize
      BY <2>3 DEF IovValid, check_range
  <2> HIDE DEF b, l
  <2>6. [base |-> b, len |-> l] \in Buffer
      BY <2>4, <2>5 DEF Buffer
  <2> QED BY <2>6 DEF b, l
<1> HIDE DEF B
<1>2. [k \in 1..n |-> B(k)] \in [1..n -> Buffer]
    BY <1>1
<1> QED BY ZenonT(60), <1>2 DEF copy_iov, Vector, B

-----------------------------------------------------------------------------
(* The first walk.                                                         *)

(* The walk goes on past the next header.                                  *)
Longer(mem, K, P, O) ==
    \E Q, R : /\ Walk(mem, K + 1, Q, R) /\ Q[1] = P[1]
              /\ Q[K + 2] = P[K + 1] + Step(mem, P[K + 1])
              /\ R[K + 2] = O[K + 1] + Space(mem, P[K + 1])

(* One more header passes the checks.                                      *)
LEMMA WalkOn ==
    ASSUME NEW mem \in Mem, NEW K, NEW P, NEW O, Walk(mem, K, P, O), Passed(mem, P[K + 1])
    PROVE  Longer(mem, K, P, O)
<1>1. K \in Nat /\ P \in [Nat -> Nat] /\ O \in [Nat -> Nat]
    BY DEF Walk
<1> DEFINE p == P[K + 1]
           st == Step(mem, p)
           sp == Space(mem, p)
           Q == [P EXCEPT ![K + 2] = p + st]
           R == [O EXCEPT ![K + 2] = O[K + 1] + sp]
<1>2. p \in Nat /\ O[K + 1] \in Nat
    BY <1>1
<1>3. st \in Nat
    BY <1>2, StepNat
<1>4. sp \in Nat /\ sp % 8 = 0 /\ sp >= 16
  <2>1. FromUser(mem, p) \in Nat /\ FromUser(mem, p) >= EmHeader /\ (FromUser(mem, p) - EmHeader) % 4 = 0
      BY <1>2, UserWord DEF Passed
  <2>2. PICK n : n = (FromUser(mem, p) - EmHeader) \div 4
      OBVIOUS
  <2>3. CMSG_SPACE(FromUser(mem, p) - EmHeader) \in Nat
      BY <2>1, <2>2, Packing
  <2>4. CMSG_SPACE(FromUser(mem, p) - EmHeader) % 8 = 0
      BY <2>1, <2>2, Packing
  <2>5. n \in Nat /\ CMSG_SPACE(FromUser(mem, p) - EmHeader) >= 16 + 4 * n
      BY <2>1, <2>2, Packing
  <2> QED BY <2>3, <2>4, <2>5 DEF Space
<1>5. Passed(mem, p)
    OBVIOUS
<1> HIDE DEF p, st, sp
<1>6. Q \in [Nat -> Nat] /\ R \in [Nat -> Nat]
    BY <1>1, <1>2, <1>3, <1>4
<1>7. /\ Q[K + 2] = p + st /\ R[K + 2] = O[K + 1] + sp
      /\ \A k \in 1..K + 1 : Q[k] = P[k] /\ R[k] = O[k]
    BY <1>1
<1> HIDE DEF Q, R
<1>8. \A k \in 1..K + 2 : R[k] % 8 = 0
  <2>1. \A k \in 1..K + 1 : R[k] % 8 = 0
      BY <1>1, <1>7 DEF Walk
  <2>2. O[K + 1] % 8 = 0
      BY <1>1 DEF Walk
  <2>3. R[K + 2] % 8 = 0
      BY <1>2, <1>4, <1>7, <2>2
  <2> QED BY <1>1, <2>1, <2>3
<1>9. ASSUME NEW k \in 1..K + 1
      PROVE  /\ Passed(mem, Q[k])
             /\ Q[k + 1] = Q[k] + Step(mem, Q[k])
             /\ R[k + 1] = R[k] + Space(mem, Q[k])
             /\ R[k] + Space(mem, Q[k]) <= R[K + 2]
  <2>1. CASE k = K + 1
    <3>1. Q[k] = p /\ R[k] = O[K + 1] /\ k + 1 = K + 2
        BY <1>1, <1>7, <2>1 DEF p
    <3> QED BY <3>1, <1>2, <1>4, <1>5, <1>7 DEF st, sp
  <2>2. CASE k \in 1..K
    <3>1. k \in 1..K + 1 /\ k + 1 \in 1..K + 1
        BY <1>1, <2>2
    <3>2. Q[k] = P[k] /\ R[k] = O[k] /\ Q[k + 1] = P[k + 1] /\ R[k + 1] = O[k + 1]
        BY ZenonT(60), <1>7, <3>1
    <3>3. /\ Passed(mem, P[k]) /\ P[k + 1] = P[k] + Step(mem, P[k])
          /\ O[k + 1] = O[k] + Space(mem, P[k]) /\ O[k] + Space(mem, P[k]) <= O[K + 1]
        BY ZenonT(60), <2>2 DEF Walk
    <3>4. O[k + 1] <= R[K + 2]
      <4>1. O[k + 1] \in Nat /\ O[k + 1] <= O[K + 1]
          BY <1>1, <3>3
      <4> QED BY <4>1, <1>2, <1>4, <1>7
    <3> QED BY ZenonT(60), <3>2, <3>3, <3>4
  <2> QED BY <1>1, <2>1, <2>2
<1>10. R[1] = 0 /\ Q[1] = P[1]
    BY <1>1, <1>7 DEF Walk
<1>11. K + 1 \in Nat /\ (K + 1) + 1 = K + 2
    BY <1>1
<1>12. Walk(mem, K + 1, Q, R)
    BY ZenonT(60), <1>6, <1>8, <1>9, <1>10, <1>11 DEF Walk
<1> QED BY ZenonT(60), <1>7, <1>10, <1>12 DEF p, st, sp, Longer

(* A header without Refusal.                                               *)
LEMMA Accepted ==
    ASSUME NEW h, h.len \in Nat, Refusal(h) = "none"
    PROVE  h.len >= EmHeader /\ (h.len - EmHeader) % 4 = 0
BY DEF Refusal, SCM_RIGHTS, SCM_CREDENTIALS, EmHeader, Ucred

(* CountOne moves to the next header.                                      *)
LEMMA CountMoves ==
    ASSUME NEW s, CountState(s), s.pc = "count", NEW h, h = Header(s),
           NEW len, len = EM_CMSG_ALIGN(h.len), ~(len < h.len), check_range(s.ptr, len),
           Refusal(h) = "none"
    PROVE  CountState([s EXCEPT !.off = @ + Counted(h), !.ptr = @ + len])
<1>1. s \in Counting
    BY DEF CountState
<1>2. PICK K, P, O : /\ Walk(s.mem, K, P, O) /\ P[1] = s.em.control
                     /\ s.ptr = P[K + 1] /\ s.off = O[K + 1]
    BY ZenonT(60) DEF CountState
<1>3. s.mem \in Mem /\ s.ptr \in Nat /\ s.off \in Nat
    BY <1>1 DEF Counting
<1>4. h.len = FromUser(s.mem, s.ptr)
    BY DEF Header
<1>5. h.len \in Nat /\ len \in Nat /\ len = Step(s.mem, s.ptr)
    BY ZenonT(60), <1>3, <1>4, UserWord, StepNat DEF Step
<1>6. h.len >= EmHeader /\ (h.len - EmHeader) % 4 = 0
    BY ZenonT(60), <1>5, Accepted
<1>7. s.ptr + h.len <= MemSize
    BY <1>3, <1>5, Sizes DEF check_range
<1>8. Passed(s.mem, s.ptr)
    BY ZenonT(60), <1>4, <1>6, <1>7 DEF Passed
<1>9. Counted(h) = Space(s.mem, s.ptr)
    BY ZenonT(60), <1>4 DEF Counted, Space
<1>10. PICK Q, R : /\ Walk(s.mem, K + 1, Q, R) /\ Q[1] = P[1]
                   /\ Q[K + 2] = P[K + 1] + Step(s.mem, P[K + 1])
                   /\ R[K + 2] = O[K + 1] + Space(s.mem, P[K + 1])
  <2>1. Passed(s.mem, P[K + 1])
      BY <1>2, <1>8
  <2>2. Longer(s.mem, K, P, O)
      BY ZenonT(60), <2>1, <1>2, <1>3, WalkOn
  <2> QED BY ZenonT(60), <2>2 DEF Longer
<1> DEFINE t == [s EXCEPT !.off = @ + Counted(h), !.ptr = @ + len]
<1>11. Counted(h) \in Nat
    BY <1>5, <1>6, Packing DEF Counted
<1>12. /\ t \in Counting /\ t.mem = s.mem /\ t.em = s.em /\ t.pc = "count"
       /\ t.off = s.off + Counted(h) /\ t.ptr = s.ptr + len
  <2>1. s.off + Counted(h) \in Nat /\ s.ptr + len \in Nat
      BY <1>3, <1>5, <1>11
  <2> DEFINE x == s.off + Counted(h)
             y == s.ptr + len
  <2>2. t = [s EXCEPT !.off = x, !.ptr = y]
      BY <1>1 DEF Counting
  <2> HIDE DEF x, y, t
  <2>3. t \in Counting /\ t.mem = s.mem /\ t.em = s.em /\ t.pc = s.pc /\ t.off = x /\ t.ptr = y
      BY ZenonT(60), <1>1, <2>1, <2>2 DEF Counting, x, y
  <2> QED BY ZenonT(60), <2>3 DEF x, y
<1> HIDE DEF t
<1>13. t.ptr = Q[K + 2] /\ t.off = R[K + 2]
    BY ZenonT(60), <1>2, <1>5, <1>9, <1>10, <1>12
<1>14. K + 2 = (K + 1) + 1
    BY <1>2 DEF Walk
<1>15. CountState(t)
    BY <1>2, <1>10, <1>12, <1>13, <1>14, ZenonT(60) DEF CountState
<1> QED BY ZenonT(60), <1>15 DEF t

(* The first walk ends.                                                    *)
LEMMA CountStops ==
    ASSUME NEW s, CountState(s), s.pc = "count", ~More(s) \/ EM_CMSG_ALIGN(Header(s).len) + s.ptr > s.max
    PROVE  CountState([s EXCEPT !.pc = "alloc"])
<1>1. s \in Counting
    BY DEF CountState
<1>2. PICK K, P, O : /\ Walk(s.mem, K, P, O) /\ P[1] = s.em.control
                     /\ s.ptr = P[K + 1] /\ s.off = O[K + 1]
    BY ZenonT(60) DEF CountState
<1> DEFINE t == [s EXCEPT !.pc = "alloc"]
<1>3. /\ t \in Counting /\ t.mem = s.mem /\ t.em = s.em /\ t.max = s.max
      /\ t.off = s.off /\ t.ptr = s.ptr
    BY <1>1 DEF Counting
<1> HIDE DEF t
<1>4. Header(s).len = FromUser(s.mem, s.ptr)
    BY DEF Header
<1>5. Ends(s.mem, s.max, s.ptr)
  <2>1. CASE ~More(s)
    <3>1. s.ptr \in Nat /\ s.max \in Nat
        BY <1>1 DEF Counting
    <3> QED BY <2>1, <3>1 DEF More, Ends, EmHeader
  <2>2. CASE EM_CMSG_ALIGN(Header(s).len) + s.ptr > s.max
      BY <2>2, <1>4 DEF Ends, Step
  <2> QED BY ZenonT(60), <2>1, <2>2
<1>6. CountState(t)
    BY ZenonT(60), <1>2, <1>3, <1>5 DEF CountState
<1> QED BY ZenonT(60), <1>6 DEF t

-----------------------------------------------------------------------------
(* The second walk.                                                        *)

(* The space of a message whose header passed.                             *)
LEMMA PassedSpace ==
    ASSUME NEW mem \in Mem, NEW p \in Nat, Passed(mem, p), NEW n, n = (FromUser(mem, p) - EmHeader) \div 4
    PROVE  /\ n \in Nat /\ 4 * n = FromUser(mem, p) - EmHeader
           /\ Space(mem, p) \in Nat /\ Space(mem, p) % 8 = 0
           /\ Space(mem, p) >= 16 + 4 * n
           /\ Align(CMSG_LEN(4 * n), 8) = Space(mem, p)
<1>1. FromUser(mem, p) \in Nat
    BY ZenonT(60), UserWord
<1>2. FromUser(mem, p) >= EmHeader /\ (FromUser(mem, p) - EmHeader) % 4 = 0
    BY ZenonT(60) DEF Passed
<1> QED BY ZenonT(60), <1>1, <1>2, Packing DEF Space

(* The buffer of the host is allocated, and filled from its start.         *)
LEMMA AllocStarts ==
    ASSUME NEW s, CountState(s), s.pc = "alloc"
    PROVE  ConvertState([pc |-> "convert", mem |-> s.mem, em |-> s.em, max |-> s.max,
                         ptr |-> s.em.control, liov |-> s.liov,
                         buf |-> [w \in 1..s.off \div 4 |-> 0], cmsg |-> FIRSTHDR(s.off)])
<1>1. /\ s.mem \in Mem /\ s.em \in MsgHdr /\ s.max \in Nat /\ s.liov \in Vector /\ s.off \in Nat
    BY DEF CountState, Counting
<1>2. PICK K, P, O : /\ Walk(s.mem, K, P, O) /\ P[1] = s.em.control
                     /\ s.ptr = P[K + 1] /\ s.off = O[K + 1]
                     /\ Ends(s.mem, s.max, P[K + 1])
    BY ZenonT(60) DEF CountState
<1>3. K \in Nat /\ P \in [Nat -> Nat] /\ O \in [Nat -> Nat] /\ O[1] = 0
    BY ZenonT(60), <1>2 DEF Walk
<1>4. O[K + 1] % 8 = 0
  <2>1. K + 1 \in 1..K + 1
      BY <1>3
  <2> QED BY ZenonT(60), <2>1, <1>2 DEF Walk
<1> DEFINE b == [w \in 1..s.off \div 4 |-> 0]
           c == FIRSTHDR(s.off)
<1>5. b \in Seq(Nat) /\ Len(b) = s.off \div 4 /\ 4 * Len(b) = O[K + 1] /\ \A w \in 1..Len(b) : b[w] = 0
  <2>1. s.off \div 4 \in Nat /\ 4 * (s.off \div 4) = s.off
      BY <1>1, <1>2, <1>4
  <2>2. b \in Seq(Nat) /\ Len(b) = s.off \div 4
      BY <2>1
  <2> QED BY <1>2, <2>1, <2>2
<1>6. c = IF 1 <= K THEN O[1] ELSE -1
  <2>1. CASE K = 0
    <3>1. s.off = 0
        BY <1>2, <1>3, <2>1
    <3> QED BY <3>1, <2>1 DEF FIRSTHDR
  <2>2. CASE K # 0
    <3>1. 1 \in 1..K
        BY <1>3, <2>2
    <3>2. Passed(s.mem, P[1]) /\ O[1] + Space(s.mem, P[1]) <= O[K + 1]
        BY ZenonT(60), <3>1, <1>2 DEF Walk
    <3>3. P[1] \in Nat
        BY <1>3
    <3>4. Space(s.mem, P[1]) \in Nat /\ Space(s.mem, P[1]) >= 16
      <4>1. PICK n : n = (FromUser(s.mem, P[1]) - EmHeader) \div 4
          OBVIOUS
      <4>2. n \in Nat /\ Space(s.mem, P[1]) \in Nat /\ Space(s.mem, P[1]) >= 16 + 4 * n
          BY ZenonT(60), <4>1, <1>1, <3>2, <3>3, PassedSpace
      <4> QED BY <4>2
    <3>5. s.off >= 16
        BY <1>1, <1>2, <1>3, <3>2, <3>4
    <3> QED BY <3>1, <3>5, <1>3 DEF FIRSTHDR
  <2> QED BY ZenonT(60), <2>1, <2>2
<1>7. c \in Int /\ s.em.control \in Nat
    BY <1>1, Sizes DEF MsgHdr, Word, FIRSTHDR
<1> HIDE DEF b, c
<1> DEFINE t == [pc |-> "convert", mem |-> s.mem, em |-> s.em, max |-> s.max,
                 ptr |-> s.em.control, liov |-> s.liov, buf |-> b, cmsg |-> c]
<1>8. t \in Converting
    BY <1>1, <1>5, <1>7 DEF Converting
<1>9. t.mem = s.mem /\ t.max = s.max /\ t.ptr = s.em.control /\ t.buf = b /\ t.cmsg = c
    BY ZenonT(60)
<1> HIDE DEF t
<1>10. At(t, K, P, O, 1)
  <2>1. 1 \in 1..K + 1
      BY <1>3
  <2> QED BY ZenonT(60), <2>1, <1>2, <1>5, <1>6, <1>9 DEF At
<1>11. ConvertState(t)
    BY ZenonT(60), <1>2, <1>5, <1>8, <1>9, <1>10 DEF ConvertState
<1> QED BY ZenonT(60), <1>11 DEF t, b, c

(* c is the buffer b after words were copied to offset o.                  *)
Written(b, c, o, words) ==
    /\ c \in Seq(Nat) /\ Len(c) = Len(b)
    /\ \A w \in 1..Len(b) : c[w] = IF w - o \div 4 \in 1..Len(words) THEN words[w - o \div 4] ELSE b[w]

(* A copy to the host's buffer.                                            *)
LEMMA CopyWords ==
    ASSUME NEW b \in Seq(Nat), NEW o \in Nat, NEW words \in Seq(Nat)
    PROVE  Written(b, ToUser(b, o, words), o, words)
<1> DEFINE W(w) == LET k == w - o \div 4 IN IF k \in DOMAIN words THEN words[k] ELSE b[w]
           c == [w \in 1..Len(b) |-> W(w)]
<1>1. Len(b) \in Nat /\ DOMAIN b = 1..Len(b) /\ DOMAIN words = 1..Len(words)
    OBVIOUS
<1>2. \A w \in 1..Len(b) : W(w) \in Nat
    BY <1>1
<1>3. \A w \in 1..Len(b) : W(w) = IF w - o \div 4 \in 1..Len(words) THEN words[w - o \div 4] ELSE b[w]
    BY ZenonT(60), <1>1
<1> HIDE DEF W
<1>4. c \in Seq(Nat) /\ Len(c) = Len(b) /\ \A w \in 1..Len(b) : c[w] = W(w)
    BY <1>1, <1>2
<1>5. ToUser(b, o, words) = c
    BY ZenonT(60), <1>1 DEF ToUser, W
<1> HIDE DEF c
<1> QED BY ZenonT(60), <1>3, <1>4, <1>5 DEF Written

(* The conversion of one message.                                          *)
Count(s) == (Header(s).len - EmHeader) \div 4
Data(s) == [k \in 1..Count(s) |-> FromUser(s.mem, s.ptr + EmHeader + 4 * (k - 1))]
Words(s) == <<CMSG_LEN(4 * Count(s)), 0, Header(s).level, Header(s).type>> \o Data(s)
Filled(s) == ToUser(s.buf, s.cmsg, Words(s))
Converted(s) == [s EXCEPT !.buf = Filled(s), !.cmsg = NXTHDR(Filled(s), @),
                          !.ptr = @ + EM_CMSG_ALIGN(Header(s).len)]

(* Whole words within a length in bytes.                                   *)
LEMMA DataFits ==
    ASSUME NEW n \in Nat, NEW a \in Nat, NEW b \in Nat, a + n <= b
    PROVE  n \div 4 \in Nat /\ a + 4 * (n \div 4) <= b
<1>1. n \div 4 \in Nat /\ 4 * (n \div 4) <= n
    OBVIOUS
<1> DEFINE k == n \div 4
<1>2. k \in Nat /\ 4 * k <= n
    BY ZenonT(60), <1>1
<1> HIDE DEF k
<1>3. a + 4 * k <= b
    BY <1>2
<1> QED BY ZenonT(60), <1>2, <1>3 DEF k

(* A header before data.                                                   *)
LEMMA Joined ==
    ASSUME NEW h \in Seq(Nat), NEW d \in Seq(Nat), Len(h) # 0
    PROVE  /\ h \o d \in Seq(Nat) /\ Len(h \o d) = Len(h) + Len(d)
           /\ \A k \in 1..Len(h) : (h \o d)[k] = h[k]
OBVIOUS

(* The words of a message at the host.                                     *)
LEMMA HostWords ==
    ASSUME NEW s, s.mem \in Mem, s.ptr \in Nat, Passed(s.mem, s.ptr), NEW n, n = Count(s)
    PROVE  /\ n \in Nat
           /\ Words(s) \in Seq(Nat) /\ Len(Words(s)) = 4 + n /\ Words(s)[1] = 16 + 4 * n
<1>1. n \in Nat
  <2>1. n = (FromUser(s.mem, s.ptr) - EmHeader) \div 4
      BY ZenonT(60) DEF Count, Header
  <2> QED BY ZenonT(60), <2>1, PassedSpace
<1>2. Header(s).level \in Nat /\ Header(s).type \in Nat
  <2>1. s.ptr + 4 \in Nat /\ s.ptr + 8 \in Nat
      OBVIOUS
  <2> QED BY <2>1, UserWord DEF Header
<1>3. \A k \in 1..n : FromUser(s.mem, s.ptr + EmHeader + 4 * (k - 1)) \in Nat
  <2> TAKE k \in 1..n
  <2>1. s.ptr + EmHeader + 4 * (k - 1) \in Nat
      BY <1>1 DEF EmHeader
  <2> QED BY ZenonT(60), <2>1, UserWord
<1> DEFINE F(k) == FromUser(s.mem, s.ptr + EmHeader + 4 * (k - 1))
           d == [k \in 1..n |-> F(k)]
           h == <<16 + 4 * n, 0, Header(s).level, Header(s).type>>
<1>4. d \in Seq(Nat) /\ Len(d) = n
  <2>1. \A k \in 1..n : F(k) \in Nat
      BY ZenonT(60), <1>3
  <2> HIDE DEF F
  <2> QED BY <1>1, <2>1
<1>5. h \in Seq(Nat) /\ Len(h) = 4 /\ h[1] = 16 + 4 * n
    BY <1>1, <1>2
<1>6. Words(s) = h \o d
    BY ZenonT(60) DEF Words, Data, CMSG_LEN
<1> HIDE DEF d, h
<1>7. h \o d \in Seq(Nat) /\ Len(h \o d) = 4 + n /\ (h \o d)[1] = 16 + 4 * n
  <2>1. 1 \in 1..Len(h) /\ Len(h) # 0
      BY <1>5
  <2>2. h \o d \in Seq(Nat) /\ Len(h \o d) = Len(h) + Len(d) /\ (h \o d)[1] = h[1]
      BY ZenonT(60), <1>4, <1>5, <2>1, Joined
  <2> QED BY ZenonT(60), <1>4, <1>5, <2>2
<1> QED BY ZenonT(60), <1>1, <1>6, <1>7

(* Offsets of the host are in whole words.                                 *)
LEMMA WholeWords ==
    ASSUME NEW o \in Nat, o % 8 = 0
    PROVE  o \div 4 \in Nat /\ 4 * (o \div 4) = o /\ o % 4 = 0
OBVIOUS

(* Multiples of 8 add up to multiples of 8.                                *)
LEMMA OffsetsAdd ==
    ASSUME NEW o \in Nat, o % 8 = 0, NEW space \in Nat, space % 8 = 0
    PROVE  o + space \in Nat /\ (o + space) % 8 = 0
OBVIOUS

(* Where the next message goes once one was written at o: behind it, if    *)
(* there is room, and the rest of the buffer is 0.                         *)
Follows(b, c, o, space) ==
    /\ NXTHDR(c, o) = IF o + space + 16 > 4 * Len(b) THEN -1 ELSE o + space
    /\ \A w \in 1..Len(b) : 4 * (w - 1) >= o + space => c[w] = 0

(* Where CMSG_NXTHDR goes from a message that was just written.            *)
LEMMA NextPlace ==
    ASSUME NEW b \in Seq(Nat), NEW c, NEW o \in Nat, o % 8 = 0, NEW words \in Seq(Nat), Written(b, c, o, words),
           NEW n \in Nat, Len(words) = 4 + n, words[1] = 16 + 4 * n,
           NEW space \in Nat, space % 8 = 0, space >= 16 + 4 * n, Align(CMSG_LEN(4 * n), 8) = space,
           o + space <= 4 * Len(b),
           \A w \in 1..Len(b) : 4 * (w - 1) >= o => b[w] = 0
    PROVE  Follows(b, c, o, space)
<1>1. c \in Seq(Nat) /\ Len(c) = Len(b) /\ Len(b) \in Nat
    BY DEF Written
<1>2. \A w \in 1..Len(b) : c[w] = IF w - o \div 4 \in 1..4 + n THEN words[w - o \div 4] ELSE b[w]
    BY ZenonT(60) DEF Written
<1>3. o \div 4 \in Nat /\ 4 * (o \div 4) = o
    BY ZenonT(60), WholeWords
<1>4. \A w \in 1..Len(b) : 4 * (w - 1) >= o + space => c[w] = 0
  <2> SUFFICES ASSUME NEW w \in 1..Len(b), 4 * (w - 1) >= o + space PROVE c[w] = 0
      OBVIOUS
  <2>1. w - o \div 4 \notin 1..4 + n /\ 4 * (w - 1) >= o
      BY <1>1, <1>3
  <2>2. b[w] = 0
      BY ZenonT(60), <2>1
  <2> QED BY ZenonT(60), <1>2, <2>1, <2>2
<1>5. HostWord(c, o) = 16 + 4 * n
  <2>1. 1 + o \div 4 \in 1..Len(b) /\ (1 + o \div 4) - o \div 4 = 1 /\ 1 \in 1..4 + n
      BY <1>1, <1>3
  <2>2. c[1 + o \div 4] = words[1]
    <3>1. c[1 + o \div 4] = IF (1 + o \div 4) - o \div 4 \in 1..4 + n THEN words[(1 + o \div 4) - o \div 4] ELSE b[1 + o \div 4]
        BY ZenonT(60), <1>2, <2>1
    <3> QED BY ZenonT(60), <3>1, <2>1
  <2> QED BY ZenonT(60), <2>2 DEF HostWord
<1>6. Align(HostWord(c, o), 8) = space
    BY ZenonT(60), <1>5 DEF CMSG_LEN
<1>7. ASSUME o + space + 16 <= 4 * Len(b)
      PROVE  Align(HostWord(c, o + space), 8) = 0
  <2>1. (o + space) \div 4 \in Nat /\ 4 * ((o + space) \div 4) = o + space
      BY ZenonT(60), OffsetsAdd, WholeWords
  <2>2. 1 + (o + space) \div 4 \in 1..Len(b) /\ 4 * ((1 + (o + space) \div 4) - 1) >= o + space
      BY <1>1, <1>7, <2>1
  <2>3. HostWord(c, o + space) = 0
      BY ZenonT(60), <1>4, <2>2 DEF HostWord
  <2>4. Align(0, 8) = 0
      BY DEF Align
  <2> QED BY ZenonT(60), <2>3, <2>4
<1>8. NXTHDR(c, o) = IF o + space + 16 > 4 * Len(b) THEN -1 ELSE o + space
  <2> DEFINE x == HostWord(c, o)
             y == Align(HostWord(c, o + space), 8)
  <2>1. NXTHDR(c, o) = IF x < 16 \/ o + space + 16 > 4 * Len(b) \/ o + space + y > 4 * Len(b) THEN -1 ELSE o + space
      BY ZenonT(60), <1>1, <1>6 DEF NXTHDR
  <2>2. x = 16 + 4 * n /\ (o + space + 16 <= 4 * Len(b) => y = 0)
      BY ZenonT(60), <1>5, <1>7
  <2> HIDE DEF x, y
  <2>3. CASE o + space + 16 > 4 * Len(b)
      BY ZenonT(60), <2>1, <2>3
  <2>4. CASE o + space + 16 <= 4 * Len(b)
      BY <1>1, <2>1, <2>2, <2>4
  <2> QED BY <1>1, <2>3, <2>4
<1> QED BY ZenonT(60), <1>4, <1>8 DEF Follows

(* The second walk passes a header: the first walk counted it.             *)
LEMMA ConvertMoves ==
    ASSUME NEW s, ConvertState(s), s.ptr <= s.max - EmHeader, s.cmsg # -1,
           ~(EM_CMSG_ALIGN(Header(s).len) + s.ptr > s.max)
    PROVE  /\ ConvertState(Converted(s))
           /\ Inside(s.cmsg, Words(s), 0, 4 * Len(Filled(s)))
           /\ s.ptr + Header(s).len <= MemSize
<1>1. /\ s.mem \in Mem /\ s.em \in MsgHdr /\ s.max \in Nat /\ s.ptr \in Nat /\ s.liov \in Vector
      /\ s.buf \in Seq(Nat) /\ s.cmsg \in Int /\ Len(s.buf) \in Nat
    BY DEF ConvertState, Converting
<1>2. PICK K, P, O, j : /\ Walk(s.mem, K, P, O) /\ Ends(s.mem, s.max, P[K + 1])
                        /\ 4 * Len(s.buf) = O[K + 1] /\ At(s, K, P, O, j)
    BY ZenonT(60) DEF ConvertState
<1>3. K \in Nat /\ P \in [Nat -> Nat] /\ O \in [Nat -> Nat] /\ j \in 1..K + 1 /\ s.ptr = P[j]
    BY ZenonT(60), <1>2 DEF Walk, At
<1>4. j \in 1..K /\ j \in Nat /\ j + 1 \in 1..K + 1 /\ j <= K
  <2>1. j # K + 1
    <3> SUFFICES ASSUME j = K + 1 PROVE FALSE
        BY ZenonT(60)
    <3>1. ~(j <= K)
        BY <1>3
    <3> QED BY ZenonT(60), <1>2, <3>1 DEF At
  <2> QED BY <1>3, <2>1
<1>5. /\ Passed(s.mem, P[j]) /\ P[j + 1] = P[j] + Step(s.mem, P[j])
      /\ O[j + 1] = O[j] + Space(s.mem, P[j]) /\ O[j] + Space(s.mem, P[j]) <= O[K + 1]
    BY ZenonT(60), <1>2, <1>4 DEF Walk
<1>6. /\ s.cmsg = O[j] /\ O[j] \in Nat /\ O[j] % 8 = 0
      /\ \A w \in 1..Len(s.buf) : 4 * (w - 1) >= O[j] => s.buf[w] = 0
  <2>1. j \in 1..K + 1
      BY ZenonT(60), <1>3
  <2>2. O[j] % 8 = 0
      BY ZenonT(60), <1>2, <2>1 DEF Walk
  <2>3. O[j] \in Nat
      BY <1>3, <1>4
  <2> QED BY ZenonT(60), <1>2, <1>4, <2>2, <2>3 DEF At
<1> DEFINE n == Count(s)
           space == Space(s.mem, P[j])
           words == Words(s)
           c == Filled(s)
<1>7. n = (FromUser(s.mem, P[j]) - EmHeader) \div 4
    BY ZenonT(60), <1>3 DEF Count, Header
<1>8. /\ n \in Nat /\ 4 * n = FromUser(s.mem, P[j]) - EmHeader /\ space \in Nat /\ space % 8 = 0
      /\ space >= 16 + 4 * n /\ Align(CMSG_LEN(4 * n), 8) = space
    BY ZenonT(60), <1>1, <1>3, <1>5, <1>7, PassedSpace
<1>9. words \in Seq(Nat) /\ Len(words) = 4 + n /\ words[1] = 16 + 4 * n
    BY ZenonT(60), <1>1, <1>3, <1>5, HostWords
<1>10. Written(s.buf, c, O[j], words)
  <2> HIDE DEF words
  <2>1. c = ToUser(s.buf, O[j], words)
      BY ZenonT(60), <1>6 DEF Filled, words
  <2> QED BY ZenonT(60), <1>1, <1>6, <1>9, <2>1, CopyWords
<1>11. c \in Seq(Nat) /\ Len(c) = Len(s.buf)
    BY ZenonT(60), <1>10 DEF Written
<1>12. O[j] + space <= 4 * Len(s.buf)
    BY ZenonT(60), <1>2, <1>5
<1> HIDE DEF n, space, words, c
<1>13. /\ NXTHDR(c, O[j]) = IF O[j] + space + 16 > 4 * Len(s.buf) THEN -1 ELSE O[j] + space
       /\ \A w \in 1..Len(s.buf) : 4 * (w - 1) >= O[j] + space => c[w] = 0
  <2> DEFINE o == O[j]
             b == s.buf
  <2>1. b \in Seq(Nat) /\ o \in Nat /\ o % 8 = 0 /\ \A w \in 1..Len(b) : 4 * (w - 1) >= o => b[w] = 0
      BY ZenonT(60), <1>1, <1>6
  <2>2. Written(b, c, o, words) /\ o + space <= 4 * Len(b)
      BY ZenonT(60), <1>10, <1>12
  <2> HIDE DEF o, b
  <2>3. Follows(b, c, o, space)
      BY ZenonT(60), <1>8, <1>9, <2>1, <2>2, NextPlace
  <2> QED BY ZenonT(60), <2>3 DEF Follows, o, b
<1>14. Inside(s.cmsg, words, 0, 4 * Len(c))
  <2>1. O[j] + 4 * (4 + n) <= 4 * Len(s.buf)
    <3>1. O[j] \in Nat /\ n \in Nat /\ space \in Nat /\ Len(s.buf) \in Nat /\ space >= 16 + 4 * n
        BY ZenonT(60), <1>1, <1>6, <1>8
    <3> QED BY <3>1, <1>12
  <2>2. 0 <= O[j]
      BY <1>6
  <2> QED BY ZenonT(60), <1>6, <1>9, <1>11, <2>1, <2>2 DEF Inside
<1>15. s.ptr + Header(s).len <= MemSize
    BY ZenonT(60), <1>3, <1>5 DEF Header, Passed
<1>16. NXTHDR(c, O[j]) = IF j + 1 <= K THEN O[j + 1] ELSE -1
  <2>1. CASE j = K
    <3>1. O[K + 1] \in Nat /\ O[K + 1] = O[j] + space
      <4>1. K + 1 \in Nat
          BY <1>3
      <4> QED BY ZenonT(60), <1>3, <1>5, <2>1, <4>1 DEF space
    <3>2. O[j] + space + 16 > 4 * Len(s.buf)
        BY <3>1, <1>2
    <3>3. ~(j + 1 <= K)
        BY <1>3, <2>1
    <3> QED BY ZenonT(60), <1>13, <3>2, <3>3
  <2>2. CASE j # K
    <3>1. j + 1 \in 1..K /\ j + 1 <= K /\ j + 1 \in Nat
        BY <1>3, <1>4, <2>2
    <3>2. Passed(s.mem, P[j + 1]) /\ O[j + 1] + Space(s.mem, P[j + 1]) <= O[K + 1]
        BY ZenonT(60), <3>1, <1>2 DEF Walk
    <3>3. P[j + 1] \in Nat /\ O[j + 1] \in Nat
        BY ZenonT(60), <3>1, <1>3
    <3>4. PICK m : m = (FromUser(s.mem, P[j + 1]) - EmHeader) \div 4
        OBVIOUS
    <3>5. m \in Nat /\ Space(s.mem, P[j + 1]) \in Nat /\ Space(s.mem, P[j + 1]) >= 16 + 4 * m
        BY ZenonT(60), <3>2, <3>3, <3>4, <1>1, PassedSpace
    <3>6. O[j + 1] + 16 <= 4 * Len(s.buf)
        BY <3>2, <3>3, <3>5, <1>1, <1>2
    <3>7. O[j + 1] = O[j] + space
        BY ZenonT(60), <1>5 DEF space
    <3>8. ~(O[j] + space + 16 > 4 * Len(s.buf))
        BY <3>3, <3>6, <3>7, <1>1
    <3> QED BY ZenonT(60), <1>13, <3>1, <3>7, <3>8
  <2> QED BY ZenonT(60), <2>1, <2>2
<1>17. P[j + 1] = s.ptr + EM_CMSG_ALIGN(Header(s).len)
    BY ZenonT(60), <1>3, <1>5 DEF Header, Step
<1> DEFINE t == Converted(s)
<1>18. /\ t = [s EXCEPT !.buf = c, !.cmsg = NXTHDR(c, O[j]), !.ptr = P[j + 1]]
    BY ZenonT(60), <1>6, <1>17 DEF Converted, c
<1>19. NXTHDR(c, O[j]) \in Int /\ P[j + 1] \in Nat
    BY <1>3, <1>4, <1>16
<1>20. s \in Converting
    BY ZenonT(60) DEF ConvertState
<1> DEFINE x == NXTHDR(c, O[j])
<1> HIDE DEF t, x
<1>21. t \in Converting /\ t.mem = s.mem /\ t.max = s.max /\ t.buf = c /\ t.cmsg = x /\ t.ptr = P[j + 1]
  <2>1. t = [s EXCEPT !.buf = c, !.cmsg = x, !.ptr = P[j + 1]] /\ x \in Int
      BY ZenonT(60), <1>18, <1>19 DEF x
  <2> QED BY ZenonT(60), <1>11, <1>19, <1>20, <2>1 DEF Converting
<1>22. At(t, K, P, O, j + 1)
  <2>1. \A w \in 1..Len(t.buf) : 4 * (w - 1) >= O[j + 1] => t.buf[w] = 0
      BY ZenonT(60), <1>5, <1>11, <1>13, <1>21 DEF space
  <2>2. x = IF j + 1 <= K THEN O[j + 1] ELSE -1
      BY ZenonT(60), <1>16 DEF x
  <2> QED BY ZenonT(60), <1>4, <1>21, <2>1, <2>2 DEF At
<1>23. ConvertState(t)
    BY ZenonT(60), <1>2, <1>11, <1>21, <1>22 DEF ConvertState
<1> QED BY ZenonT(60), <1>14, <1>15, <1>23 DEF t, words, c

-----------------------------------------------------------------------------
(* The steps of sendmsg.                                                   *)

(* A state of sendmsg is judged by its place.                              *)
LEMMA SndAt ==
    ASSUME NEW s
    PROVE  /\ s.pc \in {"idle", "aborted"} => SndInv(s)
           /\ s.pc = "iov" /\ IovState(s) => SndInv(s)
           /\ s.pc \in {"count", "alloc"} /\ CountState(s) => SndInv(s)
           /\ s.pc = "convert" /\ ConvertState(s) => SndInv(s)
           /\ s.pc = "sys" /\ SysState(s) => SndInv(s)
           /\ s.pc = "kernel" /\ KernelState(s) => SndInv(s)
BY DEF SndInv

(* The invariant holds of a sendmsg that has returned or aborted.          *)
LEMMA SndStops ==
    /\ SndInv(Aborted) /\ SndInv([pc |-> "idle"])
    /\ \A e : SndInv(Fail(e))
<1>1. Aborted.pc = "aborted" /\ [pc |-> "idle"].pc = "idle" /\ \A e : Fail(e).pc = "idle"
    BY DEF Aborted, Fail
<1> QED BY ZenonT(60), <1>1, SndAt

(* The program's words are numbers.                                        *)
LEMMA GivenCall ==
    ASSUME NEW c, c.mem \in Memory, c.em \in MsgHdr
    PROVE  c.mem \in Mem /\ c.em \in MsgHdr
<1>1. Word \subseteq Nat
    BY Sizes DEF Word
<1> QED BY ZenonT(60), <1>1 DEF Memory, Mem

(* The fields of a message header are naturals.                            *)
LEMMA HeaderNat ==
    ASSUME NEW em \in MsgHdr
    PROVE  em.iov \in Nat /\ em.iovlen \in Nat /\ em.control \in Nat /\ em.controllen \in Nat
BY Sizes DEF MsgHdr, Word

(* sendmsg is called.                                                      *)
LEMMA SendCallStep ==
    ASSUME NEW c \in Sends, SendCall(c)
    PROVE  SndInv(snd')
<1>1. c.mem \in Mem /\ c.em \in MsgHdr
    BY CallsAssumption, GivenCall
<1> DEFINE t == [pc |-> "iov", mem |-> c.mem, em |-> c.em]
<1>2. t.pc = "iov" /\ IovState(t)
    BY <1>1 DEF IovState
<1>3. snd' = t
    BY ZenonT(60) DEF SendCall
<1> HIDE DEF t
<1> QED BY ZenonT(60), <1>2, <1>3, SndAt

(* The first walk begins before the first header.                          *)
LEMMA CountStarts ==
    ASSUME NEW mem \in Mem, NEW em \in MsgHdr, NEW liov \in Vector
    PROVE  CountState([pc |-> "count", mem |-> mem, em |-> em, max |-> em.control + em.controllen,
                       ptr |-> em.control, off |-> 0, liov |-> liov])
<1> DEFINE s == [pc |-> "count", mem |-> mem, em |-> em, max |-> em.control + em.controllen,
                 ptr |-> em.control, off |-> 0, liov |-> liov]
           P == [k \in Nat |-> em.control]
           O == [k \in Nat |-> 0]
<1>1. em.control \in Nat /\ em.controllen \in Nat
    BY ZenonT(60), HeaderNat
<1>2. s \in Counting
    BY <1>1 DEF Counting
<1>3. P \in [Nat -> Nat] /\ O \in [Nat -> Nat] /\ P[1] = em.control /\ O[1] = 0
    BY <1>1
<1>4. O[1] % 8 = 0
    OBVIOUS
<1>5. s.mem = mem /\ s.em.control = em.control /\ s.ptr = em.control /\ s.off = 0 /\ s.pc # "alloc"
    BY ZenonT(60)
<1> HIDE DEF s, P, O
<1>6. Walk(mem, 0, P, O)
  <2>1. 0 \in Nat /\ 1..0 = {} /\ 1..0 + 1 = {1}
      OBVIOUS
  <2> QED BY ZenonT(60), <2>1, <1>3, <1>4 DEF Walk
<1>7. 0 + 1 = 1
    OBVIOUS
<1>8. /\ Walk(s.mem, 0, P, O) /\ P[1] = s.em.control
      /\ s.ptr = P[0 + 1] /\ s.off = O[0 + 1]
      /\ s.pc = "alloc" => Ends(s.mem, s.max, P[0 + 1])
    BY ZenonT(60), <1>3, <1>5, <1>6, <1>7
<1>9. CountState(s)
    BY ZenonT(60), <1>2, <1>8 DEF CountState
<1> QED BY ZenonT(60), <1>9 DEF s

(* sendmsg copies the program's iovec, or fails to.                        *)
LEMMA SendIovStep ==
    ASSUME SndInv(snd), SendIov
    PROVE  SndInv(snd')
<1>1. snd.mem \in Mem /\ snd.em \in MsgHdr
    BY ZenonT(60) DEF SendIov, SndInv, IovState
<1> DEFINE em == snd.em
           v == copy_iov(snd.mem, em.iov, em.iovlen)
           max == em.control + em.controllen
           a == [pc |-> "sys", mem |-> snd.mem, em |-> em, buf |-> <<>>, liov |-> v]
           b == [pc |-> "count", mem |-> snd.mem, em |-> em, max |-> max, ptr |-> em.control, off |-> 0, liov |-> v]
<1>2. \/ \E e : snd' = Fail(e)
      \/ ~IovFails(snd.mem, em.iov, em.iovlen) /\ snd' = a
      \/ ~IovFails(snd.mem, em.iov, em.iovlen) /\ snd' = b
  <2> HIDE DEF a, b
  <2>1. snd' = IF IovFails(snd.mem, em.iov, em.iovlen) THEN Fail("EFAULT")
                  ELSE IF em.control = 0
                  THEN IF em.controllen # 0 THEN Fail("EINVAL") ELSE a
                  ELSE IF max >= AddrMod THEN Fail("EFAULT")
                  ELSE IF max < EmHeader THEN Fail("EINVAL")
                  ELSE b
      BY ZenonT(60) DEF SendIov, a, b
  <2> QED BY ZenonT(60), <2>1
<1>3. CASE \E e : snd' = Fail(e)
    BY ZenonT(60), <1>3, SndStops
<1>4. ASSUME ~IovFails(snd.mem, em.iov, em.iovlen)
      PROVE  v \in Vector
    BY ZenonT(60), <1>1, <1>4, HeaderNat, VectorChecked
<1> HIDE DEF v
<1>5. CASE ~IovFails(snd.mem, em.iov, em.iovlen) /\ snd' = a
  <2>1. a.pc = "sys" /\ SysState(a)
      BY <1>1, <1>4, <1>5 DEF SysState
  <2> QED BY ZenonT(60), <1>5, <2>1, SndAt
<1>6. CASE ~IovFails(snd.mem, em.iov, em.iovlen) /\ snd' = b
  <2>1. b.pc = "count"
      BY ZenonT(60)
  <2>2. CountState(b)
      BY ZenonT(60), <1>1, <1>4, <1>6, CountStarts
  <2> HIDE DEF b
  <2> QED BY ZenonT(60), <1>6, <2>1, <2>2, SndAt
<1> QED BY ZenonT(60), <1>2, <1>3, <1>5, <1>6

(* One message is counted, or refused.                                     *)
LEMMA CountOneStep ==
    ASSUME SndInv(snd), CountOne
    PROVE  SndInv(snd')
<1>1. snd.pc = "count" /\ CountState(snd)
    BY ZenonT(60) DEF CountOne, SndInv
<1> DEFINE h == Header(snd)
           len == EM_CMSG_ALIGN(h.len)
           a == [snd EXCEPT !.pc = "alloc"]
           b == [snd EXCEPT !.off = @ + Counted(h), !.ptr = @ + len]
<1>2. \/ \E e : snd' = Fail(e)
      \/ len + snd.ptr > snd.max /\ snd' = a
      \/ ~(len < h.len) /\ check_range(snd.ptr, len) /\ Refusal(h) = "none" /\ snd' = b
  <2>1. snd' = IF ~check_range(snd.ptr, EmHeader) \/ len < h.len \/ len + snd.ptr >= AddrMod
               THEN Fail("EFAULT")
               ELSE IF len + snd.ptr > snd.max THEN a
               ELSE IF ~check_range(snd.ptr, len) THEN Fail("EFAULT")
               ELSE IF Refusal(h) # "none" THEN Fail(Refusal(h))
               ELSE b
      BY ZenonT(60) DEF CountOne
  <2> HIDE DEF a, b, h, len
  <2> QED BY ZenonT(60), <2>1
<1>3. CASE \E e : snd' = Fail(e)
    BY ZenonT(60), <1>3, SndStops
<1>4. snd \in Counting
    BY ZenonT(60), <1>1 DEF CountState
<1>5. a.pc = "alloc" /\ b.pc = "count"
    BY <1>1, <1>4 DEF Counting
<1>6. CASE len + snd.ptr > snd.max /\ snd' = a
  <2>1. CountState(a)
      BY ZenonT(60), <1>1, <1>6, CountStops
  <2> HIDE DEF a
  <2> QED BY ZenonT(60), <1>5, <1>6, <2>1, SndAt
<1>7. CASE ~(len < h.len) /\ check_range(snd.ptr, len) /\ Refusal(h) = "none" /\ snd' = b
  <2>1. CountState(b)
      BY ZenonT(60), <1>1, <1>7, CountMoves
  <2> HIDE DEF b
  <2> QED BY ZenonT(60), <1>5, <1>7, <2>1, SndAt
<1> HIDE DEF a, b, h, len
<1> QED BY ZenonT(60), <1>2, <1>3, <1>6, <1>7

(* The counting pass ends.                                                 *)
LEMMA CountEndStep ==
    ASSUME SndInv(snd), CountEnd
    PROVE  SndInv(snd')
<1>1. snd.pc = "count" /\ CountState(snd) /\ ~More(snd) /\ snd' = [snd EXCEPT !.pc = "alloc"]
    BY ZenonT(60) DEF CountEnd, SndInv
<1>2. CountState(snd')
    BY ZenonT(60), <1>1, CountStops
<1>3. snd'.pc = "alloc"
  <2>1. snd \in Counting
      BY ZenonT(60), <1>1 DEF CountState
  <2> QED BY <1>1, <2>1 DEF Counting
<1> QED BY ZenonT(60), <1>2, <1>3, SndAt

(* The host buffer of the counted size is allocated, or is not.            *)
LEMMA SendAllocStep ==
    ASSUME SndInv(snd), SendAlloc
    PROVE  SndInv(snd')
<1>1. snd.pc = "alloc" /\ CountState(snd)
    BY ZenonT(60) DEF SendAlloc, SndInv
<1> DEFINE t == [pc |-> "convert", mem |-> snd.mem, em |-> snd.em, max |-> snd.max,
                 ptr |-> snd.em.control, liov |-> snd.liov,
                 buf |-> [w \in 1..snd.off \div 4 |-> 0], cmsg |-> FIRSTHDR(snd.off)]
<1>2. ConvertState(t)
    BY ZenonT(60), <1>1, AllocStarts
<1>3. t.pc = "convert" /\ snd' = t
    BY ZenonT(60) DEF SendAlloc
<1> HIDE DEF t
<1> QED BY ZenonT(60), <1>2, <1>3, SndAt

(* The second walk ends.                                                   *)
LEMMA ConvertStops ==
    ASSUME NEW s, ConvertState(s)
    PROVE  SndInv([s EXCEPT !.pc = "sys"])
<1>1. s \in Converting
    BY ZenonT(60) DEF ConvertState
<1>2. [s EXCEPT !.pc = "sys"].pc = "sys" /\ SysState([s EXCEPT !.pc = "sys"])
    BY <1>1 DEF Converting, SysState
<1> QED BY ZenonT(60), <1>2, SndAt

(* One message is converted, inside the host buffer.                       *)
LEMMA ConvertOneStep ==
    ASSUME SndInv(snd), ConvertOne
    PROVE  SndInv(snd') /\ wild' = wild
<1>1. snd.pc = "convert" /\ ConvertState(snd) /\ snd.ptr <= snd.max - EmHeader
    BY ZenonT(60) DEF ConvertOne, SndInv, More
<1> DEFINE stop == EM_CMSG_ALIGN(Header(snd).len) + snd.ptr > snd.max
           good == /\ Inside(snd.cmsg, Words(snd), 0, 4 * Len(Filled(snd)))
                   /\ snd.ptr + Header(snd).len <= MemSize
<1>2. \/ snd.cmsg = -1 /\ snd' = Aborted /\ wild' = wild
      \/ /\ snd.cmsg # -1
         /\ snd' = IF stop THEN [snd EXCEPT !.pc = "sys"] ELSE Converted(snd)
         /\ (stop \/ good => wild' = wild)
    BY ZenonT(60) DEF ConvertOne, Access, Converted, Filled, Words, Data, Count
<1>3. CASE snd' = Aborted /\ wild' = wild
    BY ZenonT(60), <1>3, SndStops
<1>4. CASE snd.cmsg # -1 /\ stop /\ snd' = [snd EXCEPT !.pc = "sys"] /\ (stop \/ good => wild' = wild)
    BY ZenonT(60), <1>1, <1>4, ConvertStops
<1>5. CASE snd.cmsg # -1 /\ ~stop /\ snd' = Converted(snd) /\ (stop \/ good => wild' = wild)
  <2>1. ConvertState(Converted(snd)) /\ good
      BY ZenonT(60), <1>1, <1>5, ConvertMoves
  <2>2. Converted(snd).pc = "convert"
      BY ZenonT(60), <2>1 DEF ConvertState, Converting
  <2> HIDE DEF stop, good
  <2> QED BY ZenonT(60), <1>5, <2>1, <2>2, SndAt
<1> HIDE DEF stop, good
<1> QED BY ZenonT(60), <1>2, <1>3, <1>4, <1>5

(* The converting pass ends.                                               *)
LEMMA ConvertEndStep ==
    ASSUME SndInv(snd), ConvertEnd
    PROVE  SndInv(snd')
<1>1. ConvertState(snd) /\ snd' = [snd EXCEPT !.pc = "sys"]
    BY ZenonT(60) DEF ConvertEnd, SndInv
<1> QED BY ZenonT(60), <1>1, ConvertStops

(* The system call is made with the converted buffer.                      *)
LEMMA SendSysStep ==
    ASSUME SndInv(snd), SendSys
    PROVE  SndInv(snd')
<1>1. SysState(snd)
    BY ZenonT(60) DEF SendSys, SndInv
<1> DEFINE t == [pc |-> "kernel", mem |-> snd.mem, em |-> snd.em, liov |-> snd.liov,
                 buf |-> snd.buf, at |-> 0, fds |-> <<>>]
<1>2. t.pc = "kernel" /\ KernelState(t)
    BY <1>1 DEF SysState, KernelState, Sending
<1>3. (\E e : snd' = Fail(e)) \/ snd' = t
    BY ZenonT(60) DEF SendSys
<1> HIDE DEF t
<1> QED BY ZenonT(60), <1>2, <1>3, SndStops, SndAt

(* What the kernel reads of a message at o of a host's buffer.             *)
LEMMA DataNat ==
    ASSUME NEW buf \in Seq(Nat), NEW o \in Nat, o % 4 = 0, NEW n \in Nat, o + 16 + 4 * n <= 4 * Len(buf)
    PROVE  CMSG_DATA(buf, o, n) \in Seq(Nat) /\ Len(CMSG_DATA(buf, o, n)) = n
<1>1. Len(buf) \in Nat
    OBVIOUS
<1>2. \A k \in 1..n : HostWord(buf, o + 12 + 4 * k) \in Nat
  <2> TAKE k \in 1..n
  <2>1. 1 + (o + 12 + 4 * k) \div 4 \in 1..Len(buf)
      BY <1>1
  <2> QED BY <2>1 DEF HostWord
<1> DEFINE W(k) == HostWord(buf, o + 12 + 4 * k)
           d == [k \in 1..n |-> W(k)]
<1> HIDE DEF W
<1>3. d \in Seq(Nat) /\ Len(d) = n
  <2>1. \A k \in 1..n : W(k) \in Nat
      BY ZenonT(60), <1>2 DEF W
  <2> QED BY <2>1
<1>4. CMSG_DATA(buf, o, n) = d
    BY ZenonT(60) DEF CMSG_DATA, W
<1> QED BY ZenonT(60), <1>3, <1>4

(* The kernel reads one message of the host buffer.                        *)
LEMMA KernelOneStep ==
    ASSUME SndInv(snd), KernelOne
    PROVE  SndInv(snd')
<1>1. snd.pc = "kernel" /\ snd \in Sending /\ snd.at % 8 = 0 /\ HostMsgAt(snd.buf, 4 * Len(snd.buf), snd.at)
    BY ZenonT(60) DEF KernelOne, SndInv, KernelState
<1>2. snd.buf \in Seq(Nat) /\ snd.at \in Nat /\ snd.fds \in Seq(Nat) /\ Len(snd.buf) \in Nat
    BY <1>1 DEF Sending
<1> DEFINE w == HostWord(snd.buf, snd.at)
           n == (w - 16) \div 4
           d == HostData(snd.buf, snd.at)
           at == snd.at + Align(w, 8)
           fds == IF HostWord(snd.buf, snd.at + 12) # SCM_RIGHTS THEN snd.fds ELSE snd.fds \o d
<1>3. w \in 16..4 * Len(snd.buf) - snd.at
    BY ZenonT(60), <1>1 DEF HostMsgAt
<1>4. snd' = [snd EXCEPT !.at = at, !.fds = fds]
    BY ZenonT(60) DEF KernelOne, HostNext
<1>5. d = CMSG_DATA(snd.buf, snd.at, n)
    BY ZenonT(60) DEF HostData
<1> HIDE DEF w, d
<1>6. n \in Nat /\ snd.at + 16 + 4 * n <= 4 * Len(snd.buf) /\ snd.at % 4 = 0 /\ w \in Nat
  <2>1. w \in Nat /\ w >= 16 /\ snd.at + w <= 4 * Len(snd.buf)
      BY <1>2, <1>3
  <2>2. n \in Nat /\ 16 + 4 * n <= w
      BY <2>1
  <2>3. snd.at + 16 + 4 * n <= 4 * Len(snd.buf)
    <3> DEFINE a == snd.at
               b == 4 * Len(snd.buf)
    <3>1. a \in Nat /\ b \in Nat /\ a + w <= b
        BY <1>2, <2>1
    <3> HIDE DEF n, a, b
    <3>2. a + 16 + 4 * n <= b
        BY <2>1, <2>2, <3>1
    <3> QED BY ZenonT(60), <3>2 DEF a, b
  <2>4. snd.at % 4 = 0
      BY ZenonT(60), <1>1, <1>2, WholeWords
  <2> QED BY ZenonT(60), <2>1, <2>2, <2>3, <2>4
<1>7. d \in Seq(Nat)
    BY ZenonT(60), <1>2, <1>5, <1>6, DataNat
<1>8. at \in Nat /\ at % 8 = 0
    BY ZenonT(60), <1>1, <1>2, <1>6, Aligned, OffsetsAdd
<1>9. fds \in Seq(Nat)
  <2>1. snd.fds \o d \in Seq(Nat)
      BY <1>2, <1>7
  <2> QED BY ZenonT(60), <1>2, <2>1
<1> HIDE DEF at, fds
<1>10. snd'.pc = "kernel" /\ KernelState(snd')
    BY ZenonT(60), <1>1, <1>4, <1>8, <1>9 DEF Sending, KernelState
<1> QED BY ZenonT(60), <1>10, SndAt

(* The kernel has read the whole buffer.                                   *)
LEMMA KernelEndStep ==
    ASSUME SndInv(snd), socket \in Seq(Seq(Nat)), KernelEnd
    PROVE  SndInv(snd') /\ socket' \in Seq(Seq(Nat))
<1>1. snd \in Sending /\ socket' = Append(socket, snd.fds) /\ snd' = [pc |-> "idle"]
    BY ZenonT(60) DEF KernelEnd, SndInv, KernelState
<1>2. snd.fds \in Seq(Nat)
    BY <1>1 DEF Sending
<1>3. socket' \in Seq(Seq(Nat))
  <2> DEFINE S == Seq(Nat)
  <2> HIDE DEF S
  <2>1. socket \in Seq(S) /\ snd.fds \in S
      BY ZenonT(60), <1>2 DEF S
  <2>2. Append(socket, snd.fds) \in Seq(S)
      BY <2>1
  <2> QED BY ZenonT(60), <1>1, <2>2 DEF S
<1> QED BY ZenonT(60), <1>1, <1>3, SndStops

-----------------------------------------------------------------------------
(* The steps of recvmsg.                                                   *)

(* The invariant of recvmsg at each place of its code.                     *)
LEMMA RcvAt ==
    ASSUME NEW r
    PROVE  /\ r.pc \in {"idle", "aborted", "done"} => RcvInv(r)
           /\ r.pc = "iov" /\ RecvIovState(r) => RcvInv(r)
           /\ r.pc = "sys" /\ RecvSysState(r) => RcvInv(r)
           /\ r.pc = "write" /\ WriteState(r) => RcvInv(r)
BY DEF RcvInv

(* The invariant holds of a recvmsg that has returned or aborted.          *)
LEMMA RcvStops ==
    /\ RcvInv(Aborted) /\ RcvInv([pc |-> "idle"])
    /\ \A e : RcvInv(Fail(e))
<1>1. Aborted.pc = "aborted" /\ [pc |-> "idle"].pc = "idle" /\ \A e : Fail(e).pc = "idle"
    BY DEF Aborted, Fail
<1> QED BY ZenonT(60), <1>1, RcvAt

(* recvmsg is called.                                                      *)
LEMMA RecvCallStep ==
    ASSUME NEW c \in Receives, RecvCall(c)
    PROVE  RcvInv(rcv')
<1>1. c.mem \in Mem /\ c.em \in MsgHdr /\ c.creds \in BOOLEAN
    BY CallsAssumption, GivenCall
<1> DEFINE t == [pc |-> "iov", mem |-> c.mem, em |-> c.em, creds |-> c.creds]
<1>2. t.pc = "iov" /\ RecvIovState(t)
    BY ZenonT(60), <1>1 DEF RecvIovState
<1>3. rcv' = t
    BY ZenonT(60) DEF RecvCall
<1> HIDE DEF t
<1> QED BY ZenonT(60), <1>2, <1>3, RcvAt

(* recvmsg copies the program's iovec, or fails to.                        *)
LEMMA RecvIovStep ==
    ASSUME RcvInv(rcv), RecvIov
    PROVE  RcvInv(rcv')
<1>1. rcv.mem \in Mem /\ rcv.em \in MsgHdr /\ rcv.creds \in BOOLEAN
    BY ZenonT(60) DEF RecvIov, RcvInv, RecvIovState
<1> DEFINE em == rcv.em
           v == copy_iov(rcv.mem, em.iov, em.iovlen)
           len == IF em.control = 0 THEN 0 ELSE ToMalloc(em.controllen)
           t == [pc |-> "sys", mem |-> rcv.mem, em |-> em, creds |-> rcv.creds, liov |-> v, len |-> len]
<1>2. (\E e : rcv' = Fail(e)) \/ (~IovFails(rcv.mem, em.iov, em.iovlen) /\ rcv' = t)
    BY ZenonT(60) DEF RecvIov
<1>3. CASE \E e : rcv' = Fail(e)
    BY ZenonT(60), <1>3, RcvStops
<1>4. CASE ~IovFails(rcv.mem, em.iov, em.iovlen) /\ rcv' = t
  <2>1. v \in Vector
      BY ZenonT(60), <1>1, <1>4, HeaderNat, VectorChecked
  <2>2. len \in Int /\ len % 8 = 0
    <3>1. em.controllen \in Nat
        BY ZenonT(60), <1>1, HeaderNat
    <3> QED BY <3>1 DEF ToMalloc, CMSG_SPACE, Align, EmHeader
  <2> HIDE DEF v, len
  <2>3. t.pc = "sys" /\ RecvSysState(t)
      BY ZenonT(60), <1>1, <2>1, <2>2 DEF RecvSysState
  <2> HIDE DEF t
  <2> QED BY ZenonT(60), <1>4, <2>3, RcvAt
<1> QED BY ZenonT(60), <1>2, <1>3, <1>4

(* The credentials the kernel delivers: none, whole or cut off.            *)
LEMMA CredentialsFacts ==
    ASSUME NEW len \in Int, len % 8 = 0, NEW c, c = Credentials(len)
    PROVE  /\ c \in Seq(Nat)
           /\ \/ c = <<>>
              \/ Len(c) = 8 /\ c[1] = 28 /\ c[4] = SCM_CREDENTIALS
              \/ /\ len \in {16, 24} /\ 4 * Len(c) = len
                 /\ c[1] = len /\ c[4] = SCM_CREDENTIALS
<1>1. CASE len < 16
    BY <1>1 DEF Credentials, CMSG_LEN
<1>2. CASE len >= 32
    BY <1>2 DEF Credentials, CMSG_LEN, CMSG_SPACE, Align, Ucred, SOL_SOCKET, SCM_CREDENTIALS
<1>3. CASE len >= 16 /\ len < 32
  <2>1. len \in {16, 24}
      BY <1>3
  <2> DEFINE head == <<len, 0, SOL_SOCKET, SCM_CREDENTIALS>>
             n == (len - CMSG_LEN(0)) \div 4
             data == [k \in 1..n |-> 0]
  <2>2. c = head \o data
      BY <1>3 DEF Credentials, CMSG_LEN, CMSG_SPACE, Align, Ucred
  <2>3. n \in Nat /\ 4 * (4 + n) = len
      BY <2>1 DEF CMSG_LEN
  <2> HIDE DEF n
  <2>4. head \in Seq(Nat) /\ Len(head) = 4 /\ head[1] = len /\ head[4] = SCM_CREDENTIALS
      BY <2>1 DEF SOL_SOCKET, SCM_CREDENTIALS
  <2>5. data \in Seq(Nat) /\ Len(data) = n
      BY <2>3
  <2> HIDE DEF head, data
  <2>6. 1 \in 1..Len(head) /\ 4 \in 1..Len(head) /\ Len(head) # 0
      BY <2>4
  <2>7. c \in Seq(Nat) /\ Len(c) = Len(head) + Len(data) /\ c[1] = head[1] /\ c[4] = head[4]
    <3>1. /\ head \o data \in Seq(Nat) /\ Len(head \o data) = Len(head) + Len(data)
          /\ \A k \in 1..Len(head) : (head \o data)[k] = head[k]
        BY ZenonT(60), <2>4, <2>5, <2>6, Joined
    <3>2. (head \o data)[1] = head[1] /\ (head \o data)[4] = head[4]
        BY ZenonT(60), <2>6, <3>1
    <3> QED BY <2>2, <3>1, <3>2
  <2>8. 4 * Len(c) = len
      BY <2>3, <2>4, <2>5, <2>7
  <2> QED BY ZenonT(60), <2>1, <2>4, <2>7, <2>8
<1> QED BY <1>1, <1>2, <1>3

(* What the kernel delivers: write_cmsg converts one message at most.      *)
LEMMA DeliveredFacts ==
    ASSUME NEW fds \in Seq(Nat), NEW len \in Int, len % 8 = 0, NEW creds \in BOOLEAN,
           NEW d, d = Delivered(fds, len, creds)
    PROVE  /\ d.buf \in Seq(Nat) /\ d.ctrunc \in BOOLEAN
           /\ FIRSTHDR(4 * Len(d.buf)) = -1 \/ (FIRSTHDR(4 * Len(d.buf)) = 0 /\ FirstMsg(d.buf))
<1> DEFINE first == IF creds THEN Credentials(len) ELSE <<>>
           room == len - 4 * Len(first) - 16
           n == IF room <= 0 THEN 0 ELSE IF room \div 4 < Len(fds) THEN room \div 4 ELSE Len(fds)
           head == <<CMSG_LEN(4 * n), 0, SOL_SOCKET, SCM_RIGHTS>>
           pad == IF n % 2 = 1 /\ 4 * n < room THEN <<0>> ELSE <<>>
           second == head \o SubSeq(fds, 1, n) \o pad
           rest == IF n = 0 THEN <<>> ELSE second
           cut == n < Len(fds) \/ (creds /\ len < CMSG_SPACE(Ucred))
<1>1. d = [buf |-> first \o rest, ctrunc |-> cut]
    BY ZenonT(60) DEF Delivered
<1>2. d.buf = first \o rest /\ d.ctrunc \in BOOLEAN
  <2>1. cut \in BOOLEAN
      BY ZenonT(60)
  <2> HIDE DEF first, rest, cut
  <2> QED BY <1>1, <2>1
<1> HIDE DEF cut
<1>3. /\ first \in Seq(Nat)
      /\ \/ first = <<>>
         \/ Len(first) = 8 /\ first[1] = 28 /\ first[4] = SCM_CREDENTIALS
         \/ /\ len \in {16, 24} /\ 4 * Len(first) = len
            /\ first[1] = len /\ first[4] = SCM_CREDENTIALS
  <2>1. CASE creds
      BY ZenonT(60), <2>1, CredentialsFacts
  <2>2. CASE ~creds
      BY <2>2
  <2> QED BY ZenonT(60), <2>1, <2>2
<1> HIDE DEF first
<1>4. Len(first) \in Nat
    BY <1>3
<1>5. room \in Int /\ Len(fds) \in Nat /\ (4 * Len(first) = len => room <= 0)
    BY <1>4
<1> HIDE DEF room
<1>6. n \in 0..Len(fds) /\ (room <= 0 => n = 0)
    BY <1>5
<1> HIDE DEF n
<1>7. head \in Seq(Nat) /\ Len(head) = 4 /\ head[1] = 16 + 4 * n /\ head[4] = SCM_RIGHTS
    BY <1>6 DEF CMSG_LEN, SOL_SOCKET, SCM_RIGHTS
<1>8. SubSeq(fds, 1, n) \in Seq(Nat) /\ Len(SubSeq(fds, 1, n)) = n
    BY <1>5, <1>6
<1>9. pad \in Seq(Nat) /\ Len(pad) \in Nat /\ Len(pad) <= 1
    OBVIOUS
<1> HIDE DEF head, pad
<1>10. /\ second \in Seq(Nat) /\ Len(second) = 4 + n + Len(pad) /\ second[1] = 16 + 4 * n
       /\ second[4] = SCM_RIGHTS
  <2> DEFINE a == head \o SubSeq(fds, 1, n)
  <2>1. a \in Seq(Nat) /\ Len(a) = 4 + n /\ a[1] = head[1] /\ a[4] = head[4]
    <3>1. 1 \in 1..Len(head) /\ 4 \in 1..Len(head) /\ Len(head) # 0
        BY <1>7
    <3>2. /\ a \in Seq(Nat) /\ Len(a) = Len(head) + Len(SubSeq(fds, 1, n))
          /\ a[1] = head[1] /\ a[4] = head[4]
        BY ZenonT(60), <1>7, <1>8, <3>1, Joined
    <3> HIDE DEF a
    <3> QED BY ZenonT(60), <1>7, <1>8, <3>2
  <2> HIDE DEF a
  <2>2. 1 \in 1..Len(a) /\ 4 \in 1..Len(a) /\ Len(a) # 0
      BY <1>6, <2>1
  <2>3. /\ a \o pad \in Seq(Nat) /\ Len(a \o pad) = Len(a) + Len(pad)
        /\ (a \o pad)[1] = a[1] /\ (a \o pad)[4] = a[4]
      BY ZenonT(60), <1>9, <2>1, <2>2, Joined
  <2> QED BY ZenonT(60), <1>7, <2>1, <2>3 DEF a
<1> HIDE DEF second
<1>11. rest \in Seq(Nat) /\ (n = 0 => rest = <<>>) /\ (n # 0 => rest = second)
    BY <1>10
<1> HIDE DEF rest
<1>12. d.ctrunc \in BOOLEAN
    BY ZenonT(60), <1>2
<1>13. CASE Len(first) # 0
  <2>1. /\ 4 \in 1..Len(first) /\ 1 \in 1..Len(first) /\ Len(first) >= 4
        /\ first[1] >= 16 /\ first[1] <= 28 /\ first[1] <= 4 * Len(first) /\ first[1] \in Nat
        /\ first[4] = SCM_CREDENTIALS
    <3>1. CASE first = <<>>
        BY <1>13, <3>1
    <3>2. CASE Len(first) = 8 /\ first[1] = 28 /\ first[4] = SCM_CREDENTIALS
        BY <3>2
    <3>3. CASE len \in {16, 24} /\ 4 * Len(first) = len /\ first[1] = len /\ first[4] = SCM_CREDENTIALS
        BY <1>4, <3>3
    <3> QED BY ZenonT(60), <1>3, <3>1, <3>2, <3>3
  <2>2. first[1] = 28 \/ (rest = <<>> /\ 4 * Len(first) = first[1])
    <3>1. CASE 4 * Len(first) = len /\ first[1] = len
        BY ZenonT(60), <1>5, <1>6, <1>11, <3>1
    <3>2. CASE first = <<>>
        BY <1>13, <3>2
    <3> QED BY ZenonT(60), <1>3, <3>1, <3>2
  <2>3. /\ d.buf \in Seq(Nat) /\ Len(d.buf) = Len(first) + Len(rest)
        /\ d.buf[1] = first[1] /\ d.buf[4] = first[4]
    <3>1. /\ first \o rest \in Seq(Nat) /\ Len(first \o rest) = Len(first) + Len(rest)
          /\ \A k \in 1..Len(first) : (first \o rest)[k] = first[k]
        BY ZenonT(60), <1>3, <1>11, <1>13, Joined
    <3> QED BY ZenonT(60), <1>2, <2>1, <3>1
  <2>4. Len(rest) \in Nat
      BY <1>11
  <2>5. Len(d.buf) >= 4 /\ Len(d.buf) \in Nat /\ d.buf[1] >= 16 /\ d.buf[1] <= 28 /\ d.buf[1] <= 4 * Len(d.buf)
      BY <1>4, <2>1, <2>3, <2>4
  <2>6. FIRSTHDR(4 * Len(d.buf)) = 0
      BY <2>5 DEF FIRSTHDR
  <2>7. d.buf[1] = 28 \/ Align(d.buf[1], 8) + 16 > 4 * Len(d.buf)
    <3>1. CASE rest = <<>> /\ 4 * Len(first) = first[1]
      <4>1. 4 * Len(d.buf) = d.buf[1] /\ d.buf[1] \in Nat
          BY <1>4, <2>1, <2>3, <3>1
      <4>2. Align(d.buf[1], 8) \in Nat /\ d.buf[1] <= Align(d.buf[1], 8)
          BY ZenonT(60), <4>1, Aligned
      <4> QED BY <4>1, <4>2
    <3> QED BY ZenonT(60), <2>2, <2>3, <3>1
  <2>8. CMSG_LEN(Ucred) = 28
      BY DEF CMSG_LEN, Ucred
  <2>9. FirstMsg(d.buf)
      BY ZenonT(60), <2>1, <2>3, <2>5, <2>7, <2>8 DEF FirstMsg
  <2> QED BY ZenonT(60), <1>12, <2>3, <2>6, <2>9
<1>14. CASE Len(first) = 0
  <2>1. d.buf = rest
    <3>1. first = <<>>
        BY <1>3, <1>14
    <3>2. <<>> \o rest = rest
        BY <1>11
    <3> QED BY ZenonT(60), <1>2, <3>1, <3>2
  <2>2. CASE n = 0
    <3>1. FIRSTHDR(4 * Len(d.buf)) = -1
        BY <1>11, <2>1, <2>2 DEF FIRSTHDR
    <3> QED BY ZenonT(60), <1>11, <1>12, <2>1, <3>1
  <2>3. CASE n # 0
    <3>1. d.buf = second
        BY ZenonT(60), <1>11, <2>1, <2>3
    <3>2. n \in Nat /\ Len(pad) \in Nat /\ Len(pad) <= 1
      <4>1. n \in Nat
          BY <1>5, <1>6
      <4> QED BY ZenonT(60), <4>1, <1>9
    <3>3. Align(16 + 4 * n, 8) \in Nat /\ 16 + 4 * n <= Align(16 + 4 * n, 8)
      <4>1. 16 + 4 * n \in Nat
          BY <3>2
      <4> QED BY ZenonT(60), <4>1, Aligned
    <3>4. FIRSTHDR(4 * Len(d.buf)) = 0
        BY <1>10, <3>1, <3>2 DEF FIRSTHDR
    <3>5. Len(second) >= 4 /\ 16 + 4 * n >= 16 /\ 16 + 4 * n <= 4 * Len(second)
          /\ Align(16 + 4 * n, 8) + 16 > 4 * Len(second)
        BY <1>10, <3>2, <3>3
    <3>6. SCM_RIGHTS # SCM_CREDENTIALS
        BY DEF SCM_RIGHTS, SCM_CREDENTIALS
    <3>7. FirstMsg(d.buf)
        BY ZenonT(60), <1>10, <3>1, <3>5, <3>6 DEF FirstMsg
    <3> QED BY ZenonT(60), <1>11, <1>12, <2>1, <3>4, <3>7
  <2> QED BY ZenonT(60), <2>2, <2>3
<1> QED BY ZenonT(60), <1>13, <1>14

(* The system call fills the host buffer, or fails.                        *)
LEMMA RecvSysStep ==
    ASSUME RcvInv(rcv), socket \in Seq(Seq(Nat)), RecvSys
    PROVE  RcvInv(rcv') /\ socket' \in Seq(Seq(Nat))
<1>1. /\ rcv.mem \in Mem /\ rcv.em \in MsgHdr /\ rcv.creds \in BOOLEAN /\ rcv.liov \in Vector
      /\ rcv.len \in Int /\ rcv.len % 8 = 0
    BY ZenonT(60) DEF RecvSys, RcvInv, RecvSysState
<1> DEFINE d == Delivered(Head(socket), rcv.len, rcv.creds)
           c == FIRSTHDR(4 * Len(d.buf))
           t == [pc |-> "write", mem |-> rcv.mem, em |-> rcv.em, liov |-> rcv.liov,
                 fds |-> Head(socket), buf |-> d.buf, ctrunc |-> d.ctrunc, cmsg |-> c,
                 ptr |-> rcv.em.control]
<1>2. /\ socket # <<>> /\ socket' = Tail(socket)
      /\ rcv' = Aborted \/ rcv' = t
    BY ZenonT(60) DEF RecvSys
<1>3. Head(socket) \in Seq(Nat) /\ socket' \in Seq(Seq(Nat))
  <2> DEFINE S == Seq(Nat)
  <2> HIDE DEF S
  <2>1. socket \in Seq(S)
      BY ZenonT(60) DEF S
  <2>2. Head(socket) \in S /\ Tail(socket) \in Seq(S)
      BY <1>2, <2>1
  <2> QED BY ZenonT(60), <1>2, <2>2 DEF S
<1>4. d.buf \in Seq(Nat) /\ d.ctrunc \in BOOLEAN /\ (c = -1 \/ (c = 0 /\ FirstMsg(d.buf)))
    BY ZenonT(60), <1>1, <1>3, DeliveredFacts
<1>5. c \in Int
    BY <1>4
<1>6. rcv.em.control \in Nat
    BY ZenonT(60), <1>1, HeaderNat
<1> HIDE DEF d, c
<1>7. t \in Writing
    BY <1>1, <1>3, <1>4, <1>5, <1>6 DEF Writing
<1>8. t.ptr >= t.em.control
    BY <1>6
<1>9. t.pc = "write" /\ (t.cmsg = -1 \/ (t.cmsg = 0 /\ FirstMsg(t.buf)))
    BY ZenonT(60), <1>4
<1> HIDE DEF t
<1>10. WriteState(t)
    BY ZenonT(60), <1>7, <1>8, <1>9 DEF WriteState
<1> QED BY ZenonT(60), <1>2, <1>3, <1>9, <1>10, RcvStops, RcvAt

(* A copy to the program's memory.                                         *)
LEMMA CopyOut ==
    ASSUME NEW mem \in Mem, NEW a \in Nat, NEW words \in Seq(Nat)
    PROVE  ToUser(mem, a, words) \in Mem
<1> DEFINE W(w) == LET k == w - a \div 4 IN IF k \in DOMAIN words THEN words[k] ELSE mem[w]
<1>1. DOMAIN mem = 1..MemSize \div 4 /\ DOMAIN words = 1..Len(words)
    BY DEF Mem
<1>2. \A w \in 1..MemSize \div 4 : W(w) \in Nat
    BY <1>1 DEF Mem
<1> HIDE DEF W
<1>3. [w \in 1..MemSize \div 4 |-> W(w)] \in [1..MemSize \div 4 -> Nat]
    BY ZenonT(60), <1>2
<1> QED BY ZenonT(60), <1>1, <1>3 DEF ToUser, Mem, W

(* write_cmsg at the first message.                                        *)
LEMMA FirstRead ==
    ASSUME NEW buf \in Seq(Nat), FirstMsg(buf), NEW n, n = HostWord(buf, 0) - CMSG_LEN(0)
    PROVE  /\ HostWord(buf, 0) = buf[1] /\ HostWord(buf, 0 + 12) = buf[4] /\ n \in Nat /\ buf[1] = n + 16 /\ buf[4] \in Nat
           /\ CMSG_DATA(buf, 0, n \div 4) \in Seq(Nat) /\ Len(CMSG_DATA(buf, 0, n \div 4)) = n \div 4
           /\ 0 + 16 + 4 * (n \div 4) <= 4 * Len(buf)
<1>1. Len(buf) \in Nat /\ Len(buf) >= 4 /\ buf[1] >= 16 /\ buf[1] <= 4 * Len(buf)
    BY DEF FirstMsg
<1>2. buf[1] \in Nat /\ buf[4] \in Nat
    BY <1>1
<1>3. HostWord(buf, 0) = buf[1] /\ HostWord(buf, 0 + 12) = buf[4]
  <2>1. 1 + 0 \div 4 = 1 /\ 1 + (0 + 12) \div 4 = 4
      OBVIOUS
  <2> QED BY ZenonT(60), <2>1 DEF HostWord
<1>4. n \in Nat /\ buf[1] = n + 16
  <2> DEFINE b == buf[1]
  <2>1. n = b - 16 /\ b \in Nat /\ b >= 16
    <3>1. CMSG_LEN(0) = 16
        BY DEF CMSG_LEN
    <3> QED BY ZenonT(60), <1>1, <1>2, <1>3, <3>1
  <2> HIDE DEF b
  <2>2. n \in Nat /\ b = n + 16
      BY <2>1
  <2> QED BY ZenonT(60), <2>2 DEF b
<1>5. n \div 4 \in Nat /\ 0 + 16 + 4 * (n \div 4) <= 4 * Len(buf) /\ 0 \in Nat /\ 0 % 4 = 0
  <2> DEFINE l == 4 * Len(buf)
  <2>1. l \in Nat
      BY <1>1
  <2>2. n + 16 <= l
      BY ZenonT(60), <1>1, <1>4
  <2> HIDE DEF l
  <2>3. 16 \in Nat /\ 16 + n <= l /\ 0 + 16 = 16 /\ 0 \in Nat /\ 0 % 4 = 0
      BY <1>4, <2>1, <2>2
  <2>4. n \div 4 \in Nat /\ 16 + 4 * (n \div 4) <= l
      BY ZenonT(60), <1>4, <2>1, <2>3, DataFits
  <2> QED BY ZenonT(60), <2>3, <2>4 DEF l
<1>6. CMSG_DATA(buf, 0, n \div 4) \in Seq(Nat) /\ Len(CMSG_DATA(buf, 0, n \div 4)) = n \div 4
    BY ZenonT(60), <1>5, DataNat
<1> QED BY ZenonT(60), <1>2, <1>3, <1>4, <1>5, <1>6

(* write_cmsg has a message to convert: the first one.                     *)
LEMMA AtMessage ==
    ASSUME RcvInv(rcv), rcv.pc = "write", rcv.cmsg # -1
    PROVE  /\ rcv \in Writing /\ rcv.ptr >= rcv.em.control /\ rcv.cmsg = 0 /\ FirstMsg(rcv.buf)
           /\ rcv.mem \in Mem /\ rcv.em \in MsgHdr /\ rcv.buf \in Seq(Nat) /\ rcv.ptr \in Nat
           /\ rcv.em.control \in Nat /\ rcv.em.controllen \in Nat
           /\ HostWord(rcv.buf, 0) = rcv.buf[1] /\ MsgData \in Nat /\ rcv.buf[1] = MsgData + 16
           /\ MsgType = rcv.buf[4] /\ MsgType \in Nat
           /\ CMSG_DATA(rcv.buf, 0, MsgData \div 4) \in Seq(Nat)
           /\ Len(CMSG_DATA(rcv.buf, 0, MsgData \div 4)) = MsgData \div 4
           /\ 0 + 16 + 4 * (MsgData \div 4) <= 4 * Len(rcv.buf)
<1>1. rcv \in Writing /\ rcv.ptr >= rcv.em.control /\ rcv.cmsg = 0 /\ FirstMsg(rcv.buf)
    BY ZenonT(60) DEF RcvInv, WriteState
<1>2. rcv.mem \in Mem /\ rcv.em \in MsgHdr /\ rcv.buf \in Seq(Nat) /\ rcv.ptr \in Nat
    BY <1>1 DEF Writing
<1>3. rcv.em.control \in Nat /\ rcv.em.controllen \in Nat
    BY ZenonT(60), <1>2, HeaderNat
<1> DEFINE n == MsgData
<1>4. n = HostWord(rcv.buf, 0) - CMSG_LEN(0) /\ MsgType = HostWord(rcv.buf, 0 + 12)
    BY ZenonT(60), <1>1 DEF MsgData, MsgType
<1> HIDE DEF n
<1>5. /\ HostWord(rcv.buf, 0) = rcv.buf[1] /\ HostWord(rcv.buf, 0 + 12) = rcv.buf[4]
      /\ n \in Nat /\ rcv.buf[1] = n + 16 /\ rcv.buf[4] \in Nat
      /\ CMSG_DATA(rcv.buf, 0, n \div 4) \in Seq(Nat)
      /\ Len(CMSG_DATA(rcv.buf, 0, n \div 4)) = n \div 4
      /\ 0 + 16 + 4 * (n \div 4) <= 4 * Len(rcv.buf)
    BY ZenonT(60), <1>1, <1>2, <1>4, FirstRead
<1> QED BY ZenonT(60), <1>1, <1>2, <1>3, <1>4, <1>5 DEF n

(* A message is written back, and it is the last.                          *)
LEMMA WriteKeeps ==
    ASSUME RcvInv(rcv), rcv.pc = "write", rcv.cmsg # -1,
           ~(MsgType = SCM_CREDENTIALS /\ MsgData = Ucred),
           NEW words \in Seq(Nat), NEW k, Write(words, k)
    PROVE  RcvInv(rcv')
<1> DEFINE n == MsgData
<1>1. /\ rcv \in Writing /\ rcv.ptr >= rcv.em.control /\ rcv.cmsg = 0 /\ FirstMsg(rcv.buf)
      /\ rcv.mem \in Mem /\ rcv.ptr \in Nat /\ rcv.em.control \in Nat
    BY ZenonT(60), AtMessage
<1>2. HostWord(rcv.buf, 0) = rcv.buf[1] /\ n \in Nat /\ rcv.buf[1] = n + 16 /\ MsgType = rcv.buf[4]
    BY ZenonT(60), AtMessage
<1>3. Extent \in Nat /\ Extent >= rcv.ptr
  <2>1. Extent = rcv.ptr + EmHeader + n
      BY ZenonT(60) DEF Extent
  <2> HIDE DEF n
  <2> QED BY <1>1, <1>2, <2>1 DEF EmHeader
<1>4. ~(MsgType = SCM_CREDENTIALS /\ n = Ucred)
    BY ZenonT(60)
<1> HIDE DEF n
<1>5. NXTHDR(rcv.buf, 0) = -1
  <2>1. rcv.buf[1] = CMSG_LEN(Ucred) => n = Ucred
      BY <1>2 DEF CMSG_LEN, Ucred
  <2>2. Align(rcv.buf[1], 8) + 16 > 4 * Len(rcv.buf)
      BY ZenonT(60), <1>1, <1>2, <1>4, <2>1 DEF FirstMsg
  <2>3. n + 16 \in Nat
      BY <1>2
  <2>4. Align(rcv.buf[1], 8) \in Nat
      BY ZenonT(60), <1>2, <2>3, Aligned
  <2>5. 0 + Align(rcv.buf[1], 8) + 16 > 4 * Len(rcv.buf)
      BY <2>2, <2>4
  <2> QED BY ZenonT(60), <1>2, <2>5 DEF NXTHDR
<1> DEFINE m == ToUser(rcv.mem, rcv.ptr, words)
           x == Extent
<1>6. m \in Mem
    BY ZenonT(60), <1>1, CopyOut
<1>7. rcv' = [rcv EXCEPT !.mem = m, !.ptr = x, !.cmsg = -1]
    BY ZenonT(60), <1>1, <1>5 DEF Write
<1>8. x \in Nat /\ x >= rcv.em.control
    BY <1>1, <1>3
<1> HIDE DEF m, x
<1>9. rcv'.pc = "write" /\ rcv' \in Writing /\ rcv'.ptr = x /\ rcv'.em = rcv.em /\ rcv'.cmsg = -1
  <2>1. -1 \in Int
      OBVIOUS
  <2> QED BY ZenonT(60), <1>1, <1>6, <1>7, <1>8, <2>1 DEF Writing
<1>10. WriteState(rcv')
    BY ZenonT(60), <1>8, <1>9 DEF WriteState
<1> QED BY ZenonT(60), <1>9, <1>10, RcvAt

(* Descriptors are written back, inside the program's buffer.              *)
LEMMA WriteRightsStep ==
    ASSUME RcvInv(rcv), WriteRights
    PROVE  RcvInv(rcv') /\ wild' = wild
<1> DEFINE n == MsgData
           data == CMSG_DATA(rcv.buf, 0, n \div 4)
           words == MsgHead \o data
<1>1. rcv.pc = "write" /\ rcv.cmsg # -1 /\ MsgType # SCM_CREDENTIALS /\ Fits
    BY ZenonT(60) DEF WriteRights
<1>2. /\ rcv.ptr >= rcv.em.control /\ rcv.cmsg = 0 /\ rcv.ptr \in Nat
      /\ rcv.em.control \in Nat /\ rcv.em.controllen \in Nat
      /\ n \in Nat /\ MsgType \in Nat /\ data \in Seq(Nat) /\ Len(data) = n \div 4
      /\ 0 + 16 + 4 * (n \div 4) <= 4 * Len(rcv.buf)
    BY ZenonT(60), <1>1, AtMessage
<1>3. Write(words, n \div 4)
    BY ZenonT(60), <1>2 DEF WriteRights
<1>4. Extent = rcv.ptr + EmHeader + n /\ MsgHead = <<EmHeader + n, SOL_SOCKET, MsgType>>
    BY ZenonT(60) DEF Extent, MsgHead
<1> HIDE DEF n
<1>5. MsgHead \in Seq(Nat) /\ Len(MsgHead) = 3
    BY <1>2, <1>4 DEF EmHeader, SOL_SOCKET
<1>6. words \in Seq(Nat) /\ Len(words) = 3 + n \div 4
  <2> HIDE DEF data
  <2>1. Len(MsgHead) # 0
      BY <1>5
  <2>2. MsgHead \o data \in Seq(Nat) /\ Len(MsgHead \o data) = Len(MsgHead) + Len(data)
      BY ZenonT(60), <1>2, <1>5, <2>1, Joined
  <2> QED BY ZenonT(60), <1>2, <1>5, <2>2
<1> HIDE DEF words
<1>7. RcvInv(rcv')
    BY ZenonT(60), <1>1, <1>3, <1>6, WriteKeeps
<1> DEFINE a == rcv.em.control + rcv.em.controllen
           b == rcv.ptr + EmHeader
<1>8. a \in Nat /\ b \in Nat
    BY <1>2 DEF EmHeader
<1>9. a % AddrMod \in Nat /\ a % AddrMod <= a /\ Extent <= a % AddrMod
    BY ZenonT(60), <1>1, <1>8, Modulo DEF Fits, ControlMax
<1>10. rcv.ptr + 4 * (3 + n \div 4) = b + 4 * (n \div 4)
  <2>1. n \div 4 \in Nat
      BY <1>2
  <2> QED BY <1>2, <2>1 DEF EmHeader
<1>11. Extent = b + n
    BY ZenonT(60), <1>4
<1> HIDE DEF a, b
<1>12. b + n <= a
    BY <1>2, <1>8, <1>9, <1>11
<1>13. b + 4 * (n \div 4) <= a
    BY ZenonT(60), <1>2, <1>8, <1>12, DataFits
<1>14. rcv.em.control <= rcv.ptr
    BY <1>2
<1>15. Inside(rcv.ptr, words, rcv.em.control, rcv.em.control + rcv.em.controllen)
    BY ZenonT(60), <1>6, <1>10, <1>13, <1>14 DEF Inside, a
<1>16. rcv.cmsg + CMSG_LEN(4 * (n \div 4)) <= 4 * Len(rcv.buf)
  <2>1. n \div 4 \in Nat
      BY <1>2
  <2> QED BY <1>2, <2>1 DEF CMSG_LEN
<1>17. wild' = wild
    BY ZenonT(60), <1>3, <1>15, <1>16 DEF Write, Access
<1> QED BY ZenonT(60), <1>7, <1>17

(* Credentials are written back that the kernel has cut off.               *)
LEMMA WriteCredentialsStep ==
    ASSUME RcvInv(rcv), Excused, WriteCredentials
    PROVE  RcvInv(rcv') /\ Excused'
<1> DEFINE n == MsgData
           W(k, stale) == IF k <= n \div 4 THEN HostWord(rcv.buf, rcv.cmsg + 12 + 4 * k) ELSE stale
           data(stale) == [k \in 1..3 |-> W(k, stale)]
<1>1. rcv.pc = "write" /\ rcv.cmsg # -1 /\ MsgType = SCM_CREDENTIALS /\ MsgData # Ucred
    BY ZenonT(60) DEF WriteCredentials
<1>2. PICK stale \in Word : Write(MsgHead \o data(stale), 3)
    BY ZenonT(60) DEF WriteCredentials
<1>3. /\ rcv.cmsg = 0 /\ rcv.buf \in Seq(Nat) /\ FirstMsg(rcv.buf)
      /\ n \in Nat /\ MsgType \in Nat /\ rcv.buf[1] = n + 16 /\ MsgType = rcv.buf[4]
      /\ 0 + 16 + 4 * (n \div 4) <= 4 * Len(rcv.buf)
    BY ZenonT(60), <1>1, AtMessage
<1>4. n < Ucred
  <2>1. rcv.buf[1] <= CMSG_LEN(Ucred)
      BY ZenonT(60), <1>1, <1>3 DEF FirstMsg
  <2>2. n # Ucred
      BY ZenonT(60), <1>1
  <2> HIDE DEF n
  <2> QED BY <1>3, <2>1, <2>2 DEF CMSG_LEN, Ucred
<1>5. CutCredentials([type |-> MsgType, len |-> n])
    BY ZenonT(60), <1>1, <1>4 DEF CutCredentials
<1>6. Excused'
  <2>1. wild' = wild \/ wild' = wild \cup {[type |-> MsgType, len |-> n]}
      BY ZenonT(60), <1>2 DEF Write, Access
  <2> DEFINE r == [type |-> MsgType, len |-> n]
  <2> HIDE DEF r
  <2>2. CutCredentials(r) /\ (wild' = wild \/ wild' = wild \cup {r})
      BY ZenonT(60), <1>5, <2>1 DEF r
  <2>3. \A m \in wild' : CutCredentials(m)
      BY ZenonT(60), <2>2 DEF Excused
  <2> QED BY ZenonT(60), <2>3 DEF Excused, CutCredentials
<1>7. MsgHead = <<EmHeader + n, SOL_SOCKET, MsgType>>
    BY ZenonT(60) DEF MsgHead
<1> HIDE DEF n
<1>8. MsgHead \in Seq(Nat) /\ Len(MsgHead) = 3 /\ Len(MsgHead) # 0
    BY <1>3, <1>7 DEF EmHeader, SOL_SOCKET
<1>9. \A k \in 1..3 : W(k, stale) \in Nat
  <2> TAKE k \in 1..3
  <2>1. stale \in Nat
      BY Sizes DEF Word
  <2>2. ASSUME k <= n \div 4 PROVE HostWord(rcv.buf, rcv.cmsg + 12 + 4 * k) \in Nat
    <3> DEFINE q == n \div 4
               j == 1 + (0 + 12 + 4 * k) \div 4
    <3>1. q \in Nat /\ k <= q /\ 0 + 16 + 4 * q <= 4 * Len(rcv.buf) /\ Len(rcv.buf) \in Nat
        BY <1>3, <2>2
    <3> HIDE DEF q
    <3>2. j \in 1..Len(rcv.buf)
        BY <3>1
    <3> HIDE DEF j
    <3>3. rcv.buf[j] \in Nat
        BY <1>3, <3>2
    <3> QED BY ZenonT(60), <1>3, <3>3 DEF HostWord, j
  <2> QED BY ZenonT(60), <2>1, <2>2
<1> HIDE DEF W
<1>10. data(stale) \in Seq(Nat)
    BY <1>9
<1> HIDE DEF data
<1>11. MsgHead \o data(stale) \in Seq(Nat)
    BY ZenonT(60), <1>8, <1>10, Joined
<1>12. RcvInv(rcv')
    BY ZenonT(60), <1>1, <1>2, <1>11, WriteKeeps
<1> QED BY ZenonT(60), <1>6, <1>12

(* The next message does not fit the program's buffer.                     *)
LEMMA WriteNoRoomStep ==
    ASSUME RcvInv(rcv), WriteNoRoom
    PROVE  RcvInv(rcv')
<1>1. rcv.pc = "write" /\ rcv \in Writing /\ rcv.ptr >= rcv.em.control /\ rcv' = [rcv EXCEPT !.cmsg = -1]
    BY ZenonT(60) DEF WriteNoRoom, RcvInv, WriteState
<1>2. rcv'.pc = "write" /\ rcv' \in Writing /\ rcv'.ptr = rcv.ptr /\ rcv'.em = rcv.em /\ rcv'.cmsg = -1
  <2>1. -1 \in Int
      OBVIOUS
  <2> QED BY ZenonT(60), <1>1, <2>1 DEF Writing
<1>3. WriteState(rcv')
    BY ZenonT(60), <1>1, <1>2 DEF WriteState
<1> QED BY ZenonT(60), <1>2, <1>3, RcvAt

(* All that fits is written back.                                          *)
LEMMA RecvEndStep ==
    ASSUME RecvEnd
    PROVE  RcvInv(rcv')
<1>1. rcv'.pc = "done"
    BY ZenonT(60) DEF RecvEnd
<1> QED BY ZenonT(60), <1>1, RcvAt

-----------------------------------------------------------------------------
(* The invariant holds at the start and is kept by every step.             *)

(* The invariant holds before the first call.                              *)
LEMMA InvInit == Init => WithinInv
<1> SUFFICES ASSUME Init PROVE WithinInv
    OBVIOUS
<1>1. SndInv(snd) /\ RcvInv(rcv) /\ Excused
    BY ZenonT(60), SndStops, RcvStops DEF Init, Excused
<1>2. socket \in Seq(Seq(Nat))
    BY DEF Init
<1> QED BY ZenonT(60), <1>1, <1>2 DEF WithinInv

(* Every step of sendmsg keeps the invariant.                              *)
LEMMA SendKeeps ==
    ASSUME WithinInv, SendStep
    PROVE  WithinInv'
<1> USE DEF WithinInv, Excused
<1>1. ASSUME NEW c \in Sends, SendCall(c) PROVE WithinInv'
    BY ZenonT(60), <1>1, SendCallStep DEF SendCall
<1>2. CASE SendIov
    BY ZenonT(60), <1>2, SendIovStep DEF SendIov
<1>3. CASE SendNoMemory
    BY ZenonT(60), <1>3, SndStops DEF SendNoMemory
<1>4. CASE CountOne
    BY ZenonT(60), <1>4, CountOneStep DEF CountOne
<1>5. CASE CountEnd
    BY ZenonT(60), <1>5, CountEndStep DEF CountEnd
<1>6. CASE SendAlloc
    BY ZenonT(60), <1>6, SendAllocStep DEF SendAlloc
<1>7. CASE ConvertOne
    BY ZenonT(60), <1>7, ConvertOneStep DEF ConvertOne
<1>8. CASE ConvertEnd
    BY ZenonT(60), <1>8, ConvertEndStep DEF ConvertEnd
<1>9. CASE SendSys
    BY ZenonT(60), <1>9, SendSysStep DEF SendSys
<1>10. CASE KernelOne
    BY ZenonT(60), <1>10, KernelOneStep DEF KernelOne
<1>11. CASE KernelEnd
    BY ZenonT(60), <1>11, KernelEndStep DEF KernelEnd
<1>12. CASE KernelFails
    BY ZenonT(60), <1>12, SndStops DEF KernelFails
<1> QED BY ZenonT(60), <1>1, <1>2, <1>3, <1>4, <1>5, <1>6, <1>7, <1>8, <1>9, <1>10, <1>11, <1>12 DEF SendStep

(* Every step of recvmsg keeps the invariant.                              *)
LEMMA RecvKeeps ==
    ASSUME WithinInv, RecvStep
    PROVE  WithinInv'
<1> USE DEF WithinInv, Excused
<1>1. ASSUME NEW c \in Receives, RecvCall(c) PROVE WithinInv'
    BY ZenonT(60), <1>1, RecvCallStep DEF RecvCall
<1>2. CASE RecvIov
    BY ZenonT(60), <1>2, RecvIovStep DEF RecvIov
<1>3. CASE RecvNoMemory
    BY ZenonT(60), <1>3, RcvStops DEF RecvNoMemory
<1>4. CASE RecvFails
    BY ZenonT(60), <1>4, RcvStops DEF RecvFails
<1>5. CASE RecvSys
    BY ZenonT(60), <1>5, RecvSysStep DEF RecvSys
<1>6. CASE WriteAssert
    BY ZenonT(60), <1>6, RcvStops DEF WriteAssert
<1>7. CASE WriteRights
    BY ZenonT(60), <1>7, WriteRightsStep DEF WriteRights
<1>8. CASE WriteCredentials
    BY ZenonT(60), <1>8, WriteCredentialsStep DEF WriteCredentials
<1>9. CASE WriteNoRoom
    BY ZenonT(60), <1>9, WriteNoRoomStep DEF WriteNoRoom
<1>10. CASE RecvEnd
    BY ZenonT(60), <1>10, RecvEndStep DEF RecvEnd
<1>11. CASE RecvAgain
    BY ZenonT(60), <1>11, RcvStops DEF RecvAgain
<1> QED BY ZenonT(60), <1>1, <1>2, <1>3, <1>4, <1>5, <1>6, <1>7, <1>8, <1>9, <1>10, <1>11 DEF RecvStep

(* Every step keeps the invariant.                                         *)
LEMMA InvNext == WithinInv /\ [Next]_vars => WithinInv'
<1> SUFFICES ASSUME WithinInv, [Next]_vars PROVE WithinInv'
    BY ZenonT(60)
<1>1. CASE SendStep
    BY ZenonT(60), <1>1, SendKeeps
<1>2. CASE RecvStep
    BY ZenonT(60), <1>2, RecvKeeps
<1>3. CASE UNCHANGED vars
    BY ZenonT(60), <1>3 DEF vars, WithinInv, Excused
<1> QED BY ZenonT(60), <1>1, <1>2, <1>3 DEF Next

(* The invariant implies that no access leaves its range.                  *)
LEMMA InvImplies == WithinInv => AccessesWithin
<1> SUFFICES ASSUME WithinInv PROVE AccessesWithin
    BY ZenonT(60)
<1>1. ASSUME NEW v \in Vector, NEW k \in DOMAIN v
      PROVE  v[k].base > 0 /\ v[k].base + v[k].len <= MemSize
  <2>1. PICK n \in Nat : v \in [1..n -> Buffer]
      BY ZenonT(60) DEF Vector
  <2>2. v[k] \in Buffer
      BY ZenonT(60), <2>1
  <2> QED BY ZenonT(60), <2>2 DEF Buffer
<1>2. snd.pc \in {"sys", "kernel", "write"} => snd.liov \in Vector
  <2>1. snd.pc = "sys" => snd.liov \in Vector
      BY ZenonT(60) DEF WithinInv, SndInv, SysState
  <2>2. snd.pc = "kernel" => snd.liov \in Vector
      BY DEF WithinInv, SndInv, KernelState, Sending
  <2>3. snd.pc # "write"
      BY DEF WithinInv, SndInv
  <2> QED BY ZenonT(60), <2>1, <2>2, <2>3
<1>3. rcv.pc \in {"sys", "kernel", "write"} => rcv.liov \in Vector
  <2>1. rcv.pc = "sys" => rcv.liov \in Vector
      BY ZenonT(60) DEF WithinInv, RcvInv, RecvSysState
  <2>2. rcv.pc = "write" => rcv.liov \in Vector
      BY DEF WithinInv, RcvInv, WriteState, Writing
  <2>3. rcv.pc # "kernel"
      BY DEF WithinInv, RcvInv
  <2> QED BY ZenonT(60), <2>1, <2>2, <2>3
<1>4. \A m \in wild : CutCredentials(m)
    BY ZenonT(60) DEF WithinInv, Excused
<1> QED BY ZenonT(60), <1>1, <1>2, <1>3, <1>4 DEF AccessesWithin

(* sendmsg and recvmsg, copy_iov, copy_cmsg and write_cmsg: whatever a     *)
(* program has in memory, the buffers the kernel is given lie in it, the   *)
(* second walk of copy_cmsg writes within the buffer the first one sized,  *)
(* and write_cmsg reads the host's and writes the program's control buffer *)
(* within its ends, unless the kernel delivered credentials in part.       *)
THEOREM AccessesStayWithin == Spec => []AccessesWithin
<1>1. Spec => []WithinInv
    BY InvInit, InvNext, PTL DEF Spec
<1> QED BY <1>1, InvImplies, PTL

=============================================================================
