--------------------------------- MODULE X86 ---------------------------------
(***************************************************************************)
(* The processor that runs the code of CompileInstr, and the functions     *)
(* outside of that code: traps, the stack limit, the resolution of         *)
(* indirect calls and the callees, which follow the System V convention.   *)
(*                                                                         *)
(* A machine m is [pc, stk, regs, flags, mem, globals, status, ...].  The  *)
(* machine stack is the sequence stk of slots, %rsp its length, so a       *)
(* higher address is a smaller index.  A call is aligned to 16 bytes when  *)
(* the length of stk before it is even.                                    *)
(***************************************************************************)
EXTENDS CompileInstr, Bitwise

CONSTANTS
    Table,      \* table 0: sequence of indices of Callees, 0 is uninitialized
    StackAddr   \* address, in slots, of the base of the stack

CodeBase == 100000          \* address of offset 0 of the code
ReturnAddr == 90000         \* address the function returns to
ValuesAddr == 80000         \* address of the array of values of an invoker
Junk == Modulus(64) - 1     \* what an unwritten slot or a clobbered register holds

RegNames == {"rax", "rbx", "rcx", "rdx", "rbp"} \cup Range(IntRegs) \cup Range(XmmRegs)

Reg(m, r, v) == [m EXCEPT !.regs[r] = v]
Fault(m, why) == [m EXCEPT !.status = why]
Top(m) == Len(m.stk)

PushV(m, v) == [m EXCEPT !.stk = Append(@, v), !.deep = IF Len(m.stk) >= @ THEN Len(m.stk) + 1 ELSE @]
SetSlot(m, i, v) ==
    IF i \in DOMAIN m.stk THEN [m EXCEPT !.stk[i] = v] ELSE Fault(m, "stack")
Slot(m, i) == IF i \in DOMAIN m.stk THEN m.stk[i] ELSE Junk
SetLow(w, old, v) == IF w = 64 THEN v ELSE old - Wrap(32, old) + Wrap(32, v)

\* Set the length of the stack; what appears is junk.
Resize(m, n) ==
    IF n < 0 THEN Fault(m, "stack")
    ELSE [m EXCEPT !.stk = [i \in 1..n |-> Slot(m, i)], !.deep = IF n > @ THEN n ELSE @]

PopTo(m, r) == Resize(Reg(m, r, Slot(m, Top(m))), Top(m) - 1)

-----------------------------------------------------------------------------
\* Calls of what is outside the code; the return address is on the stack.
Clobber(m) ==
    [m EXCEPT !.regs = [r \in RegNames |-> IF r \in {"rbx", "rbp"} THEN @[r] ELSE Junk]]

ReturnTo(m) ==
    LET t == Slot(m, Top(m))
        n == Resize(m, Top(m) - 1)
    IN  IF t = ReturnAddr THEN Fault(n, "exit") ELSE [n EXCEPT !.pc = t - CodeBase]

CalleeArg(m, ts, i) ==
    LET p == ArgPlaces(ts)[i]
        v == CASE p.class = "int" -> m.regs[IntRegs[p.k + 1]]
               [] p.class = "xmm" -> m.regs[XmmRegs[p.k + 1]]
               [] p.class = "stack" -> Slot(m, Top(m) - 1 - p.k)
    IN  Wrap(Width(ts[i]), v)

\* A callee is any function of its arguments; this one depends on all of them.
CalleeResult(i, args) ==
    Wrap(Width(Callees[i].out),
         FoldLeft(LAMBDA s, a : Wrap(64, 3 * s + a + 1), i, args))

CallCallee(m, i) ==
    LET ft == Callees[i]
        args == [j \in DOMAIN ft.in |-> CalleeArg(m, ft.in, j)]
        done == Clobber([m EXCEPT !.calls = Append(@, [f |-> i, args |-> args]),
                                  !.calltop = Top(m)])
        r == CalleeResult(i, args)
    IN  ReturnTo(CASE ft.out = "none" -> done
                   [] ft.out = "i32" -> Reg(done, "rax", SetLow(32, m.garbage, r))
                   [] ft.out = "i64" -> Reg(done, "rax", r)
                   [] OTHER -> Reg(done, "xmm0", r))

\* wasmjit_resolve_indirect_call: bounds, an initialized entry, the same type.
ResolveEntry(index, typeidx) ==
    IF index + 1 \in DOMAIN Table /\ Table[index + 1] # 0
       /\ LET f == Callees[Table[index + 1]]
          IN  f.in = Callees[typeidx].in /\ f.out = Callees[typeidx].out
    THEN Table[index + 1] ELSE 0

ResolveCall(m) ==
    LET f == ResolveEntry(Wrap(32, m.regs["rdx"]), m.regs["rsi"] - TypeAddr(0))
    IN  IF m.regs["rdi"] # TableAddr THEN Fault(m, "wild")
        ELSE IF f = 0 THEN Fault(m, "trap")
        ELSE ReturnTo(Reg(Clobber(m), "rax", FuncInstAddr(f)))

\* A call that leaves the code; whether its callee depends on the alignment of
\* the stack is its own affair, so an unaligned call is noted and goes on.
Leaves(m, t) ==
    IF t = TrapAddr
    THEN Fault(m, IF m.regs["rdi"] = TrapStackOverflow THEN "exhausted" ELSE "trap")
    ELSE IF Slot(m, Top(m)) < ReturnAddr THEN Fault(m, "wild")
    ELSE IF t = StackTopAddr THEN ReturnTo(Reg(Clobber(m), "rax", m.limit))
    ELSE IF t = ResolveAddr THEN ResolveCall(m)
    ELSE IF t - CodeAddr(0) \in DOMAIN Callees THEN CallCallee(m, t - CodeAddr(0))
    ELSE Fault(m, "wild")

GoTo(m, t) ==
    IF t = ReturnAddr THEN Fault(m, "exit")
    ELSE IF t >= CodeBase THEN [m EXCEPT !.pc = t - CodeBase]
    ELSE Leaves([m EXCEPT !.odd = @ \cup (IF Top(m) % 2 = 0 THEN {t} ELSE {})], t)

-----------------------------------------------------------------------------
CmpFlags(w, a, b) ==
    [cf |-> Wrap(w, a) < Wrap(w, b), zf |-> Wrap(w, a) = Wrap(w, b),
     lt |-> Signed(w, a) < Signed(w, b), pf |-> FALSE]
AddrFlags(a, b) == [cf |-> a < b, zf |-> a = b, lt |-> a < b, pf |-> FALSE]
FloatFlags(a, b) ==
    IF IsNaN(64, a) \/ IsNaN(64, b) THEN [cf |-> TRUE, zf |-> TRUE, lt |-> FALSE, pf |-> TRUE]
    ELSE [AddrFlags(FloatValue(64, a), FloatValue(64, b)) EXCEPT !.lt = FALSE]

Holds(c, f) ==
    CASE c = "e" -> f.zf [] c = "ne" -> ~f.zf [] c = "b" -> f.cf [] c = "ae" -> ~f.cf
      [] c = "a" -> ~f.cf /\ ~f.zf [] c = "be" -> f.cf \/ f.zf
      [] c = "l" -> f.lt [] c = "ge" -> ~f.lt [] c = "le" -> f.lt \/ f.zf
      [] c = "g" -> ~f.lt /\ ~f.zf [] c = "p" -> f.pf [] c = "np" -> ~f.pf

Flags(m, f) == [m EXCEPT !.flags = f]

\* Conversion to an integer; the indefinite integer when there is none.
Cvtt(w, v) ==
    LET x == FloatValue(64, v)
    IN  IF IsNaN(64, v) \/ x >= SignBit(w) \/ x < -SignBit(w) THEN SignBit(w) ELSE Wrap(w, x)

MemOp(f, w, a, b) ==
    CASE f = "add" -> Wrap(w, a + b) [] f = "sub" -> Wrap(w, a - b)
      [] f = "and" -> Wrap(w, a) & Wrap(w, b) [] f = "or" -> Wrap(w, a) | Wrap(w, b)
      [] f = "xor" -> Wrap(w, a) ^^ Wrap(w, b)

Bits(w) == (w \div 8) * Byte
ShiftOp(f, w, a, k) ==
    LET n == k % Bits(w)
    IN  CASE f = "shl" -> ShiftLeft(w, a, n) [] f = "shr_u" -> ShiftRight(w, a, n)
          [] f = "shr_s" -> ShiftArith(w, a, n)

Divide(m, w, signed) ==
    LET M == Modulus(w)
        u == Wrap(w, m.regs["rdx"]) * M + Wrap(w, m.regs["rax"])
        a == IF signed /\ 2 * u >= M * M THEN u - M * M ELSE u
        b == IF signed THEN Signed(w, m.regs["rdi"]) ELSE Wrap(w, m.regs["rdi"])
        q == Quo(a, b)
        fits == IF signed THEN q >= -(M \div 2) /\ q < M \div 2 ELSE q < M
    IN  IF b = 0 \/ ~fits THEN Fault(m, "sigfpe")
        ELSE Reg(Reg(m, "rax", Wrap(w, q)), "rdx", Wrap(w, Rem(a, b)))

-----------------------------------------------------------------------------
(***************************************************************************)
(* One instruction x of a machine m whose pc is already at the next one.   *)
(***************************************************************************)
Jumps(m, x) ==
    LET there == m.pc + x.n
        pushed == PushV(m, CodeBase + m.pc)
    IN  CASE x.op = "jmp" -> [m EXCEPT !.pc = there]
          [] x.op = "jcc" -> IF Holds(x.r, m.flags) THEN [m EXCEPT !.pc = there] ELSE m
          [] x.op = "callrel" -> [pushed EXCEPT !.pc = there]
          [] x.op = "call" -> GoTo(pushed, m.regs["rax"])
          [] x.op = "jmpreg" -> GoTo(m, m.regs["rax"])
          [] x.op = "ret" -> GoTo(Resize(m, Top(m) - 1), Slot(m, Top(m)))

\* Instructions on the stack pointer and on slots of the stack.
StackOps(m, x) ==
    LET top == Top(m)
        v == m.regs[x.r]
        fp == m.regs["rbp"]
    IN  CASE x.op = "push" -> PushV(m, v)
          [] x.op = "pop" -> PopTo(m, x.r)
          [] x.op = "leasp" -> Reg(m, x.r, top)
          [] x.op = "leabp" -> Reg(m, x.r, fp + x.n)
          [] x.op = "addptr" -> Reg(m, x.r, v - x.n)
          [] x.op = "peek64" -> Reg(m, x.r, Slot(m, top))
          [] x.op = "peek32" -> Reg(m, x.r, Wrap(32, Slot(m, top)))
          [] x.op = "poke64" -> SetSlot(m, top, v)
          [] x.op = "poke32" -> SetSlot(m, top, SetLow(32, Slot(m, top), v))
          [] x.op = "ldsp64" -> Reg(m, x.r, Slot(m, top - x.n))
          [] x.op = "ldsp32" -> Reg(m, x.r, Wrap(32, Slot(m, top - x.n)))
          [] x.op = "stbp64" -> SetSlot(m, fp - x.n, v)
          [] x.op = "stsp64" -> SetSlot(m, top - x.n, v)
          [] x.op = "stbp32" -> SetSlot(m, fp - x.n, SetLow(32, Slot(m, fp - x.n), v))

FrameOps(m, x) ==
    LET top == Top(m)
        fp == m.regs["rbp"]
    IN  CASE x.op = "addsp" -> Resize(m, top - x.n)
          [] x.op = "setsp" -> Resize(m, fp + x.n)
          [] x.op = "pushsp" -> PushV(m, Slot(m, top - x.n))
          [] x.op = "pushbp" -> PushV(m, Slot(m, fp - x.n))
          [] x.op = "popbp" -> Resize(SetSlot(m, fp - x.n, Slot(m, top)), top - 1)
          [] x.op = "poke0" -> SetSlot(m, top, 0)
          [] x.op = "movsq" -> SetSlot(m, m.regs["rdi"], Slot(m, m.regs["rsi"]))
          [] x.op = "repstosq" ->
                [m EXCEPT !.stk = [i \in DOMAIN @ |->
                    IF i \in (m.regs["rdi"] - m.regs["rcx"] + 1)..m.regs["rdi"]
                    THEN m.regs["rax"] ELSE @[i]]]

\* Instructions on the structures of the runtime.
RuntimeOps(m, x) ==
    LET rax == m.regs["rax"]
        rdi == StackAddr - m.regs["rdi"]
        rdx == m.regs["rdx"]
        g == rax - GlobalAddr(0)
    IN  CASE x.op = "ldusage" -> Reg(m, "rdx", Callees[m.regs["rbx"] - FuncInstAddr(0)].usage)
          [] x.op = "ldcode" -> Reg(m, "rax", CodeAddr(rax - FuncInstAddr(0)))
          [] x.op = "addslots" -> Reg(m, "rdx", rdx + x.n)
          [] x.op = "subaddr" -> Reg(Flags(m, AddrFlags(rdi, rdx)), "rdi", rdi - rdx)
          [] x.op = "cmpaddr" -> Flags(m, AddrFlags(rax, m.regs["rdi"]))
          [] x.op = "ldglobal32" -> Reg(m, "rax", Wrap(32, m.globals[g]))
          [] x.op = "ldglobal64" -> Reg(m, "rax", m.globals[g])
          [] x.op = "stglobal32" -> [m EXCEPT !.globals[g] = SetLow(32, @, rdx)]
          [] x.op = "stglobal64" -> [m EXCEPT !.globals[g] = rdx]
          [] x.op = "ldmemsize" -> Reg(m, "rax", Len(m.mem))
          [] x.op = "ldmemdata" -> Reg(m, "rax", 0)

\* size bytes at address a, least significant first; memory starts at 1.
LoadBytes(mem, a, size) ==
    FoldRight(LAMBDA b, acc : b + acc * 2 ^ Byte, SubSeq(mem, a + 1, a + size), 0)

StoreBytes(mem, a, size, v) ==
    [i \in DOMAIN mem |->
        IF i \in (a + 1)..(a + size) THEN (v \div 2 ^ (Byte * (i - a - 1))) % 2 ^ Byte
        ELSE mem[i]]

MemoryOps(m, x) ==
    LET a == m.regs["rax"] + m.regs["rsi"] - (IF x.op = "stmem" THEN x.n - 1 ELSE 0)
        v == LoadBytes(m.mem, a, x.n)
    IN  IF a < 0 \/ a + x.n > Len(m.mem) THEN Fault(m, "memory")
        ELSE IF x.op = "stmem"
        THEN [m EXCEPT !.mem = StoreBytes(@, a, x.n, Wrap(8 * x.n, m.regs[x.r]))]
        ELSE Reg(m, "rax", IF x.r = "s" THEN Wrap(32, Signed(8 * x.n, v)) ELSE v)

IntegerOps(m, x) ==
    LET top == Top(m)
        mem == Slot(m, top)
        rax == m.regs["rax"]
        mask == Modulus(IF x.r = "rcx" THEN 32 ELSE 64) - 1
    IN  CASE x.op = "mov" -> Reg(m, x.r, x.n)
          [] x.op = "mov32" -> Reg(m, "rax", Wrap(32, m.regs[x.r]))
          [] x.op = "mov_rax_rbx" -> Reg(m, "rbx", rax)
          [] x.op = "mov_rdi_rbx" -> Reg(m, "rbx", m.regs["rdi"])
          [] x.op = "mov_rbx_rax" -> Reg(m, "rax", m.regs["rbx"])
          [] x.op = "leardi" -> Reg(m, "rax", m.regs["rdi"] + 8)
          [] x.op = "xor" -> Reg(m, x.r, 0)
          [] x.op = "add64i" -> Reg(m, x.r, Wrap(64, m.regs[x.r] + x.n))
          [] x.op = "addreg" -> Reg(m, "rax", rax + m.regs["rdx"])
          [] x.op = "and32" -> Reg(m, "rax", Wrap(32, rax) & m.regs["rcx"])
          [] x.op = "and64" -> Reg(m, "rsi", m.regs["rsi"] & m.regs["rdx"])
          [] x.op = "sbb" -> Reg(m, x.r, IF m.flags.cf THEN mask ELSE 0)
          [] x.op = "test32" -> Flags(m, CmpFlags(32, m.regs[x.r], 0))
          [] x.op = "cmp32i" -> Flags(m, CmpFlags(32, m.regs[x.r], x.n))
          [] x.op = "cmp64" -> Flags(m, CmpFlags(64, m.regs[x.r], rax))
          [] x.op = "cmp0mem32" -> Flags(m, CmpFlags(32, mem, 0))
          [] x.op = "cmpmem" -> Flags(m, CmpFlags(x.n, mem, m.regs[x.r]))
          [] x.op = "setcc" -> Reg(m, "rax", (rax \div 2 ^ Byte) * 2 ^ Byte
                                             + IF Holds(x.r, m.flags) THEN 1 ELSE 0)
          [] x.op = "cmovne" -> IF m.flags.zf THEN m ELSE Reg(m, "rax", m.regs["rdx"])
          [] x.op = "opmem" ->
                SetSlot(m, top, SetLow(x.n, mem, MemOp(x.r, x.n, mem, rax)))
          [] x.op = "mulmem" -> Reg(m, "rax", Wrap(x.n, Wrap(x.n, rax) * Wrap(x.n, mem)))
          [] x.op = "cdq" ->
                Reg(m, "rdx", IF Signed(x.n, rax) < 0 THEN Modulus(x.n) - 1 ELSE 0)
          [] x.op = "idiv" -> Divide(m, x.n, TRUE)
          [] x.op = "div" -> Divide(m, x.n, FALSE)
          [] x.op = "shiftmem" ->
                SetSlot(m, top, SetLow(x.n, mem, ShiftOp(x.r, x.n, mem, m.regs["rcx"])))
          [] x.op = "btc" -> Reg(m, "rax", Wrap(64, rax + SignBit(64)))
          [] x.op = "btcmem" -> SetSlot(m, top, Wrap(64, mem + SignBit(64)))
          [] x.op = "movsx" -> Reg(m, "rax", Wrap(64, Signed(32, mem)))

FloatOps(m, x) ==
    LET top == Top(m)
        mem == Slot(m, top)
        xmm0 == m.regs["xmm0"]
        xmm1 == m.regs["xmm1"]
    IN  CASE x.op = "movq32" -> Reg(m, "rax", Wrap(32, xmm0))
          [] x.op = "movq64" -> Reg(m, "rax", xmm0)
          [] x.op = "movq" -> Reg(m, "xmm1", m.regs["rax"])
          [] x.op = "ucomi" -> Flags(m, FloatFlags(xmm0, xmm1))
          [] x.op = "ucomimem" -> Flags(m, FloatFlags(xmm0, mem))
          [] x.op = "fopmem" -> Reg(m, "xmm0", FloatOp(x.r, xmm0, mem))
          [] x.op = "subsd" -> Reg(m, "xmm0", FloatOp("sub", xmm0, xmm1))
          [] x.op = "cvtt" -> Reg(m, "rax", Cvtt(x.n, xmm0))
          [] x.op = "cvttmem" -> Reg(m, "rax", Cvtt(x.n, mem))
          [] x.op = "cvtsi" -> Reg(m, "xmm0", Float(64, Signed(x.n, m.regs["rax"])))
          [] x.op = "cvtsimem" -> Reg(m, "xmm0", Float(64, Signed(x.n, mem)))
          [] x.op = "cvtss2sd" -> Reg(m, "xmm1", Promote(xmm0))

\* The array of values that %rbx points to; the union's unused half is junk.
ValueOps(m, x) ==
    LET v == SetLow(Width(m.types[x.n]), Junk, m.args[x.n])
    IN  IF m.regs["rbx"] # ValuesAddr THEN Fault(m, "wild")
        ELSE Reg(m, x.r, IF x.op = "ldval32" THEN Wrap(32, v) ELSE v)

\* The jump table of br_table is read from the code.
TableOps(m, x, code) ==
    LET a == m.regs["rdx"] - CodeBase + 4 * m.regs["rax"]
    IN  CASE x.op = "learip" -> Reg(m, "rdx", CodeBase + m.pc + x.n)
          [] x.op = "ldtable" -> IF a \in DOMAIN code /\ code[a].op = "data"
                                 THEN Reg(m, "rax", code[a].n) ELSE Fault(m, "table")

StackNames == {"push", "pop", "leasp", "leabp", "addptr", "peek64", "peek32", "poke64",
               "poke32", "ldsp64", "ldsp32", "stbp64", "stbp32", "stsp64"}
FrameNames == {"addsp", "setsp", "pushsp", "pushbp", "popbp", "poke0", "movsq", "repstosq"}
RuntimeNames == {"ldusage", "ldcode", "addslots", "subaddr", "cmpaddr", "ldglobal32",
                 "ldglobal64", "stglobal32", "stglobal64", "ldmemsize", "ldmemdata"}
FloatNames == {"movq32", "movq64", "movq", "ucomi", "ucomimem", "fopmem", "subsd", "cvtt",
               "cvttmem", "cvtsi", "cvtsimem", "cvtss2sd"}

ExecOne(m, code) ==
    IF m.pc \notin DOMAIN code \/ code[m.pc].op = "data" THEN Fault(m, "wild")
    ELSE LET x == code[m.pc]
             n == [m EXCEPT !.pc = @ + x.len]
         IN  CASE x.op \in {"jmp", "jcc", "callrel", "call", "jmpreg", "ret"} -> Jumps(n, x)
               [] x.op \in StackNames -> StackOps(n, x)
               [] x.op \in FrameNames -> FrameOps(n, x)
               [] x.op \in RuntimeNames -> RuntimeOps(n, x)
               [] x.op \in {"ldmem", "stmem"} -> MemoryOps(n, x)
               [] x.op \in FloatNames -> FloatOps(n, x)
               [] x.op \in {"learip", "ldtable"} -> TableOps(n, x, code)
               [] x.op \in {"ldval32", "ldval64"} -> ValueOps(n, x)
               [] x.op \in {"pause", "lfence", "std", "cld"} -> n
               [] OTHER -> IntegerOps(n, x)

\* Runs until the machine stops or reaches one of the offsets in stops.
RECURSIVE RunTo(_, _, _)
RunTo(m, code, stops) ==
    LET n == ExecOne(m, code)
    IN  IF n.status # "run" \/ n.pc \in stops THEN n ELSE RunTo(n, code, stops)

=============================================================================
