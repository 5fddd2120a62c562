---------------------------- MODULE CompileInstr ----------------------------
(***************************************************************************)
(* The machine code that compile.c emits for one WebAssembly instruction,  *)
(* for the entry and the exit of a function, for the calls of host         *)
(* functions and for the invokers.                                         *)
(*                                                                         *)
(* A machine instruction is a record [op, r, n, len]: what it does, its    *)
(* register (or condition or operation), its operand and its length in     *)
(* bytes.  Jumps are relative to the next instruction, as in the code.     *)
(* Offsets into the machine stack are in slots of 8 bytes.  The constants  *)
(* that wasmjit patches through MemoryReferences are symbolic addresses.   *)
(***************************************************************************)
EXTENDS Wasm, SequencesExt

CONSTANTS
    Callees,    \* the functions a program may call: sequence of [in, out, usage]
    Globals     \* the types of the globals: sequence of value types

X(op, r, n, len) == [op |-> op, r |-> r, n |-> n, len |-> len]

Size(xs) ==
    LET sum[i \in 0..Len(xs)] == IF i = 0 THEN 0 ELSE sum[i - 1] + xs[i].len
    IN  sum[Len(xs)]

\* Symbolic addresses, distinct from every value of a program.
FuncInstAddr(i) == 1000 + i
CodeAddr(i) == 2000 + i
TypeAddr(i) == 3000 + i
GlobalAddr(i) == 4000 + i
TrapAddr == 5001
StackTopAddr == 5002
ResolveAddr == 5003
TableAddr == 5004
MemAddr == 5005

\* The reasons a trap is emitted with.
TrapUnreachable == 1
TrapMemoryOverflow == 2
TrapStackOverflow == 3

When(c, xs) == IF c THEN xs ELSE <<>>

-----------------------------------------------------------------------------
(***************************************************************************)
(* Indirect calls and jumps.  With the Intel flag they are retpolines: the *)
(* target overwrites a return address.  The two size macros test the Intel *)
(* flag twice, so the sizes they give for the AMD flag are those of the    *)
(* plain instructions.                                                     *)
(***************************************************************************)
IndirectCallSize(flags) == IF flags = "intel" THEN 24 ELSE 2
IndirectJumpSize(flags) == IF flags = "intel" THEN 17 ELSE 2

\* call label1; pause; lfence; jmp capture; label1: mov %rax,(%rsp); ret
RetpolineThunk ==
    << X("callrel", "", 7, 5), X("pause", "", 0, 2), X("lfence", "", 0, 3),
       X("jmp", "", -7, 2), X("poke64", "rax", 0, 4), X("ret", "", 0, 1) >>

emit_indirect_call(flags) ==
    IF flags = "intel"
    THEN << X("jmp", "", 17, 2) >> \o RetpolineThunk \o << X("callrel", "", -22, 5) >>
    ELSE When(flags = "amd", << X("lfence", "", 0, 3) >>) \o << X("call", "rax", 0, 2) >>

emit_indirect_jump(flags) ==
    IF flags = "intel"
    THEN RetpolineThunk
    ELSE When(flags = "amd", << X("lfence", "", 0, 3) >>) \o << X("jmpreg", "rax", 0, 2) >>

\* Mutant of TrapSize: the retpoline is forgotten.
TrapSizePlain(flags) == 17
TrapSize(flags) == 15 + IndirectCallSize(flags)

emit_trap(flags, reason) ==
    << X("mov", "rdi", reason, 5), X("mov", "rax", TrapAddr, 10) >>
    \o emit_indirect_call(flags)

\* assert(output->n_elts - offset == TRAP_SIZE(flags))
TrapSizeAssertion(flags) == Size(emit_trap(flags, 0)) = TrapSize(flags)

-----------------------------------------------------------------------------
(***************************************************************************)
(* The static stack: a sequence of value types and labels.                 *)
(***************************************************************************)
Value(t) == [type |-> t, arity |-> 0, cont |-> 0, start |-> 0]
Label(arity, cont, start) ==
    [type |-> "label", arity |-> arity, cont |-> cont, start |-> start]

IsLabel(e) == e.type = "label"
Depth(ss) == Len(SelectSeq(ss, LAMBDA e : ~IsLabel(e)))
NLabels(ss) == Len(ss) - Depth(ss)

\* Index of the label that labelidx names, counting labels from the top; the
\* search ends at the first element when there are not so many.
LabelPos(ss, labelidx) ==
    LET at == {p \in DOMAIN ss :
                  IsLabel(ss[p]) /\ NLabels(SubSeq(ss, p, Len(ss))) = labelidx + 1}
    IN  IF at = {} THEN 1 ELSE CHOOSE p \in at : TRUE

\* What the search ends at is a label: its arity and continuation can be read.
LabelRead(ss, labelidx) == ss # <<>> /\ IsLabel(ss[LabelPos(ss, labelidx)])

\* Mutant of StackShift: the labels that the branch crosses count as slots.
StackShiftCountsLabels(ss, labelidx) ==
    LET p == LabelPos(ss, labelidx) IN Len(ss) - p - ss[p].arity

\* Machine slots to drop below the values the branch carries.
StackShift(ss, labelidx) ==
    LET p == LabelPos(ss, labelidx)
    IN  Len(ss) - (p - 1) - (labelidx + 1) - ss[p].arity

\* The final jmp is patched by FixBranches; a label's arity is at most one.
emit_br_code(ss, labelidx) ==
    LET arity == ss[LabelPos(ss, labelidx)].arity
        shift == StackShift(ss, labelidx)
    IN  When(arity > 0,
             << X("leasp", "rsi", 0, 3), X("leasp", "rdi", 0, 3) >>
             \o When(shift > 0, << X("addptr", "rdi", shift, 7) >>)
             \o << X("mov", "rcx", arity, 7), X("std", "", 0, 1),
                   X("movsq", "", 0, 2), X("cld", "", 0, 1) >>)
        \o When(shift > 0, << X("addsp", "", shift, 7) >>)
        \o << X("jmp", "", 0, 5) >>

BrCont(ss, labelidx) == ss[LabelPos(ss, labelidx)].cont

-----------------------------------------------------------------------------
(***************************************************************************)
(* Branches.  A branch instruction's code and the branch points in it:     *)
(* their offsets in the code and the index of their continuation.          *)
(***************************************************************************)
FuncExitCont == -1
Code(xs, brs) == [xs |-> xs, brs |-> brs]

CompileBr(ss, labelidx) ==
    LET xs == emit_br_code(ss, labelidx)
    IN  Code(xs, << [at |-> Size(xs) - 5, cont |-> BrCont(ss, labelidx)] >>)

After(xs, c) ==
    Code(xs \o c.xs,
         [i \in DOMAIN c.brs |-> [c.brs[i] EXCEPT !.at = @ + Size(xs)]])

Join(c, d) == LET e == After(c.xs, d) IN Code(e.xs, c.brs \o e.brs)

\* The condition is popped from ss before the branch code is emitted.
CompileBrIf(ss, labelidx) ==
    LET br == CompileBr(ss, labelidx)
    IN  After(<< X("pop", "rsi", 0, 1), X("test32", "rsi", 0, 2),
                 X("jcc", "e", Size(br.xs), 2) >>, br)

\* assert(offset < 128 && offset > 0) for the short je of br_if
BrIfAssertion(ss, labelidx) == Size(emit_br_code(ss, labelidx)) \in 1..127

CompileBrTable(ss, in, flags) ==
    LET brs == [i \in DOMAIN in.ls |-> CompileBr(ss, in.ls[i])]
        Before(i) == 4 * Len(in.ls)
                     + Size(FlattenSeq([j \in 1..(i - 1) |-> brs[j].xs]))
        index == << X("sbb", "rcx", 0, 2), X("and32", "rax", 0, 2),
                    X("learip", "rdx", 7 + IndirectJumpSize(flags), 7),
                    X("ldtable", "rax", 0, 4), X("addreg", "rax", 0, 3) >>
                 \o emit_indirect_jump(flags)
        table == [i \in DOMAIN in.ls |-> X("data", "", Before(i), 4)]
        default == Size(index) + Before(Len(in.ls) + 1)
        head == << X("pop", "rax", 0, 1), X("cmp32i", "rax", Len(in.ls), 5),
                   X("jcc", "ae", default, 6) >>
    IN  After(head \o index \o table,
              FoldLeft(Join, Code(<<>>, <<>>), Append(brs, CompileBr(ss, in.n))))


CompileReturn(n_outputs, n_frame_locals) ==
    After(When(n_outputs > 0,
               << X("leasp", "rsi", 0, 5), X("leabp", "rdi", n_frame_locals + 1, 7),
                  X("mov", "rcx", n_outputs, 7), X("std", "", 0, 1),
                  X("movsq", "", 0, 2), X("cld", "", 0, 1) >>)
          \o << X("setsp", "", n_frame_locals + n_outputs, 7) >>,
          Code(<< X("jmp", "", 0, 5) >>, << [at |-> 0, cont |-> FuncExitCont] >>))

-----------------------------------------------------------------------------
(***************************************************************************)
(* Where the System V convention passes the arguments: the first six       *)
(* integers and the first eight floats in registers, the rest on the       *)
(* stack.  The code counts them in the same way at every place.            *)
(***************************************************************************)
IntRegs == << "rdi", "rsi", "rdx", "rcx", "r8", "r9" >>
XmmRegs == << "xmm0", "xmm1", "xmm2", "xmm3", "xmm4", "xmm5", "xmm6", "xmm7" >>

IsInt(t) == t \in {"i32", "i64"}

\* The place of each input: its class and its number within the class, from 0.
ArgPlaces(in) ==
    LET Ints(i) == Cardinality({j \in 1..(i - 1) : IsInt(in[j])})
        Floats(i) == i - 1 - Ints(i)
    IN  [i \in DOMAIN in |->
            IF IsInt(in[i])
            THEN IF Ints(i) < 6 THEN [class |-> "int", k |-> Ints(i)]
                 ELSE [class |-> "stack",
                       k |-> (Ints(i) - 6) + IF Floats(i) > 8 THEN Floats(i) - 8 ELSE 0]
            ELSE IF Floats(i) < 8 THEN [class |-> "xmm", k |-> Floats(i)]
                 ELSE [class |-> "stack",
                       k |-> (Floats(i) - 8) + IF Ints(i) > 6 THEN Ints(i) - 6 ELSE 0]]

CountClass(in, c) ==
    LET places == ArgPlaces(in) IN Cardinality({i \in DOMAIN in : places[i].class = c})

-----------------------------------------------------------------------------
(***************************************************************************)
(* Calls.  csd is the number of slots below the frame pointer, frame       *)
(* locals and static stack together, which decides the 16-byte alignment.  *)
(***************************************************************************)
Padded(odd, xs) ==
    When(odd, << X("addsp", "", -1, 4) >>) \o xs \o When(odd, << X("addsp", "", 1, 4) >>)

\* call_indirect: resolve the table entry, popped into %rdx, to a FuncInst.
ResolveIndirectCall(typeidx, csd, flags) ==
    << X("mov", "rdi", TableAddr, 10), X("mov", "rsi", TypeAddr(typeidx), 10),
       X("pop", "rdx", 0, 1), X("mov", "rax", ResolveAddr, 10) >>
    \o Padded(csd % 2 = 1, emit_indirect_call(flags))

\* Mutant of CheckStack: what the call itself pushes is not counted.
CheckStackNoBurden(burden, csd, flags) ==
    << X("push", "rbx", 0, 1), X("mov_rax_rbx", "", 0, 3),
       X("mov", "rax", StackTopAddr, 10) >>
    \o Padded((csd + 1) % 2 = 1, emit_indirect_call(flags))
    \o << X("ldusage", "rdx", 0, 4), X("leasp", "rdi", 0, 3), X("subaddr", "rdi", 0, 3),
          X("jcc", "b", 5, 2), X("cmpaddr", "rax", 0, 3), X("jcc", "be", TrapSize(flags), 2) >>
    \o emit_trap(flags, TrapStackOverflow)
    \o << X("mov_rbx_rax", "", 0, 3), X("pop", "rbx", 0, 1) >>

\* Trap when the callee's stack usage and the spilled arguments do not fit.
CheckStack(burden, csd, flags) ==
    << X("push", "rbx", 0, 1), X("mov_rax_rbx", "", 0, 3),
       X("mov", "rax", StackTopAddr, 10) >>
    \o Padded((csd + 1) % 2 = 1, emit_indirect_call(flags))
    \o << X("ldusage", "rdx", 0, 4), X("leasp", "rdi", 0, 3) >>
    \o When(burden > 0, << X("addslots", "rdx", burden, 7) >>)
    \o << X("subaddr", "rdi", 0, 3), X("jcc", "b", 5, 2), X("cmpaddr", "rax", 0, 3),
          X("jcc", "be", TrapSize(flags), 2) >>
    \o emit_trap(flags, TrapStackOverflow)
    \o << X("mov_rbx_rax", "", 0, 3), X("pop", "rbx", 0, 1) >>

\* Copies the arguments from the operand stack to where the callee expects them.
LoadArgs(in, aligned) ==
    LET places == ArgPlaces(in)
        n == Len(in)
        Spilled(i) == Cardinality({j \in 1..(i - 1) : places[j].class = "stack"})
        Off(i) == n - i + Spilled(i) + aligned
    IN  [i \in 1..n |->
            CASE places[i].class = "int" ->
                    X("ldsp64", IntRegs[places[i].k + 1], Off(i), 8)
              [] places[i].class = "xmm" ->
                    X(IF in[i] = "f32" THEN "ldsp32" ELSE "ldsp64",
                      XmmRegs[places[i].k + 1], Off(i), 9)
              [] places[i].class = "stack" ->
                    X("pushsp", "", i - n + Spilled(i) + aligned, 7)]

PushResult(out) ==
    CASE out = "none" -> <<>>
      [] out = "f32" -> << X("movq32", "xmm0", 0, 4), X("push", "rax", 0, 1) >>
      [] out = "f64" -> << X("movq64", "xmm0", 0, 5), X("push", "rax", 0, 1) >>
      [] OTHER -> << X("push", "rax", 0, 1) >>


CallSequence(ft, csd, check_stack, flags) ==
    LET n_stack == CountClass(ft.in, "stack")
        aligned == (csd + n_stack) % 2
    IN  When(check_stack, CheckStack(n_stack + aligned, csd, flags))
        \o << X("ldcode", "rax", 0, 4) >>
        \o When(aligned = 1, << X("addsp", "", -1, 4) >>)
        \o LoadArgs(ft.in, aligned)
        \o emit_indirect_call(flags)
        \o << X("addsp", "", n_stack + Len(ft.in) + aligned, 7) >>
        \o PushResult(ft.out)

-----------------------------------------------------------------------------
(***************************************************************************)
(* Instructions on locals, globals, memory and numbers.  Instructions of   *)
(* 64 bits are one byte (the REX prefix) longer than those of 32.          *)
(***************************************************************************)
Rex(w) == IF w = 64 THEN 1 ELSE 0

CompileSelect ==
    << X("pop", "rax", 0, 1), X("pop", "rdx", 0, 1), X("test32", "rax", 0, 2),
       X("jcc", "ne", 4, 2), X("poke64", "rdx", 0, 4) >>

CompileTeeLocal(off) == << X("peek64", "rax", 0, 4), X("stbp64", "rax", off, 7) >>

CompileGetGlobal(i) ==
    LET w == Width(Globals[i])
    IN  << X("mov", "rax", GlobalAddr(i), 10),
           X(IF w = 32 THEN "ldglobal32" ELSE "ldglobal64", "rax", 0, 3 + Rex(w)),
           X("push", "rax", 0, 1) >>

CompileSetGlobal(i) ==
    LET w == Width(Globals[i])
    IN  << X("pop", "rdx", 0, 1), X("mov", "rax", GlobalAddr(i), 10),
           X(IF w = 32 THEN "stglobal32" ELSE "stglobal64", "rdx", 0, 3 + Rex(w)) >>

\* The address of the last byte accessed must be below the memory's size.
AccessOffset(in) == in.w + in.n - 1

CheckBounds(in, flags) ==
    When(AccessOffset(in) # 0, << X("add64i", "rsi", AccessOffset(in), 7) >>)
    \o << X("mov", "rax", MemAddr, 10), X("ldmemsize", "rax", 0, 4),
          X("cmp64", "rsi", 0, 3), X("jcc", "b", TrapSize(flags), 2) >>
    \o emit_trap(flags, TrapMemoryOverflow)
    \o << X("mov", "rax", MemAddr, 10), X("ldmemdata", "rax", 0, 4) >>

\* The offset of the last byte must fit a signed 32-bit immediate.
AccessEncodable(in) == in.w + in.n < Modulus(32) /\ AccessOffset(in) < Modulus(32) \div 2

\* The borrow of the bounds check masks the address.
CompileLoad(in, flags) ==
    << X("pop", "rsi", 0, 1) >> \o CheckBounds(in, flags)
    \o << X("sbb", "rdx", 0, 3) >>
    \o When(in.w > 1, << X("add64i", "rsi", 1 - in.w, 4) >>)
    \o << X("and64", "rsi", 0, 3),
          X("ldmem", Head(in.ls), in.w, IF in.w = 4 THEN 3 ELSE 4),
          X("push", "rax", 0, 1) >>

CompileStore(in, flags) ==
    << X("pop", "rdi", 0, 1), X("pop", "rsi", 0, 1) >> \o CheckBounds(in, flags)
    \o << X("stmem", "rdi", in.w, IF in.w \in {1, 4} THEN 4 ELSE 5) >>

CompileConst(in) ==
    << X("mov", "rax", in.n, IF in.w = 32 THEN 5 ELSE 10), X("push", "rax", 0, 1) >>

CompileEqz ==
    << X("xor", "rax", 0, 2), X("cmp0mem32", "", 0, 4), X("setcc", "e", 0, 3),
       X("poke32", "rax", 0, 3) >>

Poke(w, r) == X(IF w = 32 THEN "poke32" ELSE "poke64", r, 0, 3 + Rex(w))

Condition ==
    [eq |-> "e", ne |-> "ne", lt_s |-> "l", lt_u |-> "b", gt_s |-> "g", gt_u |-> "a",
     le_s |-> "le", le_u |-> "be", ge_s |-> "ge", ge_u |-> "ae"]

CompileCompare(in) ==
    << X("pop", "rdi", 0, 1), X("xor", "rax", 0, 2 + Rex(in.w)),
       X("cmpmem", "rdi", in.w, 3 + Rex(in.w)), X("setcc", Condition[in.f], 0, 3),
       Poke(in.w, "rax") >>

\* The second operand is in %xmm0, so the opposite condition is tested.
CompileFloatCompare(in) ==
    << X("peek64", "xmm0", 0, 5), X("addsp", "", 1, 4), X("xor", "rax", 0, 2) >>
    \o (CASE in.f = "eq" -> << X("xor", "rdx", 0, 2), X("ucomimem", "xmm0", 0, 5),
                               X("setcc", "np", 0, 3), X("cmovne", "", 0, 3) >>
          [] in.f = "ne" -> << X("mov", "rdx", 1, 5), X("ucomimem", "xmm0", 0, 5),
                               X("setcc", "p", 0, 3), X("cmovne", "", 0, 3) >>
          [] in.f = "lt" -> << X("ucomimem", "xmm0", 0, 5), X("setcc", "a", 0, 3) >>)
    \o << X("poke64", "rax", 0, 4) >>

CompileArith(in) ==
    << X("pop", "rax", 0, 1) >>
    \o IF in.f = "mul" THEN << X("mulmem", "", in.w, 3 + Rex(in.w)), Poke(in.w, "rax") >>
       ELSE << X("opmem", in.f, in.w, 3 + Rex(in.w)) >>

\* The dividend is extended into %rdx by its sign, or with zeros.
CompileDivide(in) ==
    << X("pop", "rdi", 0, 1),
       X(IF in.w = 32 THEN "peek32" ELSE "peek64", "rax", 0, 3 + Rex(in.w)) >>
    \o (IF in.f \in {"div_s", "rem_s"}
        THEN << X("cdq", "", in.w, 1 + Rex(in.w)), X("idiv", "rdi", in.w, 2 + Rex(in.w)) >>
        ELSE << X("xor", "rdx", 0, 2 + Rex(in.w)), X("div", "rdi", in.w, 2 + Rex(in.w)) >>)
    \o << Poke(in.w, IF in.f \in {"rem_s", "rem_u"} THEN "rdx" ELSE "rax") >>

CompileShift(in) ==
    << X("pop", "rcx", 0, 1), X("shiftmem", in.f, in.w, 3 + Rex(in.w)) >>

CompileFloatArith(in) ==
    << X("peek64", "xmm0", 0, 5), X("addsp", "", 1, 4), X("fopmem", in.f, 0, 5),
       X("poke64", "xmm0", 0, 5) >>

\* 2^63 as a double, where the conversion to unsigned changes over.
TwoTo63 == Float(64, SignBit(64))

CompileConvert(in) ==
    CASE in.f = "i32_wrap_i64" ->
            << X("mov", "rax", Modulus(32) - 1, 5), X("opmem", "and", 64, 4) >>
      [] in.f \in {"i32_trunc_s_f64", "i32_trunc_u_f64"} ->
            << X("cvttmem", "rax", 32, 5), X("poke64", "rax", 0, 4) >>
      [] in.f = "i64_extend_s_i32" -> << X("movsx", "rax", 0, 4), X("poke64", "rax", 0, 4) >>
      [] in.f = "i64_trunc_s_f64" ->
            << X("cvttmem", "rax", 64, 6), X("poke64", "rax", 0, 4) >>
      [] in.f = "i64_trunc_u_f64" ->
            << X("mov", "rax", TwoTo63, 10), X("movq", "xmm1", 0, 5),
               X("peek64", "xmm0", 0, 5), X("ucomi", "xmm0", 0, 4), X("jcc", "ae", 7, 2),
               X("cvtt", "xmm0", 64, 5), X("jmp", "", 14, 2), X("subsd", "xmm0", 0, 4),
               X("cvtt", "xmm0", 64, 5), X("btc", "rax", 0, 5), X("poke64", "rax", 0, 4) >>
      [] in.f = "f64_convert_s_i32" ->
            << X("cvtsimem", "xmm0", 32, 5), X("poke64", "xmm0", 0, 5) >>
      [] in.f = "f64_convert_u_i32" ->
            << X("peek32", "rax", 0, 3), X("cvtsi", "xmm0", 64, 5), X("poke64", "xmm0", 0, 5) >>
      [] in.f = "f64_convert_s_i64" ->
            << X("cvtsimem", "xmm0", 64, 6), X("poke64", "xmm0", 0, 5) >>
      [] in.f = "f64_promote_f32" ->
            << X("peek32", "xmm0", 0, 5), X("cvtss2sd", "xmm1", 0, 4), X("poke64", "xmm1", 0, 5) >>
      [] OTHER -> <<>>   \* i64_extend_u_i32 and the reinterpretations

ConvertTo(f) ==
    CASE f \in {"i32_wrap_i64", "i32_trunc_s_f64", "i32_trunc_u_f64"} -> "i32"
      [] f \in {"i64_extend_s_i32", "i64_extend_u_i32", "i64_trunc_s_f64",
                "i64_trunc_u_f64", "i64_reinterpret_f64"} -> "i64"
      [] OTHER -> "f64"

ConvertFrom(f) ==
    CASE f \in {"i64_extend_s_i32", "i64_extend_u_i32", "f64_convert_s_i32",
                "f64_convert_u_i32"} -> "i32"
      [] f \in {"i32_wrap_i64", "f64_convert_s_i64", "f64_reinterpret_i64"} -> "i64"
      [] f = "f64_promote_f32" -> "f32"
      [] OTHER -> "f64"

-----------------------------------------------------------------------------
(***************************************************************************)
(* A function fn is [in, out, locals, check, flags]: its type, the types   *)
(* of its declared locals, whether its calls check the stack, and the      *)
(* retpoline flags.                                                        *)
(***************************************************************************)
NOutputs(fn) == IF fn.out = "none" THEN 0 ELSE 1
LocalType(fn, i) == (fn.in \o fn.locals)[i]

RegisterArgs(in) == {i \in DOMAIN in : ArgPlaces(in)[i].class # "stack"}
FrameLocals(fn) == Cardinality(RegisterArgs(fn.in)) + Len(fn.locals)

\* locals_md[i].fp_offset in slots: register arguments and locals below %rbp,
\* stack arguments above the return address.
LocalOffset(fn, i) ==
    LET regs == RegisterArgs(fn.in)
        n == Len(fn.in)
    IN  IF i > n THEN -(1 + Cardinality(regs) + (i - n - 1))
        ELSE IF i \in regs THEN -(1 + Cardinality({j \in regs : j < i}))
        ELSE ArgPlaces(fn.in)[i].k + 2

\* Mutant of StoreArg: an i32 is stored with the upper half of its register.
StoreArgWhole(fn, i) ==
    LET k == ArgPlaces(fn.in)[i].k + 1
        off == LocalOffset(fn, i)
    IN  CASE IsInt(fn.in[i]) -> << X("stbp64", IntRegs[k], off, 4) >>
          [] fn.in[i] = "f32" -> << X("stbp32", XmmRegs[k], off, 5) >>
          [] fn.in[i] = "f64" -> << X("stbp64", XmmRegs[k], off, 5) >>

StoreArg(fn, i) ==
    LET k == ArgPlaces(fn.in)[i].k + 1
        off == LocalOffset(fn, i)
    IN  CASE fn.in[i] = "i64" -> << X("stbp64", IntRegs[k], off, 4) >>
          [] fn.in[i] = "i32" -> << X("mov32", IntRegs[k], 0, IF k > 4 THEN 3 ELSE 2),
                                    X("stbp64", "rax", off, 4) >>
          [] fn.in[i] = "f32" -> << X("stbp32", XmmRegs[k], off, 5) >>
          [] fn.in[i] = "f64" -> << X("stbp64", XmmRegs[k], off, 5) >>

ClearLocals(n) ==
    CASE n = 0 -> <<>>
      [] n = 1 -> << X("poke0", "", 0, 8) >>
      [] OTHER -> << X("leasp", "rdi", 0, 3), X("xor", "rax", 0, 3), X("mov", "rcx", n, 7),
                     X("repstosq", "", 0, 3) >>

Prologue(fn) ==
    << X("push", "rbp", 0, 1), X("leasp", "rbp", 0, 3) >>
    \o When(FrameLocals(fn) > 0, << X("addsp", "", -FrameLocals(fn), 7) >>)
    \o FlattenSeq([i \in DOMAIN fn.in |->
                       When(i \in RegisterArgs(fn.in), StoreArg(fn, i))])
    \o ClearLocals(Len(fn.locals))

\* For an f32 result the second instruction is lea 8(%rdi), %rax: the result stays
\* on the stack, %rbp is restored from a local and the saved %rbp is returned to.
Epilogue(fn) ==
    (CASE fn.out = "none" -> <<>>
       [] fn.out = "f32" -> << X("ldsp32", "xmm0", 0, 5), X("leardi", "rax", 0, 4) >>
       [] fn.out = "f64" -> << X("ldsp64", "xmm0", 0, 5), X("addsp", "", 1, 4) >>
       [] OTHER -> << X("pop", "rax", 0, 1) >>)
    \o When(FrameLocals(fn) > 0, << X("addsp", "", FrameLocals(fn), 7) >>)
    \o << X("pop", "rbp", 0, 1), X("ret", "", 0, 1) >>

-----------------------------------------------------------------------------
(***************************************************************************)
(* wasmjit_compile_instruction: the code, its branch points, the static    *)
(* stack afterwards and whether the assertions on the way hold.  Reading   *)
(* an element that the static stack does not have, or the label data of an *)
(* element that is no label, is undefined; it counts as a failed           *)
(* assertion.                                                              *)
(***************************************************************************)
Peek(ss) == IF ss = <<>> THEN "empty" ELSE ss[Len(ss)].type
Pop(ss, k) == SubSeq(ss, 1, Len(ss) - k)
Push(ss, t) == IF t = "none" THEN ss ELSE Append(ss, Value(t))

Result(code, ss, ok) == [xs |-> code.xs, brs |-> code.brs, ss |-> ss, ok |-> ok]
Straight(xs, ss, ok) == Result(Code(xs, <<>>), ss, ok)

\* The assertions on the types of the operands.
Operands(ss, ts) ==
    \A i \in DOMAIN ts : Peek(Pop(ss, Len(ts) - i)) = ts[i]

CompileCall(ss, in, fn) ==
    LET indirect == in.op = "call_indirect"
        ft == Callees[in.n]
        below == IF indirect THEN Pop(ss, 1) ELSE ss
        csd == FrameLocals(fn) + Depth(below)
    IN  Straight((IF indirect THEN ResolveIndirectCall(in.n, csd, fn.flags)
                  ELSE << X("mov", "rax", FuncInstAddr(in.n), 10) >>)
                 \o CallSequence(ft, csd, fn.check, fn.flags),
                 Push(Pop(below, Len(ft.in)), ft.out),
                 /\ indirect => Peek(ss) = "i32"
                 /\ fn.check => TrapSizeAssertion(fn.flags)
                 /\ Operands(below, ft.in))

\* Branches to the labels ls, with assert(sstack->n_elts >= j + (olabelidx + 1) + arity).
Branching(ls, ss, code, ok) ==
    IF \A l \in ls : LabelRead(ss, l)
    THEN Result(code, ss, ok /\ \A l \in ls : StackShift(ss, l) >= 0)
    ELSE Straight(<<>>, ss, FALSE)

CompileControl(ss, in, fn) ==
    CASE in.op = "unreachable" ->
            Straight(emit_trap(fn.flags, TrapUnreachable), ss, TrapSizeAssertion(fn.flags))
      [] in.op = "nop" -> Straight(<<>>, ss, TRUE)
      [] in.op = "br" -> Branching({in.n}, ss, CompileBr(ss, in.n), TRUE)
      [] in.op = "br_if" ->
            LET rest == Pop(ss, 1)
            IN  Branching({in.n}, rest, CompileBrIf(rest, in.n),
                          Peek(ss) = "i32" /\ BrIfAssertion(rest, in.n))
      [] in.op = "br_table" ->
            LET rest == Pop(ss, 1)
            IN  Branching(Range(in.ls) \cup {in.n}, rest, CompileBrTable(rest, in, fn.flags),
                          ss # <<>>)
      [] in.op = "return" -> Result(CompileReturn(NOutputs(fn), FrameLocals(fn)), ss, TRUE)

CompileVariable(ss, in, fn) ==
    CASE in.op = "drop" -> Straight(<< X("addsp", "", 1, 4) >>, Pop(ss, 1), ss # <<>>)
      [] in.op = "select" -> Straight(CompileSelect, Pop(ss, 2), Len(ss) >= 2 /\ Peek(ss) = "i32")
      [] in.op = "get_local" ->
            Straight(<< X("pushbp", "", LocalOffset(fn, in.n), 6) >>,
                     Push(ss, LocalType(fn, in.n)), TRUE)
      [] in.op = "set_local" ->
            Straight(<< X("popbp", "", LocalOffset(fn, in.n), 6) >>, Pop(ss, 1),
                     Peek(ss) = LocalType(fn, in.n))
      [] in.op = "tee_local" ->
            Straight(CompileTeeLocal(LocalOffset(fn, in.n)), ss, Peek(ss) = LocalType(fn, in.n))
      [] in.op = "get_global" -> Straight(CompileGetGlobal(in.n), Push(ss, Globals[in.n]), TRUE)
      [] in.op = "set_global" ->
            Straight(CompileSetGlobal(in.n), Pop(ss, 1), Peek(ss) = Globals[in.n])

CompileMemory(ss, in, fn) ==
    LET size == TrapSizeAssertion(fn.flags)
    IN  IF in.op = "load"
        THEN Straight(CompileLoad(in, fn.flags), Push(Pop(ss, 1), in.f),
                      Peek(ss) = "i32" /\ size)
        ELSE Straight(CompileStore(in, fn.flags), Pop(ss, 2),
                      Operands(ss, <<"i32", in.f>>) /\ size)

\* The instructions that the parser reads and the switch has no case for: its
\* default is assert(0).
Unhandled == {"i64_eqz"}

CompileNumeric(ss, in) ==
    LET t == IntType(in.w)
    IN  CASE in.op = "const" -> Straight(CompileConst(in), Push(ss, in.f), TRUE)
          [] in.op = "eqz" -> Straight(CompileEqz, ss, Peek(ss) = "i32")
          [] in.op = "cmp" ->
                Straight(CompileCompare(in), Push(Pop(ss, 2), "i32"), Operands(ss, <<t, t>>))
          [] in.op = "fcmp" -> Straight(CompileFloatCompare(in), Push(Pop(ss, 2), "i32"),
                                        Operands(ss, <<"f64", "f64">>))
          [] in.op = "arith" -> Straight(CompileArith(in), Pop(ss, 1), Operands(ss, <<t, t>>))
          [] in.op = "divide" -> Straight(CompileDivide(in), Pop(ss, 1), Operands(ss, <<t, t>>))
          [] in.op = "shift" -> Straight(CompileShift(in), Pop(ss, 1), Operands(ss, <<t, t>>))
          [] in.op = "fneg" -> Straight(<< X("btcmem", "", 0, 6) >>, ss, Peek(ss) = "f64")
          [] in.op = "farith" ->
                Straight(CompileFloatArith(in), Pop(ss, 1), Operands(ss, <<"f64", "f64">>))
          [] in.op = "convert" -> Straight(CompileConvert(in), Push(Pop(ss, 1), ConvertTo(in.f)),
                                           Peek(ss) = ConvertFrom(in.f))
          [] in.op \in Unhandled -> Straight(<<>>, ss, FALSE)

ControlOps == {"unreachable", "nop", "br", "br_if", "br_table", "return"}
VariableOps == {"drop", "select", "get_local", "set_local", "tee_local", "get_global",
                "set_global"}

CompileInstruction(ss, in, fn) ==
    CASE in.op \in ControlOps -> CompileControl(ss, in, fn)
      [] in.op \in {"call", "call_indirect"} -> CompileCall(ss, in, fn)
      [] in.op \in VariableOps -> CompileVariable(ss, in, fn)
      [] in.op \in {"load", "store"} -> CompileMemory(ss, in, fn)
      [] OTHER -> CompileNumeric(ss, in)

=============================================================================
