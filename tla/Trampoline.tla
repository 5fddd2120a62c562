----------------------------- MODULE Trampoline -----------------------------
(***************************************************************************)
(* The two pieces of code that wasmjit compiles around functions:          *)
(* wasmjit_compile_hostfunc, through which compiled code calls a host      *)
(* function, and wasmjit_compile_invoker, through which the host calls a   *)
(* compiled function with an array of values.                              *)
(***************************************************************************)
EXTENDS CompileInstr

\* A host function gets its FuncInst as one more argument after its inputs:
\* in the next integer register, or on the stack when there is none left.
HostfuncInRegister(in, funcinst, hostfunc, flags) ==
    << X("mov", IntRegs[CountClass(in, "int") + 1], funcinst, 10),
       X("mov", "rax", hostfunc, 10) >>
    \o emit_indirect_jump(flags)

\* Mutant of HostfuncOnStack: the padding moves the arguments, not their copies.
HostfuncOnStackNoPad(in, funcinst, hostfunc, flags) ==
    LET n_stack == CountClass(in, "stack")
        pad == n_stack % 2
    IN  When(pad = 1, << X("addsp", "", -1, 4) >>)
        \o << X("mov", "rax", funcinst, 10), X("push", "rax", 0, 1) >>
        \o [i \in 1..n_stack |-> X("pushsp", "", n_stack + 1, 7)]
        \o << X("mov", "rax", hostfunc, 10) >>
        \o emit_indirect_call(flags)
        \o << X("addsp", "", pad + 1 + n_stack, 7), X("ret", "", 0, 1) >>

\* The stack arguments are pushed again below the FuncInst, the last one first.
HostfuncOnStack(in, funcinst, hostfunc, flags) ==
    LET n_stack == CountClass(in, "stack")
        pad == n_stack % 2
    IN  When(pad = 1, << X("addsp", "", -1, 4) >>)
        \o << X("mov", "rax", funcinst, 10), X("push", "rax", 0, 1) >>
        \o [i \in 1..n_stack |-> X("pushsp", "", pad + n_stack + 1, 7)]
        \o << X("mov", "rax", hostfunc, 10) >>
        \o emit_indirect_call(flags)
        \o << X("addsp", "", pad + 1 + n_stack, 7), X("ret", "", 0, 1) >>

compile_hostfunc(in, funcinst, hostfunc, flags) ==
    IF CountClass(in, "int") < 6
    THEN HostfuncInRegister(in, funcinst, hostfunc, flags)
    ELSE HostfuncOnStack(in, funcinst, hostfunc, flags)

\* *out_size: the buffer is allocated before its contents are known.
HostfuncSize(in, flags) ==
    LET n_stack == CountClass(in, "stack")
    IN  IF CountClass(in, "int") < 6 THEN 20 + IndirectJumpSize(flags)
        ELSE (IF n_stack % 2 = 1 THEN 4 ELSE 0) + 11 + 7 * n_stack + 10
             + IndirectCallSize(flags) + 8

\* Slots reserved below the return address: %rbx, the stack arguments, padding.
ToReserve(in) == LET n == 1 + CountClass(in, "stack") IN IF n % 2 = 0 THEN n + 1 ELSE n

\* The float registers are indexed by the integer arguments seen so far.
InvokerArg(in, i) ==
    LET p == ArgPlaces(in)[i]
        n_movs == Cardinality({j \in 1..(i - 1) : ArgPlaces(in)[j].class = "int"})
    IN  CASE p.class = "int" -> << X("ldval64", IntRegs[n_movs + 1], i, 7) >>
          [] p.class = "xmm" -> << X(IF in[i] = "f32" THEN "ldval32" ELSE "ldval64",
                                     XmmRegs[n_movs + 1], i, 8) >>
          [] p.class = "stack" -> << X("ldval64", "rax", i, 7), X("stsp64", "rax", p.k, 8) >>

\* Mutant of compile_invoker: the caller's %rbx is not restored.
InvokerKeepsRbx(in, compiled_code, flags) ==
    LET n == ToReserve(in)
    IN  << X("addsp", "", -n, 7), X("stsp64", "rbx", n - 1, 8), X("mov_rdi_rbx", "", 0, 3) >>
        \o FlattenSeq([i \in DOMAIN in |-> InvokerArg(in, i)])
        \o << X("mov", "rax", compiled_code, 10) >>
        \o emit_indirect_call(flags)
        \o << X("addsp", "", n, 7), X("ret", "", 0, 1) >>

\* %rbx is saved in the reserved space and holds the array of values.
compile_invoker(in, compiled_code, flags) ==
    LET n == ToReserve(in)
    IN  << X("addsp", "", -n, 7), X("stsp64", "rbx", n - 1, 8), X("mov_rdi_rbx", "", 0, 3) >>
        \o FlattenSeq([i \in DOMAIN in |-> InvokerArg(in, i)])
        \o << X("mov", "rax", compiled_code, 10) >>
        \o emit_indirect_call(flags)
        \o << X("ldsp64", "rbx", n - 1, 8), X("addsp", "", n, 7), X("ret", "", 0, 1) >>

=============================================================================
