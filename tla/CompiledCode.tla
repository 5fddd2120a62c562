---------------------------- MODULE CompiledCode ----------------------------
(***************************************************************************)
(* A function is compiled (Compile) and then run (X86).  One step of the   *)
(* machine runs the code of one WebAssembly instruction: from one mark of  *)
(* the compiler to the next.                                               *)
(***************************************************************************)
EXTENDS Compile, X86

VARIABLE m      \* the machine, or NoMachine before the function is called

vars == << cvars, m >>

NoMachine == [status |-> "idle"]

Args(ts) == {a \in prof.args : Len(a) = Len(ts)}

\* The caller's stack: an aligned call of the function with its stack arguments,
\* whose upper halves are undefined for 32-bit types.
EntryStack(ts, args) ==
    LET places == ArgPlaces(ts)
        n == CountClass(ts, "stack")
        arg(k) == CHOOSE i \in DOMAIN ts : places[i] = [class |-> "stack", k |-> k]
    IN  [i \in 1..(1 + (n % 2)) |-> Junk]
        \o << 7 >>
        \o [i \in 1..n |-> SetLow(Width(ts[arg(n - i)]), prof.garbage, args[arg(n - i)])]
        \o << ReturnAddr >>

\* The registers at the call; the upper half of an f32 or i32 is undefined.
EntryRegs(ts, args) ==
    LET places == ArgPlaces(ts)
        In1(i) == SetLow(Width(ts[i]), Junk, args[i])
        Holder(r) == {i \in DOMAIN ts :
                        \/ places[i].class = "int" /\ IntRegs[places[i].k + 1] = r
                        \/ places[i].class = "xmm" /\ XmmRegs[places[i].k + 1] = r}
    IN  [r \in RegNames |->
            IF Holder(r) # {} THEN In1(CHOOSE i \in Holder(r) : TRUE)
            ELSE IF r \in {"rbx", "rbp"} THEN 1 ELSE Junk]

Entry(args, limit) ==
    [pc |-> 0, stk |-> EntryStack(Function.in, args), regs |-> EntryRegs(Function.in, args),
     flags |-> [cf |-> FALSE, zf |-> FALSE, lt |-> FALSE, pf |-> FALSE],
     mem |-> prof.mem, globals |-> prof.globals, status |-> "run", calls |-> <<>>,
     deep |-> 0, calltop |-> 0, limit |-> limit, garbage |-> prof.garbage, args |-> args,
     types |-> Function.in, odd |-> {}, lost |-> FALSE]

CodeMap == [a \in {output[i].at : i \in DOMAIN output} |->
               output[CHOOSE i \in DOMAIN output : output[i].at = a]]
Stops == {marks[i].at : i \in DOMAIN marks}
MarkAt == marks[CHOOSE i \in DOMAIN marks : marks[i].at = m.pc]

\* The two places where the code does not do what the compiler's static stack
\* says, so that the machine cannot be followed any further: a branch to the
\* label of the function, for which the static stack has no element, and the
\* epilogue for an f32 result, which does not remove the result.
Loses ==
    LET exit == MarkAt.pos > Len(prog)
        in == prog[MarkAt.pos]
        top == Wrap(32, Slot(m, Top(m)))
        out == Len(MarkAt.labels)
    IN  \/ exit /\ Function.out = "f32"
        \/ /\ ~exit
           /\ \/ in.op = "br" /\ in.n = out
              \/ in.op = "br_if" /\ top # 0 /\ in.n = out
              \/ in.op = "br_table" /\ out = IF top < Len(in.ls) THEN in.ls[top + 1] ELSE in.n

Init == CInit /\ m = NoMachine

CompileStep == CNext /\ UNCHANGED m

\* The function is called.
Call ==
    /\ phase = "done" /\ m = NoMachine /\ prof.kind # "invoker"
    /\ \E args \in Args(Function.in), limit \in prof.limits :
          m' = RunTo(Entry(args, limit), CodeMap, Stops)
    /\ UNCHANGED cvars

\* The host calls an invoker with an array of values.
EntryInvoker(args) ==
    [Entry(args, 0) EXCEPT !.stk = EntryStack(<<>>, <<>>),
                           !.regs = [@ EXCEPT !["rdi"] = ValuesAddr]]

Invoke ==
    /\ phase = "done" /\ m = NoMachine /\ prof.kind = "invoker"
    /\ \E args \in Args(Function.in) : m' = RunTo(EntryInvoker(args), CodeMap, {})
    /\ UNCHANGED cvars

Exec ==
    /\ m.status = "run" /\ ~m.lost
    /\ m' = [RunTo(m, CodeMap, Stops) EXCEPT !.lost = Loses]
    /\ UNCHANGED cvars

Next == CompileStep \/ Call \/ Invoke \/ Exec

Spec == Init /\ [][Next]_vars

-----------------------------------------------------------------------------
(***************************************************************************)
(* The WebAssembly state that a machine at a mark stands for.              *)
(***************************************************************************)
\* The compiler's view of the stack is wrong: it has dropped a label in code
\* that cannot be reached, or the machine is lost.
Astray == unlabelled \/ (m # NoMachine /\ m.lost)
Running == m.status = "run" /\ ~Astray
Base == m.regs["rbp"] + FrameLocals(Function)
NLocals == Len(Function.in) + Len(Function.locals)

LocalSlot(i) == Slot(m, m.regs["rbp"] - LocalOffset(Function, i))

GlobalValues == [i \in DOMAIN m.globals |-> Wrap(Width(Globals[i]), m.globals[i])]

ResultValue ==
    CASE Function.out = "none" -> <<>>
      [] IsInt(Function.out) -> << Wrap(Width(Function.out), m.regs["rax"]) >>
      [] OTHER -> << Wrap(Width(Function.out), m.regs["xmm0"]) >>

Decode ==
    [pos |-> IF Running THEN MarkAt.pos ELSE 0,
     labels |-> IF Running THEN MarkAt.labels ELSE <<>>,
     stack |-> IF ~Running THEN <<>>
               ELSE [i \in DOMAIN MarkAt.types |->
                        Wrap(Width(MarkAt.types[i]), Slot(m, Base + i))],
     locals |-> IF ~Running THEN <<>>
                ELSE [i \in 1..NLocals |-> Wrap(Width(LocalType(Function, i)), LocalSlot(i))],
     globals |-> GlobalValues, mem |-> m.mem, calls |-> m.calls,
     \* the process gets SIGFPE where WebAssembly traps
     status |-> IF m.lost THEN "lost" ELSE IF m.status = "sigfpe" THEN "trap" ELSE m.status,
     result |-> IF m.status = "exit" /\ ~m.lost THEN ResultValue ELSE <<>>]

Source == [prog |-> prog, fn |-> Function]

\* Trampolines have no WebAssembly source, and functions whose static stack has
\* lost a label are not followed.
Hidden == m = NoMachine \/ prof.kind # "function" \/ unlabelled

AbsSource == IF Hidden THEN [prog |-> <<>>, fn |-> <<>>] ELSE Source
AbsState ==
    IF Hidden
    THEN [pos |-> 0, stack |-> <<>>, labels |-> <<>>, locals |-> <<>>, globals |-> <<>>,
          mem |-> <<>>, calls |-> <<>>, status |-> "idle", result |-> <<>>]
    ELSE Decode

W == INSTANCE WasmExec WITH source <- AbsSource, s <- AbsState

-----------------------------------------------------------------------------
(***************************************************************************)
(* Where the code departs from WebAssembly.  n operands are on the stack;  *)
(* the instruction is in.                                                  *)
(***************************************************************************)
\* f64.sub subtracts the first operand from the second.
SubtractsReversed(in, stack, n) ==
    /\ in.op = "farith" /\ in.f = "sub"
    /\ AbsState' = W!Then(AbsState, Append(SubSeq(stack, 1, n - 2),
                                           FloatOp("sub", stack[n], stack[n - 1])))

\* The remainder of the least integer by -1 is computed by a division that traps.
RemainderTraps(in, stack, n) ==
    /\ in.op = "divide" /\ in.f = "rem_s"
    /\ stack[n - 1] = SignBit(in.w) /\ stack[n] = Modulus(in.w) - 1
    /\ AbsState' = W!Trap(AbsState)

\* A truncation never traps; that to an unsigned i32 is the signed one.
TruncatesAnything(in, stack, n) ==
    /\ in.op = "convert"
    /\ \/ W!ConvertTraps(in.f, stack[n])
       \/ in.f = "i32_trunc_u_f64" /\ FloatValue(64, stack[n]) >= SignBit(32)
    /\ AbsState'.stack # <<>>
    /\ AbsState' = W!Then(AbsState, Append(SubSeq(stack, 1, n - 1), Last(AbsState'.stack)))

\* Arguments passed on the stack are read from the wrong place and pushed in the
\* wrong order, unless the only one is the last argument.
MisplacesArguments(in, stack, n) ==
    LET ts == Callees[in.n].in
        k == Len(ts)
        places == ArgPlaces(ts)
        args == Last(AbsState'.calls).args
    IN  /\ in.op = "call"
        /\ \E i \in 1..(k - 1) : places[i].class = "stack"
        /\ AbsState'.calls # <<>>
        /\ \A i \in 1..k : places[i].class # "stack" => args[i] = stack[n - k + i]
        /\ AbsState' = W!Invoke(AbsState, in.n, SubSeq(stack, 1, n - k) \o args)

\* The upper half of an i32's slot is not always zero (ZeroExtended).  It is part
\* of the address of an access, which is then out of bounds ...
Unclean(i) == Slot(m, Base + i) >= Modulus(32)

RefusesAccess(in, n) ==
    /\ \/ in.op = "load" /\ Unclean(n)
       \/ in.op = "store" /\ Unclean(n - 1)
    /\ AbsState' = W!Trap(AbsState)

\* ... and becomes part of the i64 that i64.extend_u/i32 makes of it.
Widens(next) ==
    LET n == Len(next.stack)
        v == AbsState'.stack[n]
    IN  /\ n > 0 /\ Len(AbsState'.stack) = n /\ v >= Modulus(32)
        /\ \E p \in DOMAIN prog :
              prog[p].op = "convert" /\ prog[p].f = "i64_extend_u_i32" /\ next.pos = p + 1
        /\ Wrap(32, v) = next.stack[n]
        /\ AbsState' = [next EXCEPT !.stack[n] = v]

Departs ==
    /\ AbsState.status = "run" /\ UNCHANGED AbsSource
    /\ \/ AbsState'.status = "lost" /\ Loses
       \/ /\ AbsState.pos <= Len(prog)
          /\ LET in == prog[AbsState.pos]
                 stack == AbsState.stack
                 n == Len(stack)
             IN  \/ SubtractsReversed(in, stack, n) \/ RemainderTraps(in, stack, n)
                 \/ TruncatesAnything(in, stack, n) \/ MisplacesArguments(in, stack, n)
                 \/ RefusesAccess(in, n) \/ Widens(W!ExecInstr(AbsState))


-----------------------------------------------------------------------------
(***************************************************************************)
(* Properties.                                                             *)
(***************************************************************************)
\* What wasmjit does not compile: an instruction without a case, an offset
\* without an encoding, a branch to the label of the function.
Unsupported(in) ==
    \/ in.op \in Unhandled
    \/ in.op \in {"load", "store"} /\ ~AccessEncodable(in)
    \/ in.op \in {"br", "br_if"} /\ in.n = Len(ctl)
    \/ in.op = "br_table" /\ Len(ctl) \in Range(in.ls) \cup {in.n}

\* The assertions of the compiler hold for every valid function as long as its
\* instructions can be reached and are supported: the operand types, the sizes
\* of traps and jumps, the depth of the stack at the end.  They fail in code
\* that cannot be reached, where valid operands need not be on the static stack.
AssertionsHold ==
    phase = "failed" =>
        \/ Here.dead \/ unlabelled
        \/ prog # <<>> /\ Unsupported(Last(prog))

\* The check that WASMJIT_DEBUG_STACK compiles in front of every instruction:
\* the machine stack is exactly as deep as the compiler's static stack says, until
\* the code loses it.
StackAgrees == Running => Top(m) = Base + Len(MarkAt.types)


\* A function returns with its caller's frame: the callee-saved registers, the
\* slots and the stack pointer as they were.  A function with an f32 result does
\* not return to its caller at all.
CallerRestored ==
    m.status = "exit" /\ ~Astray =>
        /\ m.regs["rbx"] = 1 /\ m.regs["rbp"] = 1
        /\ m.stk = Front(IF prof.kind = "invoker" THEN EntryStack(<<>>, <<>>)
                         ELSE EntryStack(Function.in, m.args))

\* A float in a register reaches the callee through an invoker: as many integers
\* as floats come before it, and no later float is loaded over it.
FloatArrives(in, i) ==
    LET places == ArgPlaces(in)
        Ints(j) == Cardinality({k \in 1..(j - 1) : places[k].class = "int"})
    IN  /\ Ints(i) = places[i].k
        /\ \A j \in (i + 1)..Len(in) : places[j].class = "xmm" => Ints(j) # places[i].k

\* Through a trampoline the callee gets every argument in its place, a host
\* function also its FuncInst, and its result comes back.  An invoker counts
\* integers where it should count floats, so that it passes all arguments but
\* the floats for which the two counts differ.
TrampolinePasses ==
    prof.kind # "function" /\ m # NoMachine =>
        LET f == prof.callee
            extra == IF prof.kind = "hostfunc" THEN << Wrap(64, FuncInstAddr(f)) >> ELSE <<>>
            args == m.calls[1].args
            in == Callees[f].in
        IN  /\ m.status = "exit"
            /\ Len(m.calls) = 1 /\ m.calls[1].f = f
            /\ \A i \in DOMAIN in :
                  \/ args[i] = (m.args \o extra)[i]
                  \/ /\ prof.kind = "invoker" /\ ArgPlaces(in)[i].class = "xmm"
                     /\ ~FloatArrives(in, i)
            /\ Callees[f].out # "none" => ResultValue = << CalleeResult(f, args) >>

\* The stack usage that call sites check covers the frame and the operands of
\* the function and leaves the 128 bytes for the runtime functions it calls
\* free at every instruction; all it pushes on its own account is within it.
UsageCovers ==
    prof.kind = "function" /\ Function.check /\ m # NoMachine /\ ~Astray =>
        LET end == Len(EntryStack(Function.in, m.args)) - 1 + max_stack
        IN  m.deep <= end /\ (Running => Top(m) + 16 <= end)

\* A call goes through only if the callee's usage, which counts the return
\* address, fits above the stack limit.
CallsFit ==
    Function.check /\ m # NoMachine /\ m.calls # <<>> =>
        StackAddr - (m.calltop - 1) >= m.limit + Callees[m.calls[Len(m.calls)].f].usage

\* The stack check of wasmjit_compile_function is enough: no function goes
\* deeper than the usage it declares, and no call is made that lacks its own.
StackSuffices == UsageCovers /\ CallsFit

\* An i32 whose upper half is undefined has come in: as an argument on the stack,
\* or as the result of a function.
UncleanEntered ==
    \/ \E i \in DOMAIN Function.in :
          Function.in[i] = "i32" /\ ArgPlaces(Function.in)[i].class = "stack"
    \/ \E i \in DOMAIN m.calls : Callees[m.calls[i].f].out = "i32"

\* i32 operands and locals are kept zero-extended in their slots, which
\* i64.extend_u/i32 and the addresses of accesses rely on, except that the upper
\* half of an argument on the stack or of a function's result is kept as it is
\* and may be handed on by what is computed from it.
ZeroExtended ==
    LET Extended(v) ==
            v < Modulus(32)
            \/ (v \div Modulus(32) = m.garbage \div Modulus(32) /\ UncleanEntered)
    IN  Running =>
        /\ \A i \in DOMAIN MarkAt.types :
              MarkAt.types[i] = "i32" => Extended(Slot(m, Base + i))
        /\ \A i \in 1..NLocals : LocalType(Function, i) = "i32" => Extended(LocalSlot(i))

=============================================================================
