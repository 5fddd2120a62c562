------------------------------ MODULE WasmExec ------------------------------
(***************************************************************************)
(* What a WebAssembly function promises: the semantics of its source.  The *)
(* state is the position in the source, the operand stack, the open        *)
(* labels, the locals, the globals, the memory and the calls made.  The    *)
(* instructions that only open or close blocks, and those that emit no     *)
(* code, take no step of their own.                                        *)
(***************************************************************************)
EXTENDS Wasm, Bitwise, SequencesExt

CONSTANTS Callees, Table,
    CalleeResult(_, _)     \* what a callee returns for its arguments

VARIABLES source,   \* [prog, fn], or Idle before the function runs
          s         \* the state of the execution

avars == << source, s >>

Idle == [prog |-> <<>>, fn |-> <<>>]

Halted(status, result, st) ==
    [st EXCEPT !.status = status, !.result = result, !.pos = 0,
               !.stack = <<>>, !.labels = <<>>, !.locals = <<>>]

-----------------------------------------------------------------------------
(***************************************************************************)
(* Structure of the source.                                                *)
(***************************************************************************)
Opens == {"block", "loop", "if"}
CountOps(prog, ops, i, j) == Cardinality({p \in i..j : prog[p].op \in ops})

\* The end that matches the opening instruction at position p.
EndOf(prog, p) ==
    CHOOSE e \in p..Len(prog) :
        /\ prog[e].op = "end"
        /\ CountOps(prog, Opens, p, e) = CountOps(prog, {"end"}, p, e)
        /\ \A d \in p..(e - 1) : CountOps(prog, Opens, p, d) # CountOps(prog, {"end"}, p, d)

\* The positions of the else of the if at p; none if it has none.
ElseOf(prog, p) ==
    {e \in p..EndOf(prog, p) :
        /\ prog[e].op = "else"
        /\ CountOps(prog, Opens, p, e) = CountOps(prog, {"end"}, p, e) + 1}

\* The if whose else is at position e.
IfOf(prog, e) == CHOOSE p \in 1..e : prog[p].op = "if" /\ e \in ElseOf(prog, p)

Silent(in) ==
    \/ in.op = "nop"
    \/ in.op = "convert" /\ in.f \in {"i64_extend_u_i32", "i64_reinterpret_f64",
                                      "f64_reinterpret_i64"}

\* Moves over what takes no step: the next position and the open labels.
RECURSIVE Forward(_, _, _, _)
Forward(prog, pos, ls, height) ==
    IF pos > Len(prog) THEN [pos |-> pos, labels |-> <<>>]
    ELSE LET in == prog[pos]
         IN  CASE Silent(in) -> Forward(prog, pos + 1, ls, height)
               [] in.op \in {"block", "loop"} ->
                     Forward(prog, pos + 1, Append(ls, [start |-> pos, height |-> height]), height)
               [] in.op = "end" -> Forward(prog, pos + 1, Front(ls), height)
               [] in.op = "else" ->
                     Forward(prog, EndOf(prog, IfOf(prog, pos)) + 1, Front(ls), height)
               [] OTHER -> [pos |-> pos, labels |-> ls]

\* Continue at pos with the operand stack stack.
At(st, pos, stack, ls) ==
    LET f == Forward(source.prog, pos, ls, Len(stack))
    IN  [st EXCEPT !.pos = f.pos, !.labels = f.labels, !.stack = stack]

Then(st, stack) == At(st, st.pos + 1, stack, st.labels)

\* Return with the result on the top of the operand stack.
Return(st, stack) ==
    At(st, Len(source.prog) + 1, IF source.fn.out = "none" THEN <<>> ELSE <<Last(stack)>>, <<>>)

\* Branch to the label labelidx, counted from the innermost one; the outermost
\* one is the function's.
Branch(st, stack, labelidx) ==
    IF labelidx = Len(st.labels) THEN Return(st, stack) ELSE
    LET k == Len(st.labels) - labelidx
        l == st.labels[k]
        in == source.prog[l.start]
        carried == IF in.op # "loop" /\ in.f # "none" THEN <<Last(stack)>> ELSE <<>>
        kept == SubSeq(stack, 1, l.height) \o carried
    IN  IF in.op = "loop" THEN At(st, l.start + 1, kept, SubSeq(st.labels, 1, k))
        ELSE At(st, EndOf(source.prog, l.start) + 1, kept, SubSeq(st.labels, 1, k - 1))

-----------------------------------------------------------------------------
(***************************************************************************)
(* Numbers.                                                                *)
(***************************************************************************)
Bool(b) == IF b THEN 1 ELSE 0

Compare(w, f, a, b) ==
    LET x == Signed(w, a)
        y == Signed(w, b)
    IN  Bool(CASE f = "eq" -> a = b [] f = "ne" -> a # b
               [] f = "lt_u" -> a < b [] f = "gt_u" -> a > b
               [] f = "le_u" -> a <= b [] f = "ge_u" -> a >= b
               [] f = "lt_s" -> x < y [] f = "gt_s" -> x > y
               [] f = "le_s" -> x <= y [] f = "ge_s" -> x >= y)

CompareFloat(f, a, b) ==
    LET ordered == ~IsNaN(64, a) /\ ~IsNaN(64, b)
        x == FloatValue(64, a)
        y == FloatValue(64, b)
    IN  Bool(CASE f = "eq" -> ordered /\ x = y
               [] f = "ne" -> ~ordered \/ x # y
               [] f = "lt" -> ordered /\ x < y)

Arith(w, f, a, b) ==
    CASE f = "add" -> Wrap(w, a + b) [] f = "sub" -> Wrap(w, a - b)
      [] f = "mul" -> Wrap(w, a * b) [] f = "and" -> a & b
      [] f = "or" -> a | b [] f = "xor" -> a ^^ b

\* Division traps on zero, and when the quotient has no representation.
DivideTraps(w, f, a, b) ==
    b = 0 \/ (f = "div_s" /\ Signed(w, a) = -SignBit(w) /\ Signed(w, b) = -1)

DivideValue(w, f, a, b) ==
    CASE f = "div_u" -> a \div b
      [] f = "rem_u" -> a % b
      [] f = "div_s" -> Wrap(w, Quo(Signed(w, a), Signed(w, b)))
      [] f = "rem_s" -> Wrap(w, Rem(Signed(w, a), Signed(w, b)))

Shift(w, f, a, b) ==
    LET k == b % ((w \div 8) * Byte)
    IN  CASE f = "shl" -> ShiftLeft(w, a, k) [] f = "shr_u" -> ShiftRight(w, a, k)
          [] f = "shr_s" -> ShiftArith(w, a, k)

Negate(a) == Wrap(64, a + SignBit(64))

Truncated(w, a) == Wrap(w, FloatValue(64, a))

Convert(f, a) ==
    CASE f = "i32_wrap_i64" -> Wrap(32, a)
      [] f \in {"i32_trunc_s_f64", "i32_trunc_u_f64"} -> Truncated(32, a)
      [] f = "i64_extend_s_i32" -> Wrap(64, Signed(32, a))
      [] f \in {"i64_trunc_s_f64", "i64_trunc_u_f64"} -> Truncated(64, a)
      [] f = "f64_convert_s_i32" -> Float(64, Signed(32, a))
      [] f = "f64_convert_u_i32" -> Float(64, a)
      [] f = "f64_convert_s_i64" -> Float(64, Signed(64, a))
      [] f = "f64_promote_f32" -> Promote(a)

\* Truncation traps when the integer part is outside the target type.
ConvertTraps(f, a) ==
    LET x == FloatValue(64, a)
        w == IF f \in {"i32_trunc_s_f64", "i32_trunc_u_f64"} THEN 32 ELSE 64
    IN  /\ f \in {"i32_trunc_s_f64", "i32_trunc_u_f64", "i64_trunc_s_f64", "i64_trunc_u_f64"}
        /\ \/ IsNaN(64, a)
           \/ IF f \in {"i32_trunc_s_f64", "i64_trunc_s_f64"}
              THEN x >= SignBit(w) \/ x < -SignBit(w)
              ELSE x >= Modulus(w) \/ x < 0

Load(in, a, mem) ==
    LET bytes == SubSeq(mem, a + 1, a + in.w)
        v == FoldRight(LAMBDA b, acc : b + acc * 2 ^ Byte, bytes, 0)
    IN  IF Head(in.ls) = "s" THEN Wrap(32, Signed(8 * in.w, v)) ELSE v

Store(in, a, mem, v) ==
    [i \in DOMAIN mem |->
        IF i - 1 \in a..(a + in.w - 1) THEN (v \div 2 ^ (Byte * (i - 1 - a))) % 2 ^ Byte
        ELSE mem[i]]

-----------------------------------------------------------------------------
(***************************************************************************)
(* One instruction.                                                        *)
(***************************************************************************)
Trap(st) == Halted("trap", <<>>, st)

ExecControl(st, in, stack, top) ==
    CASE in.op = "unreachable" -> Trap(st)
      [] in.op = "br" -> Branch(st, st.stack, in.n)
      [] in.op = "br_if" -> IF top # 0 THEN Branch(st, stack, in.n) ELSE Then(st, stack)
      [] in.op = "br_table" ->
            Branch(st, stack, IF top < Len(in.ls) THEN in.ls[top + 1] ELSE in.n)
      [] in.op = "return" -> Return(st, st.stack)
      [] in.op = "if" ->
            LET elses == ElseOf(source.prog, st.pos)
                inner == Append(st.labels, [start |-> st.pos, height |-> Len(stack)])
            IN  IF top # 0 THEN At(st, st.pos + 1, stack, inner)
                ELSE IF elses # {} THEN At(st, (CHOOSE e \in elses : TRUE) + 1, stack, inner)
                ELSE At(st, EndOf(source.prog, st.pos) + 1, stack, st.labels)

Invoke(st, f, stack) ==
    LET n == Len(Callees[f].in)
        args == SubSeq(stack, Len(stack) - n + 1, Len(stack))
        rest == SubSeq(stack, 1, Len(stack) - n)
        called == [st EXCEPT !.calls = Append(@, [f |-> f, args |-> args])]
    IN  Then(called, IF Callees[f].out = "none" THEN rest
                     ELSE Append(rest, CalleeResult(f, args)))

CallIndirect(st, in, stack, top) ==
    LET f == IF top + 1 \in DOMAIN Table THEN Table[top + 1] ELSE 0
    IN  IF f = 0 THEN Trap(st)
        ELSE IF Callees[f].in # Callees[in.n].in \/ Callees[f].out # Callees[in.n].out
        THEN Trap(st)
        ELSE Invoke(st, f, stack)

ExecVariable(st, in, stack, top) ==
    CASE in.op = "drop" -> Then(st, stack)
      [] in.op = "select" ->
            LET n == Len(stack)
            IN  Then(st, Append(SubSeq(stack, 1, n - 2),
                                IF top # 0 THEN stack[n - 1] ELSE stack[n]))
      [] in.op = "get_local" -> Then(st, Append(st.stack, st.locals[in.n]))
      [] in.op = "set_local" -> Then([st EXCEPT !.locals[in.n] = top], stack)
      [] in.op = "tee_local" -> Then([st EXCEPT !.locals[in.n] = top], st.stack)
      [] in.op = "get_global" -> Then(st, Append(st.stack, st.globals[in.n]))
      [] in.op = "set_global" -> Then([st EXCEPT !.globals[in.n] = top], stack)

ExecMemory(st, in, stack, top) ==
    LET a == in.n + IF in.op = "load" THEN top ELSE Last(stack)
    IN  IF a + in.w > Len(st.mem) THEN Trap(st)
        ELSE IF in.op = "load" THEN Then(st, Append(stack, Load(in, a, st.mem)))
        ELSE Then([st EXCEPT !.mem = Store(in, a, @, top)], Front(stack))

Binary == {"cmp", "fcmp", "arith", "divide", "shift", "farith"}

ExecNumeric(st, in, stack, top) ==
    LET a == Last(stack)
        v == CASE in.op = "cmp" -> Compare(in.w, in.f, a, top)
               [] in.op = "fcmp" -> CompareFloat(in.f, a, top)
               [] in.op = "arith" -> Arith(in.w, in.f, a, top)
               [] in.op = "divide" -> DivideValue(in.w, in.f, a, top)
               [] in.op = "shift" -> Shift(in.w, in.f, a, top)
               [] in.op = "farith" -> FloatOp(in.f, a, top)
               [] in.op = "eqz" -> Bool(top = 0)
               [] in.op = "fneg" -> Negate(top)
               [] in.op = "convert" -> Convert(in.f, top)
    IN  IF in.op = "const" THEN Then(st, Append(st.stack, in.n))
        ELSE IF \/ in.op = "divide" /\ DivideTraps(in.w, in.f, a, top)
                \/ in.op = "convert" /\ ConvertTraps(in.f, top)
        THEN Trap(st)
        ELSE Then(st, Append(IF in.op \in Binary THEN Front(stack) ELSE stack, v))

\* stack is the operand stack without its top.
ExecInstr(st) ==
    LET in == source.prog[st.pos]
        n == Len(st.stack)
        stack == SubSeq(st.stack, 1, n - 1)
        top == IF n = 0 THEN 0 ELSE st.stack[n]
    IN  CASE in.op \in {"unreachable", "br", "br_if", "br_table", "return", "if"} ->
                ExecControl(st, in, stack, top)
          [] in.op = "call" -> Invoke(st, in.n, st.stack)
          [] in.op = "call_indirect" -> CallIndirect(st, in, stack, top)
          [] in.op \in {"drop", "select", "get_local", "set_local", "tee_local",
                        "get_global", "set_global"} -> ExecVariable(st, in, stack, top)
          [] in.op \in {"load", "store"} -> ExecMemory(st, in, stack, top)
          [] OTHER -> ExecNumeric(st, in, stack, top)

-----------------------------------------------------------------------------
NoState == [pos |-> 0, stack |-> <<>>, labels |-> <<>>, locals |-> <<>>, globals |-> <<>>,
            mem |-> <<>>, calls |-> <<>>, status |-> "idle", result |-> <<>>]

AInit == source = Idle /\ s = NoState

\* A function is entered with its arguments; its declared locals are zero.
Enter ==
    /\ source = Idle
    /\ source' # Idle
    /\ s'.status = "run"
    /\ LET n == Len(source'.fn.in)
           begin == Forward(source'.prog, 1, <<>>, 0)
       IN  /\ \A i \in 1..Len(source'.fn.locals) : s'.locals[n + i] = 0
           /\ Len(s'.locals) = n + Len(source'.fn.locals)
           /\ s'.pos = begin.pos /\ s'.labels = begin.labels
           /\ s'.stack = <<>> /\ s'.calls = <<>>

Execute ==
    /\ s.status = "run" /\ s.pos <= Len(source.prog)
    /\ s' = ExecInstr(s)
    /\ UNCHANGED source

\* The function returns its result.
Leave ==
    /\ s.status = "run" /\ s.pos > Len(source.prog)
    /\ s' = Halted("exit", s.stack, s)
    /\ UNCHANGED source

\* A call may also be refused because the stack is exhausted.
Exhausted ==
    /\ s.status = "run" /\ s.pos <= Len(source.prog)
    /\ source.prog[s.pos].op \in {"call", "call_indirect"}
    /\ s' = Halted("exhausted", <<>>, s)
    /\ UNCHANGED source

ANext == Enter \/ Execute \/ Leave \/ Exhausted

ASpec == AInit /\ [][ANext]_avars

=============================================================================
