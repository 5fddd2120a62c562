------------------------------- MODULE Compile -------------------------------
(***************************************************************************)
(* wasmjit_compile_function: one function is compiled in one pass over its *)
(* instructions.  The source, a tree in memory, is the sequence prog of    *)
(* its instructions with "else" and "end" where an instruction list of the *)
(* tree ends; each action compiles the next one.  The instructions are     *)
(* chosen among those that are valid WebAssembly at that place, also where *)
(* they cannot be reached.                                                 *)
(*                                                                         *)
(* marks is a history variable: for every instruction that emitted code,   *)
(* the offset of its code and the static stack before it.                  *)
(***************************************************************************)
EXTENDS CompileInstr, Trampoline

CONSTANT Profiles   \* what is compiled: set of [kind, fn, steps, callee, ...]

VARIABLES
    prof,       \* the profile of the function that is compiled
    prog,       \* the instructions compiled so far
    ctl,        \* struct InstructionMD *stack, without the function body
    sstack,     \* struct StaticStack
    labels,     \* struct LabelContinuations: offsets, Unset until known
    branches,   \* struct BranchPoints
    output,     \* emitted instructions, each with its offset
    max_stack,  \* largest static stack depth, then the stack usage
    marks,      \* history: where the code of each instruction starts
    operands,   \* history: the operand types as validation sees them
    unlabelled, \* history: the static stack has lost the label of an open block
    phase       \* "begin", "body", "done", or "failed" once an assertion fails

cvars == << prof, prog, ctl, sstack, labels, branches, output, max_stack,
            marks, operands, unlabelled, phase >>

Unset == -1
Function == prof.fn
Max2(a, b) == IF a > b THEN a ELSE b

OutputSize(o) == IF o = <<>> THEN 0 ELSE o[Len(o)].at + o[Len(o)].len

Emit(o, xs) ==
    LET At(i) == OutputSize(o) + Size(SubSeq(xs, 1, i - 1))
    IN  o \o [i \in DOMAIN xs |->
                 [op |-> xs[i].op, r |-> xs[i].r, n |-> xs[i].n, len |-> xs[i].len,
                  at |-> At(i)]]


\* Sets the operand of the jump at offset "at" so that it goes to offset "to".
Patch(o, at, to) ==
    [i \in DOMAIN o |->
        IF o[i].at = at THEN [o[i] EXCEPT !.n = to - (at + o[i].len)] ELSE o[i]]

\* A mark: the position in the source, the operand types and the open labels.
MarkHere(pos, ss, at) ==
    LET ls == SelectSeq([p \in DOMAIN ss |-> [e |-> ss[p], p |-> p]],
                        LAMBDA q : IsLabel(q.e))
    IN  [at |-> at, pos |-> pos,
         types |-> [i \in 1..Depth(ss) |->
                       SelectSeq(ss, LAMBDA e : ~IsLabel(e))[i].type],
         labels |-> [i \in DOMAIN ls |->
                        [start |-> ls[i].e.start,
                         height |-> Depth(SubSeq(ss, 1, ls[i].p - 1))]]]

Mark(xs) ==
    IF xs = <<>> THEN marks
    ELSE Append(marks, MarkHere(Len(prog) + 1, sstack, OutputSize(output)))

CInit ==
    /\ prof \in Profiles
    /\ prog = <<>>
    /\ ctl = <<>>
    /\ sstack = <<>>
    /\ labels = <<>>
    /\ branches = <<>>
    /\ output = <<>>
    /\ max_stack = 0
    /\ marks = <<>>
    /\ operands = << [types |-> <<>>, dead |-> FALSE] >>
    /\ unlabelled = FALSE
    /\ phase = "begin"

-----------------------------------------------------------------------------
(***************************************************************************)
(* Valid programs: WebAssembly's validation of a function, which wasmjit   *)
(* leaves to whoever made the module.  operands holds a frame for the      *)
(* function and for each open block, with the types of its operands.  In a *)
(* dead frame, after an instruction that never continues, operands that    *)
(* are not there have any type.                                            *)
(***************************************************************************)
Open == [types |-> <<>>, dead |-> FALSE]
Gone == [types |-> <<>>, dead |-> TRUE]
Here == Last(operands)
SetHere(frame) == [operands EXCEPT ![Len(operands)] = frame]

OperandType(frame, k) ==
    LET n == Len(frame.types) IN IF k < n THEN frame.types[n - k] ELSE "any"

Takes(frame, ts) ==
    /\ Len(frame.types) >= Len(ts) \/ frame.dead
    /\ \A k \in 0..(Len(ts) - 1) : OperandType(frame, k) \in {ts[Len(ts) - k], "any"}

Without(frame, k) == [frame EXCEPT !.types = SubSeq(@, 1, Len(@) - k)]
With(frame, ts) == [frame EXCEPT !.types = @ \o ts]

\* The operands that a branch to labelidx takes; the outermost label is the function's.
LabelTypes(labelidx) ==
    IF labelidx = Len(ctl) THEN Results(Function.out)
    ELSE LET c == ctl[Len(ctl) - labelidx]
         IN  IF c.kind = "loop" THEN <<>> ELSE Results(c.blocktype)

BranchValid(frame, labelidx) ==
    labelidx <= Len(ctl) /\ Takes(frame, LabelTypes(labelidx))

Valid(in) ==
    LET rest == Without(Here, 1)
    IN  CASE in.op = "br" -> BranchValid(Here, in.n)
          [] in.op = "br_if" -> Takes(Here, <<"i32">>) /\ BranchValid(rest, in.n)
          [] in.op = "br_table" ->
                /\ Takes(Here, <<"i32">>)
                /\ \A l \in Range(in.ls) \cup {in.n} :
                      BranchValid(rest, l) /\ LabelTypes(l) = LabelTypes(in.n)
          [] in.op = "drop" -> Here.types # <<>> \/ Here.dead
          [] in.op = "select" -> \E t \in ValTypes : Takes(Here, <<t, t, "i32">>)
          [] in.op = "return" -> Takes(Here, Results(Function.out))
          [] OTHER -> Takes(Here, Signature(in, Function, Callees, Globals))

Transfers == {"br", "br_table", "return", "unreachable"}

\* The frame after an instruction.
FrameAfter(in) ==
    LET taken == Signature(in, Function, Callees, Globals)
        chosen == IF OperandType(Here, 1) # "any" THEN OperandType(Here, 1)
                  ELSE OperandType(Here, 2)
    IN  CASE in.op \in Transfers -> Gone
          [] in.op = "br_if" ->
                LET ts == LabelTypes(in.n) IN With(Without(Here, 1 + Len(ts)), ts)
          [] in.op = "drop" -> Without(Here, 1)
          [] in.op = "select" -> With(Without(Here, 3), <<chosen>>)
          [] OTHER -> With(Without(Here, Len(taken)), Produces(in, Function, Callees, Globals))

\* The end of an instruction list whose results are ts.
ListEnds(ts) == Takes(Here, ts) /\ Len(Here.types) <= Len(ts)

\* The frames after the end of a block with results ts.
BlockEnds(ts) ==
    LET outer == Front(operands) IN Append(Front(outer), With(Last(outer), ts))

Offered(in) ==
    /\ phase = "body"
    /\ Len(prog) < Len(prof.steps)
    /\ in \in prof.steps[Len(prog) + 1]

-----------------------------------------------------------------------------
(***************************************************************************)
(* The steps of wasmjit_compile_function and wasmjit_compile_instructions. *)
(***************************************************************************)
Begin ==
    /\ phase = "begin" /\ prof.kind = "function"
    /\ output' = Emit(<<>>, Prologue(Function))
    /\ phase' = "body"
    /\ UNCHANGED << prof, prog, ctl, sstack, labels, branches, max_stack, marks, operands,
                    unlabelled >>

GrowMaxStack(ss) ==
    max_stack' = IF Function.check THEN Max2(max_stack, Depth(ss)) ELSE max_stack

Structured == {"block", "loop", "if", "else", "end"}

Current == ctl[Len(ctl)]

Asserted(ok) == phase' = IF ok THEN "body" ELSE "failed"

\* The default case of the switch: an instruction without instructions of its own.
Instruction(in) ==
    /\ Offered(in) /\ in.op \notin Structured /\ Valid(in)
    /\ in.op \in {"load", "store"} => AccessEncodable(in)
    /\ LET r == CompileInstruction(sstack, in, Function)
           start == OutputSize(output)
       IN  /\ output' = Emit(output, r.xs)
           /\ branches' = branches \o [i \in DOMAIN r.brs |->
                                          [at |-> start + r.brs[i].at, cont |-> r.brs[i].cont]]
           /\ sstack' = r.ss
           /\ marks' = Mark(r.xs)
           /\ GrowMaxStack(r.ss)
           /\ Asserted(r.ok)
           /\ operands' = IF r.ok THEN SetHere(FrameAfter(in)) ELSE operands
           /\ unlabelled' = (unlabelled \/ (ctl # <<>> /\ Len(r.ss) <= Current.stack_idx))
    /\ prog' = Append(prog, in)
    /\ UNCHANGED << prof, ctl, labels >>

\* An access whose offset has no encoding: goto error, where there is an assert(0).
Unencodable(in) ==
    /\ Offered(in) /\ in.op \in {"load", "store"} /\ Valid(in)
    /\ ~AccessEncodable(in)
    /\ phase' = "failed"
    /\ prog' = Append(prog, in)
    /\ UNCHANGED << prof, ctl, sstack, labels, branches, output, max_stack, marks, operands,
                    unlabelled >>

Frame(in, je) ==
    [kind |-> in.op, blocktype |-> in.f, label_idx |-> Len(labels) + 1,
     stack_idx |-> Len(sstack) - (IF in.op = "if" THEN 1 ELSE 0),
     output_idx |-> OutputSize(output), jump_to_else |-> je, jump_to_after_else |-> Unset,
     did_else |-> FALSE, start |-> Len(prog) + 1]

Arity(blocktype) == IF blocktype = "none" THEN 0 ELSE 1

\* block and loop: a label whose arity is that of the values a branch carries.
BlockHeader(in) ==
    /\ Offered(in) /\ in.op \in {"block", "loop"}
    /\ LET arity == IF in.op = "block" THEN Arity(in.f) ELSE 0
       IN  sstack' = Append(sstack, Label(arity, Len(labels) + 1, Len(prog) + 1))
    /\ labels' = Append(labels, Unset)
    /\ ctl' = Append(ctl, Frame(in, Unset))
    /\ prog' = Append(prog, in)
    /\ operands' = Append(operands, Open)
    /\ GrowMaxStack(sstack')
    /\ UNCHANGED << prof, branches, output, marks, unlabelled, phase >>

IfCode == << X("pop", "rax", 0, 1), X("test32", "rax", 0, 2), X("jcc", "e", 0, 6) >>

IfHeader(in) ==
    /\ Offered(in) /\ in.op = "if" /\ Valid(in)
    /\ output' = Emit(output, IfCode)
    /\ sstack' = Append(Pop(sstack, 1), Label(Arity(in.f), Len(labels) + 1, Len(prog) + 1))
    /\ labels' = Append(labels, Unset)
    /\ ctl' = Append(ctl, Frame(in, OutputSize(output) + 3))
    /\ prog' = Append(prog, in)
    /\ marks' = Mark(IfCode)
    /\ GrowMaxStack(sstack')
    /\ Asserted(Peek(sstack) = "i32")
    /\ operands' = IF Peek(sstack) = "i32" THEN Append(SetHere(Without(Here, 1)), Open)
                   ELSE operands
    /\ UNCHANGED << prof, branches, unlabelled >>

Leave == SubSeq(ctl, 1, Len(ctl) - 1)

\* stack_truncate to n elements; when there are fewer, it would add elements
\* that nobody wrote.
Truncates(n) == n <= Len(sstack)

\* Remove the label and what is above it, push the result.
CloseStack ==
    IF Truncates(Current.stack_idx)
    THEN Push(SubSeq(sstack, 1, Current.stack_idx), Current.blocktype) ELSE sstack

BlockFooter(in) ==
    /\ Offered(in) /\ in.op = "end" /\ ctl # <<>>
    /\ Current.kind \in {"block", "loop"} /\ ListEnds(Results(Current.blocktype))
    /\ sstack' = CloseStack
    /\ Asserted(Truncates(Current.stack_idx))
    /\ labels' = [labels EXCEPT ![Current.label_idx] =
                     IF Current.kind = "block" THEN OutputSize(output) ELSE Current.output_idx]
    /\ ctl' = Leave
    /\ prog' = Append(prog, in)
    /\ operands' = BlockEnds(Results(Current.blocktype))
    /\ UNCHANGED << prof, branches, output, max_stack, marks, unlabelled >>

\* The end of the then list when there is an else list.
ElseFooter(in) ==
    /\ Offered(in) /\ in.op = "else" /\ ctl # <<>>
    /\ Current.kind = "if" /\ ~Current.did_else /\ ListEnds(Results(Current.blocktype))
    /\ LET jmp == OutputSize(output)
       IN  /\ output' = Patch(Emit(output, << X("jmp", "", 0, 5) >>),
                              Current.jump_to_else, jmp + 5)
           /\ ctl' = Append(Leave, [Current EXCEPT !.jump_to_after_else = jmp,
                                                   !.did_else = TRUE])
    /\ sstack' = IF Truncates(Current.stack_idx + 1)
                 THEN SubSeq(sstack, 1, Current.stack_idx + 1) ELSE sstack
    /\ Asserted(Truncates(Current.stack_idx + 1))
    /\ prog' = Append(prog, in)
    /\ operands' = SetHere(Open)
    /\ UNCHANGED << prof, labels, branches, max_stack, marks, unlabelled >>

\* The end of an if: of the then list without else list, or of the else list,
\* which is not empty.  Without else list there is no result.
IfFooter(in) ==
    /\ Offered(in) /\ in.op = "end" /\ ctl # <<>>
    /\ Current.kind = "if" /\ ListEnds(Results(Current.blocktype))
    /\ Current.did_else \/ Current.blocktype = "none"
    /\ prog[Len(prog)].op # "else"
    /\ output' = Patch(output,
                       IF Current.did_else THEN Current.jump_to_after_else
                       ELSE Current.jump_to_else,
                       OutputSize(output))
    /\ sstack' = CloseStack
    /\ Asserted(Truncates(Current.stack_idx))
    /\ labels' = [labels EXCEPT ![Current.label_idx] = OutputSize(output)]
    /\ ctl' = Leave
    /\ prog' = Append(prog, in)
    /\ operands' = BlockEnds(Results(Current.blocktype))
    /\ UNCHANGED << prof, branches, max_stack, marks, unlabelled >>

\* Slots for the return address and %rbp, and the 128 bytes of buffer.
StackUsage(fn, max) == max + FrameLocals(fn) + 1 + 1 + 16

FixBranches(o) ==
    LET To(b) == IF b.cont = FuncExitCont THEN OutputSize(o) ELSE labels[b.cont]
    IN  FoldLeft(LAMBDA acc, b : Patch(acc, b.at, To(b)), o, branches)

EpilogueAssertion ==
    Len(sstack) = NOutputs(Function) /\ (sstack # <<>> => Peek(sstack) = Function.out)

\* The end of the function body: usage, branch points, epilogue.
Finish ==
    /\ phase = "body" /\ ctl = <<>>
    /\ ListEnds(Results(Function.out))
    /\ max_stack' = IF Function.check THEN StackUsage(Function, max_stack) ELSE 0
    /\ output' = Emit(FixBranches(output), Epilogue(Function))
    /\ marks' = Append(marks, MarkHere(Len(prog) + 1, Push(<<>>, Function.out),
                                       OutputSize(output)))
    /\ phase' = IF EpilogueAssertion THEN "done" ELSE "failed"
    /\ sstack' = <<>>
    /\ UNCHANGED << prof, prog, ctl, labels, branches, operands, unlabelled >>

\* wasmjit_compile_hostfunc for the host function prof.callee.
CompileHostfunc ==
    /\ phase = "begin" /\ prof.kind = "hostfunc"
    /\ LET xs == compile_hostfunc(Function.in, FuncInstAddr(prof.callee),
                                  CodeAddr(prof.callee), Function.flags)
       IN  /\ output' = Emit(<<>>, xs)
           /\ phase' = IF Size(xs) = HostfuncSize(Function.in, Function.flags)
                       THEN "done" ELSE "failed"
    /\ UNCHANGED << prof, prog, ctl, sstack, labels, branches, max_stack, marks, operands,
                    unlabelled >>

\* wasmjit_compile_invoker for the compiled function prof.callee.
CompileInvoker ==
    /\ phase = "begin" /\ prof.kind = "invoker"
    /\ output' = Emit(<<>>, compile_invoker(Function.in, CodeAddr(prof.callee), Function.flags))
    /\ phase' = "done"
    /\ UNCHANGED << prof, prog, ctl, sstack, labels, branches, max_stack, marks, operands,
                    unlabelled >>

Offers == IF Len(prog) < Len(prof.steps) THEN prof.steps[Len(prog) + 1] ELSE {}

CNext ==
    \/ Begin \/ Finish \/ CompileHostfunc \/ CompileInvoker
    \/ \E in \in Offers :
          \/ Instruction(in) \/ Unencodable(in) \/ BlockHeader(in) \/ IfHeader(in)
          \/ BlockFooter(in) \/ ElseFooter(in) \/ IfFooter(in)

=============================================================================
