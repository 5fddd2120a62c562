------------------------------ MODULE MCCompile ------------------------------
(***************************************************************************)
(* Instances of CompiledCode.  A byte has one bit, so an i32 has 4 bits    *)
(* and an i64 has 8.                                                       *)
(***************************************************************************)
EXTENDS CompiledCode

\* Input types of host functions: registers left, none left, odd and even
\* numbers of stack arguments, floats on the stack with integers in registers.
TrampolineTypes ==
    << <<>>, <<"i32">>, <<"f64", "i32", "f32">>, [i \in 1..5 |-> "i64"], [i \in 1..6 |-> "i32"],
       [i \in 1..7 |-> "i64"], [i \in 1..8 |-> "i32"], [i \in 1..9 |-> "i64"],
       [i \in 1..9 |-> "f64"] \o <<"i32">>, [i \in 1..9 |-> "f32"] \o [i \in 1..7 |-> "i32"] >>

\* Inputs of compiled functions: also floats for which the invoker takes the
\* register of another one.
InvokerTypes ==
    << <<"i32", "f64">>, <<"f64", "f64">>, <<"f32", "f64", "i64">>, <<>>, <<"i32">>,
       <<"i32", "i32">>, <<"f64", "i32", "f32">>, [i \in 1..6 |-> "i64"],
       [i \in 1..7 |-> "i32"], [i \in 1..8 |-> "i64"], <<"f64">> \o [i \in 1..8 |-> "i32"] >>

MCCallees ==
    << [in |-> <<>>, out |-> "none", usage |-> 20],
       [in |-> <<"i32">>, out |-> "i32", usage |-> 20],
       [in |-> <<"i64", "f64", "i32">>, out |-> "f64", usage |-> 20],
       [in |-> <<"f32", "i32">>, out |-> "f32", usage |-> 20],
       [in |-> [i \in 1..7 |-> "i32"], out |-> "i64", usage |-> 20],
       [in |-> [i \in 1..8 |-> "i32"], out |-> "i64", usage |-> 20],
       [in |-> [i \in 1..7 |-> "i32"] \o << "f64" >>, out |-> "none", usage |-> 20] >>
    \o [i \in DOMAIN TrampolineTypes |->
           [in |-> TrampolineTypes[i] \o << "i64" >>, out |-> "i32", usage |-> 0]]
    \o [i \in DOMAIN InvokerTypes |->
           [in |-> InvokerTypes[i], out |-> "f64", usage |-> 0]]

MCGlobals == << "i32", "f64" >>
MCTable == << 2, 0, 1 >>

Fn(in, out, locals, check, flags) ==
    [in |-> in, out |-> out, locals |-> locals, check |-> check, flags |-> flags]

Profile(fn, steps, args) ==
    [kind |-> "function", fn |-> fn, callee |-> 0, steps |-> steps, args |-> args,
     limits |-> {0}, garbage |-> 160,
     mem |-> <<1, 0, 1, 1, 0, 1, 0, 0, 1, 0>>, globals |-> <<5, 3>>]

Get(i) == In("get_local", 0, "", i)
Set(i) == In("set_local", 0, "", i)
I32(v) == In("const", 32, "i32", v)
Op(op) == In(op, 0, "", 0)
Block(op, t) == In(op, 0, t, 0)
Br(op, n) == In(op, 0, "", n)

-----------------------------------------------------------------------------
\* Every program of up to five instructions over these, and longer ones where
\* branches leave blocks with several operands on the stack.
ControlInstrs ==
    { Get(1), Set(2), Block("block", "none"), Block("block", "i32"), Block("loop", "none"),
      Block("if", "none"), Block("if", "i32"), Op("else"), Op("end"), Br("br", 0), Br("br", 1),
      Br("br_if", 0), Br("br_if", 1), BrTable(<<1, 0>>, 0), Op("return"), Op("unreachable"),
      Op("nop") }

ControlFn(flags) == Fn(<<"i32">>, "i32", <<"i32">>, TRUE, flags)
SmallArgs == {<<0>>, <<1>>, <<2>>}

Control(flags) == Profile(ControlFn(flags), [i \in 1..5 |-> ControlInstrs], SmallArgs)

\* Six instructions, the fewest for a conditional with an operand in each arm.
Control6(flags) ==
    Profile(ControlFn(flags),
            [i \in 1..6 |-> { Get(1), Set(2), Block("block", "i32"), Block("loop", "none"),
                              Block("if", "i32"), Op("else"), Op("end"), Br("br_if", 0),
                              Br("br", 0), Br("br_if", 1) }],
            SmallArgs)

Branches ==
    { Br("br", 0), Br("br", 1), Br("br_if", 0), Br("br_if", 1), BrTable(<<1, 0>>, 0),
      BrTable(<<>>, 1), Op("return") }

Nested(flags) ==
    Profile(ControlFn(flags),
            << {I32(3)}, {Block("block", "i32"), Block("loop", "i32")}, {I32(4)},
               {Block("block", "i32"), Block("loop", "i32")},
               {I32(5)}, {I32(6)}, {Get(1)}, Branches, {Op("end"), Op("drop")},
               {Op("end"), Set(2), Op("drop")}, {Op("end"), Set(2)}, {Op("end"), Set(2)},
               {Op("end"), Set(2)}, {Set(2)} >>,
            SmallArgs)

IfElse(flags) ==
    Profile(ControlFn(flags),
            << {Get(1)}, {Block("if", "i32")}, {Get(1)}, {Block("if", "i32"), Set(2)},
               {I32(4)}, {Br("br", 1), Br("br", 0), Op("nop")}, {Op("else")}, {I32(5)},
               {Op("end")}, {Op("else")}, {I32(6)}, {Op("end"), Br("br", 0)}, {Op("end")} >>,
            SmallArgs)

\* Code that cannot be reached.
DeadInstrs ==
    { Op("drop"), Op("select"), Get(1), Set(2), Br("br_if", 0), BrTable(<<0>>, 0), Op("return"),
      Block("block", "none"), Block("if", "none"), Op("else"), Op("end"), Op("i64_eqz") }

Dead ==
    Profile(ControlFn("intel"),
            << {I32(3)}, {I32(4)}, {Block("block", "i32"), Block("if", "i32")}, {Get(1)},
               {Op("unreachable"), Op("return"), Br("br", 0)}, DeadInstrs, DeadInstrs,
               DeadInstrs, {Op("else"), Op("end")}, {Get(1), Op("end"), Op("drop")},
               {Op("end"), Set(2)}, {Set(2)} >>,
            SmallArgs)

\* The label of the outer block is replaced by an operand.
LabelReplaced ==
    Profile(ControlFn("intel"),
            << {Block("block", "none")}, {Block("block", "none")}, {Br("br", 0)}, {Op("drop")},
               {Op("drop")}, {Get(1)}, {Op("return")}, {Op("end")}, {Get(1)}, {Set(2)}, {Op("end")},
               {Get(1)} >>,
            SmallArgs)

\* Branches to the label of the function.
FunctionLabel ==
    Profile(ControlFn("intel"),
            << {Block("block", "none"), Block("block", "i32")}, {I32(4)}, {I32(5)}, {Get(1)},
               {Br("br_if", 1), BrTable(<<1>>, 1), BrTable(<<0, 1>>, 0)},
               {Op("drop"), Op("end")}, {Op("drop"), Op("end")}, {Op("end"), Op("drop")},
               {Get(1)} >>,
            SmallArgs)

-----------------------------------------------------------------------------
\* Numbers.
Pairs(V) == V \X V
Unary(t, u, ops, V) ==
    Profile(Fn(<<t>>, u, <<>>, FALSE, "intel"), << {Get(1)}, ops >>, {<<v>> : v \in V})
Two(t, u, ops, V) ==
    Profile(Fn(<<t, t>>, u, <<>>, FALSE, "intel"), << {Get(1)}, {Get(2)}, ops >>, Pairs(V))

V32 == {0, 1, 2, 5, 7, 8, 9, 15}
V64 == {0, 1, 7, 8, 16, 127, 128, 200, 255}
VF64 == {0, 1, 3, 64, 65, 125, 126, 127, 128, 129, 200, 254, 255}

Ops(op, w, fs) == {In(op, w, f, 0) : f \in fs}
CompareOps == {"eq", "ne", "lt_s", "lt_u", "gt_s", "gt_u", "le_s", "le_u", "ge_s", "ge_u"}
ArithOps == {"add", "sub", "mul", "and", "or", "xor"}
DivideOps == {"div_s", "div_u", "rem_s", "rem_u"}
ShiftOps == {"shl", "shr_s", "shr_u"}

Numeric ==
    { Two("i32", "i32", Ops("cmp", 32, CompareOps) \cup Ops("arith", 32, ArithOps)
                        \cup Ops("shift", 32, ShiftOps), V32),
      Two("i32", "i32", Ops("divide", 32, DivideOps), V32),
      Two("i64", "i64", Ops("arith", 64, ArithOps) \cup Ops("shift", 64, ShiftOps), V64),
      Two("i64", "i64", Ops("divide", 64, DivideOps), V64),
      Two("i64", "i32", Ops("cmp", 64, {"eq", "ne", "lt_s", "lt_u", "gt_u"}), V64),
      Two("f64", "i32", Ops("fcmp", 64, {"eq", "ne", "lt"}), VF64),
      Two("f64", "f64", Ops("farith", 64, {"add", "sub", "mul"}), VF64),
      Unary("i32", "i32", {Op("eqz")}, 0..15),
      Unary("i64", "i32", {Op("i64_eqz")}, V64),
      Unary("f64", "f64", {Op("fneg")}, VF64) }

C(f) == In("convert", 0, f, 0)
Conversions ==
    { Unary("i64", "i32", {C("i32_wrap_i64")}, V64),
      Unary("f64", "i32", {C("i32_trunc_s_f64")}, 0..9 \cup 126..138),
      Unary("f64", "i32", {C("i32_trunc_u_f64")}, 0..17 \cup {126, 127, 128, 129}),
      Unary("i32", "i64", {C("i64_extend_s_i32"), C("i64_extend_u_i32")}, 0..15),
      Unary("f64", "i64", {C("i64_trunc_s_f64")},
            {0, 1, 64, 79, 80, 126, 127, 128, 129, 192, 208, 209, 254}),
      Unary("f64", "i64", {C("i64_trunc_u_f64")}, 0..130),
      Unary("i32", "f64", {C("f64_convert_s_i32"), C("f64_convert_u_i32")}, 0..15),
      Unary("i64", "f64", {C("f64_convert_s_i64"), C("f64_reinterpret_i64")}, V64),
      Unary("f32", "f64", {C("f64_promote_f32")}, 0..15),
      Unary("f64", "i64", {C("i64_reinterpret_f64")}, VF64) }

-----------------------------------------------------------------------------
\* Memory, variables and calls.
LoadInstrs ==
    { Access("load", a[1], a[2], a[3], n) : n \in {0, 2},
      a \in { <<"i32", 1, "s">>, <<"i32", 1, "u">>, <<"i32", 2, "s">>, <<"i32", 2, "u">>,
              <<"i32", 4, "u">> } }
StoreInstrs(t, sizes) == { Access("store", t, k, "", n) : n \in {0, 1, 3, 15}, k \in sizes }

Load(t, size) ==
    Profile(Fn(<<"i32">>, t, <<>>, FALSE, "intel"),
            << {Get(1)}, {Access("load", t, size, "u", n) : n \in 0..1} >>, {<<v>> : v \in 0..15})

StoreThenLoad(t, sizes, V) ==
    Profile(Fn(<<"i32", t>>, "none", <<>>, FALSE, "intel"),
            << {Get(1)}, {Get(2)}, StoreInstrs(t, sizes) >>, (0..15) \X V)

Memory ==
    { Profile(Fn(<<"i32">>, "i32", <<>>, FALSE, "none"), << {Get(1)}, LoadInstrs >>,
              {<<v>> : v \in 0..15}),
      Load("i64", 8), Load("f64", 8),
      StoreThenLoad("i32", {1, 2, 4}, {10, 7}), StoreThenLoad("i64", {1, 4, 8}, {170, 86}),
      StoreThenLoad("f32", {4}, {9}), StoreThenLoad("f64", {8}, {154}) }

Global(op, i) == In(op, 0, "", i)

Variables ==
    { Profile(Fn(<<"i32", "f32">>, "i32", <<"i64", "f64">>, TRUE, "intel"),
              << {Get(1)}, {Global("set_global", 1), In("tee_local", 0, "", 1)},
                 {Global("get_global", 2), Get(4)}, {Global("set_global", 2), Set(4)},
                 {Get(3), Get(2)}, {Op("drop"), Set(3)}, {I32(9)}, {Global("get_global", 1)},
                 {Get(1)}, {Op("select")} >>,
              {<<0, 3>>, <<2, 12>>}) }

CallFn(k, locals, out, check, flags) ==
    Fn([i \in 1..k |-> "i32"], out, locals, check, flags)

Limited(p) == [p EXCEPT !.limits = {0} \cup 18..40]

F64(v) == In("const", 64, "f64", v)
I64(v) == In("const", 64, "i64", v)

CallOnce(locals, check, flags) ==
    Limited(Profile(CallFn(1, locals, "i32", check, flags),
            << {I32(6)}, {Get(1)}, {In("call", 0, "", 1), Op("nop")},
               {In("call", 0, "", 2), In("call_indirect", 0, "", 1),
                In("call_indirect", 0, "", 2)},
               {Op("drop"), In("call", 0, "", 1)}, {Op("drop")} >>, {<<v>> : v \in 0..3}))

CallMixed(locals) ==
    Limited(Profile(CallFn(1, locals, "f64", TRUE, "intel"),
            << {I64(77)}, {F64(33)}, {Get(1)}, {In("call", 0, "", 3)} >>, {<<5>>}))

CallSpilled(locals) ==
    Limited(Profile(CallFn(7, locals, "i64", TRUE, "intel"),
            [i \in 1..7 |-> {Get(i)}] \o << {In("call", 0, "", 5)} >>,
            {<<1, 2, 3, 4, 5, 6, 7>>}))

CallWrong ==
    { Profile(CallFn(8, <<>>, "i64", TRUE, "intel"),
              [i \in 1..8 |-> {Get(i)}] \o << {In("call", 0, "", 6)} >>,
              {<<1, 2, 3, 4, 5, 6, 7, 8>>}),
      Profile(CallFn(7, <<"i32">>, "none", TRUE, "intel"),
              [i \in 1..7 |-> {Get(i)}] \o << {F64(33)}, {In("call", 0, "", 7)} >>,
              {<<1, 2, 3, 4, 5, 6, 7>>}) }

\* What is done with an i32 whose upper half is undefined.
UsesOf(fn, unclean, args) ==
    { Profile([fn EXCEPT !.out = "i64"],
              unclean \o << {C("i64_extend_u_i32"), C("i64_extend_s_i32")} >>, args),
      Profile(fn, unclean \o << {Set(1)}, {Get(1)}, {I32(3)},
                                Ops("cmp", 32, CompareOps) \cup Ops("arith", 32, ArithOps)
                                \cup Ops("shift", 32, ShiftOps)
                                \cup Ops("divide", 32, DivideOps) >>, args),
      Profile(fn, unclean \o << {Op("eqz"), Global("set_global", 1)}
                                \cup {In("call", 0, "", 2), Access("load", "i32", 1, "u", 0)} >>
                         \o << {Op("nop"), Global("get_global", 1)} >>, args),
      Profile([fn EXCEPT !.out = "none"],
              unclean \o << {I32(3)}, {Access("store", "i32", 1, "", 0)} >>, args) }

UncleanResult ==
    UsesOf(CallFn(1, <<>>, "i32", FALSE, "intel"), << {Get(1)}, {In("call", 0, "", 2)} >>,
            {<<v>> : v \in 0..3})
UncleanArgument ==
    UsesOf(CallFn(7, <<>>, "i32", FALSE, "intel"), << {Get(7)} >>,
            {<<1, 2, 3, 4, 5, 6, v>> : v \in {0, 7, 15}})

\* Functions that return an f32.
FloatResults ==
    { Profile(Fn(<<>>, "f32", <<>>, TRUE, "intel"), << {In("const", 32, "f32", 11)} >>, {<<>>}),
      Profile(Fn(<<"i32", "f32">>, "f32", <<"i32">>, FALSE, "intel"),
              << {Get(2)}, {Op("nop"), Op("return")} >>, {<<0, 3>>, <<2, 12>>}) }

Calls ==
    { CallOnce(<<>>, TRUE, "intel"), CallOnce(<<"i32">>, TRUE, "none"),
       CallOnce(<<"i32">>, FALSE, "intel"), CallMixed(<<>>), CallMixed(<<"i32">>),
       CallSpilled(<<>>), CallSpilled(<<"i32">>), CallSpilled(<<"i32", "i64">>),
       Profile(CallFn(1, <<>>, "none", TRUE, "intel"),
               << {In("const", 32, "f32", 11)}, {Get(1)}, {In("call", 0, "", 4)}, {Op("drop")} >>,
               {<<5>>}) }

\* Distinct arguments, the number of the argument in each.
Trampoline(kind, i, flags) ==
    LET in == IF kind = "hostfunc" THEN Front(MCCallees[i].in) ELSE MCCallees[i].in
    IN  [Profile(Fn(in, MCCallees[i].out, <<>>, FALSE, flags), <<>>,
                 {[j \in DOMAIN in |-> j % 16]})
         EXCEPT !.kind = kind, !.callee = i]

Trampolines ==
    { Trampoline("hostfunc", 7 + i, flags) :
           i \in DOMAIN TrampolineTypes, flags \in {"intel", "none"} }
    \cup { Trampoline("invoker", 7 + Len(TrampolineTypes) + i, flags) :
           i \in DOMAIN InvokerTypes, flags \in {"intel", "none"} }

MCProfiles ==
    {Control("intel"), Control6("none"), Nested("intel"), Nested("none"), IfElse("intel"),
     Dead, LabelReplaced, FunctionLabel}
    \cup CallWrong \cup UncleanResult \cup UncleanArgument \cup FloatResults
    \cup Numeric \cup Conversions \cup Memory \cup Variables \cup Calls
    \cup Trampolines

\* The flags that wasmjit_detect_retpoline_flags chooses on an AMD processor.
AmdProfiles ==
    { Profile(Fn(<<"i32">>, "i32", <<>>, TRUE, "amd"),
              << {Get(1)}, {In("call", 0, "", 2), Op("unreachable"), Op("nop")} >>, SmallArgs),
      Trampoline("hostfunc", 9, "amd") }

=============================================================================
