----------------------------- MODULE MCStatic -----------------------------
(* Model-checking instances of Static: Emscripten programs, programs of    *)
(* two compiled modules, and programs that are refused at some point.      *)
EXTENDS StaticCorrect

Limits(min, max) == [min |-> min, max |-> max]
GlobalType(t, mut) == [valtype |-> t, mut |-> mut]
Const(t, v) == <<[op |-> "const", type |-> t, value |-> v]>>
GetGlobal(k) == <<[op |-> "get_global", idx |-> k]>>
Ref1(t, k) == [type |-> t, idx |-> k]
Func(t, n) == [name |-> n, type |-> t]

(* The runtime, for a program with static data of the given size.          *)
Env(bump) ==
    LET g == derive_memory_globals(bump)
        I32(name, v) == [name |-> name, type |-> GlobalType("i32", 0), value |-> v]
    IN  [host |-> TRUE, constructor |-> TRUE, start |-> TRUE,
         funcs |-> <<Func("void", "abort"), Func("ii", "syscall")>>,
         tables |-> <<[name |-> "table", min |-> 4, max |-> 4]>>,
         mems |-> <<[name |-> "memory", min |-> 16, max |-> 16]>>,
         globals |-> <<I32("memory_base", g.memory_base), I32("table_base", g.table_base),
                       I32("DYNAMICTOP_PTR", g.DYNAMICTOP_PTR), I32("STACKTOP", g.STACKTOP),
                       I32("STACK_MAX", g.STACK_MAX)>>]

GlobalModule ==
    [host |-> TRUE, constructor |-> FALSE, start |-> FALSE, funcs |-> <<>>, tables |-> <<>>, mems |-> <<>>,
     globals |-> <<[name |-> "NaN", type |-> GlobalType("f64", 0), value |-> 9]>>]

From(m, k, n, t) == [module |-> m, kind |-> k, name |-> n, type |-> t]
Export(k, n, i) == [kind |-> k, name |-> n, idx |-> i]

(* A program of Emscripten.                                                *)
Asm ==
    [host |-> FALSE, constructor |-> TRUE, types |-> <<"ii", "void">>,
     imports |-> <<From("env", "global", "STACKTOP", GlobalType("i32", 0)),
                   From("env", "func", "syscall", "ii"),
                   From("global", "global", "NaN", GlobalType("f64", 0)),
                   From("env", "mem", "memory", Limits(16, 16)),
                   From("env", "table", "table", Limits(4, 4)),
                   From("env", "global", "table_base", GlobalType("i32", 0)),
                   From("env", "func", "abort", "void"),
                   From("env", "global", "memory_base", GlobalType("i32", 0))>>,
     functions |-> <<1, 0>>, tables |-> <<>>, mems |-> <<>>,
     globals |-> <<[type |-> GlobalType("i32", 1), init |-> GetGlobal(0)],
                   [type |-> GlobalType("i64", 1), init |-> Const("i64", 5)],
                   [type |-> GlobalType("f64", 1), init |-> GetGlobal(1)]>>,
     elements |-> <<[tableidx |-> 0, offset |-> GetGlobal(2), funcidxs |-> <<2, 0>>],
                    [tableidx |-> 0, offset |-> Const("i32", 3), funcidxs |-> <<3>>]>>,
     datas |-> <<[memidx |-> 0, offset |-> GetGlobal(3), buf |-> <<7, 8>>],
                 [memidx |-> 0, offset |-> Const("i32", 3), buf |-> <<6, 5>>]>>,
     start |-> 3,
     exports |-> <<Export("func", "main", 3), Export("global", "sp", 4), Export("global", "nan", 6)>>,
     codes |-> <<<<Ref1("func", 0), Ref1("trap", 0), Ref1("global", 4), Ref1("func", 3)>>,
                 <<Ref1("mem", 0), Ref1("type", 1), Ref1("table", 0), Ref1("resolve_indirect_call", 0)>>>>]

(* A module that links against it, with tables and memories of its own.    *)
Lib ==
    [host |-> FALSE, constructor |-> TRUE, types |-> <<"void", "ii", "vi">>,
     imports |-> <<From("asm", "global", "sp", GlobalType("i32", 1)), From("asm", "func", "main", "ii")>>,
     functions |-> <<2, 0, 0>>,
     tables |-> <<Limits(2, 3), Limits(1, 0)>>, mems |-> <<Limits(3, 0), Limits(2, 2)>>,
     globals |-> <<[type |-> GlobalType("i32", 0), init |-> GetGlobal(0)],
                   [type |-> GlobalType("i32", 0), init |-> Const("i32", 1)],
                   [type |-> GlobalType("i32", 1), init |-> Const("i32", 0)]>>,
     elements |-> <<[tableidx |-> 0, offset |-> GetGlobal(2), funcidxs |-> <<1>>],
                    [tableidx |-> 1, offset |-> Const("i32", 0), funcidxs |-> <<0>>]>>,
     datas |-> <<[memidx |-> 0, offset |-> Const("i32", 1), buf |-> <<2, 3>>],
                 [memidx |-> 1, offset |-> Const("i32", 0), buf |-> <<4, 5>>]>>,
     start |-> 4, exports |-> <<Export("mem", "heap", 1), Export("table", "fns", 0)>>,
     codes |-> <<<<Ref1("table", 1), Ref1("mem", 1), Ref1("global", 2)>>, <<Ref1("func", 3)>>, <<>>>>]

Program(asm) == [env |-> Env(4), global |-> GlobalModule, asm |-> asm]
Both(lib) == [env |-> Env(4), global |-> GlobalModule, asm |-> Asm, lib |-> lib]

(* Lib with segments whose offsets are a global of Asm and no global that  *)
(* is: nothing initialises Asm first.                                      *)
LibEarly ==
    [Lib EXCEPT !.globals[1].init = Const("i32", 1),
                !.tables[1] = Limits(9, 0), !.elements[1].offset = GetGlobal(0),
                !.mems[1] = Limits(10, 0), !.datas[1].offset = GetGlobal(0)]

(* Asm with a global that takes its value from Lib, whose first global     *)
(* takes its value from Asm.                                               *)
AsmOfLib ==
    [Asm EXCEPT !.imports = Append(@, From("lib", "global", "one", GlobalType("i32", 0))),
                !.globals = Append(@, [type |-> GlobalType("i32", 0), init |-> GetGlobal(4)]),
                !.exports = <<Export("func", "main", 3), Export("global", "sp", 5)>>,
                !.codes[1][3] = Ref1("global", 5)]
Cycle == [env |-> Env(4), global |-> GlobalModule, asm |-> AsmOfLib,
          lib |-> [Lib EXCEPT !.exports = Append(@, Export("global", "one", 2))]]

MCPrograms == {
    Program(Asm), Both(Lib), Both(LibEarly), Cycle,
    (* refused by the writer *)
    Program([Asm EXCEPT !.globals[1].init = GetGlobal(4)]),
    Program([Asm EXCEPT !.elements[1].offset = <<>>]),
    Program([Asm EXCEPT !.datas[1].offset = <<>>]),
    Program([Asm EXCEPT !.globals[1].init = <<>>]),
    (* not linked: a name that is not defined, or of another kind *)
    Program([Asm EXCEPT !.imports[2].name = "main"]),
    Program([Asm EXCEPT !.imports[2].name = "memory"]),
    (* trapped *)
    Program([Asm EXCEPT !.imports[2].type = "void"]),
    Program([Asm EXCEPT !.imports[4].type = Limits(17, 0)]),
    Program([Asm EXCEPT !.imports[5].type = Limits(2, 3)]),
    Program([Asm EXCEPT !.elements[2].offset = Const("i32", 4)]),
    Program([Asm EXCEPT !.datas[2].offset = Const("i64", 0)]),
    Program([Asm EXCEPT !.start = 4]),
    Both([Lib EXCEPT !.datas[2].buf = <<4, 5, 6>>]),
    Both([Lib EXCEPT !.elements[1].funcidxs = <<1, 2>>])}
=============================================================================
