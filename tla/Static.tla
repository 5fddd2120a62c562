------------------------------- MODULE Static -------------------------------
(***************************************************************************)
(* Programs of statically compiled modules: the modules of the C runtime   *)
(* (static_emscripten_runtime.c), the objects of Elf, the linker           *)
(* (external), and wasmjit_init_static_module, which every module's        *)
(* constructor calls.  Constructors of different objects run in any order, *)
(* before main; initialising a module initialises, first, the modules its  *)
(* globals take their values from.                                         *)
(*                                                                         *)
(* After linking, memory is image[module][section]: every pointer of the   *)
(* code below goes through it.                                             *)
(***************************************************************************)
EXTENDS Elf, TLC

CONSTANTS
    StackAlign,   \* STACK_ALIGN_V
    TotalStack,   \* TOTAL_STACK
    GlobalBase,   \* GLOBAL_BASE
    WordValues,   \* 2^32, scaled down with the memory
    MaxFrames     \* nested calls for which the C stack has room

VARIABLES
    hosts,      \* the modules of the runtime still to be compiled
    hpass,      \* how much of the first of them is
    image,      \* the memory of the program
    pending,    \* the modules whose constructor has not run
    frames,     \* calls of wasmjit_init_static_module, the innermost last
    started,    \* the modules whose start function was called, in order
    status      \* "building", "running", "main", or how it ended

runVars == <<hosts, hpass, image, pending, frames, started, status>>
vars == <<elfVars, runVars>>

-----------------------------------------------------------------------------
(* A module of the C runtime: instances with static initialisers, arrays   *)
(* of references to them, and a StaticModuleInst without types, imports,   *)
(* initialisers or segments.                                               *)

alignMemory(size, factor) ==
    IF size % factor # 0 THEN size - (size % factor) + factor ELSE size

(* Mutant: static data is not counted.                                     *)
derive_memory_globals_no_bump(static_bump) ==
    [memory_base |-> GlobalBase, table_base |-> 0, tempDoublePtr |-> GlobalBase,
     DYNAMICTOP_PTR |-> GlobalBase + StackAlign, STACKTOP |-> GlobalBase + 2 * StackAlign,
     STACK_MAX |-> GlobalBase + 2 * StackAlign + TotalStack]

(* The addresses that main -p prints for the env module of a program.      *)
derive_memory_globals(static_bump) ==
    LET Word(n) == n % WordValues
        top == Word(GlobalBase + static_bump)
        ptr == Word(top + StackAlign)
        stack == Word(ptr + StackAlign)
        base == alignMemory(Word(stack - (stack % StackAlign)), StackAlign)
    IN  [memory_base |-> GlobalBase, table_base |-> 0, tempDoublePtr |-> top,
         DYNAMICTOP_PTR |-> ptr,
         STACKTOP |-> base, STACK_MAX |-> Word(base + TotalStack)]

HostFunction(v, k, m) ==
    Instance(v, "func", <<"function", k - 1>>, m.funcs[k].type,
             Struct("FuncInst", [type |-> Type(m.funcs[k].type)]))
HostTable(v, k, m) ==
    LET t == m.tables[k]
    IN  Instance(v, "table", <<"table", k - 1>>, [t EXCEPT !.min = t.max],
                 Struct("TableInst", [length |-> Num(t.max), max |-> Num(t.max)]))
HostMemory(v, k, m) ==
    LET t == m.mems[k]
    IN  Instance(v, "mem", <<"memory", k - 1>>, t, Struct("MemInst", [size |-> Num(t.min), max |-> Num(t.min)]))
HostGlobal(v, k, m) ==
    LET g == m.globals[k]
    IN  Instance(v, "global", <<"global", k - 1>>, g.type,
                 Struct("GlobalInst", [value |-> Val(g.type.valtype, g.value), mut |-> Num(g.type.mut)]))

HostInstances(w, m) ==
    LET data == Mark(w, "data", Len(w.output))
        funcs == FoldLeft(LAMBDA v, k : HostFunction(v, k, m), data, Count(m.funcs))
        tables == FoldLeft(LAMBDA v, k : HostTable(v, k, m), funcs, Count(m.tables))
        mems == FoldLeft(LAMBDA v, k : HostMemory(v, k, m), tables, Count(m.mems))
    IN  FoldLeft(LAMBDA v, k : HostGlobal(v, k, m), mems, Count(m.globals))

(* The start function is not an entry of the arrays.                       *)
HostStart(w, m) ==
    IF m.start THEN Instance(w, "func", <<"__start_func__">>, "void", Struct("FuncInst", [type |-> Type("void")]))
    ELSE w

HostModule(w, m) ==
    LET fixed == [f \in ToSet(Fields["StaticModuleInst"]) \ ToSet(Kinds) |->
                    CASE f = "n_func" -> Num(Len(m.funcs)) [] f = "n_table" -> Num(Len(m.tables))
                      [] f = "n_mem" -> Num(Len(m.mems)) [] f = "n_global" -> Num(Len(m.globals))
                      [] f = "start_func" -> NULL [] OTHER -> Num(0)]
        refs == FoldLeft(LAMBDA v, kind : NextArray(v, kind, "refs"), w, Kinds)
        named == Mark(Mark(refs, "module", NSymbols(w)), "static_module", NSymbols(w))
    IN  Datum(IF m.start THEN DataPtr(named, SmiField(w, "start_func"), Last(w.inst["func"]).symidx) ELSE named,
              <<"module_inst">>, Struct("StaticModuleInst", fixed))

(* Exported are the instances by their names, and the module.              *)
HostExports(w, n, m) ==
    LET Names(kind) == CASE kind = "func" -> m.funcs [] kind = "table" -> m.tables
                         [] kind = "mem" -> m.mems [] OTHER -> m.globals
        Export1(v, kind) == FoldLeft(LAMBDA u, k : Copy(u, <<n, Names(kind)[k].name, kind>>, w.inst[kind][k].symidx),
                                     v, Count(Names(kind)))
    IN  Copy(FoldLeft(Export1, w, Kinds), <<n, "module">>, w.mark.static_module)

(* External: the C compiler.  The text of such an object is a constructor  *)
(* as in Elf and, for each function, code and invoker.                     *)
HostPasses == <<"data", "arrays", "module", "text", "symbols", "exports">>

HostDo(p, w, n) ==
    LET m == prog[n]
        code == [functions |-> w.inst["func"], codes |-> [k \in DOMAIN w.inst["func"] |-> <<>>], start |-> 0]
    IN  CASE p = "data" -> HostInstances(add_symbol(w, <<>>, "local", "undef", 0, 0), m)
          [] p = "arrays" -> RefArrays(w, m)
          [] p = "module" -> HostModule(HostStart(ArrayRelocations(w, m), m), m)
          [] p = "text" -> Bss(CodeReferences(Codes(Constructor(w, m), code), code), m)
          [] p = "symbols" -> CodeRelocations(StartRelocations(Externals(w, m), code), code)
          [] p = "exports" -> Sections(HostExports(w, n, m), m)

(* hosts: the modules that remain; hpass: the passes done for the current. *)
CompileHost ==
    /\ status = "building"
    /\ pass = "written"
    /\ todo = {}
    /\ hosts # <<>>
    /\ LET n == Head(hosts)
           w == HostDo(HostPasses[hpass + 1], IF hpass = 0 THEN Empty ELSE o, n)
       IN  /\ o' = w
           /\ IF hpass + 1 = Len(HostPasses)
              THEN /\ objects' = (n :> w) @@ objects
                   /\ hosts' = Tail(hosts)
                   /\ hpass' = 0
              ELSE /\ hpass' = hpass + 1
                   /\ UNCHANGED <<objects, hosts>>
    /\ UNCHANGED <<prog, todo, cur, pass, image, pending, frames, started, status>>

-----------------------------------------------------------------------------
(* External: the linker.                                                   *)

Contents(obj, sect) ==
    LET s == obj.sections[sect] IN SubSeq(obj.output, s.offset + 1, s.offset + s.size)
Symtab(obj) == LET e == Contents(obj, "symtab") IN [k \in 1..Len(e) |-> e[k][2]]
Relocations(obj, sect) == {r \in ToSet(Contents(obj, sect)) : r[1] = "rela"}

(* Only symbols from the first global one on are seen by other objects.    *)
Visible(obj) == {s \in ToSet(SubSeq(Symtab(obj), obj.sections.symtab.info + 1, Len(Symtab(obj)))) :
                    s.bind = "global"}
Runtime == {<<"init_static_module">>, <<"resolve_indirect_call">>, <<"trap">>}
Definitions(objs, name) ==
    {n \in DOMAIN objs : \E s \in Visible(objs[n]) : s.name = name /\ s.shndx # "undef"}

Linkable(objs) ==
    /\ \A n \in DOMAIN objs : \A s \in Visible(objs[n]) :
        \/ s.name \in Runtime
        \/ \E d \in DOMAIN objs : Definitions(objs, s.name) = {d}
    /\ \A n \in DOMAIN objs : \A r, s \in Visible(objs[n]) :
        r.name = s.name /\ r.shndx # "undef" => r = s

Target(objs, n, sym) ==
    LET s == Symtab(objs[n])[sym + 1]
    IN  CASE s.shndx # "undef" -> Ptr(n, s.shndx, s.value)
          [] s.name \in Runtime -> Ptr("runtime", s.name[1], 0)
          [] OTHER -> LET d == CHOOSE d \in Definitions(objs, s.name) : TRUE
                          t == CHOOSE t \in Visible(objs[d]) : t.name = s.name /\ t.shndx # "undef"
                      IN  Ptr(d, t.shndx, t.value)

Relocated(objs, n, sect, rela) ==
    LET units == Contents(objs[n], sect)
        relocs == Relocations(objs[n], rela)
    IN  [k \in 1..Len(units) |->
            IF \E r \in relocs : r[2] = k - 1
            THEN Target(objs, n, (CHOOSE r \in relocs : r[2] = k - 1)[3]) ELSE units[k]]

Linked(objs) ==
    [n \in DOMAIN objs |->
        [data |-> Relocated(objs, n, "data", "rela_data"),
         text |-> Relocated(objs, n, "text", "rela_text"),
         init_array |-> Relocated(objs, n, "init_array", "rela_init_array"),
         bss |-> [k \in 1..objs[n].sections.bss.size |-> NULL]]]

Link ==
    /\ status = "building"
    /\ pass = "written"
    /\ todo = {}
    /\ hosts = <<>>
    /\ IF Linkable(objects)
       THEN /\ status' = "running"
            /\ image' = Linked(objects)
            /\ pending' = {n \in DOMAIN prog : prog[n].constructor}
       ELSE status' = "unlinked" /\ UNCHANGED <<image, pending>>
    /\ UNCHANGED <<elfVars, hosts, hpass, frames, started>>

-----------------------------------------------------------------------------
(* Memory.                                                                 *)

Plus(a, k) == Ptr(a[2], a[3], a[4] + k)
Load(a) == image[a[2]][a[3]][a[4] + 1]
Field(a, s, f) == Load(Plus(a, offsetof(s, f)))
FieldN(a, s, f) == Field(a, s, f)[2]
Smi(a, f) == Field(a, "StaticModuleInst", f)
SmiN(a, f) == Smi(a, f)[2]
Ref(a, kind, k) == Load(Plus(Smi(a, kind), k))
Item(a, f, s, k) == Plus(Smi(a, f), k * sizeof(s))

(* The units from address a on become vs.                                  *)
Stored(a, vs) ==
    [image EXCEPT ![a[2]][a[3]] =
        [k \in DOMAIN @ |-> IF k - 1 - a[4] \in 0..Len(vs)-1 THEN vs[k - a[4]] ELSE @[k]]]

-----------------------------------------------------------------------------
(* wasmjit_typecheck_*.                                                    *)

typecheck_func(t, f) == Field(f, "FuncInst", "type") = Type(t)
InLimits(t, size, max) == size >= t.min /\ (t.max = 0 \/ (max # 0 /\ max <= t.max))
typecheck_table(t, a) == InLimits(t, FieldN(a, "TableInst", "length"), FieldN(a, "TableInst", "max"))
typecheck_memory(t, a) == InLimits(t, FieldN(a, "MemInst", "size"), FieldN(a, "MemInst", "max"))
typecheck_global(t, a) ==
    FieldN(a, "GlobalInst", "value") = t.valtype /\ FieldN(a, "GlobalInst", "mut") = t.mut

(* All imports have the types they were compiled for.                      *)
ImportsTyped(smi) ==
    LET Expected(f, k) == Load(Plus(Smi(smi, f), k))[2]
        Indices(n) == 0..SmiN(smi, n) - 1
    IN  /\ \A k \in Indices("n_func_types") : typecheck_func(Expected("func_types", k), Ref(smi, "func", k))
        /\ \A k \in Indices("n_table_types") : typecheck_table(Expected("table_types", k), Ref(smi, "table", k))
        /\ \A k \in Indices("n_mem_types") : typecheck_memory(Expected("mem_types", k), Ref(smi, "mem", k))
        /\ \A k \in Indices("n_global_types") : typecheck_global(Expected("global_types", k), Ref(smi, "global", k))

-----------------------------------------------------------------------------
(* wasmjit_init_static_module.  A frame: the module, the phase, the index  *)
(* of its loop, and whether the module of the current initialiser has been *)
(* initialised by a nested call.                                           *)

Call(smi) == [smi |-> smi, pc |-> "enter", i |-> 0, called |-> FALSE]
Top == frames[Len(frames)]
At(pc) == status = "running" /\ frames # <<>> /\ Top.pc = pc
Step(f) == frames' = [frames EXCEPT ![Len(frames)] = f]
Goto(pc) == Step([Top EXCEPT !.pc = pc, !.i = 0])
(* Mutant: the index stays.                                                *)
LoopStays == Step([Top EXCEPT !.called = FALSE])

Loop == Step([Top EXCEPT !.i = @ + 1, !.called = FALSE])
Return == frames' = Front(frames)
Trap == status' = "trapped" /\ UNCHANGED <<image, pending, frames, started>>

(* The constructor in .ctors: module_init loads the module and jumps to    *)
(* the initialiser.                                                        *)
Construct(n) ==
    /\ status = "running"
    /\ frames = <<>>
    /\ n \in pending
    /\ pending' = pending \ {n}
    /\ LET init == image[n]["init_array"][1]
       IN  /\ Load(Plus(init, 3)) = Ptr("runtime", "init_static_module", 0)
           /\ frames' = <<Call(Load(Plus(init, 1)))>>
    /\ UNCHANGED <<image, started, status>>

(* Mutant: initted is not tested.                                          *)
EnterAgain ==
    /\ At("enter")
    /\ Goto("imports")
    /\ UNCHANGED <<image, pending, started, status>>

Enter ==
    /\ At("enter")
    /\ IF SmiN(Top.smi, "initted") # 0 THEN Return ELSE Goto("imports")
    /\ UNCHANGED <<image, pending, started, status>>

TypecheckImports ==
    /\ At("imports")
    /\ \/ ImportsTyped(Top.smi) /\ Goto("globals") /\ UNCHANGED <<image, pending, started, status>>
       \/ ~ImportsTyped(Top.smi) /\ Trap

(* Mutant: the parent module is not initialised first.                     *)
NeedsParent_Never(g) == FALSE

(* The value comes from a global of a module to be initialised first.      *)
NeedsParent(g) == FieldN(g, "GlobalInit", "init_type") = 1 /\ ~Top.called

InitGlobal ==
    /\ At("globals")
    /\ Top.i < SmiN(Top.smi, "n_global_inits")
    /\ LET my_global == Ref(Top.smi, "global", SmiN(Top.smi, "n_global_types") + Top.i)
           gitr == Item(Top.smi, "global_inits", "GlobalInit", Top.i)
           parent == Field(gitr, "GlobalInit", "global")
       IN  IF NeedsParent(gitr)
           THEN /\ IF Len(frames) < MaxFrames
                   THEN /\ frames' = Append([frames EXCEPT ![Len(frames)].called = TRUE],
                                            Call(Field(gitr, "GlobalInit", "module")))
                        /\ UNCHANGED status
                   ELSE status' = "overflow" /\ UNCHANGED frames
                /\ UNCHANGED image
           ELSE /\ image' = Stored(my_global, <<IF FieldN(gitr, "GlobalInit", "init_type") = 1
                                               THEN Field(parent, "GlobalInst", "value")
                                               ELSE Field(gitr, "GlobalInit", "module")>>)
                /\ Loop
                /\ UNCHANGED status
    /\ UNCHANGED <<pending, started>>

(* Mutant: the value of the global is not read.                            *)
OffsetUnread(a, s) ==
    IF FieldN(a, s, "offset_source_type") = 0 THEN Field(a, s, "offset") ELSE Val("i32", 0)

(* The offset of a segment: a value, that of a global as it is now.        *)
Offset(a, s) ==
    IF FieldN(a, s, "offset_source_type") = 0 THEN Field(a, s, "offset")
    ELSE Field(Field(a, s, "offset"), "GlobalInst", "value")

(* Mutant: one unit too many.                                              *)
FitsOneMore(offset, n, size) == offset[2] = "i32" /\ n + offset[3] <= size + 1

Fits(offset, n, size) == offset[2] = "i32" /\ n + offset[3] <= size

InitElement ==
    /\ At("elements")
    /\ Top.i < SmiN(Top.smi, "n_elements")
    /\ LET element == Item(Top.smi, "elements", "ElementInst", Top.i)
           table == Ref(Top.smi, "table", FieldN(element, "ElementInst", "tableidx"))
           offset == Offset(element, "ElementInst")
           n == FieldN(element, "ElementInst", "n_funcidxs")
           Func(j) == Ref(Top.smi, "func", Load(Plus(Field(element, "ElementInst", "funcidxs"), j - 1))[2])
           fits == Fits(offset, n, FieldN(table, "TableInst", "length"))
       IN  \/ /\ fits
              /\ image' = Stored(Plus(Field(table, "TableInst", "data"), offset[3]), [j \in 1..n |-> Func(j)])
              /\ Loop
              /\ UNCHANGED <<pending, started, status>>
           \/ ~fits /\ Trap

InitData ==
    /\ At("datas")
    /\ Top.i < SmiN(Top.smi, "n_datas")
    /\ LET data == Item(Top.smi, "datas", "DataInst", Top.i)
           mem == Ref(Top.smi, "mem", FieldN(data, "DataInst", "memidx"))
           offset == Offset(data, "DataInst")
           n == FieldN(data, "DataInst", "buf_size")
           fits == Fits(offset, n, FieldN(mem, "MemInst", "size"))
       IN  \/ /\ fits
              /\ image' = Stored(Plus(Field(mem, "MemInst", "data"), offset[3]),
                                 [j \in 1..n |-> Load(Plus(Field(data, "DataInst", "buf"), j - 1))])
              /\ Loop
              /\ UNCHANGED <<pending, started, status>>
           \/ ~fits /\ Trap

EndOfLoop ==
    \E l \in {<<"globals", "n_global_inits", "elements">>, <<"elements", "n_elements", "datas">>,
              <<"datas", "n_datas", "start">>} :
        /\ At(l[1])
        /\ Top.i = SmiN(Top.smi, l[2])
        /\ Goto(l[3])
        /\ UNCHANGED <<image, pending, started, status>>

(* wasmjit_emscripten_start_func, the start function of env: the end of    *)
(* the stack is where dynamic memory begins.                               *)
EmscriptenStart(smi) ==
    LET Global(name) == Load(Ref(smi, "global", CHOOSE k \in 0..SmiN(smi, "n_global") - 1 :
                                                  prog[smi[2]].globals[k + 1].name = name))[3]
    IN  Stored(Plus(Field(Ref(smi, "mem", 0), "MemInst", "data"), Global("DYNAMICTOP_PTR")),
               <<Num(alignMemory(Global("STACK_MAX"), StackAlign))>>)

(* External: other start functions change nothing that is modelled.        *)
Start ==
    /\ At("start")
    /\ LET f == Smi(Top.smi, "start_func")
       IN  \/ f = NULL /\ Goto("initted") /\ UNCHANGED <<image, pending, started, status>>
           \/ /\ f # NULL /\ typecheck_func("void", f)
              /\ started' = Append(started, Top.smi[2])
              /\ image' = IF prog[Top.smi[2]].host THEN EmscriptenStart(Top.smi) ELSE image
              /\ Goto("initted")
              /\ UNCHANGED <<pending, status>>
           \/ f # NULL /\ ~typecheck_func("void", f) /\ Trap

SetInitted ==
    /\ At("initted")
    /\ image' = Stored(Plus(Top.smi, offsetof("StaticModuleInst", "initted")), <<Num(1)>>)
    /\ Return
    /\ UNCHANGED <<pending, started, status>>

Main ==
    /\ status = "running"
    /\ frames = <<>>
    /\ pending = {}
    /\ status' = "main"
    /\ UNCHANGED <<image, pending, frames, started>>

InitStaticModule ==
    \/ Enter \/ TypecheckImports \/ InitGlobal \/ InitElement \/ InitData \/ EndOfLoop \/ Start \/ SetInitted

Init ==
    /\ EInit
    /\ hosts = SetToSeq(DOMAIN prog \ Written(prog))
    /\ hpass = 0
    /\ image = <<>>
    /\ pending = {}
    /\ frames = <<>>
    /\ started = <<>>
    /\ status = "building"

Running ==
    /\ (\E n \in pending : Construct(n)) \/ InitStaticModule \/ Main
    /\ UNCHANGED <<elfVars, hosts, hpass>>

Ended ==
    /\ pass = "aborted" \/ status \in {"unlinked", "trapped", "overflow", "main"}
    /\ UNCHANGED vars

Next ==
    \/ status = "building" /\ ElfNext /\ UNCHANGED runVars
    \/ CompileHost
    \/ Link
    \/ Running
    \/ Ended

Spec == Init /\ [][Next]_vars

(* A process that was started runs: weak fairness of Running, which is     *)
(* enabled whenever the status is running (there is no deadlock).          *)
FairSpec == Spec /\ ([]<>(status # "running") \/ []<><<Running>>_vars)
=============================================================================
