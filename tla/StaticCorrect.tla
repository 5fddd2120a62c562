--------------------------- MODULE StaticCorrect ---------------------------
(* What the objects and the initialised program must be, in terms of the   *)
(* modules they were made from.                                            *)
EXTENDS Static, FiniteSets

-----------------------------------------------------------------------------
(* The modules by themselves: which instance an index denotes, and the     *)
(* initial value of a global.                                              *)

ImportsOf(n, kind) == IF prog[n].host THEN <<>> ELSE SelectSeq(prog[n].imports, LAMBDA i : i.kind = kind)
Items(n, kind) ==
    CASE kind = "func" -> IF prog[n].host THEN prog[n].funcs ELSE prog[n].functions
      [] kind = "table" -> prog[n].tables
      [] kind = "mem" -> prog[n].mems
      [] OTHER -> prog[n].globals
Size(n, kind) == Len(ImportsOf(n, kind)) + Len(Items(n, kind))
Exported(n, kind, name) ==
    IF prog[n].host THEN (CHOOSE k \in DOMAIN Items(n, kind) : Items(n, kind)[k].name = name) - 1
    ELSE (CHOOSE e \in ToSet(prog[n].exports) : e.kind = kind /\ e.name = name).idx

(* The module that defines it, and its number among those defined there.   *)
RECURSIVE Defining(_, _, _)
Defining(n, kind, idx) ==
    LET imports == ImportsOf(n, kind)
    IN  IF idx < Len(imports)
        THEN Defining(imports[idx + 1].module, kind, Exported(imports[idx + 1].module, kind, imports[idx + 1].name))
        ELSE <<n, idx - Len(imports)>>

RECURSIVE InitialValue(_, _)
InitialValue(n, idx) ==
    LET d == Defining(n, "global", idx)
        g == prog[d[1]].globals[d[2] + 1]
    IN  CASE prog[d[1]].host -> Val(g.type.valtype, g.value)
          [] g.init[1].op = "const" -> Val(g.init[1].type, g.init[1].value)
          [] OTHER -> InitialValue(d[1], g.init[1].idx)

ExprValue(n, e) == IF e[1].op = "const" THEN Val(e[1].type, e[1].value) ELSE InitialValue(n, e[1].idx)

(* The modules whose globals give n's globals their initial values.        *)
Parents(n) ==
    {ImportsOf(n, "global")[g.init[1].idx + 1].module :
        g \in IF prog[n].host THEN {} ELSE {h \in ToSet(prog[n].globals) : h.init[1].op = "get_global"}}

(* They form a cycle: the initialisation of some module needs itself.      *)
RECURSIVE Ancestors(_)
Ancestors(ms) == LET all == ms \cup UNION {Parents(n) : n \in ms} IN IF all = ms THEN ms ELSE Ancestors(all)
Cyclic == \E n \in DOMAIN prog : n \in Ancestors(Parents(n))

(* Where the object file says, by a local name, that something is.         *)
LocalName(kind) == CASE kind = "func" -> "function" [] kind = "mem" -> "memory" [] OTHER -> kind
Address(n, name) ==
    LET s == CHOOSE s \in ToSet(objects[n].symbols) : s.bind = "local" /\ s.name = name
    IN  Ptr(n, s.shndx, s.value)
InstanceOf(n, kind, idx) ==
    LET d == Defining(n, kind, idx) IN Address(d[1], <<LocalName(kind), d[2]>>)
ModuleOf(n) == Address(n, <<"module_inst">>)

Linkd == status \in {"running", "main", "trapped", "overflow"}
Initted(n) == SmiN(ModuleOf(n), "initted") = 1

-----------------------------------------------------------------------------
(* The references compiled code makes lead to what they name.              *)
Referred(n, ref) ==
    CASE ref.type = "type" -> Plus(Smi(ModuleOf(n), "types"), ref.idx)
      [] ref.type \in ToSet(Kinds) -> InstanceOf(n, ref.type, ref.idx)
      [] OTHER -> Ptr("runtime", ref.type, 0)

CodeMatches(n, k) ==
    LET f == InstanceOf(n, "func", Len(ImportsOf(n, "func")) + k - 1)
        code == Field(f, "FuncInst", "compiled_code")
        invoker == Field(f, "FuncInst", "invoker")
    IN  /\ Field(f, "FuncInst", "module_inst") = ModuleOf(n)
        /\ Load(code) = Op(<<"code", k>>)
        /\ \A j \in DOMAIN prog[n].codes[k] : Load(Plus(code, CodeOffset(j))) = Referred(n, prog[n].codes[k][j])
        /\ Load(invoker) = Op(<<"invoker", k>>)
        /\ Load(Plus(invoker, 1)) = code

(* Once linked, the pointers of the static module lead, through symbols    *)
(* that were numbered in one pass and used in another, to the instances,   *)
(* types and code the WebAssembly module means, imported ones in whatever  *)
(* module defines them.                                                    *)
ImageMatches ==
    Linkd => \A n \in DOMAIN prog :
        /\ \A kind \in ToSet(Kinds) :
            /\ SmiN(ModuleOf(n), "n_" \o kind) = Size(n, kind)
            /\ \A k \in 0..Size(n, kind) - 1 : Ref(ModuleOf(n), kind, k) = InstanceOf(n, kind, k)
        /\ ~prog[n].host =>
            /\ \A k \in DOMAIN prog[n].types : Load(Plus(Smi(ModuleOf(n), "types"), k - 1)) = Type(prog[n].types[k])
            /\ \A k \in DOMAIN prog[n].functions : CodeMatches(n, k)

(* How many of n's own globals wasmjit_init_static_module has passed.      *)
Passed(n) ==
    LET all == Len(Items(n, "global"))
        Past(f) == CASE f.pc \in {"enter", "imports"} -> 0 [] f.pc = "globals" -> f.i [] OTHER -> all
    IN  IF Initted(n) \/ prog[n].host THEN all
        ELSE Max({0} \cup {Past(f) : f \in {g \in ToSet(frames) : g.smi = ModuleOf(n)}})

(* Whichever constructors run first, a global has its initial value once   *)
(* wasmjit_init_static_module has passed it, in modules being initialised  *)
(* as in initialised ones.                                                 *)
GlobalsInitialised ==
    Linkd => \A n \in DOMAIN prog : \A k \in 0..Passed(n) - 1 :
        LET idx == Len(ImportsOf(n, "global")) + k
        IN  Load(InstanceOf(n, "global", idx)) = InitialValue(n, idx)

(* What a segment's offset amounts to: a global that has not been passed   *)
(* counts as 0.                                                            *)
OffsetNow(n, e) ==
    IF e[1].op = "const" THEN e[1].value
    ELSE LET d == Defining(n, "global", e[1].idx)
         IN  IF d[2] < Passed(d[1]) THEN InitialValue(n, e[1].idx)[3] ELSE 0

(* An element or data segment that was just copied is where its offset,    *)
(* constant or taken from a global, says, in the table or memory of the    *)
(* module that defines it.  The modules that offsets are taken from are    *)
(* not initialised first, unlike those that globals are taken from: when   *)
(* the constructor of such a module runs later, the segment is at 0.       *)
SegmentsPlaced ==
    (status = "running" /\ frames # <<>> /\ Top.i > 0) =>
        LET n == Top.smi[2]
            Placed(kind, idx, offset, units) ==
                LET a == Load(Plus(InstanceOf(n, kind, idx), 2))
                IN  \A j \in DOMAIN units : Load(Plus(a, OffsetNow(n, offset) + j - 1)) = units[j]
        IN  CASE Top.pc = "elements" ->
                   LET e == prog[n].elements[Top.i]
                   IN  Placed("table", e.tableidx, e.offset,
                              [j \in DOMAIN e.funcidxs |-> InstanceOf(n, "func", e.funcidxs[j])])
              [] Top.pc = "datas" ->
                   LET d == prog[n].datas[Top.i]
                   IN  Placed("mem", d.memidx, d.offset, [j \in DOMAIN d.buf |-> Num(d.buf[j])])
              [] OTHER -> TRUE

(* A start function runs at most once, although a module is initialised by *)
(* its constructor and by those of the modules that import from it, and    *)
(* after the modules its own globals depend on are initialised.            *)
StartsInOrder ==
    Linkd =>
        /\ Cardinality(ToSet(started)) = Len(started)
        /\ \A n \in ToSet(started) : \A p \in Parents(n) : Initted(p)

(* When main begins, dynamic memory begins behind the stack: no data       *)
(* segment has overwritten what the start function of env left at          *)
(* DYNAMICTOP_PTR.                                                         *)
DynamicTop ==
    status = "main" =>
        LET Env(name) == (CHOOSE g \in ToSet(prog["env"].globals) : g.name = name).value
            mem == Field(InstanceOf("env", "mem", 0), "MemInst", "data")
        IN  Load(Plus(mem, Env("DYNAMICTOP_PTR"))) = Num(alignMemory(Env("STACK_MAX"), StackAlign))

(* The units of the storage of the idx-th table or memory of n.            *)
StorageUnits(n, kind, idx) ==
    LET a == InstanceOf(n, kind, idx)
        data == Load(Plus(a, 2))
    IN  {Plus(data, k) : k \in 0..Load(a)[2] - 1}

(* Initialisation writes only the global, the table or the memory that the *)
(* initialiser at hand is for, whichever module and object file defines    *)
(* it, and initted: a segment whose end lies behind its table or memory    *)
(* traps instead of running into its neighbour in .bss.                    *)
StorageRespected ==
    [][(status = "running" /\ frames # <<>>) =>
        LET n == Top.smi[2]
            writable ==
                CASE Top.pc = "globals" -> {InstanceOf(n, "global", Len(ImportsOf(n, "global")) + Top.i)}
                  [] Top.pc = "elements" /\ Top.i < Len(prog[n].elements) ->
                        StorageUnits(n, "table", prog[n].elements[Top.i + 1].tableidx)
                  [] Top.pc = "datas" /\ Top.i < Len(prog[n].datas) ->
                        StorageUnits(n, "mem", prog[n].datas[Top.i + 1].memidx)
                  [] Top.pc = "start" /\ prog[n].host -> StorageUnits(n, "mem", 0)
                  [] Top.pc = "initted" -> {Plus(ModuleOf(n), offsetof("StaticModuleInst", "initted"))}
                  [] OTHER -> {}
        IN  \A m \in DOMAIN image : \A s \in DOMAIN image[m] : \A k \in DOMAIN image[m][s] :
              image'[m][s][k] = image[m][s][k] \/ Ptr(m, s, k - 1) \in writable]_vars

(* A program that is started traps or comes to main, however its           *)
(* initialisations nest, unless modules take the values of their globals   *)
(* from each other in a cycle: initted is set at the end only, so that     *)
(* they initialise each other until the C stack is used up.                *)
Finishes ==
    status = "running" ~> \/ status = "trapped"
                          \/ status = "main" /\ ~Cyclic
                          \/ status = "overflow" /\ Cyclic
=============================================================================
