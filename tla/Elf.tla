-------------------------------- MODULE Elf --------------------------------
(***************************************************************************)
(* wasmjit_output_elf_relocatable: a parsed module is written as an ELF    *)
(* object.  The output grows by appending; positions in it, indices of     *)
(* symbols and offsets of fields are remembered and used by later passes,  *)
(* which add relocations for the pointers that were left open.             *)
(*                                                                         *)
(* A unit of the output is a field of a C structure, an element of an      *)
(* array or an operand of an instruction.  A module has                    *)
(*   types, functions (indices of types), codes (their references),        *)
(*   tables, mems (limits), globals, elements, datas, imports, exports,    *)
(*   start (the index of the start function plus one, or 0).               *)
(***************************************************************************)
EXTENDS Naturals, Sequences, SequencesExt

CONSTANTS
    Programs,   \* programs: the modules that are linked together, by name
    Alignment   \* units a section is aligned to

VARIABLES
    prog,       \* the program: a function from names to modules
    todo,       \* the modules that remain to be written
    cur,        \* the module being written
    pass,       \* the next pass over it, or "done", "aborted"
    o,          \* the state of the writer
    objects     \* the objects that were written

elfVars == <<prog, todo, cur, pass, o, objects>>

-----------------------------------------------------------------------------
(* The structures of runtime.h and static_runtime.h.                       *)

Kinds == <<"func", "table", "mem", "global">>

Fields == [
    FuncInst   |-> <<"type", "module_inst", "compiled_code", "invoker">>,
    TableInst  |-> <<"length", "max", "data">>,
    MemInst    |-> <<"size", "max", "data">>,
    GlobalInst |-> <<"value", "mut">>,
    GlobalInit |-> <<"init_type", "module", "global">>,
    ElementInst |-> <<"tableidx", "offset_source_type", "offset", "n_funcidxs", "funcidxs">>,
    DataInst   |-> <<"memidx", "offset_source_type", "offset", "buf_size", "buf">>,
    StaticModuleInst |->
        <<"n_types", "types", "n_func", "func", "n_table", "table", "n_mem", "mem",
          "n_global", "global", "n_func_types", "func_types", "n_table_types", "table_types",
          "n_mem_types", "mem_types", "n_global_types", "global_types",
          "n_global_inits", "global_inits", "n_datas", "datas", "n_elements", "elements",
          "initted", "start_func">>]

sizeof(s) == Len(Fields[s])
offsetof(s, f) == CHOOSE k \in 0..sizeof(s)-1 : Fields[s][k+1] = f

(* Values of units.  A pointer that a later pass relocates is a Hole.      *)
Num(n) == <<"int", n>>
Type(t) == <<"type", t>>
Val(t, v) == <<"val", t, v>>
Op(x) == <<"op", x>>
Hole == <<"hole">>
NULL == <<"null">>
Ptr(m, sect, off) == <<"ptr", m, sect, off>>

Struct(s, v) ==
    [k \in 1..sizeof(s) |-> LET f == Fields[s][k] IN IF f \in DOMAIN v THEN v[f] ELSE Hole]

-----------------------------------------------------------------------------
(* Output, symbols and relocations.  The first symbol has index 0.         *)

NSymbols(w) == Len(w.symbols)
Symbol(w, k) == w.symbols[k + 1]

OUT(w, units) == [w EXCEPT !.output = @ \o units]

Align(w) ==
    OUT(w, [k \in 1..((Alignment - (Len(w.output) % Alignment)) % Alignment) |-> Num(0)])

add_symbol(w, name, bind, shndx, value, size) ==
    [w EXCEPT !.symbols = Append(@, [name |-> name, bind |-> bind, shndx |-> shndx,
                                     value |-> value, size |-> size])]

DataSymbol(w, name, size) ==
    add_symbol(w, name, "local", "data", Len(w.output) - w.mark.data, size)
FuncSymbol(w, name, size) ==
    add_symbol(w, name, "local", "text", Len(w.output) - w.mark.text, size)
Undefined(w, name) == add_symbol(w, name, "global", "undef", 0, 0)

(* offset: position in the output.                                         *)
DataPtr(w, offset, sym) ==
    [w EXCEPT !.data_relocations = Append(@, [offset |-> offset - w.mark.data, sym |-> sym])]
FuncPtr(w, offset, sym) ==
    [w EXCEPT !.text_relocations = Append(@, [offset |-> offset - w.mark.text, sym |-> sym])]

(* A symbol for a datum, and the datum.                                    *)
Datum(w, name, units) == OUT(DataSymbol(w, name, Len(units)), units)

Count(s) == [k \in 1..Len(s) |-> k]
Mark(w, name, k) == [w EXCEPT !.mark[name] = k]

-----------------------------------------------------------------------------
(* The passes, in the order of the code.                                   *)

Marks == {"data", "text", "text_end", "bss", "types", "refs", "reftypes", "inits", "elements",
          "element_structs", "datas", "data_structs", "module", "static_module", "constructor",
          "code", "global", "init_static_module", "resolve_indirect_call", "trap"}

Import(k, t) == [import |-> k, symidx |-> 0, offset |-> 0, type |-> t, init |-> 0]

(* The null symbol, and the imports, sorted by kind.                       *)
Imports(w, m) ==
    LET named == add_symbol(w, <<>>, "local", "undef", 0, 0)
        sorted == FoldLeft(LAMBDA v, k : [v EXCEPT !.inst[m.imports[k].kind] =
                                            Append(@, Import(k, m.imports[k].type))],
                           named, Count(m.imports))
    IN  [sorted EXCEPT !.imported = [kind \in DOMAIN w.inst |-> Len(sorted.inst[kind])]]

Types(w, m) ==
    LET data == Mark(Align(w), "data", Len(Align(w).output))
    IN  FoldLeft(LAMBDA v, t : Datum(v, <<>>, <<Type(t)>>),
                 Mark(data, "types", NSymbols(data)), m.types)

(* An instance of the module itself: its entry in module_funcs etc., its   *)
(* symbol and its structure.                                               *)
Instance(w, kind, name, type, units) ==
    Datum([w EXCEPT !.inst[kind] = Append(@, [import |-> 0, symidx |-> NSymbols(w),
                                              offset |-> Len(w.output), type |-> type, init |-> 0])],
          name, units)

Functions(w, m) ==
    FoldLeft(LAMBDA v, k : LET t == m.types[m.functions[k] + 1]
                           IN  Instance(v, "func", <<"function", k - 1>>, t,
                                        Struct("FuncInst", [type |-> Type(t)])),
             w, Count(m.functions))

Tables(w, m) ==
    FoldLeft(LAMBDA v, k : LET t == m.tables[k]
                           IN  Instance(v, "table", <<"table", k - 1>>, t,
                                        Struct("TableInst", [length |-> Num(t.min), max |-> Num(t.max)])),
             w, Count(m.tables))

Memories(w, m) ==
    FoldLeft(LAMBDA v, k : LET t == m.mems[k]
                           IN  Instance(v, "mem", <<"memory", k - 1>>, t,
                                        Struct("MemInst", [size |-> Num(t.min), max |-> Num(t.max)])),
             w, Count(m.mems))

Globals(w, m) ==
    FoldLeft(LAMBDA v, k : LET t == m.globals[k].type
                           IN  Instance(v, "global", <<"global", k - 1>>, t,
                                        Struct("GlobalInst", [value |-> Val(t.valtype, 0), mut |-> Num(t.mut)])),
             w, Count(m.globals))

(* The arrays of references to all instances of a kind, still open.        *)
RefArrays(w, m) ==
    FoldLeft(LAMBDA v, kind :
                LET u == [v EXCEPT !.array[kind] = Len(v.output)]
                IN  Datum(u, <<kind, "refs">>, [k \in 1..Len(v.inst[kind]) |-> Hole]),
             Mark(w, "refs", NSymbols(w)), Kinds)

(* The types of the imported instances.                                    *)
TypeArrays(w, m) ==
    FoldLeft(LAMBDA v, kind :
                Datum(v, <<kind, "types">>, [k \in 1..v.imported[kind] |-> Type(v.inst[kind][k].type)]),
             Mark(w, "reftypes", NSymbols(w)), Kinds)

-----------------------------------------------------------------------------
(* Constant expressions: one instruction.                                  *)

Single(e) == Len(e) = 1
IsGlobal(e) == e[1].op = "get_global"
Source(e) == Num(IF IsGlobal(e) THEN 1 ELSE 0)
read_constant_expression(e) == IF IsGlobal(e) THEN Hole ELSE Val(e[1].type, e[1].value)


GlobalInits(w, m) ==
    LET start == DataSymbol(Mark(w, "inits", NSymbols(w)), <<>>, Len(m.globals) * sizeof("GlobalInit"))
        Init1(v, k) ==
            LET e == m.globals[k].init
            IN  Datum([v EXCEPT !.inst["global"][k + v.imported["global"]].init = NSymbols(v)], <<>>,
                      Struct("GlobalInit", [init_type |-> Source(e), module |-> read_constant_expression(e),
                                            global |-> IF IsGlobal(e) THEN Hole ELSE Num(0)]))
    IN  FoldLeft(Init1, start, Count(m.globals))

(* The function indices of the element segments, each with its symbol,     *)
(* then the structures, which refer to those symbols in turn.              *)
Elements(w, m) ==
    LET indices == FoldLeft(LAMBDA v, e : Datum(v, <<>>, [k \in 1..Len(e.funcidxs) |-> Num(e.funcidxs[k])]),
                            Mark(w, "elements", NSymbols(w)), m.elements)
        start == DataSymbol(Mark(indices, "element_structs", NSymbols(indices)), <<>>,
                            Len(m.elements) * sizeof("ElementInst"))
        Element1(v, e) ==
            LET u == DataPtr(v, Len(v.output) + offsetof("ElementInst", "funcidxs"), v.mark.elements)
            IN  Datum(Mark(u, "elements", v.mark.elements + 1), <<>>,
                      Struct("ElementInst", [tableidx |-> Num(e.tableidx), offset_source_type |-> Source(e.offset),
                                             offset |-> read_constant_expression(e.offset),
                                             n_funcidxs |-> Num(Len(e.funcidxs))]))
    IN  FoldLeft(Element1, start, m.elements)

Datas(w, m) ==
    LET bufs == FoldLeft(LAMBDA v, d : Datum(v, <<>>, [k \in 1..Len(d.buf) |-> Num(d.buf[k])]),
                         Mark(w, "datas", NSymbols(w)), m.datas)
        start == DataSymbol(Mark(bufs, "data_structs", NSymbols(bufs)), <<>>,
                            Len(m.datas) * sizeof("DataInst"))
        Data1(v, d) ==
            LET u == DataPtr(v, Len(v.output) + offsetof("DataInst", "buf"), v.mark.datas)
            IN  OUT(Mark(u, "datas", v.mark.datas + 1),
                    Struct("DataInst", [memidx |-> Num(d.memidx), offset_source_type |-> Source(d.offset),
                                        offset |-> read_constant_expression(d.offset),
                                        buf_size |-> Num(Len(d.buf))]))
    IN  FoldLeft(Data1, start, m.datas)

-----------------------------------------------------------------------------
(* The StaticModuleInst: pointers to the arrays, whose symbols follow each *)
(* other in the order of Kinds.                                            *)

SmiField(w, f) == Len(w.output) + offsetof("StaticModuleInst", f)

(* ADD_DATA_PTR_RELOCATION: the mark moves on to the next array.           *)
NextArray(w, f, mark) == Mark(DataPtr(w, SmiField(w, f), w.mark[mark]), mark, w.mark[mark] + 1)

StaticModule(w, m) ==
    LET smi == Struct("StaticModuleInst",
            [n_types |-> Num(Len(m.types)), n_func |-> Num(Len(w.inst["func"])),
             n_table |-> Num(Len(w.inst["table"])), n_mem |-> Num(Len(w.inst["mem"])),
             n_global |-> Num(Len(w.inst["global"])), n_func_types |-> Num(w.imported["func"]),
             n_table_types |-> Num(w.imported["table"]), n_mem_types |-> Num(w.imported["mem"]),
             n_global_types |-> Num(w.imported["global"]),
             n_global_inits |-> Num(Len(w.inst["global"]) - w.imported["global"]),
             n_datas |-> Num(Len(m.datas)), n_elements |-> Num(Len(m.elements)),
             initted |-> Num(0), start_func |-> NULL])
        refs == FoldLeft(LAMBDA v, kind : NextArray(v, kind, "refs"),
                         DataPtr(w, SmiField(w, "types"), w.mark.types), Kinds)
        types == FoldLeft(LAMBDA v, f : NextArray(v, f, "reftypes"), refs,
                          <<"func_types", "table_types", "mem_types", "global_types">>)
        inits == DataPtr(types, SmiField(w, "global_inits"), w.mark.inits)
        datas == DataPtr(inits, SmiField(w, "datas"), w.mark.data_structs)
        elements == DataPtr(datas, SmiField(w, "elements"), w.mark.element_structs)
        module == DataSymbol(Mark(elements, "module", NSymbols(w)), <<>>, sizeof("StaticModuleInst"))
    IN  Datum(Mark(module, "static_module", NSymbols(module)), <<"module_inst">>, smi)

(* module_init: load the static module and the initialiser, jump.          *)
Constructor(w, m) ==
    LET text == Mark(w, "text", Len(w.output))
        code == <<Op("mov_rdi"), Hole, Op("mov_rax"), Hole, Op("jmp_rax")>>
        named == FuncSymbol(Mark(text, "constructor", NSymbols(w)), <<"module_init">>, Len(code))
    IN  OUT(FuncPtr(named, Len(w.output) + 1, w.mark.static_module), code)

(* External: the code of a function is an instruction, then its references *)
(* in turn; an invoker is an instruction and the address of the function.  *)
FunctionCode(m, k) == <<Op(<<"code", k>>)>> \o [j \in 1..Len(m.codes[k]) |-> Hole]
InvokerCode(k) == <<Op(<<"invoker", k>>), Hole>>
CodeOffset(j) == j

(* Two symbols for every function: its code and its invoker.               *)
Codes(w, m) ==
    LET Symbolled(v, name, units) == OUT(FuncSymbol(v, name, Len(units)), units)
    IN  FoldLeft(LAMBDA v, k : Symbolled(Symbolled(v, <<"function_code", k - 1>>, FunctionCode(m, k)),
                                         <<"function_invoker", k - 1>>, InvokerCode(k)),
                 Mark(w, "code", NSymbols(w)), Count(m.functions))

(* Own instances of a kind, as indices into inst[kind].                    *)
Own(w, kind) == SubSeq(Count(w.inst[kind]), w.imported[kind] + 1, Len(w.inst[kind]))

(* Mutant: one symbol for every function.                                  *)
CodeReferencesOne(w, m) ==
    FoldLeft(LAMBDA v, k :
                LET at == w.inst["func"][k].offset
                    sym == w.mark.code + (k - 1 - w.imported["func"])
                IN  DataPtr(DataPtr(DataPtr(v, at + offsetof("FuncInst", "module_inst"), w.mark.module),
                                    at + offsetof("FuncInst", "compiled_code"), sym),
                            at + offsetof("FuncInst", "invoker"), sym + 1),
             w, Own(w, "func"))

CodeReferences(w, m) ==
    FoldLeft(LAMBDA v, k :
                LET at == w.inst["func"][k].offset
                    sym == w.mark.code + 2 * (k - 1 - w.imported["func"])
                IN  DataPtr(DataPtr(DataPtr(v, at + offsetof("FuncInst", "module_inst"), w.mark.module),
                                    at + offsetof("FuncInst", "compiled_code"), sym),
                            at + offsetof("FuncInst", "invoker"), sym + 1),
             w, Own(w, "func"))

-----------------------------------------------------------------------------
(* The storage of own tables and memories, in .bss one after the other.    *)

Storage(w, kind, struct) ==
    FoldLeft(LAMBDA v, k :
                LET size == w.inst[kind][k].type.min
                    u == add_symbol(v, <<>>, "local", "bss", v.bss_size, size)
                IN  [DataPtr(u, w.inst[kind][k].offset + offsetof(struct, "data"), NSymbols(v))
                        EXCEPT !.bss_size = @ + size],
             w, Own(w, kind))

Bss(w, m) ==
    LET text == Align(Mark(w, "text_end", Len(w.output)))
        bss == Mark(text, "bss", Len(text.output))
    IN  Storage(Storage(bss, "table", "TableInst"), "mem", "MemInst")


(* The first global symbols: functions of the runtime.                     *)
Externals(w, m) ==
    FoldLeft(LAMBDA v, f : Undefined(Mark(v, f, NSymbols(v)), <<f>>),
             Mark(w, "global", NSymbols(w)), <<"init_static_module", "resolve_indirect_call", "trap">>)

(* A symbol for every import, and one for the module of every imported     *)
(* global.                                                                 *)
ImportedSymbols(w, m) ==
    LET Symbol1(v, kind, k) ==
            LET i == m.imports[v.inst[kind][k].import]
            IN  Undefined([v EXCEPT !.inst[kind][k].symidx = NSymbols(v)], <<i.module, i.name, kind>>)
        Symbols(v, kind) == FoldLeft(LAMBDA u, k : Symbol1(u, kind, k), v, [k \in 1..w.imported[kind] |-> k])
    IN  FoldLeft(LAMBDA v, k :
                    Undefined([v EXCEPT !.inst["global"][k].init = NSymbols(v)],
                              <<m.imports[v.inst["global"][k].import].module, "module">>),
                 FoldLeft(Symbols, w, Kinds), [k \in 1..w.imported["global"] |-> k])

(* Now all symbols are known: fill the arrays of references.               *)
ArrayRelocations(w, m) ==
    FoldLeft(LAMBDA v, kind :
                FoldLeft(LAMBDA u, k : DataPtr(u, w.array[kind] + k - 1, w.inst[kind][k].symidx),
                         v, Count(w.inst[kind])),
             w, Kinds)

(* Global initialisers may only refer to imported globals.                 *)
GlobalsImported(w, m) ==
    \A k \in DOMAIN m.globals :
        IsGlobal(m.globals[k].init) => m.globals[k].init[1].idx < w.imported["global"]

GlobalRelocations(w, m) ==
    LET Relocate(v, k) ==
            LET e == m.globals[k].init
                at == w.mark.data + Symbol(w, w.inst["global"][k + w.imported["global"]].init).value
                g == w.inst["global"][e[1].idx + 1]
            IN  IF IsGlobal(e)
                THEN DataPtr(DataPtr(v, at + offsetof("GlobalInit", "module"), g.init),
                             at + offsetof("GlobalInit", "global"), g.symidx)
                ELSE v
    IN  FoldLeft(Relocate, w, Count(m.globals))

(* Offsets of element and data segments that are taken from a global.      *)
OffsetRelocations(w, segments, mark, struct) ==
    LET at == w.mark.data + Symbol(w, w.mark[mark]).value
    IN  FoldLeft(LAMBDA v, k :
                    IF IsGlobal(segments[k].offset)
                    THEN DataPtr(v, at + (k - 1) * sizeof(struct) + offsetof(struct, "offset"),
                                 w.inst["global"][segments[k].offset[1].idx + 1].symidx)
                    ELSE v,
                 w, Count(segments))

SegmentRelocations(w, m) ==
    OffsetRelocations(OffsetRelocations(w, m.elements, "element_structs", "ElementInst"),
                      m.datas, "data_structs", "DataInst")

StartRelocations(w, m) ==
    LET smi == w.mark.data + Symbol(w, w.mark.static_module).value
        started == IF m.start = 0 THEN w
                   ELSE DataPtr(w, smi + offsetof("StaticModuleInst", "start_func"),
                                w.inst["func"][m.start].symidx)
    IN  FuncPtr(started, w.mark.text + Symbol(w, w.mark.constructor).value + 3, w.mark.init_static_module)

(* The symbol a reference of compiled code stands for.                     *)
MemrefSymbol(w, ref) ==
    CASE ref.type = "type" -> w.mark.types + ref.idx
      [] ref.type \in DOMAIN w.inst -> w.inst[ref.type][ref.idx + 1].symidx
      [] OTHER -> w.mark[ref.type]

CodeRelocations(w, m) ==
    LET Code(k) == w.mark.text + Symbol(w, w.mark.code + 2 * (k - 1)).value
        Invoker(k) == w.mark.text + Symbol(w, w.mark.code + 2 * (k - 1) + 1).value
        References(v, k) ==
            FoldLeft(LAMBDA u, j : FuncPtr(u, Code(k) + CodeOffset(j), MemrefSymbol(w, m.codes[k][j])),
                     v, Count(m.codes[k]))
    IN  FoldLeft(LAMBDA v, k : FuncPtr(References(v, k), Invoker(k) + CodeOffset(1), w.mark.code + 2 * (k - 1)),
                 w, Count(m.functions))

(* An export is a global copy of the symbol of the instance; the last one  *)
(* is the module.                                                          *)
Copy(w, name, sym) ==
    add_symbol(w, name, "global", Symbol(w, sym).shndx, Symbol(w, sym).value, Symbol(w, sym).size)

Exports(w, m) ==
    LET exported == FoldLeft(LAMBDA v, e : Copy(v, <<cur, e.name, e.kind>>, w.inst[e.kind][e.idx + 1].symidx),
                             w, m.exports)
    IN  Copy(exported, <<cur, "module">>, w.mark.static_module)

-----------------------------------------------------------------------------
(* The tables are appended, and the section headers filled in.  After the  *)
(* first table nothing needs aligning: entries fill the alignment.         *)

Relocation(r) == <<"rela", r.offset, r.sym>>
SymbolEntry(s) == <<"symbol", s>>

Section(type, start, end, link, info) ==
    [type |-> type, offset |-> start, size |-> end - start, link |-> link, info |-> info]

Sections(w, m) ==
    LET rela_text == Align(w)
        rela_data == OUT(rela_text, [k \in 1..Len(w.text_relocations) |-> Relocation(w.text_relocations[k])])
        init_array == OUT(rela_data, [k \in 1..Len(w.data_relocations) |-> Relocation(w.data_relocations[k])])
        rela_init == OUT(init_array, <<Hole>>)
        symtab == OUT(rela_init, <<Relocation([offset |-> 0, sym |-> w.mark.constructor])>>)
        strtab == OUT(symtab, [k \in 1..NSymbols(w) |-> SymbolEntry(w.symbols[k])])
        At(v) == Len(v.output)
    IN  [strtab EXCEPT !.sections = [
            text |-> Section("progbits", w.mark.text, w.mark.text_end, "none", 0),
            rela_text |-> Section("rela", At(rela_text), At(rela_data), "symtab", "text"),
            data |-> Section("progbits", w.mark.data, w.mark.text, "none", 0),
            rela_data |-> Section("rela", At(rela_data), At(init_array), "symtab", "data"),
            bss |-> Section("nobits", w.mark.bss, w.mark.bss + w.bss_size, "none", 0),
            init_array |-> Section("progbits", At(init_array), At(rela_init), "none", 0),
            rela_init_array |-> Section("rela", At(rela_init), At(symtab), "symtab", "init_array"),
            symtab |-> Section("symtab", At(symtab), At(strtab), "strtab", w.mark.global)]]

-----------------------------------------------------------------------------
Passes == <<"imports", "types", "functions", "tables", "memories", "globals", "refs", "reftypes",
            "inits", "elements", "datas", "module", "constructor", "codes", "code_refs", "bss",
            "externals", "imported", "arrays", "global_relocations", "segments", "start",
            "code_relocations", "exports", "sections">>

NextPass(p) ==
    IF p = "sections" THEN "written"
    ELSE Passes[CHOOSE k \in 2..Len(Passes) : Passes[k - 1] = p]

Do(p, w, m) ==
    CASE p = "imports" -> Imports(w, m)
      [] p = "types" -> Types(w, m)
      [] p = "functions" -> Functions(w, m)
      [] p = "tables" -> Tables(w, m)
      [] p = "memories" -> Memories(w, m)
      [] p = "globals" -> Globals(w, m)
      [] p = "refs" -> RefArrays(w, m)
      [] p = "reftypes" -> TypeArrays(w, m)
      [] p = "inits" -> GlobalInits(w, m)
      [] p = "elements" -> Elements(w, m)
      [] p = "datas" -> Datas(w, m)
      [] p = "module" -> StaticModule(w, m)
      [] p = "constructor" -> Constructor(w, m)
      [] p = "codes" -> Codes(w, m)
      [] p = "code_refs" -> CodeReferences(w, m)
      [] p = "bss" -> Bss(w, m)
      [] p = "externals" -> Externals(w, m)
      [] p = "imported" -> ImportedSymbols(w, m)
      [] p = "arrays" -> ArrayRelocations(w, m)
      [] p = "global_relocations" -> GlobalRelocations(w, m)
      [] p = "segments" -> SegmentRelocations(w, m)
      [] p = "start" -> StartRelocations(w, m)
      [] p = "code_relocations" -> CodeRelocations(w, m)
      [] p = "exports" -> Exports(w, m)
      [] p = "sections" -> Sections(w, m)

(* The conditions under which a pass goes to the error label.              *)
Refused(p, w, m) ==
    \/ p = "inits" /\ \E k \in DOMAIN m.globals : ~Single(m.globals[k].init)
    \/ p = "elements" /\ \E k \in DOMAIN m.elements : ~Single(m.elements[k].offset)
    \/ p = "datas" /\ \E k \in DOMAIN m.datas : ~Single(m.datas[k].offset)
    \/ p = "global_relocations" /\ ~GlobalsImported(w, m)

(* The header and the empty section headers are already in the output.     *)
Empty == [
    output |-> [k \in 1..12 |-> Num(0)], symbols |-> <<>>,
    data_relocations |-> <<>>, text_relocations |-> <<>>,
    inst |-> [kind \in ToSet(Kinds) |-> <<>>], imported |-> [kind \in ToSet(Kinds) |-> 0],
    array |-> [kind \in ToSet(Kinds) |-> 0], mark |-> [name \in Marks |-> 0],
    bss_size |-> 0, sections |-> <<>>]

(* Modules of the C runtime are not written by this code.                  *)
Written(p) == {n \in DOMAIN p : ~p[n].host}

EInit ==
    /\ prog \in Programs
    /\ todo = Written(prog)
    /\ cur = "none"
    /\ pass = "written"
    /\ o = Empty
    /\ objects = <<>>

Begin(n) ==
    /\ pass = "written"
    /\ n \in todo
    /\ todo' = todo \ {n}
    /\ cur' = n
    /\ pass' = "imports"
    /\ o' = Empty
    /\ UNCHANGED <<prog, objects>>

Pass ==
    /\ pass \in ToSet(Passes)
    /\ ~Refused(pass, o, prog[cur])
    /\ pass' = NextPass(pass)
    /\ o' = Do(pass, o, prog[cur])
    /\ objects' = IF pass' = "written" THEN (cur :> o') @@ objects ELSE objects
    /\ UNCHANGED <<prog, todo, cur>>

(* error: an allocation failed, or the module is refused; assert(0).       *)
Abort ==
    /\ pass \in ToSet(Passes)
    /\ pass' = "aborted"
    /\ UNCHANGED <<prog, todo, cur, o, objects>>

ElfNext == (\E n \in todo : Begin(n)) \/ Pass \/ Abort
=============================================================================
