------------------------------ MODULE Linking ------------------------------
(***************************************************************************)
(* The high-level interface: handles (struct WasmJITHigh, a descriptor of  *)
(* /dev/wasm in the kernel build), their registries of named modules, the  *)
(* module instances and what they refer to, the Emscripten context that is *)
(* published for signal handlers, and closing.  Any allocation may fail,   *)
(* and an instantiation may fail after it has written its functions into a *)
(* table it imports.                                                       *)
(*                                                                         *)
(* The calls of one handle come one after the other, so a call is a step.  *)
(***************************************************************************)
EXTENDS Naturals, Sequences

CONSTANTS
    Handles,     \* the handles
    Runtimes,    \* those that instantiate the Emscripten runtime
    Scopes,      \* the copies of _g_handler_ctx: one per process, one in the kernel
    Scope,       \* Scope[h]: the copy handle h uses
    Insts,       \* addresses of module instances
    NULL,        \* the null pointer
    ModuleNames, \* names the caller gives to modules
    Programs,    \* WebAssembly modules, see ProgramsAssumption
    AllocFails,  \* whether an allocation of add_named_module may fail
    MaxModules   \* bound on n_modules

Names == ModuleNames \cup {"env", "global"}

(* imports: the module names it imports from; table: "own", "none" or the  *)
(* name of the module it imports a table from; elems: whether it has       *)
(* element segments; memory: whether it defines a memory that is not empty;*)
(* main: whether it exports _main and stackAlloc.                          *)
ASSUME ProgramsAssumption ==
    \A p \in Programs :
        /\ p.imports \subseteq Names
        /\ p.table \in {"own", "none"} \cup p.imports
        /\ p.elems \in BOOLEAN
        /\ p.elems => p.table # "none"
        /\ p.memory \in BOOLEAN
        /\ p.main \in BOOLEAN

ASSUME HandlesAssumption ==
    /\ Runtimes \subseteq Handles
    /\ Scope \in [Handles -> Scopes]
    /\ NULL \notin Insts
    /\ AllocFails \in BOOLEAN
    /\ MaxModules \in Nat

InstOrNull == Insts \cup {NULL}

VARIABLES
    state,      \* state[h]: "closed", "open", or how its process died
    modules,    \* modules[h]: the valid entries of self->modules
    n_modules,  \* n_modules[h]: self->n_modules
    env, asm,   \* self->emscripten_env_module, self->emscripten_asm_module
    ctx,        \* ctx[s]: the module whose context is in _g_handler_ctx
    live,       \* the allocated module instances
    uses,       \* uses[i]: the instances whose functions or memory i refers to
    table,      \* table[i]: the instance that owns the table of i
    entries,    \* entries[i]: the instances with functions in the table i owns
    mains,      \* the instances with a _main
    halfway     \* history: instances freed after their element segments were written

instVars == <<live, uses, table, entries, mains, halfway>>
vars == <<state, modules, n_modules, env, asm, ctx, instVars>>

(* wild: used an entry of self->modules, a function or a memory that does  *)
(* not exist; env, context: a failed assertion.                            *)
Faults == {"wild", "env", "context"}

TypeOK ==
    /\ state \in [Handles -> {"closed", "open"} \cup Faults]
    /\ modules \in [Handles -> Seq([name : Names, inst : Insts])]
    /\ n_modules \in [Handles -> 0..MaxModules]
    /\ \A h \in Handles : Len(modules[h]) <= n_modules[h]
    /\ env \in [Handles -> InstOrNull]
    /\ asm \in [Handles -> InstOrNull]
    /\ ctx \in [Scopes -> InstOrNull]
    /\ live \subseteq Insts
    /\ uses \in [Insts -> SUBSET Insts]
    /\ table \in [Insts -> InstOrNull]
    /\ entries \in [Insts -> SUBSET Insts]
    /\ mains \subseteq live
    /\ halfway \subseteq Insts

Init ==
    /\ state = [h \in Handles |-> "closed"]
    /\ modules = [h \in Handles |-> <<>>]
    /\ n_modules = [h \in Handles |-> 0]
    /\ env = [h \in Handles |-> NULL]
    /\ asm = [h \in Handles |-> NULL]
    /\ ctx = [s \in Scopes |-> NULL]
    /\ live = {}
    /\ uses = [i \in Insts |-> {}]
    /\ table = [i \in Insts |-> NULL]
    /\ entries = [i \in Insts |-> {}]
    /\ mains = {}
    /\ halfway = {}

-----------------------------------------------------------------------------
(* The registry.                                                           *)

Registered(h) == {modules[h][k].inst : k \in 1..Len(modules[h])}
Named(h, n) == {k \in 1..Len(modules[h]) : modules[h][k].name = n}

(* The loop without a break finds the last module of a name, the one with  *)
(* a break the first.                                                      *)
LastNamed(h, n) ==
    modules[h][CHOOSE k \in Named(h, n) : \A j \in Named(h, n) : j <= k].inst
FirstNamed(h, n) ==
    modules[h][CHOOSE k \in Named(h, n) : \A j \in Named(h, n) : k <= j].inst

(* n_modules counts an entry that was never written.                       *)
Wild(h) == n_modules[h] # Len(modules[h])

Fault(h, f) ==
    /\ state' = [state EXCEPT ![h] = f]
    /\ UNCHANGED <<modules, n_modules, env, asm, ctx, instVars>>

Fresh == Insts \ (live \cup halfway)

(* add_named_module counts the module, then allocates its name and entry.  *)
AddNamedModule(h, n, i) ==
    /\ n_modules' = [n_modules EXCEPT ![h] = n_modules[h] + 1]
    /\ modules' = [modules EXCEPT ![h] = Append(modules[h], [name |-> n, inst |-> i])]

AddNamedModuleFails(h) ==
    /\ AllocFails
    /\ n_modules' = [n_modules EXCEPT ![h] = n_modules[h] + 1]
    /\ UNCHANGED modules

-----------------------------------------------------------------------------
Open(h) ==
    /\ state[h] = "closed"
    /\ state' = [state EXCEPT ![h] = "open"]
    /\ n_modules' = [n_modules EXCEPT ![h] = 0]
    /\ modules' = [modules EXCEPT ![h] = <<>>]
    /\ env' = [env EXCEPT ![h] = NULL]
    /\ asm' = [asm EXCEPT ![h] = NULL]
    /\ UNCHANGED <<ctx, instVars>>

(* wasmjit_instantiate: what instance i of p refers to, and its table.     *)
Resolvable(h, p) ==
    /\ \A n \in p.imports : Named(h, n) # {}
    /\ p.table \in Names => table[LastNamed(h, p.table)] # NULL
(* Mutant: modules of all handles are imported from.                       *)
Imported_AnyHandle(h, p) == UNION {Registered(g) : g \in Handles}

Imported(h, p) ==
    LET from == {LastNamed(h, n) : n \in p.imports}
    IN  from \cup UNION {uses[j] : j \in from}
TableOf(h, p, i) ==
    CASE p.table = "none" -> NULL
      [] p.table = "own" -> i
      [] OTHER -> table[LastNamed(h, p.table)]

(* The element segments put functions of i, its own or imported ones, into *)
(* the table.                                                              *)
Elements(h, p, i) ==
    IF p.elems
    THEN [entries EXCEPT ![TableOf(h, p, i)] = @ \cup {i} \cup Imported(h, p)]
    ELSE entries

(* A module name is given to a module that loads, links and is registered. *)
InstantiateOk(h, p, n) ==
    \E i \in Fresh :
        /\ live' = live \cup {i}
        /\ uses' = [uses EXCEPT ![i] = Imported(h, p)]
        /\ table' = [table EXCEPT ![i] = TableOf(h, p, i)]
        /\ entries' = Elements(h, p, i)
        /\ mains' = IF p.main THEN mains \cup {i} ELSE mains
        /\ AddNamedModule(h, n, i)
        /\ UNCHANGED halfway

(* The instance is freed after its element segments were written: code     *)
(* could not be compiled or mapped, a data segment does not fit, or (count *)
(* is TRUE) add_named_module failed.  The table it imports keeps its       *)
(* functions.                                                              *)
InstantiateLate(h, p, count) ==
    \E i \in Fresh :
        /\ IF count THEN AddNamedModuleFails(h) ELSE UNCHANGED <<modules, n_modules>>
        /\ IF TableOf(h, p, i) \in {NULL, i}
           THEN UNCHANGED <<entries, halfway>>
           ELSE /\ entries' = Elements(h, p, i)
                /\ halfway' = IF p.elems THEN halfway \cup {i} ELSE halfway
        /\ UNCHANGED <<live, uses, table, mains>>

(* The data of a memory cannot be allocated: its instance is freed, then   *)
(* read and freed again at the error label.                                *)
MemoryFails(h, p) == AllocFails /\ p.memory /\ Fault(h, "wild")

(* wasmjit_high_instantiate, loading a file as module n.                   *)
Instantiate(h, p, n) ==
    /\ state[h] = "open"
    /\ n_modules[h] < MaxModules
    /\ IF p.imports # {} /\ Wild(h)
       THEN Fault(h, "wild")
       ELSE /\ Resolvable(h, p)
            /\ \/ /\ \/ InstantiateOk(h, p, n)
                     \/ \E count \in BOOLEAN : InstantiateLate(h, p, count)
                  /\ UNCHANGED <<state, env, asm, ctx>>
               \/ MemoryFails(h, p)

(* Mutant: modules that were registered are freed on the way out.          *)
TakenOver_Freed(S) == live

(* modules[i].module = NULL: a registered module is not freed on the way   *)
(* out.                                                                    *)
TakenOver(S) == live \cup S

(* wasmjit_instantiate_emscripten_runtime: of the two modules it builds,   *)
(* neither imports anything, and env owns a table if the program wants it. *)
RuntimeTable(e, has_table) == [table EXCEPT ![e] = IF has_table THEN e ELSE NULL]

(* wasmjit_high_instantiate_emscripten_runtime: builds the modules global  *)
(* and env, then registers one after the other.  The ones that could not   *)
(* be registered are freed.                                                *)
InstantiateRuntime(h, has_table) ==
    /\ state[h] = "open"
    /\ h \in Runtimes
    /\ n_modules[h] + 1 < MaxModules
    /\ \E g \in Fresh : \E e \in Fresh \ {g} :
        \/ /\ n_modules' = [n_modules EXCEPT ![h] = n_modules[h] + 2]
           /\ modules' = [modules EXCEPT ![h] = modules[h] \o
                            <<[name |-> "global", inst |-> g], [name |-> "env", inst |-> e]>>]
           /\ env' = [env EXCEPT ![h] = e]
           /\ live' = TakenOver({g, e})
           /\ table' = RuntimeTable(e, has_table)
        \/ /\ AllocFails
           /\ n_modules' = [n_modules EXCEPT ![h] = n_modules[h] + 2]
           /\ modules' = [modules EXCEPT ![h] = Append(modules[h], [name |-> "global", inst |-> g])]
           /\ live' = TakenOver({g})
           /\ UNCHANGED <<env, table>>
        \/ /\ AddNamedModuleFails(h)
           /\ UNCHANGED <<env, live, table>>
    /\ UNCHANGED <<state, asm, ctx, uses, entries, mains, halfway>>

(* wasmjit_invoke_function of main, which may call any function of its     *)
(* table.  It returns or traps, and nothing changes, unless the function   *)
(* was freed.                                                              *)
MainEnds(h, m) ==
    \/ UNCHANGED state
    \/ /\ table[m] # NULL
       /\ \E f \in entries[table[m]] : f \notin live
       /\ state' = [state EXCEPT ![h] = "wild"]

(* wasmjit_emscripten_init, once per handle: set_signal_context asserts    *)
(* that no context is published.                                           *)
InitAndRun(h, m) ==
    IF ctx[Scope[h]] # NULL
    THEN Fault(h, "context")
    ELSE /\ ctx' = [ctx EXCEPT ![Scope[h]] = env[h]]
         /\ asm' = [asm EXCEPT ![h] = m]
         /\ MainEnds(h, m)
         /\ UNCHANGED <<modules, n_modules, env, instVars>>

Run(h, m) ==
    /\ MainEnds(h, m)
    /\ UNCHANGED <<modules, n_modules, env, asm, ctx, instVars>>

(* Mutant: the context is initialised for every main.                      *)
Initialised_Never(h) == FALSE

Initialised(h) == asm[h] # NULL

(* wasmjit_high_emscripten_invoke_main of module n.  Without the runtime   *)
(* there is no context to initialise; with it, env must be the module the  *)
(* runtime registered, and main always that of the same module.            *)
InvokeMain(h, n) ==
    /\ state[h] = "open"
    /\ ~Wild(h)
    /\ Named(h, n) # {}
    /\ Named(h, "env") # {}
    /\ LastNamed(h, n) \in mains
    /\ LET m == LastNamed(h, n)
           e == FirstNamed(h, "env")
       IN  \/ env[h] = NULL /\ Run(h, m)
           \/ env[h] \notin {NULL, e} /\ Fault(h, "env")
           \/ env[h] = e /\ ~Initialised(h) /\ InitAndRun(h, m)
           \/ env[h] = e /\ Initialised(h) /\ asm[h] = m /\ Run(h, m)

(* The search for the module reads the entry that was never written.       *)
InvokeMainWild(h) ==
    /\ state[h] = "open"
    /\ Wild(h)
    /\ Fault(h, "wild")

(* A call that returns -1 and leaves nothing behind: the file, an import   *)
(* or an export is missing or has another type, the runtime cannot be      *)
(* built, main belongs to another module than before.                      *)
CallFails(h) ==
    /\ state[h] = "open"
    /\ UNCHANGED vars

-----------------------------------------------------------------------------
(* wasmjit_free_module_inst of the modules in S.                           *)
FreeModuleInsts(S) ==
    /\ live' = live \ S
    /\ uses' = [i \in Insts |-> IF i \in S THEN {} ELSE uses[i]]
    /\ table' = [i \in Insts |-> IF i \in S THEN NULL ELSE table[i]]
    /\ entries' = [i \in Insts |-> IF i \in S THEN {} ELSE entries[i]]
    /\ mains' = mains \ S
    /\ UNCHANGED halfway

(* Mutant: the context is removed by any handle.                           *)
Cleanup_Always(h) == ctx' = [ctx EXCEPT ![Scope[h]] = NULL]

(* wasmjit_emscripten_cleanup, for a handle with the runtime.              *)
Cleanup(h) ==
    ctx' = IF env[h] # NULL THEN [ctx EXCEPT ![Scope[h]] = NULL] ELSE ctx

(* wasmjit_high_close; then the handle itself is gone.                     *)
Close(h) ==
    /\ state[h] = "open"
    /\ IF Wild(h)
       THEN Fault(h, "wild")
       ELSE /\ Cleanup(h)
            /\ FreeModuleInsts(Registered(h))
            /\ state' = [state EXCEPT ![h] = "closed"]
            /\ modules' = [modules EXCEPT ![h] = <<>>]
            /\ n_modules' = [n_modules EXCEPT ![h] = 0]
            /\ env' = [env EXCEPT ![h] = NULL]
            /\ asm' = [asm EXCEPT ![h] = NULL]

(* Every process has died.                                                 *)
Ended == (\A h \in Handles : state[h] \in Faults) /\ UNCHANGED vars

Next ==
    \/ \E h \in Handles :
        \/ Open(h)
        \/ \E p \in Programs, n \in ModuleNames : Instantiate(h, p, n)
        \/ \E has_table \in BOOLEAN : InstantiateRuntime(h, has_table)
        \/ \E n \in ModuleNames : InvokeMain(h, n)
        \/ InvokeMainWild(h)
        \/ CallFails(h)
        \/ Close(h)
    \/ Ended

Spec == Init /\ [][Next]_vars

-----------------------------------------------------------------------------
(* Every allocated instance is in exactly one entry of one registry, and   *)
(* every entry's instance is allocated: whatever fails half way, close     *)
(* frees each instance once and leaks none.                                *)
OwnedOnce ==
    /\ live = UNION {Registered(h) : h \in Handles}
    /\ \A g, h \in Handles : \A j \in 1..Len(modules[g]), k \in 1..Len(modules[h]) :
          modules[g][j].inst = modules[h][k].inst => g = h /\ j = k

(* What a live instance refers to is live: the modules it imports from,    *)
(* the owner of its table, the functions in its table.  The one exception  *)
(* are functions of a module whose instantiation failed after its element  *)
(* segments were written, which stay in the table they were written to.    *)
NothingDangles ==
    \A i \in live :
        /\ uses[i] \subseteq live
        /\ table[i] # NULL => table[i] \in live
        /\ entries[i] \subseteq live \cup halfway

(* The context the signal handler uses belongs to a module of an open      *)
(* handle that has run main, and a handle that has run main finds its own  *)
(* context published, whatever other handles of the process do.            *)
ContextOwned ==
    /\ \A s \in Scopes : ctx[s] # NULL =>
          \E h \in Handles : Scope[h] = s /\ asm[h] # NULL /\ ctx[s] \in Registered(h)
    /\ \A h \in Handles : asm[h] # NULL => ctx[Scope[h]] \in Registered(h)

(* "There should only be one instance of emscripten module per process"    *)
(* (set_signal_context): as long as that is so, assert(_g_handler_ctx ==   *)
(* NULL) holds.                                                            *)
ContextAssertion == \A h \in Handles : state[h] # "context"
=============================================================================
