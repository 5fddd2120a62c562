---------------------------- MODULE LinkingProof ----------------------------
(***************************************************************************)
(* Proofs about Linking, for any handles, programs and instances: with at  *)
(* most one handle that has the Emscripten runtime per process, whatever   *)
(* is loaded, fails, runs or is closed in whatever order,                  *)
(*   - every instance is owned by exactly one entry of one registry,       *)
(*   - what a live instance refers to is live,                             *)
(*   - the published context is that of an open handle.                    *)
(*                                                                         *)
(* The properties are not inductive as they stand.  That closing a handle  *)
(* leaves nothing dangling depends on its instances referring only to each *)
(* other, which is the invariant References; that a new instance starts    *)
(* clean on Clean; that clearing the context on close hits the handle's    *)
(* own on Contexts and the assumption OneRuntime.                          *)
(***************************************************************************)
EXTENDS Linking, WellFoundedInduction, TLAPS

(* Leaves that name no prover: how long each is tried, and in which order. *)
USE SMTT(20), ZenonT(20), SMTT(40), Z3T(60)

(* "There should only be one instance of emscripten module per process"    *)
OneRuntime == \A g, h \in Runtimes : Scope[g] = Scope[h] => g = h

-----------------------------------------------------------------------------
(* The inductive invariant.                                                *)

Entry == [name : Names, inst : Insts]
InstsOf(s) == {s[k].inst : k \in 1..Len(s)}
Distinct(s) == \A j, k \in 1..Len(s) : s[j].inst = s[k].inst => j = k

(* Registries are disjoint, repeat no instance and hold all of them.       *)
Registries ==
    /\ \A h \in Handles : Distinct(modules[h])
    /\ \A g, h \in Handles : g # h => Registered(g) \cap Registered(h) = {}
    /\ live = UNION {Registered(h) : h \in Handles}

(* A handle that is closed has nothing.                                    *)
ClosedEmpty ==
    \A h \in Handles : state[h] = "closed" => modules[h] = <<>> /\ env[h] = NULL /\ asm[h] = NULL

(* Instances refer to instances of the same handle.                        *)
References ==
    \A h \in Handles : \A i \in Registered(h) :
        /\ uses[i] \subseteq Registered(h)
        /\ table[i] \in Registered(h) \cup {NULL}
        /\ entries[i] \subseteq Registered(h) \cup halfway

(* An address that is not allocated carries nothing over.                  *)
Clean ==
    /\ \A i \in Insts \ live : uses[i] = {} /\ table[i] = NULL /\ entries[i] = {}
    /\ halfway \cap live = {}

Contexts ==
    /\ \A h \in Handles : env[h] # NULL => h \in Runtimes /\ env[h] \in Registered(h)
    /\ \A h \in Handles : asm[h] # NULL => env[h] # NULL /\ ctx[Scope[h]] \in Registered(h)
    /\ \A s \in Scopes : ctx[s] # NULL =>
          \E h \in Handles : Scope[h] = s /\ asm[h] # NULL /\ ctx[s] \in Registered(h)

Inv == TypeOK /\ Registries /\ ClosedEmpty /\ References /\ Clean /\ Contexts /\ ContextAssertion

-----------------------------------------------------------------------------
(* Registries as sequences.                                                *)

(* An appended entry adds its instance, add_named_module.                  *)
LEMMA AppendEntry ==
    ASSUME NEW s \in Seq(Entry), NEW e \in Entry
    PROVE  /\ Append(s, e) \in Seq(Entry)
           /\ Len(Append(s, e)) = Len(s) + 1
           /\ InstsOf(Append(s, e)) = InstsOf(s) \cup {e.inst}
           /\ Distinct(s) /\ e.inst \notin InstsOf(s) => Distinct(Append(s, e))
<1>1. /\ Append(s, e) \in Seq(Entry)
      /\ Len(Append(s, e)) = Len(s) + 1
      /\ Len(s) \in Nat
      /\ \A k \in 1..Len(s) : Append(s, e)[k] = s[k]
      /\ Append(s, e)[Len(s) + 1] = e
  OBVIOUS
<1>2. InstsOf(Append(s, e)) = InstsOf(s) \cup {e.inst}
  <2>1. ASSUME NEW x \in InstsOf(Append(s, e)) PROVE x \in InstsOf(s) \cup {e.inst}
    BY <1>1 DEF InstsOf
  <2>2. ASSUME NEW x \in InstsOf(s) PROVE x \in InstsOf(Append(s, e))
    <3>1. PICK k \in 1..Len(s) : x = s[k].inst
      BY ZenonT(60) DEF InstsOf
    <3>2. k \in 1..Len(Append(s, e)) /\ Append(s, e)[k].inst = x
      BY <1>1, <3>1
    <3> QED  BY ZenonT(60), <3>2 DEF InstsOf
  <2>3. e.inst \in InstsOf(Append(s, e))
    <3>1. Len(s) + 1 \in 1..Len(Append(s, e)) /\ Append(s, e)[Len(s) + 1].inst = e.inst
      BY <1>1
    <3> QED  BY ZenonT(60), <3>1 DEF InstsOf
  <2> QED  BY <2>1, <2>2, <2>3, ZenonT(60)
<1>3. ASSUME Distinct(s), e.inst \notin InstsOf(s) PROVE Distinct(Append(s, e))
  <2>1. \A k \in 1..Len(s) : s[k].inst # e.inst
    BY ZenonT(60), <1>3 DEF InstsOf
  <2>2. SUFFICES ASSUME NEW j \in 1..Len(s) + 1, NEW k \in 1..Len(s) + 1,
                        Append(s, e)[j].inst = Append(s, e)[k].inst
                 PROVE  j = k
    BY ZenonT(60), <1>1 DEF Distinct
  <2>3. CASE j \in 1..Len(s) /\ k \in 1..Len(s)
    BY ZenonT(60), <2>2, <2>3, <1>1, <1>3 DEF Distinct
  <2>4. CASE j = Len(s) + 1 \/ k = Len(s) + 1
    BY <2>1, <2>2, <2>4, <1>1
  <2> QED  BY <2>3, <2>4, <1>1
<1> QED  BY ZenonT(60), <1>1, <1>2, <1>3

(* The two modules of the Emscripten runtime are appended one by one.      *)
LEMMA AppendTwo ==
    ASSUME NEW s \in Seq(Entry), NEW d \in Entry, NEW e \in Entry
    PROVE  s \o <<d, e>> = Append(Append(s, d), e)
OBVIOUS

(* Nothing is registered in an empty registry.                             *)
LEMMA EmptyEntry == InstsOf(<<>>) = {} /\ Distinct(<<>>) /\ <<>> \in Seq(Entry)
BY DEF InstsOf, Distinct

(* A set of indices has a greatest element.                                *)
LEMMA Greatest ==
    ASSUME NEW n \in Nat, NEW T \in SUBSET (1..n), T # {}
    PROVE  \E k \in T : \A j \in T : j <= k
<1> DEFINE D == {n - k : k \in T}
<1>1. D \subseteq Nat
  OBVIOUS
<1>2. D # {}
  <2>1. PICK t \in T : TRUE
    BY ZenonT(60)
  <2>2. n - t \in D
    BY ZenonT(60), <2>1
  <2> QED  BY ZenonT(60), <2>2
<1>3. PICK x \in D : \A y \in D : ~(<<y, x>> \in OpToRel(<, Nat))
  <2> HIDE DEF D
  <2> QED  BY <1>1, <1>2, NatLessThanWellFounded, WFMin, ZenonT(60)
<1>4. \A y \in D : ~(y < x)
  BY <1>1, <1>3, ZenonT(60) DEF OpToRel
<1>5. PICK k \in T : x = n - k
  BY ZenonT(60)
<1>6. ASSUME NEW j \in T PROVE j <= k
  <2>1. n - j \in D
    BY ZenonT(60)
  <2>2. ~(n - j < n - k)
    BY ZenonT(60), <2>1, <1>4, <1>5
  <2> QED  BY <2>2
<1> QED  BY <1>6, ZenonT(60)

(* The module an import names is one of the handle's own.                  *)
LEMMA LastNamedRegistered ==
    ASSUME TypeOK, NEW h \in Handles, NEW n, Named(h, n) # {}
    PROVE  LastNamed(h, n) \in Registered(h)
<1>1. Len(modules[h]) \in Nat /\ Named(h, n) \in SUBSET (1..Len(modules[h]))
  BY DEF TypeOK, Named
<1>2. \E k \in Named(h, n) : \A j \in Named(h, n) : j <= k
  BY <1>1, Greatest, ZenonT(60)
<1>3. (CHOOSE k \in Named(h, n) : \A j \in Named(h, n) : j <= k) \in Named(h, n)
  BY <1>2, ZenonT(60)
<1> QED  BY <1>1, <1>3, ZenonT(60) DEF LastNamed, Registered

-----------------------------------------------------------------------------
(* Steps that change one registry.                                         *)

(* A new list of modules for one handle leaves the others' alone.          *)
LEMMA RegistryStep ==
    ASSUME TypeOK, NEW h \in Handles, NEW s \in Seq(Entry),
           modules' = [modules EXCEPT ![h] = s]
    PROVE  /\ modules' \in [Handles -> Seq(Entry)]
           /\ modules'[h] = s
           /\ Registered(h)' = InstsOf(s)
           /\ \A g \in Handles \ {h} : modules'[g] = modules[g] /\ Registered(g)' = Registered(g)
<1>1. modules \in [Handles -> Seq(Entry)]
  BY ZenonT(60) DEF TypeOK, Entry
<1>2. modules' \in [Handles -> Seq(Entry)] /\ modules'[h] = s
  BY ZenonT(60), <1>1
<1>3. \A g \in Handles \ {h} : modules'[g] = modules[g]
  BY ZenonT(60), <1>1
<1> QED  BY <1>2, <1>3 DEF Registered, InstsOf

(* Fresh instances that are registered and allocated keep the registries.  *)
LEMMA RegistriesGrow ==
    ASSUME Registries, NEW h \in Handles, NEW S, S \cap live = {},
           Registered(h)' = Registered(h) \cup S,
           Distinct(modules[h])',
           \A g \in Handles \ {h} : modules'[g] = modules[g] /\ Registered(g)' = Registered(g),
           live' = live \cup S
    PROVE  Registries'
<1>1. \A g \in Handles : Registered(g) \subseteq live
  BY DEF Registries
<1>2. \A g \in Handles : Distinct(modules[g])'
  <2>1. SUFFICES ASSUME NEW g \in Handles, g # h PROVE Distinct(modules[g])'
    BY ZenonT(60)
  <2>2. Distinct(modules[g]) /\ modules'[g] = modules[g]
    BY ZenonT(60), <2>1 DEF Registries
  <2> QED  BY ZenonT(60), <2>2 DEF Distinct
<1>3. \A f, g \in Handles : f # g => Registered(f)' \cap Registered(g)' = {}
  <2>1. SUFFICES ASSUME NEW f \in Handles, NEW g \in Handles, f # g,
                        NEW x, x \in Registered(f)', x \in Registered(g)'
                 PROVE  FALSE
    BY ZenonT(60)
  <2>2. Registered(f) \cap Registered(g) = {}
    BY ZenonT(60), <2>1 DEF Registries
  <2> QED  BY ZenonT(60), <1>1, <2>1, <2>2
<1>4. live' = UNION {Registered(g)' : g \in Handles}
  <2>1. ASSUME NEW x \in live' PROVE \E g \in Handles : x \in Registered(g)'
    <3>1. CASE x \in S
      BY ZenonT(60), <3>1
    <3>2. CASE x \in live
      <4>1. PICK g \in Handles : x \in Registered(g)
        BY <3>2 DEF Registries
      <4> QED  BY ZenonT(60), <4>1
    <3> QED  BY ZenonT(60), <2>1, <3>1, <3>2
  <2>2. ASSUME NEW g \in Handles, NEW x \in Registered(g)' PROVE x \in live'
    BY ZenonT(60), <1>1, <2>2
  <2> QED  BY <2>1, <2>2
<1> QED  BY ZenonT(60), <1>2, <1>3, <1>4 DEF Registries

-----------------------------------------------------------------------------
(* wasmjit_instantiate.                                                    *)

(* Imports and the table come from modules of the same handle.             *)
LEMMA ImportsRegistered ==
    ASSUME TypeOK, References, NEW h \in Handles, NEW p \in Programs, NEW i \in Insts,
           Resolvable(h, p)
    PROVE  /\ Imported(h, p) \subseteq Registered(h)
           /\ TableOf(h, p, i) \in Registered(h) \cup {i, NULL}
           /\ p.elems => TableOf(h, p, i) # NULL
<1>1. \A n \in p.imports : LastNamed(h, n) \in Registered(h)
  BY LastNamedRegistered, ZenonT(60) DEF Resolvable
<1>2. Imported(h, p) \subseteq Registered(h)
  BY ZenonT(60), <1>1 DEF Imported, References
<1>3. CASE p.table = "none"
  <2>1. TableOf(h, p, i) = NULL
    BY ZenonT(60), <1>3 DEF TableOf
  <2>2. ~p.elems
    BY <1>3, ProgramsAssumption, ZenonT(60)
  <2> QED  BY ZenonT(60), <1>2, <2>1, <2>2
<1>4. CASE p.table = "own"
  <2>1. TableOf(h, p, i) = i
    BY ZenonT(60), <1>4 DEF TableOf
  <2> QED  BY ZenonT(60), <1>2, <2>1, HandlesAssumption
<1>5. CASE p.table \notin {"none", "own"}
  <2>1. p.table \in p.imports /\ p.table \in Names
    BY ZenonT(60), <1>5, ProgramsAssumption
  <2>2. TableOf(h, p, i) = table[LastNamed(h, p.table)]
    BY ZenonT(60), <1>5 DEF TableOf
  <2>3. table[LastNamed(h, p.table)] # NULL
    BY ZenonT(60), <2>1 DEF Resolvable
  <2>4. table[LastNamed(h, p.table)] \in Registered(h) \cup {NULL}
    BY ZenonT(60), <1>1, <2>1 DEF References
  <2> QED  BY ZenonT(60), <1>2, <2>2, <2>3, <2>4
<1> QED  BY ZenonT(60), <1>3, <1>4, <1>5

(* Facts of the invariant used in most steps.                              *)
LEMMA RegisteredLive ==
    ASSUME Registries
    PROVE  /\ \A h \in Handles : Registered(h) \subseteq live
           /\ \A g, h \in Handles : \A i \in Registered(g) : g # h => i \notin Registered(h)
BY ZenonT(60) DEF Registries

(* An instance that links and is registered.                               *)
LEMMA InstantiateOkStep ==
    ASSUME Inv, NEW h \in Handles, NEW p \in Programs, NEW n \in ModuleNames,
           n_modules[h] < MaxModules, state[h] = "open",
           Resolvable(h, p), InstantiateOk(h, p, n), UNCHANGED <<state, env, asm, ctx>>
    PROVE  Inv'
<1> USE DEF Inv
<1>1. PICK i \in Fresh :
        /\ live' = live \cup {i}
        /\ uses' = [uses EXCEPT ![i] = Imported(h, p)]
        /\ table' = [table EXCEPT ![i] = TableOf(h, p, i)]
        /\ entries' = Elements(h, p, i)
        /\ mains' = IF p.main THEN mains \cup {i} ELSE mains
        /\ AddNamedModule(h, n, i)
        /\ UNCHANGED halfway
  BY ZenonT(60) DEF InstantiateOk
<1>2. i \in Insts /\ i \notin live /\ i \notin halfway
  BY ZenonT(60) DEF Fresh
<1> DEFINE e == [name |-> n, inst |-> i]
<1>3. modules[h] \in Seq(Entry) /\ e \in Entry /\ e.inst = i
  BY <1>2, ZenonT(60) DEF TypeOK, Entry, Names
<1>4. InstsOf(modules[h]) = Registered(h)
  BY ZenonT(60) DEF InstsOf, Registered
<1>5. \A g \in Handles : Registered(g) \subseteq live
  BY RegisteredLive, ZenonT(60)
<1>6. /\ Append(modules[h], e) \in Seq(Entry)
      /\ Len(Append(modules[h], e)) = Len(modules[h]) + 1
      /\ InstsOf(Append(modules[h], e)) = Registered(h) \cup {i}
      /\ Distinct(Append(modules[h], e))
  <2>1. Distinct(modules[h])
    BY ZenonT(60) DEF Registries
  <2> HIDE DEF e
  <2> QED  BY <1>2, <1>3, <1>4, <1>5, <2>1, AppendEntry, ZenonT(60)
<1>7. modules' = [modules EXCEPT ![h] = Append(modules[h], e)]
  BY ZenonT(60), <1>1 DEF AddNamedModule
<1>8. /\ modules' \in [Handles -> Seq(Entry)]
      /\ modules'[h] = Append(modules[h], e)
      /\ Registered(h)' = Registered(h) \cup {i}
      /\ \A g \in Handles \ {h} : modules'[g] = modules[g] /\ Registered(g)' = Registered(g)
  <2> HIDE DEF e
  <2> QED  BY <1>6, <1>7, RegistryStep, ZenonT(60)
<1> HIDE DEF e
<1>9. Registries'
  <2>1. Distinct(modules[h])'
    BY ZenonT(60), <1>6, <1>8
  <2> QED  BY <1>1, <1>2, <1>8, <2>1, RegistriesGrow, ZenonT(60)
<1>10. /\ Imported(h, p) \subseteq Registered(h)
       /\ TableOf(h, p, i) \in Registered(h) \cup {i, NULL}
       /\ p.elems => TableOf(h, p, i) # NULL
  BY ZenonT(60), <1>2, ImportsRegistered
<1>11. /\ uses'[i] = Imported(h, p) /\ \A j \in Insts \ {i} : uses'[j] = uses[j]
       /\ table'[i] = TableOf(h, p, i) /\ \A j \in Insts \ {i} : table'[j] = table[j]
  BY ZenonT(60), <1>1, <1>2 DEF TypeOK
<1>12. \A j \in Insts : /\ entries[j] \subseteq entries'[j]
                        /\ entries'[j] \subseteq entries[j] \cup {i} \cup Registered(h)
                        /\ j # TableOf(h, p, i) => entries'[j] = entries[j]
  BY ZenonT(60), <1>1, <1>10 DEF TypeOK, Elements
<1>13. entries[i] = {} /\ uses[i] = {} /\ table[i] = NULL
  BY ZenonT(60), <1>2 DEF Clean
<1>14. Registered(h) \subseteq Insts
  BY ZenonT(60), <1>5 DEF TypeOK
<1>15. TypeOK'
  <2>1. n_modules' \in [Handles -> 0..MaxModules] /\ \A g \in Handles : Len(modules'[g]) <= n_modules'[g]
    BY <1>1, <1>6, <1>8, HandlesAssumption DEF TypeOK, AddNamedModule
  <2>2. uses' \in [Insts -> SUBSET Insts] /\ table' \in [Insts -> InstOrNull]
    BY ZenonT(60), <1>1, <1>2, <1>10, <1>14 DEF TypeOK, InstOrNull
  <2>3. entries' \in [Insts -> SUBSET Insts]
    BY ZenonT(60), <1>1, <1>2, <1>10, <1>14 DEF TypeOK, Elements
  <2>4. mains' \subseteq live' /\ live' \subseteq Insts /\ halfway' \subseteq Insts
    BY ZenonT(60), <1>1, <1>2 DEF TypeOK
  <2> QED  BY <1>8, <2>1, <2>2, <2>3, <2>4, ZenonT(60) DEF TypeOK, Entry
<1>16. ClosedEmpty'
  BY ZenonT(60), <1>8 DEF ClosedEmpty
<1>17. References'
  <2>1. SUFFICES ASSUME NEW g \in Handles, NEW j \in Registered(g)'
                 PROVE  /\ uses'[j] \subseteq Registered(g)'
                        /\ table'[j] \in Registered(g)' \cup {NULL}
                        /\ entries'[j] \subseteq Registered(g)' \cup halfway'
    BY ZenonT(60) DEF References
  <2>2. CASE g = h /\ j = i
    BY <1>2, <1>8, <1>10, <1>11, <1>12, <1>13, <2>2
  <2>3. CASE g = h /\ j # i
    <3>1. j \in Registered(h) /\ j \in Insts
      BY ZenonT(60), <1>8, <1>14, <2>1, <2>3
    <3>2. uses[j] \subseteq Registered(h) /\ table[j] \in Registered(h) \cup {NULL}
          /\ entries[j] \subseteq Registered(h) \cup halfway
      BY ZenonT(60), <3>1 DEF References
    <3> QED  BY ZenonT(60), <1>1, <1>8, <1>11, <1>12, <2>3, <3>1, <3>2
  <2>4. CASE g # h
    <3>1. j \in Registered(g) /\ j \in live /\ j # i /\ j \notin Registered(h)
      BY <1>2, <1>5, <1>8, <2>1, <2>4, RegisteredLive
    <3>2. uses[j] \subseteq Registered(g) /\ table[j] \in Registered(g) \cup {NULL}
          /\ entries[j] \subseteq Registered(g) \cup halfway
      BY ZenonT(60), <3>1 DEF References
    <3>3. j \in Insts /\ j # NULL
      BY ZenonT(60), <3>1, HandlesAssumption DEF TypeOK
    <3>4. j # TableOf(h, p, i)
      BY ZenonT(60), <1>10, <3>1, <3>3
    <3>5. uses'[j] = uses[j] /\ table'[j] = table[j] /\ entries'[j] = entries[j]
      BY ZenonT(60), <1>11, <1>12, <3>1, <3>3, <3>4
    <3> QED  BY ZenonT(60), <1>1, <1>8, <2>4, <3>2, <3>5
  <2> QED  BY ZenonT(60), <2>2, <2>3, <2>4
<1>18. Clean'
  <2>1. ASSUME NEW j \in Insts \ live' PROVE uses'[j] = {} /\ table'[j] = NULL /\ entries'[j] = {}
    <3>1. j \notin live /\ j # i /\ j # NULL /\ j \notin Registered(h)
      BY ZenonT(60), <1>1, <1>5, <2>1, HandlesAssumption
    <3>2. j # TableOf(h, p, i)
      BY ZenonT(60), <1>10, <3>1
    <3>3. uses'[j] = uses[j] /\ table'[j] = table[j] /\ entries'[j] = entries[j]
      BY ZenonT(60), <1>11, <1>12, <2>1, <3>1, <3>2
    <3> QED  BY ZenonT(60), <2>1, <3>1, <3>3 DEF Clean
  <2>2. halfway' \cap live' = {}
    BY ZenonT(60), <1>1, <1>2 DEF Clean
  <2> QED  BY ZenonT(60), <2>1, <2>2 DEF Clean
<1>19. Contexts'
  <2>1. \A g \in Handles : Registered(g) \subseteq Registered(g)'
    BY ZenonT(60), <1>8
  <2> QED  BY ZenonT(60), <2>1 DEF Contexts
<1>20. ContextAssertion'
  BY ZenonT(60) DEF ContextAssertion
<1> QED  BY ZenonT(60), <1>9, <1>15, <1>16, <1>17, <1>18, <1>19, <1>20

(* An instance that is freed after its element segments were written.      *)
LEMMA InstantiateLateStep ==
    ASSUME Inv, NEW h \in Handles, NEW p \in Programs, NEW count \in BOOLEAN,
           n_modules[h] < MaxModules, Resolvable(h, p), InstantiateLate(h, p, count),
           UNCHANGED <<state, env, asm, ctx>>
    PROVE  Inv'
<1> USE DEF Inv
<1>1. PICK i \in Fresh :
        /\ IF count THEN AddNamedModuleFails(h) ELSE UNCHANGED <<modules, n_modules>>
        /\ IF TableOf(h, p, i) \in {NULL, i}
           THEN UNCHANGED <<entries, halfway>>
           ELSE /\ entries' = Elements(h, p, i)
                /\ halfway' = IF p.elems THEN halfway \cup {i} ELSE halfway
        /\ UNCHANGED <<live, uses, table, mains>>
  BY ZenonT(60) DEF InstantiateLate
<1>2. i \in Insts /\ i \notin live /\ i \notin halfway
  BY ZenonT(60) DEF Fresh
<1>3. modules' = modules
  BY ZenonT(60), <1>1 DEF AddNamedModuleFails
<1>4. \A g \in Handles : Registered(g)' = Registered(g)
  BY ZenonT(60), <1>3 DEF Registered
<1>5. \A g \in Handles : Registered(g) \subseteq live
  BY RegisteredLive, ZenonT(60)
<1>6. /\ Imported(h, p) \subseteq Registered(h)
      /\ TableOf(h, p, i) \in Registered(h) \cup {i, NULL}
  BY ZenonT(60), <1>2, ImportsRegistered
<1>7. Registered(h) \subseteq Insts
  BY ZenonT(60), <1>5 DEF TypeOK
<1>8. /\ halfway \subseteq halfway' /\ halfway' \subseteq halfway \cup {i}
      /\ \A j \in Insts : \/ entries'[j] = entries[j]
                          \/ /\ j \in Registered(h)
                             /\ entries'[j] = entries[j] \cup {i} \cup Imported(h, p)
                             /\ i \in halfway'
  <2>1. CASE TableOf(h, p, i) \in {NULL, i} \/ ~p.elems
    BY ZenonT(60), <1>1, <2>1 DEF Elements
  <2>2. CASE TableOf(h, p, i) \notin {NULL, i} /\ p.elems
    <3>1. entries' = [entries EXCEPT ![TableOf(h, p, i)] = @ \cup {i} \cup Imported(h, p)]
          /\ halfway' = halfway \cup {i} /\ TableOf(h, p, i) \in Registered(h)
      BY ZenonT(60), <1>1, <1>6, <2>2 DEF Elements
    <3> QED  BY ZenonT(60), <1>7, <3>1 DEF TypeOK
  <2> QED  BY ZenonT(60), <2>1, <2>2
<1>9. TypeOK'
  <2>1. n_modules' \in [Handles -> 0..MaxModules] /\ \A g \in Handles : Len(modules'[g]) <= n_modules'[g]
    <3>1. CASE count
      <4>1. n_modules' = [n_modules EXCEPT ![h] = n_modules[h] + 1]
        BY ZenonT(60), <1>1, <3>1 DEF AddNamedModuleFails
      <4>2. n_modules \in [Handles -> 0..MaxModules] /\ MaxModules \in Nat
        BY ZenonT(60), HandlesAssumption DEF TypeOK
      <4>3. \A g \in Handles : Len(modules[g]) \in Nat /\ Len(modules[g]) <= n_modules[g]
        BY DEF TypeOK
      <4> QED  BY <1>3, <4>1, <4>2, <4>3
    <3>2. CASE ~count
      BY ZenonT(60), <1>1, <3>2 DEF TypeOK
    <3> QED  BY ZenonT(60), <3>1, <3>2
  <2>2. entries' \in [Insts -> SUBSET Insts]
    <3>1. entries' \in [Insts -> SUBSET Insts] \/ entries' = Elements(h, p, i)
      BY ZenonT(60), <1>1 DEF TypeOK
    <3> QED  BY <1>2, <1>6, <1>7, <3>1 DEF TypeOK, Elements
  <2> QED  BY <1>1, <1>2, <1>3, <1>8, <2>1, <2>2, ZenonT(60) DEF TypeOK
<1>10. Registries' /\ ClosedEmpty' /\ Contexts' /\ ContextAssertion'
  <2>1. Registries'
    <3>1. \A g \in Handles : Distinct(modules[g])'
      BY ZenonT(60), <1>3 DEF Registries, Distinct
    <3>2. live' = UNION {Registered(g)' : g \in Handles}
      BY ZenonT(60), <1>1, <1>4 DEF Registries
    <3> QED  BY ZenonT(60), <1>4, <3>1, <3>2 DEF Registries
  <2>2. ClosedEmpty'
    BY ZenonT(60), <1>3 DEF ClosedEmpty
  <2>3. Contexts'
    BY <1>4 DEF Contexts
  <2>4. ContextAssertion'
    BY ZenonT(60) DEF ContextAssertion
  <2> QED  BY ZenonT(60), <2>1, <2>2, <2>3, <2>4
<1>11. References'
  <2>1. SUFFICES ASSUME NEW g \in Handles, NEW j \in Registered(g)
                 PROVE  entries'[j] \subseteq Registered(g) \cup halfway'
    BY <1>1, <1>4 DEF References
  <2>2. entries[j] \subseteq Registered(g) \cup halfway /\ j \in Insts
    BY ZenonT(60), <1>5 DEF References, TypeOK
  <2>3. CASE entries'[j] = entries[j]
    BY ZenonT(60), <1>8, <2>2, <2>3
  <2>4. CASE j \in Registered(h) /\ entries'[j] = entries[j] \cup {i} \cup Imported(h, p) /\ i \in halfway'
    <3>1. g = h
      BY <2>1, <2>4, RegisteredLive, ZenonT(60)
    <3> QED  BY ZenonT(60), <1>6, <1>8, <2>2, <2>4, <3>1
  <2> QED  BY ZenonT(60), <1>8, <2>2, <2>3, <2>4
<1>12. Clean'
  <2>1. ASSUME NEW j \in Insts \ live' PROVE uses'[j] = {} /\ table'[j] = NULL /\ entries'[j] = {}
    <3>1. j \notin live /\ j \notin Registered(h)
      BY ZenonT(60), <1>1, <1>5, <2>1
    <3>2. entries'[j] = entries[j]
      BY ZenonT(60), <1>8, <2>1, <3>1
    <3> QED  BY ZenonT(60), <1>1, <2>1, <3>1, <3>2 DEF Clean
  <2>2. halfway' \cap live' = {}
    BY <1>1, <1>2, <1>8, ZenonT(60) DEF Clean
  <2> QED  BY ZenonT(60), <2>1, <2>2 DEF Clean
<1> QED  BY ZenonT(60), <1>9, <1>10, <1>11, <1>12

(* Steps that leave the registries and the instances as they are.          *)
LEMMA Kept ==
    ASSUME Registries, References, Clean,
           UNCHANGED <<modules, env, live, uses, table, entries, halfway>>
    PROVE  /\ Registries' /\ References' /\ Clean'
           /\ \A g \in Handles : Registered(g)' = Registered(g)
<1>1. \A g \in Handles : Registered(g)' = Registered(g)
  BY ZenonT(60) DEF Registered
<1>2. Registries'
  <2>1. \A g \in Handles : Distinct(modules[g])'
    BY ZenonT(60) DEF Registries, Distinct
  <2>2. live' = UNION {Registered(g)' : g \in Handles}
    BY ZenonT(60), <1>1 DEF Registries
  <2> QED  BY ZenonT(60), <1>1, <2>1, <2>2 DEF Registries
<1>3. References'
  BY ZenonT(60), <1>1 DEF References
<1>4. Clean'
  BY ZenonT(60) DEF Clean
<1> QED  BY ZenonT(60), <1>1, <1>2, <1>3, <1>4

(* A process that dies leaves everything else as it is.                    *)
LEMMA FaultStep ==
    ASSUME Inv, NEW h \in Handles, NEW f \in {"wild", "env"}, Fault(h, f)
    PROVE  Inv'
<1> USE DEF Inv
<1>1. /\ state' = [state EXCEPT ![h] = f]
      /\ UNCHANGED <<modules, n_modules, env, asm, ctx, live, uses, table, entries, mains, halfway>>
  BY ZenonT(60) DEF Fault, instVars
<1>2. Registries' /\ References' /\ Clean' /\ \A g \in Handles : Registered(g)' = Registered(g)
  BY <1>1, Kept, ZenonT(60)
<1>3. \A g \in Handles : state'[g] \in {state[g], f}
  BY ZenonT(60), <1>1 DEF TypeOK
<1>4. TypeOK'
  BY <1>1, ZenonT(60) DEF TypeOK, Faults
<1>5. ClosedEmpty'
  BY ZenonT(60), <1>1, <1>3 DEF ClosedEmpty
<1>6. Contexts'
  BY <1>1, <1>2 DEF Contexts
<1>7. ContextAssertion'
  BY ZenonT(60), <1>3 DEF ContextAssertion
<1> QED  BY <1>2, <1>4, <1>5, <1>6, <1>7, ZenonT(60)

(* wasmjit_high_init of a handle that has nothing yet.                     *)
LEMMA OpenStep ==
    ASSUME Inv, NEW h \in Handles, Open(h)
    PROVE  Inv'
<1> USE DEF Inv
<1>1. modules[h] = <<>> /\ env[h] = NULL /\ asm[h] = NULL
  BY ZenonT(60) DEF Open, ClosedEmpty
<1>2. modules' = modules /\ env' = env /\ asm' = asm
  BY ZenonT(60), <1>1 DEF Open, TypeOK
<1>3. /\ state' = [state EXCEPT ![h] = "open"]
      /\ n_modules' = [n_modules EXCEPT ![h] = 0]
      /\ UNCHANGED <<ctx, live, uses, table, entries, mains, halfway>>
  BY ZenonT(60) DEF Open, instVars
<1>4. \A g \in Handles : Registered(g)' = Registered(g)
  BY ZenonT(60), <1>2 DEF Registered
<1>5. \A g \in Handles : state'[g] \in {state[g], "open"}
  BY ZenonT(60), <1>3 DEF TypeOK
<1>6. TypeOK'
  <2>1. n_modules' \in [Handles -> 0..MaxModules]
    BY <1>3, HandlesAssumption DEF TypeOK
  <2>2. ASSUME NEW g \in Handles PROVE Len(modules'[g]) <= n_modules'[g]
    <3>1. CASE g = h
      <4>1. Len(modules'[g]) = 0 /\ n_modules'[g] = 0
        BY ZenonT(60), <1>1, <1>2, <1>3, <3>1 DEF TypeOK
      <4> QED  BY <4>1
    <3>2. CASE g # h
      BY ZenonT(60), <1>2, <1>3, <3>2 DEF TypeOK
    <3> QED  BY ZenonT(60), <3>1, <3>2
  <2> QED  BY <1>2, <1>3, <2>1, <2>2, ZenonT(60) DEF TypeOK
<1>7. Registries' /\ References'
  <2>1. \A g \in Handles : Distinct(modules[g])'
    BY ZenonT(60), <1>2 DEF Registries, Distinct
  <2>2. live' = UNION {Registered(g)' : g \in Handles}
    BY ZenonT(60), <1>3, <1>4 DEF Registries
  <2> QED  BY <1>3, <1>4, <2>1, <2>2 DEF Registries, References
<1>8. ClosedEmpty'
  BY ZenonT(60), <1>2, <1>5 DEF ClosedEmpty
<1>9. Clean'
  BY ZenonT(60), <1>3 DEF Clean
<1>10. Contexts'
  BY <1>2, <1>3, <1>4 DEF Contexts
<1>11. ContextAssertion'
  BY ZenonT(60), <1>5 DEF ContextAssertion
<1> QED  BY ZenonT(60), <1>6, <1>7, <1>8, <1>9, <1>10, <1>11

-----------------------------------------------------------------------------
(* The modules of the Emscripten runtime that were registered: S of them,  *)
(* in the list s, with a table for one.                                    *)
LEMMA RuntimeGrows ==
    ASSUME Inv, NEW h \in Handles, state[h] = "open", h \in Runtimes,
           NEW S \in SUBSET Fresh, NEW s \in Seq(Entry),
           modules' = [modules EXCEPT ![h] = s],
           InstsOf(s) = Registered(h) \cup S, Distinct(s),
           n_modules' \in [Handles -> 0..MaxModules],
           \A g \in Handles : n_modules[g] <= n_modules'[g],
           Len(s) <= n_modules'[h],
           live' = live \cup S,
           table' \in [Insts -> InstOrNull],
           \A i \in Insts : table'[i] = table[i] \/ (i \in S /\ table'[i] = i),
           env' \in [Handles -> InstOrNull],
           \A g \in Handles : env'[g] = env[g] \/ (g = h /\ env'[g] \in S),
           UNCHANGED <<state, asm, ctx, uses, entries, mains, halfway>>
    PROVE  Inv'
<1> USE DEF Inv
<1>1. /\ modules' \in [Handles -> Seq(Entry)]
      /\ modules'[h] = s
      /\ Registered(h)' = Registered(h) \cup S
      /\ \A g \in Handles \ {h} : modules'[g] = modules[g] /\ Registered(g)' = Registered(g)
  BY RegistryStep, ZenonT(60)
<1>2. S \subseteq Insts /\ S \cap live = {} /\ S \cap halfway = {} /\ NULL \notin S
  BY ZenonT(60), HandlesAssumption DEF Fresh
<1>3. \A g \in Handles : Registered(g) \subseteq live
  BY RegisteredLive, ZenonT(60)
<1>4. Registries'
  <2>1. Distinct(modules[h])'
    BY ZenonT(60), <1>1
  <2> QED  BY <1>1, <1>2, <2>1, RegistriesGrow, ZenonT(60)
<1>5. TypeOK'
  <2>1. \A g \in Handles : Len(modules'[g]) <= n_modules'[g]
    <3>1. ASSUME NEW g \in Handles, g # h PROVE Len(modules'[g]) <= n_modules'[g]
      <4>1. Len(modules[g]) \in Nat /\ Len(modules[g]) <= n_modules[g] /\ n_modules[g] \in Int
        BY HandlesAssumption DEF TypeOK
      <4>2. n_modules[g] <= n_modules'[g] /\ n_modules'[g] \in Int /\ modules'[g] = modules[g]
        BY <1>1, <3>1, HandlesAssumption
      <4> QED  BY <4>1, <4>2
    <3> QED  BY ZenonT(60), <1>1, <3>1
  <2>2. live' \subseteq Insts /\ mains' \subseteq live'
    BY ZenonT(60), <1>2 DEF TypeOK
  <2> QED  BY <1>1, <2>1, <2>2, ZenonT(60) DEF TypeOK, Entry
<1>6. ClosedEmpty'
  <2>1. SUFFICES ASSUME NEW g \in Handles, state[g] = "closed"
                 PROVE  modules'[g] = <<>> /\ env'[g] = NULL /\ asm'[g] = NULL
    BY ZenonT(60) DEF ClosedEmpty
  <2>2. g # h
    BY ZenonT(60), <2>1
  <2> QED  BY ZenonT(60), <1>1, <2>1, <2>2 DEF ClosedEmpty
<1>7. References'
  <2>1. SUFFICES ASSUME NEW g \in Handles, NEW i \in Registered(g)'
                 PROVE  /\ uses[i] \subseteq Registered(g)'
                        /\ table'[i] \in Registered(g)' \cup {NULL}
                        /\ entries[i] \subseteq Registered(g)' \cup halfway
    BY ZenonT(60) DEF References
  <2>2. CASE i \in S
    <3>1. uses[i] = {} /\ table[i] = NULL /\ entries[i] = {} /\ i \in Insts
      <4>1. i \in Insts \ live
        BY <1>2, <2>2, ZenonT(60)
      <4> QED  BY <4>1, ZenonT(60) DEF Clean
    <3> QED  BY ZenonT(60), <2>1, <3>1
  <2>3. CASE i \notin S
    <3>1. i \in Registered(g) /\ i \in Insts
      <4>1. CASE g = h
        BY ZenonT(60), <1>1, <1>3, <2>1, <2>3, <4>1 DEF TypeOK
      <4>2. CASE g # h
        BY ZenonT(60), <1>1, <1>3, <2>1, <4>2 DEF TypeOK
      <4> QED  BY ZenonT(60), <4>1, <4>2
    <3>2. /\ uses[i] \subseteq Registered(g)
          /\ table[i] \in Registered(g) \cup {NULL}
          /\ entries[i] \subseteq Registered(g) \cup halfway
      BY ZenonT(60), <3>1 DEF References
    <3>3. table'[i] = table[i] /\ Registered(g) \subseteq Registered(g)'
      BY <1>1, <2>3, <3>1
    <3> QED  BY ZenonT(60), <3>2, <3>3
  <2> QED  BY ZenonT(60), <2>2, <2>3
<1>8. Clean'
  BY ZenonT(60), <1>2 DEF Clean
<1>9. Contexts'
  <2>1. \A g \in Handles : Registered(g) \subseteq Registered(g)'
    BY ZenonT(60), <1>1
  <2>2. ASSUME NEW g \in Handles, env'[g] # NULL PROVE g \in Runtimes /\ env'[g] \in Registered(g)'
    BY ZenonT(60), <1>1, <2>1, <2>2 DEF Contexts
  <2>3. ASSUME NEW g \in Handles, asm'[g] # NULL
        PROVE  env'[g] # NULL /\ ctx'[Scope[g]] \in Registered(g)'
    BY ZenonT(60), <1>2, <2>1, <2>3 DEF Contexts
  <2>4. \A t \in Scopes : ctx'[t] # NULL =>
          \E g \in Handles : Scope[g] = t /\ asm'[g] # NULL /\ ctx'[t] \in Registered(g)'
    BY ZenonT(60), <2>1 DEF Contexts
  <2> QED  BY ZenonT(60), <2>2, <2>3, <2>4 DEF Contexts
<1>10. ContextAssertion'
  BY ZenonT(60) DEF ContextAssertion
<1> QED  BY ZenonT(60), <1>4, <1>5, <1>6, <1>7, <1>8, <1>9, <1>10

(* wasmjit_high_instantiate_emscripten_runtime.                            *)
LEMMA RuntimeStep ==
    ASSUME Inv, NEW h \in Handles, NEW has_table \in BOOLEAN, InstantiateRuntime(h, has_table)
    PROVE  Inv'
<1> USE DEF Inv
<1>1. PICK a \in Fresh, e \in Fresh :
        /\ a # e
        /\ \/ /\ n_modules' = [n_modules EXCEPT ![h] = n_modules[h] + 2]
              /\ modules' = [modules EXCEPT ![h] = modules[h] \o
                               <<[name |-> "global", inst |-> a], [name |-> "env", inst |-> e]>>]
              /\ env' = [env EXCEPT ![h] = e]
              /\ live' = TakenOver({a, e})
              /\ table' = RuntimeTable(e, has_table)
           \/ /\ AllocFails
              /\ n_modules' = [n_modules EXCEPT ![h] = n_modules[h] + 2]
              /\ modules' = [modules EXCEPT ![h] = Append(modules[h], [name |-> "global", inst |-> a])]
              /\ live' = TakenOver({a})
              /\ UNCHANGED <<env, table>>
           \/ /\ AddNamedModuleFails(h)
              /\ UNCHANGED <<env, live, table>>
  BY ZenonT(60) DEF InstantiateRuntime
<1>2. /\ state[h] = "open" /\ h \in Runtimes /\ n_modules[h] + 1 < MaxModules
      /\ UNCHANGED <<state, asm, ctx, uses, entries, mains, halfway>>
  BY ZenonT(60) DEF InstantiateRuntime
<1> DEFINE G == [name |-> "global", inst |-> a]
           E == [name |-> "env", inst |-> e]
<1>3. /\ modules[h] \in Seq(Entry) /\ G \in Entry /\ E \in Entry /\ G.inst = a /\ E.inst = e
      /\ a \in Insts /\ e \in Insts /\ a # e /\ a \notin live /\ e \notin live
  BY <1>1, ZenonT(60) DEF TypeOK, Entry, Names, Fresh
<1>4. InstsOf(modules[h]) = Registered(h) /\ Distinct(modules[h]) /\ Registered(h) \subseteq live
  <2>1. InstsOf(modules[h]) = Registered(h)
    BY ZenonT(60) DEF InstsOf, Registered
  <2>2. Registered(h) \subseteq live
    BY RegisteredLive, ZenonT(60)
  <2> QED  BY ZenonT(60), <2>1, <2>2 DEF Registries
<1>5. n_modules \in [Handles -> 0..MaxModules] /\ MaxModules \in Nat
      /\ Len(modules[h]) \in Nat /\ Len(modules[h]) <= n_modules[h]
  BY HandlesAssumption DEF TypeOK
<1>6. table \in [Insts -> InstOrNull] /\ env \in [Handles -> InstOrNull]
  BY ZenonT(60) DEF TypeOK
<1> DEFINE one == Append(modules[h], G)
<1>7. /\ one \in Seq(Entry) /\ Len(one) = Len(modules[h]) + 1
      /\ InstsOf(one) = Registered(h) \cup {a} /\ Distinct(one)
  <2> HIDE DEF G, E
  <2> QED  BY ZenonT(60), <1>3, <1>4, AppendEntry
<1>8. CASE /\ n_modules' = [n_modules EXCEPT ![h] = n_modules[h] + 2]
           /\ modules' = [modules EXCEPT ![h] = modules[h] \o <<G, E>>]
           /\ env' = [env EXCEPT ![h] = e]
           /\ live' = TakenOver({a, e})
           /\ table' = RuntimeTable(e, has_table)
  <2> DEFINE two == Append(one, E)
  <2>1. modules' = [modules EXCEPT ![h] = two]
    <3> HIDE DEF G, E
    <3> QED  BY <1>3, <1>8, AppendTwo, ZenonT(60)
  <2>2. /\ two \in Seq(Entry) /\ Len(two) = Len(modules[h]) + 2
        /\ InstsOf(two) = Registered(h) \cup {a, e} /\ Distinct(two)
    <3>1. e \notin InstsOf(one)
      BY ZenonT(60), <1>3, <1>4, <1>7
    <3> HIDE DEF G, E, one
    <3>2. /\ two \in Seq(Entry) /\ Len(two) = Len(one) + 1
          /\ InstsOf(two) = InstsOf(one) \cup {E.inst}
          /\ Distinct(one) /\ E.inst \notin InstsOf(one) => Distinct(two)
      BY <1>3, <1>7, AppendEntry, ZenonT(60)
    <3>3. Len(two) = Len(modules[h]) + 2
      BY <1>5, <1>7, <3>2
    <3> QED  BY ZenonT(60), <1>3, <1>7, <3>1, <3>2, <3>3
  <2>3. n_modules' \in [Handles -> 0..MaxModules] /\ n_modules'[h] = n_modules[h] + 2
        /\ \A g \in Handles : n_modules[g] <= n_modules'[g]
    <3>1. n_modules' = [n_modules EXCEPT ![h] = n_modules[h] + 2]
      BY ZenonT(60), <1>8
    <3> QED  BY <1>2, <1>5, <3>1
  <2>4. Len(two) <= n_modules'[h]
    BY <1>5, <2>2, <2>3
  <2>5. table' \in [Insts -> InstOrNull]
        /\ \A i \in Insts : table'[i] = table[i] \/ (i \in {a, e} /\ table'[i] = i)
    <3>1. table[e] = NULL
      BY ZenonT(60), <1>3 DEF Clean
    <3> QED  BY ZenonT(60), <1>3, <1>6, <1>8, <3>1 DEF RuntimeTable, InstOrNull
  <2>6. env' \in [Handles -> InstOrNull]
        /\ \A g \in Handles : env'[g] = env[g] \/ (g = h /\ env'[g] \in {a, e})
    BY ZenonT(60), <1>3, <1>6, <1>8 DEF InstOrNull
  <2>7. live' = live \cup {a, e} /\ {a, e} \in SUBSET Fresh
    BY ZenonT(60), <1>8 DEF TakenOver
  <2> HIDE DEF two
  <2> QED  BY <1>2, <2>1, <2>2, <2>3, <2>4, <2>5, <2>6, <2>7, RuntimeGrows, ZenonT(60)
<1>9. CASE /\ n_modules' = [n_modules EXCEPT ![h] = n_modules[h] + 2]
           /\ modules' = [modules EXCEPT ![h] = one]
           /\ live' = TakenOver({a})
           /\ UNCHANGED <<env, table>>
  <2>1. n_modules' \in [Handles -> 0..MaxModules] /\ n_modules'[h] = n_modules[h] + 2
        /\ \A g \in Handles : n_modules[g] <= n_modules'[g]
    BY <1>2, <1>5, <1>9
  <2>2. Len(one) <= n_modules'[h]
    BY <1>5, <1>7, <2>1
  <2>3. live' = live \cup {a} /\ {a} \in SUBSET Fresh
    BY ZenonT(60), <1>9 DEF TakenOver
  <2>4. table' \in [Insts -> InstOrNull] /\ env' \in [Handles -> InstOrNull]
        /\ (\A i \in Insts : table'[i] = table[i]) /\ (\A g \in Handles : env'[g] = env[g])
    BY ZenonT(60), <1>6, <1>9
  <2>5. modules' = [modules EXCEPT ![h] = one]
    BY ZenonT(60), <1>9
  <2> HIDE DEF one
  <2> QED  BY <1>2, <1>7, <2>1, <2>2, <2>3, <2>4, <2>5, RuntimeGrows, ZenonT(60)
<1>10. CASE AddNamedModuleFails(h) /\ UNCHANGED <<env, live, table>>
  <2>1. n_modules' = [n_modules EXCEPT ![h] = n_modules[h] + 1] /\ modules' = modules
    BY ZenonT(60), <1>10 DEF AddNamedModuleFails
  <2>2. n_modules' \in [Handles -> 0..MaxModules] /\ n_modules'[h] = n_modules[h] + 1
        /\ \A g \in Handles : n_modules[g] <= n_modules'[g]
    BY <1>2, <1>5, <2>1
  <2>3. Len(modules[h]) <= n_modules'[h] /\ modules' = [modules EXCEPT ![h] = modules[h]]
    BY <1>5, <2>1, <2>2 DEF TypeOK
  <2>4. live' = live \cup {} /\ InstsOf(modules[h]) = Registered(h) \cup {}
    BY ZenonT(60), <1>4, <1>10
  <2>5. table' \in [Insts -> InstOrNull] /\ env' \in [Handles -> InstOrNull]
        /\ (\A i \in Insts : table'[i] = table[i]) /\ (\A g \in Handles : env'[g] = env[g])
    BY ZenonT(60), <1>6, <1>10
  <2>6. {} \in SUBSET Fresh
    BY ZenonT(60)
  <2> QED  BY <1>2, <1>3, <1>4, <2>2, <2>3, <2>4, <2>5, <2>6, RuntimeGrows, ZenonT(60)
<1> QED  BY ZenonT(60), <1>1, <1>8, <1>9, <1>10

-----------------------------------------------------------------------------
(* wasmjit_high_close.                                                     *)

(* wasmjit_high_level_close keeps the invariant.                           *)
LEMMA CloseStep ==
    ASSUME OneRuntime, Inv, NEW h \in Handles, Close(h)
    PROVE  Inv'
<1> USE DEF Inv
<1>1. CASE Wild(h)
  <2>1. Fault(h, "wild")
    BY ZenonT(60), <1>1 DEF Close
  <2> QED  BY ZenonT(60), <2>1, FaultStep
<1>2. CASE ~Wild(h)
  <2>1. /\ ctx' = IF env[h] # NULL THEN [ctx EXCEPT ![Scope[h]] = NULL] ELSE ctx
        /\ state' = [state EXCEPT ![h] = "closed"]
        /\ modules' = [modules EXCEPT ![h] = <<>>]
        /\ n_modules' = [n_modules EXCEPT ![h] = 0]
        /\ env' = [env EXCEPT ![h] = NULL]
        /\ asm' = [asm EXCEPT ![h] = NULL]
    BY ZenonT(60), <1>2 DEF Close, Cleanup
  <2>2. /\ live' = live \ Registered(h)
        /\ uses' = [i \in Insts |-> IF i \in Registered(h) THEN {} ELSE uses[i]]
        /\ table' = [i \in Insts |-> IF i \in Registered(h) THEN NULL ELSE table[i]]
        /\ entries' = [i \in Insts |-> IF i \in Registered(h) THEN {} ELSE entries[i]]
        /\ mains' = mains \ Registered(h)
        /\ halfway' = halfway
    BY ZenonT(60), <1>2 DEF Close, FreeModuleInsts
  <2>3. /\ modules' \in [Handles -> Seq(Entry)]
        /\ modules'[h] = <<>>
        /\ Registered(h)' = {}
        /\ \A g \in Handles \ {h} : modules'[g] = modules[g] /\ Registered(g)' = Registered(g)
    BY <2>1, EmptyEntry, RegistryStep, ZenonT(60)
  <2>4. /\ \A g \in Handles : Registered(g) \subseteq live
        /\ \A g \in Handles \ {h} : Registered(g) \cap Registered(h) = {}
    BY ZenonT(60) DEF Registries
  <2>5. TypeOK'
    <3>1. n_modules' \in [Handles -> 0..MaxModules]
      BY <2>1, HandlesAssumption DEF TypeOK
    <3>2. ASSUME NEW g \in Handles PROVE Len(modules'[g]) <= n_modules'[g]
      <4>1. CASE g = h
        <5>1. Len(modules'[g]) = 0 /\ n_modules'[g] = 0
          BY ZenonT(60), <2>1, <2>3, <4>1 DEF TypeOK
        <5> QED  BY <5>1
      <4>2. CASE g # h
        BY ZenonT(60), <2>1, <2>3, <4>2 DEF TypeOK
      <4> QED  BY ZenonT(60), <4>1, <4>2
    <3>3. env' \in [Handles -> InstOrNull] /\ asm' \in [Handles -> InstOrNull]
          /\ ctx' \in [Scopes -> InstOrNull] /\ state' \in [Handles -> {"closed", "open"} \cup Faults]
      BY <2>1, ZenonT(60) DEF TypeOK, InstOrNull
    <3>4. uses' \in [Insts -> SUBSET Insts] /\ entries' \in [Insts -> SUBSET Insts]
          /\ table' \in [Insts -> InstOrNull]
      BY ZenonT(60), <2>2 DEF TypeOK, InstOrNull
    <3>5. live' \subseteq Insts /\ mains' \subseteq live' /\ halfway' \subseteq Insts
      BY ZenonT(60), <2>2 DEF TypeOK
    <3> QED  BY <2>3, <3>1, <3>2, <3>3, <3>4, <3>5, ZenonT(60) DEF TypeOK, Entry
  <2>6. Registries'
    <3>1. ASSUME NEW g \in Handles PROVE Distinct(modules[g])'
      <4>1. CASE g = h
        BY <2>3, <4>1 DEF Distinct
      <4>2. CASE g # h
        <5>1. Distinct(modules[g]) /\ modules'[g] = modules[g]
          BY ZenonT(60), <2>3, <4>2 DEF Registries
        <5> QED  BY ZenonT(60), <5>1 DEF Distinct
      <4> QED  BY ZenonT(60), <4>1, <4>2
    <3>2. \A f, g \in Handles : f # g => Registered(f)' \cap Registered(g)' = {}
      BY ZenonT(60), <2>3 DEF Registries
    <3>3. live' = UNION {Registered(g)' : g \in Handles}
      <4>1. ASSUME NEW x \in live' PROVE \E g \in Handles : x \in Registered(g)'
        <5>1. PICK g \in Handles : x \in Registered(g)
          BY ZenonT(60), <2>2, <4>1 DEF Registries
        <5>2. g # h
          BY ZenonT(60), <2>2, <4>1, <5>1
        <5> QED  BY ZenonT(60), <2>3, <5>1, <5>2
      <4>2. ASSUME NEW g \in Handles, NEW x \in Registered(g)' PROVE x \in live'
        BY ZenonT(60), <2>2, <2>3, <2>4, <4>2
      <4> QED  BY ZenonT(60), <4>1, <4>2
    <3> QED  BY ZenonT(60), <3>1, <3>2, <3>3 DEF Registries
  <2>7. ClosedEmpty'
    BY ZenonT(60), <2>1, <2>3 DEF ClosedEmpty, TypeOK
  <2>8. References'
    <3>1. SUFFICES ASSUME NEW g \in Handles, NEW i \in Registered(g)'
                   PROVE  /\ uses'[i] \subseteq Registered(g)'
                          /\ table'[i] \in Registered(g)' \cup {NULL}
                          /\ entries'[i] \subseteq Registered(g)' \cup halfway'
      BY ZenonT(60) DEF References
    <3>2. g # h /\ i \in Registered(g) /\ Registered(g)' = Registered(g)
      BY ZenonT(60), <2>3, <3>1
    <3>3. i \in Insts /\ i \notin Registered(h)
      BY ZenonT(60), <2>4, <3>2 DEF TypeOK
    <3>4. uses'[i] = uses[i] /\ table'[i] = table[i] /\ entries'[i] = entries[i]
      BY ZenonT(60), <2>2, <3>3
    <3> QED  BY <2>2, <3>2, <3>4, ZenonT(60) DEF References
  <2>9. Clean'
    <3>1. ASSUME NEW i \in Insts \ live' PROVE uses'[i] = {} /\ table'[i] = NULL /\ entries'[i] = {}
      BY ZenonT(60), <2>2, <3>1 DEF Clean
    <3>2. halfway' \cap live' = {}
      BY ZenonT(60), <2>2 DEF Clean
    <3> QED  BY ZenonT(60), <3>1, <3>2 DEF Clean
  <2>10. Contexts'
    <3>1. env'[h] = NULL /\ asm'[h] = NULL
          /\ \A g \in Handles \ {h} : env'[g] = env[g] /\ asm'[g] = asm[g]
      BY ZenonT(60), <2>1 DEF TypeOK
    <3>2. ASSUME NEW g \in Handles, env'[g] # NULL PROVE g \in Runtimes /\ env'[g] \in Registered(g)'
      BY ZenonT(60), <2>3, <3>1, <3>2 DEF Contexts
    <3>3. ASSUME NEW g \in Handles, asm'[g] # NULL
          PROVE  env'[g] # NULL /\ ctx'[Scope[g]] \in Registered(g)'
      <4>1. g # h /\ asm[g] # NULL /\ env[g] # NULL /\ ctx[Scope[g]] \in Registered(g)
        BY ZenonT(60), <3>1, <3>3 DEF Contexts
      <4>2. ctx'[Scope[g]] = ctx[Scope[g]]
        <5>1. CASE env[h] = NULL
          BY ZenonT(60), <2>1, <5>1
        <5>2. CASE env[h] # NULL
          <6>1. Scope[g] # Scope[h]
            BY ZenonT(60), <4>1, <5>2 DEF Contexts, OneRuntime
          <6>2. Scope[g] \in Scopes
            BY ZenonT(60), HandlesAssumption
          <6> QED  BY ZenonT(60), <2>1, <5>2, <6>1, <6>2 DEF TypeOK
        <5> QED  BY ZenonT(60), <5>1, <5>2
      <4> QED  BY ZenonT(60), <2>3, <3>1, <4>1, <4>2
    <3>4. ASSUME NEW s \in Scopes, ctx'[s] # NULL
          PROVE  \E g \in Handles : Scope[g] = s /\ asm'[g] # NULL /\ ctx'[s] \in Registered(g)'
      <4>1. ctx'[s] = ctx[s] /\ (env[h] # NULL => s # Scope[h])
        BY ZenonT(60), <2>1, <3>4 DEF TypeOK
      <4>2. PICK g \in Handles : Scope[g] = s /\ asm[g] # NULL /\ ctx[s] \in Registered(g)
        BY ZenonT(60), <3>4, <4>1 DEF Contexts
      <4>3. g # h
        BY ZenonT(60), <4>1, <4>2 DEF Contexts
      <4> QED  BY ZenonT(60), <2>3, <3>1, <4>1, <4>2, <4>3
    <3> QED  BY ZenonT(60), <3>2, <3>3, <3>4 DEF Contexts
  <2>11. ContextAssertion'
    BY ZenonT(60), <2>1 DEF ContextAssertion, TypeOK
  <2> QED  BY ZenonT(60), <2>5, <2>6, <2>7, <2>8, <2>9, <2>10, <2>11
<1> QED  BY ZenonT(60), <1>1, <1>2

-----------------------------------------------------------------------------
(* wasmjit_high_emscripten_invoke_main.                                    *)

(* The first module of a name is one of the handle's own.                  *)
LEMMA FirstNamedRegistered ==
    ASSUME TypeOK, NEW h \in Handles, NEW n, Named(h, n) # {}
    PROVE  FirstNamed(h, n) \in Registered(h)
<1>1. Named(h, n) \subseteq Nat
  BY DEF TypeOK, Named
<1>2. PICK k \in Named(h, n) : \A j \in Named(h, n) : ~(<<j, k>> \in OpToRel(<, Nat))
  BY <1>1, NatLessThanWellFounded, WFMin, ZenonT(60)
<1>3. ASSUME NEW j \in Named(h, n) PROVE k <= j
  <2>1. j \in Nat /\ k \in Nat
    BY ZenonT(60), <1>1
  <2>2. ~(<<j, k>> \in {ss \in Nat \X Nat : ss[1] < ss[2]})
    BY <1>2, ZenonT(60) DEF OpToRel
  <2> QED  BY <2>1, <2>2
<1>4. (CHOOSE m \in Named(h, n) : \A j \in Named(h, n) : m <= j) \in Named(h, n)
  BY <1>3, ZenonT(60)
<1> QED  BY <1>4, ZenonT(60) DEF FirstNamed, Registered, Named

(* Steps that change nothing.                                              *)
LEMMA StutterStep ==
    ASSUME Inv, UNCHANGED vars
    PROVE  Inv'
<1>1. UNCHANGED <<state, modules, n_modules, env, asm, ctx, live, uses, table, entries, mains, halfway>>
  BY ZenonT(60) DEF vars, instVars
<1>2. Registries' /\ References' /\ Clean' /\ \A g \in Handles : Registered(g)' = Registered(g)
  BY <1>1, Kept, ZenonT(60) DEF Inv
<1>3. TypeOK' /\ ClosedEmpty' /\ ContextAssertion'
  BY <1>1, ZenonT(60) DEF Inv, TypeOK, ClosedEmpty, ContextAssertion
<1>4. Contexts'
  BY <1>1, <1>2 DEF Inv, Contexts
<1> QED  BY <1>2, <1>3, <1>4, ZenonT(60) DEF Inv

(* main runs and changes nothing but, perhaps, the fate of its process.    *)
LEMMA RunStep ==
    ASSUME Inv, NEW h \in Handles, NEW m, Run(h, m)
    PROVE  Inv'
<1>1. CASE UNCHANGED state
  <2>1. UNCHANGED vars
    BY ZenonT(60), <1>1 DEF Run, vars
  <2> QED  BY <2>1, StutterStep, ZenonT(60)
<1>2. CASE state' = [state EXCEPT ![h] = "wild"]
  <2>1. Fault(h, "wild")
    BY ZenonT(60), <1>2 DEF Run, Fault
  <2> QED  BY <2>1, FaultStep, ZenonT(60)
<1> QED  BY <1>1, <1>2, ZenonT(60) DEF Run, MainEnds

(* The first main publishes the context: no other handle has one.          *)
LEMMA InitAndRunStep ==
    ASSUME OneRuntime, Inv, NEW h \in Handles, NEW m \in Insts,
           env[h] # NULL, ~Initialised(h), state[h] = "open", InitAndRun(h, m)
    PROVE  Inv'
<1> USE DEF Inv
<1>1. ctx[Scope[h]] = NULL
  <2>1. SUFFICES ASSUME ctx[Scope[h]] # NULL PROVE FALSE
    BY ZenonT(60)
  <2>2. Scope[h] \in Scopes
    BY ZenonT(60), HandlesAssumption
  <2>3. PICK g \in Handles : Scope[g] = Scope[h] /\ asm[g] # NULL
    BY ZenonT(60), <2>1, <2>2 DEF Contexts
  <2>4. g \in Runtimes /\ h \in Runtimes
    BY ZenonT(60), <2>3 DEF Contexts
  <2>5. g = h
    BY ZenonT(60), <2>3, <2>4 DEF OneRuntime
  <2> QED  BY ZenonT(60), <2>3, <2>5 DEF Initialised
<1>2. /\ ctx' = [ctx EXCEPT ![Scope[h]] = env[h]]
      /\ asm' = [asm EXCEPT ![h] = m]
      /\ MainEnds(h, m)
      /\ UNCHANGED <<modules, n_modules, env, live, uses, table, entries, mains, halfway>>
  BY ZenonT(60), <1>1 DEF InitAndRun, instVars
<1>3. /\ Registries' /\ References' /\ Clean'
      /\ \A g \in Handles : Registered(g)' = Registered(g)
  BY <1>2, Kept, ZenonT(60)
<1>0. /\ state \in [Handles -> {"closed", "open"} \cup Faults]
      /\ env \in [Handles -> InstOrNull] /\ asm \in [Handles -> InstOrNull]
      /\ ctx \in [Scopes -> InstOrNull]
  BY ZenonT(60) DEF TypeOK
<1>4. state' \in [Handles -> {"closed", "open"} \cup Faults]
      /\ \A g \in Handles : state'[g] = state[g] \/ (g = h /\ state'[g] = "wild")
  BY ZenonT(60), <1>0, <1>2 DEF MainEnds, Faults
<1>5. Scope[h] \in Scopes /\ env[h] \in Insts /\ m # NULL
  BY ZenonT(60), <1>0, HandlesAssumption DEF InstOrNull
<1>6. TypeOK'
  <2>1. ctx' \in [Scopes -> InstOrNull] /\ asm' \in [Handles -> InstOrNull]
    BY <1>0, <1>2, <1>5, ZenonT(60) DEF InstOrNull
  <2> QED  BY <1>2, <1>4, <2>1, ZenonT(60) DEF TypeOK
<1>7. ClosedEmpty' /\ ContextAssertion'
  <2>1. state'[h] # "closed" /\ state'[h] # "context"
    BY <1>4, ZenonT(60)
  <2>2. \A g \in Handles \ {h} : asm'[g] = asm[g] /\ state'[g] = state[g]
    BY <1>0, <1>2, <1>4, ZenonT(60)
  <2>3. ClosedEmpty'
    BY <1>2, <2>1, <2>2, ZenonT(60) DEF ClosedEmpty
  <2> QED  BY <2>1, <2>2, <2>3, ZenonT(60) DEF ContextAssertion
<1>8. Contexts'
  <2>1. asm'[h] = m /\ \A g \in Handles \ {h} : asm'[g] = asm[g]
    BY <1>0, <1>2, ZenonT(60)
  <2>2. ctx'[Scope[h]] = env[h] /\ \A s \in Scopes \ {Scope[h]} : ctx'[s] = ctx[s]
    BY <1>0, <1>2, <1>5, ZenonT(60)
  <2>3. ASSUME NEW g \in Handles, asm'[g] # NULL
        PROVE  env'[g] # NULL /\ ctx'[Scope[g]] \in Registered(g)'
    <3>1. CASE g = h
      <4>1. env[h] \in Registered(h)
        BY ZenonT(60) DEF Contexts
      <4> QED  BY <1>2, <1>3, <2>2, <3>1, <4>1, ZenonT(60)
    <3>2. CASE g # h
      <4>1. asm[g] # NULL /\ env[g] # NULL /\ g \in Runtimes /\ h \in Runtimes
        BY ZenonT(60), <2>1, <2>3, <3>2 DEF Contexts
      <4>2. Scope[g] # Scope[h] /\ Scope[g] \in Scopes
        BY ZenonT(60), <3>2, <4>1, HandlesAssumption DEF OneRuntime
      <4>3. ctx'[Scope[g]] = ctx[Scope[g]] /\ ctx[Scope[g]] \in Registered(g)
        BY ZenonT(60), <2>2, <4>1, <4>2 DEF Contexts
      <4> QED  BY <1>2, <1>3, <4>1, <4>3, ZenonT(60)
    <3> QED  BY <3>1, <3>2, ZenonT(60)
  <2>4. ASSUME NEW s \in Scopes, ctx'[s] # NULL
        PROVE  \E g \in Handles : Scope[g] = s /\ asm'[g] # NULL /\ ctx'[s] \in Registered(g)'
    <3>1. CASE s = Scope[h]
      <4>1. asm'[h] # NULL /\ ctx'[s] \in Registered(h)'
        BY <1>3, <1>5, <2>1, <2>2, <3>1 DEF Contexts
      <4> QED  BY ZenonT(60), <3>1, <4>1
    <3>2. CASE s # Scope[h]
      <4>1. ctx'[s] = ctx[s]
        BY ZenonT(60), <2>2, <3>2
      <4>2. PICK g \in Handles : Scope[g] = s /\ asm[g] # NULL /\ ctx[s] \in Registered(g)
        BY ZenonT(60), <2>4, <4>1 DEF Contexts
      <4>3. g # h
        BY ZenonT(60), <3>2, <4>2
      <4> QED  BY ZenonT(60), <1>3, <2>1, <4>1, <4>2, <4>3
    <3> QED  BY ZenonT(60), <3>1, <3>2
  <2>5. \A g \in Handles : env'[g] # NULL => g \in Runtimes /\ env'[g] \in Registered(g)'
    BY <1>2, <1>3, ZenonT(60) DEF Contexts
  <2> QED  BY <2>3, <2>4, <2>5, ZenonT(60) DEF Contexts
<1> QED  BY <1>3, <1>6, <1>7, <1>8, ZenonT(60)

(* Invoking main keeps the invariant.                                      *)
LEMMA InvokeMainStep ==
    ASSUME OneRuntime, Inv, NEW h \in Handles, NEW n \in ModuleNames, InvokeMain(h, n)
    PROVE  Inv'
<1> DEFINE m == LastNamed(h, n)
           e == FirstNamed(h, "env")
<1>1. /\ state[h] = "open" /\ m \in mains /\ Named(h, "env") # {}
      /\ \/ env[h] = NULL /\ Run(h, m)
         \/ env[h] \notin {NULL, e} /\ Fault(h, "env")
         \/ env[h] = e /\ ~Initialised(h) /\ InitAndRun(h, m)
         \/ env[h] = e /\ Initialised(h) /\ asm[h] = m /\ Run(h, m)
  BY ZenonT(60) DEF InvokeMain
<1>2. TypeOK /\ e \in Registered(h) /\ Registered(h) \subseteq live
  BY <1>1, FirstNamedRegistered, RegisteredLive, ZenonT(60) DEF Inv
<1>3. e # NULL /\ m \in Insts
  BY ZenonT(60), <1>1, <1>2, HandlesAssumption DEF TypeOK
<1> HIDE DEF m, e
<1>4. CASE Run(h, m)
  BY <1>4, RunStep, ZenonT(60)
<1>5. CASE Fault(h, "env")
  BY ZenonT(60), <1>5, FaultStep
<1>6. CASE env[h] = e /\ ~Initialised(h) /\ InitAndRun(h, m)
  BY <1>1, <1>3, <1>6, InitAndRunStep, ZenonT(60)
<1> QED  BY ZenonT(60), <1>1, <1>4, <1>5, <1>6

-----------------------------------------------------------------------------
(* The theorems.                                                           *)

(* wasmjit_high_instantiate.                                               *)
LEMMA InstantiateStep ==
    ASSUME Inv, NEW h \in Handles, NEW p \in Programs, NEW n \in ModuleNames, Instantiate(h, p, n)
    PROVE  Inv'
<1>1. CASE p.imports # {} /\ Wild(h)
  <2>1. Fault(h, "wild")
    BY ZenonT(60), <1>1 DEF Instantiate
  <2> QED  BY ZenonT(60), <2>1, FaultStep
<1>2. CASE ~(p.imports # {} /\ Wild(h))
  <2>1. /\ state[h] = "open" /\ n_modules[h] < MaxModules /\ Resolvable(h, p)
        /\ \/ /\ \/ InstantiateOk(h, p, n)
                 \/ \E count \in BOOLEAN : InstantiateLate(h, p, count)
              /\ UNCHANGED <<state, env, asm, ctx>>
           \/ MemoryFails(h, p)
    BY <1>2, ZenonT(60) DEF Instantiate
  <2>2. CASE InstantiateOk(h, p, n) /\ UNCHANGED <<state, env, asm, ctx>>
    BY ZenonT(60), <2>1, <2>2, InstantiateOkStep
  <2>3. ASSUME NEW count \in BOOLEAN, InstantiateLate(h, p, count), UNCHANGED <<state, env, asm, ctx>>
        PROVE  Inv'
    BY ZenonT(60), <2>1, <2>3, InstantiateLateStep
  <2>4. CASE MemoryFails(h, p)
    <3>1. Fault(h, "wild")
      BY ZenonT(60), <2>4 DEF MemoryFails
    <3> QED  BY ZenonT(60), <3>1, FaultStep
  <2> QED  BY ZenonT(60), <2>1, <2>2, <2>3, <2>4
<1> QED  BY ZenonT(60), <1>1, <1>2

(* The invariant holds initially.                                          *)
LEMMA InitInv == Init => Inv
<1> SUFFICES ASSUME Init PROVE Inv
  BY ZenonT(60)
<1>1. ASSUME NEW h \in Handles
      PROVE  modules[h] = <<>> /\ Len(modules[h]) = 0 /\ Registered(h) = {}
  <2>1. modules[h] = <<>>
    BY ZenonT(60) DEF Init
  <2>2. Len(modules[h]) = 0 /\ 1..Len(modules[h]) = {}
    BY <2>1
  <2> QED  BY ZenonT(60), <2>1, <2>2 DEF Registered
<1>2. TypeOK
  <2>1. \A h \in Handles : Len(modules[h]) <= n_modules[h]
    <3> TAKE h \in Handles
    <3>1. n_modules[h] = 0
      BY ZenonT(60) DEF Init
    <3>2. Len(modules[h]) = 0
      BY <1>1, ZenonT(60)
    <3> QED  BY <3>1, <3>2
  <2>2. modules \in [Handles -> Seq([name : Names, inst : Insts])]
    <3>1. <<>> \in Seq([name : Names, inst : Insts])
      OBVIOUS
    <3> QED  BY <3>1, ZenonT(60) DEF Init
  <2>3. n_modules \in [Handles -> 0..MaxModules]
    BY HandlesAssumption DEF Init
  <2>4. /\ state \in [Handles -> {"closed", "open"} \cup Faults]
        /\ env \in [Handles -> InstOrNull] /\ asm \in [Handles -> InstOrNull]
        /\ ctx \in [Scopes -> InstOrNull] /\ table \in [Insts -> InstOrNull]
    BY ZenonT(60) DEF Init, InstOrNull
  <2>5. /\ uses \in [Insts -> SUBSET Insts] /\ entries \in [Insts -> SUBSET Insts]
        /\ live \subseteq Insts /\ mains \subseteq live /\ halfway \subseteq Insts
    BY ZenonT(60) DEF Init
  <2> QED  BY <2>1, <2>2, <2>3, <2>4, <2>5, ZenonT(60) DEF TypeOK
<1>3. Registries
  BY ZenonT(60), <1>1, EmptyEntry DEF Init, Registries
<1>4. ClosedEmpty /\ References /\ ContextAssertion
  BY ZenonT(60), <1>1 DEF Init, ClosedEmpty, References, ContextAssertion
<1>5. Clean /\ Contexts
  BY ZenonT(60), HandlesAssumption DEF Init, Clean, Contexts
<1> QED  BY ZenonT(60), <1>2, <1>3, <1>4, <1>5 DEF Inv

(* Every step keeps the invariant.                                         *)
LEMMA NextInv ==
    ASSUME OneRuntime, Inv, [Next]_vars
    PROVE  Inv'
<1>1. ASSUME NEW h \in Handles, Open(h) PROVE Inv'
  BY ZenonT(60), <1>1, OpenStep
<1>2. ASSUME NEW h \in Handles, NEW p \in Programs, NEW n \in ModuleNames, Instantiate(h, p, n)
      PROVE  Inv'
  BY ZenonT(60), <1>2, InstantiateStep
<1>3. ASSUME NEW h \in Handles, NEW has_table \in BOOLEAN, InstantiateRuntime(h, has_table)
      PROVE  Inv'
  BY ZenonT(60), <1>3, RuntimeStep
<1>4. ASSUME NEW h \in Handles, NEW n \in ModuleNames, InvokeMain(h, n) PROVE Inv'
  BY ZenonT(60), <1>4, InvokeMainStep
<1>5. ASSUME NEW h \in Handles, InvokeMainWild(h) PROVE Inv'
  BY ZenonT(60), <1>5, FaultStep DEF InvokeMainWild
<1>6. ASSUME NEW h \in Handles, Close(h) PROVE Inv'
  BY ZenonT(60), <1>6, CloseStep
<1>7. CASE (\E h \in Handles : CallFails(h)) \/ Ended \/ UNCHANGED vars
  <2>1. UNCHANGED vars
    BY <1>7, ZenonT(60) DEF CallFails, Ended
  <2> QED  BY ZenonT(60), <2>1, StutterStep
<1> QED  BY <1>1, <1>2, <1>3, <1>4, <1>5, <1>6, <1>7, ZenonT(60) DEF Next

(* The inductive invariant holds in every behaviour.                       *)
THEOREM InvAlways ==
    ASSUME OneRuntime
    PROVE  Spec => []Inv
<1>1. Inv /\ [Next]_vars => Inv'
  BY ZenonT(60), NextInv
<1> QED  BY <1>1, InitInv, PTL DEF Spec

(* Whatever is loaded, fails or is closed, every module instance is owned  *)
(* by exactly one entry of one registry, so that wasmjit_high_close frees  *)
(* each once and leaks none.                                               *)
THEOREM AlwaysOwnedOnce ==
    ASSUME OneRuntime
    PROVE  Spec => []OwnedOnce
<1>1. ASSUME Inv PROVE OwnedOnce
  <2>1. ASSUME NEW g \in Handles, NEW h \in Handles,
               NEW j \in 1..Len(modules[g]), NEW k \in 1..Len(modules[h]),
               modules[g][j].inst = modules[h][k].inst
        PROVE  g = h /\ j = k
    <3>1. modules[g][j].inst \in Registered(g) /\ modules[h][k].inst \in Registered(h)
      BY ZenonT(60) DEF Registered
    <3>2. g = h
      BY <1>1, <2>1, <3>1, RegisteredLive, ZenonT(60) DEF Inv
    <3>3. Distinct(modules[h])
      BY ZenonT(60), <1>1 DEF Inv, Registries
    <3> QED  BY ZenonT(60), <2>1, <3>2, <3>3 DEF Distinct
  <2> QED  BY <1>1, <2>1, ZenonT(60) DEF OwnedOnce, Inv, Registries
<1> QED  BY <1>1, InvAlways, PTL

(* What a live instance refers to (imports, the owner of its table, the    *)
(* functions in its table) is live, across closes of other handles, but    *)
(* for functions of instantiations that failed late.                       *)
THEOREM NeverDangles ==
    ASSUME OneRuntime
    PROVE  Spec => []NothingDangles
<1>1. ASSUME Inv PROVE NothingDangles
  <2>1. SUFFICES ASSUME NEW i \in live
                 PROVE  /\ uses[i] \subseteq live
                        /\ table[i] # NULL => table[i] \in live
                        /\ entries[i] \subseteq live \cup halfway
    BY ZenonT(60) DEF NothingDangles
  <2>2. PICK h \in Handles : i \in Registered(h)
    BY ZenonT(60), <1>1 DEF Inv, Registries
  <2>3. Registered(h) \subseteq live
    BY <1>1, RegisteredLive, ZenonT(60) DEF Inv
  <2> QED  BY ZenonT(60), <1>1, <2>2, <2>3 DEF Inv, References
<1> QED  BY <1>1, InvAlways, PTL

(* _g_handler_ctx always is the context of an open handle that has run     *)
(* main, and that of every such handle is there.                           *)
THEOREM ContextAlwaysOwned ==
    ASSUME OneRuntime
    PROVE  Spec => []ContextOwned
<1>1. Inv => ContextOwned
  BY ZenonT(60) DEF Inv, Contexts, ContextOwned
<1> QED  BY <1>1, InvAlways, PTL

(* assert(_g_handler_ctx == NULL) of set_signal_context never fails in a   *)
(* process with one Emscripten runtime, however often it is reopened.      *)
THEOREM ContextNeverTaken ==
    ASSUME OneRuntime
    PROVE  Spec => []ContextAssertion
<1>1. Inv => ContextAssertion
  BY ZenonT(60) DEF Inv
<1> QED  BY <1>1, InvAlways, PTL
=============================================================================
