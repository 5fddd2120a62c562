----------------------------- MODULE MCLinking -----------------------------
(* Model-checking instances of Linking.                                    *)
EXTENDS Linking, TLC

CONSTANTS h1, h2, i1, i2, i3, i4, i5

MCInsts == {i1, i2, i3, i4, i5}
(* All handles use one copy of _g_handler_ctx: one process, or the kernel. *)
Shared == [h \in Handles |-> CHOOSE s \in Scopes : TRUE]

Program(i, t, e, y, m) == [imports |-> i, table |-> t, elems |-> e, memory |-> y, main |-> m]

(* An Emscripten program that puts its functions into the table of env, a  *)
(* module that stands alone, and one that links against it.                *)
MCPrograms ==
    {Program({"env"}, "env", TRUE, FALSE, TRUE),
     Program({}, "own", TRUE, TRUE, FALSE),
     Program({"lib"}, "lib", TRUE, FALSE, FALSE)}

MCSymmetry == Permutations(Insts)
=============================================================================
