-------------------------------- MODULE Wasm --------------------------------
(***************************************************************************)
(* The WebAssembly instructions and numbers that the compiler, the         *)
(* processor and the reference semantics share.                            *)
(*                                                                         *)
(* Everything is scaled: a byte has Byte bits instead of 8, so an i32 has  *)
(* 4 * Byte bits and an i64, like a machine word or a stack slot, twice as *)
(* many.  The sizes 1, 2, 4 and 8 of memory accesses, the bounds 2^31 and  *)
(* 2^32 and the rules for sign and zero extension scale with them.         *)
(*                                                                         *)
(* An instruction is a record [op, w, f, n, ls]: the opcode group, the     *)
(* width, the member of the group, and the immediates.                     *)
(***************************************************************************)
EXTENDS Integers, Sequences

CONSTANT Byte

ASSUME ByteAssumption == Byte \in Nat \ {0}

In(op, w, f, n) == [op |-> op, w |-> w, f |-> f, n |-> n, ls |-> <<>>]

BrTable(labelidxs, labelidx) ==
    [op |-> "br_table", w |-> 0, f |-> "", n |-> labelidx, ls |-> labelidxs]

\* A load or store: a value of type t, size bytes at offset n, sign is "s", "u" or "".
Access(op, t, size, sign, n) ==
    [op |-> op, w |-> size, f |-> t, n |-> n, ls |-> <<sign>>]

-----------------------------------------------------------------------------
ValTypes == {"i32", "i64", "f32", "f64"}

Width(t) == IF t \in {"i32", "f32"} THEN 32 ELSE 64
IntType(w) == IF w = 32 THEN "i32" ELSE "i64"

\* Numbers of w bits, scaled.
Modulus(w) == 2 ^ ((w \div 8) * Byte)
Wrap(w, v) == v % Modulus(w)
Signed(w, v) ==
    LET u == Wrap(w, v) IN IF 2 * u < Modulus(w) THEN u ELSE u - Modulus(w)

\* Quotient and remainder rounded towards zero.
Sgn(x) == IF x < 0 THEN -1 ELSE 1
Abs(x) == Sgn(x) * x
Quo(a, b) == Sgn(a) * Sgn(b) * (Abs(a) \div Abs(b))
Rem(a, b) == a - b * Quo(a, b)

ShiftLeft(w, v, k) == Wrap(w, v * 2 ^ k)
ShiftRight(w, v, k) == Wrap(w, v) \div 2 ^ k
ShiftArith(w, v, k) == Wrap(w, Signed(w, v) \div 2 ^ k)

-----------------------------------------------------------------------------
(***************************************************************************)
(* Floats: a sign bit and a magnitude.  Magnitudes grow in steps of one up *)
(* to half their range and of four above it, the two largest are infinity  *)
(* and not-a-number.  This keeps what the code depends on: the bit of the  *)
(* sign, unordered comparison, rounding, and values beyond the integers.   *)
(***************************************************************************)
SignBit(w) == Modulus(w) \div 2
Mag(w, v) == Wrap(w, v) % SignBit(w)
NaN(w) == SignBit(w) - 1
IsNaN(w, v) == Mag(w, v) = NaN(w)
IsInf(w, v) == Mag(w, v) = NaN(w) - 1
IsNeg(w, v) == Wrap(w, v) >= SignBit(w)

MagValue(w, m) ==
    LET h == SignBit(w) \div 2 IN IF m <= h THEN m ELSE h + 4 * (m - h)
Infinity(w) == MagValue(w, NaN(w) - 1)

\* The number a float stands for; infinity is the first number beyond the range.
FloatValue(w, v) ==
    (IF IsNeg(w, v) THEN -1 ELSE 1) * MagValue(w, Mag(w, v))

Float(w, x) ==
    LET h == SignBit(w) \div 2
        a == Abs(x)
        m == IF a >= Infinity(w) THEN NaN(w) - 1
             ELSE IF a <= h THEN a ELSE h + (a - h) \div 4
    IN  m + (IF x < 0 THEN SignBit(w) ELSE 0)

FloatOp(f, a, b) ==
    IF IsNaN(64, a) \/ IsNaN(64, b) THEN NaN(64)
    ELSE LET x == FloatValue(64, a)
             y == FloatValue(64, b)
         IN CASE f = "add" -> Float(64, x + y)
              [] f = "sub" -> Float(64, x - y)
              [] f = "mul" -> Float(64, x * y)

\* An f32 as an f64.
Promote(v) ==
    IF IsNaN(32, v) THEN NaN(64)
    ELSE (IF IsNeg(32, v) THEN SignBit(64) ELSE 0)
         + IF IsInf(32, v) THEN NaN(64) - 1 ELSE Mag(64, Float(64, Abs(FloatValue(32, v))))

-----------------------------------------------------------------------------
Results(t) == IF t = "none" THEN <<>> ELSE <<t>>

\* The operands an instruction takes, for those with fixed operand types.
Signature(in, fn, callees, globals) ==
    LET t == IntType(in.w)
        From == [i32_wrap_i64 |-> "i64", i32_trunc_s_f64 |-> "f64",
                 i32_trunc_u_f64 |-> "f64", i64_extend_s_i32 |-> "i32",
                 i64_extend_u_i32 |-> "i32", i64_trunc_s_f64 |-> "f64",
                 i64_trunc_u_f64 |-> "f64", i64_reinterpret_f64 |-> "f64",
                 f64_convert_s_i32 |-> "i32", f64_convert_u_i32 |-> "i32",
                 f64_convert_s_i64 |-> "i64", f64_promote_f32 |-> "f32",
                 f64_reinterpret_i64 |-> "i64"]
    IN  CASE in.op \in {"if", "eqz", "load"} -> <<"i32">>
          [] in.op = "store" -> <<"i32", in.f>>
          [] in.op \in {"cmp", "arith", "divide", "shift"} -> <<t, t>>
          [] in.op \in {"fcmp", "farith"} -> <<"f64", "f64">>
          [] in.op = "fneg" -> <<"f64">>
          [] in.op = "i64_eqz" -> <<"i64">>
          [] in.op = "convert" -> <<From[in.f]>>
          [] in.op \in {"set_local", "tee_local"} -> <<(fn.in \o fn.locals)[in.n]>>
          [] in.op = "set_global" -> <<globals[in.n]>>
          [] in.op = "call" -> callees[in.n].in
          [] in.op = "call_indirect" -> Append(callees[in.n].in, "i32")
          [] OTHER -> <<>>

\* The operands it leaves.
Produces(in, fn, callees, globals) ==
    LET t == IntType(in.w)
    IN  CASE in.op \in {"get_local", "tee_local"} -> <<(fn.in \o fn.locals)[in.n]>>
          [] in.op = "get_global" -> <<globals[in.n]>>
          [] in.op \in {"load", "const"} -> <<in.f>>
          [] in.op \in {"eqz", "cmp", "fcmp", "i64_eqz"} -> <<"i32">>
          [] in.op \in {"arith", "divide", "shift"} -> <<t>>
          [] in.op \in {"fneg", "farith"} -> <<"f64">>
          [] in.op \in {"call", "call_indirect"} -> Results(callees[in.n].out)
          [] in.op = "convert" ->
                CASE in.f \in {"i32_wrap_i64", "i32_trunc_s_f64", "i32_trunc_u_f64"} -> <<"i32">>
                  [] in.f \in {"i64_extend_s_i32", "i64_extend_u_i32", "i64_trunc_s_f64",
                               "i64_trunc_u_f64", "i64_reinterpret_f64"} -> <<"i64">>
                  [] OTHER -> <<"f64">>
          [] OTHER -> <<>>

=============================================================================
