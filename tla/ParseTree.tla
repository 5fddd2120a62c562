------------------------------ MODULE ParseTree ------------------------------
(***************************************************************************)
(* What the parser promises about the tree it builds: it is the source     *)
(* that was read.                                                          *)
(***************************************************************************)
EXTENDS Parse

\* The value of an encoding, as the WebAssembly binary format defines it.
Unsigned(bytes) ==
    LET sum[i \in 0..Len(bytes)] ==
            IF i = 0 THEN 0 ELSE sum[i - 1] + bytes[i] * 2 ^ (LebBits * (i - 1))
    IN  sum[Len(bytes)]
TwosComplement(bytes) ==
    LET bits == LebBits * Len(bytes)
    IN  IF Unsigned(bytes) >= 2 ^ (bits - 1) THEN Unsigned(bytes) - 2 ^ bits ELSE Unsigned(bytes)

\* The encodings of at most k bytes that the format allows for TypeBits.
Encodings(kind, k) ==
    LET all == UNION {[1..n -> 0..(2 ^ LebBits - 1)] : n \in 1..k}
    IN  {e \in all : IF kind = "u" THEN Unsigned(e) < 2 ^ TypeBits
                     ELSE TwosComplement(e) \in -(2 ^ (TypeBits - 1))..(2 ^ (TypeBits - 1) - 1)}

Meaning(kind, bytes) ==
    CASE kind = "u" -> Unsigned(bytes)
      [] kind = "s" -> TwosComplement(bytes) % 2 ^ TypeBits
      [] kind = "byte" -> bytes[1]

Item(op, v) == [op |-> op, v |-> v]

\* The source of a list: its instructions, with the terminators of its blocks.
RECURSIVE Source(_, _)
Source(blk, i) ==
    IF blk = Null \/ i > Len(mem[blk]) THEN <<>>
    ELSE LET c == mem[blk][i]
             end == << Item("end", <<>>) >>
         IN  << Item(c.op, c.v) >>
             \o (CASE c.op \in {"block", "loop"} -> Source(c.a, 1) \o end
                   [] c.op = "if" ->
                        Source(c.a, 1)
                        \o (IF c.b = Null THEN <<>>
                            ELSE << Item("else", <<>>) >> \o Source(c.b, 1)) \o end
                   [] OTHER -> <<>>)
             \o Source(blk, i + 1)

\* What was read, without empty else lists.
Read ==
    LET kept == {i \in DOMAIN toks : ~(toks[i].op = "else" /\ toks[i + 1].op = "end")}
        nth(k) == CHOOSE i \in kept : Cardinality({j \in kept : j <= i}) = k
        item(t) == Item(Opcode(t), [i \in DOMAIN t.imms |-> Meaning(t.kind, t.imms[i])])
    IN  [k \in 1..Cardinality(kept) |-> item(toks[nth(k)])]

\* No immediate is longer than the format allows.
Allowed == \A i \in DOMAIN toks : \A j \in DOMAIN toks[i].imms : ShiftsDefined(toks[i].imms[j])

ListComplete ==
    Cardinality({i \in DOMAIN toks : toks[i].op = "end"})
        = 1 + Cardinality({i \in DOMAIN toks : toks[i].op \in Blocks})

-----------------------------------------------------------------------------
\* A complete instruction list is the source that was read: every instruction
\* with the values of its immediates, in its block and in its order.  The one
\* exception: after memory.size and memory.grow there is an unreachable that
\* the source does not have, their reserved byte.
ListIsSource ==
    Reading /\ ListComplete /\ Allowed => Source(Deref(ctx.p), 1) \o << Item("end", <<>>) >> = Read

\* On every input the parser returns, and the module is released, or what the
\* code does is not defined.
Terminates == <>(phase \in {"freed", "undefined"})

=============================================================================
