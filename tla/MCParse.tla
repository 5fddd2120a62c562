------------------------------- MODULE MCParse -------------------------------
EXTENDS ParseTree

ListInput(size, ts, nomem) ==
    [size |-> size, ids |-> {"code"}, counts |-> {1}, toks |-> ts, nomem |-> nomem]

End == Token("end", "byte", <<>>)
Nop == Token("plain", "byte", <<>>)
Block(op) == Token(op, "byte", << <<0>> >>)
Structure == {End, Nop, Token("else", "byte", <<>>), Block("block"), Block("if")}

\* All nestings of blocks that fit.
Nested == ListInput(17, Structure, FALSE)
NestedNoMemory == ListInput(12, Structure \cup {Block("loop")}, TRUE)

\* Branch tables, accesses, calls and opcodes that are not accepted.
Immediate ==
    ListInput(14, {End, Block("if"), Token("br_table", "u", << <<1>>, <<2>>, <<0>> >>),
                   Token("br_table", "u", << <<0>>, <<1>> >>),
                   Token("call_indirect", "u", << <<1, 2>>, <<0>> >>),
                   Token("call_indirect", "u", << <<1>>, <<1>> >>), Token("memory", "byte", <<>>),
                   Token("branch", "u", << <<1>> >>), Token("call", "u", << <<2>> >>),
                   Token("access", "u", << <<1>>, <<3, 1>> >>), Token("unknown", "byte", <<>>)},
              TRUE)

\* An encoding with a shift that is not defined, and what comes of it.
Overlong(op, kind, e, v) == [Token(op, kind, <<e>>) EXCEPT !.undef = <<v>>]

\* Every encoding of up to three bytes, and some of four.
Constants ==
    ListInput(11, {End} \cup {Token("const", "s", <<e>>) : e \in Encodings("s", 3)}
                  \cup {Token("variable", "u", <<e>>) : e \in Encodings("u", 3)}
                  \cup {Overlong("branch", "u", <<1, 0, 0, 1>>, v) : v \in {0, 1, 31}}
                  \cup {Overlong("const", "s", <<1, 0, 0, 2>>, v) : v \in {0, 1, 31}}
                  \cup {Overlong("br_table", "u", <<0, 0, 0, 0>>, v) : v \in {0, 1}}, FALSE)

\* Sections in every order, repeated, several elements, failures everywhere.
Several(secs, size) ==
    [size |-> size, ids |-> secs, counts |-> {0, 1, 2}, toks |-> {End, Nop}, nomem |-> TRUE]

MCInputs ==
    { Nested, NestedNoMemory, Immediate, Constants,
      Several({"type", "import", "start"}, 17), Several({"import", "custom"}, 15),
      Several({"function", "table", "memory"}, 14), Several({"global", "export"}, 15),
      Several({"element", "data"}, 15), Several({"code", "global"}, 14) }

=============================================================================
