-------------------------------- MODULE Parse --------------------------------
(***************************************************************************)
(* read_module of parse.c and wasmjit_free_module of ast.c: a module is    *)
(* read from a buffer into a tree of allocated arrays, and the tree is     *)
(* released, whether reading it succeeded or not.                          *)
(*                                                                         *)
(* The heap mem maps each live block to its contents, a sequence of cells  *)
(* [op, v, a, b]: the elements of a section or the instructions of a list. *)
(* a and b are the pointers a cell owns, Null when there is none; blocks   *)
(* that hold no pointers are empty sequences.  A pointer to a pointer, as  *)
(* read_instructions keeps on its stack, is [blk, i, f]: field f of cell i *)
(* of a block.                                                             *)
(*                                                                         *)
(* The input has input.size bytes; what each read finds is chosen from     *)
(* what the input offers.  A behaviour ends in phase "undefined" where the *)
(* code reads or writes outside a block.                                   *)
(***************************************************************************)
EXTENDS Integers, Sequences, FiniteSets

CONSTANTS
    LebBits,    \* payload bits of a LEB128 byte, 7 in the code
    TypeBits,   \* bits of the type that is read, 32 or 64 in the code
    Inputs      \* set of [size, ids, counts, toks, nomem]

VARIABLES
    input,      \* the input, an element of Inputs
    twice,      \* history: a section that has elements was read again
    left,       \* pstate->amt_left
    module,     \* struct Module: section -> [n, elts]
    mem,        \* live block -> sequence of cells
    next,       \* the next block that malloc returns
    pos,        \* section, element and field that are being read
    ctx,        \* list that instructions are appended to, popped from stack
    stack,      \* struct StackElt *stack of read_instructions
    instr,      \* struct Instr instruction of read_instructions
    toks,       \* history: the instructions of the last list
    work,       \* what wasmjit_free_module has still to do
    phase,
    holds       \* no assertion failed and only live blocks were freed

vars == << input, twice, left, module, mem, next, pos, ctx, stack, instr, toks, work, phase, holds >>

Null == 0
Cell(op, v, a) == [op |-> op, v |-> v, a |-> a, b |-> Null]
Zero == Cell("none", <<>>, Null)
At(blk, i, f) == [blk |-> blk, i |-> i, f |-> f]

-----------------------------------------------------------------------------
(***************************************************************************)
(* LEB128.  An encoding is the sequence of the payloads of its bytes, the  *)
(* last of which has no continuation bit.                                  *)
(***************************************************************************)
\* *data after the first i bytes: bits that leave the type are lost.
LebData(bytes) ==
    LET data[i \in 0..Len(bytes)] ==
            IF i = 0 THEN 0
            ELSE data[i - 1] + ((bytes[i] * 2 ^ (LebBits * (i - 1))) % 2 ^ TypeBits)
    IN  data[Len(bytes)]

\* No byte is shifted by the width of the type or more, which C leaves undefined.
ShiftsDefined(bytes) == LebBits * (Len(bytes) - 1) < TypeBits

\* The value of bytes, undef if C does not define it.
read_uleb(bytes, undef) == IF ShiftsDefined(bytes) THEN LebData(bytes) ELSE undef

\* Mutant of read_leb: the sign is never extended.
read_leb_unsigned(bytes, undef) == read_uleb(bytes, undef)

read_leb(bytes, undef) ==
    LET shift == LebBits * Len(bytes)
    IN  IF ~ShiftsDefined(bytes) THEN undef
        ELSE IF shift < TypeBits /\ bytes[Len(bytes)] >= 2 ^ (LebBits - 1)
        THEN LebData(bytes) + 2 ^ TypeBits - 2 ^ shift
        ELSE LebData(bytes)

-----------------------------------------------------------------------------
(***************************************************************************)
(* Instructions.  A token is an opcode and the encodings of what follows   *)
(* it: bytes and floats, unsigned ("u") or signed ("s") integers.  undef   *)
(* holds what undefined shifts make of each.                               *)
(***************************************************************************)
Token(op, kind, imms) ==
    [op |-> op, kind |-> kind, imms |-> imms, undef |-> [i \in DOMAIN imms |-> 0]]

Blocks == {"block", "loop", "if"}

\* What follows each opcode: the result type of a block; the index of a branch,
\* a call, a local or a global; the type of call_indirect and a zero byte;
\* alignment and offset of an access; the value of a constant; nothing.
BlockShape(tok) == tok.op \in Blocks /\ tok.kind = "byte" /\ Len(tok.imms) = 1
BranchShape(tok) == tok.op = "branch" /\ tok.kind = "u" /\ Len(tok.imms) = 1
CallShape(tok) ==
    \/ tok.op = "call" /\ tok.kind = "u" /\ Len(tok.imms) = 1
    \/ tok.op = "call_indirect" /\ tok.kind = "u" /\ Len(tok.imms) = 2 /\ tok.imms[2] = <<0>>
VariableShape(tok) == tok.op = "variable" /\ tok.kind = "u" /\ Len(tok.imms) = 1
AccessShape(tok) == tok.op = "access" /\ tok.kind = "u" /\ Len(tok.imms) = 2
ConstShape(tok) == tok.op = "const" /\ tok.kind \in {"s", "byte"} /\ Len(tok.imms) = 1
NoImmediate == {"end", "else", "plain", "memory", "reserved"}

\* Immediates of a token, decoded.
Immediates(tok) ==
    [i \in DOMAIN tok.imms |->
        CASE tok.kind = "u" -> read_uleb(tok.imms[i], tok.undef[i])
          [] tok.kind = "s" -> read_leb(tok.imms[i], tok.undef[i])
          [] tok.kind = "byte" -> tok.imms[i][1]]

\* The byte that the format reserves after memory.size and memory.grow, 0, is
\* read as an instruction of its own: 0 is unreachable.
Reserved == Token("reserved", "byte", <<>>)
Opcode(tok) == IF tok.op = "reserved" THEN "unreachable" ELSE tok.op

TokenSize(tok) ==
    LET size[i \in 0..Len(tok.imms)] ==
            IF i = 0 THEN 1 ELSE size[i - 1] + Len(tok.imms[i])
    IN  size[Len(tok.imms)]

\* read_instruction for all opcodes but br_table: a known opcode, what must
\* follow it, and enough bytes.
Readable(tok) ==
    /\ left >= TokenSize(tok)
    /\ \/ BlockShape(tok) \/ BranchShape(tok) \/ CallShape(tok) \/ VariableShape(tok)
       \/ AccessShape(tok) \/ ConstShape(tok) \/ tok.op \in NoImmediate

-----------------------------------------------------------------------------
(***************************************************************************)
(* Sections.  What is read for one element of each: values, strings and    *)
(* buffers, vectors and instruction lists, in this order, and the field of *)
(* the element's cell that owns what is allocated.                         *)
(***************************************************************************)
Value == [kind |-> "value", f |-> "a"]
String(f) == [kind |-> "string", f |-> f]
Vector(f) == [kind |-> "vector", f |-> f]
Instrs(f) == [kind |-> "instrs", f |-> f]

Limits == << Value, Value >>
GlobalType == << Value, Value >>

TypeFields == << Value, Value, Value >>
ImportFields == << String("a"), String("b"), Value, Value >>
FunctionFields == << Value >>
TableFields == << Value >> \o Limits
MemoryFields == Limits
GlobalFields == GlobalType \o << Instrs("a") >>
ExportFields == << String("a"), Value, Value >>
ElementFields == << Value, Instrs("a"), Vector("b") >>
CodeFields == << Value, Vector("a"), Instrs("b") >>
DataFields == << Value, Instrs("a"), String("b") >>

Fields ==
    [type |-> TypeFields, import |-> ImportFields, function |-> FunctionFields,
     table |-> TableFields, memory |-> MemoryFields, global |-> GlobalFields,
     export |-> ExportFields, element |-> ElementFields, code |-> CodeFields,
     data |-> DataFields]

Sections == DOMAIN Fields

\* What an input may offer: sections, numbers of elements and opcodes.
ASSUME InputsAssumption ==
    \A in \in Inputs :
        /\ in.ids \subseteq Sections \cup {"custom", "start"}
        /\ in.counts \subseteq Nat

Field == Fields[pos.sec][pos.k]

-----------------------------------------------------------------------------
(***************************************************************************)
(* The heap.                                                               *)
(***************************************************************************)
Deref(p) == IF p.f = "a" THEN mem[p.blk][p.i].a ELSE mem[p.blk][p.i].b

\* Heap m with pointer q stored at p.
Store(m, p, q) ==
    LET cell == m[p.blk][p.i]
    IN  [m EXCEPT ![p.blk][p.i] =
            IF p.f = "a" THEN [cell EXCEPT !.a = q] ELSE [cell EXCEPT !.b = q]]

Extend(m, blk, cells) == [x \in DOMAIN m \cup {blk} |-> IF x = blk THEN cells ELSE m[x]]
Release(m, blk) == [x \in DOMAIN m \ {blk} |-> m[x]]

\* Whether an allocation fails is chosen where the input allows it to.
NoMemory == input.nomem

Owner == At(module[pos.sec].elts, pos.i, Field.f)

PInit ==
    /\ input \in Inputs
    /\ twice = FALSE
    /\ left = input.size
    /\ module = [s \in Sections |-> [n |-> 0, elts |-> Null]]
    /\ mem = << >>
    /\ next = 1
    /\ pos = [sec |-> "type", i |-> 0, k |-> 0]
    /\ ctx = [p |-> At(Null, 0, "a"), allow_else |-> FALSE]
    /\ stack = <<>>
    /\ instr = Zero
    /\ toks = <<>>
    /\ work = <<>>
    /\ phase = "header"
    /\ holds = TRUE

-----------------------------------------------------------------------------
(***************************************************************************)
(* read_module and the section readers.                                    *)
(***************************************************************************)
\* Mutant of FailWith: the instruction that is being read is not freed.
FailWithLeak(m) == mem' = m /\ instr' = Zero /\ phase' = "failed"

\* Every reader returns 0; the error path of read_instructions frees instr.
FailWith(m) ==
    /\ mem' = IF instr.op = "br_table" /\ instr.a # Null THEN Release(m, instr.a) ELSE m
    /\ instr' = Zero
    /\ phase' = "failed"

Fail == FailWith(mem) /\ UNCHANGED << input, twice, left, module, next, pos, ctx, stack, toks, work, holds >>

\* The bytes are missing, or what they hold is not accepted.
ReadFails ==
    /\ phase \in {"header", "id", "custom", "start", "field"}
    /\ phase = "id" => left > 0
    /\ Fail

\* The magic and the version.
ReadHeader ==
    /\ phase = "header" /\ left >= 2
    /\ left' = left - 2
    /\ phase' = "id"
    /\ UNCHANGED << input, twice, module, mem, next, pos, ctx, stack, instr, toks, work, holds >>


\* The input may end only where the id of a section is read.
EndOfInput ==
    /\ phase = "id" /\ left = 0
    /\ phase' = "parsed"
    /\ UNCHANGED << input, twice, left, module, mem, next, pos, ctx, stack, instr, toks, work, holds >>

\* Mutant of ReadId: the header of a custom section is not consumed.
ReadIdPeek(id) ==
    /\ phase = "id" /\ left >= 2
    /\ left' = IF id = "custom" THEN left ELSE left - 2
    /\ phase' = CASE id \in Sections -> "count" [] OTHER -> id
    /\ pos' = IF id \in Sections THEN [sec |-> id, i |-> 1, k |-> 1] ELSE pos
    /\ UNCHANGED << input, twice, module, mem, next, ctx, stack, instr, toks, work, holds >>

\* The id and the size of a section, any section at any place.
ReadId(id) ==
    /\ phase = "id" /\ left >= 2
    /\ left' = left - 2
    /\ phase' = CASE id \in Sections -> "count" [] OTHER -> id
    /\ pos' = IF id \in Sections THEN [sec |-> id, i |-> 1, k |-> 1] ELSE pos
    /\ UNCHANGED << input, twice, module, mem, next, ctx, stack, instr, toks, work, holds >>


\* A custom section is skipped, the start section is one index.
ReadCustom ==
    /\ phase \in {"custom", "start"}
    /\ \E size \in IF phase = "start" THEN {1} ELSE 0..left :
          size <= left /\ left' = left - size
    /\ phase' = "id"
    /\ UNCHANGED << input, twice, module, mem, next, pos, ctx, stack, instr, toks, work, holds >>

\* The section that is read has elements already.
Again == twice \/ module[pos.sec].elts # Null

\* The number of elements, and the array for them.
ReadCount(n) ==
    /\ phase = "count" /\ left >= 1
    /\ left' = left - 1
    /\ module' = [module EXCEPT ![pos.sec] = [n |-> n, elts |-> IF n = 0 THEN @.elts ELSE next]]
    /\ mem' = IF n = 0 THEN mem ELSE Extend(mem, next, [i \in 1..n |-> Zero])
    /\ next' = IF n = 0 THEN next ELSE next + 1
    /\ phase' = IF n = 0 THEN "id" ELSE "field"
    /\ twice' = Again
    /\ UNCHANGED << input, pos, ctx, stack, instr, toks, work, holds >>

\* The input ends within the number: what was read of it, n, stays.
ReadCountFails(n) ==
    /\ phase = "count" /\ (left = 0 => n = 0)
    /\ left' = 0
    /\ module' = [module EXCEPT ![pos.sec].n = n]
    /\ phase' = "failed"
    /\ twice' = Again
    /\ UNCHANGED << input, mem, next, pos, ctx, stack, instr, toks, work, holds >>

\* The array cannot be allocated; the import section does not test for this
\* and writes through the null pointer.
ReadCountNoMemory(n) ==
    /\ phase = "count" /\ left >= 1 /\ n > 0 /\ NoMemory
    /\ left' = left - 1
    /\ module' = [module EXCEPT ![pos.sec] = [n |-> n, elts |-> Null]]
    /\ phase' = IF pos.sec = "import" THEN "undefined" ELSE "failed"
    /\ twice' = Again
    /\ UNCHANGED << input, mem, next, pos, ctx, stack, instr, toks, work, holds >>

\* Where the readers go after a field.
Advance ==
    CASE pos.k < Len(Fields[pos.sec]) ->
            pos' = [pos EXCEPT !.k = @ + 1] /\ phase' = "field"
      [] pos.k = Len(Fields[pos.sec]) /\ pos.i < module[pos.sec].n ->
            pos' = [pos EXCEPT !.i = @ + 1, !.k = 1] /\ phase' = "field"
      [] OTHER -> pos' = pos /\ phase' = "id"

ReadValue ==
    /\ phase = "field" /\ Field.kind = "value" /\ left >= 1
    /\ left' = left - 1
    /\ Advance
    /\ UNCHANGED << input, twice, module, mem, next, ctx, stack, instr, toks, work, holds >>

\* read_buf_internal: a length and that many bytes, copied.
ReadString ==
    /\ phase = "field" /\ Field.kind = "string"
    /\ \E size \in 0..1 : left >= size + 1 /\ left' = left - size - 1
    /\ mem' = Extend(Store(mem, Owner, next), next, <<>>)
    /\ next' = next + 1
    /\ Advance
    /\ UNCHANGED << input, twice, module, ctx, stack, instr, toks, work, holds >>

\* A length and, unless it is 0, an array; reading its elements may fail.
ReadVector(n, ok) ==
    /\ phase = "field" /\ Field.kind = "vector" /\ left >= 1 /\ (n = 0 => ok)
    /\ ok => left >= n + 1
    /\ left' = IF ok THEN left - n - 1 ELSE 0
    /\ mem' = IF n = 0 THEN mem ELSE Extend(Store(mem, Owner, next), next, <<>>)
    /\ next' = IF n = 0 THEN next ELSE next + 1
    /\ IF ok THEN Advance ELSE phase' = "failed" /\ pos' = pos
    /\ UNCHANGED << input, twice, module, ctx, stack, instr, toks, work, holds >>

-----------------------------------------------------------------------------
(***************************************************************************)
(* read_instructions.  ctx and stack together are the contexts that the    *)
(* code keeps in its stack.                                                *)
(***************************************************************************)
ReadInstructions ==
    /\ phase = "field" /\ Field.kind = "instrs"
    /\ holds' = (holds /\ Deref(Owner) = Null)
    /\ ctx' = [p |-> Owner, allow_else |-> FALSE]
    /\ stack' = <<>>
    /\ toks' = <<>>
    /\ phase' = "instrs"
    /\ UNCHANGED << input, twice, left, module, mem, next, pos, instr, work >>

InList == phase = "instrs" /\ instr.op = "none"

\* realloc of the list at p with one more cell; the block moves.
AppendTo(p, cell) ==
    LET old == Deref(p)
        cells == IF old = Null THEN <<>> ELSE mem[old]
    IN  Store(Extend(Release(mem, old), next, Append(cells, cell)), p, next)

Instruction(tok) ==
    /\ InList /\ Readable(tok) /\ tok.op \notin Blocks \cup {"end", "else", "br_table"}
    /\ left' = left - TokenSize(tok)
    /\ mem' = AppendTo(ctx.p, Cell(Opcode(tok), Immediates(tok), Null))
    /\ next' = next + 1
    /\ toks' = Append(toks, tok)
    /\ UNCHANGED << input, twice, module, pos, ctx, stack, instr, work, phase, holds >>

\* The labels of br_table are allocated before they are read.
BrTable(tok) ==
    LET n == read_uleb(tok.imms[1], tok.undef[1])
    IN  /\ InList /\ tok.op = "br_table" /\ left >= 1 + Len(tok.imms[1])
        /\ left' = left - 1 - Len(tok.imms[1])
        /\ instr' = Cell("br_table", Immediates(tok), IF n = 0 THEN Null ELSE next)
        /\ mem' = IF n = 0 THEN mem ELSE Extend(mem, next, <<>>)
        /\ next' = IF n = 0 THEN next ELSE next + 1
        /\ toks' = Append(toks, tok)
        /\ UNCHANGED << input, twice, module, pos, ctx, stack, work, phase, holds >>

LabelsSize == LET tok == toks[Len(toks)] IN TokenSize(tok) - 1 - Len(tok.imms[1])

BrTableLabels ==
    /\ phase = "instrs" /\ instr.op = "br_table" /\ left >= LabelsSize
    /\ left' = left - LabelsSize
    /\ mem' = AppendTo(ctx.p, instr)
    /\ instr' = Zero
    /\ next' = next + 1
    /\ UNCHANGED << input, twice, module, pos, ctx, stack, toks, work, phase, holds >>

\* Mutant of OpenBlock: the child's list is addressed in the array before realloc.
OpenBlockStale(tok) ==
    /\ InList /\ Readable(tok) /\ tok.op \in Blocks
    /\ left' = left - TokenSize(tok)
    /\ mem' = AppendTo(ctx.p, Cell(tok.op, Immediates(tok), Null))
    /\ next' = next + 1
    /\ stack' = Append(stack, ctx)
    /\ ctx' = [p |-> At(Deref(ctx.p), Len(mem'[next]), "a"), allow_else |-> tok.op = "if"]
    /\ toks' = Append(toks, tok)
    /\ UNCHANGED << input, twice, module, pos, instr, work, phase, holds >>

\* Mutant of OpenBlock: every block may have an else list.
OpenBlockElse(tok) ==
    /\ InList /\ Readable(tok) /\ tok.op \in Blocks
    /\ left' = left - TokenSize(tok)
    /\ mem' = AppendTo(ctx.p, Cell(tok.op, Immediates(tok), Null))
    /\ next' = next + 1
    /\ stack' = Append(stack, ctx)
    /\ ctx' = [p |-> At(next, Len(mem'[next]), "a"), allow_else |-> TRUE]
    /\ toks' = Append(toks, tok)
    /\ UNCHANGED << input, twice, module, pos, instr, work, phase, holds >>

\* The parent goes onto the stack, the block's own list is read next.
OpenBlock(tok) ==
    /\ InList /\ Readable(tok) /\ tok.op \in Blocks
    /\ left' = left - TokenSize(tok)
    /\ mem' = AppendTo(ctx.p, Cell(tok.op, Immediates(tok), Null))
    /\ next' = next + 1
    /\ stack' = Append(stack, ctx)
    /\ ctx' = [p |-> At(next, Len(mem'[next]), "a"), allow_else |-> tok.op = "if"]
    /\ toks' = Append(toks, tok)
    /\ UNCHANGED << input, twice, module, pos, instr, work, phase, holds >>

\* The else list belongs to the last instruction of the parent's list.
Else(tok) ==
    /\ InList /\ left >= 1 /\ tok.op = "else" /\ ctx.allow_else
    /\ left' = left - 1
    /\ LET blk == Deref(stack[Len(stack)].p)
           last == mem[blk][Len(mem[blk])]
       IN  /\ ctx' = [p |-> At(blk, Len(mem[blk]), "b"), allow_else |-> FALSE]
           /\ holds' = (holds /\ last.op = "if" /\ last.b = Null)
    /\ toks' = Append(toks, tok)
    /\ UNCHANGED << input, twice, module, mem, next, pos, stack, instr, work, phase >>

\* The end of a list: back to the parent, or the field is read.
EndOfList(tok) ==
    /\ InList /\ left >= 1 /\ tok.op = "end"
    /\ left' = left - 1
    /\ toks' = Append(toks, tok)
    /\ \/ /\ stack # <<>>
          /\ ctx' = stack[Len(stack)]
          /\ stack' = SubSeq(stack, 1, Len(stack) - 1)
          /\ UNCHANGED << pos, phase >>
       \/ stack = <<>> /\ Advance /\ UNCHANGED << ctx, stack >>
    /\ UNCHANGED << input, twice, module, mem, next, instr, work, holds >>

\* An instruction that is cut short, unknown, or an else out of place.
Unreadable(tok) ==
    /\ phase = "instrs"
    /\ \/ /\ instr.op = "none"
          /\ IF tok.op = "br_table" THEN left < 1 + Len(tok.imms[1])
             ELSE ~Readable(tok) \/ (tok.op = "else" /\ ~ctx.allow_else)
       \/ instr.op = "br_table" /\ left < LabelsSize
    /\ Fail

\* realloc fails for the list, or for the stack after the block was appended.
ListNoMemory(tok) ==
    /\ phase = "instrs" /\ NoMemory
    /\ \/ instr.op = "br_table" /\ left >= LabelsSize /\ Fail
       \/ InList /\ (Readable(tok) \/ tok.op = "br_table") /\ tok.op # "end" /\ Fail
       \/ /\ InList /\ Readable(tok) /\ tok.op \in Blocks
          /\ FailWith(AppendTo(ctx.p, Cell(tok.op, Immediates(tok), Null)))
          /\ next' = next + 1
          /\ UNCHANGED << input, twice, left, module, pos, ctx, stack, toks, work, holds >>

-----------------------------------------------------------------------------
(***************************************************************************)
(* wasmjit_free_module, a step of one of its loops at a time.  An item of  *)
(* work is a block to free ("free"), or the loop over the cells of a list  *)
(* ("list") or of a section's array, from cell i on, that frees what they  *)
(* own and then the array.                                                 *)
(***************************************************************************)
Free(blk) == [op |-> "free", blk |-> blk, i |-> 1]
FreeList(blk) == [op |-> "list", blk |-> blk, i |-> 1]
FreeSection(sec) == [op |-> sec, blk |-> module[sec].elts, i |-> 1]

\* free_instruction
FreeInstruction(cell) ==
    CASE cell.op \in {"block", "loop"} -> << FreeList(cell.a) >>
      [] cell.op = "if" -> << FreeList(cell.a), FreeList(cell.b) >>
      [] cell.op = "br_table" -> << Free(cell.a) >>
      [] OTHER -> <<>>

\* Mutant of FreeElement: the locals of a function are not freed.
FreeElementNoLocals(sec, cell) ==
    CASE sec = "import" -> << Free(cell.b), Free(cell.a) >>
      [] sec = "global" -> << FreeList(cell.a) >>
      [] sec = "export" -> << Free(cell.a) >>
      [] sec = "element" -> << FreeList(cell.a), Free(cell.b) >>
      [] sec = "code" -> << FreeList(cell.b) >>
      [] sec = "data" -> << FreeList(cell.a), Free(cell.b) >>
      [] OTHER -> <<>>

\* What is freed for one element of a section.
FreeElement(sec, cell) ==
    CASE sec = "import" -> << Free(cell.b), Free(cell.a) >>
      [] sec = "global" -> << FreeList(cell.a) >>
      [] sec = "export" -> << Free(cell.a) >>
      [] sec = "element" -> << FreeList(cell.a), Free(cell.b) >>
      [] sec = "code" -> << Free(cell.a), FreeList(cell.b) >>
      [] sec = "data" -> << FreeList(cell.a), Free(cell.b) >>
      [] OTHER -> <<>>

\* Elements that own nothing; their array is freed without a loop.
Plain == {"type", "function", "table", "memory"}

\* The cells that the loop of an item visits.
LoopCount(w) ==
    CASE w.op = "free" \/ w.blk \notin DOMAIN mem -> 0
      [] w.op \in Plain \cup {"list"} /\ w.blk \in DOMAIN mem -> Len(mem[w.blk])
      [] OTHER -> module[w.op].n

\* The loop goes on past the end of the array.
Beyond(w) == w.blk \in DOMAIN mem /\ Len(mem[w.blk]) < w.i /\ w.i <= LoopCount(w)

FreeOrder == << "type", "import", "function", "table", "memory", "global", "export",
                "element", "code", "data" >>

FreeModule ==
    /\ phase \in {"failed", "parsed"}
    /\ work' = [j \in 1..Len(FreeOrder) |-> FreeSection(FreeOrder[j])]
    /\ phase' = "freeing"
    /\ UNCHANGED << input, twice, left, module, mem, next, pos, ctx, stack, instr, toks, holds >>

\* What the cell owns comes before the rest of the loop, the array last.
FreeStep ==
    /\ phase = "freeing" /\ work # <<>> /\ ~Beyond(Head(work))
    /\ LET w == Head(work)
           cell == mem[w.blk][w.i]
           owned == IF w.op = "list" THEN FreeInstruction(cell) ELSE FreeElement(w.op, cell)
       IN  /\ holds' = (holds /\ (w.blk = Null \/ w.blk \in DOMAIN mem))
           /\ IF w.i <= LoopCount(w)
              THEN work' = owned \o << [w EXCEPT !.i = @ + 1] >> \o Tail(work) /\ mem' = mem
              ELSE work' = Tail(work) /\ mem' = Release(mem, w.blk)
    /\ UNCHANGED << input, twice, left, module, next, pos, ctx, stack, instr, toks, phase >>

\* What is freed is what happens to be behind the array.
FreeBeyond ==
    /\ phase = "freeing" /\ work # <<>> /\ Beyond(Head(work))
    /\ phase' = "undefined"
    /\ UNCHANGED << input, twice, left, module, mem, next, pos, ctx, stack, instr, toks, work, holds >>

FreeDone ==
    /\ phase = "freeing" /\ work = <<>>
    /\ phase' = "freed"
    /\ UNCHANGED << input, twice, left, module, mem, next, pos, ctx, stack, instr, toks, work, holds >>

-----------------------------------------------------------------------------
AtReserved == toks # <<>> /\ toks[Len(toks)].op = "memory"

ReadList ==
    \/ ReadInstructions \/ BrTableLabels
    \/ \E tok \in IF AtReserved THEN {Reserved} ELSE input.toks :
          \/ Instruction(tok) \/ BrTable(tok) \/ OpenBlock(tok) \/ Else(tok) \/ EndOfList(tok)
          \/ Unreadable(tok) \/ ListNoMemory(tok)

ReadModule ==
    \/ ReadHeader \/ EndOfInput \/ ReadCustom \/ ReadValue \/ ReadString \/ ReadFails
    \/ \E id \in input.ids : ReadId(id)
    \/ \E n \in input.counts : ReadCount(n) \/ ReadCountNoMemory(n)
    \/ \E n \in input.counts \cup {0} : ReadCountFails(n)
    \/ \E n \in 0..1, ok \in BOOLEAN : ReadVector(n, ok)

Next == ReadModule \/ ReadList \/ FreeModule \/ FreeStep \/ FreeBeyond \/ FreeDone

Spec == PInit /\ [][Next]_vars

\* The parser is a sequential function: it runs until it returns.
FairSpec == Spec /\ WF_vars(Next)

-----------------------------------------------------------------------------
(***************************************************************************)
(* What the parser promises about memory.                                  *)
(***************************************************************************)
Reading == phase \notin {"freeing", "freed", "undefined"}

Context(k) == IF k > Len(stack) THEN ctx ELSE stack[k]

\* No context that read_instructions keeps across a realloc points into an
\* array that has moved: each is a field of a live cell, of a list's last
\* instruction unless it is the root.
PointersLive ==
    phase = "instrs" =>
        \A k \in 1..(Len(stack) + 1) :
            LET p == Context(k).p
            IN  /\ p.blk \in DOMAIN mem /\ p.i \in DOMAIN mem[p.blk]
                /\ k > 1 => /\ p.blk = Deref(Context(k - 1).p)
                            /\ p.i = Len(mem[p.blk])

\* assert(last_instr->opcode == OPCODE_IF), the assertions that lists are
\* empty when they are started, and no block is freed twice.  Nothing outside
\* a block is accessed unless the array of the import section could not be
\* allocated or a section that has elements was read again.
AssertionsHold ==
    /\ holds
    /\ phase = "undefined" => twice \/ (pos.sec = "import" /\ module[pos.sec].elts = Null)

Places == UNION {{At(x, i, f) : i \in DOMAIN mem[x], f \in {"a", "b"}} : x \in DOMAIN mem}

\* While the module is read every block has exactly one owner: the module, one
\* cell, or the instruction that is being read.  read_module accepts a second
\* section of a kind, whose array takes the place of the first one's; from
\* then on the first one has no owner.
OwnedOnce ==
    Reading /\ ~twice =>
        /\ \A p \in Places : Deref(p) \in DOMAIN mem \cup {Null}
        /\ \A x \in DOMAIN mem :
              LET cells == {p \in Places : Deref(p) = x}
                  secs == {s \in Sections : module[s].elts = x}
              IN  \/ (\E p \in cells : cells = {p}) /\ secs = {} /\ instr.a # x
                  \/ cells = {} /\ (\E s \in secs : secs = {s}) /\ instr.a # x
                  \/ cells = {} /\ secs = {} /\ instr.a = x

\* wasmjit_free_module leaves nothing, after a failure at any place too, of a
\* module in which no section that has elements is repeated.
AllReleased == phase = "freed" /\ ~twice => DOMAIN mem = {}

=============================================================================
