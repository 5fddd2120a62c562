------------------------------ MODULE ParseInv ------------------------------
(***************************************************************************)
(* The inductive invariant of Parse, and the laws of its heap.             *)
(*                                                                         *)
(* That no block leaks, is freed twice or is reached after it moved is not *)
(* inductive as it stands.  While the module is read, Inv adds that the    *)
(* pointers form a forest over the live blocks (Owned, Ranked), in which   *)
(* each field owns what the release will free it as (Shaped); that the     *)
(* fields still to be read are null (Unread); and that the contexts are a  *)
(* chain of last instructions down to the list being read (ContextInv).    *)
(* While the module is freed the owners of a block are the fields that no  *)
(* loop has visited yet and the items of the work list (FreeInv).  Inv     *)
(* holds until a section that has elements is read again: its array is     *)
(* then replaced and has no owner any more.                                *)
(*                                                                         *)
(* The steps change the heap in eight ways only: HeapLaws says that each   *)
(* keeps it well formed, for any heap.  ParseReadProof shows from the laws *)
(* that every step preserves Inv, ParseHeapProof shows the laws; the facts *)
(* both need are at the end of this module.                                *)
(***************************************************************************)
EXTENDS Parse, TLAPS

(* Leaves that name no prover: how long each is tried, and in which order. *)
USE SMTT(20), ZenonT(20), SMTT(40), Z3T(60)

Names == {"a", "b"}
Tokens == (UNION {in.toks : in \in Inputs}) \cup {Reserved}
Immediate == {Immediates(t) : t \in Tokens} \cup {<<>>}
Opcodes == {t.op : t \in Tokens} \cup {"none", "br_table", "unreachable"}
Cells == [op : Opcodes, v : Immediate, a : Nat, b : Nat]
Spots == [blk : Nat, i : Nat, f : Names]
Contexts == [p : Spots, allow_else : BOOLEAN]
Arrays == [n : Nat, elts : Nat]
Roles == Sections \cup {"list"}
Items == [op : Roles \cup {"free"}, blk : Nat, i : Nat \ {0}]

\* The fields of live cells, and the pointer that field p holds.
PlacesOf(m) == UNION {{At(x, i, f) : i \in DOMAIN m[x], f \in Names} : x \in DOMAIN m}
Ptr(m, p) == IF p.f = "a" THEN m[p.blk][p.i].a ELSE m[p.blk][p.i].b
Held(m) == [p \in PlacesOf(m) |-> Ptr(m, p)]

\* The pointers that are not in a cell: of the module and of the instruction.
Roots(md, ins) ==
    [k \in Sections \cup {"instr"} |-> IF k = "instr" THEN ins.a ELSE md[k].elts]

\* Each block of D is held once, by a field (h) or by a root (R).
Owned(D, h, R) ==
    /\ \A p \in DOMAIN h : h[p] \in D \cup {Null}
    /\ \A k \in DOMAIN R : R[k] \in D \cup {Null}
    /\ \A p, q \in DOMAIN h : h[p] = h[q] => p = q \/ h[p] = Null
    /\ \A k, l \in DOMAIN R : R[k] = R[l] => k = l \/ R[k] = Null
    /\ \A p \in DOMAIN h, k \in DOMAIN R : h[p] = R[k] => R[k] = Null
    /\ \A x \in D : (\E p \in DOMAIN h : h[p] = x) \/ (\E k \in DOMAIN R : R[k] = x)

\* Pointers lead from a block to blocks of a higher rank.
Ranked(h, r) == \A p \in DOMAIN h : h[p] # Null => r[p.blk] < r[h[p]]

HasRole(md, x, o) ==
    IF o = "list" THEN \A s \in Sections : md[s].elts # x ELSE md[o].elts = x

\* What field f of a cell owns, as free_instruction and wasmjit_free_module see it.
OwnsList(o, cell, f) ==
    IF o = "list" THEN (cell.op \in {"block", "loop"} /\ f = "a") \/ cell.op = "if"
    ELSE << o, f >> \in {<<"global", "a">>, <<"element", "a">>, <<"code", "b">>, <<"data", "a">>}
OwnsLeaf(o, cell, f) ==
    IF o = "list" THEN cell.op = "br_table" /\ f = "a"
    ELSE << o, f >> \in {<<"import", "a">>, <<"import", "b">>, <<"export", "a">>,
                         <<"element", "b">>, <<"code", "a">>, <<"data", "b">>}

ShapedAt(m, md, p, q) ==
    /\ \A s \in Sections : md[s].elts # q
    /\ \A o \in Roles : HasRole(md, p.blk, o) =>
          \/ OwnsList(o, m[p.blk][p.i], p.f)
          \/ OwnsLeaf(o, m[p.blk][p.i], p.f) /\ m[q] = <<>>
Shaped(m, md, h) == \A p \in DOMAIN h : h[p] # Null => ShapedAt(m, md, p, h[p])

\* The fields h and the roots R own the blocks of m, each block once, without a
\* cycle, where the release of the module will find it.
Sound(m, md, h, R) ==
    /\ Owned(DOMAIN m, h, R)
    /\ Shaped(m, md, h)
    /\ \E r \in [Nat -> Nat] : Ranked(h, r)

IsHeap(m) == m \in [DOMAIN m -> Seq(Cells)]

HeapType(m, md, n) ==
    /\ n \in Nat \ {0}
    /\ DOMAIN m \subseteq 1..(n - 1)
    /\ IsHeap(m)
    /\ \A s \in Sections : md[s].elts \in DOMAIN m => Len(m[md[s].elts]) = md[s].n

TypeInv ==
    /\ input \in Inputs
    /\ module \in [Sections -> Arrays]
    /\ pos.sec \in Sections /\ pos = [sec |-> pos.sec, i |-> pos.i, k |-> pos.k]
    /\ ctx \in Contexts /\ stack \in Seq(Contexts)
    /\ instr \in Cells
    /\ work \in Seq(Items)
    /\ HeapType(mem, module, next)

\* Elements and fields that are still to be read own nothing.
Unread ==
    LET elts == module[pos.sec].elts
    IN  /\ elts # Null
        /\ pos.i \in 1..module[pos.sec].n
        /\ pos.k \in 1..Len(Fields[pos.sec])
        /\ \A i \in 1..module[pos.sec].n, f \in Names :
              i > pos.i => Ptr(mem, At(elts, i, f)) = Null
        /\ \A k \in pos.k..Len(Fields[pos.sec]) :
              /\ Fields[pos.sec][k].kind # "value"
              /\ ~(phase = "instrs" /\ k = pos.k)
              => Ptr(mem, At(elts, pos.i, Fields[pos.sec][k].f)) = Null

PosInv ==
    /\ phase = "count" => pos.i = 1 /\ pos.k = 1
    /\ phase \in {"field", "instrs"} => Unread

InstrInv ==
    /\ instr.op \in {"none", "br_table"} /\ instr.b = Null
    /\ instr.op = "none" => instr.a = Null
    /\ instr.a # Null => mem[instr.a] = <<>>
    /\ phase # "instrs" => instr.op = "none"

\* The contexts are the fields on the way down to the list that is being read:
\* the field of the element, then fields of the last instruction of each list.
PathOf(st, c) == [k \in 1..(Len(st) + 1) |-> IF k > Len(st) THEN c ELSE st[k]]
Path == PathOf(stack, ctx)
Within(m, c, q) ==
    LET cell == m[c.p.blk][c.p.i]
    IN  /\ c.p.blk = q /\ c.p.i = Len(m[q])
        /\ cell.op \in Blocks
        /\ c.p.f = "b" => cell.op = "if"
        /\ c.p.f = "a" => cell.b = Null
        /\ c.allow_else => c.p.f = "a" /\ cell.op = "if"
OnPath(m, C, K) ==
    /\ \A k \in 1..K : C[k].p \in PlacesOf(m)
    /\ \A k \in 2..K : Within(m, C[k], Ptr(m, C[k - 1].p))
    /\ \A j, k \in 1..K : j < k => C[j].p.blk < C[k].p.blk
    /\ Ptr(m, C[K].p) # Null => C[K].p.blk < Ptr(m, C[K].p)
ContextInv ==
    /\ OnPath(mem, Path, Len(stack) + 1)
    /\ Path[1].p = Owner /\ ~Path[1].allow_else /\ Field.kind = "instrs"

ReadInv ==
    /\ PosInv
    /\ InstrInv
    /\ phase = "instrs" => ContextInv
    /\ Sound(mem, module, Held(mem), Roots(module, instr))

\* Cells before the cursor of a loop own nothing any more.
Pending(m, F) == [p \in {q \in PlacesOf(m) : q.i >= F[q.blk]} |-> Ptr(m, p)]
Targets(wk) == [j \in 1..Len(wk) |-> wk[j].blk]

ItemInv(m, md, w, F) ==
    /\ w.op \in Sections => w.blk = md[w.op].elts
    /\ w.op = "list" => HasRole(md, w.blk, "list") \/ w.blk = Null
    /\ w.op = "free" /\ w.blk # Null => m[w.blk] = <<>>
    /\ w.op # "free" /\ w.blk # Null => F[w.blk] = w.i

\* F is how far the loop over each array has come.
FreeInv(m, md, wk, F) ==
    /\ Sound(m, md, Pending(m, F), Targets(wk))
    /\ \A p \in DOMAIN Pending(m, F) : Pending(m, F)[p] # Null => F[Pending(m, F)[p]] = 1
    /\ \A j \in 1..Len(wk) : ItemInv(m, md, wk[j], F)

-----------------------------------------------------------------------------
(***************************************************************************)
(* Operations on any heap.                                                 *)
(***************************************************************************)
\* Heap n is m with a block b that holds c.
Extended(m, n, b, c) ==
    DOMAIN n = DOMAIN m \cup {b} /\ n[b] = c /\ \A x \in DOMAIN m : n[x] = m[x]

\* Module me is md with an array of k elements, block b, for section s.
NewSection(md, me, s, k, b) ==
    /\ s \in Sections /\ md[s].elts = Null
    /\ me[s].elts = b /\ me[s].n = k
    /\ \A t \in Sections : t # s => me[t] = md[t]

NullCells(c, k) ==
    /\ k \in Nat /\ c \in Seq(Cells) /\ Len(c) = k
    /\ \A i \in 1..k : c[i].a = Null /\ c[i].b = Null

\* AppendTo for any heap.
AppendAt(m, p, b, cell) ==
    LET old == Ptr(m, p)
        cells == IF old = Null THEN <<>> ELSE m[old]
    IN  Store(Extend(Release(m, old), b, Append(cells, cell)), p, b)

\* The cells of the list behind a pointer, and how many there are.
ListOf(m, x) == IF x = Null THEN <<>> ELSE m[x]

\* Heap n is m where the list behind p moved to b and has one cell more.
AppendedTo(m, n, p, b, cell) ==
    LET old == Ptr(m, p)
        k == Len(ListOf(m, old))
    IN  /\ DOMAIN n = (DOMAIN m \ {old}) \cup {b}
        /\ n[b] \in Seq(Cells) /\ Len(n[b]) = k + 1 /\ n[b][k + 1] = cell
        /\ \A i \in 1..k : n[b][i] = m[old][i]
        /\ \A x \in DOMAIN m : x # old => Len(n[x]) = Len(m[x])
        /\ \A x \in DOMAIN m : x # old /\ x # p.blk => n[x] = m[x]
        /\ \A x \in DOMAIN m : x # old => \A i \in DOMAIN m[x] : n[x][i].op = m[x][i].op

AppendedHeld(m, n, p, b) ==
    LET old == Ptr(m, p)
    IN  /\ \A q \in PlacesOf(m) : q.blk # old =>
              q \in PlacesOf(n) /\ Ptr(n, q) = IF q = p THEN b ELSE Ptr(m, q)
        /\ \A q \in PlacesOf(n) : q.blk = b \/ (q \in PlacesOf(m) /\ q.blk # old)

\* A cell that takes over what the instruction ins owns can be appended to the
\* list behind p.
AppendPre(m, md, ins, p, cell) ==
    /\ p \in PlacesOf(m) /\ cell \in Cells
    /\ Ptr(m, p) # p.blk
    /\ \A o \in Roles : HasRole(md, p.blk, o) => OwnsList(o, m[p.blk][p.i], p.f)
    /\ cell.a = ins.a /\ cell.b = Null
    /\ ins.a # Null => m[ins.a] = <<>> /\ cell.op = "br_table"

\* LoopCount, the work after a visit and the first work, for any heap.
CountOf(m, md, w) ==
    CASE w.op = "free" \/ w.blk \notin DOMAIN m -> 0
      [] w.op \in Plain \cup {"list"} /\ w.blk \in DOMAIN m -> Len(m[w.blk])
      [] OTHER -> md[w.op].n

OwnedBy(w, cell) == IF w.op = "list" THEN FreeInstruction(cell) ELSE FreeElement(w.op, cell)

NextWork(m, w, wk) ==
    OwnedBy(w, m[w.blk][w.i]) \o << [w EXCEPT !.i = @ + 1] >> \o Tail(wk)

SectionItem(md, s) == [op |-> s, blk |-> md[s].elts, i |-> 1]

SectionWork(md) == [j \in 1..Len(FreeOrder) |-> SectionItem(md, FreeOrder[j])]

WellFormed(m, md, ins, b) ==
    HeapType(m, md, b) /\ Sound(m, md, Held(m), Roots(md, ins))

\* A block without pointers can be stored at p, and what storing it does.
StorePre(m, md, p) ==
    /\ p \in PlacesOf(m) /\ Ptr(m, p) = Null
    /\ \A o \in Roles : HasRole(md, p.blk, o) => OwnsLeaf(o, m[p.blk][p.i], p.f)
StoreLeaf(m, p, b) == Extend(Store(m, p, b), b, <<>>)

\* What the steps of the parser do to a well-formed heap.
LeafMade(m, n, md, ins, p, b) ==
    WellFormed(n, md, ins, b + 1) /\ Held(n) = [Held(m) EXCEPT ![p] = b]
LabelsMade(m, n, md, new, b) ==
    WellFormed(n, md, new, b + 1) /\ Extended(m, n, b, <<>>) /\ Held(n) = Held(m)
ArrayMade(n, me, ins, b, k) ==
    WellFormed(n, me, ins, b + 1) /\ \A i \in 1..k, f \in Names : Ptr(n, At(b, i, f)) = Null
AppendMade(m, n, md, new, p, b, cell) ==
    /\ WellFormed(n, md, new, b + 1)
    /\ AppendedTo(m, n, p, b, cell) /\ AppendedHeld(m, n, p, b)

LeafLaw ==
    \A m, md, ins, b, p : WellFormed(m, md, ins, b) /\ StorePre(m, md, p) =>
        LeafMade(m, StoreLeaf(m, p, b), md, ins, p, b)
LabelsLaw ==
    \A m, md, ins, new, b : WellFormed(m, md, ins, b) /\ ins.a = Null /\ new.a = b =>
        LabelsMade(m, Extend(m, b, <<>>), md, new, b)
DropLaw ==
    \A m, md, ins, new, b :
        WellFormed(m, md, ins, b) /\ ins.a # Null /\ m[ins.a] = <<>> /\ new.a = Null =>
            WellFormed(Release(m, ins.a), md, new, b)
ArrayLaw ==
    \A m, md, me, ins, b, s, k, c :
        WellFormed(m, md, ins, b) /\ NewSection(md, me, s, k, b) /\ NullCells(c, k) =>
            ArrayMade(Extend(m, b, c), me, ins, b, k)
AppendLaw ==
    \A m, md, ins, new, p, b, cell :
        WellFormed(m, md, ins, b) /\ AppendPre(m, md, ins, p, cell) /\ new.a = Null =>
            AppendMade(m, AppendAt(m, p, b, cell), md, new, p, b, cell)

\* The release of the module starts, visits a cell, and frees a block.
Freeing(m, md, wk) == wk \in Seq(Items) /\ \E F \in [Nat -> Nat] : FreeInv(m, md, wk, F)
StartLaw ==
    \A m, md, ins, b :
        WellFormed(m, md, ins, b) /\ ins.a = Null /\ md \in [Sections -> Arrays] =>
            Freeing(m, md, SectionWork(md))
VisitLaw ==
    \A m, md, b, wk :
        /\ HeapType(m, md, b) /\ Freeing(m, md, wk) /\ wk # <<>>
        /\ Head(wk).i <= CountOf(m, md, Head(wk))
        => Freeing(m, md, NextWork(m, Head(wk), wk))
FreeLaw ==
    \A m, md, b, wk :
        /\ HeapType(m, md, b) /\ Freeing(m, md, wk) /\ wk # <<>>
        /\ Head(wk).i > CountOf(m, md, Head(wk))
        => HeapType(Release(m, Head(wk).blk), md, b) /\ Freeing(Release(m, Head(wk).blk), md, Tail(wk))

HeapLaws ==
    /\ LeafLaw /\ LabelsLaw /\ DropLaw /\ ArrayLaw /\ AppendLaw
    /\ StartLaw /\ VisitLaw /\ FreeLaw

-----------------------------------------------------------------------------
Inv ==
    /\ TypeInv
    /\ AssertionsHold
    /\ Reading => ReadInv
    /\ phase \in {"freeing", "freed"} => Freeing(mem, module, work)
    /\ phase = "freed" => work = <<>>

-----------------------------------------------------------------------------
\* A place is a field of a cell of a live block.
LEMMA PlaceFacts ==
    ASSUME NEW m, NEW p \in PlacesOf(m)
    PROVE  /\ p.blk \in DOMAIN m /\ p.i \in DOMAIN m[p.blk] /\ p.f \in Names
           /\ p = At(p.blk, p.i, p.f)
<1>1. PICK x \in DOMAIN m : p \in {At(x, i, f) : i \in DOMAIN m[x], f \in Names}
    BY DEF PlacesOf
<1>2. PICK i \in DOMAIN m[x], f \in Names : p = At(x, i, f)
    BY <1>1
<1> QED BY ZenonT(60), <1>2 DEF At

\* A field of a cell of a live block is a place.
LEMMA AtPlace ==
    ASSUME NEW m, NEW x \in DOMAIN m, NEW i \in DOMAIN m[x], NEW f \in Names
    PROVE  /\ At(x, i, f) \in PlacesOf(m)
           /\ At(x, i, f).blk = x /\ At(x, i, f).i = i /\ At(x, i, f).f = f
<1>1. At(x, i, f) \in {At(x, j, g) : j \in DOMAIN m[x], g \in Names}
    OBVIOUS
<1>2. At(x, i, f) \in PlacesOf(m)
    BY <1>1 DEF PlacesOf
<1> QED BY ZenonT(60), <1>2 DEF At

\* A live block is a finite array of cells.
LEMMA HeapBlock ==
    ASSUME NEW m, IsHeap(m), NEW x \in DOMAIN m
    PROVE  m[x] \in Seq(Cells) /\ Len(m[x]) \in Nat /\ DOMAIN m[x] = 1..Len(m[x])
<1>1. m[x] \in Seq(Cells)
    BY ZenonT(60) DEF IsHeap
<1> QED BY <1>1

\* The parts of a place.
LEMMA AtFields ==
    ASSUME NEW x, NEW i, NEW f
    PROVE  At(x, i, f).blk = x /\ At(x, i, f).i = i /\ At(x, i, f).f = f
BY ZenonT(60) DEF At

\* Held is the pointer in each place.
LEMMA HeldFacts ==
    ASSUME NEW m, NEW p \in PlacesOf(m)
    PROVE  p \in DOMAIN Held(m) /\ Held(m)[p] = Ptr(m, p) /\ p.blk \in DOMAIN m
BY ZenonT(60), PlaceFacts DEF Held

\* The next block is neither live nor the null pointer.
LEMMA HeapFacts ==
    ASSUME NEW m, NEW md, NEW n, HeapType(m, md, n)
    PROVE  /\ n \in Nat /\ n # Null /\ n \notin DOMAIN m /\ Null \notin DOMAIN m
           /\ DOMAIN m \subseteq Nat /\ IsHeap(m)
BY DEF HeapType, Null

\* A block without cells: a string or a vector of numbers.
LEMMA EmptySeq == <<>> \in Seq(Cells) /\ DOMAIN << >> = {} /\ Len(<<>>) = 0
OBVIOUS

\* A cell of calloc owns nothing.
LEMMA ZeroCell ==
    Zero \in Cells /\ Zero.op = "none" /\ Zero.a = Null /\ Zero.b = Null
<1>1. <<>> \in Immediate
    BY ZenonT(60) DEF Immediate
<1>2. Zero = [op |-> "none", v |-> <<>>, a |-> 0, b |-> 0]
    BY ZenonT(60) DEF Zero, Cell, Null
<1>3. "none" \in Opcodes
    BY ZenonT(60) DEF Opcodes
<1> QED BY ZenonT(60), <1>1, <1>2, <1>3 DEF Cells, Null

\* The sections that hold an array.
LEMMA SectionsAre ==
    Sections = {"type", "import", "function", "table", "memory", "global", "export",
                "element", "code", "data"}
BY ZenonT(60) DEF Sections, Fields

\* The pointers outside cells, one by one.
LEMMA RootsFacts ==
    ASSUME NEW md, NEW ins
    PROVE  /\ DOMAIN Roots(md, ins) = Sections \cup {"instr"}
           /\ "instr" \notin Sections
           /\ Roots(md, ins)["instr"] = ins.a
           /\ \A s \in Sections : Roots(md, ins)[s] = md[s].elts
BY ZenonT(60), SectionsAre DEF Roots

\* Sequence v is s followed by t.
Concat(S, v, s, t) ==
    /\ v \in Seq(S) /\ Len(v) = Len(s) + Len(t)
    /\ \A j \in 1..Len(s) : v[j] = s[j]
    /\ \A j \in 1..Len(t) : v[Len(s) + j] = t[j]

\* The elements of a concatenation.
LEMMA ConcatFacts ==
    ASSUME NEW S, NEW s \in Seq(S), NEW t \in Seq(S)
    PROVE  Concat(S, s \o t, s, t)
<1>1. s \o t \in Seq(S) /\ Len(s \o t) = Len(s) + Len(t)
    OBVIOUS
<1>2. \A j \in 1..Len(s) : (s \o t)[j] = s[j]
    OBVIOUS
<1>3. \A j \in 1..Len(t) : (s \o t)[Len(s) + j] = t[j]
    OBVIOUS
<1> QED BY <1>1, <1>2, <1>3 DEF Concat

\* Equal cells hold equal pointers.
LEMMA PtrAt ==
    ASSUME NEW m, NEW n, NEW x, NEW y, NEW i, NEW f \in Names, n[y][i] = m[x][i]
    PROVE  Ptr(n, At(y, i, f)) = Ptr(m, At(x, i, f))
BY ZenonT(60) DEF Ptr, At

\* The two pointers of a cell.
LEMMA PtrFields ==
    ASSUME NEW m, NEW x, NEW i
    PROVE  Ptr(m, At(x, i, "a")) = m[x][i].a /\ Ptr(m, At(x, i, "b")) = m[x][i].b
BY ZenonT(60) DEF Ptr, At

\* The domain of a sequence.
LEMMA LenFacts ==
    ASSUME NEW S, NEW s \in Seq(S)
    PROVE  Len(s) \in Nat /\ DOMAIN s = 1..Len(s)
OBVIOUS
=============================================================================
