--------------------------- MODULE ParseReadProof ---------------------------
(***************************************************************************)
(* Every step of Parse preserves its inductive invariant, if the laws of   *)
(* the heap hold: one lemma for each action, combined in InvStep.  Nothing *)
(* here unfolds how blocks are owned; the steps need to know only what the *)
(* laws say of the heap they leave behind.                                 *)
(***************************************************************************)
EXTENDS ParseInv

(* Leaves that name no prover: how long each is tried, and in which order. *)
USE SMTT(20), ZenonT(20), SMTT(40), Z3T(60)

-----------------------------------------------------------------------------
(***************************************************************************)
(* The fields of the sections' elements.                                   *)
(***************************************************************************)
Kinds == {"value", "string", "vector", "instrs"}

\* A field of an element of section s owns what its kind says.
GoodField(s, x) ==
    /\ x.kind \in Kinds /\ x.f \in Names
    /\ x.kind = "instrs" => \A cell : OwnsList(s, cell, x.f)
    /\ x.kind \in {"string", "vector"} => \A cell : OwnsLeaf(s, cell, x.f)

Apart2(x, y) == x.kind = "value" \/ y.kind = "value" \/ x.f # y.f

GoodFields(s) ==
    /\ Len(Fields[s]) \in Nat \ {0}
    /\ \A k \in 1..Len(Fields[s]) : GoodField(s, Fields[s][k])
    /\ \A k, l \in 1..Len(Fields[s]) : k # l => Apart2(Fields[s][k], Fields[s][l])

\* A section whose elements have one field.
LEMMA GoodOne ==
    ASSUME NEW s, NEW x, Fields[s] = << x >>, GoodField(s, x)
    PROVE  GoodFields(s)
<1>1. Len(Fields[s]) = 1 /\ Fields[s][1] = x
    OBVIOUS
<1>2. \A k \in 1..Len(Fields[s]) : k = 1
    BY <1>1
<1> QED BY <1>1, <1>2 DEF GoodFields

\* A section whose elements have two fields.
LEMMA GoodTwo ==
    ASSUME NEW s, NEW x, NEW y, Fields[s] = << x, y >>, GoodField(s, x), GoodField(s, y), Apart2(x, y)
    PROVE  GoodFields(s)
<1>1. Len(Fields[s]) = 2 /\ Fields[s][1] = x /\ Fields[s][2] = y
    OBVIOUS
<1>2. \A k \in 1..Len(Fields[s]) : k = 1 \/ k = 2
    BY <1>1
<1>3. Apart2(y, x)
    BY ZenonT(60) DEF Apart2
<1> QED BY <1>1, <1>2, <1>3 DEF GoodFields

\* A section whose elements have three fields.
LEMMA GoodThree ==
    ASSUME NEW s, NEW x, NEW y, NEW z, Fields[s] = << x, y, z >>,
           GoodField(s, x), GoodField(s, y), GoodField(s, z), Apart2(x, y), Apart2(x, z), Apart2(y, z)
    PROVE  GoodFields(s)
<1>1. Len(Fields[s]) = 3 /\ Fields[s][1] = x /\ Fields[s][2] = y /\ Fields[s][3] = z
    OBVIOUS
<1>2. \A k \in 1..Len(Fields[s]) : k = 1 \/ k = 2 \/ k = 3
    BY <1>1
<1>3. Apart2(y, x) /\ Apart2(z, x) /\ Apart2(z, y)
    BY ZenonT(60) DEF Apart2
<1> QED BY <1>1, <1>2, <1>3 DEF GoodFields

\* A section whose elements have four fields.
LEMMA GoodFour ==
    ASSUME NEW s, NEW x, NEW y, NEW z, Fields[s] = << x, y, z, z >>,
           GoodField(s, x), GoodField(s, y), GoodField(s, z), Apart2(x, y), z.kind = "value"
    PROVE  GoodFields(s)
<1>1. /\ Len(Fields[s]) = 4 /\ Fields[s][1] = x /\ Fields[s][2] = y /\ Fields[s][3] = z
      /\ Fields[s][4] = z
    OBVIOUS
<1>2. \A k \in 1..Len(Fields[s]) : k = 1 \/ k = 2 \/ k = 3 \/ k = 4
    BY <1>1
<1>3. Apart2(y, x) /\ \A w : Apart2(w, z) /\ Apart2(z, w)
    BY ZenonT(60) DEF Apart2
<1> QED BY <1>1, <1>2, <1>3 DEF GoodFields

\* Sequences with the same elements are equal.
LEMMA SameSeq ==
    ASSUME NEW S, NEW s \in Seq(S), NEW t \in Seq(S), Len(s) = Len(t),
           \A i \in 1..Len(s) : s[i] = t[i]
    PROVE  s = t
OBVIOUS

\* Concatenation of short sequences.
LEMMA JoinOneTwo ==
    ASSUME NEW x, NEW y, NEW z
    PROVE  << x >> \o << y, z >> = << x, y, z >>
<1> DEFINE S == {x, y, z}
           a == << x >>
           b == << y, z >>
           c == << x, y, z >>
<1>1. a \in Seq(S) /\ Len(a) = 1 /\ a[1] = x
    OBVIOUS
<1>2. b \in Seq(S) /\ Len(b) = 2 /\ b[1] = y /\ b[2] = z
    OBVIOUS
<1>3. c \in Seq(S) /\ Len(c) = 3 /\ c[1] = x /\ c[2] = y /\ c[3] = z
    OBVIOUS
<1> HIDE DEF a, b, c, S
<1> DEFINE d == a \o b
<1>8. Concat(S, d, a, b)
    BY ZenonT(60), <1>1, <1>2, ConcatFacts
<1> HIDE DEF d
<1>4. d \in Seq(S) /\ Len(d) = 3
    BY <1>1, <1>2, <1>8 DEF Concat
<1>5. d[1] = x /\ d[2] = y /\ d[3] = z
  <2>1. /\ \A j \in 1..Len(a) : d[j] = a[j]
        /\ \A j \in 1..Len(b) : d[Len(a) + j] = b[j]
      BY ZenonT(60), <1>8 DEF Concat
  <2> QED BY <1>1, <1>2, <2>1
<1>6. \A i \in 1..3 : i = 1 \/ i = 2 \/ i = 3
    OBVIOUS
<1>7. d = c
  <2>1. \A i \in 1..Len(d) : d[i] = c[i]
      BY ZenonT(60), <1>3, <1>4, <1>5, <1>6
  <2> QED BY ZenonT(60), <1>3, <1>4, <2>1, SameSeq
<1> QED BY ZenonT(60), <1>7 DEF a, b, c, d

\* Concatenation of short sequences.
LEMMA JoinTwoOne ==
    ASSUME NEW x, NEW y, NEW z
    PROVE  << x, y >> \o << z >> = << x, y, z >>
<1> DEFINE S == {x, y, z}
           a == << x, y >>
           b == << z >>
           c == << x, y, z >>
<1>1. a \in Seq(S) /\ Len(a) = 2 /\ a[1] = x /\ a[2] = y
    OBVIOUS
<1>2. b \in Seq(S) /\ Len(b) = 1 /\ b[1] = z
    OBVIOUS
<1>3. c \in Seq(S) /\ Len(c) = 3 /\ c[1] = x /\ c[2] = y /\ c[3] = z
    OBVIOUS
<1> HIDE DEF a, b, c, S
<1> DEFINE d == a \o b
<1>8. Concat(S, d, a, b)
    BY ZenonT(60), <1>1, <1>2, ConcatFacts
<1> HIDE DEF d
<1>4. d \in Seq(S) /\ Len(d) = 3
    BY <1>1, <1>2, <1>8 DEF Concat
<1>5. d[1] = x /\ d[2] = y /\ d[3] = z
  <2>1. /\ \A j \in 1..Len(a) : d[j] = a[j]
        /\ \A j \in 1..Len(b) : d[Len(a) + j] = b[j]
      BY ZenonT(60), <1>8 DEF Concat
  <2> QED BY <1>1, <1>2, <2>1
<1>6. \A i \in 1..3 : i = 1 \/ i = 2 \/ i = 3
    OBVIOUS
<1>7. d = c
  <2>1. \A i \in 1..Len(d) : d[i] = c[i]
      BY ZenonT(60), <1>3, <1>4, <1>5, <1>6
  <2> QED BY ZenonT(60), <1>3, <1>4, <2>1, SameSeq
<1> QED BY ZenonT(60), <1>7 DEF a, b, c, d

\* The fields of every section: no two of them share a pointer.
LEMMA FieldFacts ==
    ASSUME NEW s \in Sections
    PROVE  GoodFields(s)
<1> Value.kind = "value" /\ \A t : GoodField(t, Value)
    BY ZenonT(60) DEF Value, GoodField, Kinds, Names
<1> \A x : Apart2(x, Value) /\ Apart2(Value, x)
    BY ZenonT(60) DEF Apart2, Value
<1>1. CASE s = "type"
  <2>1. Fields[s] = << Value, Value, Value >>
      BY ZenonT(60), <1>1 DEF Fields, TypeFields
  <2> QED BY ZenonT(60), <2>1, GoodThree
<1>2. CASE s = "import"
  <2>1. Fields[s] = << String("a"), String("b"), Value, Value >>
      BY ZenonT(60), <1>2 DEF Fields, ImportFields
  <2>2. GoodField(s, String("a")) /\ GoodField(s, String("b")) /\ Apart2(String("a"), String("b"))
      BY ZenonT(60), <1>2 DEF GoodField, Apart2, String, Kinds, Names, OwnsLeaf
  <2> QED BY ZenonT(60), <2>1, <2>2, GoodFour
<1>3. CASE s = "function"
  <2>1. Fields[s] = << Value >>
      BY ZenonT(60), <1>3 DEF Fields, FunctionFields
  <2> QED BY ZenonT(60), <2>1, GoodOne
<1>4. CASE s = "table"
  <2>1. Fields[s] = << Value, Value, Value >>
    <3>1. Fields[s] = << Value >> \o << Value, Value >>
        BY ZenonT(60), <1>4 DEF Fields, TableFields, Limits
    <3> QED BY ZenonT(60), <3>1, JoinOneTwo
  <2> QED BY ZenonT(60), <2>1, GoodThree
<1>5. CASE s = "memory"
  <2>1. Fields[s] = << Value, Value >>
      BY ZenonT(60), <1>5 DEF Fields, MemoryFields, Limits
  <2> QED BY ZenonT(60), <2>1, GoodTwo
<1>6. CASE s = "global"
  <2>1. Fields[s] = << Value, Value, Instrs("a") >>
    <3>1. Fields[s] = << Value, Value >> \o << Instrs("a") >>
        BY ZenonT(60), <1>6 DEF Fields, GlobalFields, GlobalType
    <3> QED BY ZenonT(60), <3>1, JoinTwoOne
  <2>2. GoodField(s, Instrs("a"))
      BY ZenonT(60), <1>6 DEF GoodField, Instrs, Kinds, Names, OwnsList
  <2> QED BY ZenonT(60), <2>1, <2>2, GoodThree
<1>7. CASE s = "export"
  <2>1. Fields[s] = << String("a"), Value, Value >>
      BY ZenonT(60), <1>7 DEF Fields, ExportFields
  <2>2. GoodField(s, String("a"))
      BY ZenonT(60), <1>7 DEF GoodField, String, Kinds, Names, OwnsLeaf
  <2> QED BY ZenonT(60), <2>1, <2>2, GoodThree
<1>8. CASE s = "element"
  <2>1. Fields[s] = << Value, Instrs("a"), Vector("b") >>
      BY ZenonT(60), <1>8 DEF Fields, ElementFields
  <2>2. GoodField(s, Instrs("a")) /\ GoodField(s, Vector("b")) /\ Apart2(Instrs("a"), Vector("b"))
      BY ZenonT(60), <1>8 DEF GoodField, Apart2, Instrs, Vector, Kinds, Names, OwnsLeaf, OwnsList
  <2> QED BY ZenonT(60), <2>1, <2>2, GoodThree
<1>9. CASE s = "code"
  <2>1. Fields[s] = << Value, Vector("a"), Instrs("b") >>
      BY ZenonT(60), <1>9 DEF Fields, CodeFields
  <2>2. GoodField(s, Instrs("b")) /\ GoodField(s, Vector("a")) /\ Apart2(Vector("a"), Instrs("b"))
      BY ZenonT(60), <1>9 DEF GoodField, Apart2, Instrs, Vector, Kinds, Names, OwnsLeaf, OwnsList
  <2> QED BY ZenonT(60), <2>1, <2>2, GoodThree
<1>10. CASE s = "data"
  <2>1. Fields[s] = << Value, Instrs("a"), String("b") >>
      BY ZenonT(60), <1>10 DEF Fields, DataFields
  <2>2. GoodField(s, Instrs("a")) /\ GoodField(s, String("b")) /\ Apart2(Instrs("a"), String("b"))
      BY ZenonT(60), <1>10 DEF GoodField, Apart2, Instrs, String, Kinds, Names, OwnsLeaf, OwnsList
  <2> QED BY ZenonT(60), <2>1, <2>2, GoodThree
<1> QED BY ZenonT(60), <1>1, <1>2, <1>3, <1>4, <1>5, <1>6, <1>7, <1>8, <1>9, <1>10, SectionsAre

-----------------------------------------------------------------------------
(***************************************************************************)
(* The element that is being read.                                         *)
(***************************************************************************)
IsSound == Sound(mem, module, Held(mem), Roots(module, instr))

Elts == module[pos.sec].elts

\* What the type says of the section that is read.
LEMMA TypeFacts ==
    ASSUME TypeInv
    PROVE  /\ pos.sec \in Sections /\ module \in [Sections -> Arrays]
           /\ module[pos.sec].n \in Nat /\ module[pos.sec].elts \in Nat
           /\ HeapType(mem, module, next)
BY ZenonT(60) DEF TypeInv, Arrays

\* The element's fields are fields of the section's array.
OwnerInv ==
    /\ Elts \in DOMAIN mem
    /\ \A i \in 1..module[pos.sec].n, f \in Names : At(Elts, i, f) \in PlacesOf(mem)
    /\ Owner \in PlacesOf(mem)
    /\ Owner = At(Elts, pos.i, Field.f)
    /\ Owner.blk = Elts /\ Owner.i = pos.i /\ Owner.f = Field.f
    /\ GoodField(pos.sec, Field)
    /\ \A o \in Roles : HasRole(module, Elts, o) => o = pos.sec

\* The field that is being read is a field of a live cell of the section.
LEMMA OwnerFacts ==
    ASSUME TypeInv, Unread, IsSound
    PROVE  OwnerInv
<1>1. /\ pos.sec \in Sections /\ module[pos.sec].n \in Nat /\ HeapType(mem, module, next)
    BY ZenonT(60), TypeFacts
<1>2. /\ Elts # Null /\ pos.i \in 1..module[pos.sec].n /\ pos.k \in 1..Len(Fields[pos.sec])
    BY ZenonT(60) DEF Unread, Elts
<1>3. Owned(DOMAIN mem, Held(mem), Roots(module, instr))
    BY ZenonT(60) DEF IsSound, Sound
<1>4. /\ DOMAIN Roots(module, instr) = Sections \cup {"instr"}
      /\ \A s \in Sections : Roots(module, instr)[s] = module[s].elts
    BY ZenonT(60), RootsFacts
<1>5. Elts \in DOMAIN mem
    BY <1>1, <1>2, <1>3, <1>4 DEF Owned, Elts
<1>6. Len(mem[Elts]) = module[pos.sec].n /\ IsHeap(mem)
    BY ZenonT(60), <1>1, <1>5 DEF HeapType, Elts
<1>7. DOMAIN mem[Elts] = 1..module[pos.sec].n
    BY ZenonT(60), <1>5, <1>6, HeapBlock
<1>8. \A i \in 1..module[pos.sec].n, f \in Names : At(Elts, i, f) \in PlacesOf(mem)
    BY ZenonT(60), <1>5, <1>7, AtPlace
<1>9. GoodField(pos.sec, Field)
    BY ZenonT(60), <1>1, <1>2, FieldFacts DEF GoodFields, Field
<1>10. Owner = At(Elts, pos.i, Field.f)
    BY ZenonT(60) DEF Owner, Elts
<1>11. Owner.blk = Elts /\ Owner.i = pos.i /\ Owner.f = Field.f
    BY <1>10, AtFields
<1>12. Owner \in PlacesOf(mem)
    BY ZenonT(60), <1>2, <1>8, <1>9, <1>10 DEF GoodField
<1>13. ASSUME NEW o \in Roles, HasRole(module, Elts, o) PROVE o = pos.sec
  <2>1. CASE o = "list"
      BY ZenonT(60), <2>1, <1>1, <1>13 DEF HasRole, Elts
  <2>2. CASE o # "list"
    <3>1. o \in Sections /\ module[o].elts = Elts
        BY ZenonT(60), <2>2, <1>13 DEF HasRole, Roles
    <3>2. \A k, l \in DOMAIN Roots(module, instr) :
             Roots(module, instr)[k] = Roots(module, instr)[l] => k = l \/ Roots(module, instr)[k] = Null
        BY <1>3, ZenonT(60) DEF Owned
    <3>3. Roots(module, instr)[o] = Elts /\ Roots(module, instr)[pos.sec] = Elts
        BY ZenonT(60), <3>1, <1>1, <1>4 DEF Elts
    <3> QED BY ZenonT(60), <3>1, <3>2, <3>3, <1>1, <1>2, <1>4
  <2> QED BY ZenonT(60), <2>1, <2>2
<1> QED BY ZenonT(60), <1>5, <1>8, <1>9, <1>10, <1>11, <1>12, <1>13 DEF OwnerInv

\* A step changes no field that is Null, but the one that is being read.
QuietOn(m, n, x, p, own) ==
    \A q \in PlacesOf(m) : q.blk = x /\ Ptr(m, q) = Null => Ptr(n, q) = Null \/ (own /\ q = p)

\* A step that writes at most the current field leaves the later ones null.
LEMMA StillUnread ==
    ASSUME TypeInv, Unread, OwnerInv, NEW own,
           QuietOn(mem, mem', Elts, Owner, own), own => Field.kind # "value"
    PROVE  /\ \A i \in 1..module[pos.sec].n, f \in Names : i > pos.i => Ptr(mem', At(Elts, i, f)) = Null
           /\ \A k \in pos.k..Len(Fields[pos.sec]) :
                 k # pos.k /\ Fields[pos.sec][k].kind # "value" =>
                    Ptr(mem', At(Elts, pos.i, Fields[pos.sec][k].f)) = Null
<1> DEFINE s == pos.sec
           n == module[s].n
           K == Len(Fields[s])
<1>1. s \in Sections /\ n \in Nat /\ K \in Nat \ {0} /\ pos = [sec |-> pos.sec, i |-> pos.i, k |-> pos.k]
    BY ZenonT(60), FieldFacts DEF TypeInv, GoodFields, Arrays
<1>2. /\ Elts # Null /\ pos.i \in 1..n /\ pos.k \in 1..K
      /\ \A i \in 1..n, f \in Names : i > pos.i => Ptr(mem, At(Elts, i, f)) = Null
    BY ZenonT(60) DEF Unread, Elts
<1>3. \A k \in pos.k..K : Fields[s][k].kind # "value" /\ k # pos.k =>
          Ptr(mem, At(Elts, pos.i, Fields[s][k].f)) = Null
    BY ZenonT(60) DEF Unread, Elts
<1>4. /\ \A i \in 1..n, f \in Names : At(Elts, i, f) \in PlacesOf(mem)
      /\ Owner.i = pos.i /\ Owner.f = Field.f
    BY ZenonT(60) DEF OwnerInv
<1>5. /\ \A k \in 1..K : Fields[s][k].f \in Names
      /\ \A k \in 1..K : k # pos.k /\ Fields[s][k].kind # "value" /\ Field.kind # "value" =>
            Fields[s][k].f # Field.f
    BY ZenonT(60), <1>1, <1>2, FieldFacts DEF GoodFields, GoodField, Apart2, Field
<1>6. ASSUME NEW i \in 1..n, NEW f \in Names, i > pos.i PROVE Ptr(mem', At(Elts, i, f)) = Null
  <2>1. At(Elts, i, f) \in PlacesOf(mem) /\ Ptr(mem, At(Elts, i, f)) = Null
      BY ZenonT(60), <1>2, <1>4, <1>6
  <2>2. At(Elts, i, f).blk = Elts /\ At(Elts, i, f).i = i
      BY AtFields
  <2>3. At(Elts, i, f) # Owner
      BY <2>2, <1>2, <1>4, <1>6
  <2> QED BY ZenonT(60), <2>1, <2>2, <2>3 DEF QuietOn
<1>7. ASSUME NEW k \in pos.k..K, k # pos.k, Fields[s][k].kind # "value"
      PROVE  Ptr(mem', At(Elts, pos.i, Fields[s][k].f)) = Null
  <2> DEFINE q == At(Elts, pos.i, Fields[s][k].f)
  <2>1. k \in 1..K
      BY <1>2, <1>1
  <2>2. q \in PlacesOf(mem) /\ Ptr(mem, q) = Null
      BY ZenonT(60), <2>1, <1>2, <1>3, <1>4, <1>5, <1>7
  <2>3. q.blk = Elts /\ q.f = Fields[s][k].f
      BY AtFields
  <2> HIDE DEF q
  <2>4. own => q # Owner
      BY ZenonT(60), <2>1, <2>3, <1>4, <1>5, <1>7
  <2> QED BY ZenonT(60), <2>2, <2>3, <2>4 DEF QuietOn, q
<1> QED BY ZenonT(60), <1>6, <1>7

\* The loop goes on to the next field or element, which still owns nothing.
LEMMA AdvanceStep ==
    ASSUME TypeInv, PosInv, Unread, OwnerInv, phase \in {"field", "instrs"}, Advance,
           UNCHANGED module, NEW own,
           QuietOn(mem, mem', Elts, Owner, own), own => Field.kind # "value"
    PROVE  /\ PosInv' /\ phase' \in {"field", "id"}
           /\ pos'.sec \in Sections /\ pos' = [sec |-> pos'.sec, i |-> pos'.i, k |-> pos'.k]
<1> DEFINE s == pos.sec
           n == module[s].n
           K == Len(Fields[s])
<1>1. s \in Sections /\ n \in Nat /\ K \in Nat \ {0} /\ pos = [sec |-> pos.sec, i |-> pos.i, k |-> pos.k]
    BY ZenonT(60), FieldFacts DEF TypeInv, GoodFields, Arrays
<1>2. /\ Elts # Null /\ pos.i \in 1..n /\ pos.k \in 1..K
      /\ \A i \in 1..n, f \in Names : i > pos.i => Ptr(mem, At(Elts, i, f)) = Null
    BY ZenonT(60) DEF Unread, Elts
<1>5. \A k \in 1..K : Fields[s][k].f \in Names
    BY ZenonT(60), <1>1, FieldFacts DEF GoodFields, GoodField
<1>6. \A i \in 1..n, f \in Names : i > pos.i => Ptr(mem', At(Elts, i, f)) = Null
    BY ZenonT(60), StillUnread
<1>7. \A k \in pos.k..K : k # pos.k /\ Fields[s][k].kind # "value" =>
          Ptr(mem', At(Elts, pos.i, Fields[s][k].f)) = Null
    BY ZenonT(60), StillUnread
<1>9. CASE pos.k < K
  <2>1. pos' = [pos EXCEPT !.k = @ + 1] /\ phase' = "field"
      BY <1>9 DEF Advance
  <2>2. pos'.sec = s /\ pos'.i = pos.i /\ pos'.k = pos.k + 1 /\ pos' = [sec |-> pos'.sec, i |-> pos'.i, k |-> pos'.k]
      BY ZenonT(60), <1>1, <2>1
  <2>3. pos'.k \in 1..K
      BY <1>1, <1>2, <1>9, <2>2
  <2>4. \A k \in (pos.k + 1)..K : k \in pos.k..K /\ k # pos.k
      BY <1>1, <1>2
  <2>5. Unread'
    <3>1. module'[pos'.sec].elts = Elts /\ module'[pos'.sec].n = n /\ Elts' = Elts
        BY ZenonT(60), <2>2 DEF Elts
    <3>2. \A i \in 1..n, f \in Names : i > pos'.i => Ptr(mem', At(Elts, i, f)) = Null
        BY ZenonT(60), <1>6, <2>2
    <3>3. \A k \in pos'.k..K : Fields[s][k].kind # "value" =>
              Ptr(mem', At(Elts, pos'.i, Fields[s][k].f)) = Null
        BY ZenonT(60), <1>7, <2>2, <2>4
    <3> QED BY ZenonT(60), <1>2, <2>2, <2>3, <3>1, <3>2, <3>3 DEF Unread
  <2> QED BY ZenonT(60), <1>1, <2>1, <2>2, <2>5 DEF PosInv
<1>10. CASE pos.k = K /\ pos.i < n
  <2>1. pos' = [pos EXCEPT !.i = @ + 1, !.k = 1] /\ phase' = "field"
      BY <1>10, <1>1 DEF Advance
  <2>2. pos'.sec = s /\ pos'.i = pos.i + 1 /\ pos'.k = 1 /\ pos' = [sec |-> pos'.sec, i |-> pos'.i, k |-> pos'.k]
      BY ZenonT(60), <1>1, <2>1
  <2>3. pos'.k \in 1..K /\ pos'.i \in 1..n /\ pos'.i > pos.i
      BY <1>1, <1>2, <1>10, <2>2
  <2>4. \A i \in 1..n : i > pos'.i => i > pos.i
      BY <1>2, <2>2
  <2>5. Unread'
    <3>1. module'[pos'.sec].elts = Elts /\ module'[pos'.sec].n = n /\ Elts' = Elts
        BY ZenonT(60), <2>2 DEF Elts
    <3>2. \A i \in 1..n, f \in Names : i > pos'.i => Ptr(mem', At(Elts, i, f)) = Null
        BY ZenonT(60), <1>6, <2>4
    <3>3. \A k \in pos'.k..K : Fields[s][k].kind # "value" =>
              Ptr(mem', At(Elts, pos'.i, Fields[s][k].f)) = Null
        BY ZenonT(60), <1>5, <1>6, <2>2, <2>3
    <3> QED BY ZenonT(60), <1>2, <2>2, <2>3, <3>1, <3>2, <3>3 DEF Unread
  <2> QED BY ZenonT(60), <1>1, <2>1, <2>2, <2>5 DEF PosInv
<1>11. CASE ~(pos.k < K) /\ ~(pos.k = K /\ pos.i < n)
  <2>1. pos' = pos /\ phase' = "id"
      BY ZenonT(60), <1>11 DEF Advance
  <2> QED BY ZenonT(60), <1>1, <2>1 DEF PosInv
<1> QED BY ZenonT(60), <1>9, <1>10, <1>11

-----------------------------------------------------------------------------
(***************************************************************************)
(* The steps of the section readers.                                       *)
(***************************************************************************)
Between == phase \notin {"instrs", "freeing", "freed", "undefined"}

NoInstr == instr.op = "none" /\ instr.a = Null /\ instr.b = Null

\* The parts of the invariant while the module is read.
LEMMA ReadFacts ==
    ASSUME Inv, Reading
    PROVE  /\ TypeInv /\ holds = TRUE /\ PosInv /\ InstrInv /\ IsSound
           /\ phase = "instrs" => ContextInv
           /\ instr.op = "none" => NoInstr
           /\ phase # "instrs" => NoInstr
BY ZenonT(60) DEF Inv, ReadInv, InstrInv, IsSound, NoInstr, TypeInv, AssertionsHold

\* The invariant, from its parts, between two sections.
LEMMA ReadDone ==
    ASSUME TypeInv', holds', PosInv', IsSound', NoInstr', Between'
    PROVE  Inv'
<1>1. InstrInv'
    BY ZenonT(60) DEF InstrInv, NoInstr
<1>2. ReadInv'
    BY ZenonT(60), <1>1 DEF ReadInv, Between, IsSound
<1> QED BY ZenonT(60), <1>2 DEF Inv, Between, AssertionsHold, Reading

\* Steps that change nothing but the position in the input.
LEMMA PlainStep ==
    ASSUME Inv, Between, phase' \in {"id", "parsed"},
           UNCHANGED << input, module, mem, next, pos, ctx, stack, instr, work, holds >>
    PROVE  Inv'
<1>1. TypeInv /\ holds = TRUE /\ PosInv /\ IsSound /\ NoInstr
    BY ZenonT(60), ReadFacts DEF Between, Reading
<1>2. TypeInv'
    BY ZenonT(60), <1>1 DEF TypeInv
<1>3. IsSound' /\ NoInstr'
    BY ZenonT(60), <1>1 DEF IsSound, NoInstr
<1>4. PosInv'
    BY ZenonT(60), <1>1 DEF PosInv
<1>5. holds' /\ Between'
    BY ZenonT(60), <1>1 DEF Between
<1> QED BY ZenonT(60), <1>2, <1>3, <1>4, <1>5, ReadDone

\* A section id was read.
LEMMA ReadIdStep ==
    ASSUME Inv, NEW id \in input.ids, ReadId(id)
    PROVE  Inv'
<1>1. phase = "id" /\ Between
    BY ZenonT(60) DEF ReadId, Between
<1>2. TypeInv /\ holds = TRUE /\ PosInv /\ IsSound /\ NoInstr
    BY ZenonT(60), <1>1, ReadFacts DEF Between, Reading
<1>3. id \in Sections \cup {"custom", "start"}
    BY ZenonT(60), <1>2, InputsAssumption DEF TypeInv
<1>4. "custom" \notin Sections /\ "start" \notin Sections
    BY ZenonT(60), SectionsAre
<1>5. UNCHANGED << input, module, mem, next, ctx, stack, instr, work, holds >>
    BY ZenonT(60) DEF ReadId
<1>7. IF id \in Sections THEN phase' = "count" ELSE phase' \in {"custom", "start"}
    BY ZenonT(60), <1>3 DEF ReadId
<1>8. pos' = IF id \in Sections THEN [sec |-> id, i |-> 1, k |-> 1] ELSE pos
    BY ZenonT(60) DEF ReadId
<1>9. pos'.sec \in Sections /\ pos' = [sec |-> pos'.sec, i |-> pos'.i, k |-> pos'.k]
    BY ZenonT(60), <1>2, <1>8 DEF TypeInv
<1>10. TypeInv'
    BY ZenonT(60), <1>2, <1>5, <1>9 DEF TypeInv
<1>11. IsSound' /\ NoInstr' /\ holds'
    BY ZenonT(60), <1>2, <1>5 DEF IsSound, NoInstr
<1>12. Between'
    BY ZenonT(60), <1>7 DEF Between
<1>13. PosInv'
    BY ZenonT(60), <1>7, <1>8 DEF PosInv
<1> QED BY ZenonT(60), <1>10, <1>11, <1>12, <1>13, ReadDone

\* The roots depend on the instruction only through what it owns.
LEMMA RootsSame ==
    ASSUME NEW md, NEW ins, NEW new, new.a = ins.a
    PROVE  Roots(md, new) = Roots(md, ins)
BY ZenonT(60) DEF Roots

\* Only the count of a section without an array changes.
SameElts(md, me) ==
    /\ \A s \in Sections : me[s].elts = md[s].elts
    /\ \A s \in Sections : me[s] = md[s] \/ md[s].elts = Null

\* Setting the count of a section that has no array changes nothing.
LEMMA SameEltsFacts ==
    ASSUME NEW m, NEW md, NEW me, NEW ins, NEW b, HeapType(m, md, b),
           Sound(m, md, Held(m), Roots(md, ins)), SameElts(md, me)
    PROVE  HeapType(m, me, b) /\ Sound(m, me, Held(m), Roots(me, ins))
<1>1. \A s \in Sections : me[s].elts = md[s].elts
    BY ZenonT(60) DEF SameElts
<1>2. Roots(me, ins) = Roots(md, ins)
    BY ZenonT(60), <1>1 DEF Roots
<1>3. Null \notin DOMAIN m
    BY ZenonT(60), HeapFacts
<1>4. \A s \in Sections : me[s].elts \in DOMAIN m => Len(m[me[s].elts]) = me[s].n
    BY ZenonT(60), <1>1, <1>3 DEF SameElts, HeapType
<1>5. HeapType(m, me, b)
    BY ZenonT(60), <1>4 DEF HeapType
<1>6. \A x, o : o \in Roles => (HasRole(me, x, o) <=> HasRole(md, x, o))
    BY ZenonT(60), <1>1 DEF HasRole, Roles
<1>7. \A p, q : ShapedAt(m, md, p, q) => ShapedAt(m, me, p, q)
    BY <1>1, <1>6 DEF ShapedAt
<1>8. Shaped(m, me, Held(m))
    BY ZenonT(60), <1>7 DEF Sound, Shaped
<1> QED BY ZenonT(60), <1>2, <1>5, <1>8 DEF Sound

\* A reader fails before, between or inside sections.
LEMMA ReadFailsStep ==
    ASSUME Inv, phase \in {"header", "id", "custom", "start", "field"}, Fail
    PROVE  Inv'
<1>1. TypeInv /\ holds = TRUE /\ PosInv /\ IsSound /\ NoInstr
    BY ZenonT(60), ReadFacts DEF Reading
<1>2. UNCHANGED << input, module, next, pos, ctx, stack, work, holds >> /\ instr' = Zero /\ phase' = "failed"
    BY ZenonT(60) DEF Fail, FailWith
<1>3. mem' = mem
    BY ZenonT(60), <1>1 DEF Fail, FailWith, NoInstr
<1>4. Zero \in Cells /\ Zero.op = "none" /\ Zero.a = Null /\ Zero.b = Null
    BY ZenonT(60), ZeroCell
<1>5. TypeInv'
    BY ZenonT(60), <1>1, <1>2, <1>3, <1>4 DEF TypeInv
<1>6. Roots(module, Zero) = Roots(module, instr)
    BY ZenonT(60), <1>1, <1>4, RootsSame DEF NoInstr
<1>7. IsSound' /\ NoInstr' /\ holds' /\ Between'
    BY <1>1, <1>2, <1>3, <1>4, <1>6 DEF IsSound, NoInstr, Between
<1>8. PosInv'
    BY ZenonT(60), <1>1, <1>2 DEF PosInv
<1> QED BY <1>5, <1>7, <1>8, ReadDone

Good == WellFormed(mem, module, instr, next)

\* The heap of the parser is well formed.
LEMMA GoodFacts ==
    ASSUME TypeInv, IsSound
    PROVE  Good
BY ZenonT(60) DEF TypeInv, IsSound, Good, WellFormed

\* What TypeInv says beside the heap and the place where the parser is.
TypeRest ==
    /\ input \in Inputs
    /\ ctx \in Contexts /\ stack \in Seq(Contexts) /\ work \in Seq(Items)
PosType == pos.sec \in Sections /\ pos = [sec |-> pos.sec, i |-> pos.i, k |-> pos.k]

\* The type, split into what the steps leave alone and what they change.
LEMMA TypeParts ==
    ASSUME TypeInv
    PROVE  TypeRest /\ PosType /\ module \in [Sections -> Arrays] /\ instr \in Cells
BY ZenonT(60) DEF TypeInv, TypeRest, PosType

\* A step between the instruction lists: the next state is as it should be.
LEMMA BetweenDone ==
    ASSUME TypeRest', PosType', module' \in [Sections -> Arrays], instr' \in Cells,
           Good', holds', PosInv', NoInstr', Between'
    PROVE  Inv'
<1>1. HeapType(mem, module, next)' /\ IsSound'
    BY ZenonT(60) DEF Good, WellFormed, IsSound
<1>2. TypeInv'
    BY ZenonT(60), <1>1 DEF TypeInv, TypeRest, PosType
<1> QED BY ZenonT(60), <1>1, <1>2, ReadDone

IsSet(md, me, s, k, x) == me = [md EXCEPT ![s] = [n |-> k, elts |-> x]]
HasSet(md, me, s, k, x) ==
    /\ me \in [Sections -> Arrays] /\ me[s].n = k /\ me[s].elts = x
    /\ \A t \in Sections : t # s => me[t] = md[t]

\* An assignment to the count and the array of one section.
LEMMA SetSection ==
    ASSUME NEW md \in [Sections -> Arrays], NEW s \in Sections, NEW k \in Nat, NEW x \in Nat, NEW me,
           IsSet(md, me, s, k, x)
    PROVE  HasSet(md, me, s, k, x)
<1>1. [n |-> k, elts |-> x] \in Arrays
    BY ZenonT(60) DEF Arrays
<1> QED BY ZenonT(60), <1>1 DEF IsSet, HasSet

\* What holds when the count of a section is read.
LEMMA CountPhase ==
    ASSUME Inv, phase = "count", NEW n \in input.counts \cup {0}, ~twice', twice' = Again
    PROVE  /\ TypeRest /\ PosType /\ module \in [Sections -> Arrays] /\ instr \in Cells /\ Good
           /\ PosInv /\ NoInstr /\ holds = TRUE /\ IsSound
           /\ n \in Nat /\ module[pos.sec].elts = Null /\ pos.i = 1 /\ pos.k = 1
<1>1. TypeInv /\ holds = TRUE /\ PosInv /\ IsSound /\ NoInstr
    BY ZenonT(60), ReadFacts DEF Reading
<1>2. n \in Nat
  <2>1. 0 \in Nat
      OBVIOUS
  <2> QED BY ZenonT(60), <1>1, <2>1, InputsAssumption DEF TypeInv
<1>3. module[pos.sec].elts = Null
    BY ZenonT(60) DEF Again
<1> QED BY ZenonT(60), <1>1, <1>2, <1>3, TypeParts, GoodFacts DEF PosInv

\* The array of a section was allocated.
LEMMA ReadCountStep ==
    ASSUME ArrayLaw, Inv, NEW n \in input.counts, ReadCount(n), ~twice'
    PROVE  Inv'
<1> DEFINE s == pos.sec
<1>1. phase = "count" /\ twice' = Again /\ UNCHANGED << input, pos, ctx, stack, instr, work, holds >>
    BY ZenonT(60) DEF ReadCount
<1>2. /\ TypeRest /\ PosType /\ module \in [Sections -> Arrays] /\ instr \in Cells /\ Good
      /\ PosInv /\ NoInstr /\ holds = TRUE /\ IsSound
      /\ n \in Nat /\ module[s].elts = Null /\ pos.i = 1 /\ pos.k = 1
    BY ZenonT(60), <1>1, CountPhase
<1>3. TypeRest' /\ PosType' /\ instr' \in Cells /\ NoInstr' /\ holds'
    BY ZenonT(60), <1>1, <1>2 DEF TypeRest, PosType, NoInstr
<1>4. s \in Sections /\ HeapType(mem, module, next) /\ next \in Nat /\ next # Null /\ Null \in Nat
    BY <1>2, HeapFacts DEF PosType, Good, WellFormed, Null
<1>6. CASE n = 0
  <2>1. /\ module' = [module EXCEPT ![s] = [n |-> n, elts |-> Null]] /\ mem' = mem /\ next' = next
        /\ phase' = "id"
      BY <1>2, <1>4, <1>6 DEF ReadCount
  <2>2. /\ module' \in [Sections -> Arrays] /\ module'[s].elts = Null
        /\ \A t \in Sections : t # s => module'[t] = module[t]
    <3>1. IsSet(module, module', s, n, Null)
        BY ZenonT(60), <2>1 DEF IsSet
    <3>2. HasSet(module, module', s, n, Null)
        BY ZenonT(60), <3>1, <1>2, <1>4, SetSection
    <3> QED BY ZenonT(60), <3>2 DEF HasSet
  <2>3. SameElts(module, module')
      BY ZenonT(60), <2>2, <1>2 DEF SameElts
  <2>4. HeapType(mem, module', next) /\ Sound(mem, module', Held(mem), Roots(module', instr))
      BY ZenonT(60), <2>3, <1>2, <1>4, SameEltsFacts DEF IsSound
  <2>5. Good'
      BY ZenonT(60), <2>1, <2>4, <1>1 DEF Good, WellFormed
  <2>6. PosInv' /\ Between'
      BY ZenonT(60), <2>1 DEF PosInv, Between
  <2> QED BY ZenonT(60), <1>3, <2>2, <2>5, <2>6, BetweenDone
<1>7. CASE n # 0
  <2> DEFINE c == [i \in 1..n |-> Zero]
  <2>1. /\ module' = [module EXCEPT ![s] = [n |-> n, elts |-> next]] /\ mem' = Extend(mem, next, c)
        /\ next' = next + 1 /\ phase' = "field"
      BY ZenonT(60), <1>7 DEF ReadCount
  <2>2. /\ module' \in [Sections -> Arrays] /\ module'[s].elts = next /\ module'[s].n = n
        /\ \A t \in Sections : t # s => module'[t] = module[t]
    <3>1. IsSet(module, module', s, n, next)
        BY ZenonT(60), <2>1 DEF IsSet
    <3>2. HasSet(module, module', s, n, next)
        BY ZenonT(60), <3>1, <1>2, <1>4, SetSection
    <3> QED BY ZenonT(60), <3>2 DEF HasSet
  <2>3. NewSection(module, module', s, n, next)
      BY ZenonT(60), <2>2, <1>2, <1>4 DEF NewSection
  <2>4. NullCells(c, n)
    <3>1. c \in Seq(Cells) /\ Len(c) = n /\ \A i \in 1..n : c[i] = Zero
        BY <1>2, ZeroCell
    <3> QED BY ZenonT(60), <3>1, <1>2, ZeroCell DEF NullCells
  <2> HIDE DEF c
  <2>5. /\ WellFormed(Extend(mem, next, c), module', instr, next + 1)
        /\ \A i \in 1..n, f \in Names : Ptr(Extend(mem, next, c), At(next, i, f)) = Null
    <3>1. ArrayMade(Extend(mem, next, c), module', instr, next, n)
        BY ZenonT(60), <2>3, <2>4, <1>2 DEF ArrayLaw, Good
    <3> QED BY ZenonT(60), <3>1 DEF ArrayMade
  <2>6. Good'
      BY ZenonT(60), <2>1, <2>5, <1>1 DEF Good
  <2>7. GoodFields(s) /\ 1 \in 1..n /\ 1 \in 1..Len(Fields[s])
    <3>1. GoodFields(s)
        BY ZenonT(60), <1>4, FieldFacts
    <3>2. Len(Fields[s]) \in Nat \ {0}
        BY ZenonT(60), <3>1 DEF GoodFields
    <3>3. 1 \in 1..n /\ 1 \in 1..Len(Fields[s])
        BY <3>2, <1>2, <1>7
    <3> QED BY ZenonT(60), <3>1, <3>3
  <2>8. /\ \A i \in 1..n, f \in Names : Ptr(mem', At(next, i, f)) = Null
        /\ \A k \in 1..Len(Fields[s]) : Ptr(mem', At(next, 1, Fields[s][k].f)) = Null
      BY ZenonT(60), <2>1, <2>5, <2>7 DEF GoodFields, GoodField
  <2>9. Unread'
    <3>1. pos' = pos /\ module'[pos.sec].elts = next /\ module'[pos.sec].n = n
        BY ZenonT(60), <2>2, <1>1
    <3>2. next # Null /\ pos.i = 1 /\ pos.k = 1
        BY ZenonT(60), <1>2, <1>4
    <3> QED BY ZenonT(60), <3>1, <3>2, <2>7, <2>8 DEF Unread
  <2>10. PosInv'
      BY ZenonT(60), <2>1, <2>9 DEF PosInv
  <2>11. Between'
      BY ZenonT(60), <2>1 DEF Between
  <2> QED BY ZenonT(60), <1>3, <2>2, <2>6, <2>10, <2>11, BetweenDone
<1> QED BY ZenonT(60), <1>6, <1>7

\* The count of a section that has no array changes, and the array is missing.
LEMMA CountOnly ==
    ASSUME Inv, phase = "count", NEW n \in input.counts \cup {0}, ~twice', twice' = Again,
           module' = [module EXCEPT ![pos.sec] = [n |-> n, elts |-> Null]],
           phase' \in {"failed", "undefined"}, phase' = "undefined" => pos.sec = "import",
           UNCHANGED << input, mem, next, pos, ctx, stack, instr, work, holds >>
    PROVE  Inv'
<1> DEFINE s == pos.sec
<1>1. /\ TypeRest /\ PosType /\ module \in [Sections -> Arrays] /\ instr \in Cells /\ Good
      /\ PosInv /\ NoInstr /\ holds = TRUE /\ IsSound /\ n \in Nat /\ module[s].elts = Null
    BY ZenonT(60), CountPhase
<1>2. TypeRest' /\ PosType' /\ instr' \in Cells /\ NoInstr' /\ holds'
    BY ZenonT(60), <1>1 DEF TypeRest, PosType, NoInstr
<1>3. s \in Sections
    BY ZenonT(60), <1>1 DEF PosType
<1>4. /\ module' \in [Sections -> Arrays] /\ module'[s].elts = Null
      /\ \A t \in Sections : t # s => module'[t] = module[t]
  <2>1. Null \in Nat
      BY DEF Null
  <2>2. IsSet(module, module', s, n, Null)
      BY ZenonT(60) DEF IsSet
  <2>3. HasSet(module, module', s, n, Null)
      BY ZenonT(60), <2>1, <2>2, <1>1, <1>3, SetSection
  <2> QED BY ZenonT(60), <2>3 DEF HasSet
<1>5. SameElts(module, module')
    BY ZenonT(60), <1>1, <1>4 DEF SameElts
<1>6. HeapType(mem, module', next) /\ Sound(mem, module', Held(mem), Roots(module', instr))
    BY ZenonT(60), <1>5, <1>1, SameEltsFacts DEF Good, WellFormed
<1>7. Good'
    BY ZenonT(60), <1>6 DEF Good, WellFormed
<1>8. CASE phase' = "failed"
  <2>1. PosInv' /\ Between'
      BY ZenonT(60), <1>8 DEF PosInv, Between
  <2> QED BY ZenonT(60), <2>1, <1>2, <1>4, <1>7, BetweenDone
<1>9. CASE phase' = "undefined"
  <2>1. TypeInv'
      BY ZenonT(60), <1>2, <1>4, <1>7 DEF TypeInv, TypeRest, PosType, Good, WellFormed
  <2>2. pos'.sec = "import" /\ module'[pos'.sec].elts = Null
      BY ZenonT(60), <1>4, <1>9
  <2>3. AssertionsHold'
      BY ZenonT(60), <1>2, <2>2 DEF AssertionsHold
  <2> QED BY ZenonT(60), <1>9, <2>1, <2>3 DEF Inv, Reading
<1> QED BY ZenonT(60), <1>8, <1>9

\* The array of a section could not be allocated.
LEMMA ReadCountNoMemoryStep ==
    ASSUME Inv, NEW n \in input.counts, ReadCountNoMemory(n), ~twice'
    PROVE  Inv'
BY ZenonT(60), CountOnly DEF ReadCountNoMemory

\* The count of a section could not be read.
LEMMA ReadCountFailsStep ==
    ASSUME Inv, NEW n \in input.counts \cup {0}, ReadCountFails(n), ~twice'
    PROVE  Inv'
<1> DEFINE s == pos.sec
<1>1. /\ phase = "count" /\ phase' = "failed" /\ module' = [module EXCEPT ![s].n = n]
      /\ twice' = Again /\ UNCHANGED << input, mem, next, pos, ctx, stack, instr, work, holds >>
    BY ZenonT(60) DEF ReadCountFails
<1>2. PosType /\ module \in [Sections -> Arrays] /\ module[s].elts = Null
    BY ZenonT(60), <1>1, CountPhase
<1>3. s \in Sections /\ module[s] \in Arrays
    BY ZenonT(60), <1>2 DEF PosType
<1>4. module[s] = [n |-> module[s].n, elts |-> module[s].elts]
    BY ZenonT(60), <1>3 DEF Arrays
<1>5. [module[s] EXCEPT !.n = n] = [n |-> n, elts |-> Null]
    BY <1>4, <1>2
<1>6. module' = [module EXCEPT ![s] = [n |-> n, elts |-> Null]]
    BY ZenonT(60), <1>1, <1>2, <1>3, <1>5
<1> QED BY ZenonT(60), <1>1, <1>6, CountOnly

\* What the readers of an element's fields know.
FieldInv ==
    /\ TypeInv /\ TypeRest /\ PosType /\ module \in [Sections -> Arrays] /\ instr \in Cells
    /\ holds = TRUE /\ PosInv /\ Unread /\ OwnerInv /\ Good

\* What holds when a field is read.
LEMMA FieldInvFacts ==
    ASSUME Inv, phase \in {"field", "instrs"}
    PROVE  FieldInv /\ IsSound /\ (phase = "field" => NoInstr)
<1>1. TypeInv /\ holds = TRUE /\ PosInv /\ IsSound /\ (phase = "field" => NoInstr)
    BY ZenonT(60), ReadFacts DEF Reading
<1>2. Unread
    BY ZenonT(60), <1>1 DEF PosInv
<1>3. OwnerInv
    BY ZenonT(60), <1>1, <1>2, OwnerFacts
<1>4. TypeRest /\ PosType /\ module \in [Sections -> Arrays] /\ instr \in Cells /\ Good
    BY ZenonT(60), <1>1, TypeParts, GoodFacts
<1> QED BY ZenonT(60), <1>1, <1>2, <1>3, <1>4 DEF FieldInv

\* The readers go on after a field.
LEMMA FieldDone ==
    ASSUME FieldInv, NoInstr, phase \in {"field", "instrs"}, Advance,
           UNCHANGED << input, module, instr, work, holds >>,
           ctx' \in Contexts, stack' \in Seq(Contexts),
           Good', NEW own, QuietOn(mem, mem', Elts, Owner, own), own => Field.kind # "value"
    PROVE  Inv'
<1>1. /\ PosInv' /\ phase' \in {"field", "id"}
      /\ pos'.sec \in Sections /\ pos' = [sec |-> pos'.sec, i |-> pos'.i, k |-> pos'.k]
    BY ZenonT(60), AdvanceStep DEF FieldInv
<1>2. TypeRest' /\ module' \in [Sections -> Arrays] /\ instr' \in Cells /\ holds' /\ NoInstr'
    BY ZenonT(60) DEF FieldInv, TypeRest, NoInstr
<1>3. PosType' /\ Between'
    BY ZenonT(60), <1>1 DEF PosType, Between
<1> QED BY ZenonT(60), <1>1, <1>2, <1>3, BetweenDone

\* A field without a pointer was read.
LEMMA ReadValueStep ==
    ASSUME Inv, ReadValue
    PROVE  Inv'
<1>1. /\ phase = "field" /\ Advance
      /\ UNCHANGED << input, module, mem, next, ctx, stack, instr, work, holds >>
    BY ZenonT(60) DEF ReadValue
<1>2. FieldInv /\ NoInstr
    BY ZenonT(60), <1>1, FieldInvFacts
<1>3. Good' /\ QuietOn(mem, mem', Elts, Owner, FALSE)
    BY ZenonT(60), <1>1, <1>2 DEF Good, QuietOn, FieldInv
<1>4. ctx' \in Contexts /\ stack' \in Seq(Contexts)
    BY ZenonT(60), <1>1, <1>2 DEF FieldInv, TypeRest
<1> QED BY ZenonT(60), <1>1, <1>2, <1>3, <1>4, FieldDone

\* The field that is read next owns nothing.
LEMMA OwnerNull ==
    ASSUME FieldInv, phase = "field", Field.kind # "value"
    PROVE  Ptr(mem, Owner) = Null
<1>1. GoodFields(pos.sec) /\ pos.k \in 1..Len(Fields[pos.sec]) /\ Owner = At(Elts, pos.i, Field.f)
    BY ZenonT(60), FieldFacts DEF FieldInv, PosType, Unread, OwnerInv
<1>2. pos.k \in pos.k..Len(Fields[pos.sec])
    BY <1>1 DEF GoodFields
<1>3. Fields[pos.sec][pos.k] = Field /\ phase # "instrs"
    BY ZenonT(60) DEF Field
<1> QED BY ZenonT(60), <1>1, <1>2, <1>3 DEF FieldInv, Unread, Elts

\* A string or vector is stored in the field that is being read.
LEMMA LeafStep ==
    ASSUME LeafLaw, FieldInv, phase = "field", Field.kind \in {"string", "vector"},
           mem' = StoreLeaf(mem, Owner, next), next' = next + 1, UNCHANGED << module, instr >>
    PROVE  Good' /\ QuietOn(mem, mem', Elts, Owner, TRUE)
<1>1. /\ Owner \in PlacesOf(mem) /\ Owner = At(Elts, pos.i, Field.f) /\ Owner.blk = Elts
      /\ Owner.f = Field.f /\ GoodField(pos.sec, Field)
      /\ \A o \in Roles : HasRole(module, Elts, o) => o = pos.sec
    BY ZenonT(60) DEF FieldInv, OwnerInv
<1>2. Ptr(mem, Owner) = Null
  <2>1. Field.kind # "value"
      BY ZenonT(60)
  <2> QED BY ZenonT(60), <2>1, OwnerNull
<1>3. \A o \in Roles : HasRole(module, Owner.blk, o) => OwnsLeaf(o, mem[Owner.blk][Owner.i], Owner.f)
  <2>1. \A cell : OwnsLeaf(pos.sec, cell, Field.f)
      BY ZenonT(60), <1>1 DEF GoodField
  <2> QED BY ZenonT(60), <2>1, <1>1
<1>4. StorePre(mem, module, Owner)
    BY ZenonT(60), <1>1, <1>2, <1>3 DEF StorePre
<1>5. LeafMade(mem, mem', module, instr, Owner, next)
    BY ZenonT(60), <1>4 DEF LeafLaw, FieldInv, Good
<1>6. Good'
    BY ZenonT(60), <1>5 DEF LeafMade, Good
<1>7. Held(mem') = [Held(mem) EXCEPT ![Owner] = next]
    BY ZenonT(60), <1>5 DEF LeafMade
<1>8. ASSUME NEW q \in PlacesOf(mem), q # Owner PROVE Ptr(mem', q) = Ptr(mem, q)
  <2>1. q \in DOMAIN Held(mem) /\ Held(mem)[q] = Ptr(mem, q)
      BY ZenonT(60), HeldFacts
  <2>2. q \in DOMAIN Held(mem') /\ Held(mem')[q] = Held(mem)[q]
      BY ZenonT(60), <1>7, <1>8, <2>1
  <2>3. q \in PlacesOf(mem')
      BY ZenonT(60), <2>2 DEF Held
  <2> QED BY ZenonT(60), <2>1, <2>2, <2>3, HeldFacts
<1>9. QuietOn(mem, mem', Elts, Owner, TRUE)
    BY ZenonT(60), <1>8 DEF QuietOn
<1> QED BY ZenonT(60), <1>6, <1>9

\* A string was read into its field.
LEMMA ReadStringStep ==
    ASSUME LeafLaw, Inv, ReadString
    PROVE  Inv'
<1>1. /\ phase = "field" /\ Field.kind = "string" /\ Advance
      /\ mem' = StoreLeaf(mem, Owner, next) /\ next' = next + 1
      /\ UNCHANGED << input, module, ctx, stack, instr, work, holds >>
    BY ZenonT(60) DEF ReadString, StoreLeaf
<1>2. FieldInv /\ NoInstr
    BY ZenonT(60), <1>1, FieldInvFacts
<1>3. Good' /\ QuietOn(mem, mem', Elts, Owner, TRUE)
    BY ZenonT(60), <1>1, <1>2, LeafStep
<1>4. ctx' \in Contexts /\ stack' \in Seq(Contexts)
    BY ZenonT(60), <1>1, <1>2 DEF FieldInv, TypeRest
<1>5. Field.kind # "value"
    BY ZenonT(60), <1>1
<1> QED BY ZenonT(60), <1>1, <1>2, <1>3, <1>4, <1>5, FieldDone

\* A vector was allocated for its field, and read or not.
LEMMA ReadVectorStep ==
    ASSUME LeafLaw, Inv, NEW n \in 0..1, NEW ok \in BOOLEAN, ReadVector(n, ok)
    PROVE  Inv'
<1>1. /\ phase = "field" /\ Field.kind = "vector" /\ (n = 0 => ok)
      /\ IF ok THEN Advance ELSE phase' = "failed" /\ pos' = pos
      /\ UNCHANGED << input, module, ctx, stack, instr, work, holds >>
    BY ZenonT(60) DEF ReadVector
<1>2. FieldInv /\ NoInstr
    BY ZenonT(60), <1>1, FieldInvFacts
<1>3. TypeRest' /\ module' \in [Sections -> Arrays] /\ instr' \in Cells /\ holds' /\ NoInstr'
    BY ZenonT(60), <1>1, <1>2 DEF FieldInv, TypeRest, NoInstr
<1>4. Field.kind # "value" /\ Field.kind \in {"string", "vector"}
    BY ZenonT(60), <1>1
<1>5. CASE n = 0
  <2>1. mem' = mem /\ next' = next /\ Advance
      BY ZenonT(60), <1>1, <1>5 DEF ReadVector
  <2>2. Good' /\ QuietOn(mem, mem', Elts, Owner, FALSE)
      BY ZenonT(60), <2>1, <1>1, <1>2 DEF Good, QuietOn, FieldInv
  <2> QED BY ZenonT(60), <1>1, <1>2, <1>3, <2>1, <2>2, FieldDone DEF TypeRest
<1>6. CASE n # 0
  <2>1. mem' = StoreLeaf(mem, Owner, next) /\ next' = next + 1
      BY ZenonT(60), <1>6 DEF ReadVector, StoreLeaf
  <2>2. Good' /\ QuietOn(mem, mem', Elts, Owner, TRUE)
      BY ZenonT(60), <2>1, <1>1, <1>2, <1>4, LeafStep
  <2>3. CASE ok
      BY ZenonT(60), <1>1, <1>2, <1>3, <1>4, <2>2, <2>3, FieldDone DEF TypeRest
  <2>4. CASE ~ok
    <3>1. phase' = "failed" /\ pos' = pos
        BY ZenonT(60), <1>1, <2>4
    <3>2. PosInv' /\ PosType' /\ Between'
        BY ZenonT(60), <1>1, <1>2, <3>1 DEF PosInv, PosType, Between, FieldInv
    <3> QED BY ZenonT(60), <1>3, <2>2, <3>2, BetweenDone
  <2> QED BY ZenonT(60), <2>3, <2>4
<1> QED BY ZenonT(60), <1>5, <1>6

-----------------------------------------------------------------------------
(***************************************************************************)
(* The way down to the list that is being read.                            *)
(***************************************************************************)
\* C is the contexts on the stack st, then c.
IsPath(C, st, c) ==
    Len(st) \in Nat /\ C[Len(st) + 1] = c /\ \A k \in 1..Len(st) : C[k] = st[k]

\* The path of a stack.
LEMMA PathFacts ==
    ASSUME NEW st \in Seq(Contexts), NEW c
    PROVE  IsPath(PathOf(st, c), st, c)
<1>1. Len(st) \in Nat
    OBVIOUS
<1> QED BY <1>1 DEF PathOf, IsPath

\* The contexts are places in different live blocks.
LEMMA PathPlace ==
    ASSUME NEW m, NEW md, NEW b, HeapType(m, md, b), NEW C, NEW K \in Nat \ {0}, OnPath(m, C, K),
           NEW k \in 1..K
    PROVE  /\ C[k].p \in PlacesOf(m) /\ C[k].p.blk \in DOMAIN m /\ C[k].p.i \in DOMAIN m[C[k].p.blk]
           /\ C[k].p.f \in Names /\ C[k].p.blk \in Nat /\ C[k].p.blk < b
           /\ C[k].p = At(C[k].p.blk, C[k].p.i, C[k].p.f)
           /\ C[k].p.blk # Ptr(m, C[K].p)
           /\ C[k].p.blk = C[K].p.blk => k = K
<1>1. \A j \in 1..K : C[j].p \in PlacesOf(m)
    BY ZenonT(60) DEF OnPath
<1>2. /\ C[k].p.blk \in DOMAIN m /\ C[k].p.i \in DOMAIN m[C[k].p.blk] /\ C[k].p.f \in Names
      /\ C[k].p = At(C[k].p.blk, C[k].p.i, C[k].p.f)
    BY ZenonT(60), <1>1, PlaceFacts
<1>3. K \in 1..K /\ (k # K => k < K)
    OBVIOUS
<1>4. C[K].p.blk \in DOMAIN m
    BY ZenonT(60), <1>1, <1>3, PlaceFacts
<1>5. \A x \in DOMAIN m : x \in Nat /\ x < b /\ x # Null
    BY DEF HeapType, Null
<1>6. k # K => C[k].p.blk < C[K].p.blk
    BY ZenonT(60), <1>3 DEF OnPath
<1>7. Ptr(m, C[K].p) # Null => C[K].p.blk < Ptr(m, C[K].p)
    BY ZenonT(60) DEF OnPath
<1> DEFINE x == C[k].p.blk
           y == C[K].p.blk
           q == Ptr(m, C[K].p)
<1> HIDE DEF x, y, q
<1>8. x # q
  <2>1. x \in Nat /\ y \in Nat /\ x # Null /\ (k # K => x < y) /\ (k = K => x = y) /\ (q # Null => y < q)
      BY ZenonT(60), <1>2, <1>4, <1>5, <1>6, <1>7 DEF x, y, q
  <2> QED BY <2>1
<1>9. x = y => k = K
  <2>1. x \in Nat /\ y \in Nat /\ (k # K => x < y)
      BY ZenonT(60), <1>2, <1>4, <1>5, <1>6 DEF x, y
  <2> QED BY <2>1
<1> QED BY ZenonT(60), <1>1, <1>2, <1>5, <1>8, <1>9 DEF x, y, q

\* A context stays in the last instruction of its list.
LEMMA WithinSame ==
    ASSUME NEW m, NEW n, NEW c, NEW q, Within(m, c, q), Len(n[q]) = Len(m[q]),
           n[c.p.blk][c.p.i].op = m[c.p.blk][c.p.i].op,
           c.p.f = "a" => n[c.p.blk][c.p.i].b = m[c.p.blk][c.p.i].b
    PROVE  Within(n, c, q)
BY ZenonT(60) DEF Within

\* The contexts survive that the innermost list moves when it grows.
LEMMA PathAppend ==
    ASSUME NEW m, NEW md, NEW b, HeapType(m, md, b), NEW C, NEW K \in Nat \ {0}, OnPath(m, C, K),
           NEW n, NEW cell, AppendedTo(m, n, C[K].p, b, cell), AppendedHeld(m, n, C[K].p, b)
    PROVE  OnPath(n, C, K) /\ Ptr(n, C[K].p) = b
<1> DEFINE p == C[K].p
           old == Ptr(m, p)
<1>0. K \in 1..K /\ \A k \in 2..K : k \in 1..K /\ k - 1 \in 1..K /\ k - 1 # K
    OBVIOUS
<1>1. \A k \in 1..K : /\ C[k].p \in PlacesOf(m) /\ C[k].p.blk \in DOMAIN m /\ C[k].p.blk # old
                      /\ C[k].p.i \in DOMAIN m[C[k].p.blk] /\ (C[k].p.blk = p.blk => k = K)
  <2> TAKE k \in 1..K
  <2> QED BY PathPlace
<1>2. \A k \in 1..K : C[k].p \in PlacesOf(n) /\ Ptr(n, C[k].p) = IF C[k].p = p THEN b ELSE Ptr(m, C[k].p)
    BY ZenonT(60), <1>1 DEF AppendedHeld
<1>3. \A k \in 1..K : k # K => Ptr(n, C[k].p) = Ptr(m, C[k].p)
    BY ZenonT(60), <1>1, <1>2
<1>4. Ptr(n, p) = b
    BY ZenonT(60), <1>0, <1>2
<1>5. p.blk < b
    BY ZenonT(60), <1>0, PathPlace
<1>6. ASSUME NEW k \in 2..K PROVE Within(n, C[k], Ptr(n, C[k - 1].p))
  <2> DEFINE x == C[k].p.blk
             i == C[k].p.i
             q == Ptr(m, C[k - 1].p)
  <2>1. k \in 1..K /\ k - 1 \in 1..K /\ k - 1 # K
      BY <1>0
  <2>2. Within(m, C[k], q) /\ x = q
      BY ZenonT(60), <1>6 DEF OnPath, Within
  <2>3. x \in DOMAIN m /\ x # old /\ i \in DOMAIN m[x] /\ (x = p.blk => k = K)
      BY ZenonT(60), <2>1, <1>1
  <2>4. Len(n[x]) = Len(m[x]) /\ n[x][i].op = m[x][i].op
      BY ZenonT(60), <2>3 DEF AppendedTo
  <2>5. C[k].p.f = "a" => n[x][i].b = m[x][i].b
    <3> DEFINE r == At(x, i, "b")
    <3>1. r \in PlacesOf(m) /\ r.blk = x /\ r.f = "b"
      <4>1. "b" \in Names
          BY DEF Names
      <4> QED BY <2>3, <4>1, AtPlace
    <3>2. C[k].p.f = "a" => r # p
        BY ZenonT(60), <2>3, <3>1
    <3>3. r # p => Ptr(n, r) = Ptr(m, r)
      <4>1. r \in PlacesOf(m) /\ r.blk # old
          BY ZenonT(60), <3>1, <2>3
      <4> HIDE DEF r
      <4> QED BY ZenonT(60), <4>1 DEF AppendedHeld
    <3>4. Ptr(n, r) = n[x][i].b /\ Ptr(m, r) = m[x][i].b
      <4> HIDE DEF x, i
      <4> QED BY ZenonT(60) DEF Ptr, At
    <3> QED BY ZenonT(60), <3>2, <3>3, <3>4
  <2>6. Ptr(n, C[k - 1].p) = q
      BY ZenonT(60), <2>1, <1>3
  <2>7. Within(n, C[k], q)
      BY ZenonT(60), <2>2, <2>4, <2>5, WithinSame
  <2> QED BY ZenonT(60), <2>6, <2>7
<1> QED BY ZenonT(60), <1>2, <1>4, <1>5, <1>6 DEF OnPath

\* The contexts survive a new block.
LEMMA PathExtended ==
    ASSUME NEW m, NEW n, NEW b, NEW c, Extended(m, n, b, c), NEW C, NEW K \in Nat \ {0}, OnPath(m, C, K)
    PROVE  OnPath(n, C, K)
<1>1. \A x \in DOMAIN m : x \in DOMAIN n /\ n[x] = m[x]
    BY ZenonT(60) DEF Extended
<1>2. ASSUME NEW p \in PlacesOf(m) PROVE p \in PlacesOf(n) /\ Ptr(n, p) = Ptr(m, p)
  <2>1. p.blk \in DOMAIN m /\ p.i \in DOMAIN m[p.blk] /\ p.f \in Names /\ p = At(p.blk, p.i, p.f)
      BY ZenonT(60), PlaceFacts
  <2>2. p.blk \in DOMAIN n /\ n[p.blk] = m[p.blk]
      BY ZenonT(60), <1>1, <2>1
  <2>3. At(p.blk, p.i, p.f) \in PlacesOf(n)
      BY ZenonT(60), <2>1, <2>2, AtPlace
  <2> QED BY ZenonT(60), <2>1, <2>2, <2>3 DEF Ptr
<1>3. \A k \in 1..K : C[k].p \in PlacesOf(m)
    BY ZenonT(60) DEF OnPath
<1>4. K \in 1..K /\ \A k \in 2..K : k \in 1..K /\ k - 1 \in 1..K
    OBVIOUS
<1>5. ASSUME NEW k \in 2..K PROVE Within(n, C[k], Ptr(n, C[k - 1].p))
  <2> DEFINE q == Ptr(m, C[k - 1].p)
  <2>1. Within(m, C[k], q) /\ C[k].p.blk = q
      BY ZenonT(60), <1>5 DEF OnPath, Within
  <2>2. k \in 1..K /\ k - 1 \in 1..K
      BY <1>4
  <2>3. q \in DOMAIN m
    <3> DEFINE p == C[k].p
    <3>1. p \in PlacesOf(m) /\ p.blk = q
        BY ZenonT(60), <2>1, <2>2, <1>3
    <3> HIDE DEF p, q
    <3>2. p.blk \in DOMAIN m
        BY ZenonT(60), <3>1, PlaceFacts
    <3> QED BY <3>1, <3>2
  <2>4. n[q] = m[q]
      BY ZenonT(60), <2>3, <1>1
  <2>5. Within(n, C[k], q)
      BY ZenonT(60), <2>1, <2>4, WithinSame
  <2>6. Ptr(n, C[k - 1].p) = q
      BY ZenonT(60), <2>2, <1>2, <1>3
  <2> QED BY ZenonT(60), <2>5, <2>6
<1>6. Ptr(n, C[K].p) = Ptr(m, C[K].p)
    BY ZenonT(60), <1>2, <1>3, <1>4
<1> QED BY ZenonT(60), <1>2, <1>3, <1>5, <1>6 DEF OnPath

\* A context for the last instruction of the list goes onto the stack.
LEMMA PathPush ==
    ASSUME NEW m, NEW md, NEW b, HeapType(m, md, b), NEW C, NEW K \in Nat \ {0}, OnPath(m, C, K),
           NEW D, \A k \in 1..K : D[k] = C[k],
           D[K + 1].p \in PlacesOf(m), Within(m, D[K + 1], Ptr(m, C[K].p)), Ptr(m, D[K + 1].p) = Null
    PROVE  OnPath(m, D, K + 1)
<1> DEFINE x == D[K + 1].p.blk
<1>1. \A k \in 1..(K + 1) : k # K + 1 => k \in 1..K
    OBVIOUS
<1>2. \A k \in 2..(K + 1) : k # K + 1 => k \in 2..K /\ k \in 1..K /\ k - 1 \in 1..K
    OBVIOUS
<1>3. K \in 1..K /\ K + 1 - 1 = K
    OBVIOUS
<1>4. \A k \in 1..(K + 1) : D[k].p \in PlacesOf(m)
    BY ZenonT(60), <1>1 DEF OnPath
<1>5. ASSUME NEW k \in 2..(K + 1) PROVE Within(m, D[k], Ptr(m, D[k - 1].p))
  <2>1. CASE k = K + 1
    <3>0. k - 1 = K
        BY <2>1
    <3>1. D[k - 1] = C[K]
        BY ZenonT(60), <3>0, <1>3
    <3> QED BY ZenonT(60), <2>1, <3>1
  <2>2. CASE k # K + 1
      BY ZenonT(60), <2>2, <1>2, <1>5 DEF OnPath
  <2> QED BY ZenonT(60), <2>1, <2>2
<1>6. x \in DOMAIN m /\ x = Ptr(m, C[K].p) /\ Null \notin DOMAIN m /\ DOMAIN m \subseteq Nat
    BY ZenonT(60), PlaceFacts, HeapFacts DEF Within
<1>7. C[K].p.blk < x
    BY ZenonT(60), <1>6 DEF OnPath
<1>8. \A k \in 1..K : C[k].p.blk \in Nat
    BY ZenonT(60), <1>6, PlaceFacts DEF OnPath
<1>9. \A k \in 1..K : k = K \/ C[k].p.blk < C[K].p.blk
  <2>1. \A k \in 1..K : k = K \/ k < K
      OBVIOUS
  <2> QED BY ZenonT(60), <2>1, <1>3 DEF OnPath
<1>10. \A k \in 1..K : C[k].p.blk < x
  <2> TAKE k \in 1..K
  <2>1. C[k].p.blk \in Nat /\ C[K].p.blk \in Nat /\ x \in Nat /\ (k = K \/ C[k].p.blk < C[K].p.blk)
      BY ZenonT(60), <1>3, <1>6, <1>8, <1>9
  <2> QED BY <2>1, <1>7
<1>11. ASSUME NEW j \in 1..(K + 1), NEW k \in 1..(K + 1), j < k PROVE D[j].p.blk < D[k].p.blk
  <2>1. j \in 1..K
      BY <1>11
  <2>2. CASE k = K + 1
      BY ZenonT(60), <2>1, <2>2, <1>10
  <2>3. CASE k # K + 1
      BY ZenonT(60), <2>1, <2>3, <1>1, <1>11 DEF OnPath
  <2> QED BY ZenonT(60), <2>2, <2>3
<1> QED BY ZenonT(60), <1>4, <1>5, <1>11 DEF OnPath

\* Without the innermost list the contexts are still in place.
LEMMA PathPop ==
    ASSUME NEW m, NEW C, NEW K \in Nat \ {0}, OnPath(m, C, K + 1), NEW D, \A k \in 1..K : D[k] = C[k]
    PROVE  OnPath(m, D, K) /\ Within(m, C[K + 1], Ptr(m, C[K].p))
<1>1. \A k \in 1..K : k \in 1..(K + 1)
    OBVIOUS
<1>2. \A k \in 2..K : k \in 2..(K + 1) /\ k \in 1..K /\ k - 1 \in 1..K
    OBVIOUS
<1>3. K \in 1..K /\ K + 1 - 1 = K /\ K + 1 \in 2..(K + 1) /\ K < K + 1 /\ K + 1 \in 1..(K + 1)
    OBVIOUS
<1>4. Within(m, C[K + 1], Ptr(m, C[K].p)) /\ C[K].p.blk < C[K + 1].p.blk
  <2>0. \A k \in 2..(K + 1) : Within(m, C[k], Ptr(m, C[k - 1].p))
      BY ZenonT(60) DEF OnPath
  <2>1. Within(m, C[K + 1], Ptr(m, C[K].p))
      BY <2>0
  <2>2. C[K].p.blk < C[K + 1].p.blk
      BY ZenonT(60), <1>1, <1>3 DEF OnPath
  <2> QED BY ZenonT(60), <2>1, <2>2
<1>5. C[K + 1].p.blk = Ptr(m, C[K].p)
    BY ZenonT(60), <1>4 DEF Within
<1>6. D[K] = C[K]
    BY ZenonT(60), <1>3
<1>7. Ptr(m, D[K].p) # Null => D[K].p.blk < Ptr(m, D[K].p)
    BY ZenonT(60), <1>4, <1>5, <1>6
<1>8. \A k \in 2..K : Within(m, D[k], Ptr(m, D[k - 1].p))
    BY ZenonT(60), <1>2 DEF OnPath
<1>9. \A j, k \in 1..K : j < k => D[j].p.blk < D[k].p.blk
    BY ZenonT(60), <1>1 DEF OnPath
<1>10. \A k \in 1..K : D[k].p \in PlacesOf(m)
    BY ZenonT(60), <1>1 DEF OnPath
<1> QED BY ZenonT(60), <1>4, <1>7, <1>8, <1>9, <1>10 DEF OnPath

-----------------------------------------------------------------------------
(***************************************************************************)
(* The steps of read_instructions.                                         *)
(***************************************************************************)
Level == Len(stack) + 1

ListInv ==
    /\ FieldInv /\ InstrInv /\ IsSound /\ Field.kind = "instrs"
    /\ OnPath(mem, Path, Level) /\ Path[1].p = Owner /\ ~Path[1].allow_else
    /\ ctx \in Contexts /\ stack \in Seq(Contexts) /\ HeapType(mem, module, next)
    /\ Level \in Nat \ {0} /\ 1 \in 1..Level /\ Level \in 1..Level /\ Path[Level] = ctx
    /\ instr.op = "none" => NoInstr

\* The parts of the invariant while a list is read.
LEMMA InListFacts ==
    ASSUME Inv, phase = "instrs"
    PROVE  ListInv
<1>1. FieldInv /\ IsSound
    BY ZenonT(60), FieldInvFacts
<1>2. InstrInv /\ ContextInv /\ (instr.op = "none" => NoInstr)
    BY ZenonT(60), ReadFacts DEF Reading
<1>3. ctx \in Contexts /\ stack \in Seq(Contexts) /\ HeapType(mem, module, next)
    BY ZenonT(60), <1>1 DEF FieldInv, TypeInv
<1>4. Len(stack) \in Nat /\ Path[Level] = ctx
  <2>1. IsPath(PathOf(stack, ctx), stack, ctx)
      BY ZenonT(60), <1>3, PathFacts
  <2> QED BY ZenonT(60), <2>1 DEF IsPath, Path, Level
<1>5. Level \in Nat \ {0} /\ 1 \in 1..Level /\ Level \in 1..Level
    BY <1>4 DEF Level
<1> QED BY ZenonT(60), <1>1, <1>2, <1>3, <1>4, <1>5 DEF ListInv, ContextInv, Level

\* The next state of a step that goes on reading lists is as it should be.
LEMMA ListDone ==
    ASSUME FieldInv, phase \in {"field", "instrs"}, Field.kind = "instrs", phase' = "instrs",
           UNCHANGED << input, module, pos, work >>, holds' = TRUE, instr' \in Cells, InstrInv', Good',
           ctx' \in Contexts, stack' \in Seq(Contexts), OnPath(mem', Path', Len(stack') + 1),
           Path'[1].p = Owner, ~Path'[1].allow_else, QuietOn(mem, mem', Elts, Owner, TRUE)
    PROVE  Inv'
<1>1. TypeInv /\ PosInv /\ Unread /\ OwnerInv /\ TypeRest /\ PosType /\ module \in [Sections -> Arrays]
    BY ZenonT(60) DEF FieldInv
<1>2. Field.kind # "value"
    BY ZenonT(60)
<1>3. /\ \A i \in 1..module[pos.sec].n, f \in Names : i > pos.i => Ptr(mem', At(Elts, i, f)) = Null
      /\ \A k \in pos.k..Len(Fields[pos.sec]) :
            k # pos.k /\ Fields[pos.sec][k].kind # "value" =>
               Ptr(mem', At(Elts, pos.i, Fields[pos.sec][k].f)) = Null
    BY ZenonT(60), <1>1, <1>2, StillUnread
<1>4. Elts # Null /\ pos.i \in 1..module[pos.sec].n /\ pos.k \in 1..Len(Fields[pos.sec])
    BY ZenonT(60), <1>1 DEF Unread, Elts
<1>5. Unread'
    BY ZenonT(60), <1>3, <1>4 DEF Unread, Elts
<1>6. PosInv'
    BY ZenonT(60), <1>1, <1>5 DEF PosInv
<1>7. ContextInv'
    BY ZenonT(60) DEF ContextInv, Owner, Field
<1>8. TypeInv' /\ IsSound'
    BY ZenonT(60), <1>1 DEF TypeInv, TypeRest, PosType, Good, WellFormed, IsSound
<1>9. ReadInv'
    BY ZenonT(60), <1>6, <1>7, <1>8 DEF ReadInv, IsSound
<1> QED BY ZenonT(60), <1>8, <1>9 DEF Inv, AssertionsHold, Reading

\* The list that is being read may take another instruction.
LEMMA ListRole ==
    ASSUME ListInv
    PROVE  /\ \A o \in Roles : HasRole(module, ctx.p.blk, o) => OwnsList(o, mem[ctx.p.blk][ctx.p.i], ctx.p.f)
           /\ Ptr(mem, ctx.p) # Elts
<1>1. /\ OnPath(mem, Path, Level) /\ Level \in Nat \ {0} /\ Level \in 1..Level /\ Path[Level] = ctx
      /\ Path[1].p = Owner /\ HeapType(mem, module, next) /\ OwnerInv /\ Field.kind = "instrs" /\ PosType
    BY ZenonT(60) DEF ListInv, FieldInv
<1>2. Shaped(mem, module, Held(mem)) /\ Null \notin DOMAIN mem
    BY ZenonT(60), <1>1, HeapFacts DEF ListInv, IsSound, Sound
<1>3. \A p \in PlacesOf(mem) : Ptr(mem, p) # Null => \A s \in Sections : module[s].elts # Ptr(mem, p)
    BY ZenonT(60), <1>2, HeldFacts DEF Shaped, ShapedAt
<1>4. ctx.p \in PlacesOf(mem) /\ ctx.p.blk \in DOMAIN mem /\ ctx.p.f \in Names
    BY ZenonT(60), <1>1, PathPlace
<1>5. Ptr(mem, ctx.p) # Elts
  <2>1. pos.sec \in Sections /\ Elts # Null
      BY ZenonT(60), <1>1 DEF PosType, ListInv, FieldInv, Unread, Elts
  <2> QED BY ZenonT(60), <2>1, <1>3, <1>4 DEF Elts
<1>6. CASE Level = 1
  <2>1. ctx.p = Owner /\ Owner.blk = Elts /\ Owner.f = Field.f
      BY ZenonT(60), <1>1, <1>6 DEF OwnerInv
  <2>2. \A cell : OwnsList(pos.sec, cell, Field.f)
      BY ZenonT(60), <1>1 DEF OwnerInv, GoodField
  <2> QED BY ZenonT(60), <2>1, <2>2, <1>1, <1>5 DEF OwnerInv
<1>7. CASE Level # 1
  <2> DEFINE q == Ptr(mem, Path[Level - 1].p)
  <2>1. Level \in 2..Level /\ Level - 1 \in 1..Level
      BY <1>1, <1>7
  <2>2. Within(mem, ctx, q) /\ Path[Level - 1].p \in PlacesOf(mem)
      BY ZenonT(60), <2>1, <1>1 DEF OnPath
  <2>3. ctx.p.blk = q /\ q # Null
      BY ZenonT(60), <2>2, <1>2, <1>4 DEF Within
  <2>4. \A s \in Sections : module[s].elts # q
      BY ZenonT(60), <2>2, <2>3, <1>3
  <2>5. \A o \in Roles : HasRole(module, q, o) => o = "list"
      BY ZenonT(60), <2>4 DEF HasRole, Roles
  <2>6. OwnsList("list", mem[ctx.p.blk][ctx.p.i], ctx.p.f)
    <3>1. mem[ctx.p.blk][ctx.p.i].op \in {"block", "loop", "if"}
        BY ZenonT(60), <2>2 DEF Within, Blocks
    <3>2. ctx.p.f = "b" => mem[ctx.p.blk][ctx.p.i].op = "if"
        BY ZenonT(60), <2>2 DEF Within
    <3> QED BY ZenonT(60), <3>1, <3>2, <1>4 DEF OwnsList, Names
  <2> QED BY ZenonT(60), <2>3, <2>5, <2>6, <1>5
<1> QED BY ZenonT(60), <1>6, <1>7

\* An instruction is appended to the list.
LEMMA ListStep ==
    ASSUME AppendLaw, ListInv, NEW cell \in Cells, cell.a = instr.a, cell.b = Null,
           instr.a # Null => cell.op = "br_table", NEW new, new.a = Null, NEW n, n = AppendTo(ctx.p, cell)
    PROVE  /\ AppendMade(mem, n, module, new, ctx.p, next, cell)
           /\ OnPath(n, Path, Level) /\ Ptr(n, ctx.p) = next
           /\ QuietOn(mem, n, Elts, Owner, TRUE)
<1>1. /\ OnPath(mem, Path, Level) /\ Level \in Nat \ {0} /\ Level \in 1..Level /\ 1 \in 1..Level
      /\ Path[Level] = ctx /\ Path[1].p = Owner /\ HeapType(mem, module, next) /\ OwnerInv
    BY ZenonT(60) DEF ListInv, FieldInv
<1>2. /\ \A o \in Roles : HasRole(module, ctx.p.blk, o) => OwnsList(o, mem[ctx.p.blk][ctx.p.i], ctx.p.f)
      /\ Ptr(mem, ctx.p) # Elts
    BY ZenonT(60), ListRole
<1>3. ctx.p \in PlacesOf(mem) /\ ctx.p.blk # Ptr(mem, ctx.p)
  <2>1. Path[Level].p \in PlacesOf(mem) /\ Path[Level].p.blk # Ptr(mem, Path[Level].p)
      BY <1>1, PathPlace
  <2> QED BY ZenonT(60), <2>1, <1>1
<1>4. instr.a # Null => mem[instr.a] = <<>>
    BY ZenonT(60) DEF ListInv, InstrInv
<1>5. AppendPre(mem, module, instr, ctx.p, cell)
    BY ZenonT(60), <1>2, <1>3, <1>4 DEF AppendPre
<1>6. n = AppendAt(mem, ctx.p, next, cell)
    BY ZenonT(60) DEF AppendTo, AppendAt, Deref, Ptr
<1>7. WellFormed(mem, module, instr, next)
    BY ZenonT(60) DEF ListInv, FieldInv, Good
<1>8. AppendMade(mem, n, module, new, ctx.p, next, cell)
    BY ZenonT(60), <1>5, <1>6, <1>7 DEF AppendLaw
<1>9. AppendedTo(mem, n, ctx.p, next, cell) /\ AppendedHeld(mem, n, ctx.p, next)
    BY ZenonT(60), <1>8 DEF AppendMade
<1>10. OnPath(n, Path, Level) /\ Ptr(n, ctx.p) = next
  <2>1. AppendedTo(mem, n, Path[Level].p, next, cell) /\ AppendedHeld(mem, n, Path[Level].p, next)
      BY ZenonT(60), <1>1, <1>9
  <2>2. OnPath(n, Path, Level) /\ Ptr(n, Path[Level].p) = next
      BY <2>1, <1>1, PathAppend
  <2> QED BY ZenonT(60), <2>2, <1>1
<1>11. ASSUME NEW q \in PlacesOf(mem), q.blk = Elts, Ptr(mem, q) = Null, q # Owner PROVE Ptr(n, q) = Null
  <2>1. Ptr(n, q) = IF q = ctx.p THEN next ELSE Ptr(mem, q)
      BY ZenonT(60), <1>2, <1>9, <1>11 DEF AppendedHeld
  <2>2. Path[1].p.blk = Path[Level].p.blk => 1 = Level
      BY <1>1, PathPlace
  <2>3. q # ctx.p
      BY ZenonT(60), <2>2, <1>1, <1>11 DEF OwnerInv
  <2> QED BY ZenonT(60), <2>1, <2>3, <1>11
<1>12. QuietOn(mem, n, Elts, Owner, TRUE)
    BY ZenonT(60), <1>11 DEF QuietOn
<1> QED BY ZenonT(60), <1>8, <1>10, <1>12

\* The parts of a new cell.
LEMMA CellParts ==
    ASSUME NEW op, NEW v, NEW a
    PROVE  Cell(op, v, a).op = op /\ Cell(op, v, a).a = a /\ Cell(op, v, a).b = Null
BY ZenonT(60) DEF Cell

\* The cell of an instruction is a cell.
LEMMA TokenCell ==
    ASSUME NEW tok \in Tokens, NEW a \in Nat
    PROVE  /\ Cell(tok.op, Immediates(tok), a) \in Cells /\ Cell(Opcode(tok), Immediates(tok), a) \in Cells
           /\ Cell("br_table", Immediates(tok), a) \in Cells
<1>1. tok.op \in Opcodes /\ "br_table" \in Opcodes /\ Immediates(tok) \in Immediate
    BY ZenonT(60) DEF Opcodes, Immediate
<1>2. Opcode(tok) \in Opcodes
    BY ZenonT(60) DEF Opcode, Opcodes
<1>3. ASSUME NEW op \in Opcodes, NEW v \in Immediate PROVE Cell(op, v, a) \in Cells
    BY DEF Cell, Cells, Null
<1> QED BY ZenonT(60), <1>1, <1>2, <1>3

\* The context of a list that is just started.
LEMMA PathStart ==
    ASSUME NEW m, NEW C, C[1].p \in PlacesOf(m), Ptr(m, C[1].p) = Null
    PROVE  OnPath(m, C, 1)
<1>1. (\A k \in 1..1 : k = 1) /\ (\A k \in 2..1 : FALSE) /\ (\A j, k \in 1..1 : ~(j < k))
    OBVIOUS
<1> QED BY ZenonT(60), <1>1 DEF OnPath

\* A list of instructions is started.
LEMMA ReadInstructionsStep ==
    ASSUME Inv, ReadInstructions
    PROVE  Inv'
<1>1. /\ phase = "field" /\ Field.kind = "instrs" /\ phase' = "instrs"
      /\ ctx' = [p |-> Owner, allow_else |-> FALSE] /\ stack' = <<>>
      /\ UNCHANGED << input, module, mem, next, pos, instr, work >>
    BY ZenonT(60) DEF ReadInstructions
<1>2. FieldInv /\ NoInstr
    BY ZenonT(60), <1>1, FieldInvFacts
<1>3. Ptr(mem, Owner) = Null
  <2>1. Field.kind # "value"
      BY ZenonT(60), <1>1
  <2> QED BY ZenonT(60), <2>1, <1>1, <1>2, OwnerNull
<1>4. holds' = TRUE
  <2>1. Deref(Owner) = Null
      BY ZenonT(60), <1>3 DEF Deref, Ptr
  <2> QED BY ZenonT(60), <2>1, <1>2 DEF ReadInstructions, FieldInv
<1>5. Owner \in Spots
  <2>1. Elts \in Nat /\ pos.i \in Nat /\ Field.f \in Names /\ Owner = At(Elts, pos.i, Field.f)
    <3>1. pos.i \in 1..module[pos.sec].n /\ module[pos.sec].n \in Nat /\ Elts \in Nat
        BY ZenonT(60), <1>2, TypeFacts DEF FieldInv, Unread, Elts
    <3>2. pos.i \in Nat
        BY <3>1
    <3> QED BY ZenonT(60), <3>1, <3>2, <1>2 DEF FieldInv, OwnerInv, GoodField
  <2> QED BY ZenonT(60), <2>1 DEF Spots, At
<1>6. ctx' \in Contexts /\ ctx'.p = Owner /\ ~ctx'.allow_else
    BY ZenonT(60), <1>1, <1>5 DEF Contexts
<1>7. stack' \in Seq(Contexts) /\ Len(stack') = 0 /\ Len(stack') + 1 = 1
    BY <1>1
<1>8. Path'[1] = ctx'
  <2>1. PathOf(stack', ctx')[Len(stack') + 1] = ctx'
    <3>1. IsPath(PathOf(stack', ctx'), stack', ctx')
        BY ZenonT(60), <1>7, PathFacts
    <3> QED BY ZenonT(60), <3>1 DEF IsPath
  <2> QED BY ZenonT(60), <2>1, <1>7 DEF Path
<1>9. OnPath(mem', Path', Len(stack') + 1)
  <2>1. Path'[1].p \in PlacesOf(mem') /\ Ptr(mem', Path'[1].p) = Null
      BY ZenonT(60), <1>1, <1>2, <1>3, <1>6, <1>8 DEF FieldInv, OwnerInv
  <2>2. OnPath(mem', Path', 1)
      BY ZenonT(60), <2>1, PathStart
  <2> QED BY ZenonT(60), <2>2, <1>7
<1>10. instr' \in Cells /\ InstrInv' /\ Good' /\ QuietOn(mem, mem', Elts, Owner, TRUE)
    BY ZenonT(60), <1>1, <1>2 DEF FieldInv, InstrInv, NoInstr, Good, QuietOn
<1> QED BY ZenonT(60), <1>1, <1>2, <1>4, <1>6, <1>7, <1>8, <1>9, <1>10, ListDone

\* The lists stay where they are, but for the one that is being read.
LEMMA ListStays ==
    ASSUME ListInv, phase = "instrs", UNCHANGED << input, module, pos, ctx, stack, work, phase, holds >>,
           instr' \in Cells, InstrInv', Good', OnPath(mem', Path, Level),
           QuietOn(mem, mem', Elts, Owner, TRUE)
    PROVE  Inv'
<1>1. Path' = Path /\ Len(stack') + 1 = Level
    BY ZenonT(60) DEF Path, Level
<1>2. /\ FieldInv /\ Field.kind = "instrs" /\ holds = TRUE /\ ctx' \in Contexts /\ stack' \in Seq(Contexts)
      /\ Path'[1].p = Owner /\ ~Path'[1].allow_else
    BY ZenonT(60), <1>1 DEF ListInv, FieldInv
<1>3. OnPath(mem', Path', Len(stack') + 1)
    BY ZenonT(60), <1>1
<1> QED BY ZenonT(60), <1>2, <1>3, ListDone

\* An instruction without a list was appended.
LEMMA InstructionStep ==
    ASSUME AppendLaw, Inv, NEW tok \in Tokens, Instruction(tok)
    PROVE  Inv'
<1> DEFINE cell == Cell(Opcode(tok), Immediates(tok), Null)
<1>1. /\ phase = "instrs" /\ instr.op = "none" /\ mem' = AppendTo(ctx.p, cell) /\ next' = next + 1
      /\ UNCHANGED << input, module, pos, ctx, stack, instr, work, phase, holds >>
    BY ZenonT(60) DEF Instruction, InList
<1>2. ListInv /\ NoInstr /\ instr.a = Null /\ TypeInv
    BY ZenonT(60), <1>1, InListFacts DEF ListInv, NoInstr, FieldInv
<1>3. cell \in Cells /\ cell.a = Null /\ cell.b = Null
  <2>1. Null \in Nat
      BY DEF Null
  <2>2. cell \in Cells
      BY <2>1, <1>2, TokenCell
  <2>3. cell.a = Null /\ cell.b = Null
      BY CellParts
  <2> QED BY ZenonT(60), <2>2, <2>3
<1> HIDE DEF cell
<1>4. /\ AppendMade(mem, mem', module, instr, ctx.p, next, cell)
      /\ OnPath(mem', Path, Level) /\ QuietOn(mem, mem', Elts, Owner, TRUE)
    BY ZenonT(60), <1>1, <1>2, <1>3, ListStep
<1>5. Good'
    BY ZenonT(60), <1>1, <1>4 DEF Good, AppendMade
<1>6. instr' \in Cells /\ InstrInv'
    BY ZenonT(60), <1>1, <1>2 DEF NoInstr, InstrInv, TypeInv
<1> QED BY ZenonT(60), <1>1, <1>2, <1>4, <1>5, <1>6, ListStays

\* The labels of a br_table were read, and it was appended.
LEMMA BrTableLabelsStep ==
    ASSUME AppendLaw, Inv, BrTableLabels
    PROVE  Inv'
<1>1. /\ phase = "instrs" /\ instr.op = "br_table" /\ mem' = AppendTo(ctx.p, instr) /\ next' = next + 1
      /\ instr' = Zero /\ UNCHANGED << input, module, pos, ctx, stack, work, phase, holds >>
    BY ZenonT(60) DEF BrTableLabels
<1>2. ListInv /\ instr \in Cells /\ instr.b = Null
    BY ZenonT(60), <1>1, InListFacts DEF ListInv, FieldInv, InstrInv
<1>3. Zero \in Cells /\ Zero.op = "none" /\ Zero.a = Null /\ Zero.b = Null
    BY ZenonT(60), ZeroCell
<1>4. /\ AppendMade(mem, mem', module, Zero, ctx.p, next, instr)
      /\ OnPath(mem', Path, Level) /\ QuietOn(mem, mem', Elts, Owner, TRUE)
    BY ZenonT(60), <1>1, <1>2, <1>3, ListStep
<1>5. Good'
    BY ZenonT(60), <1>1, <1>4 DEF Good, AppendMade
<1>6. instr' \in Cells /\ InstrInv'
    BY ZenonT(60), <1>1, <1>3 DEF InstrInv
<1> QED BY ZenonT(60), <1>1, <1>2, <1>4, <1>5, <1>6, ListStays

\* The labels of a br_table were allocated.
LEMMA BrTableStep ==
    ASSUME LabelsLaw, Inv, NEW tok \in Tokens, BrTable(tok)
    PROVE  Inv'
<1> DEFINE n == read_uleb(tok.imms[1], tok.undef[1])
<1>1. /\ phase = "instrs" /\ instr.op = "none"
      /\ instr' = Cell("br_table", Immediates(tok), IF n = 0 THEN Null ELSE next)
      /\ mem' = (IF n = 0 THEN mem ELSE Extend(mem, next, <<>>))
      /\ next' = (IF n = 0 THEN next ELSE next + 1)
      /\ UNCHANGED << input, module, pos, ctx, stack, work, phase, holds >>
    BY ZenonT(60) DEF BrTable, InList
<1> HIDE DEF n
<1>2. ListInv /\ NoInstr /\ instr.a = Null /\ TypeInv /\ WellFormed(mem, module, instr, next)
    BY ZenonT(60), <1>1, InListFacts DEF ListInv, NoInstr, FieldInv, Good
<1>3. OnPath(mem, Path, Level) /\ Level \in Nat \ {0} /\ HeapType(mem, module, next)
    BY ZenonT(60), <1>2 DEF ListInv
<1>4. Null \in Nat /\ next \in Nat /\ next # Null
    BY <1>3, HeapFacts DEF Null
<1>5. CASE n = 0
  <2>1. instr' = Cell("br_table", Immediates(tok), Null) /\ mem' = mem /\ next' = next
      BY ZenonT(60), <1>1, <1>5
  <2>2. instr' \in Cells
      BY ZenonT(60), <2>1, <1>2, <1>4, TokenCell
  <2>3. instr'.op = "br_table" /\ instr'.a = Null /\ instr'.b = Null
      BY <2>1, CellParts
  <2>4. Roots(module, instr') = Roots(module, instr)
      BY ZenonT(60), <2>3, <1>2, RootsSame
  <2>5. Good'
      BY ZenonT(60), <2>1, <2>4, <1>1, <1>2 DEF Good, WellFormed
  <2>6. InstrInv' /\ QuietOn(mem, mem', Elts, Owner, TRUE) /\ OnPath(mem', Path, Level)
      BY ZenonT(60), <2>1, <2>3, <1>1, <1>3 DEF InstrInv, QuietOn
  <2> QED BY ZenonT(60), <1>1, <1>2, <2>2, <2>5, <2>6, ListStays
<1>6. CASE n # 0
  <2>1. /\ instr' = Cell("br_table", Immediates(tok), next) /\ mem' = Extend(mem, next, <<>>)
        /\ next' = next + 1
      BY ZenonT(60), <1>1, <1>6
  <2>2. instr' \in Cells
      BY ZenonT(60), <2>1, <1>2, <1>4, TokenCell
  <2>3. instr'.op = "br_table" /\ instr'.a = next /\ instr'.b = Null
      BY <2>1, CellParts
  <2>4. LabelsMade(mem, mem', module, instr', next)
      BY ZenonT(60), <2>1, <2>3, <1>2 DEF LabelsLaw
  <2>5. WellFormed(mem', module, instr', next + 1) /\ Extended(mem, mem', next, <<>>) /\ Held(mem') = Held(mem)
      BY ZenonT(60), <2>4 DEF LabelsMade
  <2>6. Good'
      BY ZenonT(60), <2>1, <2>5, <1>1 DEF Good
  <2>7. OnPath(mem', Path, Level)
      BY ZenonT(60), <2>5, <1>3, PathExtended
  <2>8. InstrInv'
      BY ZenonT(60), <2>3, <2>5, <1>1 DEF InstrInv, Extended
  <2>9. \A q \in PlacesOf(mem) : Ptr(mem', q) = Ptr(mem, q)
    <3> TAKE q \in PlacesOf(mem)
    <3>1. q \in DOMAIN Held(mem) /\ Held(mem)[q] = Ptr(mem, q)
        BY ZenonT(60), HeldFacts
    <3>2. q \in PlacesOf(mem')
        BY ZenonT(60), <3>1, <2>5 DEF Held
    <3> QED BY ZenonT(60), <3>1, <3>2, <2>5, HeldFacts
  <2>10. QuietOn(mem, mem', Elts, Owner, TRUE)
      BY ZenonT(60), <2>9 DEF QuietOn
  <2> QED BY ZenonT(60), <1>1, <1>2, <2>2, <2>6, <2>7, <2>8, <2>10, ListStays
<1> QED BY ZenonT(60), <1>5, <1>6

\* Pushing a context makes it the one before the last.
LEMMA PathGrow ==
    ASSUME NEW st \in Seq(Contexts), NEW c \in Contexts, NEW d
    PROVE  /\ Append(st, c) \in Seq(Contexts) /\ Len(Append(st, c)) = Len(st) + 1
           /\ \A k \in 1..(Len(st) + 1) : PathOf(Append(st, c), d)[k] = PathOf(st, c)[k]
           /\ PathOf(Append(st, c), d)[Len(st) + 1 + 1] = d
<1> DEFINE u == Append(st, c)
<1>1. /\ Len(st) \in Nat /\ u \in Seq(Contexts) /\ Len(u) = Len(st) + 1
      /\ \A k \in 1..Len(st) : u[k] = st[k]
      /\ u[Len(st) + 1] = c
    OBVIOUS
<1> HIDE DEF u
<1>2. \A k \in 1..(Len(st) + 1) : k \in 1..Len(st) \/ k = Len(st) + 1
    BY <1>1
<1>3. PathOf(st, c)[Len(st) + 1] = c /\ \A k \in 1..Len(st) : PathOf(st, c)[k] = st[k]
  <2>1. IsPath(PathOf(st, c), st, c)
      BY ZenonT(60), PathFacts
  <2> QED BY ZenonT(60), <2>1 DEF IsPath
<1>4. PathOf(u, d)[Len(u) + 1] = d /\ \A k \in 1..Len(u) : PathOf(u, d)[k] = u[k]
  <2>1. IsPath(PathOf(u, d), u, d)
      BY ZenonT(60), <1>1, PathFacts
  <2> QED BY ZenonT(60), <2>1 DEF IsPath
<1>5. PathOf(u, d)[Len(st) + 1 + 1] = d /\ \A k \in 1..(Len(st) + 1) : PathOf(u, d)[k] = u[k]
    BY ZenonT(60), <1>1, <1>4
<1>6. \A k \in 1..(Len(st) + 1) : PathOf(u, d)[k] = PathOf(st, c)[k]
    BY ZenonT(60), <1>1, <1>2, <1>3, <1>5
<1> QED BY ZenonT(60), <1>1, <1>5, <1>6 DEF u

\* A block, loop or if was appended and its list opened.
LEMMA OpenBlockStep ==
    ASSUME AppendLaw, Inv, NEW tok \in Tokens, OpenBlock(tok)
    PROVE  Inv'
<1> DEFINE cell == Cell(tok.op, Immediates(tok), Null)
           L == Len(mem'[next])
<1>1. /\ phase = "instrs" /\ phase' = "instrs" /\ instr.op = "none" /\ tok.op \in Blocks
      /\ mem' = AppendTo(ctx.p, cell)
      /\ next' = next + 1 /\ stack' = Append(stack, ctx)
      /\ ctx' = [p |-> At(next, L, "a"), allow_else |-> tok.op = "if"]
      /\ UNCHANGED << input, module, pos, instr, work, holds >>
    BY ZenonT(60) DEF OpenBlock, InList
<1>2. ListInv /\ NoInstr /\ instr.a = Null /\ TypeInv
    BY ZenonT(60), <1>1, InListFacts DEF ListInv, NoInstr, FieldInv
<1>3. cell \in Cells /\ cell.a = Null /\ cell.b = Null /\ cell.op = tok.op
  <2>1. Null \in Nat
      BY DEF Null
  <2>2. cell \in Cells
      BY <2>1, <1>2, TokenCell
  <2>3. cell.a = Null /\ cell.b = Null /\ cell.op = tok.op
      BY CellParts
  <2> QED BY ZenonT(60), <2>2, <2>3
<1> HIDE DEF cell
<1>4. /\ AppendMade(mem, mem', module, instr, ctx.p, next, cell)
      /\ OnPath(mem', Path, Level) /\ Ptr(mem', ctx.p) = next /\ QuietOn(mem, mem', Elts, Owner, TRUE)
    BY ZenonT(60), <1>1, <1>2, <1>3, ListStep
<1>5. Good' /\ HeapType(mem', module, next + 1) /\ AppendedTo(mem, mem', ctx.p, next, cell)
    BY ZenonT(60), <1>1, <1>4 DEF Good, AppendMade, WellFormed
<1>6. instr' \in Cells /\ InstrInv'
    BY ZenonT(60), <1>1, <1>2 DEF NoInstr, InstrInv, TypeInv
<1>7. next \in DOMAIN mem' /\ L \in Nat /\ L \in DOMAIN mem'[next] /\ mem'[next][L] = cell
  <2> DEFINE k == Len(ListOf(mem, Ptr(mem, ctx.p)))
  <2>1. next \in DOMAIN mem' /\ mem'[next] \in Seq(Cells) /\ L = k + 1 /\ mem'[next][k + 1] = cell
      BY ZenonT(60), <1>5 DEF AppendedTo
  <2>2. ListOf(mem, Ptr(mem, ctx.p)) \in Seq(Cells)
    <3>1. Ptr(mem, ctx.p) \in DOMAIN mem \cup {Null}
      <4>1. ctx.p \in PlacesOf(mem)
        <5>1. /\ OnPath(mem, Path, Level) /\ Level \in 1..Level /\ Path[Level] = ctx
            BY ZenonT(60), <1>2 DEF ListInv
        <5>2. Path[Level].p \in PlacesOf(mem)
            BY ZenonT(60), <5>1 DEF OnPath
        <5> QED BY ZenonT(60), <5>1, <5>2
      <4>2. \A p \in DOMAIN Held(mem) : Held(mem)[p] \in DOMAIN mem \cup {Null}
          BY ZenonT(60), <1>2 DEF ListInv, IsSound, Sound, Owned
      <4> QED BY ZenonT(60), <4>1, <4>2, HeldFacts
    <3>2. IsHeap(mem)
        BY ZenonT(60), <1>2, HeapFacts DEF ListInv
    <3> QED BY ZenonT(60), <3>1, <3>2, HeapBlock, EmptySeq DEF ListOf
  <2>3. k \in Nat
      BY ZenonT(60), <2>2, LenFacts
  <2> HIDE DEF k
  <2>4. L \in Nat /\ L \in 1..L
      BY <2>1, <2>3
  <2>5. DOMAIN mem'[next] = 1..L
      BY <2>1
  <2> QED BY ZenonT(60), <2>1, <2>4, <2>5
<1> HIDE DEF L
<1>8. /\ At(next, L, "a") \in PlacesOf(mem') /\ Ptr(mem', At(next, L, "a")) = Null
      /\ At(next, L, "a").blk = next /\ At(next, L, "a").i = L /\ At(next, L, "a").f = "a"
  <2>1. "a" \in Names
      BY DEF Names
  <2>2. Ptr(mem', At(next, L, "a")) = mem'[next][L].a
      BY PtrFields
  <2>3. At(next, L, "a") \in PlacesOf(mem')
      BY ZenonT(60), <2>1, <1>7, AtPlace
  <2>4. At(next, L, "a").blk = next /\ At(next, L, "a").i = L /\ At(next, L, "a").f = "a"
      BY AtFields
  <2> QED BY ZenonT(60), <2>2, <2>3, <2>4, <1>3, <1>7
<1>9. ctx' \in Contexts /\ ctx'.p = At(next, L, "a") /\ ctx'.allow_else = (tok.op = "if")
  <2>1. next \in Nat
      BY ZenonT(60), <1>2, HeapFacts DEF ListInv
  <2>2. At(next, L, "a") \in Spots
      BY ZenonT(60), <2>1, <1>7 DEF At, Spots, Names
  <2> QED BY ZenonT(60), <2>2, <1>1 DEF Contexts
<1>10. Within(mem', ctx', next)
  <2>1. ctx'.p.blk = next /\ ctx'.p.i = L /\ ctx'.p.f = "a"
      BY ZenonT(60), <1>8, <1>9
  <2>2. mem'[ctx'.p.blk][ctx'.p.i] = cell
      BY ZenonT(60), <2>1, <1>7
  <2>3. ctx'.p.i = Len(mem'[next])
      BY ZenonT(60), <2>1 DEF L
  <2> QED BY ZenonT(60), <2>1, <2>2, <2>3, <1>1, <1>3, <1>9 DEF Within
<1>11. /\ ctx \in Contexts /\ stack \in Seq(Contexts) /\ Path[Level] = ctx /\ Level \in Nat \ {0}
       /\ 1 \in 1..Level /\ FieldInv /\ Field.kind = "instrs" /\ Path[1].p = Owner /\ ~Path[1].allow_else
    BY ZenonT(60), <1>2 DEF ListInv
<1>12. /\ stack' \in Seq(Contexts) /\ Len(stack') + 1 = Level + 1
       /\ \A k \in 1..Level : Path'[k] = Path[k]
       /\ Path'[Level + 1] = ctx'
  <2> DEFINE D == PathOf(Append(stack, ctx), ctx')
  <2>1. Path' = D /\ stack' = Append(stack, ctx)
      BY ZenonT(60), <1>1 DEF Path
  <2>2. /\ Append(stack, ctx) \in Seq(Contexts) /\ Len(Append(stack, ctx)) = Level
        /\ \A k \in 1..Level : D[k] = Path[k]
        /\ D[Level + 1] = ctx'
      BY <1>11, PathGrow DEF Path, Level
  <2> HIDE DEF D
  <2> QED BY ZenonT(60), <2>1, <2>2
<1>13. OnPath(mem', Path', Level + 1)
  <2>1. /\ Path'[Level + 1].p \in PlacesOf(mem') /\ Ptr(mem', Path'[Level + 1].p) = Null
        /\ Within(mem', Path'[Level + 1], Ptr(mem', Path[Level].p))
      BY ZenonT(60), <1>4, <1>8, <1>9, <1>10, <1>11, <1>12
  <2> QED BY ZenonT(60), <2>1, <1>4, <1>5, <1>11, <1>12, PathPush
<1>14. Path'[1].p = Owner /\ ~Path'[1].allow_else /\ OnPath(mem', Path', Len(stack') + 1) /\ holds' = TRUE
    BY ZenonT(60), <1>1, <1>11, <1>12, <1>13 DEF FieldInv
<1> QED BY ZenonT(60), <1>1, <1>4, <1>5, <1>6, <1>9, <1>11, <1>12, <1>14, ListDone

\* The first elements of a sequence.
LEMMA PrefixFacts ==
    ASSUME NEW S, NEW s \in Seq(S), NEW n \in Nat, n <= Len(s)
    PROVE  SubSeq(s, 1, n) \in Seq(S) /\ Len(SubSeq(s, 1, n)) = n /\ \A k \in 1..n : SubSeq(s, 1, n)[k] = s[k]
<1>1. SubSeq(s, 1, n) \in Seq(S)
    OBVIOUS
<1>2. Len(SubSeq(s, 1, n)) = n
    OBVIOUS
<1>3. \A k \in 1..n : SubSeq(s, 1, n)[k] = s[k]
    OBVIOUS
<1> QED BY ZenonT(60), <1>1, <1>2, <1>3

\* Popping a context makes the one before it the last.
LEMMA PathShrink ==
    ASSUME NEW st \in Seq(Contexts), st # <<>>, NEW c
    PROVE  LET u == SubSeq(st, 1, Len(st) - 1)
           IN  /\ u \in Seq(Contexts) /\ Len(u) + 1 = Len(st) /\ Len(st) \in Nat \ {0}
               /\ st[Len(st)] \in Contexts
               /\ \A k \in 1..Len(st) : PathOf(u, st[Len(st)])[k] = PathOf(st, c)[k]
<1> DEFINE u == SubSeq(st, 1, Len(st) - 1)
<1>0. Len(st) \in Nat \ {0} /\ st[Len(st)] \in Contexts
    OBVIOUS
<1>1. /\ Len(st) \in Nat \ {0} /\ u \in Seq(Contexts) /\ Len(u) + 1 = Len(st) /\ Len(u) \in Nat
      /\ st[Len(st)] \in Contexts
      /\ \A k \in 1..Len(u) : u[k] = st[k]
  <2> DEFINE n == Len(st) - 1
  <2>1. n \in Nat /\ n <= Len(st) /\ n + 1 = Len(st)
      BY <1>0
  <2> HIDE DEF n
  <2>2. u = SubSeq(st, 1, n)
      BY ZenonT(60) DEF n
  <2>3. u \in Seq(Contexts) /\ Len(u) = n /\ \A k \in 1..n : u[k] = st[k]
      BY ZenonT(60), <2>1, <2>2, PrefixFacts
  <2> QED BY ZenonT(60), <1>0, <2>1, <2>3
<1> HIDE DEF u
<1>2. \A k \in 1..Len(st) : k \in 1..Len(u) \/ k = Len(u) + 1
    BY <1>1
<1>3. \A k \in 1..Len(st) : PathOf(st, c)[k] = st[k]
  <2>1. IsPath(PathOf(st, c), st, c)
      BY ZenonT(60), PathFacts
  <2> QED BY ZenonT(60), <2>1 DEF IsPath
<1>4. PathOf(u, st[Len(st)])[Len(u) + 1] = st[Len(st)] /\ \A k \in 1..Len(u) : PathOf(u, st[Len(st)])[k] = u[k]
  <2> DEFINE e == st[Len(st)]
  <2> HIDE DEF e
  <2>1. IsPath(PathOf(u, e), u, e)
      BY ZenonT(60), <1>1, PathFacts
  <2>2. PathOf(u, e)[Len(u) + 1] = e /\ \A k \in 1..Len(u) : PathOf(u, e)[k] = u[k]
      BY ZenonT(60), <2>1 DEF IsPath
  <2> QED BY ZenonT(60), <2>2 DEF e
<1>5. \A k \in 1..Len(st) : PathOf(u, st[Len(st)])[k] = PathOf(st, c)[k]
    BY ZenonT(60), <1>1, <1>2, <1>3, <1>4
<1> QED BY ZenonT(60), <1>1, <1>5 DEF u

\* A list ends: the one around it goes on, or the field is complete.
LEMMA EndOfListStep ==
    ASSUME Inv, NEW tok \in Tokens, EndOfList(tok)
    PROVE  Inv'
<1>1. /\ phase = "instrs" /\ instr.op = "none"
      /\ UNCHANGED << input, module, mem, next, instr, work, holds >>
    BY ZenonT(60) DEF EndOfList, InList
<1>2. ListInv /\ NoInstr
    BY ZenonT(60), <1>1, InListFacts DEF ListInv
<1>3. /\ FieldInv /\ Field.kind = "instrs" /\ ctx \in Contexts /\ stack \in Seq(Contexts)
      /\ OnPath(mem, Path, Level) /\ Path[1].p = Owner /\ ~Path[1].allow_else /\ holds = TRUE
    BY ZenonT(60), <1>2 DEF ListInv, FieldInv
<1>4. Good' /\ instr' \in Cells /\ (\A own : QuietOn(mem, mem', Elts, Owner, own))
    BY ZenonT(60), <1>1, <1>3 DEF Good, QuietOn, FieldInv
<1>5. CASE /\ stack # <<>> /\ ctx' = stack[Len(stack)] /\ stack' = SubSeq(stack, 1, Len(stack) - 1)
           /\ UNCHANGED << pos, phase >>
  <2> DEFINE D == PathOf(SubSeq(stack, 1, Len(stack) - 1), stack[Len(stack)])
             K == Len(stack)
  <2>1. Path' = D
      BY ZenonT(60), <1>5 DEF Path
  <2>2. /\ stack' \in Seq(Contexts) /\ Len(stack') + 1 = K /\ K \in Nat \ {0} /\ ctx' \in Contexts
        /\ \A k \in 1..K : D[k] = Path[k]
      BY ZenonT(60), <1>3, <1>5, PathShrink DEF Path
  <2> HIDE DEF D
  <2>3. OnPath(mem, D, K)
      BY ZenonT(60), <2>2, <1>3, PathPop DEF Level
  <2>4. 1 \in 1..K
      BY <2>2
  <2>5. OnPath(mem', Path', Len(stack') + 1) /\ Path'[1].p = Owner /\ ~Path'[1].allow_else
      BY ZenonT(60), <2>1, <2>2, <2>3, <2>4, <1>1, <1>3
  <2>6. InstrInv' /\ phase' = "instrs" /\ phase \in {"field", "instrs"} /\ holds' = TRUE /\ pos' = pos
      BY ZenonT(60), <1>1, <1>2, <1>3, <1>5 DEF InstrInv, NoInstr
  <2> QED BY ZenonT(60), <1>1, <1>3, <1>4, <2>2, <2>5, <2>6, ListDone
<1>6. CASE stack = <<>> /\ Advance /\ UNCHANGED << ctx, stack >>
  <2>1. ctx' \in Contexts /\ stack' \in Seq(Contexts)
      BY ZenonT(60), <1>3, <1>6
  <2> QED BY ZenonT(60), <1>1, <1>2, <1>3, <1>4, <1>6, <2>1, FieldDone
<1> QED BY ZenonT(60), <1>5, <1>6 DEF EndOfList

\* The second list of an if is opened.
LEMMA ElseStep ==
    ASSUME Inv, NEW tok \in Tokens, Else(tok)
    PROVE  Inv'
<1> DEFINE K == Len(stack)
           blk == Deref(stack[K].p)
           last == mem[blk][Len(mem[blk])]
<1>1. /\ phase = "instrs" /\ phase' = "instrs" /\ instr.op = "none" /\ ctx.allow_else
      /\ ctx' = [p |-> At(blk, Len(mem[blk]), "b"), allow_else |-> FALSE]
      /\ holds' = (holds /\ last.op = "if" /\ last.b = Null)
      /\ UNCHANGED << input, module, mem, next, pos, stack, instr, work >>
    BY ZenonT(60) DEF Else, InList
<1>2. ListInv /\ NoInstr
    BY ZenonT(60), <1>1, InListFacts DEF ListInv
<1>3. /\ FieldInv /\ Field.kind = "instrs" /\ ctx \in Contexts /\ stack \in Seq(Contexts)
      /\ OnPath(mem, Path, K + 1) /\ Path[1].p = Owner /\ ~Path[1].allow_else /\ holds = TRUE
      /\ HeapType(mem, module, next) /\ Path[K + 1] = ctx
    BY ZenonT(60), <1>2 DEF ListInv, FieldInv, Level
<1>4. K \in Nat \ {0} /\ K \in 1..K /\ 1 \in 1..K /\ K + 1 \in 1..(K + 1) /\ K + 1 \in Nat \ {0}
  <2>1. K \in Nat
      BY ZenonT(60), <1>3, LenFacts
  <2>2. K # 0
    <3>1. K = 0 => K + 1 = 1
        OBVIOUS
    <3> QED BY ZenonT(60), <3>1, <1>1, <1>3
  <2> QED BY <2>1, <2>2
<1>5. Path[K] = stack[K]
  <2>1. IsPath(PathOf(stack, ctx), stack, ctx)
      BY ZenonT(60), <1>3, PathFacts
  <2> QED BY ZenonT(60), <2>1, <1>4 DEF IsPath, Path
<1>6. blk = Ptr(mem, Path[K].p)
    BY ZenonT(60), <1>5 DEF Deref, Ptr
<1> HIDE DEF K, blk
<1>7. OnPath(mem, Path, K) /\ Within(mem, ctx, blk)
  <2>1. OnPath(mem, Path, K) /\ Within(mem, Path[K + 1], Ptr(mem, Path[K].p))
      BY <1>3, <1>4, PathPop
  <2> QED BY ZenonT(60), <2>1, <1>3, <1>6
<1>8. /\ ctx.p.blk = blk /\ ctx.p.i = Len(mem[blk]) /\ last.op = "if" /\ last.b = Null
    BY ZenonT(60), <1>1, <1>7 DEF Within
<1>9. /\ blk \in DOMAIN mem /\ Len(mem[blk]) \in DOMAIN mem[blk] /\ blk \in Nat /\ Len(mem[blk]) \in Nat
  <2>1. /\ Path[K + 1].p.blk \in DOMAIN mem /\ Path[K + 1].p.i \in DOMAIN mem[Path[K + 1].p.blk]
        /\ Path[K + 1].p.blk \in Nat
      BY <1>3, <1>4, PathPlace
  <2>2. ctx.p.i \in Nat
      BY ZenonT(60), <1>3 DEF Contexts, Spots
  <2> QED BY ZenonT(60), <2>1, <2>2, <1>3, <1>8
<1> DEFINE L == Len(mem[blk])
           q == At(blk, L, "b")
<1>10. /\ q \in PlacesOf(mem) /\ Ptr(mem, q) = Null /\ q.blk = blk /\ q.i = L /\ q.f = "b" /\ q \in Spots
  <2>1. "b" \in Names
      BY DEF Names
  <2>2. Ptr(mem, q) = mem[blk][L].b
      BY PtrFields
  <2>3. q \in PlacesOf(mem)
      BY ZenonT(60), <2>1, <1>9, AtPlace
  <2>4. q.blk = blk /\ q.i = L /\ q.f = "b"
      BY AtFields
  <2>5. q \in Spots
      BY ZenonT(60), <2>1, <1>9 DEF At, Spots
  <2> QED BY ZenonT(60), <2>2, <2>3, <2>4, <2>5, <1>8
<1>11. ctx' = [p |-> q, allow_else |-> FALSE]
    BY ZenonT(60), <1>1
<1> HIDE DEF q
<1>12. ctx' \in Contexts /\ ctx'.p = q /\ ~ctx'.allow_else
    BY ZenonT(60), <1>10, <1>11 DEF Contexts
<1>13. Within(mem, ctx', blk)
  <2>1. ctx'.p.blk = blk /\ ctx'.p.i = L /\ ctx'.p.f = "b"
      BY ZenonT(60), <1>10, <1>12
  <2>2. mem[ctx'.p.blk][ctx'.p.i] = last
      BY ZenonT(60), <2>1
  <2>3. "if" \in Blocks
      BY DEF Blocks
  <2>4. "b" # "a"
      OBVIOUS
  <2> QED BY ZenonT(60), <2>1, <2>2, <2>3, <2>4, <1>8, <1>12 DEF Within
<1>14. /\ \A k \in 1..K : Path'[k] = Path[k]
       /\ Path'[K + 1] = ctx' /\ Len(stack') + 1 = K + 1 /\ stack' \in Seq(Contexts)
  <2>1. Path' = PathOf(stack, ctx') /\ Len(stack') + 1 = K + 1 /\ stack' \in Seq(Contexts)
      BY ZenonT(60), <1>1, <1>3 DEF Path, K
  <2>2. PathOf(stack, ctx')[K + 1] = ctx' /\ \A k \in 1..K : PathOf(stack, ctx')[k] = stack[k]
    <3>1. IsPath(PathOf(stack, ctx'), stack, ctx')
        BY ZenonT(60), <1>3, PathFacts
    <3> QED BY ZenonT(60), <3>1 DEF IsPath, K
  <2>3. \A k \in 1..K : Path[k] = stack[k]
    <3>1. IsPath(PathOf(stack, ctx), stack, ctx)
        BY ZenonT(60), <1>3, PathFacts
    <3> QED BY ZenonT(60), <3>1 DEF IsPath, K, Path
  <2> QED BY ZenonT(60), <2>1, <2>2, <2>3
<1>15. OnPath(mem', Path', Len(stack') + 1)
  <2>1. /\ Path'[K + 1].p \in PlacesOf(mem) /\ Ptr(mem, Path'[K + 1].p) = Null
        /\ Within(mem, Path'[K + 1], Ptr(mem, Path[K].p))
      BY ZenonT(60), <1>6, <1>10, <1>12, <1>13, <1>14
  <2>2. OnPath(mem, Path', K + 1)
      BY ZenonT(60), <2>1, <1>3, <1>4, <1>7, <1>14, PathPush
  <2> QED BY ZenonT(60), <2>2, <1>1, <1>14
<1>16. Path'[1].p = Owner /\ ~Path'[1].allow_else /\ holds' = TRUE /\ phase \in {"field", "instrs"}
    BY ZenonT(60), <1>1, <1>3, <1>4, <1>8, <1>14
<1>17. Good' /\ instr' \in Cells /\ InstrInv' /\ QuietOn(mem, mem', Elts, Owner, TRUE)
    BY ZenonT(60), <1>1, <1>2, <1>3 DEF Good, QuietOn, FieldInv, InstrInv, NoInstr
<1> QED BY ZenonT(60), <1>1, <1>3, <1>12, <1>14, <1>15, <1>16, <1>17, ListDone

\* Nothing of a list is lost when reading it fails.
LEMMA ListFailsStep ==
    ASSUME DropLaw, Inv, phase = "instrs", Fail
    PROVE  Inv'
<1>1. /\ instr' = Zero /\ phase' = "failed"
      /\ mem' = (IF instr.op = "br_table" /\ instr.a # Null THEN Release(mem, instr.a) ELSE mem)
      /\ UNCHANGED << input, module, next, pos, ctx, stack, work, holds >>
    BY ZenonT(60) DEF Fail, FailWith
<1>2. FieldInv /\ InstrInv
    BY ZenonT(60), InListFacts DEF ListInv
<1>3. TypeRest /\ PosType /\ module \in [Sections -> Arrays] /\ Good /\ PosInv /\ holds = TRUE
    BY ZenonT(60), <1>2 DEF FieldInv
<1>4. Zero \in Cells /\ Zero.op = "none" /\ Zero.a = Null /\ Zero.b = Null
    BY ZenonT(60), ZeroCell
<1>5. instr' \in Cells /\ NoInstr' /\ Between' /\ holds'
    BY ZenonT(60), <1>1, <1>3, <1>4 DEF NoInstr, Between
<1>6. TypeRest' /\ PosType' /\ module' \in [Sections -> Arrays] /\ PosInv'
    BY ZenonT(60), <1>1, <1>3 DEF TypeRest, PosType, PosInv
<1>7. Good'
  <2>1. CASE instr.a # Null
    <3>1. instr.op = "br_table" /\ mem[instr.a] = <<>>
        BY ZenonT(60), <2>1, <1>2 DEF InstrInv
    <3>2. WellFormed(Release(mem, instr.a), module, Zero, next)
        BY ZenonT(60), <2>1, <3>1, <1>3, <1>4 DEF DropLaw, Good
    <3> QED BY ZenonT(60), <2>1, <3>1, <3>2, <1>1 DEF Good
  <2>2. CASE instr.a = Null
    <3>1. Roots(module, Zero) = Roots(module, instr)
        BY ZenonT(60), <2>2, <1>4, RootsSame
    <3> QED BY ZenonT(60), <2>2, <3>1, <1>1, <1>3 DEF Good, WellFormed
  <2> QED BY ZenonT(60), <2>1, <2>2
<1> QED BY ZenonT(60), <1>5, <1>6, <1>7, BetweenDone

\* Memory for an instruction, or for its labels, could not be allocated.
LEMMA ListNoMemoryStep ==
    ASSUME DropLaw, AppendLaw, Inv, NEW tok \in Tokens, ListNoMemory(tok)
    PROVE  Inv'
<1>1. CASE Fail
    BY ZenonT(60), <1>1, ListFailsStep DEF ListNoMemory
<1>2. CASE ~Fail
  <2> DEFINE cell == Cell(tok.op, Immediates(tok), Null)
  <2>1. /\ phase = "instrs" /\ instr.op = "none" /\ FailWith(AppendTo(ctx.p, cell)) /\ next' = next + 1
        /\ UNCHANGED << input, module, pos, ctx, stack, work, holds >>
      BY ZenonT(60), <1>2 DEF ListNoMemory, InList
  <2>2. mem' = AppendTo(ctx.p, cell) /\ instr' = Zero /\ phase' = "failed"
      BY ZenonT(60), <2>1 DEF FailWith
  <2>3. ListInv /\ FieldInv /\ NoInstr /\ instr.a = Null /\ TypeInv
      BY ZenonT(60), <2>1, InListFacts DEF ListInv, NoInstr, FieldInv
  <2>4. cell \in Cells /\ cell.a = Null /\ cell.b = Null
    <3>1. Null \in Nat
        BY DEF Null
    <3>2. cell \in Cells
        BY ZenonT(60), <3>1, <2>3, TokenCell
    <3>3. cell.a = Null /\ cell.b = Null
        BY CellParts
    <3> QED BY ZenonT(60), <3>2, <3>3
  <2> HIDE DEF cell
  <2>5. Zero \in Cells /\ Zero.op = "none" /\ Zero.a = Null /\ Zero.b = Null
      BY ZenonT(60), ZeroCell
  <2>6. AppendMade(mem, mem', module, Zero, ctx.p, next, cell)
      BY ZenonT(60), <2>2, <2>3, <2>4, <2>5, ListStep
  <2>7. Good'
      BY ZenonT(60), <2>1, <2>2, <2>6 DEF Good, AppendMade
  <2>8. instr' \in Cells /\ NoInstr' /\ Between' /\ holds'
      BY ZenonT(60), <2>1, <2>2, <2>3, <2>5 DEF NoInstr, Between, FieldInv
  <2>9. TypeRest' /\ PosType' /\ module' \in [Sections -> Arrays] /\ PosInv'
      BY ZenonT(60), <2>1, <2>2, <2>3 DEF TypeRest, PosType, PosInv, FieldInv
  <2> QED BY ZenonT(60), <2>7, <2>8, <2>9, BetweenDone
<1> QED BY ZenonT(60), <1>1, <1>2

-----------------------------------------------------------------------------
(***************************************************************************)
(* The steps of wasmjit_free_module, and every step.                       *)
(***************************************************************************)
LEMMA FreeingDone ==
    ASSUME TypeInv, holds' = TRUE, phase' \in {"freeing", "freed"},
           UNCHANGED << input, module, next, pos, ctx, stack, instr >>,
           HeapType(mem', module, next), Freeing(mem', module, work'), phase' = "freed" => work' = <<>>
    PROVE  Inv'
<1>1. work' \in Seq(Items)
    BY ZenonT(60) DEF Freeing
<1>2. TypeInv'
    BY ZenonT(60), <1>1 DEF TypeInv
<1>3. ~Reading' /\ phase' # "undefined"
    BY ZenonT(60) DEF Reading
<1>4. Freeing(mem, module, work)'
    BY ZenonT(60)
<1> QED BY ZenonT(60), <1>2, <1>3, <1>4 DEF Inv, AssertionsHold

\* wasmjit_free_module is called.
LEMMA FreeModuleStep ==
    ASSUME StartLaw, Inv, FreeModule
    PROVE  Inv'
<1>1. /\ phase \in {"failed", "parsed"} /\ phase' = "freeing"
      /\ UNCHANGED << input, module, mem, next, pos, ctx, stack, instr, holds >>
    BY ZenonT(60) DEF FreeModule
<1>2. TypeInv /\ holds = TRUE /\ IsSound /\ NoInstr
    BY ZenonT(60), <1>1, ReadFacts DEF Reading
<1>3. WellFormed(mem, module, instr, next) /\ instr.a = Null /\ module \in [Sections -> Arrays] /\ HeapType(mem, module, next)
    BY ZenonT(60), <1>2, GoodFacts DEF Good, NoInstr, TypeInv
<1>4. work' = SectionWork(module)
    BY ZenonT(60) DEF FreeModule, SectionWork, SectionItem, FreeSection
<1>5. Freeing(mem, module, SectionWork(module))
    BY ZenonT(60), <1>3 DEF StartLaw
<1> QED BY ZenonT(60), <1>1, <1>2, <1>3, <1>4, <1>5, FreeingDone

\* A loop of wasmjit_free_module visits an element, or frees its array.
LEMMA FreeStepStep ==
    ASSUME VisitLaw, FreeLaw, Inv, FreeStep
    PROVE  Inv'
<1> DEFINE w == Head(work)
<1>1. /\ phase = "freeing" /\ phase' = "freeing" /\ work # <<>>
      /\ holds' = (holds /\ (w.blk = Null \/ w.blk \in DOMAIN mem))
      /\ UNCHANGED << input, module, next, pos, ctx, stack, instr >>
    BY ZenonT(60) DEF FreeStep
<1>2. TypeInv /\ holds = TRUE /\ Freeing(mem, module, work) /\ HeapType(mem, module, next)
    BY ZenonT(60), <1>1 DEF Inv, Reading, AssertionsHold, TypeInv
<1>3. holds' = TRUE
  <2>1. work \in Seq(Items) /\ 1 \in 1..Len(work) /\ Head(work) = work[1]
      BY <1>1, <1>2 DEF Freeing
  <2>2. \A j \in DOMAIN Targets(work) : Targets(work)[j] \in DOMAIN mem \cup {Null}
      BY ZenonT(60), <1>2 DEF Freeing, FreeInv, Sound, Owned
  <2>3. DOMAIN Targets(work) = 1..Len(work) /\ Targets(work)[1] = work[1].blk
      BY ZenonT(60), <2>1 DEF Targets
  <2>4. w.blk \in DOMAIN mem \cup {Null}
      BY ZenonT(60), <2>1, <2>2, <2>3
  <2> QED BY ZenonT(60), <2>4, <1>1, <1>2
<1>4. LoopCount(w) = CountOf(mem, module, w)
    BY ZenonT(60) DEF LoopCount, CountOf
<1>5. CASE w.i <= LoopCount(w)
  <2>1. mem' = mem /\ work' = NextWork(mem, w, work)
      BY ZenonT(60), <1>5 DEF FreeStep, NextWork, OwnedBy
  <2>2. Freeing(mem, module, NextWork(mem, w, work))
      BY ZenonT(60), <1>1, <1>2, <1>4, <1>5 DEF VisitLaw
  <2> QED BY ZenonT(60), <2>1, <2>2, <1>1, <1>2, <1>3, FreeingDone
<1>6. CASE ~(w.i <= LoopCount(w))
  <2>1. mem' = Release(mem, w.blk) /\ work' = Tail(work)
      BY ZenonT(60), <1>6 DEF FreeStep
  <2>2. w.i > CountOf(mem, module, w)
    <3>1. w \in Items
        BY <1>1, <1>2 DEF Freeing
    <3>2. w.i \in Nat
        BY <3>1 DEF Items
    <3>3. CountOf(mem, module, w) \in Nat
      <4>1. w.op = "free" \/ w.blk \notin DOMAIN mem => CountOf(mem, module, w) = 0
          BY ZenonT(60) DEF CountOf, Plain
      <4>2. w.op \in Plain \cup {"list"} /\ w.blk \in DOMAIN mem => CountOf(mem, module, w) = Len(mem[w.blk])
          BY ZenonT(60) DEF CountOf, Plain
      <4>3. w.op # "free" /\ w.op \notin Plain \cup {"list"} /\ w.blk \in DOMAIN mem =>
                CountOf(mem, module, w) = module[w.op].n
          BY ZenonT(60) DEF CountOf
      <4>4. w.blk \in DOMAIN mem => Len(mem[w.blk]) \in Nat
          BY ZenonT(60), <1>2, HeapFacts, HeapBlock
      <4>5. w.op # "free" /\ w.op # "list" => module[w.op].n \in Nat
        <5>1. w.op \in Sections \cup {"list", "free"}
            BY ZenonT(60), <3>1 DEF Items, Roles
        <5> QED BY ZenonT(60), <5>1, <1>2 DEF TypeInv, Arrays
      <4>6. 0 \in Nat
          OBVIOUS
      <4> QED BY ZenonT(60), <4>1, <4>2, <4>3, <4>4, <4>5, <4>6
    <3> QED BY <3>2, <3>3, <1>4, <1>6
  <2>3. HeapType(Release(mem, w.blk), module, next) /\ Freeing(Release(mem, w.blk), module, Tail(work))
      BY ZenonT(60), <2>2, <1>1, <1>2 DEF FreeLaw
  <2> QED BY ZenonT(60), <2>1, <2>3, <1>1, <1>2, <1>3, FreeingDone
<1> QED BY ZenonT(60), <1>5, <1>6

\* No loop of wasmjit_free_module runs past the end of its array.
LEMMA FreeBeyondStep ==
    ASSUME Inv, FreeBeyond
    PROVE  FALSE
<1> DEFINE w == Head(work)
<1>1. phase = "freeing" /\ work # <<>> /\ w.blk \in DOMAIN mem /\ Len(mem[w.blk]) < w.i /\ w.i <= LoopCount(w)
    BY ZenonT(60) DEF FreeBeyond, Beyond
<1>2. TypeInv /\ Freeing(mem, module, work) /\ HeapType(mem, module, next)
    BY ZenonT(60), <1>1 DEF Inv, TypeInv
<1>3. work \in Seq(Items) /\ 1 \in 1..Len(work) /\ Head(work) = work[1] /\ w \in Items
    BY <1>1, <1>2 DEF Freeing
<1>4. PICK F : ItemInv(mem, module, w, F)
    BY ZenonT(60), <1>2, <1>3 DEF Freeing, FreeInv
<1>5. Len(mem[w.blk]) \in Nat /\ w.i \in Nat \ {0} /\ w.op \in Roles \cup {"free"}
    BY ZenonT(60), <1>1, <1>2, <1>3, HeapFacts, HeapBlock DEF Items
<1>6. CASE w.op = "free"
  <2>1. LoopCount(w) = 0
      BY ZenonT(60), <1>6 DEF LoopCount, Plain
  <2> QED BY <2>1, <1>1, <1>5
<1>7. CASE w.op \in Plain \cup {"list"}
  <2>1. LoopCount(w) = Len(mem[w.blk])
      BY ZenonT(60), <1>1, <1>7 DEF LoopCount, Plain
  <2> QED BY <2>1, <1>1, <1>5
<1>8. CASE w.op \in Sections /\ w.op \notin Plain \cup {"list"} /\ w.op # "free"
  <2>1. LoopCount(w) = module[w.op].n
      BY ZenonT(60), <1>1, <1>8 DEF LoopCount
  <2>2. w.blk = module[w.op].elts
      BY ZenonT(60), <1>4, <1>8 DEF ItemInv
  <2>3. Len(mem[w.blk]) = module[w.op].n
      BY ZenonT(60), <1>1, <1>2, <1>8, <2>2 DEF HeapType
  <2> QED BY <2>1, <2>3, <1>1, <1>5
<1> QED BY ZenonT(60), <1>5, <1>6, <1>7, <1>8 DEF Roles

\* wasmjit_free_module returns.
LEMMA FreeDoneStep ==
    ASSUME Inv, FreeDone
    PROVE  Inv'
<1>1. /\ phase = "freeing" /\ phase' = "freed" /\ work = <<>> /\ work' = work /\ mem' = mem
      /\ UNCHANGED << input, module, next, pos, ctx, stack, instr, holds >>
    BY ZenonT(60) DEF FreeDone
<1>2. TypeInv /\ holds = TRUE /\ Freeing(mem, module, work) /\ HeapType(mem, module, next)
    BY ZenonT(60), <1>1 DEF Inv, Reading, AssertionsHold, TypeInv
<1> QED BY ZenonT(60), <1>1, <1>2, FreeingDone

\* A stuttering step.
LEMMA StutterStep ==
    ASSUME Inv, UNCHANGED vars
    PROVE  Inv'
BY ZenonT(60) DEF vars, Inv, TypeInv, AssertionsHold, Reading, ReadInv, PosInv, Unread, InstrInv, ContextInv, Path,
   Owner, Field

\* Any step of read_module outside lists of instructions.
LEMMA ReadModuleStep ==
    ASSUME HeapLaws, Inv, ReadModule, ~twice'
    PROVE  Inv'
<1>1. LeafLaw /\ ArrayLaw
    BY ZenonT(60) DEF HeapLaws
<1>2. CASE ReadHeader
    BY ZenonT(60), <1>2, PlainStep DEF ReadHeader, Between
<1>3. CASE EndOfInput
    BY ZenonT(60), <1>3, PlainStep DEF EndOfInput, Between
<1>4. CASE ReadCustom
    BY ZenonT(60), <1>4, PlainStep DEF ReadCustom, Between
<1>5. CASE ReadValue
    BY ZenonT(60), <1>5, ReadValueStep
<1>6. CASE ReadString
    BY ZenonT(60), <1>1, <1>6, ReadStringStep
<1>7. CASE ReadFails
    BY ZenonT(60), <1>7, ReadFailsStep DEF ReadFails
<1>8. CASE \E id \in input.ids : ReadId(id)
    BY ZenonT(60), <1>8, ReadIdStep
<1>9. CASE \E n \in input.counts : ReadCount(n) \/ ReadCountNoMemory(n)
    BY ZenonT(60), <1>1, <1>9, ReadCountStep, ReadCountNoMemoryStep
<1>10. CASE \E n \in 0..1, ok \in BOOLEAN : ReadVector(n, ok)
    BY ZenonT(60), <1>1, <1>10, ReadVectorStep
<1>11. CASE \E n \in input.counts \cup {0} : ReadCountFails(n)
    BY ZenonT(60), <1>11, ReadCountFailsStep
<1> QED BY ZenonT(60), <1>2, <1>3, <1>4, <1>5, <1>6, <1>7, <1>8, <1>9, <1>10, <1>11 DEF ReadModule

\* Any step of read_instructions.
LEMMA ReadListStep ==
    ASSUME HeapLaws, Inv, ReadList
    PROVE  Inv'
<1>1. LabelsLaw /\ DropLaw /\ AppendLaw
    BY ZenonT(60) DEF HeapLaws
<1>2. CASE ReadInstructions
    BY ZenonT(60), <1>2, ReadInstructionsStep
<1>3. CASE BrTableLabels
    BY ZenonT(60), <1>1, <1>3, BrTableLabelsStep
<1>4. ASSUME NEW tok \in Tokens,
             \/ Instruction(tok) \/ BrTable(tok) \/ OpenBlock(tok) \/ Else(tok) \/ EndOfList(tok)
             \/ Unreadable(tok) \/ ListNoMemory(tok)
      PROVE  Inv'
  <2>1. CASE Instruction(tok)
      BY ZenonT(60), <1>1, <2>1, InstructionStep
  <2>2. CASE BrTable(tok)
      BY ZenonT(60), <1>1, <2>2, BrTableStep
  <2>3. CASE OpenBlock(tok)
      BY ZenonT(60), <1>1, <2>3, OpenBlockStep
  <2>4. CASE Else(tok)
      BY ZenonT(60), <2>4, ElseStep
  <2>5. CASE EndOfList(tok)
      BY ZenonT(60), <2>5, EndOfListStep
  <2>6. CASE Unreadable(tok)
      BY ZenonT(60), <1>1, <2>6, ListFailsStep DEF Unreadable
  <2>7. CASE ListNoMemory(tok)
      BY ZenonT(60), <1>1, <2>7, ListNoMemoryStep
  <2> QED BY ZenonT(60), <1>4, <2>1, <2>2, <2>3, <2>4, <2>5, <2>6, <2>7
<1>5. input.toks \subseteq Tokens /\ Reserved \in Tokens
  <2>1. input \in Inputs
      BY ZenonT(60) DEF Inv, TypeInv
  <2>2. \A tok \in input.toks : tok \in Tokens
      BY ZenonT(60), <2>1 DEF Tokens
  <2>3. Reserved \in Tokens
      BY ZenonT(60) DEF Tokens
  <2> QED BY ZenonT(60), <2>2, <2>3
<1>6. \A tok \in IF AtReserved THEN {Reserved} ELSE input.toks : tok \in Tokens
    BY ZenonT(60), <1>5
<1> QED BY ZenonT(60), <1>2, <1>3, <1>4, <1>6 DEF ReadList

\* Every step that reads no section again keeps the invariant, if the heap
\* behaves as the laws say.
LEMMA InvStep ==
    ASSUME HeapLaws, Inv, [Next]_vars, ~twice'
    PROVE  Inv'
<1>1. StartLaw /\ VisitLaw /\ FreeLaw
    BY ZenonT(60) DEF HeapLaws
<1>2. CASE ReadModule
    BY ZenonT(60), <1>2, ReadModuleStep
<1>3. CASE ReadList
    BY ZenonT(60), <1>3, ReadListStep
<1>4. CASE FreeModule
    BY ZenonT(60), <1>1, <1>4, FreeModuleStep
<1>5. CASE FreeStep
    BY ZenonT(60), <1>1, <1>5, FreeStepStep
<1>6. CASE FreeDone
    BY ZenonT(60), <1>6, FreeDoneStep
<1>7. CASE UNCHANGED vars
    BY ZenonT(60), <1>7, StutterStep
<1>8. CASE FreeBeyond
    BY ZenonT(60), <1>8, FreeBeyondStep
<1> QED BY ZenonT(60), <1>2, <1>3, <1>4, <1>5, <1>6, <1>7, <1>8 DEF Next

\* That a section was read again is not forgotten.
LEMMA TwiceStays ==
    ASSUME [Next]_vars, twice
    PROVE  twice'
<1>1. CASE ReadModule
    BY ZenonT(60), <1>1 DEF ReadModule, ReadHeader, EndOfInput, ReadCustom, ReadValue, ReadString, ReadFails, Fail,
       ReadId, ReadCount, ReadCountNoMemory, ReadCountFails, ReadVector, Again
<1>2. CASE ReadList
    BY ZenonT(60), <1>2 DEF ReadList, ReadInstructions, BrTableLabels, Instruction, BrTable, OpenBlock, Else,
       EndOfList, Unreadable, ListNoMemory, Fail
<1>3. CASE FreeModule \/ FreeStep \/ FreeBeyond \/ FreeDone \/ UNCHANGED vars
    BY ZenonT(60), <1>3 DEF FreeModule, FreeStep, FreeBeyond, FreeDone, vars
<1> QED BY ZenonT(60), <1>1, <1>2, <1>3 DEF Next

\* An empty heap is well formed.
LEMMA InvInit ==
    ASSUME PInit
    PROVE  Inv
<1>1. /\ input \in Inputs /\ module = [s \in Sections |-> [n |-> 0, elts |-> Null]]
      /\ mem = << >> /\ next = 1 /\ pos = [sec |-> "type", i |-> 0, k |-> 0]
      /\ ctx = [p |-> At(Null, 0, "a"), allow_else |-> FALSE] /\ stack = <<>> /\ instr = Zero
      /\ work = <<>> /\ phase = "header" /\ holds = TRUE
    BY ZenonT(60) DEF PInit
<1>2. Zero \in Cells /\ Zero.op = "none" /\ Zero.a = Null /\ Zero.b = Null
    BY ZenonT(60), ZeroCell
<1>3. "type" \in Sections
    BY ZenonT(60), SectionsAre
<1>4. module \in [Sections -> Arrays] /\ \A s \in Sections : module[s].elts = Null
    BY <1>1 DEF Arrays, Null
<1>5. DOMAIN mem = {} /\ PlacesOf(mem) = {} /\ DOMAIN Held(mem) = {}
  <2>1. DOMAIN mem = {}
      BY <1>1
  <2>2. PlacesOf(mem) = {}
      BY <2>1 DEF PlacesOf
  <2> QED BY ZenonT(60), <2>1, <2>2 DEF Held
<1>6. HeapType(mem, module, next)
  <2>1. next \in Nat \ {0} /\ DOMAIN mem \subseteq 1..(next - 1)
      BY <1>1, <1>5
  <2>2. IsHeap(mem)
      BY <1>1 DEF IsHeap
  <2> QED BY ZenonT(60), <2>1, <2>2, <1>5 DEF HeapType
<1>7. ctx \in Contexts /\ stack \in Seq(Contexts) /\ work \in Seq(Items)
    BY <1>1 DEF Contexts, Spots, Names, At, Null
<1>8. pos.sec \in Sections /\ pos = [sec |-> pos.sec, i |-> pos.i, k |-> pos.k]
    BY ZenonT(60), <1>1, <1>3
<1>9. TypeInv
    BY ZenonT(60), <1>1, <1>2, <1>4, <1>6, <1>7, <1>8 DEF TypeInv
<1>10. Sound(mem, module, Held(mem), Roots(module, instr))
  <2>1. \A k \in DOMAIN Roots(module, instr) : Roots(module, instr)[k] = Null
    <3>1. instr.a = Null
        BY ZenonT(60), <1>1, <1>2
    <3> QED BY ZenonT(60), <3>1, <1>4 DEF Roots
  <2>2. Owned(DOMAIN mem, Held(mem), Roots(module, instr))
      BY ZenonT(60), <1>5, <2>1 DEF Owned
  <2>3. [x \in Nat |-> 0] \in [Nat -> Nat] /\ Ranked(Held(mem), [x \in Nat |-> 0])
      BY <1>5 DEF Ranked
  <2>4. Shaped(mem, module, Held(mem))
      BY ZenonT(60), <1>5 DEF Shaped
  <2> QED BY ZenonT(60), <2>2, <2>3, <2>4 DEF Sound
<1>11. InstrInv
    BY ZenonT(60), <1>1, <1>2 DEF InstrInv
<1>12. PosInv
    BY ZenonT(60), <1>1, <1>4 DEF PosInv
<1>13. ReadInv
    BY ZenonT(60), <1>1, <1>10, <1>11, <1>12 DEF ReadInv
<1> QED BY ZenonT(60), <1>1, <1>9, <1>13 DEF Inv, AssertionsHold, Reading

\* Deref is Ptr on the heap of the parser.
LEMMA DerefPtr == \A p : Deref(p) = Ptr(mem, p)
BY ZenonT(60) DEF Deref, Ptr

\* The contexts are live.
LEMMA InvPointersLive ==
    ASSUME Inv
    PROVE  PointersLive
<1> SUFFICES ASSUME phase = "instrs", NEW k \in 1..(Len(stack) + 1)
             PROVE  LET p == Context(k).p
                    IN  /\ p.blk \in DOMAIN mem /\ p.i \in DOMAIN mem[p.blk]
                        /\ k > 1 => p.blk = Deref(Context(k - 1).p) /\ p.i = Len(mem[p.blk])
    BY ZenonT(60) DEF PointersLive
<1>1. OnPath(mem, Path, Len(stack) + 1) /\ stack \in Seq(Contexts)
    BY ZenonT(60) DEF Inv, Reading, ReadInv, ContextInv, TypeInv
<1>2. Len(stack) \in Nat
    BY ZenonT(60), <1>1, LenFacts
<1>3. \A j \in 1..(Len(stack) + 1) : Path[j] = Context(j)
    BY ZenonT(60) DEF Path, PathOf, Context
<1>4. Context(k).p \in PlacesOf(mem)
    BY ZenonT(60), <1>1, <1>3 DEF OnPath
<1>5. Context(k).p.blk \in DOMAIN mem /\ Context(k).p.i \in DOMAIN mem[Context(k).p.blk]
    BY ZenonT(60), <1>4, PlaceFacts
<1>6. ASSUME k > 1
      PROVE  Context(k).p.blk = Deref(Context(k - 1).p) /\ Context(k).p.i = Len(mem[Context(k).p.blk])
  <2>1. k \in 2..(Len(stack) + 1) /\ k - 1 \in 1..(Len(stack) + 1)
      BY <1>2, <1>6
  <2>2. Within(mem, Path[k], Ptr(mem, Path[k - 1].p))
      BY ZenonT(60), <1>1, <2>1 DEF OnPath
  <2>3. Path[k] = Context(k) /\ Path[k - 1] = Context(k - 1)
      BY ZenonT(60), <1>3, <2>1
  <2>4. Within(mem, Context(k), Deref(Context(k - 1).p))
      BY ZenonT(60), <2>2, <2>3, DerefPtr
  <2> QED BY ZenonT(60), <2>4 DEF Within
<1> QED BY ZenonT(60), <1>5, <1>6

\* Each block has one owner.
LEMMA InvOwnedOnce ==
    ASSUME Inv
    PROVE  OwnedOnce
<1> SUFFICES ASSUME Reading, ~twice
             PROVE  /\ \A p \in Places : Deref(p) \in DOMAIN mem \cup {Null}
                    /\ \A x \in DOMAIN mem :
                          LET cells == {p \in Places : Deref(p) = x}
                              secs == {s \in Sections : module[s].elts = x}
                          IN  \/ (\E p \in cells : cells = {p}) /\ secs = {} /\ instr.a # x
                              \/ cells = {} /\ (\E s \in secs : secs = {s}) /\ instr.a # x
                              \/ cells = {} /\ secs = {} /\ instr.a = x
    BY ZenonT(60) DEF OwnedOnce
<1> DEFINE h == Held(mem)
           R == Roots(module, instr)
<1>1. Places = PlacesOf(mem) /\ Places = DOMAIN h /\ \A p \in Places : h[p] = Deref(p)
  <2>1. Places = PlacesOf(mem)
      BY DEF Places, PlacesOf, Names
  <2> QED BY ZenonT(60), <2>1, DerefPtr DEF Held
<1>2. Owned(DOMAIN mem, h, R) /\ Null \notin DOMAIN mem
    BY ZenonT(60), HeapFacts DEF Inv, ReadInv, Sound, TypeInv
<1>3. /\ DOMAIN R = Sections \cup {"instr"} /\ "instr" \notin Sections /\ R["instr"] = instr.a
      /\ \A s \in Sections : R[s] = module[s].elts
    BY ZenonT(60), RootsFacts
<1> HIDE DEF h, R
<1>4. \A p \in Places : Deref(p) \in DOMAIN mem \cup {Null}
    BY ZenonT(60), <1>1, <1>2 DEF Owned
<1>5. /\ \A s, t \in Sections : module[s].elts = module[t].elts => s = t \/ module[s].elts = Null
      /\ \A s \in Sections : module[s].elts = instr.a => instr.a = Null
  <2>1. \A k, l \in Sections \cup {"instr"} : R[k] = R[l] => k = l \/ R[k] = Null
      BY ZenonT(60), <1>2, <1>3 DEF Owned
  <2>2. ASSUME NEW s \in Sections, NEW t \in Sections, module[s].elts = module[t].elts
        PROVE  s = t \/ module[s].elts = Null
    <3>1. R[s] = module[s].elts /\ R[t] = module[t].elts
        BY ZenonT(60), <1>3
    <3>2. R[s] = R[t]
        BY ZenonT(60), <2>2, <3>1
    <3>3. s = t \/ R[s] = Null
        BY ZenonT(60), <2>1, <3>2
    <3> QED BY ZenonT(60), <3>1, <3>3
  <2>3. ASSUME NEW s \in Sections, module[s].elts = instr.a
        PROVE  instr.a = Null
    <3>1. R[s] = module[s].elts /\ R["instr"] = instr.a /\ s # "instr"
        BY ZenonT(60), <1>3
    <3>2. R["instr"] = R[s]
        BY <2>3, <3>1
    <3>3. R["instr"] = Null
        BY ZenonT(60), <2>1, <3>1, <3>2
    <3> QED BY ZenonT(60), <3>1, <3>3
  <2> QED BY ZenonT(60), <2>2, <2>3
<1>6. /\ \A p, q \in Places : Deref(p) = Deref(q) => p = q \/ Deref(p) = Null
      /\ \A p \in Places, s \in Sections : Deref(p) = module[s].elts => Deref(p) = Null
      /\ \A p \in Places : Deref(p) = instr.a => Deref(p) = Null
  <2>1. \A p, q \in Places : h[p] = h[q] => p = q \/ h[p] = Null
      BY ZenonT(60), <1>1, <1>2 DEF Owned
  <2>2. \A p \in Places, k \in Sections \cup {"instr"} : h[p] = R[k] => R[k] = Null
      BY ZenonT(60), <1>1, <1>2, <1>3 DEF Owned
  <2>3. \A p \in Places, s \in Sections : h[p] = R[s] => h[p] = Null
      BY ZenonT(60), <2>2
  <2>4. \A p \in Places : h[p] = R["instr"] => h[p] = Null
      BY ZenonT(60), <2>2
  <2>5. \A p, q \in Places : Deref(p) = Deref(q) => p = q \/ Deref(p) = Null
      BY ZenonT(60), <2>1, <1>1
  <2>6. \A p \in Places, s \in Sections : Deref(p) = module[s].elts => Deref(p) = Null
      BY ZenonT(60), <2>3, <1>1, <1>3
  <2> QED BY ZenonT(60), <2>4, <2>5, <2>6, <1>1, <1>3
<1>7. \A x \in DOMAIN mem : \/ \E p \in Places : Deref(p) = x
                            \/ \E s \in Sections : module[s].elts = x
                            \/ instr.a = x
  <2>1. \A x \in DOMAIN mem : (\E p \in Places : h[p] = x) \/ (\E k \in Sections \cup {"instr"} : R[k] = x)
      BY ZenonT(60), <1>1, <1>2, <1>3 DEF Owned
  <2> TAKE x \in DOMAIN mem
  <2>2. CASE \E p \in Places : h[p] = x
      BY ZenonT(60), <2>2, <1>1
  <2>3. CASE \E k \in Sections \cup {"instr"} : R[k] = x
    <3>1. PICK k \in Sections \cup {"instr"} : R[k] = x
        BY ZenonT(60), <2>3
    <3>2. CASE k \in Sections
        BY ZenonT(60), <3>1, <3>2, <1>3
    <3>3. CASE k = "instr"
        BY <3>1, <3>3, <1>3
    <3> QED BY ZenonT(60), <3>2, <3>3
  <2> QED BY ZenonT(60), <2>1, <2>2, <2>3
<1>8. ASSUME NEW x \in DOMAIN mem
      PROVE  LET cells == {p \in Places : Deref(p) = x}
                 secs == {s \in Sections : module[s].elts = x}
             IN  \/ (\E p \in cells : cells = {p}) /\ secs = {} /\ instr.a # x
                 \/ cells = {} /\ (\E s \in secs : secs = {s}) /\ instr.a # x
                 \/ cells = {} /\ secs = {} /\ instr.a = x
  <2> DEFINE cells == {p \in Places : Deref(p) = x}
             secs == {s \in Sections : module[s].elts = x}
  <2>1. x # Null
      BY ZenonT(60), <1>2
  <2>2. \A p, q \in cells : p = q
      BY <2>1, <1>6
  <2>3. \A s, t \in secs : s = t
      BY ZenonT(60), <2>1, <1>5
  <2>4. instr.a = x => secs = {}
      BY ZenonT(60), <2>1, <1>5
  <2>5. ASSUME cells # {} PROVE secs = {} /\ instr.a # x
    <3>1. PICK p \in Places : Deref(p) = x
        BY ZenonT(60), <2>5
    <3>2. instr.a # x /\ \A s \in Sections : module[s].elts # x
        BY ZenonT(60), <2>1, <3>1, <1>6
    <3> QED BY ZenonT(60), <3>2
  <2>6. cells # {} \/ secs # {} \/ instr.a = x
      BY ZenonT(60), <1>7
  <2> HIDE DEF cells, secs
  <2>7. (cells # {} => \E p \in cells : cells = {p}) /\ (secs # {} => \E s \in secs : secs = {s})
      BY ZenonT(60), <2>2, <2>3
  <2> QED BY ZenonT(60), <2>4, <2>5, <2>6, <2>7 DEF cells, secs
<1> QED BY ZenonT(60), <1>4, <1>8
=============================================================================
