--------------------------- MODULE ParseHeapProof ---------------------------
(***************************************************************************)
(* The laws of the heap, for any heap: allocating a block without pointers *)
(* or the array of a section, releasing the labels of a br_table, moving a *)
(* list to append an instruction, and the three kinds of step of the       *)
(* release (it starts, visits a cell, frees an array whose loop is over).  *)
(***************************************************************************)
EXTENDS ParseInv

(* Leaves that name no prover: how long each is tried, and in which order. *)
USE SMTT(20), ZenonT(20), SMTT(40), Z3T(60)

-----------------------------------------------------------------------------
\* Arrays of the same lengths have the same places.
LEMMA SamePlaces ==
    ASSUME NEW m, NEW n, DOMAIN n = DOMAIN m, \A x \in DOMAIN m : DOMAIN n[x] = DOMAIN m[x]
    PROVE  PlacesOf(n) = PlacesOf(m)
<1>1. ASSUME NEW p \in PlacesOf(n) PROVE p \in PlacesOf(m)
  <2>1. p.blk \in DOMAIN m /\ p.i \in DOMAIN m[p.blk] /\ p.f \in Names /\ p = At(p.blk, p.i, p.f)
      BY ZenonT(60), PlaceFacts
  <2> QED BY <2>1, AtPlace
<1>2. ASSUME NEW p \in PlacesOf(m) PROVE p \in PlacesOf(n)
  <2>1. p.blk \in DOMAIN n /\ p.i \in DOMAIN n[p.blk] /\ p.f \in Names /\ p = At(p.blk, p.i, p.f)
      BY ZenonT(60), PlaceFacts
  <2> QED BY <2>1, AtPlace
<1> QED BY ZenonT(60), <1>1, <1>2

\* What makes a heap.
LEMMA MakeHeap ==
    ASSUME NEW D, NEW m, m = [x \in D |-> m[x]], \A x \in D : m[x] \in Seq(Cells)
    PROVE  IsHeap(m)
<1>1. DOMAIN m = D
    BY ZenonT(60)
<1>2. m \in [D -> Seq(Cells)]
    BY ZenonT(60)
<1> QED BY ZenonT(60), <1>1, <1>2 DEF IsHeap

\* The cell of a place.
LEMMA CellFacts ==
    ASSUME NEW m, IsHeap(m), NEW p \in PlacesOf(m)
    PROVE  /\ m[p.blk] \in Seq(Cells) /\ p.i \in 1..Len(m[p.blk])
           /\ m[p.blk][p.i] \in Cells /\ Ptr(m, p) \in Nat
<1>1. p.blk \in DOMAIN m /\ p.i \in DOMAIN m[p.blk]
    BY ZenonT(60), PlaceFacts
<1>2. m[p.blk] \in Seq(Cells) /\ p.i \in 1..Len(m[p.blk])
    BY ZenonT(60), <1>1, HeapBlock
<1>3. m[p.blk][p.i] \in Cells
    BY <1>2
<1> QED BY ZenonT(60), <1>2, <1>3 DEF Ptr, Cells

\* The cell after a store into its field f.
With(cell, f, q) == IF f = "a" THEN [cell EXCEPT !.a = q] ELSE [cell EXCEPT !.b = q]

IsWith(new, cell, f, q) ==
    /\ new \in Cells /\ new.op = cell.op
    /\ new.a = (IF f = "a" THEN q ELSE cell.a)
    /\ new.b = (IF f = "a" THEN cell.b ELSE q)

\* A store changes one field of a cell.
LEMMA WithFacts ==
    ASSUME NEW cell \in Cells, NEW f \in Names, NEW q \in Nat
    PROVE  IsWith(With(cell, f, q), cell, f, q)
BY ZenonT(60) DEF IsWith, With, Cells, Names

\* A store changes one cell.
LEMMA StoreCells ==
    ASSUME NEW m, IsHeap(m), NEW p \in PlacesOf(m), NEW q \in Nat
    PROVE  /\ DOMAIN Store(m, p, q) = DOMAIN m
           /\ \A x \in DOMAIN m : x # p.blk => Store(m, p, q)[x] = m[x]
           /\ Store(m, p, q)[p.blk] = [m[p.blk] EXCEPT ![p.i] = With(m[p.blk][p.i], p.f, q)]
<1>1. p.blk \in DOMAIN m
    BY ZenonT(60), PlaceFacts
<1>2. Store(m, p, q) = [m EXCEPT ![p.blk] = [m[p.blk] EXCEPT ![p.i] = With(m[p.blk][p.i], p.f, q)]]
    BY ZenonT(60), <1>1 DEF Store, With
<1> HIDE DEF With
<1> QED BY ZenonT(60), <1>1, <1>2

\* An assignment to one element of a sequence.
LEMMA SeqExcept ==
    ASSUME NEW S, NEW s \in Seq(S), NEW i \in 1..Len(s), NEW e \in S
    PROVE  /\ [s EXCEPT ![i] = e] \in Seq(S)
           /\ Len([s EXCEPT ![i] = e]) = Len(s)
           /\ \A j \in 1..Len(s) : [s EXCEPT ![i] = e][j] = IF j = i THEN e ELSE s[j]
OBVIOUS

\* Heap n is m with pointer q in field p.
Stored(m, n, p, q) ==
    /\ DOMAIN n = DOMAIN m
    /\ \A x \in DOMAIN m : x # p.blk => n[x] = m[x]
    /\ \A x \in DOMAIN m : Len(n[x]) = Len(m[x])
    /\ \A x \in DOMAIN m : \A i \in DOMAIN m[x] : n[x][i].op = m[x][i].op
    /\ Held(n) = [Held(m) EXCEPT ![p] = q]

\* A store into a place.
LEMMA StoreFacts ==
    ASSUME NEW m, IsHeap(m), NEW p \in PlacesOf(m), NEW q \in Nat
    PROVE  IsHeap(Store(m, p, q)) /\ Stored(m, Store(m, p, q), p, q)
<1> DEFINE n == Store(m, p, q)
           new == With(m[p.blk][p.i], p.f, q)
<1>1. /\ p.blk \in DOMAIN m /\ m[p.blk] \in Seq(Cells) /\ p.i \in 1..Len(m[p.blk])
      /\ p.f \in Names /\ m[p.blk][p.i] \in Cells
    BY ZenonT(60), PlaceFacts, CellFacts
<1>2. /\ DOMAIN n = DOMAIN m
      /\ \A x \in DOMAIN m : x # p.blk => n[x] = m[x]
      /\ n[p.blk] = [m[p.blk] EXCEPT ![p.i] = new]
    BY StoreCells
<1>3. IsWith(new, m[p.blk][p.i], p.f, q)
    BY ZenonT(60), <1>1, WithFacts
<1>4. /\ n[p.blk] \in Seq(Cells) /\ Len(n[p.blk]) = Len(m[p.blk])
      /\ \A j \in 1..Len(m[p.blk]) : n[p.blk][j] = IF j = p.i THEN new ELSE m[p.blk][j]
  <2> HIDE DEF new
  <2>1. new \in Cells
      BY ZenonT(60), <1>3 DEF IsWith
  <2> QED BY <1>1, <1>2, <2>1, SeqExcept
<1>5. n = [x \in DOMAIN m |-> n[x]]
    BY ZenonT(60), <1>1 DEF Store
<1> HIDE DEF n, new
<1>6. \A x \in DOMAIN m : n[x] \in Seq(Cells) /\ Len(n[x]) = Len(m[x])
    BY ZenonT(60), <1>2, <1>4, HeapBlock
<1>7. IsHeap(n)
    BY ZenonT(60), <1>2, <1>5, <1>6, MakeHeap
<1>8. \A x \in DOMAIN m : DOMAIN n[x] = DOMAIN m[x]
  <2> TAKE x \in DOMAIN m
  <2>1. m[x] \in Seq(Cells) /\ n[x] \in Seq(Cells) /\ Len(n[x]) = Len(m[x])
      BY ZenonT(60), <1>6, HeapBlock
  <2> QED BY <2>1
<1>9. \A x \in DOMAIN m : \A i \in DOMAIN m[x] : n[x][i].op = m[x][i].op
  <2> TAKE x \in DOMAIN m
  <2> TAKE i \in DOMAIN m[x]
  <2>1. CASE x = p.blk
    <3>1. i \in 1..Len(m[p.blk])
        BY <1>1, <2>1
    <3> QED BY ZenonT(60), <3>1, <2>1, <1>3, <1>4 DEF IsWith
  <2>2. CASE x # p.blk
      BY ZenonT(60), <2>2, <1>2
  <2> QED BY ZenonT(60), <2>1, <2>2
<1>10. PlacesOf(n) = PlacesOf(m)
    BY ZenonT(60), <1>2, <1>8, SamePlaces
<1>11. \A s \in PlacesOf(m) : Ptr(n, s) = IF s = p THEN q ELSE Ptr(m, s)
  <2> TAKE s \in PlacesOf(m)
  <2>1. /\ s.blk \in DOMAIN m /\ s.i \in DOMAIN m[s.blk] /\ s.f \in Names
        /\ s = At(s.blk, s.i, s.f) /\ p = At(p.blk, p.i, p.f)
      BY ZenonT(60), PlaceFacts
  <2>2. CASE s.blk # p.blk
      BY ZenonT(60), <2>1, <2>2, <1>2 DEF Ptr
  <2>3. CASE s.blk = p.blk /\ s.i # p.i
    <3>1. s.i \in 1..Len(m[p.blk])
        BY <1>1, <2>1, <2>3
    <3> QED BY ZenonT(60), <3>1, <2>1, <2>3, <1>4 DEF Ptr
  <2>4. CASE s.blk = p.blk /\ s.i = p.i
    <3>1. n[s.blk][s.i] = new
        BY ZenonT(60), <1>1, <2>4, <1>4
    <3>2. s = p <=> s.f = p.f
        BY ZenonT(60), <2>1, <2>4 DEF At
    <3> QED BY ZenonT(60), <3>1, <3>2, <2>1, <2>4, <1>1, <1>3 DEF Ptr, Names, IsWith
  <2> QED BY ZenonT(60), <2>2, <2>3, <2>4
<1>12. Held(n) = [Held(m) EXCEPT ![p] = q]
    BY ZenonT(60), <1>10, <1>11 DEF Held
<1> QED BY ZenonT(60), <1>2, <1>6, <1>7, <1>9, <1>12 DEF n, Stored

-----------------------------------------------------------------------------
\* A null field may hold a new block.
LEMMA HoldNew ==
    ASSUME NEW D, NEW h, NEW R, NEW p \in DOMAIN h, NEW b,
           Owned(D, h, R), h[p] = Null, b \notin D, b # Null, Null \notin D
    PROVE  Owned(D \cup {b}, [h EXCEPT ![p] = b], R)
<1> DEFINE g == [h EXCEPT ![p] = b]
<1>1. DOMAIN g = DOMAIN h /\ g[p] = b /\ \A q \in DOMAIN h : q # p => g[q] = h[q]
    BY ZenonT(60)
<1> HIDE DEF g
<1>2. \A q \in DOMAIN h : h[q] # b
    BY ZenonT(60) DEF Owned
<1>3. \A q, s \in DOMAIN g : g[q] = g[s] => q = s \/ g[q] = Null
    BY <1>1, <1>2 DEF Owned
<1>4. \A q \in DOMAIN g, k \in DOMAIN R : g[q] = R[k] => R[k] = Null
    BY <1>1 DEF Owned
<1>5. ASSUME NEW x \in D \cup {b}
      PROVE  (\E q \in DOMAIN g : g[q] = x) \/ (\E k \in DOMAIN R : R[k] = x)
  <2>1. CASE x = b
      BY ZenonT(60), <2>1, <1>1
  <2>2. CASE x # b /\ \E q \in DOMAIN h : h[q] = x
    <3> PICK q \in DOMAIN h : h[q] = x
        BY ZenonT(60), <2>2
    <3>1. CASE q # p
        BY ZenonT(60), <3>1, <1>1
    <3>2. CASE q = p
        BY ZenonT(60), <3>2, <2>2
    <3> QED BY ZenonT(60), <3>1, <3>2
  <2> QED BY ZenonT(60), <2>1, <2>2 DEF Owned
<1> QED BY ZenonT(60), <1>1, <1>3, <1>4, <1>5 DEF Owned, g

\* A null root may hold a new block.
LEMMA RootNew ==
    ASSUME NEW D, NEW h, NEW R, NEW k \in DOMAIN R, NEW b,
           Owned(D, h, R), R[k] = Null, b \notin D, b # Null, Null \notin D
    PROVE  Owned(D \cup {b}, h, [R EXCEPT ![k] = b])
<1> DEFINE S == [R EXCEPT ![k] = b]
<1>1. DOMAIN S = DOMAIN R /\ S[k] = b /\ \A l \in DOMAIN R : l # k => S[l] = R[l]
    BY ZenonT(60)
<1> HIDE DEF S
<1>2. \A l, j \in DOMAIN S : S[l] = S[j] => l = j \/ S[l] = Null
    BY <1>1 DEF Owned
<1>3. \A q \in DOMAIN h, l \in DOMAIN S : h[q] = S[l] => S[l] = Null
    BY <1>1 DEF Owned
<1>4. ASSUME NEW x \in D \cup {b}
      PROVE  (\E q \in DOMAIN h : h[q] = x) \/ (\E l \in DOMAIN S : S[l] = x)
    BY <1>1 DEF Owned
<1> QED BY ZenonT(60), <1>1, <1>2, <1>3, <1>4 DEF Owned, S

\* A block that a root holds may be released.
LEMMA RootDrop ==
    ASSUME NEW D, NEW h, NEW R, NEW k \in DOMAIN R, Owned(D, h, R), R[k] # Null
    PROVE  Owned(D \ {R[k]}, h, [R EXCEPT ![k] = Null])
BY ZenonT(60) DEF Owned

\* Fields that hold nothing may come in addition.
More(h, g) ==
    /\ DOMAIN h \subseteq DOMAIN g
    /\ \A p \in DOMAIN h : g[p] = h[p]
    /\ \A p \in DOMAIN g : p \notin DOMAIN h => g[p] = Null

\* More null fields change nothing.
LEMMA MoreOwned ==
    ASSUME NEW D, NEW h, NEW g, NEW R, NEW r, Owned(D, h, R), More(h, g), Ranked(h, r)
    PROVE  Owned(D, g, R) /\ Ranked(g, r)
<1>1. \A p \in DOMAIN g : g[p] # Null => p \in DOMAIN h /\ g[p] = h[p]
    BY ZenonT(60) DEF More
<1>2. \A p \in DOMAIN h : p \in DOMAIN g /\ g[p] = h[p]
    BY ZenonT(60) DEF More
<1>3. Ranked(g, r)
    BY ZenonT(60), <1>1 DEF Ranked
<1>4. Owned(D, g, R)
    BY <1>1, <1>2 DEF Owned
<1> QED BY ZenonT(60), <1>3, <1>4

\* The fields of g but p and e are those of h but p, under another name.
Renamed(h, g, o, p, e) ==
    /\ \A q \in DOMAIN g : \/ q = p \/ q = e \/ g[q] = Null
                           \/ o[q] \in DOMAIN h /\ o[q] # p /\ g[q] = h[o[q]]
    /\ \A q, s \in DOMAIN g : q \notin {p, e} /\ s \notin {p, e} /\ o[q] = o[s] => q = s \/ g[q] = Null
    /\ \A s \in DOMAIN h : s # p => h[s] = Null \/ \E q \in DOMAIN g : q # p /\ q # e /\ g[q] = h[s]

\* The block behind p moves to b, with a new field e that takes over root k.
LEMMA Moved ==
    ASSUME NEW D, NEW h, NEW R, NEW g, NEW o, NEW p \in DOMAIN h, NEW e, NEW b, NEW k \in DOMAIN R,
           Owned(D, h, R), b \notin D, b # Null, p # e, p \in DOMAIN g, e \in DOMAIN g,
           g[p] = b, g[e] = R[k], Renamed(h, g, o, p, e)
    PROVE  Owned((D \ {h[p]}) \cup {b}, g, [R EXCEPT ![k] = Null])
<1> /\ \A q \in DOMAIN g : \/ q = p \/ q = e \/ g[q] = Null
                           \/ o[q] \in DOMAIN h /\ o[q] # p /\ g[q] = h[o[q]]
    /\ \A q, s \in DOMAIN g : q \notin {p, e} /\ s \notin {p, e} /\ o[q] = o[s] => q = s \/ g[q] = Null
    /\ \A s \in DOMAIN h : s # p => h[s] = Null \/ \E q \in DOMAIN g : q # p /\ q # e /\ g[q] = h[s]
    BY ZenonT(60) DEF Renamed
<1> DEFINE S == [R EXCEPT ![k] = Null]
           E == (D \ {h[p]}) \cup {b}
<1>1. \A l \in DOMAIN R : l \in DOMAIN S /\ S[l] = IF l = k THEN Null ELSE R[l]
    BY ZenonT(60)
<1>2. DOMAIN S = DOMAIN R
    BY ZenonT(60)
<1> HIDE DEF S
<1>3. \A q \in DOMAIN g : g[q] \in E \cup {Null}
  <2> TAKE q \in DOMAIN g
  <2>1. CASE q = p
      BY ZenonT(60), <2>1
  <2>2. CASE q = e
      BY <2>2 DEF Owned
  <2>3. CASE o[q] \in DOMAIN h /\ o[q] # p /\ g[q] = h[o[q]]
      BY <2>3 DEF Owned
  <2> QED BY ZenonT(60), <2>1, <2>2, <2>3
<1>4. \A l \in DOMAIN S : S[l] \in E \cup {Null}
    BY <1>1, <1>2 DEF Owned
<1>5. \A q, s \in DOMAIN g : g[q] = g[s] => q = s \/ g[q] = Null
  <2>1. \A q \in DOMAIN g : q # p /\ g[q] # Null => g[q] # b
      BY DEF Owned
  <2>2. \A q \in DOMAIN g : q # p /\ q # e /\ g[q] # Null => g[q] # R[k]
      BY DEF Owned
  <2> SUFFICES ASSUME NEW q \in DOMAIN g, NEW s \in DOMAIN g, g[q] = g[s], g[q] # Null, q # s
               PROVE  FALSE
      BY ZenonT(60)
  <2>3. q # p /\ s # p
      BY ZenonT(60), <2>1
  <2>4. q # e /\ s # e
      BY ZenonT(60), <2>2, <2>3
  <2>5. /\ o[q] \in DOMAIN h /\ g[q] = h[o[q]]
        /\ o[s] \in DOMAIN h /\ g[s] = h[o[s]]
      BY ZenonT(60), <2>3, <2>4
  <2>6. \A t, u \in DOMAIN h : h[t] = h[u] => t = u \/ h[t] = Null
      BY ZenonT(60) DEF Owned
  <2>7. h[o[q]] = h[o[s]] /\ h[o[q]] # Null
      BY ZenonT(60), <2>5
  <2>8. o[q] = o[s]
      BY ZenonT(60), <2>5, <2>6, <2>7
  <2> QED BY ZenonT(60), <2>3, <2>4, <2>8
<1>6. \A l, j \in DOMAIN S : S[l] = S[j] => l = j \/ S[l] = Null
    BY <1>1, <1>2 DEF Owned
<1>7. \A q \in DOMAIN g, l \in DOMAIN S : g[q] = S[l] => S[l] = Null
  <2> TAKE q \in DOMAIN g, l \in DOMAIN S
  <2>1. CASE q = p
      BY <2>1, <1>1, <1>2 DEF Owned
  <2>2. CASE q = e
    <3>1. g[q] = R[k] /\ l \in DOMAIN R /\ S[l] = IF l = k THEN Null ELSE R[l]
        BY ZenonT(60), <2>2, <1>1, <1>2
    <3>2. R[k] = R[l] => k = l \/ R[k] = Null
        BY ZenonT(60), <3>1 DEF Owned
    <3> QED BY ZenonT(60), <3>1, <3>2
  <2>3. CASE o[q] \in DOMAIN h /\ o[q] # p /\ g[q] = h[o[q]]
      BY <2>3, <1>1, <1>2 DEF Owned
  <2>4. CASE g[q] = Null
      BY ZenonT(60), <2>4
  <2> QED BY ZenonT(60), <2>1, <2>2, <2>3, <2>4
<1>8. ASSUME NEW x \in E
      PROVE  (\E q \in DOMAIN g : g[q] = x) \/ (\E l \in DOMAIN S : S[l] = x)
  <2>1. CASE x = b
      BY ZenonT(60), <2>1
  <2>2. CASE x # b /\ \E s \in DOMAIN h : h[s] = x
    <3> PICK s \in DOMAIN h : h[s] = x
        BY ZenonT(60), <2>2
    <3>1. x # h[p]
        BY ZenonT(60), <2>2
    <3>2. CASE x # Null
        BY ZenonT(60), <3>1, <3>2
    <3>3. CASE x = Null
        BY ZenonT(60), <3>3, <1>1, <1>2
    <3> QED BY ZenonT(60), <3>2, <3>3
  <2>3. CASE x # b /\ \E l \in DOMAIN R : R[l] = x
    <3> PICK l \in DOMAIN R : R[l] = x
        BY ZenonT(60), <2>3
    <3> QED BY ZenonT(60), <1>1, <1>2
  <2> QED BY ZenonT(60), <2>1, <2>2, <2>3 DEF Owned
<1> QED BY ZenonT(60), <1>3, <1>4, <1>5, <1>6, <1>7, <1>8 DEF Owned, S, E

-----------------------------------------------------------------------------
\* An allocation.
LEMMA ExtendFacts ==
    ASSUME NEW m, IsHeap(m), NEW b, b \notin DOMAIN m, NEW c \in Seq(Cells)
    PROVE  IsHeap(Extend(m, b, c)) /\ Extended(m, Extend(m, b, c), b, c)
<1> DEFINE n == Extend(m, b, c)
           D == DOMAIN m \cup {b}
<1>1. /\ DOMAIN n = D /\ n[b] = c /\ \A x \in DOMAIN m : n[x] = m[x]
      /\ n = [x \in D |-> n[x]]
    BY ZenonT(60) DEF Extend
<1> HIDE DEF n
<1>2. \A x \in DOMAIN m : m[x] \in Seq(Cells)
    BY ZenonT(60), HeapBlock
<1>3. \A x \in D : n[x] \in Seq(Cells)
    BY <1>1, <1>2, ZenonT(60)
<1> HIDE DEF D
<1>4. IsHeap(n)
    BY ZenonT(60), <1>1, <1>3, MakeHeap
<1> QED BY ZenonT(60), <1>1, <1>4 DEF n, D, Extended

\* An allocation of a block without pointers.
LEMMA LeafFacts ==
    ASSUME NEW m, IsHeap(m), NEW b, b \notin DOMAIN m
    PROVE  IsHeap(Extend(m, b, <<>>)) /\ Extended(m, Extend(m, b, <<>>), b, <<>>)
BY EmptySeq, ExtendFacts, ZenonT(60)

\* The fields that come with block b hold what is in c.
ExtendedHeld(m, n, b, c) ==
    /\ \A p \in PlacesOf(m) : p \in PlacesOf(n) /\ Ptr(n, p) = Ptr(m, p)
    /\ \A p \in PlacesOf(n) :
          \/ p \in PlacesOf(m)
          \/ p.blk = b /\ p.i \in DOMAIN c /\ Ptr(n, p) \in {c[p.i].a, c[p.i].b}

\* The pointers after an allocation.
LEMMA ExtendHeld ==
    ASSUME NEW m, NEW n, NEW b, NEW c, b \notin DOMAIN m, Extended(m, n, b, c)
    PROVE  ExtendedHeld(m, n, b, c)
<1>1. DOMAIN n = DOMAIN m \cup {b} /\ n[b] = c /\ \A x \in DOMAIN m : n[x] = m[x]
    BY ZenonT(60) DEF Extended
<1>2. ASSUME NEW p \in PlacesOf(m) PROVE p \in PlacesOf(n) /\ Ptr(n, p) = Ptr(m, p)
  <2>1. p.blk \in DOMAIN m /\ p.i \in DOMAIN m[p.blk] /\ p.f \in Names /\ p = At(p.blk, p.i, p.f)
      BY ZenonT(60), PlaceFacts
  <2>2. p.blk \in DOMAIN n /\ n[p.blk] = m[p.blk]
      BY ZenonT(60), <2>1, <1>1
  <2>3. p.i \in DOMAIN n[p.blk]
      BY ZenonT(60), <2>1, <2>2
  <2>4. At(p.blk, p.i, p.f) \in PlacesOf(n)
      BY ZenonT(60), <2>1, <2>2, <2>3, AtPlace
  <2> QED BY ZenonT(60), <2>1, <2>2, <2>4 DEF Ptr
<1>3. ASSUME NEW p \in PlacesOf(n), p \notin PlacesOf(m)
      PROVE  p.blk = b /\ p.i \in DOMAIN c /\ Ptr(n, p) \in {c[p.i].a, c[p.i].b}
  <2>1. p.blk \in DOMAIN n /\ p.i \in DOMAIN n[p.blk] /\ p.f \in Names /\ p = At(p.blk, p.i, p.f)
      BY ZenonT(60), PlaceFacts
  <2>2. CASE p.blk \in DOMAIN m
    <3>1. p.i \in DOMAIN m[p.blk]
        BY ZenonT(60), <1>1, <2>1, <2>2
    <3>2. At(p.blk, p.i, p.f) \in PlacesOf(m)
        BY ZenonT(60), <2>1, <2>2, <3>1, AtPlace
    <3> QED BY ZenonT(60), <2>1, <3>2, <1>3
  <2>3. CASE p.blk \notin DOMAIN m
    <3>1. p.blk = b /\ n[p.blk] = c
        BY ZenonT(60), <2>1, <2>3, <1>1
    <3> QED BY ZenonT(60), <2>1, <3>1 DEF Ptr
  <2> QED BY ZenonT(60), <2>2, <2>3
<1> QED BY ZenonT(60), <1>2, <1>3 DEF ExtendedHeld

\* A block without pointers adds no pointer.
LEMMA ExtendLeaf ==
    ASSUME NEW m, NEW n, NEW b, b \notin DOMAIN m, Extended(m, n, b, <<>>)
    PROVE  Held(n) = Held(m)
<1>1. ExtendedHeld(m, n, b, <<>>)
    BY ExtendHeld, ZenonT(60)
<1>2. /\ \A p \in PlacesOf(m) : p \in PlacesOf(n) /\ Ptr(n, p) = Ptr(m, p)
      /\ \A p \in PlacesOf(n) : p \in PlacesOf(m)
    BY ZenonT(60), <1>1, EmptySeq DEF ExtendedHeld
<1>3. PlacesOf(n) = PlacesOf(m)
    BY ZenonT(60), <1>2
<1> QED BY ZenonT(60), <1>2, <1>3 DEF Held

\* What a field owns depends on its cell and on the block it points to.
LEMMA ShapedSame ==
    ASSUME NEW m, NEW n, NEW md, NEW p, NEW q, ShapedAt(m, md, p, q),
           n[p.blk][p.i].op = m[p.blk][p.i].op, m[q] = <<>> => n[q] = <<>>
    PROVE  ShapedAt(n, md, p, q)
BY ZenonT(60) DEF ShapedAt, OwnsList, OwnsLeaf

\* A pointer to a new block closes no cycle.
LEMMA RankNew ==
    ASSUME NEW D, NEW h, NEW R, NEW p \in DOMAIN h, NEW b \in Nat, NEW r \in [Nat -> Nat],
           Owned(D, h, R), \A q \in DOMAIN h : q.blk \in D, D \subseteq Nat,
           Ranked(h, r), b \notin D, b # Null
    PROVE  \E s \in [Nat -> Nat] : Ranked([h EXCEPT ![p] = b], s)
<1> DEFINE g == [h EXCEPT ![p] = b]
           s == [r EXCEPT ![b] = r[p.blk] + 1]
<1>1. DOMAIN g = DOMAIN h /\ g[p] = b /\ \A q \in DOMAIN h : q # p => g[q] = h[q]
    BY ZenonT(60)
<1>2. p.blk \in Nat /\ r[p.blk] \in Nat
    BY ZenonT(60)
<1>3. s \in [Nat -> Nat] /\ s[b] = r[p.blk] + 1 /\ \A x \in D : s[x] = r[x]
    BY <1>2
<1> HIDE DEF g, s
<1>4. Ranked(g, s)
  <2> SUFFICES ASSUME NEW q \in DOMAIN h, g[q] # Null PROVE s[q.blk] < s[g[q]]
      BY ZenonT(60), <1>1 DEF Ranked
  <2>1. s[q.blk] = r[q.blk]
      BY ZenonT(60), <1>3
  <2>2. CASE q = p
      BY <2>1, <2>2, <1>1, <1>2, <1>3
  <2>3. CASE q # p
    <3>1. h[q] \in D /\ g[q] = h[q]
        BY ZenonT(60), <2>3, <1>1 DEF Owned
    <3>2. s[h[q]] = r[h[q]]
        BY ZenonT(60), <3>1, <1>3
    <3>3. r[q.blk] < r[h[q]]
        BY ZenonT(60), <3>1 DEF Ranked
    <3> QED BY ZenonT(60), <2>1, <3>1, <3>2, <3>3
  <2> QED BY ZenonT(60), <2>2, <2>3
<1> QED BY ZenonT(60), <1>3, <1>4 DEF g

-----------------------------------------------------------------------------
\* The roots after the instruction changed.
LEMMA RootsInstr ==
    ASSUME NEW md, NEW ins, NEW new
    PROVE  Roots(md, new) = [Roots(md, ins) EXCEPT !["instr"] = new.a]
BY ZenonT(60) DEF Roots

\* The roots after a section changed.
LEMMA RootsSection ==
    ASSUME NEW md \in [Sections -> Arrays], NEW ins, NEW s \in Sections, NEW e \in Arrays
    PROVE  Roots([md EXCEPT ![s] = e], ins) = [Roots(md, ins) EXCEPT ![s] = e.elts]
<1>1. s # "instr"
    BY ZenonT(60), SectionsAre
<1>2. \A k \in Sections : [md EXCEPT ![s] = e][k] = IF k = s THEN e ELSE md[k]
    BY ZenonT(60)
<1> QED BY ZenonT(60), <1>1, <1>2 DEF Roots

\* Nothing points to a block that is not yet allocated.
LEMMA OldBlocks ==
    ASSUME NEW m, NEW md, NEW ins, NEW b, HeapType(m, md, b),
           Owned(DOMAIN m, Held(m), Roots(md, ins))
    PROVE  /\ \A s \in Sections : md[s].elts # b
           /\ \A p \in PlacesOf(m) : Ptr(m, p) # b /\ p.blk # b
           /\ ins.a # b
<1>1. b # Null /\ b \notin DOMAIN m
    BY ZenonT(60), HeapFacts
<1>2. \A s \in Sections : md[s].elts # b
    BY <1>1, RootsFacts DEF Owned
<1>3. \A p \in PlacesOf(m) : Ptr(m, p) # b /\ p.blk # b
    BY <1>1, HeldFacts DEF Owned
<1>4. ins.a # b
    BY <1>1, RootsFacts DEF Owned
<1> QED BY ZenonT(60), <1>2, <1>3, <1>4

\* A string, buffer or vector is allocated for field p.
LEMMA LeafStored ==
    ASSUME NEW m, NEW md, NEW ins, NEW b, NEW p, WellFormed(m, md, ins, b), StorePre(m, md, p),
           NEW n, n = StoreLeaf(m, p, b)
    PROVE  LeafMade(m, n, md, ins, p, b)
<1> HeapType(m, md, b) /\ Sound(m, md, Held(m), Roots(md, ins))
    BY ZenonT(60) DEF WellFormed
<1> p \in PlacesOf(m) /\ Ptr(m, p) = Null /\ n = Extend(Store(m, p, b), b, <<>>)
    BY ZenonT(60) DEF StorePre, StoreLeaf
<1>0. \A o \in Roles : HasRole(md, p.blk, o) => OwnsLeaf(o, m[p.blk][p.i], p.f)
    BY ZenonT(60) DEF StorePre
<1> DEFINE w == Store(m, p, b)
           D == DOMAIN m
           h == Held(m)
           g == [h EXCEPT ![p] = b]
           R == Roots(md, ins)
<1>1. /\ b \in Nat /\ b # Null /\ b \notin D /\ Null \notin D
      /\ D \subseteq Nat /\ IsHeap(m)
    BY ZenonT(60), HeapFacts
<1>2. IsHeap(w) /\ Stored(m, w, p, b)
    BY ZenonT(60), <1>1, StoreFacts
<1>3. IsHeap(n) /\ Extended(w, n, b, <<>>)
  <2>1. n = Extend(w, b, <<>>)
      BY ZenonT(60)
  <2>2. b \notin DOMAIN w
      BY ZenonT(60), <1>1, <1>2 DEF Stored
  <2> HIDE DEF w
  <2>3. IsHeap(Extend(w, b, <<>>)) /\ Extended(w, Extend(w, b, <<>>), b, <<>>)
      BY ZenonT(60), <1>2, <2>2, LeafFacts
  <2> QED BY ZenonT(60), <2>1, <2>3
<1> HIDE DEF w
<1>4. Held(n) = g
    BY ZenonT(60), <1>1, <1>2, <1>3, ExtendLeaf DEF Stored
<1>5. p \in DOMAIN h /\ h[p] = Null /\ p.blk \in D /\ DOMAIN g = DOMAIN h
    BY ZenonT(60), HeldFacts DEF Held
<1>6. \A s \in Sections : md[s].elts # b
    BY ZenonT(60), OldBlocks DEF Sound
<1>7. HeapType(n, md, b + 1)
  <2>1. DOMAIN n \subseteq 1..b
      BY <1>1, <1>2, <1>3 DEF HeapType, Null, Stored, Extended
  <2>2. \A s \in Sections : md[s].elts \in DOMAIN n => Len(n[md[s].elts]) = md[s].n
      BY ZenonT(60), <1>2, <1>3, <1>6 DEF HeapType, Stored, Extended
  <2>3. b \in Nat
      BY ZenonT(60), <1>1
  <2>4. (b + 1) - 1 = b /\ b + 1 \in Nat \ {0}
      BY <2>3
  <2> QED BY ZenonT(60), <1>3, <2>1, <2>2, <2>4 DEF HeapType
<1>8. Owned(D, h, R)
    BY ZenonT(60) DEF Sound
<1>9. Owned(D \cup {b}, g, R)
  <2> HIDE DEF D, h, R
  <2> QED BY ZenonT(60), <1>1, <1>5, <1>8, HoldNew
<1>10. \E s \in [Nat -> Nat] : Ranked(g, s)
  <2>1. PICK r \in [Nat -> Nat] : Ranked(h, r)
      BY ZenonT(60) DEF Sound
  <2>2. \A q \in DOMAIN h : q.blk \in D
      BY ZenonT(60), HeldFacts DEF Held
  <2> HIDE DEF D, h, R
  <2> QED BY ZenonT(60), <1>1, <1>5, <1>8, <2>1, <2>2, RankNew
<1>11. \A x \in D : m[x] = <<>> => n[x] = <<>>
  <2> SUFFICES ASSUME NEW x \in D, m[x] = <<>> PROVE n[x] = <<>>
      BY ZenonT(60)
  <2>1. n[x] = w[x] /\ w[x] \in Seq(Cells) /\ Len(w[x]) = 0
      BY ZenonT(60), <1>2, <1>3, HeapBlock, EmptySeq DEF Stored, Extended
  <2> QED BY <2>1
<1>12. Shaped(n, md, g)
  <2> SUFFICES ASSUME NEW q \in DOMAIN h, g[q] # Null PROVE ShapedAt(n, md, q, g[q])
      BY ZenonT(60), <1>5 DEF Shaped
  <2>1. q \in PlacesOf(m) /\ q.blk \in D /\ q.i \in DOMAIN m[q.blk]
      BY ZenonT(60), PlaceFacts DEF Held
  <2>2. n[q.blk][q.i].op = m[q.blk][q.i].op
      BY <1>2, <1>3, <2>1 DEF Stored, Extended
  <2>3. CASE q = p
    <3>1. g[q] = b
        BY ZenonT(60), <1>5, <2>3
    <3>2. \A o \in Roles : HasRole(md, q.blk, o) => OwnsLeaf(o, n[q.blk][q.i], q.f)
        BY ZenonT(60), <1>0, <2>2, <2>3 DEF OwnsLeaf
    <3> QED BY ZenonT(60), <3>1, <3>2, <1>3, <1>6 DEF ShapedAt, Extended
  <2>4. CASE q # p
    <3>1. g[q] = h[q] /\ h[q] \in D
        BY ZenonT(60), <2>4, <1>8 DEF Owned
    <3>2. ShapedAt(m, md, q, h[q])
        BY ZenonT(60), <3>1 DEF Sound, Shaped
    <3>3. m[h[q]] = <<>> => n[h[q]] = <<>>
        BY ZenonT(60), <3>1, <1>11
    <3>4. ShapedAt(n, md, q, h[q])
        BY ZenonT(60), <2>2, <3>2, <3>3, ShapedSame
    <3> QED BY ZenonT(60), <3>1, <3>4
  <2> QED BY ZenonT(60), <2>3, <2>4
<1>13. DOMAIN n = D \cup {b}
    BY ZenonT(60), <1>2, <1>3 DEF Stored, Extended
<1> QED BY ZenonT(60), <1>13, <1>4, <1>7, <1>9, <1>10, <1>12 DEF Sound, WellFormed, LeafMade

\* The labels of br_table are allocated for the instruction that is being read.
LEMMA LeafRooted ==
    ASSUME NEW m, NEW md, NEW ins, NEW b, NEW new,
           WellFormed(m, md, ins, b), ins.a = Null, new.a = b, NEW n, n = Extend(m, b, <<>>)
    PROVE  LabelsMade(m, n, md, new, b)
<1> HeapType(m, md, b) /\ Sound(m, md, Held(m), Roots(md, ins))
    BY ZenonT(60) DEF WellFormed
<1> DEFINE D == DOMAIN m
           h == Held(m)
           R == Roots(md, ins)
<1>1. /\ b \in Nat /\ b # Null /\ b \notin D /\ Null \notin D
      /\ D \subseteq Nat /\ IsHeap(m)
    BY ZenonT(60), HeapFacts
<1>2. IsHeap(n) /\ Extended(m, n, b, <<>>)
    BY ZenonT(60), <1>1, LeafFacts
<1>3. Held(n) = h
    BY ZenonT(60), <1>1, <1>2, ExtendLeaf
<1>4. Owned(D, h, R) /\ Shaped(m, md, h) /\ \E r \in [Nat -> Nat] : Ranked(h, r)
    BY ZenonT(60) DEF Sound
<1>5. \A s \in Sections : md[s].elts # b
    BY ZenonT(60), <1>4, OldBlocks
<1>6. HeapType(n, md, b + 1)
  <2>1. \A s \in Sections : md[s].elts \in DOMAIN n => Len(n[md[s].elts]) = md[s].n
      BY ZenonT(60), <1>2, <1>5 DEF HeapType, Extended
  <2>2. b \in Nat
      BY ZenonT(60), <1>1
  <2>3. (b + 1) - 1 = b /\ b + 1 \in Nat \ {0}
      BY <2>2
  <2>4. DOMAIN n \subseteq 1..b
      BY <1>2 DEF HeapType, Extended
  <2> QED BY ZenonT(60), <1>2, <2>1, <2>3, <2>4 DEF HeapType
<1>7. "instr" \in DOMAIN R /\ R["instr"] = Null /\ Roots(md, new) = [R EXCEPT !["instr"] = b]
    BY RootsFacts, RootsInstr
<1>8. Owned(D \cup {b}, h, [R EXCEPT !["instr"] = b])
  <2> HIDE DEF D, h, R
  <2> QED BY ZenonT(60), <1>1, <1>4, <1>7, RootNew
<1>9. Shaped(n, md, h)
  <2> SUFFICES ASSUME NEW q \in DOMAIN h, h[q] # Null PROVE ShapedAt(n, md, q, h[q])
      BY ZenonT(60) DEF Shaped
  <2>1. q.blk \in D /\ h[q] \in D /\ ShapedAt(m, md, q, h[q])
      BY ZenonT(60), <1>4, HeldFacts DEF Owned, Shaped, Held
  <2>2. n[q.blk] = m[q.blk] /\ n[h[q]] = m[h[q]]
      BY ZenonT(60), <1>2, <2>1 DEF Extended
  <2> QED BY ZenonT(60), <2>1, <2>2, ShapedSame
<1> QED BY ZenonT(60), <1>2, <1>3, <1>4, <1>6, <1>7, <1>8, <1>9 DEF Sound, Extended, WellFormed, LabelsMade

\* Heap n is m without block b.
Released(m, n, b) == DOMAIN n = DOMAIN m \ {b} /\ \A x \in DOMAIN m : x # b => n[x] = m[x]

\* A release.
LEMMA ReleaseFacts ==
    ASSUME NEW m, NEW b, IsHeap(m)
    PROVE  IsHeap(Release(m, b)) /\ Released(m, Release(m, b), b)
<1> DEFINE n == Release(m, b)
           D == DOMAIN m \ {b}
<1>1. DOMAIN n = D /\ n = [x \in D |-> n[x]] /\ \A x \in DOMAIN m : x # b => n[x] = m[x]
    BY ZenonT(60) DEF Release
<1> HIDE DEF n
<1>2. \A x \in D : n[x] \in Seq(Cells)
    BY ZenonT(60), <1>1, HeapBlock
<1> HIDE DEF D
<1>3. IsHeap(n)
    BY ZenonT(60), <1>1, <1>2, MakeHeap
<1> QED BY ZenonT(60), <1>1, <1>3 DEF n, D, Released

ReleasedHeld(m, n, b) ==
    /\ \A p \in PlacesOf(n) : p \in PlacesOf(m) /\ p.blk # b /\ Ptr(n, p) = Ptr(m, p)
    /\ \A p \in PlacesOf(m) : p.blk # b => p \in PlacesOf(n)

\* The pointers after a release.
LEMMA ReleaseHeld ==
    ASSUME NEW m, NEW n, NEW b, Released(m, n, b)
    PROVE  ReleasedHeld(m, n, b)
<1>1. DOMAIN n = DOMAIN m \ {b} /\ \A x \in DOMAIN m : x # b => n[x] = m[x]
    BY ZenonT(60) DEF Released
<1>2. ASSUME NEW p \in PlacesOf(n)
      PROVE  p \in PlacesOf(m) /\ p.blk # b /\ Ptr(n, p) = Ptr(m, p)
  <2>1. p.blk \in DOMAIN n /\ p.i \in DOMAIN n[p.blk] /\ p.f \in Names /\ p = At(p.blk, p.i, p.f)
      BY ZenonT(60), PlaceFacts
  <2>2. p.blk \in DOMAIN m /\ p.blk # b /\ n[p.blk] = m[p.blk]
      BY ZenonT(60), <1>1, <2>1
  <2>3. p.i \in DOMAIN m[p.blk]
      BY ZenonT(60), <2>1, <2>2
  <2>4. At(p.blk, p.i, p.f) \in PlacesOf(m)
      BY ZenonT(60), <2>1, <2>2, <2>3, AtPlace
  <2> QED BY ZenonT(60), <2>1, <2>2, <2>4 DEF Ptr
<1>3. ASSUME NEW p \in PlacesOf(m), p.blk # b PROVE p \in PlacesOf(n)
  <2>1. p.blk \in DOMAIN m /\ p.i \in DOMAIN m[p.blk] /\ p.f \in Names /\ p = At(p.blk, p.i, p.f)
      BY ZenonT(60), PlaceFacts
  <2>2. p.blk \in DOMAIN n /\ n[p.blk] = m[p.blk]
      BY ZenonT(60), <1>1, <1>3, <2>1
  <2>3. p.i \in DOMAIN n[p.blk]
      BY ZenonT(60), <2>1, <2>2
  <2> QED BY <2>1, <2>2, <2>3, AtPlace
<1> QED BY ZenonT(60), <1>2, <1>3 DEF ReleasedHeld

\* A block without cells has no places.
LEMMA LeafEmpty ==
    ASSUME NEW m, NEW b, m[b] = <<>>, NEW p \in PlacesOf(m)
    PROVE  p.blk # b
<1>1. p.i \in DOMAIN m[p.blk]
    BY ZenonT(60), PlaceFacts
<1> QED BY <1>1

\* free_instruction of the instruction that was being read.
LEMMA LeafDropped ==
    ASSUME NEW m, NEW md, NEW ins, NEW b, NEW new,
           WellFormed(m, md, ins, b),
           ins.a # Null, m[ins.a] = <<>>, new.a = Null, NEW n, n = Release(m, ins.a)
    PROVE  WellFormed(n, md, new, b)
<1> HeapType(m, md, b) /\ Sound(m, md, Held(m), Roots(md, ins))
    BY ZenonT(60) DEF WellFormed
<1> DEFINE D == DOMAIN m
           h == Held(m)
           R == Roots(md, ins)
           l == ins.a
<1>1. /\ b \in Nat /\ b # Null /\ b \notin D /\ Null \notin D
      /\ D \subseteq Nat /\ IsHeap(m)
    BY ZenonT(60), HeapFacts
<1>2. IsHeap(n) /\ Released(m, n, l)
    BY ZenonT(60), <1>1, ReleaseFacts
<1>3. Held(n) = h
  <2>1. \A p \in PlacesOf(m) : p.blk # l
      BY ZenonT(60), LeafEmpty
  <2>2. ReleasedHeld(m, n, l)
      BY ZenonT(60), <1>2, ReleaseHeld
  <2>3. PlacesOf(n) = PlacesOf(m)
      BY ZenonT(60), <2>1, <2>2 DEF ReleasedHeld
  <2> QED BY ZenonT(60), <2>2, <2>3 DEF Held, ReleasedHeld
<1>4. Owned(D, h, R) /\ Shaped(m, md, h) /\ \E r \in [Nat -> Nat] : Ranked(h, r)
    BY ZenonT(60) DEF Sound
<1>5. "instr" \in DOMAIN R /\ R["instr"] = l /\ Roots(md, new) = [R EXCEPT !["instr"] = Null]
    BY RootsFacts, RootsInstr
<1>6. HeapType(n, md, b)
    BY ZenonT(60), <1>2 DEF HeapType, Released
<1>7. Owned(D \ {l}, h, [R EXCEPT !["instr"] = Null])
  <2> HIDE DEF D, h, R
  <2> QED BY ZenonT(60), <1>4, <1>5, RootDrop
<1>8. Shaped(n, md, h)
  <2> SUFFICES ASSUME NEW q \in DOMAIN h, h[q] # Null PROVE ShapedAt(n, md, q, h[q])
      BY ZenonT(60) DEF Shaped
  <2>1. q.blk \in D /\ h[q] \in D /\ ShapedAt(m, md, q, h[q])
      BY ZenonT(60), <1>4, HeldFacts DEF Owned, Shaped, Held
  <2>2. q.blk # l
      BY ZenonT(60), LeafEmpty DEF Held
  <2>3. h[q] # l
    <3>1. \A p \in DOMAIN h, k \in DOMAIN R : h[p] = R[k] => R[k] = Null
        BY ZenonT(60), <1>4 DEF Owned
    <3>2. R["instr"] # Null
        BY ZenonT(60), <1>5
    <3> HIDE DEF h, R
    <3> QED BY ZenonT(60), <3>1, <3>2, <1>5
  <2>4. n[q.blk] = m[q.blk] /\ n[h[q]] = m[h[q]]
      BY ZenonT(60), <1>2, <2>1, <2>2, <2>3 DEF Released
  <2> QED BY ZenonT(60), <2>1, <2>4, ShapedSame
<1> QED BY ZenonT(60), <1>2, <1>3, <1>4, <1>5, <1>6, <1>7, <1>8 DEF Sound, Released, WellFormed

NewRoot(md, me, ins, s, b) == Roots(me, ins) = [Roots(md, ins) EXCEPT ![s] = b]

\* The array of a section is allocated.
LEMMA ArrayRooted ==
    ASSUME NEW m, NEW md, NEW ins, NEW b, NEW s, NEW k, NEW c, NEW n, NEW me,
           WellFormed(m, md, ins, b),
           NewSection(md, me, s, k, b), NewRoot(md, me, ins, s, b), NullCells(c, k),
           n = Extend(m, b, c)
    PROVE  ArrayMade(n, me, ins, b, k)
<1> HeapType(m, md, b) /\ Sound(m, md, Held(m), Roots(md, ins))
    BY ZenonT(60) DEF WellFormed
<1> DEFINE D == DOMAIN m
           h == Held(m)
           g == Held(n)
           R == Roots(md, ins)
<1>1. /\ b \in Nat /\ b # Null /\ b \notin D /\ Null \notin D
      /\ D \subseteq Nat /\ IsHeap(m)
    BY ZenonT(60), HeapFacts
<1>3. c \in Seq(Cells) /\ DOMAIN c = 1..k /\ Len(c) = k
    BY DEF NullCells
<1>5. IsHeap(n) /\ Extended(m, n, b, c)
    BY ZenonT(60), <1>1, <1>3, ExtendFacts
<1>6. ExtendedHeld(m, n, b, c)
    BY ZenonT(60), <1>1, <1>5, ExtendHeld
<1>7. More(h, g)
  <2>1. \A p \in PlacesOf(n) : p \notin PlacesOf(m) => Ptr(n, p) = Null
      BY ZenonT(60), <1>3, <1>6 DEF NullCells, ExtendedHeld
  <2> QED BY ZenonT(60), <1>6, <2>1 DEF More, Held, ExtendedHeld
<1>8. Owned(D, h, R) /\ Shaped(m, md, h)
    BY ZenonT(60) DEF Sound
<1>9. PICK r \in [Nat -> Nat] : Ranked(h, r)
    BY ZenonT(60) DEF Sound
<1>10. Owned(D, g, R) /\ Ranked(g, r)
  <2> HIDE DEF D, g, h, R
  <2> QED BY ZenonT(60), <1>7, <1>8, <1>9, MoreOwned
<1>11. s \in DOMAIN R /\ R[s] = Null /\ Roots(me, ins) = [R EXCEPT ![s] = b]
    BY RootsFacts DEF NewSection, NewRoot
<1>12. Owned(DOMAIN n, g, Roots(me, ins))
  <2> HIDE DEF D, g, h, R
  <2>1. Owned(D \cup {b}, g, [R EXCEPT ![s] = b])
      BY ZenonT(60), <1>1, <1>10, <1>11, RootNew
  <2> QED BY ZenonT(60), <1>5, <1>11, <2>1 DEF Extended, D
<1>14. \A t \in Sections : md[t].elts # b
    BY ZenonT(60), <1>8, OldBlocks
<1>15. HeapType(n, me, b + 1)
  <2>1. \A t \in Sections : me[t].elts \in DOMAIN n => Len(n[me[t].elts]) = me[t].n
    <3> TAKE t \in Sections
    <3>1. CASE t = s
        BY ZenonT(60), <3>1, <1>3, <1>5 DEF NewSection, Extended
    <3>2. CASE t # s
      <4>1. me[t] = md[t] /\ md[t].elts # b
          BY ZenonT(60), <3>2, <1>14 DEF NewSection
      <4>2. md[t].elts \in D => Len(m[md[t].elts]) = md[t].n
          BY ZenonT(60) DEF HeapType
      <4> QED BY ZenonT(60), <1>5, <4>1, <4>2 DEF Extended
    <3> QED BY ZenonT(60), <3>1, <3>2
  <2>2. b \in Nat
      BY ZenonT(60), <1>1
  <2>3. (b + 1) - 1 = b /\ b + 1 \in Nat \ {0}
      BY <2>2
  <2>4. DOMAIN n \subseteq 1..b
    <3>1. DOMAIN n = D \cup {b} /\ D \subseteq 1..(b - 1) /\ b # 0
        BY ZenonT(60), <1>5 DEF HeapType, Extended
    <3> HIDE DEF D
    <3> QED BY <2>2, <3>1
  <2> QED BY ZenonT(60), <1>5, <2>1, <2>3, <2>4 DEF HeapType
<1>16. Shaped(n, me, g)
  <2> SUFFICES ASSUME NEW q \in DOMAIN g, g[q] # Null PROVE ShapedAt(n, me, q, g[q])
      BY ZenonT(60) DEF Shaped
  <2>1. q \in PlacesOf(m) /\ g[q] = h[q] /\ q.blk \in D
      BY ZenonT(60), <1>7, HeldFacts DEF More, Held
  <2>2. h[q] \in D /\ ShapedAt(m, md, q, h[q])
      BY ZenonT(60), <1>8, <2>1 DEF Owned, Shaped, Held
  <2>3. n[q.blk] = m[q.blk] /\ n[h[q]] = m[h[q]]
      BY ZenonT(60), <1>5, <2>1, <2>2 DEF Extended
  <2>4. ShapedAt(n, md, q, h[q])
      BY ZenonT(60), <2>2, <2>3, ShapedSame
  <2>5. \A o \in Roles : HasRole(me, q.blk, o) => HasRole(md, q.blk, o)
    <3> TAKE o \in Roles
    <3>1. CASE o = "list"
        BY ZenonT(60), <3>1, <1>1, <2>1 DEF NewSection, HasRole
    <3>2. CASE o # "list"
        BY ZenonT(60), <3>2, <1>1, <2>1 DEF NewSection, HasRole, Roles
    <3> QED BY ZenonT(60), <3>1, <3>2
  <2>6. \A t \in Sections : me[t].elts # h[q]
      BY ZenonT(60), <1>1, <2>2 DEF ShapedAt, NewSection
  <2> QED BY ZenonT(60), <2>1, <2>4, <2>5, <2>6 DEF ShapedAt
<1>17. \A i \in 1..k, f \in Names : Ptr(n, At(b, i, f)) = Null
  <2>1. n[b] = c /\ \A i \in 1..k : c[i].a = Null /\ c[i].b = Null
      BY ZenonT(60), <1>5 DEF NullCells, Extended
  <2> QED BY ZenonT(60), <2>1 DEF Ptr, At
<1> QED BY ZenonT(60), <1>10, <1>12, <1>15, <1>16, <1>17 DEF Sound, WellFormed, ArrayMade

-----------------------------------------------------------------------------
\* The list behind a pointer.
LEMMA ListFacts ==
    ASSUME NEW m, IsHeap(m), NEW x \in DOMAIN m \cup {Null}
    PROVE  ListOf(m, x) \in Seq(Cells) /\ Len(ListOf(m, x)) \in Nat
<1>1. CASE x = Null
  <2>1. ListOf(m, x) = <<>>
      BY ZenonT(60), <1>1 DEF ListOf
  <2> QED BY ZenonT(60), <2>1, EmptySeq
<1>2. CASE x # Null
  <2>1. ListOf(m, x) = m[x] /\ x \in DOMAIN m
      BY ZenonT(60), <1>2 DEF ListOf
  <2> QED BY ZenonT(60), <2>1, HeapBlock
<1> QED BY ZenonT(60), <1>1, <1>2

\* A sequence with one element more.
LEMMA AppendSeq ==
    ASSUME NEW s \in Seq(Cells), NEW e \in Cells
    PROVE  /\ Append(s, e) \in Seq(Cells) /\ Len(Append(s, e)) = Len(s) + 1
           /\ Append(s, e)[Len(s) + 1] = e /\ \A i \in 1..Len(s) : Append(s, e)[i] = s[i]
OBVIOUS

\* What realloc and the assignment to the new last element do to the heap.
LEMMA AppendFacts ==
    ASSUME NEW m, NEW p \in PlacesOf(m), NEW b \in Nat, NEW cell \in Cells, NEW n,
           IsHeap(m), b \notin DOMAIN m, Ptr(m, p) \in DOMAIN m \cup {Null}, Ptr(m, p) # p.blk,
           Null \notin DOMAIN m, n = AppendAt(m, p, b, cell)
    PROVE  IsHeap(n) /\ AppendedTo(m, n, p, b, cell) /\ AppendedHeld(m, n, p, b)
<1> DEFINE old == Ptr(m, p)
           l == ListOf(m, old)
           c == Append(l, cell)
           v == Release(m, old)
           w == Extend(v, b, c)
<1>1. n = Store(w, p, b)
    BY ZenonT(60) DEF AppendAt, ListOf
<1>2. l \in Seq(Cells) /\ Len(l) \in Nat
    BY ZenonT(60), ListFacts
<1>3. /\ c \in Seq(Cells) /\ Len(c) = Len(l) + 1 /\ c[Len(l) + 1] = cell
      /\ \A i \in 1..Len(l) : c[i] = l[i]
  <2> HIDE DEF l
  <2> QED BY ZenonT(60), <1>2, AppendSeq
<1>4. p.blk \in DOMAIN m /\ p.i \in DOMAIN m[p.blk] /\ p.f \in Names /\ p = At(p.blk, p.i, p.f)
    BY ZenonT(60), PlaceFacts
<1>5. \A i \in 1..Len(l) : l[i] = m[old][i]
  <2>1. CASE old = Null
    <3>1. l = <<>>
        BY ZenonT(60), <2>1 DEF ListOf
    <3> QED BY <3>1, EmptySeq
  <2>2. CASE old # Null
      BY ZenonT(60), <2>2 DEF ListOf
  <2> QED BY ZenonT(60), <2>1, <2>2
<1> HIDE DEF old, l, c, v, w
<1>6. IsHeap(v) /\ Released(m, v, old)
    BY ZenonT(60), ReleaseFacts DEF v
<1>7. ReleasedHeld(m, v, old)
    BY ZenonT(60), <1>6, ReleaseHeld
<1>8. b \notin DOMAIN v
    BY ZenonT(60), <1>6 DEF Released
<1>9. IsHeap(w) /\ Extended(v, w, b, c)
    BY ZenonT(60), <1>3, <1>6, <1>8, ExtendFacts DEF w
<1>10. ExtendedHeld(v, w, b, c)
    BY ZenonT(60), <1>8, <1>9, ExtendHeld
<1>11. p \in PlacesOf(v) /\ p.blk # old
    BY ZenonT(60), <1>7 DEF ReleasedHeld, old
<1>12. p \in PlacesOf(w) /\ p.blk # b
    BY ZenonT(60), <1>10, <1>11, <1>4 DEF ExtendedHeld
<1>13. IsHeap(n) /\ Stored(w, n, p, b)
    BY ZenonT(60), <1>1, <1>9, <1>12, StoreFacts
<1>14. DOMAIN n = (DOMAIN m \ {old}) \cup {b}
    BY ZenonT(60), <1>6, <1>9, <1>13 DEF Released, Extended, Stored
<1>15. b \in DOMAIN w /\ n[b] = c
    BY ZenonT(60), <1>9, <1>12, <1>13 DEF Extended, Stored
<1>16. \A x \in DOMAIN m : x # old => x \in DOMAIN w /\ w[x] = m[x]
    BY ZenonT(60), <1>6, <1>9 DEF Released, Extended
<1>17. \A x \in DOMAIN m : x # old => Len(n[x]) = Len(m[x])
    BY ZenonT(60), <1>13, <1>16 DEF Stored
<1>18. \A x \in DOMAIN m : x # old /\ x # p.blk => n[x] = m[x]
    BY ZenonT(60), <1>13, <1>16 DEF Stored
<1>19. \A x \in DOMAIN m : x # old => \A i \in DOMAIN m[x] : n[x][i].op = m[x][i].op
    BY <1>13, <1>16 DEF Stored
<1>20. AppendedTo(m, n, p, b, cell)
    BY ZenonT(60), <1>3, <1>5, <1>14, <1>15, <1>17, <1>18, <1>19 DEF AppendedTo, old, l
<1>21. PlacesOf(n) = PlacesOf(w) /\ \A q \in PlacesOf(w) : Ptr(n, q) = IF q = p THEN b ELSE Ptr(w, q)
  <2>1. Held(n) = [Held(w) EXCEPT ![p] = b]
      BY ZenonT(60), <1>13 DEF Stored
  <2>2. DOMAIN Held(n) = DOMAIN Held(w)
      BY ZenonT(60), <2>1
  <2>3. PlacesOf(n) = PlacesOf(w)
      BY ZenonT(60), <2>2 DEF Held
  <2>4. \A q \in PlacesOf(w) : Held(n)[q] = IF q = p THEN b ELSE Held(w)[q]
      BY ZenonT(60), <2>1 DEF Held
  <2> QED BY <2>3, <2>4, HeldFacts
<1>22. \A q \in PlacesOf(m) : q.blk # old => q \in PlacesOf(w) /\ Ptr(w, q) = Ptr(m, q)
    BY ZenonT(60), <1>7, <1>10 DEF ReleasedHeld, ExtendedHeld
<1>23. \A q \in PlacesOf(w) : q.blk = b \/ (q \in PlacesOf(m) /\ q.blk # old)
  <2>1. \A q \in PlacesOf(w) : q.blk = b \/ q \in PlacesOf(v)
      BY <1>10, ZenonT(60) DEF ExtendedHeld
  <2>2. \A q \in PlacesOf(v) : q \in PlacesOf(m) /\ q.blk # old
      BY <1>7, ZenonT(60) DEF ReleasedHeld
  <2> QED BY <2>1, <2>2, ZenonT(60)
<1>24. AppendedHeld(m, n, p, b)
    BY ZenonT(60), <1>21, <1>22, <1>23 DEF AppendedHeld, old
<1> QED BY <1>13, <1>20, <1>24

\* The fields of the new array are those of the old one, and two more.
NewFields(m, n, p, b, cell) ==
    LET old == Ptr(m, p)
        k == Len(ListOf(m, old))
    IN  /\ At(b, k + 1, "a") \in PlacesOf(n) /\ Ptr(n, At(b, k + 1, "a")) = cell.a
        /\ At(b, k + 1, "b") \in PlacesOf(n) /\ Ptr(n, At(b, k + 1, "b")) = cell.b
        /\ \A q \in PlacesOf(n) : q.blk = b =>
              \/ q \in {At(b, k + 1, "a"), At(b, k + 1, "b")}
              \/ /\ At(old, q.i, q.f) \in PlacesOf(m) /\ q.i \in 1..k
                 /\ Ptr(n, q) = Ptr(m, At(old, q.i, q.f))
        /\ \A s \in PlacesOf(m) : s.blk = old =>
              /\ At(b, s.i, s.f) \in PlacesOf(n) /\ s.i \in 1..k
              /\ Ptr(n, At(b, s.i, s.f)) = Ptr(m, s)

\* The fields of the moved list are the old ones and those of the new cell.
LEMMA NewFieldFacts ==
    ASSUME NEW m, NEW p \in PlacesOf(m), NEW b, NEW cell, NEW n,
           IsHeap(m), IsHeap(n), Null \notin DOMAIN m,
           Ptr(m, p) \in DOMAIN m \cup {Null}, AppendedTo(m, n, p, b, cell)
    PROVE  NewFields(m, n, p, b, cell)
<1> DEFINE old == Ptr(m, p)
           k == Len(ListOf(m, old))
<1>1. k \in Nat
    BY ZenonT(60), ListFacts
<1>2. b \in DOMAIN n /\ Len(n[b]) = k + 1 /\ n[b][k + 1] = cell /\ \A i \in 1..k : n[b][i] = m[old][i]
    BY ZenonT(60) DEF AppendedTo
<1>3. old \in DOMAIN m => Len(m[old]) = k /\ DOMAIN m[old] = 1..k
  <2>1. old \in DOMAIN m => ListOf(m, old) = m[old]
      BY ZenonT(60) DEF ListOf
  <2> QED BY ZenonT(60), <2>1, HeapBlock
<1>4. old \notin DOMAIN m => k = 0
  <2>1. old \notin DOMAIN m => ListOf(m, old) = <<>>
      BY ZenonT(60) DEF ListOf
  <2> QED BY ZenonT(60), <2>1, EmptySeq
<1>5. DOMAIN n[b] = 1..(k + 1)
    BY ZenonT(60), <1>2, HeapBlock
<1> HIDE DEF old, k
<1>6. k + 1 \in DOMAIN n[b] /\ \A i \in 1..k : i \in DOMAIN n[b]
    BY <1>1, <1>5
<1>7. ASSUME NEW f \in Names
      PROVE  At(b, k + 1, f) \in PlacesOf(n) /\ Ptr(n, At(b, k + 1, f)) = IF f = "a" THEN cell.a ELSE cell.b
  <2>1. At(b, k + 1, f) \in PlacesOf(n)
      BY ZenonT(60), <1>2, <1>6, AtPlace
  <2> QED BY ZenonT(60), <2>1, <1>2 DEF Ptr, At
<1>8. ASSUME NEW q \in PlacesOf(n), q.blk = b
      PROVE  \/ q \in {At(b, k + 1, "a"), At(b, k + 1, "b")}
             \/ /\ At(old, q.i, q.f) \in PlacesOf(m) /\ q.i \in 1..k
                /\ Ptr(n, q) = Ptr(m, At(old, q.i, q.f))
  <2>1. q.i \in DOMAIN n[b] /\ q.f \in Names /\ q = At(b, q.i, q.f)
      BY ZenonT(60), <1>8, PlaceFacts
  <2>2. q.i = k + 1 \/ q.i \in 1..k
      BY <2>1, <1>5, <1>1
  <2>3. CASE q.i = k + 1
      BY ZenonT(60), <2>1, <2>3 DEF Names
  <2>4. CASE q.i \in 1..k
    <3>1. old \in DOMAIN m
        BY <2>4, <1>4
    <3>2. At(old, q.i, q.f) \in PlacesOf(m)
        BY ZenonT(60), <3>1, <2>4, <2>1, <1>3, AtPlace
    <3>3. Ptr(n, At(b, q.i, q.f)) = Ptr(m, At(old, q.i, q.f))
        BY <2>1, <2>4, <1>2, PtrAt
    <3> QED BY ZenonT(60), <3>2, <3>3, <2>4, <2>1
  <2> QED BY <2>2, <2>3, <2>4
<1>9. ASSUME NEW s \in PlacesOf(m), s.blk = old
      PROVE  /\ At(b, s.i, s.f) \in PlacesOf(n) /\ s.i \in 1..k
             /\ Ptr(n, At(b, s.i, s.f)) = Ptr(m, s)
  <2>1. old \in DOMAIN m /\ s.i \in DOMAIN m[old] /\ s.f \in Names /\ s = At(old, s.i, s.f)
      BY ZenonT(60), <1>9, PlaceFacts
  <2>2. s.i \in 1..k
      BY ZenonT(60), <2>1, <1>3
  <2>3. At(b, s.i, s.f) \in PlacesOf(n)
      BY ZenonT(60), <2>1, <2>2, <1>6, <1>2, AtPlace
  <2>4. Ptr(n, At(b, s.i, s.f)) = Ptr(m, At(old, s.i, s.f))
      BY <2>1, <2>2, <1>2, PtrAt
  <2> QED BY ZenonT(60), <2>1, <2>2, <2>3, <2>4
<1>10. "a" \in Names /\ "b" \in Names /\ "a" # "b"
    BY ZenonT(60) DEF Names
<1>11. /\ At(b, k + 1, "a") \in PlacesOf(n) /\ Ptr(n, At(b, k + 1, "a")) = cell.a
       /\ At(b, k + 1, "b") \in PlacesOf(n) /\ Ptr(n, At(b, k + 1, "b")) = cell.b
    BY ZenonT(60), <1>7, <1>10
<1> QED BY ZenonT(60), <1>8, <1>9, <1>11 DEF NewFields, old, k

-----------------------------------------------------------------------------
\* What an append knows: the heaps before and after it.
Appending(m, n, md, ins, p, b, cell) ==
    /\ HeapType(m, md, b) /\ Sound(m, md, Held(m), Roots(md, ins))
    /\ AppendPre(m, md, ins, p, cell)
    /\ IsHeap(n) /\ AppendedTo(m, n, p, b, cell)
    /\ AppendedHeld(m, n, p, b) /\ NewFields(m, n, p, b, cell)

\* The conditions under which a cell is appended.
LEMMA IsAppending ==
    ASSUME NEW m, NEW md, NEW ins, NEW p, NEW b, NEW cell, NEW n,
           HeapType(m, md, b), Sound(m, md, Held(m), Roots(md, ins)),
           AppendPre(m, md, ins, p, cell), n = AppendAt(m, p, b, cell)
    PROVE  Appending(m, n, md, ins, p, b, cell)
<1>1. /\ b \in Nat /\ b # Null /\ b \notin DOMAIN m /\ Null \notin DOMAIN m
      /\ DOMAIN m \subseteq Nat /\ IsHeap(m)
    BY ZenonT(60), HeapFacts
<1>2. p \in PlacesOf(m) /\ cell \in Cells /\ Ptr(m, p) # p.blk
    BY ZenonT(60) DEF AppendPre
<1>3. Ptr(m, p) \in DOMAIN m \cup {Null}
  <2>1. p \in DOMAIN Held(m) /\ Held(m)[p] = Ptr(m, p)
      BY ZenonT(60), <1>2, HeldFacts
  <2> QED BY ZenonT(60), <2>1 DEF Sound, Owned
<1>4. IsHeap(n) /\ AppendedTo(m, n, p, b, cell) /\ AppendedHeld(m, n, p, b)
    BY ZenonT(60), <1>1, <1>2, <1>3, AppendFacts
<1>5. NewFields(m, n, p, b, cell)
    BY ZenonT(60), <1>1, <1>2, <1>3, <1>4, NewFieldFacts
<1> QED BY ZenonT(60), <1>4, <1>5 DEF Appending

\* The type after an append.
LEMMA AppendedType ==
    ASSUME NEW m, NEW md, NEW ins, NEW p, NEW b, NEW cell, NEW n,
           Appending(m, n, md, ins, p, b, cell)
    PROVE  HeapType(n, md, b + 1)
<1>1. HeapType(m, md, b) /\ IsHeap(n)
    BY ZenonT(60) DEF Appending
<1>2. DOMAIN n = (DOMAIN m \ {Ptr(m, p)}) \cup {b} /\ \A x \in DOMAIN m : x # Ptr(m, p) => Len(n[x]) = Len(m[x])
    BY ZenonT(60) DEF Appending, AppendedTo
<1>3. \A s \in Sections : md[s].elts # b
    BY ZenonT(60), OldBlocks DEF Appending, Sound
<1>4. b \in Nat \ {0} /\ DOMAIN m \subseteq 1..(b - 1)
    BY ZenonT(60), <1>1 DEF HeapType
<1>5. DOMAIN n \subseteq 1..b
    BY <1>2, <1>4
<1>6. (b + 1) - 1 = b /\ b + 1 \in Nat \ {0}
    BY <1>4
<1>7. \A s \in Sections : md[s].elts \in DOMAIN n => Len(n[md[s].elts]) = md[s].n
    BY ZenonT(60), <1>1, <1>2, <1>3 DEF HeapType
<1> QED BY ZenonT(60), <1>1, <1>5, <1>6, <1>7 DEF HeapType

\* Where each field of the heap after the append comes from.
Origin(m, n, p, b, cell, q) ==
    LET old == Ptr(m, p)
        k == Len(ListOf(m, old))
        s == At(old, q.i, q.f)
    IN  \/ q = p /\ Ptr(n, q) = b
        \/ q = At(b, k + 1, "a") /\ Ptr(n, q) = cell.a
        \/ q = At(b, k + 1, "b") /\ Ptr(n, q) = cell.b
        \/ /\ q.blk = b /\ q.i \in 1..k /\ s \in PlacesOf(m) /\ s # p /\ s.blk = old
           /\ Ptr(n, q) = Ptr(m, s) /\ n[b][q.i] = m[old][q.i]
        \/ q # p /\ q \in PlacesOf(m) /\ q.blk # old /\ q.blk # b /\ Ptr(n, q) = Ptr(m, q)

\* Where each field after an append comes from.
LEMMA OriginFacts ==
    ASSUME NEW m, NEW md, NEW ins, NEW p, NEW b, NEW cell, NEW n,
           Appending(m, n, md, ins, p, b, cell), NEW q \in PlacesOf(n)
    PROVE  Origin(m, n, p, b, cell, q)
<1>1. p \in PlacesOf(m) /\ Ptr(m, p) # p.blk /\ p.blk # b /\ \A s \in PlacesOf(m) : s.blk # b
    BY ZenonT(60), OldBlocks DEF Appending, AppendPre, Sound
<1> DEFINE old == Ptr(m, p)
           k == Len(ListOf(m, old))
<1>2. CASE q.blk = b
  <2>1. \/ q \in {At(b, k + 1, "a"), At(b, k + 1, "b")}
        \/ /\ At(old, q.i, q.f) \in PlacesOf(m) /\ q.i \in 1..k
           /\ Ptr(n, q) = Ptr(m, At(old, q.i, q.f))
      BY ZenonT(60), <1>2 DEF Appending, NewFields
  <2>2. Ptr(n, At(b, k + 1, "a")) = cell.a /\ Ptr(n, At(b, k + 1, "b")) = cell.b
      BY ZenonT(60) DEF Appending, NewFields
  <2>3. q.i \in 1..k => n[b][q.i] = m[old][q.i]
      BY ZenonT(60) DEF Appending, AppendedTo
  <2>4. At(old, q.i, q.f).blk = old
      BY ZenonT(60) DEF At
  <2>5. At(old, q.i, q.f) # p
      BY ZenonT(60), <2>4, <1>1
  <2> HIDE DEF old, k
  <2> QED BY ZenonT(60), <2>1, <2>2, <2>3, <2>4, <2>5, <1>2 DEF Origin, old, k
<1>3. CASE q.blk # b
  <2>1. q \in PlacesOf(m) /\ q.blk # old
      BY ZenonT(60), <1>3 DEF Appending, AppendedHeld
  <2>2. Ptr(n, q) = IF q = p THEN b ELSE Ptr(m, q)
      BY ZenonT(60), <2>1 DEF Appending, AppendedHeld
  <2> QED BY <2>1, <2>2, <1>3 DEF Origin
<1> QED BY ZenonT(60), <1>2, <1>3

\* What the ownership of the heap before the append says of its pointers.
Apart(m, md, ins, p, b) ==
    /\ \A q \in PlacesOf(m) : Ptr(m, q) = Ptr(m, p) => q = p \/ Ptr(m, q) = Null
    /\ \A q \in PlacesOf(m) : Ptr(m, q) = ins.a => ins.a = Null
    /\ \A s \in Sections : md[s].elts = ins.a => ins.a = Null
    /\ \A s \in Sections : md[s].elts # b
    /\ \A q \in PlacesOf(m) : Ptr(m, q) # b /\ q.blk # b /\ (ins.a # Null => q.blk # ins.a)
    /\ ins.a # b
    /\ b # Null

\* The list that moves, the block that holds it and the new one are apart.
LEMMA ApartFacts ==
    ASSUME NEW m, NEW md, NEW ins, NEW p, NEW b, NEW cell, NEW n,
           Appending(m, n, md, ins, p, b, cell)
    PROVE  Apart(m, md, ins, p, b)
<1> DEFINE R == Roots(md, ins)
           h == Held(m)
<1>1. HeapType(m, md, b) /\ Owned(DOMAIN m, h, R) /\ p \in PlacesOf(m)
    BY ZenonT(60) DEF Appending, Sound, AppendPre
<1>2. /\ DOMAIN R = Sections \cup {"instr"} /\ "instr" \notin Sections
      /\ R["instr"] = ins.a /\ \A s \in Sections : R[s] = md[s].elts
    BY ZenonT(60), RootsFacts
<1>3. /\ \A s \in Sections : md[s].elts # b
      /\ \A q \in PlacesOf(m) : Ptr(m, q) # b /\ q.blk # b
      /\ ins.a # b
    BY ZenonT(60), <1>1, OldBlocks
<1>4. \A q \in PlacesOf(m) : q \in DOMAIN h /\ h[q] = Ptr(m, q)
    BY ZenonT(60), HeldFacts
<1>5. b # Null
    BY ZenonT(60), <1>1, HeapFacts
<1>6. \A q \in PlacesOf(m) : ins.a # Null => q.blk # ins.a
    BY ZenonT(60), LeafEmpty DEF Appending, AppendPre
<1> HIDE DEF h, R
<1>7. \A q \in PlacesOf(m) : Ptr(m, q) = Ptr(m, p) => q = p \/ Ptr(m, q) = Null
    BY <1>1, <1>4 DEF Owned
<1>8. \A q \in PlacesOf(m) : Ptr(m, q) = ins.a => ins.a = Null
    BY <1>1, <1>2, <1>4 DEF Owned
<1>9. \A s \in Sections : md[s].elts = ins.a => ins.a = Null
    BY ZenonT(60), <1>1, <1>2 DEF Owned
<1> QED BY ZenonT(60), <1>3, <1>5, <1>6, <1>7, <1>8, <1>9 DEF Apart

\* After an append each block is owned once.
LEMMA AppendedOwned ==
    ASSUME NEW m, NEW md, NEW ins, NEW p, NEW b, NEW cell, NEW n, NEW new,
           Appending(m, n, md, ins, p, b, cell), new.a = Null
    PROVE  Owned(DOMAIN n, Held(n), Roots(md, new))
<1> DEFINE D == DOMAIN m
           h == Held(m)
           R == Roots(md, ins)
           g == Held(n)
           old == Ptr(m, p)
           k == Len(ListOf(m, old))
           e == At(b, k + 1, "a")
           o == [q \in PlacesOf(n) |-> IF q.blk = b THEN At(old, q.i, q.f) ELSE q]
<1>1. /\ Owned(D, h, R) /\ p \in PlacesOf(m) /\ cell.a = ins.a /\ cell.b = Null /\ old # p.blk
    BY ZenonT(60) DEF Appending, Sound, AppendPre
<1>2. Apart(m, md, ins, p, b)
    BY ZenonT(60), ApartFacts
<1>3. DOMAIN n = (D \ {old}) \cup {b} /\ b \notin D /\ b # Null
    BY ZenonT(60), HeapFacts DEF Appending, AppendedTo
<1>4. "instr" \in DOMAIN R /\ R["instr"] = ins.a /\ Roots(md, new) = [R EXCEPT !["instr"] = Null]
    BY RootsFacts, RootsInstr
<1>5. \A q \in PlacesOf(m) : q \in DOMAIN h /\ h[q] = Ptr(m, q)
    BY ZenonT(60), HeldFacts
<1>6. DOMAIN h = PlacesOf(m) /\ DOMAIN g = PlacesOf(n) /\ \A q \in PlacesOf(n) : g[q] = Ptr(n, q)
    BY ZenonT(60) DEF Held
<1>7. e \in PlacesOf(n) /\ Ptr(n, e) = ins.a
    BY ZenonT(60), <1>1 DEF Appending, NewFields
<1>8. p \in PlacesOf(n) /\ Ptr(n, p) = b
    BY ZenonT(60), <1>1 DEF Appending, AppendedHeld
<1>9. p # e
    BY <1>1, <1>2 DEF Apart, At
<1>10. \A q \in PlacesOf(n) : o[q] = IF q.blk = b THEN At(old, q.i, q.f) ELSE q
    BY ZenonT(60)
<1>11. \A q \in PlacesOf(n) : Origin(m, n, p, b, cell, q)
    BY ZenonT(60), OriginFacts
<1>12. ASSUME NEW q \in PlacesOf(n)
       PROVE  \/ q = p \/ q = e \/ g[q] = Null
              \/ o[q] \in DOMAIN h /\ o[q] # p /\ g[q] = h[o[q]]
  <2>1. Origin(m, n, p, b, cell, q) /\ g[q] = Ptr(n, q)
      BY <1>11, <1>6
  <2> HIDE DEF g, h, o, R, D
  <2> QED BY ZenonT(60), <2>1, <1>5, <1>10, <1>1 DEF Origin
<1>13. ASSUME NEW q \in PlacesOf(n), NEW s \in PlacesOf(n), q \notin {p, e}, s \notin {p, e}, o[q] = o[s]
       PROVE  q = s \/ g[q] = Null
  <2>1. Origin(m, n, p, b, cell, q) /\ g[q] = Ptr(n, q) /\ Origin(m, n, p, b, cell, s) /\ g[s] = Ptr(n, s)
      BY <1>11, <1>6
  <2>2. q = At(q.blk, q.i, q.f) /\ s = At(s.blk, s.i, s.f)
      BY ZenonT(60), PlaceFacts
  <2>3. \A i, f : At(old, i, f).blk = old /\ At(old, i, f).i = i /\ At(old, i, f).f = f
      BY ZenonT(60) DEF At
  <2>4. o[q] = (IF q.blk = b THEN At(old, q.i, q.f) ELSE q) /\ o[s] = IF s.blk = b THEN At(old, s.i, s.f) ELSE s
      BY ZenonT(60), <1>10
  <2> HIDE DEF g, h, o, R, D
  <2>5. CASE q.blk = b /\ s.blk = b
      BY <2>2, <2>3, <2>4, <2>5, <1>13
  <2>6. CASE q.blk = b /\ s.blk # b
    <3>1. s.blk # old
        BY <2>1, <2>6, <1>13 DEF Origin, At
    <3> QED BY <3>1, <2>3, <2>4, <2>6, <1>13
  <2>7. CASE q.blk # b /\ s.blk = b
    <3>1. q.blk # old
        BY <2>1, <2>7, <1>13 DEF Origin, At
    <3> QED BY <3>1, <2>3, <2>4, <2>7, <1>13
  <2>8. CASE q.blk # b /\ s.blk # b
      BY ZenonT(60), <2>4, <2>8, <1>13
  <2> QED BY ZenonT(60), <2>5, <2>6, <2>7, <2>8
<1>14. ASSUME NEW s \in PlacesOf(m), s # p
       PROVE  \E q \in PlacesOf(n) : q # p /\ q # e /\ g[q] = h[s]
  <2>1. CASE s.blk = old
    <3>1. At(b, s.i, s.f) \in PlacesOf(n) /\ s.i \in 1..k /\ Ptr(n, At(b, s.i, s.f)) = Ptr(m, s)
        BY ZenonT(60), <2>1 DEF Appending, NewFields
    <3>2. At(b, s.i, s.f).blk = b /\ At(b, s.i, s.f).i = s.i /\ e.i = k + 1
        BY ZenonT(60) DEF At
    <3>3. k \in Nat
      <4>1. IsHeap(m)
          BY ZenonT(60) DEF Appending, HeapType
      <4>2. h[p] \in D \cup {Null} /\ h[p] = old
          BY ZenonT(60), <1>1, <1>5 DEF Owned
      <4> QED BY ZenonT(60), <4>1, <4>2, ListFacts
    <3>4. s.i # k + 1
      <4> HIDE DEF k
      <4> QED BY <3>1, <3>3
    <3>5. p.blk # b
        BY ZenonT(60), <1>1, <1>2 DEF Apart
    <3> HIDE DEF g, h, e
    <3> QED BY ZenonT(60), <3>1, <3>2, <3>4, <3>5, <1>5, <1>6
  <2>2. CASE s.blk # old
    <3>1. s \in PlacesOf(n) /\ Ptr(n, s) = Ptr(m, s)
        BY ZenonT(60), <2>2, <1>14 DEF Appending, AppendedHeld
    <3>2. s.blk # b /\ e.blk = b
        BY ZenonT(60), <1>2 DEF Apart, At
    <3> HIDE DEF g, h, e
    <3> QED BY ZenonT(60), <3>1, <3>2, <1>5, <1>6, <1>14
  <2> QED BY ZenonT(60), <2>1, <2>2
<1> HIDE DEF D, h, R, g, o, e
<1>15. Owned((D \ {h[p]}) \cup {b}, g, [R EXCEPT !["instr"] = Null])
  <2>1. g[p] = b /\ g[e] = R["instr"] /\ p \in DOMAIN h /\ p \in DOMAIN g /\ e \in DOMAIN g
      BY ZenonT(60), <1>1, <1>4, <1>5, <1>6, <1>7, <1>8
  <2>2. \A q \in DOMAIN g : \/ q = p \/ q = e \/ g[q] = Null
                            \/ o[q] \in DOMAIN h /\ o[q] # p /\ g[q] = h[o[q]]
      BY <1>6, <1>12
  <2>3. \A q, s \in DOMAIN g : q \notin {p, e} /\ s \notin {p, e} /\ o[q] = o[s] => q = s \/ g[q] = Null
      BY ZenonT(60), <1>6, <1>13
  <2>4. \A s \in DOMAIN h : s # p => h[s] = Null \/ \E q \in DOMAIN g : q # p /\ q # e /\ g[q] = h[s]
      BY ZenonT(60), <1>6, <1>14
  <2>5. Renamed(h, g, o, p, e)
      BY ZenonT(60), <2>2, <2>3, <2>4 DEF Renamed
  <2> QED BY <1>1, <1>3, <1>4, <1>9, <2>1, <2>5, Moved, ZenonT(60)
<1>16. h[p] = old
    BY <1>1, <1>5
<1> QED BY ZenonT(60), <1>3, <1>4, <1>15, <1>16 DEF g

\* After an append there is no cycle.
LEMMA AppendedRanked ==
    ASSUME NEW m, NEW md, NEW ins, NEW p, NEW b, NEW cell, NEW n,
           Appending(m, n, md, ins, p, b, cell)
    PROVE  \E r \in [Nat -> Nat] : Ranked(Held(n), r)
<1> DEFINE old == Ptr(m, p)
<1>1. Sound(m, md, Held(m), Roots(md, ins)) /\ HeapType(m, md, b) /\ p \in PlacesOf(m)
    BY ZenonT(60) DEF Appending, AppendPre
<1>2. PICK r \in [Nat -> Nat] : Ranked(Held(m), r)
    BY ZenonT(60), <1>1 DEF Sound
<1>3. \A q \in PlacesOf(m) : Ptr(m, q) # Null => r[q.blk] < r[Ptr(m, q)]
    BY ZenonT(60), <1>2 DEF Ranked, Held
<1>4. Apart(m, md, ins, p, b) /\ cell.a = ins.a /\ cell.b = Null
    BY ZenonT(60), ApartFacts DEF Appending, AppendPre
<1>5. \A q \in PlacesOf(m) : q.blk \in Nat /\ Ptr(m, q) \in Nat
    BY ZenonT(60), <1>1, HeapFacts, PlaceFacts, CellFacts
<1>6. b \in Nat /\ p.blk \in Nat /\ old \in Nat
    BY <1>1, <1>5, HeapFacts
<1>7. ins.a \in Nat
    BY ZenonT(60) DEF Appending, AppendPre, Cells
<1> DEFINE rb == IF old = Null THEN r[p.blk] + 1 ELSE r[old]
           t == [x \in Nat |-> IF x = b THEN rb ELSE IF x = ins.a /\ x # Null THEN rb + 1 ELSE r[x]]
<1>8. r[p.blk] \in Nat /\ rb \in Nat /\ r[p.blk] < rb
  <2>1. r[p.blk] \in Nat /\ r[old] \in Nat
      BY ZenonT(60), <1>6
  <2>2. old # Null => r[p.blk] < r[old]
      BY ZenonT(60), <1>1, <1>3
  <2> QED BY <2>1, <2>2
<1> HIDE DEF rb
<1>9. t \in [Nat -> Nat]
    BY <1>8
<1>10. t[b] = rb /\ (ins.a # Null => t[ins.a] = rb + 1)
    BY ZenonT(60), <1>4, <1>6, <1>7 DEF Apart
<1>11. \A x \in Nat : x # b /\ (x = ins.a => x = Null) => t[x] = r[x]
    BY ZenonT(60)
<1> HIDE DEF t
<1>12. ASSUME NEW q \in PlacesOf(n), Ptr(n, q) # Null
       PROVE  t[q.blk] < t[Ptr(n, q)]
  <2> DEFINE k == Len(ListOf(m, old))
             s == At(old, q.i, q.f)
  <2>1. \/ q = p /\ Ptr(n, q) = b
        \/ q = At(b, k + 1, "a") /\ Ptr(n, q) = cell.a
        \/ q = At(b, k + 1, "b") /\ Ptr(n, q) = cell.b
        \/ q.blk = b /\ s \in PlacesOf(m) /\ s.blk = old /\ Ptr(n, q) = Ptr(m, s)
        \/ q \in PlacesOf(m) /\ q.blk # b /\ Ptr(n, q) = Ptr(m, q)
    <3>1. Origin(m, n, p, b, cell, q)
        BY ZenonT(60), OriginFacts
    <3> QED BY ZenonT(60), <3>1 DEF Origin
  <2>2. \A i, f : At(b, i, f).blk = b
      BY ZenonT(60) DEF At
  <2> HIDE DEF s, k
  <2>3. CASE q = p /\ Ptr(n, q) = b
    <3>1. t[p.blk] = r[p.blk]
        BY ZenonT(60), <1>1, <1>4, <1>6, <1>11 DEF Apart
    <3> QED BY ZenonT(60), <2>3, <3>1, <1>8, <1>10
  <2>4. CASE q = At(b, k + 1, "a") /\ Ptr(n, q) = cell.a
    <3>1. q.blk = b /\ Ptr(n, q) = ins.a /\ ins.a # Null
        BY ZenonT(60), <2>2, <2>4, <1>4, <1>12
    <3>2. t[q.blk] = rb /\ t[Ptr(n, q)] = rb + 1
        BY ZenonT(60), <3>1, <1>10
    <3> QED BY <3>2, <1>8
  <2>5. CASE q = At(b, k + 1, "b") /\ Ptr(n, q) = cell.b
      BY ZenonT(60), <2>5, <1>4, <1>12
  <2>6. CASE q.blk = b /\ s \in PlacesOf(m) /\ s.blk = old /\ Ptr(n, q) = Ptr(m, s)
    <3>1. r[old] < r[Ptr(m, s)]
        BY ZenonT(60), <2>6, <1>3, <1>12
    <3>2. old # Null
      <4>1. s.blk \in DOMAIN m
          BY ZenonT(60), <2>6, PlaceFacts
      <4> QED BY ZenonT(60), <4>1, <2>6, <1>1, HeapFacts
    <3>3. t[Ptr(m, s)] = r[Ptr(m, s)]
        BY ZenonT(60), <2>6, <1>4, <1>5, <1>11 DEF Apart
    <3> QED BY ZenonT(60), <2>6, <3>1, <3>2, <3>3, <1>10 DEF rb
  <2>7. CASE q \in PlacesOf(m) /\ q.blk # b /\ Ptr(n, q) = Ptr(m, q)
    <3>1. t[Ptr(m, q)] = r[Ptr(m, q)]
        BY ZenonT(60), <2>7, <1>4, <1>5, <1>11 DEF Apart
    <3>2. t[q.blk] = r[q.blk]
        BY ZenonT(60), <2>7, <1>4, <1>5, <1>11 DEF Apart
    <3> QED BY ZenonT(60), <2>7, <3>1, <3>2, <1>3, <1>12
  <2> QED BY ZenonT(60), <2>1, <2>3, <2>4, <2>5, <2>6, <2>7
<1>13. Ranked(Held(n), t)
    BY <1>12 DEF Ranked, Held
<1> QED BY <1>9, <1>13

\* After an append each field owns what its cell says.
LEMMA AppendedShaped ==
    ASSUME NEW m, NEW md, NEW ins, NEW p, NEW b, NEW cell, NEW n,
           Appending(m, n, md, ins, p, b, cell)
    PROVE  Shaped(n, md, Held(n))
<1> DEFINE old == Ptr(m, p)
           k == Len(ListOf(m, old))
<1>1. /\ Sound(m, md, Held(m), Roots(md, ins)) /\ HeapType(m, md, b) /\ p \in PlacesOf(m)
      /\ old # p.blk
    BY ZenonT(60) DEF Appending, AppendPre
<1>2. \A q \in PlacesOf(m) : Ptr(m, q) # Null => ShapedAt(m, md, q, Ptr(m, q))
    BY ZenonT(60), <1>1 DEF Sound, Shaped, Held
<1>3. Apart(m, md, ins, p, b) /\ cell.a = ins.a /\ cell.b = Null
    BY ZenonT(60), ApartFacts DEF Appending, AppendPre
<1>4. /\ \A x \in DOMAIN m : x # old /\ x # p.blk => n[x] = m[x]
      /\ \A x \in DOMAIN m : x # old => \A i \in DOMAIN m[x] : n[x][i].op = m[x][i].op
      /\ n[b][k + 1] = cell
    BY ZenonT(60) DEF Appending, AppendedTo
<1>5. \A q \in PlacesOf(m) : Ptr(m, q) \in DOMAIN m \cup {Null}
  <2> TAKE q \in PlacesOf(m)
  <2>1. q \in DOMAIN Held(m) /\ Held(m)[q] = Ptr(m, q)
      BY ZenonT(60), HeldFacts
  <2> QED BY ZenonT(60), <2>1, <1>1 DEF Sound, Owned
<1>6. \A o \in Roles : HasRole(md, b, o) => o = "list"
    BY ZenonT(60), <1>3 DEF Apart, HasRole, Roles
<1>7. \A x \in DOMAIN m : m[x] = <<>> => x # p.blk
    BY ZenonT(60), <1>1, LeafEmpty
<1>8. ASSUME NEW q \in PlacesOf(m), q # p, Ptr(m, q) # Null, m[Ptr(m, q)] = <<>>
      PROVE  n[Ptr(m, q)] = <<>>
  <2>1. Ptr(m, q) \in DOMAIN m /\ Ptr(m, q) # p.blk
      BY ZenonT(60), <1>5, <1>7, <1>8
  <2>2. Ptr(m, q) # old
      BY ZenonT(60), <1>3, <1>8 DEF Apart
  <2> QED BY ZenonT(60), <1>4, <1>8, <2>1, <2>2
<1> HIDE DEF k
<1>9. ASSUME NEW q \in PlacesOf(n), Ptr(n, q) # Null
      PROVE  ShapedAt(n, md, q, Ptr(n, q))
  <2> DEFINE s == At(old, q.i, q.f)
  <2>1. \/ q = p /\ Ptr(n, q) = b
        \/ q = At(b, k + 1, "a") /\ Ptr(n, q) = cell.a
        \/ q = At(b, k + 1, "b") /\ Ptr(n, q) = cell.b
        \/ q.blk = b /\ s \in PlacesOf(m) /\ s # p /\ s.blk = old /\ Ptr(n, q) = Ptr(m, s) /\ n[b][q.i] = m[old][q.i]
        \/ q # p /\ q \in PlacesOf(m) /\ q.blk # old /\ q.blk # b /\ Ptr(n, q) = Ptr(m, q)
    <3>1. Origin(m, n, p, b, cell, q)
        BY ZenonT(60), OriginFacts
    <3> QED BY ZenonT(60), <3>1 DEF Origin, k
  <2>2. CASE q = p /\ Ptr(n, q) = b
    <3>1. n[p.blk][p.i].op = m[p.blk][p.i].op
        BY ZenonT(60), <1>1, <1>4, PlaceFacts
    <3>2. \A o \in Roles : HasRole(md, p.blk, o) => OwnsList(o, n[p.blk][p.i], p.f)
        BY ZenonT(60), <3>1 DEF Appending, AppendPre, OwnsList
    <3> QED BY ZenonT(60), <2>2, <3>2, <1>3 DEF Apart, ShapedAt
  <2>3. CASE q = At(b, k + 1, "a") /\ Ptr(n, q) = cell.a
    <3>1. q.blk = b /\ q.i = k + 1 /\ q.f = "a" /\ Ptr(n, q) = ins.a /\ ins.a # Null
        BY ZenonT(60), <2>3, <1>3, <1>9 DEF At
    <3>2. n[ins.a] = <<>> /\ cell.op = "br_table"
      <4>1. m[ins.a] = <<>> /\ cell.op = "br_table"
          BY ZenonT(60), <3>1 DEF Appending, AppendPre
      <4>2. ins.a \in DOMAIN m
        <5>1. "instr" \in DOMAIN Roots(md, ins) /\ Roots(md, ins)["instr"] = ins.a
            BY ZenonT(60), RootsFacts
        <5>2. \A r \in DOMAIN Roots(md, ins) : Roots(md, ins)[r] \in DOMAIN m \cup {Null}
            BY ZenonT(60), <1>1 DEF Sound, Owned
        <5>3. ins.a \in DOMAIN m \cup {Null}
            BY ZenonT(60), <5>1, <5>2
        <5> QED BY ZenonT(60), <5>3, <3>1
      <4>3. ins.a # old /\ ins.a # p.blk
          BY ZenonT(60), <1>3, <1>1, <3>1 DEF Apart
      <4> QED BY ZenonT(60), <4>1, <4>2, <4>3, <1>4
    <3>3. OwnsLeaf("list", n[b][q.i], "a")
        BY ZenonT(60), <3>1, <3>2, <1>4 DEF OwnsLeaf
    <3> QED BY ZenonT(60), <3>1, <3>2, <3>3, <1>3, <1>6 DEF ShapedAt, Apart
  <2>4. CASE q = At(b, k + 1, "b") /\ Ptr(n, q) = cell.b
      BY ZenonT(60), <2>4, <1>3, <1>9
  <2>5. CASE q.blk = b /\ s \in PlacesOf(m) /\ s # p /\ s.blk = old /\ Ptr(n, q) = Ptr(m, s) /\ n[b][q.i] = m[old][q.i]
    <3>1. ShapedAt(m, md, s, Ptr(m, s))
        BY ZenonT(60), <2>5, <1>2, <1>9
    <3>2. s.i = q.i /\ s.f = q.f
        BY ZenonT(60) DEF At
    <3>3. HasRole(md, old, "list") /\ "list" \in Roles
      <4>1. old \in DOMAIN m
          BY ZenonT(60), <2>5, PlaceFacts
      <4>2. old # Null
          BY ZenonT(60), <4>1, <1>1, HeapFacts
      <4> QED BY ZenonT(60), <4>2, <1>1, <1>2 DEF ShapedAt, HasRole, Roles
    <3> HIDE DEF s
    <3>4. m[Ptr(m, s)] = <<>> => n[Ptr(m, s)] = <<>>
        BY ZenonT(60), <2>5, <1>8, <1>9
    <3> QED BY ZenonT(60), <2>5, <3>1, <3>2, <3>3, <3>4, <1>6 DEF ShapedAt
  <2>6. CASE q # p /\ q \in PlacesOf(m) /\ q.blk # old /\ q.blk # b /\ Ptr(n, q) = Ptr(m, q)
    <3>1. ShapedAt(m, md, q, Ptr(m, q))
        BY ZenonT(60), <2>6, <1>2, <1>9
    <3>2. n[q.blk][q.i].op = m[q.blk][q.i].op
        BY ZenonT(60), <2>6, <1>4, PlaceFacts
    <3>3. m[Ptr(m, q)] = <<>> => n[Ptr(m, q)] = <<>>
        BY ZenonT(60), <2>6, <1>8, <1>9
    <3> QED BY ZenonT(60), <3>1, <3>2, <3>3, <2>6, ShapedSame
  <2> QED BY ZenonT(60), <2>1, <2>2, <2>3, <2>4, <2>5, <2>6
<1> QED BY ZenonT(60), <1>9 DEF Shaped, Held

\* The list behind p is reallocated with one more cell, that takes over the
\* labels of the instruction.
LEMMA Appended ==
    ASSUME NEW m, NEW md, NEW ins, NEW new, NEW p, NEW b, NEW cell, NEW n,
           WellFormed(m, md, ins, b), AppendPre(m, md, ins, p, cell), new.a = Null, n = AppendAt(m, p, b, cell)
    PROVE  AppendMade(m, n, md, new, p, b, cell)
<1>1. Appending(m, n, md, ins, p, b, cell)
    BY ZenonT(60), IsAppending DEF WellFormed
<1>2. AppendedTo(m, n, p, b, cell) /\ AppendedHeld(m, n, p, b)
    BY ZenonT(60), <1>1 DEF Appending
<1>3. Owned(DOMAIN n, Held(n), Roots(md, new)) /\ Shaped(n, md, Held(n))
    BY <1>1, AppendedOwned, AppendedShaped
<1>4. \E r \in [Nat -> Nat] : Ranked(Held(n), r)
    BY ZenonT(60), <1>1, AppendedRanked
<1>5. HeapType(n, md, b + 1)
    BY ZenonT(60), <1>1, AppendedType
<1> QED BY ZenonT(60), <1>2, <1>3, <1>4, <1>5 DEF Sound, WellFormed, AppendMade

-----------------------------------------------------------------------------
(***************************************************************************)
(* The laws.                                                               *)
(***************************************************************************)
LEMMA LeafLawHolds == LeafLaw
BY ZenonT(60), LeafStored DEF LeafLaw

\* The labels of a br_table may be allocated.
LEMMA LabelsLawHolds == LabelsLaw
BY ZenonT(60), LeafRooted DEF LabelsLaw

\* The labels of a br_table may be released.
LEMMA DropLawHolds == DropLaw
BY ZenonT(60), LeafDropped DEF DropLaw

\* The roots after the array of a section was allocated.
LEMMA SectionRoots ==
    ASSUME NEW md, NEW me, NEW ins, NEW s, NEW k, NEW b, NewSection(md, me, s, k, b)
    PROVE  NewRoot(md, me, ins, s, b)
<1> DEFINE R == Roots(md, ins)
           S == Roots(me, ins)
<1>1. /\ DOMAIN R = Sections \cup {"instr"} /\ "instr" \notin Sections /\ R["instr"] = ins.a
      /\ \A t \in Sections : R[t] = md[t].elts
      /\ DOMAIN S = Sections \cup {"instr"} /\ S["instr"] = ins.a
      /\ \A t \in Sections : S[t] = me[t].elts
    BY ZenonT(60), RootsFacts
<1>2. s \in Sections /\ me[s].elts = b /\ \A t \in Sections : t # s => me[t] = md[t]
    BY ZenonT(60) DEF NewSection
<1>3. S = [k1 \in Sections \cup {"instr"} |-> S[k1]]
    BY ZenonT(60) DEF Roots
<1>4. R = [k1 \in Sections \cup {"instr"} |-> R[k1]]
    BY ZenonT(60) DEF Roots
<1> HIDE DEF R, S
<1>5. \A t \in Sections \cup {"instr"} : S[t] = IF t = s THEN b ELSE R[t]
    BY ZenonT(60), <1>1, <1>2
<1>6. S = [R EXCEPT ![s] = b]
    BY ZenonT(60), <1>1, <1>2, <1>3, <1>4, <1>5
<1> QED BY ZenonT(60), <1>6 DEF NewRoot, R, S

\* The array of a section may be allocated.
LEMMA ArrayLawHolds == ArrayLaw
<1> SUFFICES ASSUME NEW m, NEW md, NEW me, NEW ins, NEW b, NEW s, NEW k, NEW c,
                    WellFormed(m, md, ins, b), NewSection(md, me, s, k, b), NullCells(c, k)
             PROVE  ArrayMade(Extend(m, b, c), me, ins, b, k)
    BY ZenonT(60) DEF ArrayLaw
<1>1. NewRoot(md, me, ins, s, b)
    BY ZenonT(60), SectionRoots
<1> DEFINE n == Extend(m, b, c)
<1>2. n = Extend(m, b, c)
    OBVIOUS
<1> HIDE DEF n
<1>3. ArrayMade(n, me, ins, b, k)
    BY ZenonT(60), <1>1, <1>2, ArrayRooted
<1> QED BY ZenonT(60), <1>2, <1>3

\* An instruction may be appended.
LEMMA AppendLawHolds == AppendLaw
<1> SUFFICES ASSUME NEW m, NEW md, NEW ins, NEW new, NEW p, NEW b, NEW cell,
                    WellFormed(m, md, ins, b), AppendPre(m, md, ins, p, cell), new.a = Null
             PROVE  AppendMade(m, AppendAt(m, p, b, cell), md, new, p, b, cell)
    BY ZenonT(60) DEF AppendLaw
<1>1. PICK n : n = AppendAt(m, p, b, cell)
    BY ZenonT(60)
<1>2. AppendMade(m, n, md, new, p, b, cell)
    BY ZenonT(60), <1>1, Appended
<1> QED BY ZenonT(60), <1>1, <1>2

-----------------------------------------------------------------------------
\* The pointers that the loops have not yet handed over.
LEMMA PendingFacts ==
    ASSUME NEW m, NEW F
    PROVE  /\ \A p \in DOMAIN Pending(m, F) :
                 /\ p \in PlacesOf(m) /\ p.i >= F[p.blk]
                 /\ Pending(m, F)[p] = Ptr(m, p) /\ p.blk \in DOMAIN m
           /\ \A p \in PlacesOf(m) : p.i >= F[p.blk] => p \in DOMAIN Pending(m, F)
<1>1. DOMAIN Pending(m, F) = {q \in PlacesOf(m) : q.i >= F[q.blk]}
    BY ZenonT(60) DEF Pending
<1>2. \A p \in DOMAIN Pending(m, F) : Pending(m, F)[p] = Ptr(m, p)
    BY ZenonT(60) DEF Pending
<1> QED BY ZenonT(60), <1>1, <1>2, PlaceFacts

\* The loop over block x is over: it has no field left that owns anything.
Emptied(m, x, F) == \A p \in DOMAIN Pending(m, F) : p.blk # x

\* Releasing an array whose loop is over drops no pending pointer.
LEMMA FreedPending ==
    ASSUME NEW m, NEW x, NEW F, NEW n, Emptied(m, x, F), Released(m, n, x)
    PROVE  Pending(n, F) = Pending(m, F)
<1>1. ReleasedHeld(m, n, x)
    BY ZenonT(60), ReleaseHeld
<1>2. DOMAIN Pending(n, F) = DOMAIN Pending(m, F)
  <2>1. \A p \in DOMAIN Pending(n, F) : p \in DOMAIN Pending(m, F)
      BY ZenonT(60), <1>1, PendingFacts DEF ReleasedHeld
  <2>2. \A p \in DOMAIN Pending(m, F) : p \in DOMAIN Pending(n, F)
      BY ZenonT(60), <1>1, PendingFacts DEF ReleasedHeld, Emptied
  <2> QED BY ZenonT(60), <2>1, <2>2
<1>3. \A p \in DOMAIN Pending(n, F) : Pending(n, F)[p] = Pending(m, F)[p]
    BY ZenonT(60), <1>1, <1>2, PendingFacts DEF ReleasedHeld
<1>4. \A y : Pending(y, F) = [p \in DOMAIN Pending(y, F) |-> Pending(y, F)[p]]
    BY ZenonT(60) DEF Pending
<1> QED BY ZenonT(60), <1>2, <1>3, <1>4

\* The blocks that are to be freed.
LEMMA TargetFacts ==
    ASSUME NEW wk \in Seq(Items)
    PROVE  /\ Len(wk) \in Nat /\ DOMAIN Targets(wk) = 1..Len(wk)
           /\ \A j \in 1..Len(wk) : Targets(wk)[j] = wk[j].blk /\ wk[j] \in Items
BY DEF Targets

\* The work after the first item.
LEMMA TailFacts ==
    ASSUME NEW wk \in Seq(Items), wk # <<>>
    PROVE  /\ Tail(wk) \in Seq(Items) /\ Len(wk) \in Nat \ {0} /\ Len(Tail(wk)) = Len(wk) - 1
           /\ Head(wk) = wk[1] /\ Head(wk) \in Items
           /\ \A j \in 1..Len(Tail(wk)) : Tail(wk)[j] = wk[j + 1]
OBVIOUS

\* S is R without its first root.
Shifted(R, S) ==
    \E k \in Nat : DOMAIN R = 1..(k + 1) /\ DOMAIN S = 1..k /\ \A j \in 1..k : S[j] = R[j + 1]

\* The first root goes away with its block.
LEMMA HeadDrop ==
    ASSUME NEW D, NEW h, NEW R, NEW S, Owned(D, h, R), Shifted(R, S), Null \notin D
    PROVE  Owned(D \ {R[1]}, h, S)
<1> PICK k \in Nat : DOMAIN R = 1..(k + 1) /\ DOMAIN S = 1..k /\ \A j \in 1..k : S[j] = R[j + 1]
    BY ZenonT(60) DEF Shifted
<1>1. 1 \in DOMAIN R /\ \A j \in 1..k : j + 1 \in DOMAIN R /\ j + 1 # 1
    OBVIOUS
<1>2. \A l \in DOMAIN R : l # 1 => l - 1 \in DOMAIN S /\ S[l - 1] = R[l]
    OBVIOUS
<1>9. /\ \A p \in DOMAIN h : h[p] \in D \cup {Null}
      /\ \A l \in DOMAIN R : R[l] \in D \cup {Null}
      /\ \A l, i \in DOMAIN R : R[l] = R[i] => l = i \/ R[l] = Null
      /\ \A p \in DOMAIN h, l \in DOMAIN R : h[p] = R[l] => R[l] = Null
    BY ZenonT(60) DEF Owned
<1>3. \A p \in DOMAIN h : h[p] \in (D \ {R[1]}) \cup {Null}
    BY ZenonT(60), <1>1, <1>9
<1>4. \A j \in DOMAIN S : S[j] \in (D \ {R[1]}) \cup {Null}
    BY ZenonT(60), <1>1, <1>9
<1>5. \A j, l \in DOMAIN S : S[j] = S[l] => j = l \/ S[j] = Null
  <2> TAKE j, l \in DOMAIN S
  <2>1. S[j] = S[l] => j + 1 = l + 1 \/ S[j] = Null
    <3>1. j + 1 \in DOMAIN R /\ l + 1 \in DOMAIN R /\ S[j] = R[j + 1] /\ S[l] = R[l + 1]
        BY ZenonT(60), <1>1
    <3>2. \A y, z \in DOMAIN R : R[y] = R[z] => y = z \/ R[y] = Null
        BY ZenonT(60) DEF Owned
    <3> QED BY <3>1, <3>2, ZenonT(60)
  <2>2. j \in Nat /\ l \in Nat
      OBVIOUS
  <2> QED BY <2>1, <2>2
<1>6. \A p \in DOMAIN h, j \in DOMAIN S : h[p] = S[j] => S[j] = Null
    BY ZenonT(60), <1>1, <1>9
<1>7. ASSUME NEW y \in D \ {R[1]}
      PROVE  (\E p \in DOMAIN h : h[p] = y) \/ (\E j \in DOMAIN S : S[j] = y)
  <2>1. CASE \E l \in DOMAIN R : R[l] = y
      BY ZenonT(60), <2>1, <1>2
  <2>2. CASE \E p \in DOMAIN h : h[p] = y
      BY ZenonT(60), <2>2
  <2> QED BY ZenonT(60), <2>1, <2>2 DEF Owned
<1>8. \A p, q \in DOMAIN h : h[p] = h[q] => p = q \/ h[p] = Null
    BY ZenonT(60) DEF Owned
<1> QED BY ZenonT(60), <1>3, <1>4, <1>5, <1>6, <1>7, <1>8 DEF Owned

-----------------------------------------------------------------------------
\* The loop over an array runs over all its cells.
LEMMA CountFacts ==
    ASSUME NEW m, NEW md, NEW b, NEW w \in Items, NEW F,
           HeapType(m, md, b), ItemInv(m, md, w, F)
    PROVE  IF w.op = "free" \/ w.blk \notin DOMAIN m THEN CountOf(m, md, w) = 0
           ELSE CountOf(m, md, w) = Len(m[w.blk])
<1>1. CASE w.op = "free" \/ w.blk \notin DOMAIN m
    BY ZenonT(60), <1>1 DEF CountOf, Plain
<1>2. CASE w.op \in Plain \cup {"list"} /\ w.blk \in DOMAIN m
    BY ZenonT(60), <1>2 DEF CountOf, Plain
<1>3. CASE w.op \in Sections /\ w.op \notin Plain /\ w.blk \in DOMAIN m
  <2>1. w.op # "list" /\ w.op # "free"
      BY ZenonT(60), <1>3, SectionsAre
  <2>2. w.blk = md[w.op].elts
      BY ZenonT(60), <1>3 DEF ItemInv
  <2>3. Len(m[w.blk]) = md[w.op].n
      BY ZenonT(60), <1>3, <2>2 DEF HeapType
  <2> QED BY ZenonT(60), <1>3, <2>1, <2>3 DEF CountOf
<1> QED BY ZenonT(60), <1>1, <1>2, <1>3 DEF Items, Roles

\* When the loop is over every cell of the array was visited.
LEMMA LoopOver ==
    ASSUME NEW m, NEW md, NEW b, NEW w \in Items, NEW F,
           HeapType(m, md, b), ItemInv(m, md, w, F), w.i > CountOf(m, md, w)
    PROVE  Emptied(m, w.blk, F)
<1> SUFFICES ASSUME NEW p \in DOMAIN Pending(m, F), p.blk = w.blk PROVE FALSE
    BY ZenonT(60) DEF Emptied
<1>1. p \in PlacesOf(m) /\ p.i >= F[w.blk] /\ w.blk \in DOMAIN m
    BY ZenonT(60), PendingFacts
<1>2. p.i \in 1..Len(m[w.blk]) /\ Len(m[w.blk]) \in Nat /\ w.blk # Null
    BY <1>1, PlaceFacts, HeapBlock, HeapFacts
<1>3. CASE w.op = "free"
  <2>1. m[w.blk] = <<>>
      BY ZenonT(60), <1>2, <1>3 DEF ItemInv
  <2> QED BY ZenonT(60), <2>1, <1>1, LeafEmpty
<1>4. CASE w.op # "free"
  <2>1. F[w.blk] = w.i
      BY ZenonT(60), <1>2, <1>4 DEF ItemInv
  <2>2. CountOf(m, md, w) = Len(m[w.blk])
      BY ZenonT(60), <1>1, <1>4, CountFacts
  <2>3. w.i \in Nat
      BY ZenonT(60) DEF Items
  <2> QED BY <2>1, <2>2, <2>3, <1>1, <1>2
<1> QED BY ZenonT(60), <1>3, <1>4

\* The type after a release.
LEMMA FreedType ==
    ASSUME NEW m, NEW md, NEW b, NEW x, NEW n, HeapType(m, md, b), n = Release(m, x)
    PROVE  HeapType(n, md, b) /\ Released(m, n, x)
<1>1. IsHeap(m)
    BY ZenonT(60) DEF HeapType
<1>2. IsHeap(n) /\ Released(m, n, x)
    BY ZenonT(60), <1>1, ReleaseFacts
<1>3. DOMAIN n \subseteq DOMAIN m /\ \A y \in DOMAIN n : y \in DOMAIN m /\ n[y] = m[y]
    BY ZenonT(60), <1>2 DEF Released
<1>4. \A s \in Sections : md[s].elts \in DOMAIN n => Len(n[md[s].elts]) = md[s].n
    BY ZenonT(60), <1>3 DEF HeapType
<1> QED BY ZenonT(60), <1>2, <1>3, <1>4 DEF HeapType

\* A block is freed and with it the item of work that asked for this.
LEMMA Freed ==
    ASSUME NEW m, NEW md, NEW b, NEW wk \in Seq(Items), NEW F, NEW n,
           HeapType(m, md, b), FreeInv(m, md, wk, F), wk # <<>>,
           Head(wk).i > CountOf(m, md, Head(wk)), n = Release(m, Head(wk).blk)
    PROVE  HeapType(n, md, b) /\ FreeInv(n, md, Tail(wk), F)
<1> DEFINE w == Head(wk)
           x == w.blk
           v == Tail(wk)
           h == Pending(m, F)
           R == Targets(wk)
           S == Targets(v)
           k == Len(v)
<1>1. /\ v \in Seq(Items) /\ w \in Items /\ w = wk[1] /\ k \in Nat /\ Len(wk) = k + 1
      /\ \A j \in 1..k : v[j] = wk[j + 1] /\ j + 1 \in 1..Len(wk)
  <2>1. /\ v \in Seq(Items) /\ Len(wk) \in Nat \ {0} /\ k = Len(wk) - 1
        /\ w = wk[1] /\ w \in Items /\ \A j \in 1..k : v[j] = wk[j + 1]
      BY ZenonT(60), TailFacts
  <2> HIDE DEF v, w, k
  <2> QED BY <2>1
<1>2. 1 \in 1..Len(wk) /\ ItemInv(m, md, w, F)
    BY <1>1 DEF FreeInv
<1>3. Emptied(m, x, F)
    BY ZenonT(60), <1>1, <1>2, LoopOver
<1>4. HeapType(n, md, b) /\ Released(m, n, x)
    BY FreedType
<1>5. Pending(n, F) = h
    BY ZenonT(60), <1>3, <1>4, FreedPending
<1>6. Owned(DOMAIN m, h, R) /\ Shaped(m, md, h) /\ (\E r \in [Nat -> Nat] : Ranked(h, r)) /\ Null \notin DOMAIN m
    BY ZenonT(60), HeapFacts DEF FreeInv, Sound
<1>7. DOMAIN R = 1..(k + 1) /\ DOMAIN S = 1..k /\ R[1] = x /\ \A j \in 1..k : S[j] = R[j + 1]
  <2>1. DOMAIN R = 1..Len(wk) /\ \A j \in 1..Len(wk) : R[j] = wk[j].blk
      BY ZenonT(60), TargetFacts
  <2>2. DOMAIN S = 1..k /\ \A j \in 1..k : S[j] = v[j].blk
      BY ZenonT(60), <1>1, TargetFacts
  <2> HIDE DEF R, S, k, v, w
  <2> QED BY ZenonT(60), <2>1, <2>2, <1>1, <1>2
<1> HIDE DEF h, R, S, k, v, w
<1>8. DOMAIN n = DOMAIN m \ {R[1]}
    BY ZenonT(60), <1>4, <1>7 DEF Released
<1>9. Owned(DOMAIN n, h, S)
  <2>1. Shifted(R, S)
      BY ZenonT(60), <1>1, <1>7 DEF Shifted
  <2>2. Owned(DOMAIN m \ {R[1]}, h, S)
      BY ZenonT(60), <2>1, <1>6, HeadDrop
  <2> QED BY ZenonT(60), <2>2, <1>8
<1>10. \A y : y \in DOMAIN m /\ y # x => n[y] = m[y]
    BY ZenonT(60), <1>4 DEF Released
<1>11. Shaped(n, md, h)
  <2> SUFFICES ASSUME NEW p \in DOMAIN h, h[p] # Null PROVE ShapedAt(n, md, p, h[p])
      BY ZenonT(60) DEF Shaped
  <2>1. ShapedAt(m, md, p, h[p])
      BY ZenonT(60), <1>6 DEF Shaped
  <2>2. p.blk # x /\ p.blk \in DOMAIN m
      BY ZenonT(60), <1>3, PendingFacts DEF Emptied, h
  <2>3. h[p] \in DOMAIN n
      BY ZenonT(60), <1>9 DEF Owned
  <2>4. n[p.blk] = m[p.blk] /\ n[h[p]] = m[h[p]]
      BY ZenonT(60), <2>2, <2>3, <1>10, <1>8, <1>7
  <2> QED BY <2>1, <2>4, ShapedSame
<1>12. Sound(n, md, Pending(n, F), S)
    BY ZenonT(60), <1>5, <1>6, <1>9, <1>11 DEF Sound
<1>13. ASSUME NEW j \in 1..k PROVE ItemInv(n, md, v[j], F)
  <2>1. ItemInv(m, md, v[j], F)
      BY ZenonT(60), <1>1 DEF FreeInv
  <2>2. v[j].blk \in DOMAIN n \cup {Null}
    <3>1. v[j].blk = S[j]
        BY ZenonT(60), <1>1, TargetFacts DEF S, k
    <3> QED BY ZenonT(60), <3>1, <1>7, <1>9 DEF Owned
  <2>3. v[j].blk # Null => n[v[j].blk] = m[v[j].blk]
      BY ZenonT(60), <2>2, <1>10, <1>8, <1>7
  <2> QED BY ZenonT(60), <2>1, <2>3 DEF ItemInv
<1>14. \A p \in DOMAIN h : h[p] # Null => F[h[p]] = 1
    BY ZenonT(60) DEF FreeInv, h
<1> QED BY ZenonT(60), <1>4, <1>5, <1>12, <1>13, <1>14 DEF FreeInv, S, k, v

-----------------------------------------------------------------------------
CellPtr(cell, f) == IF f = "a" THEN cell.a ELSE cell.b

\* Item it frees what field f of a cell owns.
Frees(o, cell, it, f) ==
    /\ it \in Items /\ f \in Names /\ it.blk = CellPtr(cell, f) /\ it.i = 1
    /\ \/ it.op = "list" /\ OwnsList(o, cell, f)
       \/ it.op = "free" /\ OwnsLeaf(o, cell, f)

Owns(o, cell, f) == OwnsList(o, cell, f) \/ OwnsLeaf(o, cell, f)

\* The items ow free what the fields of a cell own, each of them once.
Owes(o, cell, ow, g) ==
    /\ ow \in Seq(Items)
    /\ \A j \in 1..Len(ow) : Frees(o, cell, ow[j], g[j])
    /\ \A i, j \in 1..Len(ow) : g[i] = g[j] => i = j
    /\ \A f \in Names : Owns(o, cell, f) => \E j \in 1..Len(ow) : g[j] = f

\* A cell that owns nothing adds no work.
LEMMA OwesNone ==
    ASSUME NEW o, NEW cell, ~Owns(o, cell, "a"), ~Owns(o, cell, "b")
    PROVE  \E g : Owes(o, cell, <<>>, g)
<1>1. Owes(o, cell, <<>>, <<>>)
    BY DEF Owes, Names
<1> QED BY ZenonT(60), <1>1

\* A cell that owns one block adds one item.
LEMMA OwesOne ==
    ASSUME NEW o, NEW cell, NEW it, NEW f, Frees(o, cell, it, f),
           \A e \in Names : e # f => ~Owns(o, cell, e)
    PROVE  \E g : Owes(o, cell, << it >>, g)
<1> DEFINE ow == << it >>
           g == << f >>
<1>1. ow \in Seq(Items) /\ Len(ow) = 1 /\ ow[1] = it /\ g[1] = f
    BY DEF Frees
<1> HIDE DEF ow, g
<1>2. \A j \in 1..Len(ow) : j = 1
    BY <1>1
<1>3. 1 \in 1..Len(ow)
    BY <1>1
<1>4. \A e \in Names : Owns(o, cell, e) => \E j \in 1..Len(ow) : g[j] = e
    BY ZenonT(60), <1>1, <1>3
<1>5. Owes(o, cell, ow, g)
    BY ZenonT(60), <1>1, <1>2, <1>4 DEF Owes
<1> QED BY ZenonT(60), <1>5 DEF ow

\* A cell that owns two blocks adds two items.
LEMMA OwesTwo ==
    ASSUME NEW o, NEW cell, NEW it, NEW f, NEW jt, NEW e, f # e,
           Frees(o, cell, it, f), Frees(o, cell, jt, e)
    PROVE  \E g : Owes(o, cell, << it, jt >>, g)
<1> DEFINE ow == << it, jt >>
           g == << f, e >>
<1>1. ow \in Seq(Items) /\ Len(ow) = 2 /\ ow[1] = it /\ ow[2] = jt /\ g[1] = f /\ g[2] = e
    BY DEF Frees
<1>2. \A d \in Names : d = f \/ d = e
    BY ZenonT(60) DEF Frees, Names
<1> HIDE DEF ow, g
<1>3. \A j \in 1..Len(ow) : j = 1 \/ j = 2
    BY <1>1
<1>4. 1 \in 1..Len(ow) /\ 2 \in 1..Len(ow)
    BY <1>1
<1>5. \A d \in Names : Owns(o, cell, d) => \E j \in 1..Len(ow) : g[j] = d
    BY ZenonT(60), <1>1, <1>2, <1>4
<1>6. Owes(o, cell, ow, g)
    BY ZenonT(60), <1>1, <1>3, <1>5 DEF Owes
<1> QED BY ZenonT(60), <1>6 DEF ow

\* The items for a block without pointers and for a list.
LEMMA ItemFacts ==
    ASSUME NEW blk \in Nat
    PROVE  /\ Free(blk) \in Items /\ Free(blk).op = "free" /\ Free(blk).blk = blk /\ Free(blk).i = 1
           /\ FreeList(blk) \in Items /\ FreeList(blk).op = "list" /\ FreeList(blk).blk = blk /\ FreeList(blk).i = 1
BY DEF Free, FreeList, Items, Roles

\* The items match what the fields own.
LEMMA FreesField ==
    ASSUME NEW o, NEW cell \in Cells, NEW f \in Names
    PROVE  /\ OwnsList(o, cell, f) => Frees(o, cell, FreeList(CellPtr(cell, f)), f)
           /\ OwnsLeaf(o, cell, f) => Frees(o, cell, Free(CellPtr(cell, f)), f)
<1>1. CellPtr(cell, f) \in Nat
    BY ZenonT(60) DEF CellPtr, Cells
<1> QED BY ZenonT(60), <1>1, ItemFacts DEF Frees

\* free_instruction frees what an instruction owns, and nothing else.
LEMMA OwesInstruction ==
    ASSUME NEW cell \in Cells
    PROVE  \E g : Owes("list", cell, FreeInstruction(cell), g)
<1> "a" \in Names /\ "b" \in Names /\ "a" # "b" /\ \A e \in Names : e = "a" \/ e = "b"
    BY ZenonT(60) DEF Names
<1> CellPtr(cell, "a") = cell.a /\ CellPtr(cell, "b") = cell.b
    BY ZenonT(60) DEF CellPtr
<1>1. CASE cell.op \in {"block", "loop"}
  <2>1. OwnsList("list", cell, "a") /\ ~Owns("list", cell, "b") /\ FreeInstruction(cell) = << FreeList(cell.a) >>
      BY ZenonT(60), <1>1 DEF OwnsList, OwnsLeaf, Owns, FreeInstruction
  <2>2. Frees("list", cell, FreeList(cell.a), "a")
      BY ZenonT(60), <2>1, FreesField
  <2> QED BY <2>1, <2>2, OwesOne
<1>2. CASE cell.op = "if"
  <2>1. /\ OwnsList("list", cell, "a") /\ OwnsList("list", cell, "b")
        /\ FreeInstruction(cell) = << FreeList(cell.a), FreeList(cell.b) >>
      BY ZenonT(60), <1>2 DEF OwnsList, FreeInstruction
  <2>2. Frees("list", cell, FreeList(cell.a), "a") /\ Frees("list", cell, FreeList(cell.b), "b")
      BY ZenonT(60), <2>1, FreesField
  <2> QED BY ZenonT(60), <2>1, <2>2, OwesTwo
<1>3. CASE cell.op = "br_table"
  <2>1. OwnsLeaf("list", cell, "a") /\ ~Owns("list", cell, "b") /\ FreeInstruction(cell) = << Free(cell.a) >>
      BY ZenonT(60), <1>3 DEF OwnsList, OwnsLeaf, Owns, FreeInstruction
  <2>2. Frees("list", cell, Free(cell.a), "a")
      BY ZenonT(60), <2>1, FreesField
  <2> QED BY <2>1, <2>2, OwesOne
<1>4. CASE cell.op \notin {"block", "loop", "if", "br_table"}
  <2>1. ~Owns("list", cell, "a") /\ ~Owns("list", cell, "b") /\ FreeInstruction(cell) = << >>
      BY ZenonT(60), <1>4 DEF OwnsList, OwnsLeaf, Owns, FreeInstruction
  <2> QED BY ZenonT(60), <2>1, OwesNone
<1> QED BY ZenonT(60), <1>1, <1>2, <1>3, <1>4

\* wasmjit_free_module frees what an element of a section owns, and nothing else.
LEMMA OwesElement ==
    ASSUME NEW o \in Sections, NEW cell \in Cells
    PROVE  \E g : Owes(o, cell, FreeElement(o, cell), g)
<1> "a" \in Names /\ "b" \in Names /\ "a" # "b" /\ \A e \in Names : e = "a" \/ e = "b"
    BY ZenonT(60) DEF Names
<1> CellPtr(cell, "a") = cell.a /\ CellPtr(cell, "b") = cell.b
    BY ZenonT(60) DEF CellPtr
<1>1. CASE o = "import"
  <2>1. OwnsLeaf(o, cell, "a") /\ OwnsLeaf(o, cell, "b") /\ FreeElement(o, cell) = << Free(cell.b), Free(cell.a) >>
      BY ZenonT(60), <1>1 DEF OwnsLeaf, FreeElement
  <2>2. Frees(o, cell, Free(cell.a), "a") /\ Frees(o, cell, Free(cell.b), "b")
      BY ZenonT(60), <2>1, FreesField
  <2> QED BY ZenonT(60), <2>1, <2>2, OwesTwo
<1>2. CASE o = "global"
  <2>1. OwnsList(o, cell, "a") /\ ~Owns(o, cell, "b") /\ FreeElement(o, cell) = << FreeList(cell.a) >>
      BY ZenonT(60), <1>2 DEF OwnsLeaf, OwnsList, Owns, FreeElement
  <2>2. Frees(o, cell, FreeList(cell.a), "a")
      BY <2>1, FreesField
  <2> QED BY ZenonT(60), <2>1, <2>2, OwesOne
<1>3. CASE o = "export"
  <2>1. OwnsLeaf(o, cell, "a") /\ ~Owns(o, cell, "b") /\ FreeElement(o, cell) = << Free(cell.a) >>
      BY ZenonT(60), <1>3 DEF OwnsLeaf, OwnsList, Owns, FreeElement
  <2>2. Frees(o, cell, Free(cell.a), "a")
      BY ZenonT(60), <2>1, FreesField
  <2> QED BY ZenonT(60), <2>1, <2>2, OwesOne
<1>4. CASE o \in {"element", "data"}
  <2>1. OwnsList(o, cell, "a") /\ OwnsLeaf(o, cell, "b") /\ FreeElement(o, cell) = << FreeList(cell.a), Free(cell.b) >>
      BY ZenonT(60), <1>4 DEF OwnsLeaf, OwnsList, FreeElement
  <2>2. Frees(o, cell, FreeList(cell.a), "a") /\ Frees(o, cell, Free(cell.b), "b")
      BY ZenonT(60), <2>1, FreesField
  <2> QED BY ZenonT(60), <2>1, <2>2, OwesTwo
<1>5. CASE o = "code"
  <2>1. OwnsLeaf(o, cell, "a") /\ OwnsList(o, cell, "b") /\ FreeElement(o, cell) = << Free(cell.a), FreeList(cell.b) >>
      BY ZenonT(60), <1>5 DEF OwnsLeaf, OwnsList, FreeElement
  <2>2. Frees(o, cell, Free(cell.a), "a") /\ Frees(o, cell, FreeList(cell.b), "b")
      BY ZenonT(60), <2>1, FreesField
  <2> QED BY ZenonT(60), <2>1, <2>2, OwesTwo
<1>6. CASE o \in {"type", "function", "table", "memory"}
  <2>1. ~Owns(o, cell, "a") /\ ~Owns(o, cell, "b") /\ FreeElement(o, cell) = << >>
      BY ZenonT(60), <1>6 DEF OwnsLeaf, OwnsList, Owns, FreeElement
  <2> QED BY ZenonT(60), <2>1, OwesNone
<1> QED BY ZenonT(60), <1>1, <1>2, <1>3, <1>4, <1>5, <1>6, SectionsAre

-----------------------------------------------------------------------------
Joined(v, ow, it, wk) ==
    /\ v \in Seq(Items) /\ Len(v) = Len(ow) + Len(wk) /\ Len(ow) \in Nat /\ Len(wk) \in Nat \ {0}
    /\ \A j \in 1..Len(ow) : v[j] = ow[j]
    /\ v[Len(ow) + 1] = it
    /\ \A j \in 2..Len(wk) : v[Len(ow) + j] = wk[j]

\* The work after a visit, item by item.
LEMMA JoinFacts ==
    ASSUME NEW ow \in Seq(Items), NEW it \in Items, NEW wk \in Seq(Items), wk # <<>>
    PROVE  Joined(ow \o << it >> \o Tail(wk), ow, it, wk)
<1> DEFINE t == Tail(wk)
           u == << it >>
           y == ow \o u
           v == y \o t
<1>1. t \in Seq(Items) /\ Len(wk) \in Nat \ {0} /\ Len(t) = Len(wk) - 1 /\ \A j \in 1..Len(t) : t[j] = wk[j + 1]
    BY ZenonT(60), TailFacts
<1>2. u \in Seq(Items) /\ Len(u) = 1 /\ u[1] = it
    OBVIOUS
<1> HIDE DEF t, u
<1>3. /\ y \in Seq(Items) /\ Len(y) = Len(ow) + 1 /\ Len(ow) \in Nat
      /\ \A j \in 1..Len(ow) : y[j] = ow[j]
      /\ y[Len(ow) + 1] = it
  <2>1. Concat(Items, y, ow, u)
      BY ZenonT(60), <1>2, ConcatFacts
  <2>2. Len(ow) \in Nat
      OBVIOUS
  <2> HIDE DEF y
  <2> QED BY <1>2, <2>1, <2>2 DEF Concat
<1> HIDE DEF y
<1>4. /\ v \in Seq(Items) /\ Len(v) = Len(y) + Len(t)
      /\ \A j \in 1..Len(y) : v[j] = y[j]
      /\ \A j \in 1..Len(t) : v[Len(y) + j] = t[j]
  <2>1. Concat(Items, v, y, t)
      BY ZenonT(60), <1>1, <1>3, ConcatFacts
  <2> HIDE DEF v
  <2> QED BY ZenonT(60), <2>1 DEF Concat
<1> HIDE DEF v
<1>5. Len(v) = Len(ow) + Len(wk)
    BY <1>1, <1>3, <1>4
<1>6. \A j \in 1..Len(ow) : v[j] = ow[j]
    BY <1>3, <1>4
<1>7. v[Len(ow) + 1] = it
    BY <1>3, <1>4
<1>8. ASSUME NEW j \in 2..Len(wk) PROVE v[Len(ow) + j] = wk[j]
  <2>1. /\ Len(wk) \in Nat /\ Len(ow) \in Nat /\ j \in 2..Len(wk)
        /\ Len(t) = Len(wk) - 1 /\ Len(y) = Len(ow) + 1
      BY ZenonT(60), <1>1, <1>3
  <2>2. j - 1 \in 1..Len(t)
      BY <2>1
  <2>3. (j - 1) + 1 = j /\ Len(y) + (j - 1) = Len(ow) + j
      BY <2>1
  <2>4. v[Len(y) + (j - 1)] = t[j - 1]
      BY ZenonT(60), <2>2, <1>4
  <2>5. t[j - 1] = wk[(j - 1) + 1]
      BY ZenonT(60), <2>2, <1>1
  <2> QED BY ZenonT(60), <2>3, <2>4, <2>5
<1>9. Joined(v, ow, it, wk)
    BY ZenonT(60), <1>1, <1>3, <1>4, <1>5, <1>6, <1>7, <1>8 DEF Joined
<1> QED BY ZenonT(60), <1>9 DEF v, y, u, t

\* The first k roots of S hold what the fields s[1] ... s[k] held in h.
Handed(h, e, R, S, k, s) ==
    /\ k \in Nat
    /\ \E n \in Nat : DOMAIN R = 1..n /\ DOMAIN S = 1..(k + n)
    /\ \A j \in 1..k : s[j] \in DOMAIN h /\ s[j] \notin DOMAIN e /\ S[j] = h[s[j]]
    /\ \A i, j \in 1..k : s[i] = s[j] => i = j
    /\ \A j \in DOMAIN R : S[k + j] = R[j]
    /\ \A p \in DOMAIN e : p \in DOMAIN h /\ e[p] = h[p]
    /\ \A p \in DOMAIN h : p \in DOMAIN e \/ h[p] = Null \/ \E j \in 1..k : s[j] = p

\* Handing pointers from fields to the work keeps each block owned once.
LEMMA HandedOwned ==
    ASSUME NEW D, NEW h, NEW e, NEW R, NEW S, NEW k, NEW s, Null \notin D,
           Owned(D, h, R), Handed(h, e, R, S, k, s)
    PROVE  Owned(D, e, S)
<1>1. k \in Nat /\ \E n \in Nat : DOMAIN R = 1..n /\ DOMAIN S = 1..(k + n)
    BY ZenonT(60) DEF Handed
<1>2. PICK n \in Nat : DOMAIN R = 1..n /\ DOMAIN S = 1..(k + n)
    BY ZenonT(60), <1>1
<1>3. /\ \A j \in 1..k : s[j] \in DOMAIN h /\ s[j] \notin DOMAIN e /\ S[j] = h[s[j]]
      /\ \A i, j \in 1..k : s[i] = s[j] => i = j
    BY ZenonT(60) DEF Handed
<1>4. \A p \in DOMAIN e : p \in DOMAIN h /\ e[p] = h[p]
    BY ZenonT(60) DEF Handed
<1>5. ASSUME NEW j \in DOMAIN S
      PROVE  j \in 1..k \/ \E l \in DOMAIN R : j = k + l /\ S[j] = R[l]
  <2>1. j \in 1..k \/ (j - k \in 1..n /\ j = k + (j - k))
      BY <1>1, <1>2
  <2> QED BY <2>1, <1>2 DEF Handed
<1>6. \A j \in DOMAIN S : S[j] \in D \cup {Null}
  <2> TAKE j \in DOMAIN S
  <2>1. CASE j \in 1..k
      BY ZenonT(60), <2>1, <1>3 DEF Owned
  <2>2. CASE \E l \in DOMAIN R : j = k + l /\ S[j] = R[l]
      BY ZenonT(60), <2>2 DEF Owned
  <2> QED BY ZenonT(60), <2>1, <2>2, <1>5
<1>7. ASSUME NEW i \in DOMAIN S, NEW j \in DOMAIN S, S[i] = S[j], S[i] # Null
      PROVE  i = j
  <2>1. CASE i \in 1..k /\ j \in 1..k
    <3>1. s[i] = s[j]
        BY <2>1, <1>3, <1>7 DEF Owned
    <3> QED BY ZenonT(60), <3>1, <2>1, <1>3
  <2>2. CASE i \in 1..k /\ \E l \in DOMAIN R : j = k + l /\ S[j] = R[l]
    <3>1. s[i] \in DOMAIN h /\ S[i] = h[s[i]]
        BY ZenonT(60), <2>2, <1>3
    <3>2. PICK l \in DOMAIN R : S[j] = R[l]
        BY ZenonT(60), <2>2
    <3>3. h[s[i]] = R[l] /\ R[l] # Null
        BY ZenonT(60), <3>1, <3>2, <1>7
    <3> QED BY <3>1, <3>2, <3>3, ZenonT(60) DEF Owned
  <2>3. CASE j \in 1..k /\ \E l \in DOMAIN R : i = k + l /\ S[i] = R[l]
    <3>1. s[j] \in DOMAIN h /\ S[j] = h[s[j]]
        BY ZenonT(60), <2>3, <1>3
    <3>2. PICK l \in DOMAIN R : S[i] = R[l]
        BY ZenonT(60), <2>3
    <3>3. h[s[j]] = R[l] /\ R[l] # Null
        BY ZenonT(60), <3>1, <3>2, <1>7
    <3> QED BY <3>1, <3>2, <3>3, ZenonT(60) DEF Owned
  <2>4. CASE (\E l \in DOMAIN R : i = k + l /\ S[i] = R[l]) /\ \E l \in DOMAIN R : j = k + l /\ S[j] = R[l]
    <3> PICK l \in DOMAIN R : i = k + l /\ S[i] = R[l]
        BY ZenonT(60), <2>4
    <3> PICK t \in DOMAIN R : j = k + t /\ S[j] = R[t]
        BY ZenonT(60), <2>4
    <3>1. l = t
        BY ZenonT(60), <1>7 DEF Owned
    <3> QED BY ZenonT(60), <3>1
  <2> QED BY ZenonT(60), <2>1, <2>2, <2>3, <2>4, <1>5
<1>8. ASSUME NEW p \in DOMAIN e, NEW j \in DOMAIN S, e[p] = S[j] PROVE S[j] = Null
  <2>1. CASE j \in 1..k
      BY <2>1, <1>3, <1>4, <1>8 DEF Owned
  <2>2. CASE \E l \in DOMAIN R : j = k + l /\ S[j] = R[l]
      BY <2>2, <1>4, <1>8 DEF Owned
  <2> QED BY ZenonT(60), <2>1, <2>2, <1>5
<1>9. ASSUME NEW y \in D
      PROVE  (\E p \in DOMAIN e : e[p] = y) \/ (\E j \in DOMAIN S : S[j] = y)
  <2>1. CASE \E p \in DOMAIN h : h[p] = y
    <3> PICK p \in DOMAIN h : h[p] = y
        BY ZenonT(60), <2>1
    <3>1. p \in DOMAIN e \/ \E j \in 1..k : s[j] = p
        BY ZenonT(60) DEF Handed
    <3>2. \A j \in 1..k : j \in DOMAIN S
        BY <1>1, <1>2
    <3> QED BY ZenonT(60), <3>1, <3>2, <1>3, <1>4
  <2>2. CASE \E l \in DOMAIN R : R[l] = y
    <3> PICK l \in DOMAIN R : R[l] = y
        BY ZenonT(60), <2>2
    <3>1. k + l \in DOMAIN S
        BY <1>1, <1>2
    <3> QED BY ZenonT(60), <3>1 DEF Handed
  <2> QED BY ZenonT(60), <2>1, <2>2 DEF Owned
<1>10. \A p \in DOMAIN e : e[p] \in D \cup {Null}
    BY ZenonT(60), <1>4 DEF Owned
<1>11. \A p, q \in DOMAIN e : e[p] = e[q] => p = q \/ e[p] = Null
    BY ZenonT(60), <1>4 DEF Owned
<1> QED BY ZenonT(60), <1>6, <1>7, <1>8, <1>9, <1>10, <1>11 DEF Owned

-----------------------------------------------------------------------------
\* The loop of item w visits a cell.
Visiting(m, md, w, F) ==
    /\ w \in Items /\ w.op \in Roles
    /\ w.blk \in DOMAIN m /\ w.blk \in Nat /\ w.blk # Null
    /\ w.i \in Nat /\ w.i \in DOMAIN m[w.blk] /\ m[w.blk][w.i] \in Cells
    /\ HasRole(md, w.blk, w.op)
    /\ F[w.blk] = w.i

\* A visit is to a cell of a live array.
LEMMA VisitFacts ==
    ASSUME NEW m, NEW md, NEW b, NEW w \in Items, NEW F,
           HeapType(m, md, b), ItemInv(m, md, w, F), w.i <= CountOf(m, md, w)
    PROVE  Visiting(m, md, w, F)
<1>1. w.i \in Nat \ {0} /\ w.op \in Roles \cup {"free"}
    BY ZenonT(60) DEF Items
<1>2. w.op # "free" /\ w.blk \in DOMAIN m
    BY <1>1, CountFacts
<1>3. w.blk \in Nat /\ w.blk # Null /\ IsHeap(m)
    BY ZenonT(60), <1>2, HeapFacts
<1>4. CountOf(m, md, w) = Len(m[w.blk])
    BY ZenonT(60), <1>2, CountFacts
<1>5. m[w.blk] \in Seq(Cells) /\ Len(m[w.blk]) \in Nat /\ DOMAIN m[w.blk] = 1..Len(m[w.blk])
    BY ZenonT(60), <1>2, <1>3, HeapBlock
<1>6. w.i \in 1..Len(m[w.blk])
    BY <1>1, <1>4, <1>5
<1>7. m[w.blk][w.i] \in Cells
    BY <1>5, <1>6
<1>8. F[w.blk] = w.i
    BY ZenonT(60), <1>2, <1>3 DEF ItemInv
<1>9. HasRole(md, w.blk, w.op)
  <2>1. CASE w.op = "list"
      BY ZenonT(60), <2>1, <1>3 DEF ItemInv
  <2>2. CASE w.op \in Sections
    <3>1. w.op # "list"
        BY ZenonT(60), <2>2, SectionsAre
    <3> QED BY ZenonT(60), <2>2, <3>1 DEF ItemInv, HasRole
  <2> QED BY ZenonT(60), <2>1, <2>2, <1>1, <1>2 DEF Roles
<1> QED BY ZenonT(60), <1>1, <1>2, <1>3, <1>5, <1>6, <1>7, <1>8, <1>9 DEF Visiting

\* The work a visit adds is what the cell owns.
LEMMA OwedFacts ==
    ASSUME NEW m, NEW md, NEW w, NEW F, Visiting(m, md, w, F)
    PROVE  \E g : Owes(w.op, m[w.blk][w.i], OwnedBy(w, m[w.blk][w.i]), g)
<1>1. m[w.blk][w.i] \in Cells /\ (w.op = "list" \/ w.op \in Sections)
    BY ZenonT(60) DEF Visiting, Roles
<1>2. CASE w.op = "list"
    BY ZenonT(60), <1>1, <1>2, OwesInstruction DEF OwnedBy
<1>3. CASE w.op \in Sections
  <2>1. w.op # "list"
      BY ZenonT(60), <1>3, SectionsAre
  <2> QED BY ZenonT(60), <1>1, <1>3, <2>1, OwesElement DEF OwnedBy
<1> QED BY ZenonT(60), <1>1, <1>2, <1>3

\* The fields that are left when the cell has been visited.
Remaining(m, w, F, G) ==
    /\ \A q \in DOMAIN Pending(m, G) : /\ q \in DOMAIN Pending(m, F)
                                       /\ Pending(m, G)[q] = Pending(m, F)[q]
                                       /\ ~(q.blk = w.blk /\ q.i = w.i)
    /\ \A q \in DOMAIN Pending(m, F) : (q.blk = w.blk /\ q.i = w.i) \/ q \in DOMAIN Pending(m, G)

\* A visit moves the cursor of one array past one cell.
LEMMA IsRemaining ==
    ASSUME NEW m, NEW md, NEW b, NEW w, NEW F \in [Nat -> Nat], NEW G,
           HeapType(m, md, b), Visiting(m, md, w, F), G = [F EXCEPT ![w.blk] = w.i + 1]
    PROVE  Remaining(m, w, F, G)
<1>1. F[w.blk] = w.i /\ w.i \in Nat /\ w.blk \in Nat
    BY ZenonT(60) DEF Visiting
<1>2. \A x \in Nat : G[x] = IF x = w.blk THEN w.i + 1 ELSE F[x]
    BY ZenonT(60), <1>1
<1>3. \A p \in PlacesOf(m) : p.blk \in Nat /\ p.i \in Nat
  <2> TAKE p \in PlacesOf(m)
  <2>1. DOMAIN m \subseteq Nat /\ IsHeap(m) /\ p.blk \in DOMAIN m /\ p.i \in DOMAIN m[p.blk]
      BY ZenonT(60), HeapFacts, PlaceFacts
  <2>2. p.i \in 1..Len(m[p.blk])
      BY ZenonT(60), <2>1, HeapBlock
  <2>3. p.i \in Nat
      BY <2>2
  <2> QED BY <2>1, <2>3, ZenonT(60)
<1>4. ASSUME NEW p \in PlacesOf(m)
      PROVE  p.i >= G[p.blk] <=> p.i >= F[p.blk] /\ ~(p.blk = w.blk /\ p.i = w.i)
  <2>1. p.blk \in Nat /\ p.i \in Nat /\ F[p.blk] \in Nat
      BY ZenonT(60), <1>3
  <2>2. G[p.blk] = IF p.blk = w.blk THEN w.i + 1 ELSE F[p.blk]
      BY ZenonT(60), <2>1, <1>2
  <2> QED BY <2>1, <2>2, <1>1
<1>5. /\ \A q : q \in DOMAIN Pending(m, G) <=> (q \in PlacesOf(m) /\ q.i >= G[q.blk])
      /\ \A q : q \in DOMAIN Pending(m, F) <=> (q \in PlacesOf(m) /\ q.i >= F[q.blk])
    BY ZenonT(60) DEF Pending
<1>6. /\ \A q \in DOMAIN Pending(m, G) : Pending(m, G)[q] = Ptr(m, q)
      /\ \A q \in DOMAIN Pending(m, F) : Pending(m, F)[q] = Ptr(m, q)
    BY ZenonT(60) DEF Pending
<1> QED BY ZenonT(60), <1>4, <1>5, <1>6 DEF Remaining

\* The cell's field f is still to be released.
VisitedAt(m, w, F, f) ==
    /\ At(w.blk, w.i, f) \in DOMAIN Pending(m, F)
    /\ Pending(m, F)[At(w.blk, w.i, f)] = CellPtr(m[w.blk][w.i], f)

\* The fields of the visited cell were pending.
LEMMA VisitPlace ==
    ASSUME NEW m, NEW md, NEW w, NEW F, NEW f \in Names, Visiting(m, md, w, F)
    PROVE  VisitedAt(m, w, F, f)
<1> DEFINE x == w.blk
           i == w.i
           p == At(x, i, f)
<1>1. x \in DOMAIN m /\ i \in DOMAIN m[x] /\ F[x] = i /\ i \in Nat
    BY ZenonT(60) DEF Visiting
<1>2. p.blk = x /\ p.i = i /\ p.f = f
    BY AtFields
<1> HIDE DEF x, i
<1>3. p \in PlacesOf(m)
    BY ZenonT(60), <1>1, AtPlace
<1> HIDE DEF p
<1>4. p \in DOMAIN Pending(m, F) /\ Pending(m, F)[p] = Ptr(m, p)
    BY <1>1, <1>2, <1>3, PendingFacts
<1>5. Ptr(m, p) = CellPtr(m[x][i], f)
    BY ZenonT(60), <1>2 DEF Ptr, CellPtr
<1> QED BY ZenonT(60), <1>4, <1>5 DEF VisitedAt, p, x, i

OwedAt(m, md, w, f, y) ==
    /\ \A s \in Sections : md[s].elts # y
    /\ Owns(w.op, m[w.blk][w.i], f)
    /\ OwnsLeaf(w.op, m[w.blk][w.i], f) => m[y] = <<>>

\* A visited field is freed the way its block needs.
LEMMA OwedShape ==
    ASSUME NEW m, NEW md, NEW w, NEW F, NEW f \in Names, NEW y, Visiting(m, md, w, F),
           ShapedAt(m, md, At(w.blk, w.i, f), y)
    PROVE  OwedAt(m, md, w, f, y)
<1> DEFINE p == At(w.blk, w.i, f)
<1>1. p.blk = w.blk /\ p.i = w.i /\ p.f = f
    BY ZenonT(60) DEF At
<1>2. w.op \in Roles /\ HasRole(md, w.blk, w.op)
    BY ZenonT(60) DEF Visiting
<1>3. \/ OwnsList(w.op, m[w.blk][w.i], f)
      \/ OwnsLeaf(w.op, m[w.blk][w.i], f) /\ m[y] = <<>>
    BY ZenonT(60), <1>1, <1>2 DEF ShapedAt
<1>4. ~(OwnsList(w.op, m[w.blk][w.i], f) /\ OwnsLeaf(w.op, m[w.blk][w.i], f))
    BY ZenonT(60) DEF OwnsList, OwnsLeaf
<1> QED BY ZenonT(60), <1>3, <1>4 DEF Owns, ShapedAt, OwedAt

\* What the loop over an array knows when it visits a cell.
Looping(m, md, b, wk, F, G, v, w, g) ==
    /\ HeapType(m, md, b) /\ FreeInv(m, md, wk, F)
    /\ wk \in Seq(Items) /\ wk # <<>> /\ w = wk[1] /\ F \in [Nat -> Nat]
    /\ Visiting(m, md, w, F)
    /\ G = [F EXCEPT ![w.blk] = w.i + 1]
    /\ LET cell == m[w.blk][w.i]
       IN  /\ Owes(w.op, cell, OwnedBy(w, cell), g)
           /\ Joined(v, OwnedBy(w, cell), [w EXCEPT !.i = @ + 1], wk)

\* A visit hands the pointers of the cell to the work.
LEMMA LoopHanded ==
    ASSUME NEW m, NEW md, NEW b, NEW wk, NEW F, NEW G, NEW v, NEW w, NEW g,
           Looping(m, md, b, wk, F, G, v, w, g)
    PROVE  \E k, s : Handed(Pending(m, F), Pending(m, G), Targets(wk), Targets(v), k, s)
<1> DEFINE cell == m[w.blk][w.i]
           ow == OwnedBy(w, cell)
           k == Len(ow)
           s == [j \in 1..k |-> At(w.blk, w.i, g[j])]
           h == Pending(m, F)
           e == Pending(m, G)
           R == Targets(wk)
           S == Targets(v)
<1>1. /\ HeapType(m, md, b) /\ wk \in Seq(Items) /\ w = wk[1] /\ F \in [Nat -> Nat]
      /\ Visiting(m, md, w, F) /\ G = [F EXCEPT ![w.blk] = w.i + 1]
      /\ Owes(w.op, cell, ow, g) /\ Joined(v, ow, [w EXCEPT !.i = @ + 1], wk)
      /\ Shaped(m, md, h)
    BY ZenonT(60) DEF Looping, FreeInv, Sound
<1>2. k \in Nat /\ v \in Seq(Items) /\ Len(v) = k + Len(wk) /\ Len(wk) \in Nat \ {0}
    BY ZenonT(60), <1>1 DEF Joined
<1>3. /\ DOMAIN R = 1..Len(wk) /\ DOMAIN S = 1..Len(v)
      /\ \A j \in 1..Len(wk) : R[j] = wk[j].blk
      /\ \A j \in 1..Len(v) : S[j] = v[j].blk
    BY ZenonT(60), <1>1, <1>2, TargetFacts
<1>4. /\ \A j \in 1..k : v[j] = ow[j]
      /\ v[k + 1] = [w EXCEPT !.i = @ + 1]
      /\ \A j \in 2..Len(wk) : v[k + j] = wk[j]
    BY ZenonT(60), <1>1 DEF Joined
<1>5. \A j \in 1..k : Frees(w.op, cell, ow[j], g[j]) /\ g[j] \in Names
    BY ZenonT(60), <1>1 DEF Owes, Frees
<1>6. \A j \in 1..k : s[j] = At(w.blk, w.i, g[j])
    BY ZenonT(60)
<1> HIDE DEF s, k, e, h, R, S, ow
<1>7. \A f \in Names : At(w.blk, w.i, f) \in DOMAIN h /\ h[At(w.blk, w.i, f)] = CellPtr(cell, f)
  <2>1. \A f \in Names : VisitedAt(m, w, F, f)
      BY ZenonT(60), <1>1, VisitPlace
  <2> QED BY <2>1, ZenonT(60) DEF VisitedAt, h
<1>15. Remaining(m, w, F, G)
    BY ZenonT(60), <1>1, IsRemaining
<1>8. \A j \in 1..k : j \in 1..Len(v)
    BY <1>2
<1>9. \A j \in 1..k : s[j] \in DOMAIN h /\ s[j] \notin DOMAIN e /\ S[j] = h[s[j]]
  <2> TAKE j \in 1..k
  <2>1. s[j] \in DOMAIN h /\ h[s[j]] = CellPtr(cell, g[j])
      BY ZenonT(60), <1>5, <1>6, <1>7
  <2>2. s[j].blk = w.blk /\ s[j].i = w.i
      BY <1>6, AtFields
  <2>3. s[j] \notin DOMAIN e
      BY <1>15, <2>2, ZenonT(60) DEF e, Remaining
  <2>4. S[j] = CellPtr(cell, g[j])
      BY ZenonT(60), <1>3, <1>4, <1>5, <1>8 DEF Frees
  <2> QED BY ZenonT(60), <2>1, <2>3, <2>4
<1>10. \A i, j \in 1..k : s[i] = s[j] => i = j
  <2> TAKE i, j \in 1..k
  <2>1. s[i].f = g[i] /\ s[j].f = g[j]
      BY <1>6, AtFields
  <2>2. g[i] = g[j] => i = j
      BY ZenonT(60), <1>1 DEF Owes, k
  <2> QED BY ZenonT(60), <2>1, <2>2
<1>11. \A j \in DOMAIN R : S[k + j] = R[j]
  <2> TAKE j \in DOMAIN R
  <2>1. j \in 1..Len(wk) /\ k + j \in 1..Len(v) /\ (j = 1 \/ j \in 2..Len(wk))
      BY <1>2, <1>3
  <2>2. [w EXCEPT !.i = @ + 1].blk = w.blk
      BY ZenonT(60), <1>1 DEF Visiting, Items
  <2>3. v[k + j].blk = wk[j].blk
      BY ZenonT(60), <2>1, <2>2, <1>1, <1>4
  <2> QED BY ZenonT(60), <2>1, <2>3, <1>3
<1>12. \A p \in DOMAIN e : p \in DOMAIN h /\ e[p] = h[p]
    BY <1>15, ZenonT(60) DEF e, h, Remaining
<1>13. \A p \in DOMAIN h : p \in DOMAIN e \/ h[p] = Null \/ \E j \in 1..k : s[j] = p
  <2> SUFFICES ASSUME NEW p \in DOMAIN h, p \notin DOMAIN e, h[p] # Null
               PROVE  \E j \in 1..k : s[j] = p
      BY ZenonT(60)
  <2>1. p.blk = w.blk /\ p.i = w.i
      BY <1>15, ZenonT(60) DEF e, h, Remaining
  <2>2. p \in PlacesOf(m)
      BY ZenonT(60), PendingFacts DEF h
  <2>3. p.f \in Names /\ p = At(w.blk, w.i, p.f)
      BY ZenonT(60), <2>1, <2>2, PlaceFacts
  <2>4. ShapedAt(m, md, At(w.blk, w.i, p.f), h[p])
      BY ZenonT(60), <1>1, <2>3 DEF Shaped
  <2>5. Owns(w.op, cell, p.f)
    <3>1. OwedAt(m, md, w, p.f, h[p])
        BY ZenonT(60), <1>1, <2>3, <2>4, OwedShape
    <3> QED BY ZenonT(60), <3>1 DEF OwedAt
  <2>6. PICK j \in 1..k : g[j] = p.f
      BY ZenonT(60), <1>1, <2>3, <2>5 DEF Owes, k
  <2> QED BY ZenonT(60), <2>3, <2>6, <1>6
<1>14. Handed(h, e, R, S, k, s)
    BY ZenonT(60), <1>2, <1>3, <1>9, <1>10, <1>11, <1>12, <1>13 DEF Handed
<1> QED BY ZenonT(60), <1>14 DEF h, e, R, S

\* The items after a visit are as they should be.
LEMMA LoopItems ==
    ASSUME NEW m, NEW md, NEW b, NEW wk, NEW F, NEW G, NEW v, NEW w, NEW g,
           Looping(m, md, b, wk, F, G, v, w, g), NEW j \in 1..Len(v)
    PROVE  ItemInv(m, md, v[j], G)
<1> DEFINE cell == m[w.blk][w.i]
           ow == OwnedBy(w, cell)
           k == Len(ow)
           h == Pending(m, F)
<1>1. /\ HeapType(m, md, b) /\ wk \in Seq(Items) /\ w = wk[1] /\ F \in [Nat -> Nat]
      /\ Visiting(m, md, w, F) /\ G = [F EXCEPT ![w.blk] = w.i + 1]
      /\ Owes(w.op, cell, ow, g) /\ Joined(v, ow, [w EXCEPT !.i = @ + 1], wk)
      /\ Shaped(m, md, h) /\ Owned(DOMAIN m, h, Targets(wk))
      /\ \A i \in 1..Len(wk) : ItemInv(m, md, wk[i], F)
      /\ \A p \in DOMAIN h : h[p] # Null => F[h[p]] = 1
    BY ZenonT(60) DEF Looping, FreeInv, Sound
<1>2. k \in Nat /\ Len(v) = k + Len(wk) /\ Len(wk) \in Nat \ {0}
    BY ZenonT(60), <1>1 DEF Joined
<1>3. /\ \A i \in 1..k : v[i] = ow[i]
      /\ v[k + 1] = [w EXCEPT !.i = @ + 1]
      /\ \A i \in 2..Len(wk) : v[k + i] = wk[i]
    BY ZenonT(60), <1>1 DEF Joined
<1>4. w.blk \in DOMAIN m /\ w.blk \in Nat /\ w.blk # Null /\ w.i \in Nat /\ F[w.blk] = w.i /\ w \in Items /\ w.op \in Roles
    BY ZenonT(60), <1>1 DEF Visiting
<1>5. G[w.blk] = w.i + 1 /\ \A x \in Nat : x # w.blk => G[x] = F[x]
    BY <1>1, <1>4
<1>6. /\ \A i \in 1..Len(wk) : i \in DOMAIN Targets(wk) /\ Targets(wk)[i] = wk[i].blk /\ wk[i] \in Items
    BY ZenonT(60), <1>1, TargetFacts
<1>7. 1 \in 1..Len(wk)
    BY <1>2
<1> HIDE DEF k, ow, h
<1>8. j \in 1..k \/ j = k + 1 \/ \E i \in 2..Len(wk) : j = k + i
  <2>1. j \in 1..k \/ j = k + 1 \/ (j - k \in 2..Len(wk) /\ j = k + (j - k))
      BY <1>2
  <2> QED BY ZenonT(60), <2>1
<1>9. CASE j \in 1..k
  <2>1. v[j] = ow[j] /\ Frees(w.op, cell, ow[j], g[j])
      BY ZenonT(60), <1>1, <1>3, <1>9 DEF Owes, k
  <2> DEFINE p == At(w.blk, w.i, g[j])
             it == ow[j]
             y == CellPtr(cell, g[j])
  <2>2. /\ it \in Items /\ g[j] \in Names /\ it.blk = y /\ it.i = 1
        /\ \/ it.op = "list" /\ OwnsList(w.op, cell, g[j])
           \/ it.op = "free" /\ OwnsLeaf(w.op, cell, g[j])
      BY ZenonT(60), <2>1 DEF Frees
  <2>3. it.op \notin Sections
      BY ZenonT(60), <2>2, SectionsAre
  <2>4. VisitedAt(m, w, F, g[j])
      BY ZenonT(60), <1>1, <2>2, VisitPlace
  <2>5. p \in DOMAIN h
      BY ZenonT(60), <2>4 DEF h, VisitedAt
  <2>6. h[p] = y
      BY ZenonT(60), <2>4 DEF h, VisitedAt
  <2> HIDE DEF p, it, y
  <2>7. CASE y = Null
    <3>1. it.blk = Null
        BY ZenonT(60), <2>2, <2>7
    <3>2. ItemInv(m, md, it, G)
        BY ZenonT(60), <2>3, <3>1 DEF ItemInv
    <3> QED BY ZenonT(60), <2>1, <3>2 DEF it
  <2>8. CASE y # Null
    <3>1. ShapedAt(m, md, At(w.blk, w.i, g[j]), y)
        BY ZenonT(60), <1>1, <2>5, <2>6, <2>8 DEF Shaped, p
    <3>2. (\A s \in Sections : md[s].elts # y) /\ (OwnsLeaf(w.op, cell, g[j]) => m[y] = <<>>)
      <4>1. OwedAt(m, md, w, g[j], y)
          BY ZenonT(60), <1>1, <2>2, <3>1, OwedShape
      <4> QED BY ZenonT(60), <4>1 DEF OwedAt
    <3>3. HasRole(md, y, "list")
        BY ZenonT(60), <3>2 DEF HasRole
    <3>4. y # w.blk
      <4>1. 1 \in DOMAIN Targets(wk) /\ Targets(wk)[1] = w.blk
          BY ZenonT(60), <1>1, <1>6, <1>7
      <4>2. \A q \in DOMAIN h, i \in DOMAIN Targets(wk) : h[q] = Targets(wk)[i] => Targets(wk)[i] = Null
          BY <1>1, ZenonT(60) DEF Owned
      <4> QED BY ZenonT(60), <4>1, <4>2, <2>5, <2>6, <2>8
    <3>5. y \in Nat
        BY ZenonT(60), <2>2 DEF Items
    <3>6. F[h[p]] = 1
        BY ZenonT(60), <1>1, <2>5, <2>6, <2>8
    <3>7. G[y] = 1
      <4>1. G[y] = F[y]
          BY ZenonT(60), <1>5, <3>4, <3>5
      <4> QED BY ZenonT(60), <4>1, <3>6, <2>6
    <3>8. G[it.blk] = it.i
        BY ZenonT(60), <3>7, <2>2
    <3>9. it.op = "list" => HasRole(md, it.blk, "list")
        BY ZenonT(60), <3>3, <2>2
    <3>10. it.op = "free" => m[it.blk] = <<>>
        BY ZenonT(60), <3>2, <2>2
    <3>11. ItemInv(m, md, it, G)
        BY ZenonT(60), <2>3, <3>8, <3>9, <3>10 DEF ItemInv
    <3> QED BY ZenonT(60), <2>1, <3>11 DEF it
  <2> QED BY ZenonT(60), <2>7, <2>8
<1>10. CASE j = k + 1
  <2>1. v[j].op = w.op /\ v[j].blk = w.blk /\ v[j].i = w.i + 1
      BY ZenonT(60), <1>3, <1>4, <1>10 DEF Items
  <2>2. ItemInv(m, md, w, F)
      BY ZenonT(60), <1>1, <1>7
  <2>3. w.op # "free"
      BY ZenonT(60), <1>4, SectionsAre DEF Roles
  <2> QED BY ZenonT(60), <2>1, <2>2, <2>3, <1>5 DEF ItemInv
<1>11. ASSUME NEW i \in 2..Len(wk), j = k + i PROVE ItemInv(m, md, v[j], G)
  <2>1. v[j] = wk[i] /\ i \in 1..Len(wk) /\ i # 1
      BY <1>2, <1>3, <1>11
  <2>2. ItemInv(m, md, wk[i], F) /\ wk[i].blk \in Nat
      BY ZenonT(60), <2>1, <1>1, <1>6 DEF Items
  <2>3. wk[i].blk # Null => wk[i].blk # w.blk
      BY ZenonT(60), <2>1, <1>1, <1>6, <1>7 DEF Owned
  <2> QED BY ZenonT(60), <2>1, <2>2, <2>3, <1>5 DEF ItemInv
<1> QED BY ZenonT(60), <1>8, <1>9, <1>10, <1>11

\* The loop's item with its cursor advanced.
LEMMA NextItem ==
    ASSUME NEW w \in Items
    PROVE  [w EXCEPT !.i = @ + 1] \in Items
<1>1. w.i + 1 \in Nat \ {0}
    BY DEF Items
<1> QED BY ZenonT(60), <1>1 DEF Items

\* The cursors after one has advanced.
LEMMA NextCursor ==
    ASSUME NEW F \in [Nat -> Nat], NEW x, NEW i \in Nat
    PROVE  [F EXCEPT ![x] = i + 1] \in [Nat -> Nat]
<1>1. i + 1 \in Nat
    OBVIOUS
<1> QED BY ZenonT(60), <1>1

\* A cell is visited: what it owns becomes work.
LEMMA Looped ==
    ASSUME NEW m, NEW md, NEW b, NEW wk \in Seq(Items), NEW F \in [Nat -> Nat], NEW w, NEW v,
           HeapType(m, md, b), FreeInv(m, md, wk, F), wk # <<>>, w = Head(wk),
           w.i <= CountOf(m, md, w),
           v = NextWork(m, w, wk)
    PROVE  v \in Seq(Items) /\ \E G \in [Nat -> Nat] : FreeInv(m, md, v, G)
<1> DEFINE ow == OwnedBy(w, m[w.blk][w.i])
           it == [w EXCEPT !.i = @ + 1]
           G == [F EXCEPT ![w.blk] = w.i + 1]
           h == Pending(m, F)
           e == Pending(m, G)
           R == Targets(wk)
           S == Targets(v)
<1>1. w \in Items /\ w = wk[1] /\ Len(wk) \in Nat \ {0}
    BY ZenonT(60), TailFacts
<1>2. 1 \in 1..Len(wk)
  <2> QED BY <1>1
<1>3. Visiting(m, md, w, F)
    BY ZenonT(60), <1>1, <1>2, VisitFacts DEF FreeInv
<1>4. PICK g : Owes(w.op, m[w.blk][w.i], ow, g)
    BY ZenonT(60), <1>3, OwedFacts
<1>5. ow \in Seq(Items) /\ it \in Items
    BY ZenonT(60), <1>1, <1>4, NextItem DEF Owes
<1> HIDE DEF ow, it
<1>6. Joined(v, ow, it, wk)
    BY ZenonT(60), <1>5, JoinFacts DEF ow, it, NextWork
<1>7. v \in Seq(Items)
    BY ZenonT(60), <1>6 DEF Joined
<1>8. G \in [Nat -> Nat]
    BY ZenonT(60), <1>3, NextCursor DEF Visiting
<1> HIDE DEF G
<1>9. Looping(m, md, b, wk, F, G, v, w, g)
    BY ZenonT(60), <1>1, <1>3, <1>4, <1>6 DEF Looping, ow, it, G
<1>10. PICK k, s : Handed(h, e, R, S, k, s)
    BY ZenonT(60), <1>9, LoopHanded
<1>11. Owned(DOMAIN m, h, R) /\ Shaped(m, md, h) /\ (\E r \in [Nat -> Nat] : Ranked(h, r)) /\ Null \notin DOMAIN m
    BY ZenonT(60), HeapFacts DEF FreeInv, Sound
<1> HIDE DEF h, e, R, S
<1>12. Owned(DOMAIN m, e, S)
    BY ZenonT(60), <1>10, <1>11, HandedOwned
<1>13. \A p \in DOMAIN e : p \in DOMAIN h /\ e[p] = h[p]
    BY ZenonT(60), <1>10 DEF Handed
<1>14. Shaped(m, md, e)
    BY ZenonT(60), <1>11, <1>13 DEF Shaped
<1>15. \E r \in [Nat -> Nat] : Ranked(e, r)
  <2>1. PICK r \in [Nat -> Nat] : Ranked(h, r)
      BY ZenonT(60), <1>11
  <2>2. Ranked(e, r)
      BY ZenonT(60), <2>1, <1>13 DEF Ranked
  <2> QED BY ZenonT(60), <2>2
<1>16. \A j \in 1..Len(v) : ItemInv(m, md, v[j], G)
    BY ZenonT(60), <1>9, LoopItems
<1>17. \A p \in DOMAIN e : e[p] # Null => G[e[p]] = 1
  <2> SUFFICES ASSUME NEW p \in DOMAIN e, e[p] # Null PROVE G[e[p]] = 1
      BY ZenonT(60)
  <2>1. p \in DOMAIN h /\ e[p] = h[p] /\ F[h[p]] = 1
      BY ZenonT(60), <1>13 DEF FreeInv, h
  <2>2. h[p] # w.blk
    <3>1. 1 \in DOMAIN R /\ R[1] = w.blk
        BY ZenonT(60), <1>1, <1>2, TargetFacts DEF R
    <3>2. \A q \in DOMAIN h, i \in DOMAIN R : h[q] = R[i] => R[i] = Null
        BY <1>11, ZenonT(60) DEF Owned
    <3> QED BY ZenonT(60), <3>1, <3>2, <2>1
  <2>3. h[p] \in Nat
    <3>1. h[p] \in DOMAIN m
        BY <1>11, <2>1 DEF Owned
    <3> QED BY ZenonT(60), <3>1, HeapFacts
  <2>4. \A x \in Nat : x # w.blk => G[x] = F[x]
      BY ZenonT(60) DEF G
  <2> QED BY ZenonT(60), <2>1, <2>2, <2>3, <2>4
<1>18. FreeInv(m, md, v, G)
    BY ZenonT(60), <1>12, <1>14, <1>15, <1>16, <1>17 DEF FreeInv, Sound, e, S
<1> QED BY ZenonT(60), <1>7, <1>8, <1>18

-----------------------------------------------------------------------------
\* The order in which the sections are released has each section once.
Ordered(s) ==
    /\ s \in Seq(Sections) /\ Len(s) \in Nat
    /\ \A j \in 1..Len(s) : s[j] \in Sections
    /\ \A i, j \in 1..Len(s) : s[i] = s[j] => i = j
    /\ \A t \in Sections : \E j \in 1..Len(s) : s[j] = t

\* wasmjit_free_module frees each section once.
LEMMA OrderFacts == Ordered(FreeOrder)
<1>1. FreeOrder \in Seq(Sections)
    BY SectionsAre DEF FreeOrder
<1>2. Len(FreeOrder) = 10
    BY ZenonT(60) DEF FreeOrder
<1>3. /\ FreeOrder[1] = "type" /\ FreeOrder[2] = "import" /\ FreeOrder[3] = "function"
      /\ FreeOrder[4] = "table" /\ FreeOrder[5] = "memory" /\ FreeOrder[6] = "global"
      /\ FreeOrder[7] = "export" /\ FreeOrder[8] = "element" /\ FreeOrder[9] = "code"
      /\ FreeOrder[10] = "data"
    BY ZenonT(60) DEF FreeOrder
<1>4. \A j \in 1..10 : j \in {1, 2, 3, 4, 5, 6, 7, 8, 9, 10}
    OBVIOUS
<1>5. \A i, j \in 1..10 : FreeOrder[i] = FreeOrder[j] => i = j
    BY <1>3, <1>4
<1>6. \A j \in {1, 2, 3, 4, 5, 6, 7, 8, 9, 10} : j \in 1..10
    OBVIOUS
<1>7. \A t \in Sections : \E j \in {1, 2, 3, 4, 5, 6, 7, 8, 9, 10} : FreeOrder[j] = t
    BY ZenonT(60), <1>3, SectionsAre
<1>8. \A j \in 1..10 : FreeOrder[j] \in Sections
    BY ZenonT(60), <1>3, <1>4, SectionsAre
<1>9. \A t \in Sections : \E j \in 1..10 : FreeOrder[j] = t
    BY ZenonT(60), <1>6, <1>7
<1> QED BY <1>1, <1>2, <1>5, <1>8, <1>9 DEF Ordered

IsSectionWork(md, wk) ==
    /\ wk \in Seq(Items) /\ Len(wk) = Len(FreeOrder)
    /\ \A j \in 1..Len(FreeOrder) :
          wk[j].op = FreeOrder[j] /\ wk[j].blk = md[FreeOrder[j]].elts /\ wk[j].i = 1

\* The first work: one loop for each section.
LEMMA SectionWorkFacts ==
    ASSUME NEW md \in [Sections -> Arrays]
    PROVE  IsSectionWork(md, SectionWork(md))
<1> DEFINE wk == SectionWork(md)
           n == Len(FreeOrder)
<1>1. n \in Nat /\ \A j \in 1..n : FreeOrder[j] \in Sections
    BY ZenonT(60), OrderFacts DEF Ordered
<1>2. \A s \in Sections : SectionItem(md, s) \in Items
  <2> TAKE s \in Sections
  <2>1. md[s].elts \in Nat
      BY ZenonT(60) DEF Arrays
  <2> QED BY <2>1 DEF SectionItem, Items, Roles
<1>3. \A s : SectionItem(md, s).op = s /\ SectionItem(md, s).blk = md[s].elts /\ SectionItem(md, s).i = 1
    BY ZenonT(60) DEF SectionItem
<1> HIDE DEF n
<1>4. wk = [j \in 1..n |-> SectionItem(md, FreeOrder[j])]
    BY ZenonT(60) DEF SectionWork, n
<1> HIDE DEF wk
<1>5. wk \in [1..n -> Items]
    BY ZenonT(60), <1>1, <1>2, <1>4
<1>6. wk \in Seq(Items) /\ Len(wk) = n
    BY <1>1, <1>5
<1>7. \A j \in 1..n : wk[j] = SectionItem(md, FreeOrder[j])
    BY ZenonT(60), <1>4
<1> QED BY <1>3, <1>6, <1>7 DEF IsSectionWork, n, wk

\* wasmjit_free_module starts: the arrays of the sections are the roots.
LEMMA FreeStarts ==
    ASSUME NEW m, NEW md, NEW ins, NEW b, NEW wk, HeapType(m, md, b),
           Sound(m, md, Held(m), Roots(md, ins)), ins.a = Null, IsSectionWork(md, wk)
    PROVE  \E F \in [Nat -> Nat] : FreeInv(m, md, wk, F)
<1> DEFINE F == [x \in Nat |-> 1]
           h == Held(m)
           R == Roots(md, ins)
           S == Targets(wk)
           n == Len(FreeOrder)
<1>1. F \in [Nat -> Nat] /\ \A x \in Nat : F[x] = 1
    BY ZenonT(60)
<1> HIDE DEF F
<1>2. Pending(m, F) = h
  <2>1. ASSUME NEW q \in PlacesOf(m) PROVE q.i >= F[q.blk]
    <3>1. DOMAIN m \subseteq Nat /\ IsHeap(m) /\ q.blk \in DOMAIN m /\ q.i \in DOMAIN m[q.blk]
        BY ZenonT(60), HeapFacts, PlaceFacts
    <3>2. q.i \in 1..Len(m[q.blk])
        BY ZenonT(60), <3>1, HeapBlock
    <3>3. F[q.blk] = 1
        BY ZenonT(60), <3>1, <1>1
    <3> QED BY <3>2, <3>3
  <2>2. {q \in PlacesOf(m) : q.i >= F[q.blk]} = PlacesOf(m)
      BY ZenonT(60), <2>1
  <2> QED BY ZenonT(60), <2>2 DEF Pending, Held
<1>3. Owned(DOMAIN m, h, R) /\ Shaped(m, md, h) /\ \E r \in [Nat -> Nat] : Ranked(h, r)
    BY ZenonT(60) DEF Sound
<1>4. wk \in Seq(Items) /\ Len(wk) = n /\ n \in Nat
    BY ZenonT(60), OrderFacts DEF IsSectionWork, Ordered
<1>5. DOMAIN S = 1..n /\ \A j \in 1..n : S[j] = md[FreeOrder[j]].elts
    BY <1>4, TargetFacts DEF IsSectionWork
<1>6. /\ DOMAIN R = Sections \cup {"instr"} /\ R["instr"] = Null
      /\ \A s \in Sections : R[s] = md[s].elts
    BY ZenonT(60), RootsFacts
<1> HIDE DEF h, R, S, n
<1>7. /\ \A j \in 1..n : FreeOrder[j] \in Sections
      /\ \A i, j \in 1..n : FreeOrder[i] = FreeOrder[j] => i = j
      /\ \A t \in Sections : \E j \in 1..n : FreeOrder[j] = t
    BY ZenonT(60), OrderFacts DEF Ordered, n
<1>8. \A j \in 1..n : FreeOrder[j] \in DOMAIN R /\ S[j] = R[FreeOrder[j]]
    BY <1>5, <1>6, <1>7
<1>9. Owned(DOMAIN m, h, S)
  <2>1. \A j \in DOMAIN S : S[j] \in DOMAIN m \cup {Null}
      BY ZenonT(60), <1>3, <1>5, <1>8 DEF Owned
  <2>2. \A i, j \in DOMAIN S : S[i] = S[j] => i = j \/ S[i] = Null
    <3> TAKE i, j \in DOMAIN S
    <3>2. \A k, l \in DOMAIN R : R[k] = R[l] => k = l \/ R[k] = Null
        BY ZenonT(60), <1>3 DEF Owned
    <3>3. /\ FreeOrder[i] \in DOMAIN R /\ S[i] = R[FreeOrder[i]]
          /\ FreeOrder[j] \in DOMAIN R /\ S[j] = R[FreeOrder[j]]
        BY ZenonT(60), <1>5, <1>8
    <3>1. S[i] = S[j] => FreeOrder[i] = FreeOrder[j] \/ S[i] = Null
        BY ZenonT(60), <3>2, <3>3
    <3> QED BY ZenonT(60), <3>1, <1>5, <1>7
  <2>3. \A p \in DOMAIN h, j \in DOMAIN S : h[p] = S[j] => S[j] = Null
    <3>1. \A p \in DOMAIN h, k \in DOMAIN R : h[p] = R[k] => R[k] = Null
        BY ZenonT(60), <1>3 DEF Owned
    <3> TAKE p \in DOMAIN h, j \in DOMAIN S
    <3>2. FreeOrder[j] \in DOMAIN R /\ S[j] = R[FreeOrder[j]]
        BY ZenonT(60), <1>5, <1>8
    <3> QED BY <3>1, <3>2
  <2>4. ASSUME NEW x \in DOMAIN m
        PROVE  (\E p \in DOMAIN h : h[p] = x) \/ (\E j \in DOMAIN S : S[j] = x)
    <3>1. CASE \E k \in DOMAIN R : R[k] = x
      <4>1. PICK k \in DOMAIN R : R[k] = x
          BY ZenonT(60), <3>1
      <4>2. x # Null
          BY ZenonT(60), HeapFacts
      <4>3. k \in Sections
          BY ZenonT(60), <4>1, <4>2, <1>6
      <4>4. PICK j \in 1..n : FreeOrder[j] = k
          BY ZenonT(60), <4>3, <1>7
      <4> QED BY ZenonT(60), <4>1, <4>4, <1>5, <1>8
    <3>2. CASE \E p \in DOMAIN h : h[p] = x
        BY ZenonT(60), <3>2
    <3> QED BY ZenonT(60), <3>1, <3>2, <1>3 DEF Owned
  <2>5. /\ \A p \in DOMAIN h : h[p] \in DOMAIN m \cup {Null}
        /\ \A p, q \in DOMAIN h : h[p] = h[q] => p = q \/ h[p] = Null
      BY ZenonT(60), <1>3 DEF Owned
  <2> QED BY ZenonT(60), <2>1, <2>2, <2>3, <2>4, <2>5 DEF Owned
<1>10. \A p \in DOMAIN h : h[p] # Null => F[h[p]] = 1
  <2> SUFFICES ASSUME NEW p \in DOMAIN h, h[p] # Null PROVE F[h[p]] = 1
      BY ZenonT(60)
  <2>1. h[p] \in DOMAIN m
      BY ZenonT(60), <1>3 DEF Owned
  <2>2. h[p] \in Nat
      BY ZenonT(60), <2>1, HeapFacts
  <2> QED BY ZenonT(60), <2>2, <1>1
<1>11. ASSUME NEW j \in 1..n PROVE ItemInv(m, md, wk[j], F)
  <2>1. wk[j].op = FreeOrder[j] /\ wk[j].blk = md[FreeOrder[j]].elts /\ wk[j].i = 1 /\ FreeOrder[j] \in Sections
      BY ZenonT(60), <1>7 DEF IsSectionWork, n
  <2>2. wk[j].op # "list" /\ wk[j].op # "free"
      BY ZenonT(60), <2>1, SectionsAre
  <2>3. wk[j].blk \in Nat
    <3>1. wk[j] \in Items
        BY ZenonT(60), <1>4, TargetFacts
    <3> QED BY ZenonT(60), <3>1 DEF Items
  <2> QED BY ZenonT(60), <2>1, <2>2, <2>3, <1>1 DEF ItemInv
<1>12. FreeInv(m, md, wk, F)
    BY ZenonT(60), <1>2, <1>3, <1>4, <1>9, <1>10, <1>11 DEF FreeInv, Sound, S
<1> QED BY ZenonT(60), <1>1, <1>12

-----------------------------------------------------------------------------
INSTANCE WellFoundedInduction

\* Without work nothing is live: a live block would have a live owner of a
\* lower rank, that one another, and so on without end.
LEMMA NothingLeft ==
    ASSUME NEW m, NEW md, NEW b, NEW F, HeapType(m, md, b), FreeInv(m, md, <<>>, F)
    PROVE  DOMAIN m = {}
<1> DEFINE h == Pending(m, F)
<1>1. DOMAIN Targets(<<>>) = {}
    BY DEF Targets
<1>2. PICK r \in [Nat -> Nat] : Ranked(h, r)
    BY DEF FreeInv, Sound
<1>3. DOMAIN m \subseteq Nat
    BY ZenonT(60), HeapFacts
<1>4. \A x \in DOMAIN m : \E p \in DOMAIN h : h[p] = x
    BY ZenonT(60), <1>1 DEF FreeInv, Sound, Owned
<1>5. \A x \in DOMAIN m : \E y \in DOMAIN m : r[y] < r[x]
  <2> TAKE x \in DOMAIN m
  <2>1. PICK p \in DOMAIN h : h[p] = x
      BY ZenonT(60), <1>4
  <2>2. p.blk \in DOMAIN m
      BY ZenonT(60), PendingFacts
  <2>3. x # Null
      BY ZenonT(60), HeapFacts
  <2>4. r[p.blk] < r[x]
      BY ZenonT(60), <1>2, <2>1, <2>3 DEF Ranked
  <2> QED BY ZenonT(60), <2>2, <2>4
<1> SUFFICES ASSUME DOMAIN m # {} PROVE FALSE
    BY ZenonT(60)
<1> HIDE DEF h
<1> DEFINE T == {r[x] : x \in DOMAIN m}
<1>6. T \subseteq Nat /\ T # {}
    BY <1>3
<1>7. PICK t \in T : \A u \in T : ~(<<u, t>> \in OpToRel(<, Nat))
    BY ZenonT(60), <1>6, NatLessThanWellFounded, WFMin
<1>8. PICK x \in DOMAIN m : t = r[x]
    OBVIOUS
<1>9. PICK y \in DOMAIN m : r[y] < r[x]
    BY ZenonT(60), <1>5
<1>10. r[y] \in T /\ r[y] \in Nat /\ r[x] \in Nat
    BY ZenonT(60), <1>3
<1>11. <<r[y], r[x]>> \in OpToRel(<, Nat)
    BY ZenonT(60), <1>9, <1>10 DEF OpToRel
<1> QED BY ZenonT(60), <1>7, <1>8, <1>10, <1>11

\* When the release is over nothing is live.
LEMMA InvAllReleased ==
    ASSUME Inv
    PROVE  AllReleased
<1> SUFFICES ASSUME phase = "freed" PROVE DOMAIN mem = {}
    BY ZenonT(60) DEF AllReleased
<1>1. HeapType(mem, module, next) /\ Freeing(mem, module, <<>>)
    BY ZenonT(60) DEF Inv, TypeInv, Reading
<1> QED BY ZenonT(60), <1>1, NothingLeft DEF Freeing

-----------------------------------------------------------------------------
\* The release may start.
LEMMA StartLawHolds == StartLaw
<1> SUFFICES ASSUME NEW m, NEW md, NEW ins, NEW b, WellFormed(m, md, ins, b), ins.a = Null,
                    md \in [Sections -> Arrays]
             PROVE  Freeing(m, md, SectionWork(md))
    BY ZenonT(60) DEF StartLaw
<1> DEFINE wk == SectionWork(md)
<1>1. IsSectionWork(md, wk)
    BY ZenonT(60), SectionWorkFacts
<1>2. wk \in Seq(Items)
    BY ZenonT(60), <1>1 DEF IsSectionWork
<1> HIDE DEF wk
<1>3. \E F \in [Nat -> Nat] : FreeInv(m, md, wk, F)
    BY ZenonT(60), <1>1, FreeStarts DEF WellFormed
<1> QED BY ZenonT(60), <1>2, <1>3 DEF Freeing, wk

\* The release may visit a cell.
LEMMA VisitLawHolds == VisitLaw
<1> SUFFICES ASSUME NEW m, NEW md, NEW b, NEW wk, HeapType(m, md, b), Freeing(m, md, wk), wk # <<>>,
                    Head(wk).i <= CountOf(m, md, Head(wk))
             PROVE  Freeing(m, md, NextWork(m, Head(wk), wk))
    BY ZenonT(60) DEF VisitLaw
<1>1. wk \in Seq(Items)
    BY ZenonT(60) DEF Freeing
<1>2. PICK F \in [Nat -> Nat] : FreeInv(m, md, wk, F)
    BY ZenonT(60) DEF Freeing
<1> DEFINE w == Head(wk)
           v == NextWork(m, w, wk)
<1>3. w = Head(wk) /\ v = NextWork(m, w, wk)
    OBVIOUS
<1> HIDE DEF w, v
<1>4. v \in Seq(Items) /\ \E G \in [Nat -> Nat] : FreeInv(m, md, v, G)
    BY ZenonT(60), <1>1, <1>2, <1>3, Looped
<1> QED BY ZenonT(60), <1>3, <1>4 DEF Freeing

\* The release may free an array whose loop is over.
LEMMA FreeLawHolds == FreeLaw
<1> SUFFICES ASSUME NEW m, NEW md, NEW b, NEW wk, HeapType(m, md, b), Freeing(m, md, wk), wk # <<>>,
                    Head(wk).i > CountOf(m, md, Head(wk))
             PROVE  /\ HeapType(Release(m, Head(wk).blk), md, b)
                    /\ Freeing(Release(m, Head(wk).blk), md, Tail(wk))
    BY ZenonT(60) DEF FreeLaw
<1>1. wk \in Seq(Items)
    BY ZenonT(60) DEF Freeing
<1>2. PICK F \in [Nat -> Nat] : FreeInv(m, md, wk, F)
    BY ZenonT(60) DEF Freeing
<1> DEFINE n == Release(m, Head(wk).blk)
<1>3. n = Release(m, Head(wk).blk)
    OBVIOUS
<1> HIDE DEF n
<1>4. HeapType(n, md, b) /\ FreeInv(n, md, Tail(wk), F)
    BY <1>1, <1>2, <1>3, Freed
<1>5. Tail(wk) \in Seq(Items)
    BY ZenonT(60), <1>1, TailFacts
<1> QED BY ZenonT(60), <1>2, <1>3, <1>4, <1>5 DEF Freeing
=============================================================================
