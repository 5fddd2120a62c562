---------------------------- MODULE MCControlMsg ----------------------------
(* A memory of 24 words and addresses of 7 bits.  The control buffer of    *)
(* sendmsg holds up to two messages, whole, malformed or cut off; that of  *)
(* recvmsg has any length.                                                 *)
EXTENDS ControlMsgCorrect

Words == MemSize \div 4
Blank == [w \in 1..Words |-> 0]
Place(mem, a, words) == ToUser(mem, a, words)

Right(n) == <<12 + 4 * n, 1, 1>> \o [k \in 1..n |-> 10 + k]
Cred == <<24, 1, 2, 0, 0, 0>>
Good == {Right(n) : n \in 0..3} \cup {Cred}
Bad == {<<14, 1, 1, 9>>, <<20, 1, 2, 9, 9>>, <<8, 1, 1>>, <<16, 2, 1, 9>>, <<16, 1, 3, 9>>,
        <<127, 1, 1>>, <<100, 1, 1>>, <<60, 1, 1>>}
Lists == {<<>>} \cup Good \cup Bad \cup {a \o b : a \in Good, b \in Good \cup Bad}

(* iov: none, one buffer, one that ends at the end of memory, one past it, *)
(* and a vector that runs over the end of the addresses.                   *)
Iovs == {[at |-> 0, n |-> 0, words |-> <<>>], [at |-> 80, n |-> 1, words |-> <<4, 8>>],
         [at |-> 80, n |-> 2, words |-> <<92, 4, 8, 0>>], [at |-> 80, n |-> 1, words |-> <<92, 5>>],
         [at |-> 80, n |-> 1, words |-> <<100, 30>>], [at |-> 88, n |-> 2, words |-> <<4, 4>>],
         [at |-> 80, n |-> 1, words |-> <<0, 4>>]}

Em(v, c, len, name) ==
    [name |-> name, namelen |-> IF name = 0 THEN 0 ELSE 8, iov |-> v.at, iovlen |-> v.n, control |-> c, controllen |-> len,
     ctrunc |-> FALSE]
Call(v, list, c, len, name) ==
    [mem |-> Place(Place(Blank, c, list), v.at, v.words), em |-> Em(v, c, len, name)]
Plain == [at |-> 80, n |-> 1, words |-> <<4, 8>>]

MCSends ==
    {Call(Plain, l, 8, 4 * Len(l) + x, 0) : l \in Lists, x \in {0, 4, 13}}
    \cup {Call(Plain, l, 8, 4 * Len(l) - x, 0) : l \in Lists \ {<<>>}, x \in {1, 4}}
    \cup {Call(v, Right(1), 8, 16, 0) : v \in Iovs}
    \cup {Call(Plain, <<>>, c, len, n) : c \in {0, 4, 72, 120}, len \in {0, 7, 12, 24}, n \in {0, 72, 92}}

MCReceives ==
    {[creds |-> FALSE] @@ Call(Plain, Right(1), 8, len, 0) : len \in {0, 3, 8, 11, 12, 13, 16, 20, 24, 28, 32}}
    \cup {[creds |-> FALSE] @@ Call(v, <<>>, 8, 28, 0) : v \in Iovs}
    \cup {[creds |-> FALSE] @@ Call(Plain, <<>>, c, len, n) : c \in {0, 64, 120}, len \in {0, 16, 32}, n \in {0, 72, 92}}
    \cup {[creds |-> FALSE] @@ [Call(Plain, <<>>, 8, 28, 0) EXCEPT !.em.namelen = 8]}
    \cup {[creds |-> TRUE] @@ Call(Plain, Right(1), 8, len, 0) : len \in {8, 12, 16, 20, 44}}
    \cup {[creds |-> TRUE] @@ Call(Plain, <<>>, 0, 0, 0), [creds |-> TRUE] @@ Call(Plain, <<>>, 84, 12, 0)}
=============================================================================
