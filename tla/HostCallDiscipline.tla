------------------------- MODULE HostCallDiscipline -------------------------
(***************************************************************************)
(* A static discipline for host functions.  Infer computes, for every      *)
(* location of a host function, what is known whenever control is there:   *)
(* whether it has blocked signals, and which of its buffers are null, are  *)
(* recorded (or null), or are not recorded.  Disciplined(c) says that each *)
(* operation of c is used where that is safe.  HostCallProof shows that a  *)
(* program whose host functions are all disciplined satisfies the          *)
(* properties of HostCall in every interleaving with signals and traps.    *)
(***************************************************************************)
EXTENDS HostCall, Sequences

Facts == [locked : BOOLEAN, null : SUBSET Bufs, rec : SUBSET Bufs, off : SUBSET Bufs]

(* At the first operation: nothing blocked, every buffer null.             *)
Start == [locked |-> FALSE, null |-> Bufs, rec |-> Bufs, off |-> Bufs]

(* What is known after operation i succeeds where a was known.             *)
LockedAfter(i, a) == IF i.op = "block" THEN TRUE ELSE IF i.op = "unblock" THEN FALSE ELSE a.locked
NullAfter(i, a) ==
    IF i.op = "alloc" THEN a.null \ {i.arg}
    ELSE IF i.op = "free" THEN a.null \cup {i.arg} ELSE a.null
RecAfter(i, a) ==
    IF i.op = "alloc" THEN a.rec \ {i.arg}
    ELSE IF i.op \in {"free", "add"} THEN a.rec \cup {i.arg}
    ELSE IF i.op = "remove" THEN (a.rec \ {i.arg}) \cup (a.null \cap {i.arg}) ELSE a.rec
OffAfter(i, a) ==
    IF i.op = "add" THEN a.off \ {i.arg}
    ELSE IF i.op = "remove" THEN a.off \cup {i.arg} ELSE a.off
After(i, a) ==
    [locked |-> LockedAfter(i, a), null |-> NullAfter(i, a),
     rec |-> RecAfter(i, a), off |-> OffAfter(i, a)]

(* Where operation i may be used: the heap, the table and libc only while  *)
(* signals are blocked; whatever can lose control (an open mask, a call    *)
(* back, an abort) only when every buffer held is recorded; return only    *)
(* unblocked and with nothing held.                                        *)
Safe(i, a) ==
    /\ ~a.locked => a.rec = Bufs
    /\ i.op \in {"alloc", "free", "add", "remove", "libc", "unblock"} => a.locked
    /\ i.op \in {"block", "sigprocmask", "return"} => ~a.locked
    /\ i.op \in {"unblock", "invoke", "abort"} => a.rec = Bufs
    /\ i.op = "alloc" => i.arg \in a.null
    /\ i.op \in {"add", "free"} => i.arg \in a.off
    /\ i.op = "return" => a.null = Bufs
    /\ i.op # "unblock_uninit"

(* What b claims is no more than what a establishes.                       *)
Implies(a, b) ==
    /\ a.locked = b.locked
    /\ b.null \subseteq a.null
    /\ b.rec \subseteq a.rec
    /\ b.off \subseteq a.off

(* Jumps only go forward, so one pass over the locations is enough.        *)
Falls(i) == i.op \notin {"goto", "abort", "return"}
Infer(code) ==
    LET known[l \in 1..Len(code)] ==
          LET arriving == {After(code[k], known[k]) : k \in {j \in {l - 1} \ {0} : Falls(code[j])}}
                          \cup {known[k] : k \in {j \in 1..(l - 1) : code[j].err = l}}
          IN  IF l = 1 \/ arriving = {} THEN Start
              ELSE [locked |-> \A a \in arriving : a.locked,
                    null |-> {b \in Bufs : \A a \in arriving : b \in a.null},
                    rec |-> {b \in Bufs : \A a \in arriving : b \in a.rec},
                    off |-> {b \in Bufs : \A a \in arriving : b \in a.off}]
    IN  [l \in 1..Len(code) |-> known[l]]

Known == [c \in Calls |-> Infer(Code[c])]

(* code, with what is known at its locations, uses every operation safely. *)
UsedSafely(code, known) ==
    /\ known[1] = Start
    /\ \A l \in DOMAIN code :
        /\ known[l] \in Facts
        /\ Safe(code[l], known[l])
        /\ Falls(code[l]) => Implies(After(code[l], known[l]), known[l + 1])
        /\ code[l].err # 0 => Implies(known[l], known[code[l].err])

Disciplined(c) == UsedSafely(Code[c], Known[c])

-----------------------------------------------------------------------------
KnownAt(d) == Known[call[d]][loc[d]]
Locked(d) == st[d] = "call" /\ KnownAt(d).locked

(* The facts inferred for a location hold whenever a frame is at it: the   *)
(* pointers and indices of the frame are as inferred, and a frame below    *)
(* the top holds nothing that is not recorded.                             *)
FactsHold ==
    \A d \in 1..depth : st[d] = "call" =>
        /\ \A b \in Bufs :
            /\ b \in KnownAt(d).null => buf[d][b] = NULL
            /\ b \in KnownAt(d).rec => buf[d][b] = NULL \/ idx[d][b] # 0
            /\ b \in KnownAt(d).off => idx[d][b] = 0
        /\ d < depth => \A b \in Bufs : buf[d][b] = NULL \/ idx[d][b] # 0

(* From the moment a host function blocks signals until it unblocks them,  *)
(* no handler runs, everything it calls back inherits the full mask, and   *)
(* every mask saved meanwhile (by nested functions or sigsetjmp) is full:  *)
(* no unblock and no trap below it can open the mask early.                *)
LockHeld ==
    \A d \in 1..depth : Locked(d) =>
        /\ mask = Signals
        /\ \A e \in (d + 1)..depth :
            /\ st[e] \notin {"handler", "sigreturn"}
            /\ st[e] \in {"run", "clear"} \/ Locked(e) => set[e] = Signals
            /\ st[e] = "call" => call[e] \in HelperCalls
=============================================================================
