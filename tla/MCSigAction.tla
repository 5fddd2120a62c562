---------------------------- MODULE MCSigAction ----------------------------
(* Model-checking instances of SigAction.                                  *)
EXTENDS SigAction, TLC

CONSTANTS s1, s2

Act(i, h, b, r) == [siginfo |-> i, handler |-> h, blocked |-> b, resethand |-> r]

(* Default, ignore, a plain handler with SA_RESETHAND, and a SA_SIGINFO    *)
(* handler with and without it; sa_mask full.                              *)
FullActs ==
    {Act(FALSE, EM_SIG_DFL, {}, FALSE), Act(FALSE, EM_SIG_IGN, {}, FALSE),
     Act(FALSE, 2, Signals, TRUE), Act(TRUE, 3, Signals, FALSE), Act(TRUE, 3, Signals, TRUE)}
(* The same with SA_NODEFER and an empty sa_mask.                          *)
OpenActs == {[a EXCEPT !.blocked = {}] : a \in FullActs}

MCSymmetry == Permutations(Signals)
=============================================================================
