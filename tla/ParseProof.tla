----------------------------- MODULE ParseProof -----------------------------
(***************************************************************************)
(* What the invariant of Parse and the laws of its heap give: wherever     *)
(* read_module fails, contexts stay live, assertions hold, every block has *)
(* one owner, and wasmjit_free_module leaves nothing behind, as long as no *)
(* section that has elements is read again (twice).                        *)
(***************************************************************************)
EXTENDS ParseReadProof, ParseHeapProof

(* Leaves that name no prover: how long each is tried, and in which order. *)
USE SMTT(20), ZenonT(20), SMTT(40), Z3T(60)

\* All the laws.
LEMMA HeapLawsHold == HeapLaws
BY ZenonT(60), LeafLawHolds, LabelsLawHolds, DropLawHolds, ArrayLawHolds, AppendLawHolds, StartLawHolds,
   VisitLawHolds, FreeLawHolds DEF HeapLaws

\* The invariant of the parser and of the release: what the theorems rest on.
LEMMA Invariance == Spec => [](~twice => Inv)
<1>1. PInit => (~twice => Inv)
    BY ZenonT(60), InvInit
<1>2. (~twice => Inv) /\ [Next]_vars => (~twice => Inv)'
  <2> SUFFICES ASSUME ~twice => Inv, [Next]_vars, ~twice' PROVE Inv'
      OBVIOUS
  <2>1. ~twice
      BY ZenonT(60), TwiceStays
  <2> QED BY ZenonT(60), <2>1, HeapLawsHold, InvStep
<1> QED BY <1>1, <1>2, PTL DEF Spec

\* No context that read_instructions keeps on its stack across a realloc points
\* into an array that has moved: each stays the field of the last instruction of
\* the list one level up, however deep blocks are nested, as long as no section
\* that has elements is read again.
THEOREM ContextsStayLive == Spec => [](~twice => PointersLive)
<1>1. Inv => PointersLive
    BY ZenonT(60), InvPointersLive
<1> QED BY <1>1, Invariance, PTL

\* As long as no section that has elements is read again the assertions of
\* read_instructions hold (else only follows if and its list is still empty, a
\* list is empty when it is started), wasmjit_free_module frees no block twice,
\* and nothing outside a block is accessed unless the array of the import
\* section could not be allocated.
THEOREM AssertionsNeverFail == Spec => [](~twice => AssertionsHold)
<1>1. Inv => AssertionsHold
    BY ZenonT(60) DEF Inv
<1> QED BY <1>1, Invariance, PTL

\* While read_module builds the tree, and after it failed at any place, every
\* allocated block has exactly one owner, until a section that has elements is
\* read again.
THEOREM BlocksOwnedOnce == Spec => []OwnedOnce
<1>1. (~twice => Inv) => OwnedOnce
    BY ZenonT(60), InvOwnedOnce DEF OwnedOnce
<1> QED BY <1>1, Invariance, PTL

\* When wasmjit_free_module returns nothing of the module is left allocated,
\* whether read_module succeeded or failed at any place, unless a section that
\* has elements was read again.
THEOREM NothingLeaks == Spec => []AllReleased
<1>1. (~twice => Inv) => AllReleased
    BY ZenonT(60), InvAllReleased DEF AllReleased
<1> QED BY <1>1, Invariance, PTL
=============================================================================
