---------------------------- MODULE HostCallProof ----------------------------
(***************************************************************************)
(* The theorems about HostCall, for any signals, heap, bounds and host     *)
(* functions: type correctness and the liveness of the published jmp_buf;  *)
(* for programs of disciplined host functions, the signal lock and the     *)
(* mask, the facts each host function relies on, and the heap with the     *)
(* table of unfreed pointers.                                              *)
(***************************************************************************)
EXTENDS HostCallDiscipline, TLAPS

(* Leaves that name no prover: how long each is tried, and in which order. *)
USE SMTT(20), ZenonT(20), SMTT(40), Z3T(60)

USE DEF Frames, Slots, PtrOrNull, Bufs, NoBuf, NoIdx

(* Type correctness: the program counters of call frames stay inside the   *)
(* code of their host function, whatever frames are pushed, popped or cut. *)
LEMMA TypeInit == Init => TypeOK
<1>. SUFFICES ASSUME Init PROVE TypeOK
  BY ZenonT(60)
<1>1. /\ proc \in {"running", "crashed", "replaced"}
      /\ depth \in 0..MaxDepth
      /\ st \in [Frames -> States]
      /\ call \in [Frames -> Calls \cup {NULL}]
      /\ loc \in [Frames -> Nat]
      /\ set \in [Frames -> SUBSET Signals]
      /\ entry \in [Frames -> SUBSET Signals]
  BY ConstantsAssumption DEF Init, States
<1>2. buf \in [Frames -> [Bufs -> PtrOrNull]]
  BY ZenonT(60) DEF Init
<1>3. idx \in [Frames -> [Bufs -> 0..MaxSlots]]
  BY ConstantsAssumption DEF Init
<1>4. /\ mask \in SUBSET Signals
      /\ pending \in SUBSET Signals
      /\ kills \in 0..MaxKills
      /\ jmp_buf \in 0..MaxDepth
      /\ heap \in SUBSET Ptr
      /\ unfreed \in [Slots -> PtrOrNull]
      /\ n_elts \in 0..MaxSlots
      /\ elts \in {"live", "freed"}
  BY ConstantsAssumption DEF Init
<1>5. \A d \in Frames : d <= depth /\ st[d] = "call" =>
          call[d] \in Calls /\ loc[d] \in DOMAIN Code[call[d]]
  BY ZenonT(60), ConstantsAssumption DEF Init
<1>. QED  BY ZenonT(60), <1>1, <1>2, <1>3, <1>4, <1>5 DEF TypeOK

(* The parts of the type invariant: the bounds of the frame stack, the     *)
(* frames, and the heap with the table of unfreed pointers.                *)
LEMMA DepthType ==
    ASSUME TypeOK
    PROVE  /\ depth \in Nat /\ MaxDepth \in Nat /\ depth \in 0..MaxDepth
           /\ jmp_buf \in Nat /\ jmp_buf \in 0..MaxDepth
BY ConstantsAssumption DEF TypeOK

(* A number is not above itself.                                           *)
LEMMA Reflexive == \A n \in Nat : n <= n
OBVIOUS

(* A function starts without the lock.                                     *)
LEMMA StartUnlocked == Start.locked = FALSE
BY DEF Start

(* The frames below the top one.                                           *)
LEMMA BelowTop ==
    ASSUME TypeOK
    PROVE  \A d \in 1..depth : d \in Frames /\ (d # depth <=> d < depth) /\ ~(d > depth)
BY ConstantsAssumption, DepthType

LEMMA NotAboveItself == ASSUME TypeOK PROVE ~(depth > depth)
BY DepthType

(* The types of the frames and of the mask.                                *)
LEMMA FrameType ==
    ASSUME TypeOK
    PROVE  /\ st \in [Frames -> States] /\ call \in [Frames -> Calls \cup {NULL}]
           /\ loc \in [Frames -> Nat] /\ set \in [Frames -> SUBSET Signals]
           /\ entry \in [Frames -> SUBSET Signals] /\ mask \in SUBSET Signals
BY ZenonT(60) DEF TypeOK

(* A host function that runs is at a place of its code.                    *)
LEMMA CallType ==
    ASSUME TypeOK
    PROVE  \A d \in Frames : d <= depth /\ st[d] = "call" =>
              call[d] \in Calls /\ loc[d] \in DOMAIN Code[call[d]]
BY ZenonT(60) DEF TypeOK

(* The types of the buffers, the heap and the unfreed pointers.            *)
LEMMA HeapType ==
    ASSUME TypeOK
    PROVE  /\ buf \in [Frames -> [Bufs -> PtrOrNull]] /\ idx \in [Frames -> [Bufs -> 0..MaxSlots]]
           /\ heap \in SUBSET Ptr /\ unfreed \in [Slots -> PtrOrNull]
           /\ n_elts \in 0..MaxSlots /\ elts \in {"live", "freed"}
BY ZenonT(60) DEF TypeOK

(* Dropping frames, by a return, a signal return or a trap (siglongjmp),   *)
(* keeps the state well typed.                                             *)
LEMMA CutType ==
    ASSUME TypeOK, NEW t \in 0..MaxDepth, NEW s \in States, t <= depth,
           t > 0 /\ s = "call" => st[t] = "call",
           CutTo(t, s)
    PROVE  /\ depth' \in 0..MaxDepth
           /\ st' \in [Frames -> States]
           /\ call' \in [Frames -> Calls \cup {NULL}]
           /\ loc' \in [Frames -> Nat]
           /\ set' \in [Frames -> SUBSET Signals]
           /\ buf' \in [Frames -> [Bufs -> PtrOrNull]]
           /\ idx' \in [Frames -> [Bufs -> 0..MaxSlots]]
           /\ entry' \in [Frames -> SUBSET Signals]
           /\ \A d \in Frames : d <= depth' /\ st'[d] = "call" =>
                call'[d] \in Calls /\ loc'[d] \in DOMAIN Code[call'[d]]
<1>1. /\ depth' \in 0..MaxDepth
      /\ st' \in [Frames -> States]
      /\ call' \in [Frames -> Calls \cup {NULL}]
      /\ loc' \in [Frames -> Nat]
      /\ set' \in [Frames -> SUBSET Signals]
      /\ entry' \in [Frames -> SUBSET Signals]
  BY ZenonT(60), ConstantsAssumption DEF TypeOK, CutTo, States
<1>2. buf' \in [Frames -> [Bufs -> PtrOrNull]]
  BY ZenonT(60), ConstantsAssumption DEF TypeOK, CutTo
<1>3. idx' \in [Frames -> [Bufs -> 0..MaxSlots]]
  BY ConstantsAssumption DEF TypeOK, CutTo
<1>4. ASSUME NEW d \in Frames, d <= depth', st'[d] = "call"
      PROVE  call'[d] \in Calls /\ loc'[d] \in DOMAIN Code[call'[d]]
  <2>1. d <= t /\ st[d] = "call" /\ d <= depth
    BY <1>4, ConstantsAssumption DEF TypeOK, CutTo
  <2>2. call'[d] = call[d] /\ loc'[d] = loc[d]
    BY <2>1, ConstantsAssumption DEF TypeOK, CutTo
  <2>. QED  BY ZenonT(60), <2>1, <2>2 DEF TypeOK
<1>. QED  BY ZenonT(60), <1>1, <1>2, <1>3, <1>4

(* Where a frame returns to, and what a trap leaves.                       *)
LEMMA PopType ==
    ASSUME TypeOK, depth > 0, Pop
    PROVE  /\ depth' \in 0..MaxDepth
           /\ st' \in [Frames -> States]
           /\ call' \in [Frames -> Calls \cup {NULL}]
           /\ loc' \in [Frames -> Nat]
           /\ set' \in [Frames -> SUBSET Signals]
           /\ buf' \in [Frames -> [Bufs -> PtrOrNull]]
           /\ idx' \in [Frames -> [Bufs -> 0..MaxSlots]]
           /\ entry' \in [Frames -> SUBSET Signals]
           /\ \A d \in Frames : d <= depth' /\ st'[d] = "call" =>
                call'[d] \in Calls /\ loc'[d] \in DOMAIN Code[call'[d]]
<1>1. depth - 1 \in 0..MaxDepth /\ depth - 1 <= depth
  BY ConstantsAssumption, DepthType
<1>2. AfterReturn \in States /\ (depth - 1 > 0 /\ AfterReturn = "call" => st[depth - 1] = "call")
  BY ConstantsAssumption, DepthType, FrameType DEF AfterReturn, States, InvokeStates
<1>. QED  BY ZenonT(60), <1>1, <1>2, CutType DEF Pop

(* A trap keeps the state well typed: the frame it lands on is in use.     *)
LEMMA TrapType ==
    ASSUME TypeOK, JmpBufLive, depth > 0, wasmjit_trap
    PROVE  TypeOK'
<1>1. CASE jmp_buf = 0 \/ st[jmp_buf] = "save"
  BY ZenonT(60), <1>1 DEF TypeOK, wasmjit_trap, frameVars, sigVars, heapVars
<1>2. CASE ~(jmp_buf = 0 \/ st[jmp_buf] = "save")
  <2>1. CutTo(jmp_buf, "clear") /\ mask' = set[jmp_buf]
        /\ UNCHANGED <<proc, pending, kills, jmp_buf, heapVars>>
    BY ZenonT(60), <1>2 DEF wasmjit_trap
  <2>2. jmp_buf \in 0..MaxDepth /\ jmp_buf <= depth /\ jmp_buf \in Frames
    BY <1>2, ConstantsAssumption, DepthType DEF JmpBufLive
  <2>3. "clear" \in States
    BY ZenonT(60) DEF States, InvokeStates
  <2>4. mask' \in SUBSET Signals
    BY ZenonT(60), <2>1, <2>2, FrameType
  <2>. QED  BY ZenonT(60), <2>1, <2>2, <2>3, <2>4, CutType DEF TypeOK, heapVars
<1>. QED  BY ZenonT(60), <1>1, <1>2

(* Pushing a frame (a call, a callback, an invocation) keeps the state     *)
(* well typed.                                                             *)
LEMMA PushType ==
    ASSUME TypeOK, NEW st1 \in [Frames -> States], NEW s \in States,
           s # "call",
           \A d \in Frames : d <= depth /\ st1[d] = "call" => st[d] = "call",
           Push(st1, s)
    PROVE  /\ depth' \in 0..MaxDepth
           /\ st' \in [Frames -> States]
           /\ entry' \in [Frames -> SUBSET Signals]
           /\ \A d \in Frames : d <= depth' /\ st'[d] = "call" =>
                d <= depth /\ st[d] = "call"
<1>1. depth' = depth + 1 /\ depth + 1 \in Frames
  BY ConstantsAssumption, DepthType DEF Push
<1>2. entry' \in [Frames -> SUBSET Signals]
  BY ZenonT(60), <1>1 DEF TypeOK, Push
<1>. QED  BY <1>1, <1>2, ConstantsAssumption, DepthType DEF Push

(* A call frame that moves to a location of its own code stays well typed. *)
LEMMA LocalType ==
    ASSUME NEW S, NEW f \in [Frames -> [Bufs -> S]], NEW d \in Frames, NEW b \in Bufs, NEW v \in S
    PROVE  [f EXCEPT ![d] = [f[d] EXCEPT ![b] = v]] \in [Frames -> [Bufs -> S]]
<1>1. [f[d] EXCEPT ![b] = v] \in [Bufs -> S]
  BY ZenonT(60)
<1>. QED  BY ZenonT(60), <1>1

(* Every step of native code, WebAssembly, signals and host functions      *)
(* keeps the state well typed.                                             *)
LEMMA TypeStep ==
    ASSUME TypeOK, JmpBufLive, Next
    PROVE  TypeOK'
<1>. USE ConstantsAssumption
<1>. DEFINE V == <<frameVars, set, buf, idx, sigVars, jmp_buf, heapVars, entry>>
<1>1. CASE InvokeMain
  <2>1. st \in [Frames -> States] /\ "test" \in States
    BY ZenonT(60), FrameType DEF States, InvokeStates
  <2>. QED  BY ZenonT(60), <1>1, <2>1, PushType DEF TypeOK, InvokeMain, sigVars, heapVars
<1>2. CASE StackAlloc
  <2>1. st \in [Frames -> States] /\ "wasm" \in States
    BY ZenonT(60), FrameType DEF States
  <2>. QED  BY ZenonT(60), <1>2, <2>1, PushType DEF TypeOK, StackAlloc, sigVars, heapVars
<1>3. CASE InvokeRaw
  <2>1. [st EXCEPT ![depth] = "raw"] \in [Frames -> States] /\ "wasm" \in States
    BY ZenonT(60) DEF TypeOK, States, InvokeStates
  <2>2. \A d \in Frames : [st EXCEPT ![depth] = "raw"][d] = "call" => st[d] = "call"
    BY DepthType
  <2>. QED  BY ZenonT(60), <1>3, <2>1, <2>2, PushType DEF TypeOK, InvokeRaw, sigVars, heapVars
<1>4. CASE InvokeTest
  BY ZenonT(60), <1>4 DEF TypeOK, InvokeTest, Running, sigVars, heapVars, States, InvokeStates
<1>5. CASE InvokeSet
  BY ZenonT(60), <1>5 DEF TypeOK, InvokeSet, Running, sigVars, heapVars, States, InvokeStates
<1>6. CASE InvokeSave
  <2>1. [st EXCEPT ![depth] = "run"] \in [Frames -> States] /\ "wasm" \in States
    BY ZenonT(60) DEF TypeOK, States, InvokeStates
  <2>2. \A d \in Frames : [st EXCEPT ![depth] = "run"][d] = "call" => st[d] = "call"
    BY DepthType
  <2>3. set' \in [Frames -> SUBSET Signals]
    BY ZenonT(60), <1>6 DEF TypeOK, InvokeSave
  <2>. QED  BY ZenonT(60), <1>6, <2>1, <2>2, <2>3, PushType DEF TypeOK, InvokeSave, sigVars, heapVars
<1>7. CASE InvokeClear
  <2>1. depth > 0 /\ jmp_buf' \in 0..MaxDepth
    BY <1>7 DEF InvokeClear, Running
  <2>. QED  BY ZenonT(60), <1>7, <2>1, PopType DEF TypeOK, InvokeClear, sigVars, heapVars
<1>8. CASE InvokeReturn
  BY ZenonT(60), <1>8, PopType DEF TypeOK, InvokeReturn, Running, sigVars, heapVars
<1>9. CASE WasmReturn
  BY ZenonT(60), <1>9, PopType DEF TypeOK, WasmReturn, Running, sigVars, heapVars
<1>10. CASE WasmTrap
  BY ZenonT(60), <1>10, TrapType DEF WasmTrap, Running
<1>11. CASE \E c \in Calls : Call(c)
  <2>1. PICK c \in Calls : Call(c)
    BY ZenonT(60), <1>11
  <2>2. depth' = depth + 1 /\ depth + 1 \in Frames
    BY <2>1, DepthType DEF Call, Push
  <2>3. st' \in [Frames -> States] /\ entry' \in [Frames -> SUBSET Signals]
    BY ZenonT(60), <2>1, <2>2 DEF TypeOK, Call, Push, States
  <2>4. /\ call' \in [Frames -> Calls \cup {NULL}] /\ loc' \in [Frames -> Nat]
    BY ZenonT(60), <2>1, <2>2 DEF TypeOK, Call
  <2>5. ASSUME NEW d \in Frames, d <= depth', st'[d] = "call"
        PROVE  call'[d] \in Calls /\ loc'[d] \in DOMAIN Code[call'[d]]
    <3>1. CASE d = depth + 1
      <4>1. call'[d] = c /\ loc'[d] = 1
        BY ZenonT(60), <3>1, <2>1, <2>2, FrameType DEF Call
      <4>. QED  BY ZenonT(60), <4>1, CodeAssumption
    <3>2. CASE d # depth + 1
      <4>1. d <= depth /\ st[d] = "call" /\ call'[d] = call[d] /\ loc'[d] = loc[d]
        BY <3>2, <2>5, <2>1, <2>2, DepthType DEF Call, Push
      <4>. QED  BY ZenonT(60), <4>1, CallType
    <3>. QED  BY ZenonT(60), <3>1, <3>2
  <2>6. depth' \in 0..MaxDepth
    BY <2>2, DepthType
  <2>. QED  BY ZenonT(60), <2>1, <2>3, <2>4, <2>5, <2>6 DEF TypeOK, Call, sigVars, heapVars
<1>12. CASE \E z \in Signals : Kill(z)
  <2>1. PICK z \in Signals : Kill(z)
    BY ZenonT(60), <1>12
  <2>2. kills' \in 0..MaxKills /\ pending' \in SUBSET Signals
    <3>1. kills < MaxKills /\ kills' = kills + 1 /\ pending' = pending \cup {z}
      BY ZenonT(60), <2>1 DEF Kill
    <3>2. kills \in 0..MaxKills /\ pending \in SUBSET Signals
      BY ZenonT(60) DEF TypeOK
    <3>3. kills' \in 0..MaxKills
      BY <3>1, <3>2, ConstantsAssumption
    <3>. QED  BY ZenonT(60), <3>1, <3>2, <3>3
  <2>. QED  BY ZenonT(60), <2>1, <2>2 DEF TypeOK, Kill, frameVars, heapVars
<1>13. CASE \E z \in Signals, m \in SUBSET Signals : Deliver(z, m)
  <2>1. PICK z \in Signals, m \in SUBSET Signals : Deliver(z, m)
    BY ZenonT(60), <1>13
  <2>2. depth' = depth + 1 /\ depth + 1 \in Frames
    <3>1. depth' = depth + 1 /\ depth + 3 <= MaxDepth
      BY ZenonT(60), <2>1 DEF Deliver, Room
    <3>2. depth \in Nat /\ MaxDepth \in Nat
      BY ZenonT(60), ConstantsAssumption, DepthType
    <3>. QED  BY <3>1, <3>2
  <2>3. /\ st' \in [Frames -> States] /\ entry' \in [Frames -> SUBSET Signals]
        /\ set' \in [Frames -> SUBSET Signals] /\ mask' \in SUBSET Signals
    BY ZenonT(60), <2>1, <2>2 DEF TypeOK, Deliver, States
  <2>4. \A d \in Frames : d <= depth' /\ st'[d] = "call" =>
            call'[d] \in Calls /\ loc'[d] \in DOMAIN Code[call'[d]]
    <3>1. \A d \in Frames : d <= depth' /\ st'[d] = "call" => d <= depth /\ st[d] = "call"
      BY <2>1, <2>2, DepthType, FrameType DEF Deliver
    <3>. QED  BY ZenonT(60), <3>1, <2>1, CallType DEF Deliver
  <2>5. pending' \in SUBSET Signals
    BY ZenonT(60), <2>1 DEF TypeOK, Deliver
  <2>6. /\ UNCHANGED <<proc, call, loc, buf, idx, kills, jmp_buf, heap, unfreed, n_elts, elts>>
        /\ depth' \in 0..MaxDepth
    BY <2>1, <2>2 DEF Deliver, heapVars
  <2>. HIDE <1>13
  <2>. QED  BY ZenonT(60), <2>3, <2>4, <2>5, <2>6 DEF TypeOK
<1>14. CASE HandlerInvoke
  <2>1. [st EXCEPT ![depth] = "sigreturn"] \in [Frames -> States] /\ "test" \in States
    BY ZenonT(60) DEF TypeOK, States, InvokeStates
  <2>2. \A d \in Frames : [st EXCEPT ![depth] = "sigreturn"][d] = "call" => st[d] = "call"
    BY DepthType
  <2>. QED  BY ZenonT(60), <1>14, <2>1, <2>2, PushType DEF TypeOK, HandlerInvoke, sigVars, heapVars
<1>15. CASE HandlerSkip
  BY ZenonT(60), <1>15 DEF TypeOK, HandlerSkip, Running, sigVars, heapVars, States
<1>16. CASE SigReturn
  <2>. DEFINE s == IF depth = 1 THEN "none" ELSE st[depth - 1]
  <2>1. depth - 1 \in 0..MaxDepth /\ depth - 1 <= depth /\ depth \in Frames
    BY <1>16, DepthType DEF SigReturn, Running
  <2>2. s \in States /\ (depth - 1 > 0 /\ s = "call" => st[depth - 1] = "call")
    <3>1. CASE depth = 1
      BY ZenonT(60), <3>1 DEF States
    <3>2. CASE depth # 1
      BY <3>2, <2>1, FrameType
    <3>. QED  BY ZenonT(60), <3>1, <3>2
  <2>3. mask' \in SUBSET Signals /\ CutTo(depth - 1, s)
    BY ZenonT(60), <2>1, <1>16, FrameType DEF SigReturn
  <2>. HIDE DEF s
  <2>. QED  BY ZenonT(60), <1>16, <2>1, <2>2, <2>3, CutType DEF TypeOK, SigReturn, heapVars
<1>. DEFINE c == call[depth]
             i == Code[call[depth]][loc[depth]]
<1>17. ASSUME Running("call")
       PROVE  /\ depth \in Frames /\ st[depth] = "call" /\ c \in Calls /\ loc[depth] \in DOMAIN Code[c]
              /\ i.op \in {"alloc", "free", "add", "remove"} => i.arg \in Bufs
              /\ i.op \notin {"goto", "abort", "return"} => loc[depth] + 1 \in DOMAIN Code[c]
              /\ i.err # 0 => i.err \in DOMAIN Code[c]
              /\ loc[depth] \in Nat
  <2>1. depth \in Frames /\ st[depth] = "call" /\ c \in Calls /\ loc[depth] \in DOMAIN Code[c]
    BY <1>17, DepthType, CallType DEF Running
  <2>. QED  BY ZenonT(60), <2>1, CodeAssumption
<1>18. ASSUME Running("call"), NEW l \in DOMAIN Code[c], Goto(l),
              UNCHANGED <<depth, st, call>>
       PROVE  /\ loc' \in [Frames -> Nat]
              /\ \A d \in Frames : d <= depth' /\ st'[d] = "call" =>
                   call'[d] \in Calls /\ loc'[d] \in DOMAIN Code[call'[d]]
  <2>1. l \in Nat /\ depth \in Frames /\ c \in Calls
    BY ZenonT(60), <1>18, <1>17, CodeAssumption
  <2>. QED  BY ZenonT(60), <2>1, <1>18 DEF TypeOK, Goto
<1>. HIDE DEF i, c
<1>19. CASE MaskStep
  <2>1. Running("call") /\ loc[depth] + 1 \in DOMAIN Code[c] /\ depth \in Frames
    BY ZenonT(60), <1>19, <1>17 DEF MaskStep, BlockSignals, UnblockSignals, UnblockUninit, SigProcMask, At, i
  <2>2. \E l \in DOMAIN Code[c] : Goto(l)
    BY ZenonT(60), <1>19, <2>1, <1>17
       DEF MaskStep, BlockSignals, UnblockSignals, UnblockUninit, SigProcMask, Next1, Error, Err, i
  <2>3. UNCHANGED <<depth, st, call, buf, idx, pending, kills, jmp_buf, heapVars, entry, proc>>
    BY ZenonT(60), <1>19 DEF MaskStep, BlockSignals, UnblockSignals, UnblockUninit, SigProcMask
  <2>4. set' \in [Frames -> SUBSET Signals] /\ mask' \in SUBSET Signals
    <3>1. CASE BlockSignals
      BY ZenonT(60), <3>1, <2>1 DEF BlockSignals, TypeOK
    <3>2. CASE UnblockSignals
      BY ZenonT(60), <3>2, <2>1, FrameType DEF UnblockSignals
    <3>3. CASE UnblockUninit
      BY ZenonT(60), <3>3, FrameType DEF UnblockUninit
    <3>4. CASE SigProcMask
      BY ZenonT(60), <3>4 DEF SigProcMask, TypeOK
    <3>. QED  BY ZenonT(60), <1>19, <3>1, <3>2, <3>3, <3>4 DEF MaskStep
  <2>. QED  BY ZenonT(60), <2>1, <2>2, <2>3, <2>4, <1>18 DEF TypeOK, heapVars
<1>20. CASE HeapStep
  <2>1. Running("call") /\ loc[depth] + 1 \in DOMAIN Code[c] /\ depth \in Frames /\ Arg \in Bufs
    BY ZenonT(60), <1>20, <1>17 DEF HeapStep, Alloc, Free, AddUnfreed, AddUnfreedFails, RemoveUnfreed, At, i, Arg
  <2>2. \E l \in DOMAIN Code[c] : Goto(l)
    BY ZenonT(60), <1>20, <2>1, <1>17
       DEF HeapStep, Alloc, Free, AddUnfreed, AddUnfreedFails, RemoveUnfreed, Record, Next1, Error, Err, i
  <2>3. UNCHANGED <<depth, st, call, set, mask, pending, kills, jmp_buf, entry, proc>>
    BY ZenonT(60), <1>20 DEF HeapStep, Alloc, Free, AddUnfreed, AddUnfreedFails, RemoveUnfreed, sigVars
  <2>4. buf' \in [Frames -> [Bufs -> PtrOrNull]] /\ heap' \in SUBSET Ptr
    <3>1. CASE Alloc
      <4>1. CASE UNCHANGED <<heap, buf>>
        BY ZenonT(60), <4>1, HeapType
      <4>2. ASSUME NEW p \in Ptr, heap' = heap \cup {p},
                   buf' = [buf EXCEPT ![depth] = [buf[depth] EXCEPT ![Arg] = p]]
            PROVE  buf' \in [Frames -> [Bufs -> PtrOrNull]] /\ heap' \in SUBSET Ptr
        BY ZenonT(60), <4>2, <2>1, LocalType DEF TypeOK
      <4>. QED  BY ZenonT(60), <3>1, <4>1, <4>2 DEF Alloc
    <3>2. CASE Free
      BY ZenonT(60), <3>2, <2>1 DEF Free, TypeOK
    <3>3. CASE UNCHANGED <<buf, heap>>
      BY ZenonT(60), <3>3, HeapType
    <3>. QED  BY ZenonT(60), <1>20, <3>1, <3>2, <3>3 DEF HeapStep, AddUnfreed, AddUnfreedFails, RemoveUnfreed
  <2>5. /\ idx' \in [Frames -> [Bufs -> 0..MaxSlots]]
        /\ unfreed' \in [Slots -> PtrOrNull]
        /\ n_elts' \in 0..MaxSlots /\ elts' \in {"live", "freed"}
    <3>1. CASE AddUnfreed
      <4>1. PICK k \in Slots : Record(k) /\ n_elts' \in 0..MaxSlots
        <5>1. CASE \E k \in 1..n_elts : Record(k) /\ UNCHANGED n_elts
          BY <5>1, HeapType
        <5>2. CASE n_elts < MaxSlots /\ Record(n_elts + 1) /\ n_elts' = n_elts + 1
          <6>1. n_elts + 1 \in Slots /\ n_elts + 1 \in 0..MaxSlots
            BY <5>2, HeapType
          <6>. QED  BY ZenonT(60), <5>2, <6>1
        <5>. QED  BY ZenonT(60), <3>1, <5>1, <5>2 DEF AddUnfreed
      <4>2. buf[depth][Arg] \in PtrOrNull
        BY <2>1, HeapType
      <4>3. unfreed' \in [Slots -> PtrOrNull]
        BY ZenonT(60), <4>1, <4>2, HeapType DEF Record
      <4>4. idx' \in [Frames -> [Bufs -> 0..MaxSlots]]
        <5>1. k \in 0..MaxSlots /\ idx' = [idx EXCEPT ![depth] = [idx[depth] EXCEPT ![Arg] = k]]
          BY <4>1 DEF Record
        <5>2. idx \in [Frames -> [Bufs -> 0..MaxSlots]]
          BY ZenonT(60), HeapType
        <5>. QED  BY ZenonT(60), <5>1, <5>2, <2>1, LocalType
      <4>. QED  BY ZenonT(60), <3>1, <4>1, <4>3, <4>4 DEF AddUnfreed, TypeOK
    <3>2. CASE AddUnfreedFails
      BY ZenonT(60), <3>2, HeapType DEF AddUnfreedFails
    <3>3. CASE RemoveUnfreed
      <4>1. unfreed' \in [Slots -> PtrOrNull]
        BY ZenonT(60), <3>3, HeapType DEF RemoveUnfreed
      <4>2. idx' \in [Frames -> [Bufs -> 0..MaxSlots]]
        BY <3>3, <2>1, HeapType DEF RemoveUnfreed
      <4>. QED  BY ZenonT(60), <3>3, <4>1, <4>2, HeapType DEF RemoveUnfreed
    <3>4. CASE UNCHANGED <<idx, unfreed, n_elts, elts>>
      BY ZenonT(60), <3>4, HeapType
    <3>. QED  BY ZenonT(60), <1>20, <3>1, <3>2, <3>3, <3>4 DEF HeapStep, Alloc, Free
  <2>. QED  BY ZenonT(60), <2>1, <2>2, <2>3, <2>4, <2>5, <1>18 DEF TypeOK
<1>21. CASE Jump
  <2>1. Running("call") /\ \E l \in DOMAIN Code[c] : Goto(l)
    BY ZenonT(60), <1>21, <1>17 DEF Jump, At, Error, Err, i
  <2>. QED  BY ZenonT(60), <1>21, <2>1, <1>18 DEF TypeOK, Jump, sigVars, heapVars
<1>22. ASSUME NEW op \in {"branch", "libc", "sys"}, Proceed(op)
       PROVE TypeOK'
  <2>1. Running("call") /\ \E l \in DOMAIN Code[c] : Goto(l)
    BY ZenonT(60), <1>22, <1>17 DEF Proceed, At, Error, Err, Next1, i
  <2>. QED  BY ZenonT(60), <1>22, <2>1, <1>18 DEF TypeOK, Proceed, sigVars, heapVars
<1>23. CASE Exec
  <2>1. Running("call") /\ \E l \in DOMAIN Code[c] : Goto(l)
    BY ZenonT(60), <1>23, <1>17 DEF Exec, At, Next1, i
  <2>. QED  BY ZenonT(60), <1>23, <2>1, <1>18 DEF TypeOK, Exec, sigVars, heapVars
<1>24. CASE InvokeHelper
  <2>1. Running("call") /\ loc[depth] + 1 \in DOMAIN Code[c] /\ depth \in Frames
        /\ loc[depth] + 1 \in Nat
    BY <1>24, <1>17 DEF InvokeHelper, At, i
  <2>2. /\ depth' = depth + 1 /\ depth + 1 \in Frames
        /\ st' = [st EXCEPT ![depth + 1] = "test"]
        /\ entry' = [entry EXCEPT ![depth + 1] = mask]
        /\ loc' = [loc EXCEPT ![depth] = loc[depth] + 1]
        /\ UNCHANGED call
    BY <1>24, DepthType DEF InvokeHelper, Push, Next1, Goto
  <2>3. /\ st' \in [Frames -> States] /\ entry' \in [Frames -> SUBSET Signals]
        /\ loc' \in [Frames -> Nat] /\ depth' \in 0..MaxDepth
    <3>1. st' \in [Frames -> States]
      BY ZenonT(60), <2>2, FrameType DEF States, InvokeStates
    <3>2. entry' \in [Frames -> SUBSET Signals]
      BY ZenonT(60), <2>2, FrameType
    <3>3. loc' \in [Frames -> Nat]
      BY ZenonT(60), <2>1, <2>2, FrameType
    <3>. QED  BY <2>2, <3>1, <3>2, <3>3
  <2>4. ASSUME NEW d \in Frames, d <= depth', st'[d] = "call"
        PROVE  call'[d] \in Calls /\ loc'[d] \in DOMAIN Code[call'[d]]
    <3>1. d <= depth /\ st[d] = "call"
      BY <2>2, <2>4, DepthType, FrameType
    <3>2. CASE d = depth
      BY <3>1, <3>2, <2>1, <2>2, CallType DEF c
    <3>3. CASE d # depth
      BY ZenonT(60), <3>1, <3>3, <2>2 DEF TypeOK
    <3>. QED  BY ZenonT(60), <3>2, <3>3
  <2>. QED  BY ZenonT(60), <1>24, <2>2, <2>3, <2>4 DEF TypeOK, InvokeHelper, sigVars, heapVars
<1>25. CASE Abort
  BY ZenonT(60), <1>25, TrapType DEF Abort, At, Running
<1>26. CASE Return
  BY ZenonT(60), <1>26, PopType DEF TypeOK, Return, At, Running, sigVars, heapVars
<1>27. CASE Ended
  BY ZenonT(60), <1>27 DEF Ended, vars, frameVars, sigVars, heapVars, TypeOK
<1>. QED
  BY ZenonT(60), <1>1, <1>2, <1>3, <1>4, <1>5, <1>6, <1>7, <1>8, <1>9, <1>10, <1>11, <1>12, <1>13,
     <1>14, <1>15, <1>16, <1>19, <1>20, <1>21, <1>22, <1>23, <1>24, <1>25, <1>26, <1>27
     DEF Next, InvokeStep, SignalStep, CallStep

-----------------------------------------------------------------------------
(* The jmp_buf.  JmpBufLive alone is not inductive: a frame about to       *)
(* publish its jmp_buf must know that none below it has done so since its  *)
(* test, although handlers may have published theirs above it meanwhile.   *)
Published == {"save", "run", "clear"}
JmpInv ==
    /\ JmpBufLive
    /\ \A d \in 1..depth : st[d] = "set" => jmp_buf = 0 \/ jmp_buf > d

(* Steps that leave the jmp_buf alone keep JmpInv when they neither drop   *)
(* its frame nor make or unmake a frame that has published.                *)
LEMMA JmpKeep ==
    ASSUME TypeOK, JmpInv, UNCHANGED jmp_buf, depth' \in 0..MaxDepth, jmp_buf <= depth',
           \A d \in 1..depth' :
              /\ st'[d] \in Published <=> d <= depth /\ st[d] \in Published
              /\ st'[d] = "set" => d <= depth /\ st[d] = "set"
    PROVE  JmpInv'
<1>1. (jmp_buf # 0 => jmp_buf <= depth)'
  BY ZenonT(60) DEF JmpInv, JmpBufLive
<1>2. ASSUME NEW d \in 1..depth'
      PROVE  st'[d] \in Published <=> jmp_buf' = d
  <2>1. CASE d <= depth
    <3>1. d \in 1..depth
      BY <2>1
    <3>. QED  BY ZenonT(60), <1>2, <2>1, <3>1 DEF JmpInv, JmpBufLive, Published
  <2>2. CASE ~(d <= depth)
    BY <1>2, <2>2, ConstantsAssumption DEF JmpInv, JmpBufLive
  <2>. QED  BY ZenonT(60), <2>1, <2>2
<1>3. ASSUME NEW d \in 1..depth', st'[d] = "set"
      PROVE  jmp_buf' = 0 \/ jmp_buf' > d
  <2>1. d \in 1..depth /\ st[d] = "set"
    BY <1>3
  <2>. QED  BY ZenonT(60), <2>1 DEF JmpInv
<1>. QED  BY ZenonT(60), <1>1, <1>2, <1>3 DEF JmpInv, JmpBufLive, Published

(* Returning from a frame that has not published a jmp_buf keeps JmpInv.   *)
LEMMA JmpPop ==
    ASSUME TypeOK, JmpInv, UNCHANGED jmp_buf, Pop, depth > 0, st[depth] \notin Published
    PROVE  JmpInv'
<1>1. depth' = depth - 1 /\ depth' \in 0..MaxDepth /\ depth \in 1..depth
  BY ConstantsAssumption, DepthType DEF Pop, CutTo
<1>2. jmp_buf # depth /\ jmp_buf <= depth
  BY <1>1 DEF JmpInv, JmpBufLive, Published
<1>3. ASSUME NEW d \in 1..depth'
      PROVE  /\ st'[d] \in Published <=> d <= depth /\ st[d] \in Published
             /\ st'[d] = "set" => d <= depth /\ st[d] = "set"
  <2>1. d \in Frames /\ d <= depth - 1 /\ depth # 1
    BY <1>1, ConstantsAssumption
  <2>2. st'[d] = IF d = depth - 1 THEN AfterReturn ELSE st[d]
    BY <2>1, DepthType DEF Pop, CutTo
  <2>3. st'[d] = st[d] \/ (st[d] = "run" /\ st'[d] = "clear")
    BY ZenonT(60), <2>1, <2>2 DEF AfterReturn
  <2>. QED  BY <2>3, <2>1, DepthType DEF Published
<1>4. jmp_buf <= depth'
  BY <1>1, <1>2, DepthType
<1>. QED  BY ZenonT(60), <1>1, <1>3, <1>4, JmpKeep

(* Pushing a frame keeps JmpInv: a new frame has published nothing.        *)
LEMMA JmpPush ==
    ASSUME TypeOK, JmpInv, UNCHANGED jmp_buf,
           depth < MaxDepth, depth' = depth + 1,
           NEW st1 \in [Frames -> States], NEW s \in States \ ({"set"} \cup Published),
           st' = [st1 EXCEPT ![depth + 1] = s],
           \A d \in Frames : /\ st1[d] \in Published <=> st[d] \in Published
                             /\ st1[d] = "set" => st[d] = "set"
    PROVE  JmpInv'
<1>1. depth' \in 0..MaxDepth /\ jmp_buf <= depth' /\ jmp_buf <= depth
  BY ConstantsAssumption, DepthType DEF JmpInv, JmpBufLive
<1>2. ASSUME NEW d \in 1..depth'
      PROVE  /\ st'[d] \in Published <=> d <= depth /\ st[d] \in Published
             /\ st'[d] = "set" => d <= depth /\ st[d] = "set"
  <2>0. d \in Frames /\ d \in Nat
    BY <1>1, ConstantsAssumption
  <2>1. CASE d = depth + 1
    BY <2>0, <2>1, DepthType
  <2>2. CASE d # depth + 1
    <3>1. d <= depth /\ st'[d] = st1[d]
      BY <2>0, <2>2, DepthType
    <3>. QED  BY ZenonT(60), <3>1, <2>0
  <2>. QED  BY ZenonT(60), <2>1, <2>2
<1>. QED  BY ZenonT(60), <1>1, <1>2, JmpKeep

(* A trap keeps JmpInv: it lands on the very frame that published the      *)
(* jmp_buf.                                                                *)
LEMMA JmpTrap ==
    ASSUME TypeOK, JmpInv, wasmjit_trap
    PROVE  JmpInv'
<1>1. CASE jmp_buf = 0 \/ st[jmp_buf] = "save"
  BY ZenonT(60), <1>1 DEF wasmjit_trap, JmpInv, JmpBufLive, frameVars
<1>2. CASE ~(jmp_buf = 0 \/ st[jmp_buf] = "save")
  <2>1. jmp_buf \in 1..depth /\ st[jmp_buf] \in Published /\ jmp_buf \in Frames
    BY <1>2, ConstantsAssumption, DepthType DEF JmpInv, JmpBufLive, Published
  <2>2. depth' = jmp_buf /\ UNCHANGED jmp_buf /\ depth' \in 0..MaxDepth /\ jmp_buf <= depth'
    BY <1>2, <2>1 DEF wasmjit_trap, CutTo
  <2>3. \A d \in 1..depth' : d \in Frames /\ st'[d] = IF d = jmp_buf THEN "clear" ELSE st[d]
    BY <1>2, <2>1, <2>2, ConstantsAssumption DEF wasmjit_trap, CutTo
  <2>4. \A d \in 1..depth' :
          /\ st'[d] \in Published <=> d <= depth /\ st[d] \in Published
          /\ st'[d] = "set" => d <= depth /\ st[d] = "set"
    BY <2>1, <2>2, <2>3, DepthType DEF Published
  <2>. QED  BY ZenonT(60), <2>2, <2>4, JmpKeep
<1>. QED  BY ZenonT(60), <1>1, <1>2

(* Every step keeps JmpInv: only wasmjit_invoke_function publishes and     *)
(* clears a jmp_buf, and never above another one.                          *)
LEMMA JmpStep ==
    ASSUME TypeOK, JmpInv, Next
    PROVE  JmpInv'
<1>. USE ConstantsAssumption
<1>1. CASE InvokeMain \/ StackAlloc \/ HandlerInvoke \/ InvokeHelper \/ InvokeRaw
           \/ \E c \in Calls : Call(c)
  <2>1. PICK st1 \in [Frames -> States], s \in {"test", "wasm", "call"} :
          /\ Push(st1, s)
          /\ \/ st1 = st
             \/ depth > 0 /\ st[depth] = "handler" /\ st1 = [st EXCEPT ![depth] = "sigreturn"]
             \/ depth > 0 /\ st[depth] = "test" /\ st1 = [st EXCEPT ![depth] = "raw"]
    <3>1. /\ st \in [Frames -> States]
          /\ [st EXCEPT ![depth] = "sigreturn"] \in [Frames -> States]
          /\ [st EXCEPT ![depth] = "raw"] \in [Frames -> States]
      BY ZenonT(60) DEF TypeOK, States, InvokeStates
    <3>. QED
      BY ZenonT(60), <1>1, <3>1 DEF InvokeMain, StackAlloc, HandlerInvoke, InvokeHelper, InvokeRaw, Call, Running
  <2>2. UNCHANGED jmp_buf
    BY ZenonT(60), <1>1 DEF InvokeMain, StackAlloc, HandlerInvoke, InvokeHelper, InvokeRaw, Call
  <2>3. \A d \in Frames : /\ st1[d] \in Published <=> st[d] \in Published
                          /\ st1[d] = "set" => st[d] = "set"
    BY ZenonT(60), <2>1 DEF Published, TypeOK
  <2>4. s \in States \ ({"set"} \cup Published)
    BY ZenonT(60) DEF States, InvokeStates, Published
  <2>. QED  BY ZenonT(60), <2>1, <2>2, <2>3, <2>4, JmpPush DEF Push
<1>2. CASE \E z \in Signals, m \in SUBSET Signals : Deliver(z, m)
  <2>1. "handler" \in States \ ({"set"} \cup Published)
    BY ZenonT(60) DEF States, Published
  <2>2. /\ depth < MaxDepth /\ depth' = depth + 1 /\ UNCHANGED jmp_buf
        /\ st' = [st EXCEPT ![depth + 1] = "handler"] /\ st \in [Frames -> States]
    <3>1. /\ Room(3) /\ depth' = depth + 1 /\ UNCHANGED jmp_buf
          /\ st' = [st EXCEPT ![depth + 1] = "handler"]
      BY ZenonT(60), <1>2 DEF Deliver
    <3>2. depth < MaxDepth
      BY <3>1, DepthType DEF Room
    <3>. QED  BY ZenonT(60), <3>1, <3>2, FrameType
  <2>. QED  BY ZenonT(60), <2>1, <2>2, JmpPush
<1>3. CASE InvokeTest
  <2>1. depth \in Frames /\ jmp_buf = 0 /\ UNCHANGED <<jmp_buf, depth>>
        /\ st[depth] = "test" /\ st' = [st EXCEPT ![depth] = "set"]
    BY <1>3, DepthType DEF InvokeTest, Running
  <2>. QED  BY <2>1 DEF JmpInv, JmpBufLive
<1>4. CASE InvokeSet
  <2>1. /\ depth \in Frames /\ jmp_buf' = depth /\ UNCHANGED depth
        /\ st[depth] = "set" /\ st' = [st EXCEPT ![depth] = "save"] /\ depth \in 1..depth
    BY <1>4, DepthType DEF InvokeSet, Running
  <2>2. jmp_buf = 0
    BY <2>1, DepthType DEF JmpInv, JmpBufLive
  <2>. QED  BY <2>1, <2>2, FrameType DEF JmpInv, JmpBufLive
<1>5. CASE InvokeSave
  <2>1. /\ depth \in Frames /\ depth + 1 \in Frames /\ UNCHANGED jmp_buf /\ depth' = depth + 1
        /\ st[depth] = "save" /\ st' = [[st EXCEPT ![depth] = "run"] EXCEPT ![depth + 1] = "wasm"]
    BY <1>5, DepthType DEF InvokeSave, Running, Push
  <2>2. [st EXCEPT ![depth] = "run"] \in [Frames -> States] /\ "wasm" \in States \ ({"set"} \cup Published)
    BY ZenonT(60) DEF TypeOK, States, InvokeStates, Published
  <2>3. \A d \in Frames :
          /\ [st EXCEPT ![depth] = "run"][d] \in Published <=> st[d] \in Published
          /\ [st EXCEPT ![depth] = "run"][d] = "set" => st[d] = "set"
    BY <2>1 DEF Published
  <2>4. depth < MaxDepth
    BY <2>1
  <2>. QED  BY ZenonT(60), <2>1, <2>2, <2>3, <2>4, JmpPush
<1>6. CASE InvokeClear
  <2>1. /\ depth \in Frames /\ depth \in 1..depth /\ jmp_buf' = 0 /\ depth' = depth - 1
        /\ st[depth] = "clear" /\ Pop
    BY <1>6, DepthType DEF InvokeClear, Running, Pop, CutTo
  <2>2. jmp_buf = depth
    BY ZenonT(60), <2>1 DEF JmpInv, JmpBufLive
  <2>3. \A d \in 1..depth' : d \in Frames /\ d \in 1..depth /\ st'[d] = st[d] /\ st[d] \notin Published
    <3>. SUFFICES ASSUME NEW d \in 1..depth'
                  PROVE  d \in Frames /\ d \in 1..depth /\ st'[d] = st[d] /\ st[d] \notin Published
      BY ZenonT(60)
    <3>1. d \in Frames /\ d \in 1..depth /\ d # jmp_buf /\ d <= depth - 1 /\ depth # 1
      BY <2>1, <2>2
    <3>2. st[d] \notin Published
      BY ZenonT(60), <3>1 DEF JmpInv, JmpBufLive, Published
    <3>3. st'[d] = IF d = depth - 1 THEN AfterReturn ELSE st[d]
      BY <2>1, <3>1 DEF Pop, CutTo
    <3>4. AfterReturn = IF st[depth - 1] = "run" THEN "clear" ELSE st[depth - 1]
      BY ZenonT(60), <3>1 DEF AfterReturn
    <3>. QED  BY ZenonT(60), <3>1, <3>2, <3>3, <3>4 DEF Published
  <2>4. \A d \in 1..depth' : d # 0
    OBVIOUS
  <2>. QED  BY ZenonT(60), <2>1, <2>3, <2>4 DEF JmpInv, JmpBufLive, Published
<1>7. CASE InvokeReturn \/ WasmReturn \/ Return
  <2>1. depth > 0 /\ st[depth] \notin Published /\ Pop /\ UNCHANGED jmp_buf
    BY ZenonT(60), <1>7 DEF InvokeReturn, WasmReturn, Return, At, Running, Published
  <2>. QED  BY ZenonT(60), <2>1, JmpPop
<1>8. CASE WasmTrap \/ Abort
  BY ZenonT(60), <1>8, JmpTrap DEF WasmTrap, Abort
<1>9. CASE HandlerSkip
  <2>1. /\ depth \in Frames /\ UNCHANGED <<jmp_buf, depth>>
        /\ st[depth] = "handler" /\ st' = [st EXCEPT ![depth] = "sigreturn"]
    BY <1>9, DepthType DEF HandlerSkip, Running
  <2>2. \A d \in 1..depth : d \in Frames /\ (st'[d] = st[d] \/ (d = depth /\ st'[d] = "sigreturn"))
    BY <2>1
  <2>. QED  BY ZenonT(60), <2>1, <2>2 DEF JmpInv, JmpBufLive
<1>10. CASE SigReturn
  <2>1. /\ depth \in Frames /\ depth \in 1..depth /\ st[depth] = "sigreturn" /\ UNCHANGED jmp_buf
        /\ depth' = depth - 1 /\ depth' \in 0..MaxDepth
    BY <1>10, DepthType DEF SigReturn, Running, CutTo
  <2>2. jmp_buf <= depth'
    <3>1. jmp_buf # depth
      BY ZenonT(60), <2>1 DEF JmpInv, JmpBufLive
    <3>. QED  BY <2>1, <3>1, DepthType DEF JmpInv, JmpBufLive
  <2>3. ASSUME NEW d \in 1..depth'
        PROVE  d \in Frames /\ d <= depth /\ st'[d] = st[d]
    <3>1. d \in Frames /\ d <= depth - 1 /\ depth # 1 /\ d <= depth
      BY <2>1
    <3>2. st'[d] = IF d > depth - 1 THEN "none" ELSE IF d = depth - 1 THEN st[depth - 1] ELSE st[d]
      BY ZenonT(60), <1>10, <3>1 DEF SigReturn, CutTo
    <3>. QED  BY <3>1, <3>2, <2>1
  <2>. QED  BY ZenonT(60), <2>1, <2>2, <2>3, JmpKeep
<1>11. CASE UNCHANGED <<st, depth, jmp_buf>>
  BY ZenonT(60), <1>11 DEF JmpInv, JmpBufLive
<1>. QED
  BY ZenonT(60), <1>1, <1>2, <1>3, <1>4, <1>5, <1>6, <1>7, <1>8, <1>9, <1>10, <1>11
     DEF Next, InvokeStep, SignalStep, CallStep, MaskStep, HeapStep, Kill, BlockSignals,
         UnblockSignals, UnblockUninit, SigProcMask, Alloc, Free, AddUnfreed, AddUnfreedFails,
         RemoveUnfreed, Jump, Proceed, Exec, Ended, frameVars, vars

(* A host function's program counter stays inside its code, and the        *)
(* jmp_buf in thread-local storage always belongs to a live frame of       *)
(* wasmjit_invoke_function: for any host functions, disciplined or not.    *)
THEOREM TypeCorrect == Spec => [](TypeOK /\ JmpInv)
<1>1. Init => TypeOK /\ JmpInv
  <2>1. Init => JmpInv
    BY ConstantsAssumption DEF Init, JmpInv, JmpBufLive
  <2>. QED  BY ZenonT(60), <2>1, TypeInit
<1>2. TypeOK /\ JmpInv /\ [Next]_vars => (TypeOK /\ JmpInv)'
  <2>1. CASE Next
    BY ZenonT(60), <2>1, TypeStep, JmpStep DEF JmpInv
  <2>2. CASE UNCHANGED vars
    BY ZenonT(60), <2>2 DEF vars, frameVars, sigVars, heapVars, TypeOK, JmpInv, JmpBufLive
  <2>. QED  BY ZenonT(60), <2>1, <2>2
<1>. QED  BY <1>1, <1>2, PTL DEF Spec

(* A trap never jumps through a stale jmp_buf: the one in thread-local     *)
(* storage is that of the one live frame of wasmjit_invoke_function that   *)
(* published it.                                                           *)
THEOREM JmpBufAlwaysLive == Spec => []JmpBufLive
<1>1. JmpInv => JmpBufLive
  BY ZenonT(60) DEF JmpInv
<1>. QED  BY <1>1, TypeCorrect, PTL

-----------------------------------------------------------------------------
(***************************************************************************)
(* The signal lock.  In a program of disciplined host functions it is      *)
(* never broken: what runs between block_signals and unblock_signals,      *)
(* callbacks and traps included, runs with all signals blocked and above   *)
(* no handler.  A host function gives back the mask it was called with.    *)
(***************************************************************************)

(* Disciplined programs.                                                   *)
AllDisciplined == \A c \in Calls : Disciplined(c)

(* The operations that touch neither the mask nor the frames move on to    *)
(* the next location or to the error path.                                 *)
LEMMA Moves ==
    ASSUME HeapStep \/ Jump \/ Proceed("branch") \/ Proceed("libc") \/ Proceed("sys") \/ Exec,
           NEW i, i = Code[call[depth]][loc[depth]]
    PROVE  /\ Running("call") /\ UNCHANGED <<depth, st, call, set, mask>>
           /\ i.op \in {"alloc", "free", "add", "remove", "goto", "branch", "libc", "sys", "exec"}
           /\ Next1 \/ Error
           /\ i.op = "goto" => Error
<1>1. CASE Alloc \/ Free \/ AddUnfreed \/ AddUnfreedFails \/ RemoveUnfreed
  BY ZenonT(60), <1>1 DEF Alloc, Free, AddUnfreed, AddUnfreedFails, RemoveUnfreed, At, Record, sigVars
<1>2. CASE Jump \/ Proceed("branch") \/ Proceed("libc") \/ Proceed("sys") \/ Exec
  BY ZenonT(60), <1>2 DEF Jump, Proceed, Exec, At, sigVars
<1>. QED  BY ZenonT(60), <1>1, <1>2 DEF HeapStep

(* What the discipline says about the operation a call frame executes.     *)
LEMMA OpFacts ==
    ASSUME TypeOK, AllDisciplined, Running("call"),
           NEW c, c = call[depth], NEW l, l = loc[depth]
    PROVE  /\ depth \in Frames /\ depth \in 1..depth /\ st[depth] = "call"
           /\ c \in Calls /\ l \in DOMAIN Code[c] /\ KnownAt(depth) = Known[c][l]
           /\ Known[c][l] \in Facts
           /\ Safe(Code[c][l], Known[c][l])
           /\ Falls(Code[c][l]) => Implies(After(Code[c][l], Known[c][l]), Known[c][l + 1])
           /\ Code[c][l].err # 0 => Implies(Known[c][l], Known[c][Code[c][l].err])
<1>1. /\ depth \in Frames /\ depth \in 1..depth /\ st[depth] = "call"
      /\ c \in Calls /\ l \in DOMAIN Code[c]
  BY ConstantsAssumption, DepthType, CallType DEF Running
<1>2. UsedSafely(Code[c], Known[c])
  BY ZenonT(60), <1>1 DEF AllDisciplined, Disciplined
<1>. QED  BY ZenonT(60), <1>1, <1>2 DEF UsedSafely, KnownAt

(* LockHeld when frames are dropped.                                       *)
LEMMA LockCut ==
    ASSUME TypeOK, LockHeld, NEW t \in 0..MaxDepth, t <= depth, NEW s, CutTo(t, s),
           t > 0 => s = st[t] \/ (s = "clear" /\ st[t] \in {"run", "clear"}),
           \A d \in 1..t : Locked(d) => mask' = Signals
    PROVE  LockHeld'
<1>1. ASSUME NEW d \in 1..t
      PROVE  /\ d \in Frames /\ d \in 1..depth
             /\ call'[d] = call[d] /\ loc'[d] = loc[d] /\ set'[d] = set[d]
             /\ st'[d] = st[d] \/ (st'[d] = "clear" /\ st[d] \in {"run", "clear"})
  <2>1. d \in Frames /\ d \in 1..depth /\ ~(d > t)
    BY ConstantsAssumption, DepthType
  <2>. QED  BY <2>1 DEF CutTo
<1>2. \A d \in 1..t : Locked(d)' => Locked(d)
  BY ZenonT(60), <1>1 DEF Locked, KnownAt
<1>3. depth' = t
  BY ZenonT(60) DEF CutTo
<1>4. ASSUME NEW d \in 1..t, Locked(d)'
      PROVE  /\ mask' = Signals
             /\ \A e \in (d + 1)..t :
                  /\ st'[e] \notin {"handler", "sigreturn"}
                  /\ st'[e] \in {"run", "clear"} \/ Locked(e)' => set'[e] = Signals
                  /\ st'[e] = "call" => call'[e] \in HelperCalls
  <2>1. Locked(d) /\ d \in 1..depth /\ mask' = Signals
    BY ZenonT(60), <1>1, <1>2, <1>4
  <2>2. ASSUME NEW e \in (d + 1)..t
        PROVE  /\ st'[e] \notin {"handler", "sigreturn"}
               /\ st'[e] \in {"run", "clear"} \/ Locked(e)' => set'[e] = Signals
               /\ st'[e] = "call" => call'[e] \in HelperCalls
    <3>1. e \in 1..t /\ e \in (d + 1)..depth
      BY DepthType
    <3>2. /\ st[e] \notin {"handler", "sigreturn"}
          /\ st[e] \in {"run", "clear"} \/ Locked(e) => set[e] = Signals
          /\ st[e] = "call" => call[e] \in HelperCalls
      BY ZenonT(60), <2>1, <3>1 DEF LockHeld
    <3>. QED  BY ZenonT(60), <1>1, <1>2, <3>1, <3>2
  <2>. QED  BY ZenonT(60), <2>1, <2>2
<1>. QED  BY ZenonT(60), <1>3, <1>4 DEF LockHeld

(* LockHeld when a frame is pushed: a frame that blocks nothing itself,    *)
(* and that is no handler when a frame below has signals blocked.          *)
LEMMA LockPush ==
    ASSUME TypeOK, LockHeld, depth < MaxDepth, depth' = depth + 1, mask' = mask \/ \A d \in 1..depth : ~Locked(d),
           ~Locked(depth)',
           \A d \in 1..depth :
              /\ Locked(d)' => Locked(d)
              /\ call'[d] = call[d]
              /\ st'[d] = "call" => st[d] = "call"
              /\ st'[d] \in {"handler", "sigreturn"} => st[d] \in {"handler", "sigreturn"}
              /\ \/ set'[d] = set[d] /\ (st'[d] \in {"run", "clear"} => st[d] \in {"run", "clear"})
                 \/ set'[d] = mask,
           (\E d \in 1..depth : Locked(d)) =>
              /\ st'[depth + 1] \in {"test", "wasm", "call"}
              /\ st'[depth + 1] = "call" => call'[depth + 1] \in HelperCalls
    PROVE  LockHeld'
<1>1. ASSUME NEW d \in 1..depth', Locked(d)'
      PROVE  d \in 1..depth /\ Locked(d) /\ mask = Signals /\ mask' = Signals
  <2>1. d \in 1..depth
    <3>1. d # depth + 1
      BY ZenonT(60), <1>1 DEF Locked, KnownAt
    <3>. QED  BY <3>1, DepthType
  <2>2. Locked(d)
    BY ZenonT(60), <2>1, <1>1
  <2>. QED  BY ZenonT(60), <2>1, <2>2 DEF LockHeld
<1>2. ASSUME NEW d \in 1..depth', Locked(d)', NEW e \in (d + 1)..depth'
      PROVE  /\ st'[e] \notin {"handler", "sigreturn"}
             /\ st'[e] \in {"run", "clear"} \/ Locked(e)' => set'[e] = Signals
             /\ st'[e] = "call" => call'[e] \in HelperCalls
  <2>1. d \in 1..depth /\ Locked(d) /\ mask = Signals
    BY ZenonT(60), <1>1, <1>2
  <2>2. CASE e = depth + 1
    <3>1. ~Locked(e)'
      BY ZenonT(60), <2>2 DEF Locked, KnownAt
    <3>2. st'[e] \in {"test", "wasm", "call"} /\ (st'[e] = "call" => call'[e] \in HelperCalls)
      BY ZenonT(60), <2>1, <2>2
    <3>. QED  BY ZenonT(60), <3>1, <3>2
  <2>3. CASE e # depth + 1
    <3>1. e \in (d + 1)..depth /\ e \in 1..depth
      BY <2>1, <2>3, DepthType
    <3>2. /\ st[e] \notin {"handler", "sigreturn"}
          /\ st[e] \in {"run", "clear"} \/ Locked(e) => set[e] = Signals
          /\ st[e] = "call" => call[e] \in HelperCalls
      BY ZenonT(60), <2>1, <3>1 DEF LockHeld
    <3>. QED  BY ZenonT(60), <2>1, <3>1, <3>2
  <2>. QED  BY ZenonT(60), <2>2, <2>3
<1>. QED  BY ZenonT(60), <1>1, <1>2 DEF LockHeld

(* LockHeld when the top frame executes an operation.                      *)
LEMMA LockLocal ==
    ASSUME TypeOK, LockHeld, depth > 0, UNCHANGED <<depth, call>>,
           \A d \in 1..depth : d # depth => /\ loc'[d] = loc[d] /\ set'[d] = set[d]
                                            /\ st'[d] = st[d],
           st[depth] = st'[depth] \/ {st[depth], st'[depth]} \cap {"call", "run", "clear", "handler", "sigreturn"} = {}
              \/ {st[depth], st'[depth]} \subseteq {"handler", "sigreturn"},
           st[depth] # "call" => set'[depth] = set[depth],
           Locked(depth)' => mask' = Signals,
           (\E d \in 1..depth : d # depth /\ Locked(d)) =>
              mask' = Signals /\ (Locked(depth)' => set'[depth] = Signals)
    PROVE  LockHeld'
<1>1. \A d \in 1..depth : d # depth => Locked(d)' = Locked(d)
  BY ZenonT(60) DEF Locked, KnownAt
<1>2. ASSUME NEW d \in 1..depth, Locked(d)'
      PROVE  mask' = Signals
  BY ZenonT(60), <1>1, <1>2
<1>3. ASSUME NEW d \in 1..depth, Locked(d)', NEW e \in (d + 1)..depth
      PROVE  /\ st'[e] \notin {"handler", "sigreturn"}
             /\ st'[e] \in {"run", "clear"} \/ Locked(e)' => set'[e] = Signals
             /\ st'[e] = "call" => call'[e] \in HelperCalls
  <2>1. d # depth /\ e \in 1..depth /\ Locked(d)
    BY <1>1, <1>3
  <2>2. /\ st[e] \notin {"handler", "sigreturn"}
        /\ st[e] \in {"run", "clear"} \/ Locked(e) => set[e] = Signals
        /\ st[e] = "call" => call[e] \in HelperCalls
    BY ZenonT(60), <2>1, <1>3 DEF LockHeld
  <2>3. CASE e # depth
    BY ZenonT(60), <2>1, <2>2, <2>3, <1>1
  <2>4. CASE e = depth
    BY ZenonT(60), <2>1, <2>2, <2>4 DEF Locked
  <2>. QED  BY ZenonT(60), <2>3, <2>4
<1>. QED  BY ZenonT(60), <1>2, <1>3 DEF LockHeld

(* What is known after the operation of the top frame.                     *)
LEMMA KnownNext ==
    ASSUME TypeOK, AllDisciplined, Running("call"), UNCHANGED <<depth, call>>, Next1,
           Falls(Code[call[depth]][loc[depth]])
    PROVE  Implies(After(Code[call[depth]][loc[depth]], KnownAt(depth)), KnownAt(depth)')
<1>1. depth \in Frames
  BY ConstantsAssumption, DepthType DEF Running
<1>2. loc'[depth] = loc[depth] + 1
  BY ZenonT(60), <1>1, FrameType DEF Next1, Goto
<1>. QED  BY ZenonT(60), <1>2, OpFacts DEF KnownAt

(* What is known on the error path of the operation of the top frame.      *)
LEMMA KnownError ==
    ASSUME TypeOK, AllDisciplined, Running("call"), UNCHANGED <<depth, call>>, Error
    PROVE  Implies(KnownAt(depth), KnownAt(depth)')
<1>1. depth \in Frames
  BY ConstantsAssumption, DepthType DEF Running
<1>2. loc'[depth] = Code[call[depth]][loc[depth]].err /\ Code[call[depth]][loc[depth]].err # 0
  BY ZenonT(60), <1>1, FrameType DEF Error, Err, Goto
<1>. QED  BY ZenonT(60), <1>2, OpFacts DEF KnownAt

(* An operation that changes neither the mask nor a saved mask keeps the   *)
(* lock; so does one of the mask operations in the right place.            *)
LEMMA LockOp ==
    ASSUME TypeOK, AllDisciplined, LockHeld, Running("call"), UNCHANGED <<depth, st, call>>,
           NEW l, Goto(l),
           \A d \in 1..depth : d # depth => set'[d] = set[d],
           Locked(depth)' => mask' = Signals,
           (\E d \in 1..depth : d # depth /\ Locked(d)) =>
              mask' = Signals /\ (Locked(depth)' => set'[depth] = Signals)
    PROVE  LockHeld'
<1>1. depth > 0 /\ st[depth] = "call" /\ depth \in Frames
  BY ConstantsAssumption, DepthType DEF Running
<1>2. \A d \in 1..depth : d # depth => loc'[d] = loc[d]
  BY <1>1, ConstantsAssumption DEF Goto
<1>. QED  BY ZenonT(60), <1>1, <1>2, LockLocal

(* An operation that changes no mask keeps the lock, on success and on its *)
(* error path.                                                             *)
LEMMA LockKeep ==
    ASSUME TypeOK, AllDisciplined, LockHeld, Running("call"), UNCHANGED <<depth, st, call, set, mask>>,
           Next1 \/ Error,
           Code[call[depth]][loc[depth]].op \notin {"block", "unblock", "abort", "return"},
           Code[call[depth]][loc[depth]].op = "goto" => Error
    PROVE  LockHeld'
<1>1. Locked(depth)' => Locked(depth)
  <2>0. st[depth] = "call"
    BY ZenonT(60) DEF Running
  <2>1. CASE Next1 /\ ~Error
    <3>1. Falls(Code[call[depth]][loc[depth]])
      BY ZenonT(60), <2>1 DEF Falls
    <3>. QED  BY ZenonT(60), <2>0, <2>1, <3>1, KnownNext DEF Implies, After, LockedAfter, Locked
  <2>2. CASE Error
    BY ZenonT(60), <2>0, <2>2, KnownError DEF Implies, Locked
  <2>. QED  BY ZenonT(60), <2>1, <2>2
<1>2. depth \in 1..depth
  BY DepthType DEF Running
<1>3. Locked(depth)' => mask' = Signals
  BY ZenonT(60), <1>1, <1>2 DEF LockHeld
<1>4. ASSUME NEW d \in 1..depth, d # depth, Locked(d)
      PROVE  mask' = Signals /\ (Locked(depth)' => set'[depth] = Signals)
  <2>1. depth \in (d + 1)..depth
    BY <1>2, <1>4
  <2>. QED  BY ZenonT(60), <2>1, <1>1, <1>4 DEF LockHeld
<1>5. \E l : Goto(l)
  BY ZenonT(60) DEF Next1, Error
<1>. QED  BY ZenonT(60), <1>3, <1>4, <1>5, LockOp

(* Every step keeps LockHeld: block and unblock, callbacks, nested host    *)
(* functions, traps and signals.                                           *)
LEMMA LockStep ==
    ASSUME TypeOK, JmpInv, AllDisciplined, LockHeld, Next
    PROVE  LockHeld'
<1>. USE ConstantsAssumption
<1>. DEFINE i == Code[call[depth]][loc[depth]]
<1>1. CASE InvokeMain \/ StackAlloc \/ HandlerInvoke \/ InvokeRaw \/ InvokeSave
  <2>1. PICK st1 \in [Frames -> States], s \in {"test", "wasm"} :
          /\ Push(st1, s)
          /\ \/ st1 = st /\ set' = set
             \/ depth > 0 /\ st[depth] = "handler" /\ st1 = [st EXCEPT ![depth] = "sigreturn"] /\ set' = set
             \/ depth > 0 /\ st[depth] = "test" /\ st1 = [st EXCEPT ![depth] = "raw"] /\ set' = set
             \/ depth > 0 /\ st[depth] = "save" /\ st1 = [st EXCEPT ![depth] = "run"]
                  /\ set' = [set EXCEPT ![depth] = mask]
    <3>1. /\ st \in [Frames -> States]
          /\ [st EXCEPT ![depth] = "sigreturn"] \in [Frames -> States]
          /\ [st EXCEPT ![depth] = "raw"] \in [Frames -> States]
          /\ [st EXCEPT ![depth] = "run"] \in [Frames -> States]
      BY ZenonT(60) DEF TypeOK, States, InvokeStates
    <3>. QED
      BY ZenonT(60), <1>1, <3>1 DEF InvokeMain, StackAlloc, HandlerInvoke, InvokeRaw, InvokeSave, Running
  <2>2. UNCHANGED <<mask, call, loc>>
    BY ZenonT(60), <1>1 DEF InvokeMain, StackAlloc, HandlerInvoke, InvokeRaw, InvokeSave, sigVars
  <2>3. depth < MaxDepth /\ depth' = depth + 1 /\ depth + 1 \in Frames /\ st'[depth + 1] = s
    BY <2>1, DepthType DEF Push
  <2>4. ~Locked(depth)'
    BY ZenonT(60), <2>3 DEF Locked
  <2>5. ASSUME NEW d \in 1..depth
        PROVE  /\ Locked(d)' => Locked(d)
               /\ call'[d] = call[d]
               /\ st'[d] = "call" => st[d] = "call"
               /\ st'[d] \in {"handler", "sigreturn"} => st[d] \in {"handler", "sigreturn"}
               /\ \/ set'[d] = set[d] /\ (st'[d] \in {"run", "clear"} => st[d] \in {"run", "clear"})
                  \/ set'[d] = mask
    <3>1. d \in Frames /\ d # depth + 1 /\ st'[d] = st1[d]
      <4>1. d \in Frames /\ d # depth + 1
        BY DepthType
      <4>. QED  BY ZenonT(60), <4>1, <2>1 DEF Push
    <3>2. \/ st1[d] = st[d] /\ set'[d] = set[d]
          \/ st[d] = "handler" /\ st1[d] = "sigreturn" /\ set'[d] = set[d]
          \/ st[d] = "test" /\ st1[d] = "raw" /\ set'[d] = set[d]
          \/ st[d] = "save" /\ st1[d] = "run" /\ set'[d] = mask
      BY ZenonT(60), <2>1, <3>1 DEF TypeOK
    <3>. QED  BY ZenonT(60), <2>2, <3>1, <3>2 DEF Locked, KnownAt
  <2>. QED  BY ZenonT(60), <2>2, <2>3, <2>4, <2>5, LockPush
<1>2. CASE \E c \in Calls : Call(c)
  <2>1. PICK c \in Calls : Call(c)
    BY ZenonT(60), <1>2
  <2>2. /\ depth < MaxDepth /\ depth' = depth + 1 /\ depth + 1 \in Frames
        /\ st'[depth + 1] = "call" /\ call'[depth + 1] = c /\ loc'[depth + 1] = 1
        /\ UNCHANGED <<mask, set>>
    BY <2>1, DepthType, FrameType DEF Call, Push, sigVars
  <2>3. ~Locked(depth)'
    BY <2>2 DEF Locked, KnownAt, AllDisciplined, Disciplined, UsedSafely, Start
  <2>4. ASSUME NEW d \in 1..depth
        PROVE  d \in Frames /\ st'[d] = st[d] /\ call'[d] = call[d] /\ loc'[d] = loc[d]
    BY <2>1, <2>2, DepthType DEF Call, Push
  <2>5. ASSUME NEW d \in 1..depth, Locked(d)
        PROVE  c \in HelperCalls
    <3>1. \A e \in (d + 1)..depth : st[e] # "sigreturn"
      BY ZenonT(60), <2>5 DEF LockHeld
    <3>2. \A e \in d..depth : st[e] # "sigreturn"
      <4>. SUFFICES ASSUME NEW e \in d..depth PROVE st[e] # "sigreturn"
        BY ZenonT(60)
      <4>1. st[d] # "sigreturn"
        BY ZenonT(60), <2>5 DEF Locked
      <4>2. e = d \/ e \in (d + 1)..depth
        BY DepthType
      <4>. QED  BY ZenonT(60), <4>1, <4>2, <3>1
    <3>3. HelperContext
      BY ZenonT(60), <2>5, <3>2 DEF HelperContext, Locked
    <3>. QED  BY ZenonT(60), <2>1, <3>3 DEF Call
  <2>. QED  BY ZenonT(60), <2>2, <2>3, <2>4, <2>5, LockPush DEF Locked, KnownAt
<1>3. CASE InvokeHelper
  <2>1. /\ depth < MaxDepth /\ depth' = depth + 1 /\ depth + 1 \in Frames /\ depth \in Frames
        /\ st'[depth + 1] = "test" /\ UNCHANGED <<mask, set, call>>
        /\ loc' = [loc EXCEPT ![depth] = loc[depth] + 1] /\ Running("call") /\ i.op = "invoke"
    BY <1>3, DepthType, FrameType DEF InvokeHelper, Push, sigVars, Next1, Goto, At, Running
  <2>2. ~Locked(depth)'
    BY ZenonT(60), <2>1 DEF Locked
  <2>3. \A d \in 1..depth : d \in Frames /\ st'[d] = st[d]
    BY <1>3, <2>1 DEF InvokeHelper, Push
  <2>4. KnownAt(depth).locked = Known[call[depth]][loc[depth] + 1].locked
    <3>1. Falls(i) /\ i.op # "block" /\ i.op # "unblock"
      BY ZenonT(60), <2>1 DEF Falls
    <3>2. Implies(After(i, KnownAt(depth)), Known[call[depth]][loc[depth] + 1])
      BY ZenonT(60), <3>1, <2>1, OpFacts
    <3>. QED  BY ZenonT(60), <3>1, <3>2 DEF Implies, After, LockedAfter
  <2>5. \A d \in 1..depth : Locked(d)' => Locked(d)
    BY ZenonT(60), <2>1, <2>3, <2>4 DEF Locked, KnownAt, TypeOK
  <2>. QED  BY ZenonT(60), <2>1, <2>2, <2>3, <2>5, LockPush
<1>4. CASE \E z \in Signals, m \in SUBSET Signals : Deliver(z, m)
  <2>1. PICK z \in Signals, m \in SUBSET Signals : Deliver(z, m)
    BY ZenonT(60), <1>4
  <2>2. mask # Signals
    BY ZenonT(60), <2>1 DEF Deliver
  <2>3. \A d \in 1..depth : ~Locked(d)
    BY ZenonT(60), <2>2 DEF LockHeld
  <2>4. /\ depth < MaxDepth /\ depth' = depth + 1 /\ depth + 1 \in Frames /\ UNCHANGED <<call, loc>>
        /\ st'[depth + 1] = "handler"
        /\ \A d \in 1..depth : d \in Frames /\ st'[d] = st[d] /\ set'[d] = set[d]
    <3>1. depth < MaxDepth /\ depth + 1 \in Frames /\ \A d \in 1..depth : d \in Frames /\ d # depth + 1
      BY <2>1, DepthType DEF Deliver, Room
    <3>. QED  BY ZenonT(60), <2>1, <3>1, FrameType DEF Deliver
  <2>5. ~Locked(depth)'
    BY ZenonT(60), <2>4 DEF Locked
  <2>6. \A d \in 1..depth : Locked(d)' => Locked(d)
    BY ZenonT(60), <2>4 DEF Locked, KnownAt
  <2>. QED  BY ZenonT(60), <2>3, <2>4, <2>5, <2>6, LockPush
<1>5. CASE InvokeTest \/ InvokeSet \/ HandlerSkip
  <2>1. /\ depth > 0 /\ depth \in Frames /\ UNCHANGED <<depth, call, loc, set, mask>>
        /\ \/ st[depth] = "test" /\ st' = [st EXCEPT ![depth] = "set"]
           \/ st[depth] = "set" /\ st' = [st EXCEPT ![depth] = "save"]
           \/ st[depth] = "handler" /\ st' = [st EXCEPT ![depth] = "sigreturn"]
    BY <1>5, DepthType DEF InvokeTest, InvokeSet, HandlerSkip, Running, sigVars
  <2>2. \A d \in 1..depth : d # depth => d \in Frames /\ st'[d] = st[d]
    <3>1. \A d \in 1..depth : d \in Frames
      BY DepthType
    <3>2. \A d \in Frames : d # depth => st'[d] = st[d]
      BY ZenonT(60), <2>1, FrameType
    <3>. QED  BY ZenonT(60), <3>1, <3>2
  <2>3. st'[depth] # "call" /\ st[depth] # "call"
    BY ZenonT(60), <2>1, FrameType
  <2>4. ~Locked(depth)'
    BY ZenonT(60), <2>1, <2>3 DEF Locked
  <2>5. (\E d \in 1..depth : Locked(d)) => mask' = Signals
    BY ZenonT(60), <2>1 DEF LockHeld
  <2>6. \/ {st[depth], st'[depth]} \cap {"call", "run", "clear", "handler", "sigreturn"} = {}
        \/ {st[depth], st'[depth]} \subseteq {"handler", "sigreturn"}
    BY <2>1
  <2>. QED  BY ZenonT(60), <2>1, <2>2, <2>3, <2>4, <2>5, <2>6, LockLocal
<1>6. CASE InvokeClear \/ InvokeReturn \/ WasmReturn \/ Return
  <2>1. depth > 0 /\ Pop /\ UNCHANGED mask
    BY ZenonT(60), <1>6 DEF InvokeClear, InvokeReturn, WasmReturn, Return, At, Running, sigVars
  <2>2. depth - 1 \in 0..MaxDepth /\ depth - 1 <= depth /\ CutTo(depth - 1, AfterReturn)
    BY <2>1, DepthType DEF Pop
  <2>3. depth - 1 > 0 => AfterReturn = st[depth - 1] \/ (AfterReturn = "clear" /\ st[depth - 1] \in {"run", "clear"})
    BY <2>1 DEF AfterReturn
  <2>4. \A d \in 1..(depth - 1) : Locked(d) => mask' = Signals
    BY <2>1, DepthType DEF LockHeld
  <2>. QED  BY ZenonT(60), <2>2, <2>3, <2>4, LockCut
<1>7. CASE SigReturn
  <2>. DEFINE s == IF depth = 1 THEN "none" ELSE st[depth - 1]
  <2>1. depth > 0 /\ st[depth] = "sigreturn" /\ CutTo(depth - 1, s) /\ depth \in 1..depth
    BY <1>7, DepthType DEF SigReturn, Running
  <2>2. depth - 1 \in 0..MaxDepth /\ depth - 1 <= depth
    BY <2>1, DepthType
  <2>3. depth - 1 > 0 => s = st[depth - 1]
    BY <2>2
  <2>4. ASSUME NEW d \in 1..(depth - 1), Locked(d)
        PROVE  FALSE
    <3>1. d \in 1..depth /\ depth \in (d + 1)..depth
      BY <2>1
    <3>. QED  BY ZenonT(60), <3>1, <2>1, <2>4 DEF LockHeld
  <2>. HIDE DEF s
  <2>. QED  BY ZenonT(60), <2>1, <2>2, <2>3, <2>4, LockCut
<1>8. CASE WasmTrap \/ Abort
  <2>0. wasmjit_trap
    BY ZenonT(60), <1>8 DEF WasmTrap, Abort
  <2>1. CASE jmp_buf = 0 \/ st[jmp_buf] = "save"
    BY ZenonT(60), <2>0, <2>1 DEF wasmjit_trap, LockHeld, Locked, KnownAt, frameVars, sigVars
  <2>2. CASE ~(jmp_buf = 0 \/ st[jmp_buf] = "save")
    <3>1. CutTo(jmp_buf, "clear") /\ mask' = set[jmp_buf]
      BY ZenonT(60), <2>0, <2>2 DEF wasmjit_trap
    <3>2. jmp_buf \in 1..depth /\ jmp_buf <= depth /\ st[jmp_buf] \in {"run", "clear"} /\ jmp_buf \in 0..MaxDepth
      BY <2>2, DepthType DEF JmpInv, JmpBufLive
    <3>3. ASSUME NEW d \in 1..jmp_buf, Locked(d)
          PROVE  mask' = Signals
      <4>1. d # jmp_buf
        BY ZenonT(60), <3>2, <3>3 DEF Locked
      <4>2. d \in 1..depth /\ jmp_buf \in (d + 1)..depth
        BY <4>1, <3>2, DepthType
      <4>. QED  BY ZenonT(60), <4>2, <3>1, <3>2, <3>3 DEF LockHeld
    <3>. QED  BY ZenonT(60), <3>1, <3>2, <3>3, LockCut
  <2>. QED  BY ZenonT(60), <2>1, <2>2
<1>9. ASSUME Running("call"), Falls(i), Next1, UNCHANGED <<depth, st, call>>
      PROVE  Locked(depth)' <=> LockedAfter(i, KnownAt(depth))
  <2>1. st[depth] = "call" /\ UNCHANGED <<depth, call>>
    BY ZenonT(60), <1>9 DEF Running
  <2>2. Implies(After(i, KnownAt(depth)), KnownAt(depth)')
    BY ZenonT(60), <1>9, <2>1, KnownNext
  <2>. QED  BY ZenonT(60), <1>9, <2>1, <2>2 DEF Implies, After, Locked
<1>10. ASSUME Running("call")
       PROVE  /\ st[depth] = "call" /\ depth \in Frames /\ depth \in 1..depth
              /\ Safe(i, KnownAt(depth)) /\ call[depth] \in Calls /\ loc[depth] \in DOMAIN Code[call[depth]]
  BY ZenonT(60), <1>10, OpFacts
<1>11. ASSUME NEW d \in 1..depth, d # depth, Locked(d), Running("call")
       PROVE  /\ mask = Signals /\ (Locked(depth) => set[depth] = Signals)
              /\ call[depth] \in HelperCalls
  <2>1. depth \in (d + 1)..depth
    BY <1>11, DepthType
  <2>. QED  BY ZenonT(60), <2>1, <1>10, <1>11 DEF LockHeld
<1>12. CASE BlockSignals
  <2>1. /\ Running("call") /\ Next1 /\ i.op = "block" /\ UNCHANGED <<depth, st, call>>
        /\ mask' = Signals /\ set' = [set EXCEPT ![depth] = mask]
    BY ZenonT(60), <1>12 DEF BlockSignals, At
  <2>2. set'[depth] = mask /\ \A d \in 1..depth : d # depth => set'[d] = set[d]
    BY <2>1, <1>10, FrameType
  <2>3. ASSUME NEW d \in 1..depth, d # depth, Locked(d)
        PROVE  set'[depth] = Signals
    BY ZenonT(60), <2>1, <2>2, <2>3, <1>11
  <2>4. Goto(loc[depth] + 1)
    BY ZenonT(60), <2>1 DEF Next1
  <2>. QED  BY ZenonT(60), <2>1, <2>2, <2>3, <2>4, LockOp
<1>13. CASE UnblockSignals \/ SigProcMask
  <2>1. Running("call") /\ UNCHANGED <<depth, st, call, set>>
    BY ZenonT(60), <1>13 DEF UnblockSignals, SigProcMask, At
  <2>2. ~Locked(depth)'
    <3>1. CASE UnblockSignals
      <4>1. Next1 /\ Falls(i) /\ i.op = "unblock"
        BY ZenonT(60), <3>1 DEF UnblockSignals, At, Falls
      <4>2. ~LockedAfter(i, KnownAt(depth))
        BY ZenonT(60), <4>1 DEF LockedAfter
      <4>. QED  BY ZenonT(60), <4>1, <4>2, <2>1, <1>9
    <3>2. CASE SigProcMask
      <4>1. i.op = "sigprocmask" /\ Falls(i)
        BY ZenonT(60), <3>2 DEF SigProcMask, At, Falls
      <4>2. ~KnownAt(depth).locked
        BY ZenonT(60), <4>1, <2>1, <1>10 DEF Safe
      <4>3. CASE Next1
        <5>1. ~LockedAfter(i, KnownAt(depth))
          BY ZenonT(60), <4>1, <4>2 DEF LockedAfter
        <5>. QED  BY ZenonT(60), <5>1, <4>1, <4>3, <2>1, <1>9
      <4>4. CASE Error
        <5>1. Implies(KnownAt(depth), KnownAt(depth)')
          BY ZenonT(60), <4>4, <2>1, KnownError
        <5>. QED  BY ZenonT(60), <5>1, <4>2 DEF Implies, Locked
      <4>. QED  BY ZenonT(60), <4>3, <4>4, <3>2 DEF SigProcMask
    <3>. QED  BY ZenonT(60), <1>13, <3>1, <3>2
  <2>3. ASSUME NEW d \in 1..depth, d # depth, Locked(d)
        PROVE  mask' = Signals
    <3>1. CASE UnblockSignals
      <4>1. i.op = "unblock" /\ mask' = set[depth]
        BY ZenonT(60), <3>1 DEF UnblockSignals, At
      <4>2. Locked(depth)
        BY ZenonT(60), <4>1, <2>1, <1>10 DEF Safe, Locked
      <4>. QED  BY ZenonT(60), <4>1, <4>2, <2>1, <2>3, <1>11
    <3>2. CASE SigProcMask
      <4>1. i.op = "sigprocmask"
        BY ZenonT(60), <3>2 DEF SigProcMask, At
      <4>. QED  BY ZenonT(60), <4>1, <2>1, <2>3, <1>10, <1>11, HelperAssumption
    <3>. QED  BY ZenonT(60), <1>13, <3>1, <3>2
  <2>4. \E l : Goto(l)
    BY ZenonT(60), <1>13 DEF UnblockSignals, SigProcMask, Next1, Error
  <2>. QED  BY ZenonT(60), <2>1, <2>2, <2>3, <2>4, LockOp
<1>14. CASE UnblockUninit
  <2>1. Running("call") /\ i.op = "unblock_uninit"
    BY ZenonT(60), <1>14 DEF UnblockUninit, At
  <2>. QED  BY ZenonT(60), <2>1, <1>10 DEF Safe
<1>15. CASE HeapStep \/ Jump \/ Proceed("branch") \/ Proceed("libc") \/ Proceed("sys") \/ Exec
  <2>1. /\ Running("call") /\ UNCHANGED <<depth, st, call, set, mask>>
        /\ i.op \in {"alloc", "free", "add", "remove", "goto", "branch", "libc", "sys", "exec"}
    BY ZenonT(60), <1>15, Moves
  <2>2. (Next1 \/ Error) /\ (i.op = "goto" => Error)
    BY ZenonT(60), <1>15, Moves
  <2>. QED  BY ZenonT(60), <2>1, <2>2, LockKeep
<1>16. CASE UNCHANGED <<st, depth, call, loc, set, mask>>
  BY <1>16 DEF LockHeld, Locked, KnownAt
<1>. QED
  BY ZenonT(60), <1>1, <1>2, <1>3, <1>4, <1>5, <1>6, <1>7, <1>8, <1>12, <1>13, <1>14, <1>15, <1>16
     DEF Next, InvokeStep, SignalStep, CallStep, MaskStep, Kill, Ended, frameVars, sigVars, vars

-----------------------------------------------------------------------------
(* Frame e runs on behalf of a host function below it, with no handler     *)
(* between them.                                                           *)
Interrupts == {"handler", "sigreturn"}
OnBehalf(e) == \E c \in 1..(e - 1) : st[c] = "call" /\ \A g \in c..e : st[g] \notin Interrupts

(* The mask frame e has, or will have again when the frame above returns.  *)
MaskAt(e) == IF e = depth THEN mask ELSE entry[e + 1]

(* The frames whose mask is the one they were entered with.                *)
Steady(e) ==
    \/ st[e] = "call" /\ ~MaskChanging(call[e]) /\ ~Locked(e)
    \/ st[e] # "call" /\ OnBehalf(e)

(* The frames whose saved mask is the one they were entered with.          *)
Saved(e) ==
    \/ st[e] \in Interrupts
    \/ Locked(e) /\ ~MaskChanging(call[e])
    \/ st[e] \in {"run", "clear"} /\ OnBehalf(e)

(* The mask of a frame can be restored when it returns or is jumped to:    *)
(* the masks saved by block_signals, by the kernel and by sigsetjmp are    *)
(* those of the entry of the frame.  What runs on behalf of a host         *)
(* function changes no mask for good.                                      *)
FrameMask(e) ==
    /\ Steady(e) => MaskAt(e) = entry[e]
    /\ Saved(e) => set[e] = entry[e]
    /\ st[e] = "call" /\ OnBehalf(e) => ~MaskChanging(call[e])
MaskInv == \A e \in 1..depth : FrameMask(e)

(* A frame runs on behalf of another as long as no frame below it becomes  *)
(* or stops being a call or a handler.                                     *)
LEMMA BehalfKept ==
    ASSUME NEW e \in Nat,
           \A g \in 1..e : /\ st'[g] = "call" => st[g] = "call"
                           /\ st[g] \in Interrupts => st'[g] \in Interrupts,
           OnBehalf(e)'
    PROVE  OnBehalf(e)
<1>1. PICK c \in 1..(e - 1) : st'[c] = "call" /\ \A g \in c..e : st'[g] \notin Interrupts
  BY ZenonT(60) DEF OnBehalf
<1>2. c \in 1..e /\ \A g \in c..e : g \in 1..e
  BY <1>1
<1>3. st[c] = "call" /\ \A g \in c..e : st[g] \notin Interrupts
  BY ZenonT(60), <1>1, <1>2
<1>. QED  BY ZenonT(60), <1>3 DEF OnBehalf

(* FrameMask of a frame that a step leaves alone.                          *)
LEMMA MaskFrameKept ==
    ASSUME NEW e \in Nat, FrameMask(e),
           call'[e] = call[e], set'[e] = set[e], entry'[e] = entry[e],
           st'[e] = "call" <=> st[e] = "call", st'[e] \in Interrupts <=> st[e] \in Interrupts,
           st'[e] \in {"run", "clear"} => st[e] \in {"run", "clear"},
           Locked(e)' <=> Locked(e), OnBehalf(e)' => OnBehalf(e),
           Steady(e) => MaskAt(e)' = MaskAt(e)
    PROVE  FrameMask(e)'
<1>1. Steady(e)' => Steady(e)
  BY ZenonT(60) DEF Steady, MaskChanging
<1>. QED  BY ZenonT(60), <1>1 DEF FrameMask, Saved, MaskChanging

(* Frames are dropped: the mask the frame that is left continues with has  *)
(* to be the one it is meant to have.                                      *)
LEMMA MaskCut ==
    ASSUME TypeOK, MaskInv, NEW t \in 0..MaxDepth, t <= depth, NEW s, CutTo(t, s),
           t > 0 => s = st[t] \/ (s = "clear" /\ st[t] \in {"run", "clear"}),
           t > 0 /\ Steady(t) => mask' = MaskAt(t)
    PROVE  MaskInv'
<1>. USE ConstantsAssumption
<1>1. ASSUME NEW d \in 1..t
      PROVE  /\ d \in Nat /\ d \in Frames /\ d \in 1..depth
             /\ call'[d] = call[d] /\ loc'[d] = loc[d] /\ set'[d] = set[d] /\ entry'[d] = entry[d]
             /\ st'[d] = st[d] \/ (st'[d] = "clear" /\ st[d] \in {"run", "clear"})
  <2>1. d \in Frames /\ d \in 1..depth /\ ~(d > t) /\ d \in Nat
    BY DepthType
  <2>. QED  BY <2>1 DEF CutTo
<1>2. depth' = t /\ t \in Nat
  BY DEF CutTo
<1>3. ASSUME NEW e \in 1..t
      PROVE  FrameMask(e)'
  <2>1. /\ st'[e] = "call" <=> st[e] = "call"
        /\ st'[e] \in Interrupts <=> st[e] \in Interrupts
        /\ st'[e] \in {"run", "clear"} => st[e] \in {"run", "clear"}
    BY ZenonT(60), <1>1 DEF Interrupts
  <2>2. Locked(e)' <=> Locked(e)
    BY ZenonT(60), <1>1, <2>1 DEF Locked, KnownAt
  <2>3. OnBehalf(e)' => OnBehalf(e)
    <3>1. \A g \in 1..e : /\ st'[g] = "call" => st[g] = "call"
                          /\ st[g] \in Interrupts => st'[g] \in Interrupts
      BY <1>1 DEF Interrupts
    <3>. QED  BY ZenonT(60), <3>1, <1>1, BehalfKept
  <2>4. Steady(e) => MaskAt(e)' = MaskAt(e)
    <3>1. CASE e = t
      BY <3>1, <1>2 DEF MaskAt
    <3>2. CASE e # t
      <4>1. e + 1 \in 1..t /\ e # depth
        BY <3>2, DepthType
      <4>. QED  BY ZenonT(60), <4>1, <3>2, <1>1, <1>2 DEF MaskAt
    <3>. QED  BY ZenonT(60), <3>1, <3>2
  <2>. QED  BY ZenonT(60), <1>1, <2>1, <2>2, <2>3, <2>4, MaskFrameKept DEF MaskInv
<1>. QED  BY ZenonT(60), <1>2, <1>3 DEF MaskInv

(* A frame is pushed with the mask of the frame below.                     *)
LEMMA MaskPush ==
    ASSUME TypeOK, MaskInv, depth < MaxDepth, NEW n \in Nat, n = depth + 1, depth' = n,
           entry' = [entry EXCEPT ![n] = mask],
           \A d \in 1..depth :
              /\ call'[d] = call[d]
              /\ st'[d] = "call" <=> st[d] = "call"
              /\ st'[d] \in Interrupts <=> st[d] \in Interrupts
              /\ Locked(d)' <=> Locked(d)
              /\ \/ set'[d] = set[d] /\ (st'[d] \in {"run", "clear"} => st[d] \in {"run", "clear"})
                 \/ set'[d] = mask /\ d = depth /\ st[d] = "save",
           ~Locked(n)', st'[n] \notin {"run", "clear"},
           st'[n] \in Interrupts => set'[n] = mask,
           st'[n] \notin Interrupts => mask' = mask,
           st'[n] = "call" /\ OnBehalf(n)' => ~MaskChanging(call'[n])
    PROVE  MaskInv'
<1>. USE ConstantsAssumption
<1>1. /\ n \in Frames /\ entry'[n] = mask
      /\ \A d \in 1..depth : d \in Nat /\ d \in Frames /\ d # n /\ entry'[d] = entry[d]
  BY DepthType, FrameType
<1>2. ASSUME NEW e \in 1..depth
      PROVE  FrameMask(e)'
  <2>1. MaskAt(e)' = MaskAt(e)
    <3>1. CASE e = depth
      BY ZenonT(60), <3>1, <1>1, DepthType DEF MaskAt
    <3>2. CASE e # depth
      <4>1. e + 1 \in 1..depth /\ e # depth + 1
        BY <3>2, DepthType
      <4>. QED  BY ZenonT(60), <4>1, <3>2, <1>1 DEF MaskAt
    <3>. QED  BY ZenonT(60), <3>1, <3>2
  <2>2. OnBehalf(e)' => OnBehalf(e)
    <3>1. \A g \in 1..e : g \in 1..depth
      BY DepthType
    <3>. QED  BY ZenonT(60), <3>1, <1>1, BehalfKept
  <2>3. CASE set'[e] = set[e] /\ (st'[e] \in {"run", "clear"} => st[e] \in {"run", "clear"})
    BY ZenonT(60), <1>1, <2>1, <2>2, <2>3, MaskFrameKept DEF MaskInv
  <2>4. CASE set'[e] = mask /\ e = depth /\ st[e] = "save"
    <3>1. FrameMask(e) /\ st[e] # "call" /\ st[e] \notin Interrupts /\ MaskAt(e) = mask
      BY ZenonT(60), <2>4 DEF MaskInv, Interrupts, MaskAt
    <3>2. OnBehalf(e) => set'[e] = entry'[e] /\ MaskAt(e)' = entry'[e]
      BY ZenonT(60), <1>1, <2>1, <2>4, <3>1 DEF FrameMask, Steady
    <3>3. ~Locked(e)' /\ st'[e] # "call" /\ st'[e] \notin Interrupts
      BY ZenonT(60), <3>1 DEF Locked
    <3>. QED  BY ZenonT(60), <2>2, <3>2, <3>3 DEF FrameMask, Saved, Steady
  <2>. QED  BY ZenonT(60), <2>3, <2>4
<1>3. FrameMask(n)'
  <2>1. MaskAt(n)' = mask'
    BY ZenonT(60) DEF MaskAt
  <2>2. Steady(n)' => mask' = mask
    <3>1. OnBehalf(n)' => st'[n] \notin Interrupts
      BY DepthType DEF OnBehalf
    <3>. QED  BY ZenonT(60), <3>1 DEF Steady, Interrupts
  <2>. QED  BY ZenonT(60), <1>1, <2>1, <2>2 DEF FrameMask, Saved, MaskChanging
<1>4. \A e \in 1..n : e \in 1..depth \/ e = n
  BY DepthType
<1>. QED  BY ZenonT(60), <1>2, <1>3, <1>4 DEF MaskInv

(* The top frame executes an operation: the frames below keep their masks. *)
LEMMA MaskLocal ==
    ASSUME TypeOK, MaskInv, NEW n \in Nat, n = depth, n > 0, UNCHANGED <<depth, entry>>,
           \A d \in 1..n : d # n => /\ call'[d] = call[d] /\ loc'[d] = loc[d]
                                    /\ set'[d] = set[d] /\ st'[d] = st[d],
           FrameMask(n)'
    PROVE  MaskInv'
<1>1. ASSUME NEW e \in 1..n, e # n
      PROVE  FrameMask(e)'
  <2>1. e \in Nat /\ FrameMask(e)
    BY DEF MaskInv
  <2>2. \A g \in 1..e : st'[g] = st[g]
    BY <1>1
  <2>3. Locked(e)' <=> Locked(e)
    BY ZenonT(60), <1>1 DEF Locked, KnownAt
  <2>4. OnBehalf(e)' => OnBehalf(e)
    BY ZenonT(60), <2>1, <2>2, BehalfKept
  <2>5. MaskAt(e)' = MaskAt(e)
    BY ZenonT(60), <1>1 DEF MaskAt
  <2>. QED  BY ZenonT(60), <1>1, <2>1, <2>3, <2>4, <2>5, MaskFrameKept
<1>. QED  BY ZenonT(60), <1>1 DEF MaskInv

(* A top frame that runs on behalf of a host function below, or that is    *)
(* run by such a frame, is not locked when it returns and restores the     *)
(* mask the frame below it had.                                            *)
LEMMA MaskPop ==
    ASSUME TypeOK, MaskInv, depth > 0, Pop, UNCHANGED mask,
           st[depth] \notin Interrupts, ~Locked(depth)
    PROVE  MaskInv'
<1>1. depth - 1 \in 0..MaxDepth /\ depth - 1 <= depth /\ CutTo(depth - 1, AfterReturn) /\ depth \in 1..depth
  BY DepthType DEF Pop
<1>2. depth - 1 > 0 => AfterReturn = st[depth - 1] \/ (AfterReturn = "clear" /\ st[depth - 1] \in {"run", "clear"})
  BY DEF AfterReturn
<1>3. ASSUME depth - 1 > 0, Steady(depth - 1)
      PROVE  mask' = MaskAt(depth - 1)
  <2>1. OnBehalf(depth)
    <3>1. CASE st[depth - 1] = "call"
      <4>1. depth - 1 \in 1..(depth - 1) /\ \A g \in (depth - 1)..depth : g = depth - 1 \/ g = depth
        BY <1>3, DepthType
      <4>2. \A g \in (depth - 1)..depth : st[g] \notin Interrupts
        BY ZenonT(60), <4>1, <3>1 DEF Interrupts
      <4>. QED  BY ZenonT(60), <4>1, <4>2, <3>1 DEF OnBehalf
    <3>2. CASE OnBehalf(depth - 1)
      <4>1. PICK c \in 1..((depth - 1) - 1) : st[c] = "call" /\ \A g \in c..(depth - 1) : st[g] \notin Interrupts
        BY ZenonT(60), <3>2 DEF OnBehalf
      <4>2. c \in 1..(depth - 1) /\ \A g \in c..depth : g \in c..(depth - 1) \/ g = depth
        BY DepthType
      <4>. QED  BY ZenonT(60), <4>1, <4>2 DEF OnBehalf
    <3>. QED  BY ZenonT(60), <1>3, <3>1, <3>2 DEF Steady
  <2>2. Steady(depth) /\ FrameMask(depth)
    BY ZenonT(60), <1>1, <2>1 DEF Steady, FrameMask, MaskInv
  <2>3. mask = entry[depth]
    BY ZenonT(60), <2>2 DEF FrameMask, MaskAt
  <2>4. MaskAt(depth - 1) = entry[depth]
    BY DepthType DEF MaskAt
  <2>. QED  BY ZenonT(60), <2>3, <2>4
<1>. QED  BY ZenonT(60), <1>1, <1>2, <1>3, MaskCut

(* A host function returns unlocked.                                       *)
LEMMA ReturnsUnlocked ==
    ASSUME TypeOK, AllDisciplined, Return
    PROVE  Running("call") /\ ~Locked(depth) /\ depth \in 1..depth
<1>1. Running("call") /\ Code[call[depth]][loc[depth]].op = "return"
  BY ZenonT(60) DEF Return, At
<1>2. Safe(Code[call[depth]][loc[depth]], KnownAt(depth)) /\ depth \in 1..depth
  BY ZenonT(60), <1>1, OpFacts
<1>. QED  BY ZenonT(60), <1>1, <1>2 DEF Safe, Locked

(* A signal handler gives back the mask it was started with.               *)
LEMMA SigReturnMask ==
    ASSUME TypeOK, MaskInv, SigReturn
    PROVE  MaskInv'
<1>. DEFINE s == IF depth = 1 THEN "none" ELSE st[depth - 1]
<1>1. depth > 0 /\ st[depth] = "sigreturn" /\ CutTo(depth - 1, s) /\ depth \in 1..depth /\ mask' = set[depth]
  BY DepthType DEF SigReturn, Running
<1>2. depth - 1 \in 0..MaxDepth /\ depth - 1 <= depth
  BY <1>1, DepthType
<1>3. depth - 1 > 0 => s = st[depth - 1]
  BY <1>2
<1>. HIDE DEF s
<1>4. mask' = entry[depth]
  BY ZenonT(60), <1>1 DEF MaskInv, FrameMask, Saved, Interrupts
<1>5. MaskAt(depth - 1) = entry[depth]
  BY <1>1, DepthType DEF MaskAt
<1>. QED  BY ZenonT(60), <1>1, <1>2, <1>3, <1>4, <1>5, MaskCut

(* A step that touches no frame and no mask.                               *)
LEMMA SameMask ==
    ASSUME MaskInv, UNCHANGED <<depth, st, call, loc, set, mask, entry>>
    PROVE  MaskInv'
<1>1. ASSUME NEW e \in 1..depth PROVE FrameMask(e)'
  <2>1. (OnBehalf(e)' <=> OnBehalf(e)) /\ (Locked(e)' <=> Locked(e))
        /\ (MaskChanging(call[e])' <=> MaskChanging(call[e])) /\ MaskAt(e)' = MaskAt(e)
    BY ZenonT(60) DEF OnBehalf, Locked, KnownAt, MaskChanging, MaskAt
  <2>2. (Steady(e)' <=> Steady(e)) /\ (Saved(e)' <=> Saved(e))
    BY ZenonT(60), <2>1 DEF Steady, Saved
  <2>3. FrameMask(e)
    BY ZenonT(60) DEF MaskInv
  <2>. QED  BY ZenonT(60), <2>1, <2>2, <2>3 DEF FrameMask
<1>. QED  BY ZenonT(60), <1>1 DEF MaskInv

(* A trap restores the mask that sigsetjmp saved.                          *)
LEMMA TrapMask ==
    ASSUME TypeOK, JmpInv, MaskInv, wasmjit_trap
    PROVE  MaskInv'
<1>1. CASE jmp_buf = 0 \/ st[jmp_buf] = "save"
  <2>1. UNCHANGED <<depth, st, call, loc, set, mask, entry>>
    BY ZenonT(60), <1>1 DEF wasmjit_trap, frameVars, sigVars
  <2>. QED  BY ZenonT(60), <2>1, SameMask
<1>2. CASE ~(jmp_buf = 0 \/ st[jmp_buf] = "save")
  <2>1. CutTo(jmp_buf, "clear") /\ mask' = set[jmp_buf]
    BY ZenonT(60), <1>2 DEF wasmjit_trap
  <2>2. jmp_buf \in 1..depth /\ jmp_buf <= depth /\ st[jmp_buf] \in {"run", "clear"} /\ jmp_buf \in 0..MaxDepth
    BY <1>2, DepthType DEF JmpInv, JmpBufLive
  <2>3. Steady(jmp_buf) => mask' = MaskAt(jmp_buf)
    <3>1. FrameMask(jmp_buf) /\ st[jmp_buf] # "call"
      BY ZenonT(60), <2>2 DEF MaskInv
    <3>2. Steady(jmp_buf) => OnBehalf(jmp_buf) /\ MaskAt(jmp_buf) = entry[jmp_buf]
      BY ZenonT(60), <3>1 DEF FrameMask, Steady
    <3>3. OnBehalf(jmp_buf) => set[jmp_buf] = entry[jmp_buf]
      BY ZenonT(60), <3>1, <2>2 DEF FrameMask, Saved
    <3>. QED  BY ZenonT(60), <3>2, <3>3, <2>1
  <2>. QED  BY ZenonT(60), <2>1, <2>2, <2>3, MaskCut
<1>. QED  BY ZenonT(60), <1>1, <1>2

(* The steps that push a frame other than a handler or a host function.    *)
LEMMA InvokePushMask ==
    ASSUME TypeOK, AllDisciplined, MaskInv,
           InvokeMain \/ StackAlloc \/ HandlerInvoke \/ InvokeRaw \/ InvokeSave \/ InvokeHelper
    PROVE  MaskInv'
<1>. USE ConstantsAssumption
<1>0. PICK n \in Nat : n = depth + 1
  BY DepthType
<1>1. PICK st1 \in [Frames -> States], s \in {"test", "wasm"} :
          /\ Push(st1, s)
          /\ \/ st1 = st /\ set' = set
             \/ depth > 0 /\ st[depth] = "handler" /\ st1 = [st EXCEPT ![depth] = "sigreturn"] /\ set' = set
             \/ depth > 0 /\ st[depth] = "test" /\ st1 = [st EXCEPT ![depth] = "raw"] /\ set' = set
             \/ depth > 0 /\ st[depth] = "save" /\ st1 = [st EXCEPT ![depth] = "run"]
                  /\ set' = [set EXCEPT ![depth] = mask]
  <2>1. /\ st \in [Frames -> States]
        /\ [st EXCEPT ![depth] = "sigreturn"] \in [Frames -> States]
        /\ [st EXCEPT ![depth] = "raw"] \in [Frames -> States]
        /\ [st EXCEPT ![depth] = "run"] \in [Frames -> States]
    BY ZenonT(60), FrameType DEF States, InvokeStates
  <2>. QED
    BY ZenonT(60), <2>1 DEF InvokeMain, StackAlloc, HandlerInvoke, InvokeRaw, InvokeSave, InvokeHelper, Running
<1>2. UNCHANGED <<mask, call>>
  BY ZenonT(60) DEF InvokeMain, StackAlloc, HandlerInvoke, InvokeRaw, InvokeSave, InvokeHelper, sigVars
<1>3. /\ depth < MaxDepth /\ n \in Frames /\ st'[n] = s /\ depth' = n
      /\ entry' = [entry EXCEPT ![n] = mask]
  BY <1>0, <1>1, DepthType DEF Push
<1>4. ASSUME NEW d \in 1..depth
      PROVE  d \in Frames /\ d # n /\ st'[d] = st1[d]
  <2>1. d \in Frames /\ d # n
    BY <1>0, DepthType
  <2>. QED  BY ZenonT(60), <2>1, <1>0, <1>1 DEF Push
<1>5. ASSUME NEW d \in 1..depth
      PROVE  \/ st'[d] = st[d] /\ set'[d] = set[d]
             \/ st[d] = "handler" /\ st'[d] = "sigreturn" /\ set'[d] = set[d]
             \/ st[d] = "test" /\ st'[d] = "raw" /\ set'[d] = set[d]
             \/ st[d] = "save" /\ st'[d] = "run" /\ set'[d] = mask /\ d = depth
  BY ZenonT(60), <1>1, <1>4, FrameType
<1>6. ASSUME NEW d \in 1..depth
      PROVE  Locked(d)' <=> Locked(d)
  <2>1. st'[d] = "call" <=> st[d] = "call"
    BY ZenonT(60), <1>5
  <2>2. CASE ~InvokeHelper
    <3>1. loc' = loc
      BY ZenonT(60), <2>2 DEF InvokeMain, StackAlloc, HandlerInvoke, InvokeRaw, InvokeSave
    <3>. QED  BY ZenonT(60), <1>2, <2>1, <3>1 DEF Locked, KnownAt
  <2>3. CASE InvokeHelper /\ d # depth
    <3>1. loc'[d] = loc[d]
      BY ZenonT(60), <1>4, <2>3, FrameType DEF InvokeHelper, Next1, Goto
    <3>. QED  BY ZenonT(60), <1>2, <2>1, <3>1 DEF Locked, KnownAt
  <2>4. CASE InvokeHelper /\ d = depth
    <3>1. Running("call") /\ Code[call[d]][loc[d]].op = "invoke" /\ loc'[d] = loc[d] + 1
      BY ZenonT(60), <1>4, <2>4, FrameType DEF InvokeHelper, At, Next1, Goto
    <3>2. Falls(Code[call[d]][loc[d]])
      BY ZenonT(60), <3>1 DEF Falls
    <3>3. Implies(After(Code[call[d]][loc[d]], KnownAt(d)), Known[call[d]][loc[d] + 1])
      BY ZenonT(60), <2>4, <3>1, <3>2, OpFacts
    <3>4. Known[call[d]][loc[d] + 1].locked = KnownAt(d).locked
      <4>1. Code[call[d]][loc[d]].op # "block" /\ Code[call[d]][loc[d]].op # "unblock"
        BY ZenonT(60), <3>1
      <4>. QED  BY ZenonT(60), <3>3, <4>1 DEF Implies, After, LockedAfter
    <3>. QED  BY ZenonT(60), <1>2, <2>1, <3>1, <3>4 DEF Locked, KnownAt
  <2>. QED  BY ZenonT(60), <2>2, <2>3, <2>4
<1>7. /\ ~Locked(n)' /\ st'[n] \notin {"run", "clear"} /\ st'[n] \notin Interrupts
      /\ st'[n] # "call"
  BY ZenonT(60), <1>3 DEF Locked, Interrupts
<1>8. ASSUME NEW d \in 1..depth
      PROVE  /\ call'[d] = call[d]
             /\ st'[d] = "call" <=> st[d] = "call"
             /\ st'[d] \in Interrupts <=> st[d] \in Interrupts
             /\ \/ set'[d] = set[d] /\ (st'[d] \in {"run", "clear"} => st[d] \in {"run", "clear"})
                \/ set'[d] = mask /\ d = depth /\ st[d] = "save"
  BY ZenonT(60), <1>2, <1>5 DEF Interrupts
<1>. QED  BY ZenonT(60), <1>0, <1>2, <1>3, <1>6, <1>7, <1>8, MaskPush

(* WebAssembly calls a host function; on behalf of another one, only one   *)
(* that leaves the mask alone.                                             *)
LEMMA CallMask ==
    ASSUME TypeOK, AllDisciplined, MaskInv, NEW c \in Calls, Call(c)
    PROVE  MaskInv'
<1>. USE ConstantsAssumption
<1>0. PICK n \in Nat : n = depth + 1
  BY DepthType
<1>1. /\ depth < MaxDepth /\ depth' = n /\ n \in Frames
      /\ st'[n] = "call" /\ call'[n] = c /\ loc'[n] = 1
      /\ UNCHANGED <<mask, set>> /\ entry' = [entry EXCEPT ![n] = mask]
  <2>1. /\ depth < MaxDepth /\ depth' = n
        /\ st' = [st EXCEPT ![n] = "call"] /\ entry' = [entry EXCEPT ![n] = mask]
        /\ call' = [call EXCEPT ![n] = c] /\ loc' = [loc EXCEPT ![n] = 1]
        /\ UNCHANGED <<mask, set>>
    BY ZenonT(60), <1>0 DEF Call, Push, sigVars
  <2>2. n \in Frames
    BY <1>0, <2>1, DepthType
  <2>. QED  BY ZenonT(60), <2>1, <2>2, FrameType
<1>2. ~Locked(n)'
  <2>1. Known[c][1] = Start
    BY ZenonT(60) DEF AllDisciplined, Disciplined, UsedSafely
  <2>2. ~Known[c][1].locked
    BY ZenonT(60), <2>1, StartUnlocked
  <2>. QED  BY ZenonT(60), <1>1, <2>2 DEF Locked, KnownAt
<1>3. ASSUME NEW d \in 1..depth
      PROVE  d \in Frames /\ st'[d] = st[d] /\ call'[d] = call[d] /\ loc'[d] = loc[d]
  <2>1. d \in Frames /\ d # depth + 1
    BY DepthType
  <2>. QED  BY ZenonT(60), <2>1, FrameType DEF Call, Push
<1>4. ASSUME NEW d \in 1..depth
      PROVE  Locked(d)' <=> Locked(d)
  BY ZenonT(60), <1>3 DEF Locked, KnownAt
<1>5. ASSUME OnBehalf(n)'
      PROVE  ~MaskChanging(call'[n])
  <2>1. PICK b \in 1..(n - 1) : st'[b] = "call" /\ \A g \in b..n : st'[g] \notin Interrupts
    BY ZenonT(60), <1>5 DEF OnBehalf
  <2>2. b \in 1..depth /\ \A g \in b..depth : g \in b..n /\ g \in 1..depth
    BY <1>0, DepthType
  <2>3. HelperContext
    BY <1>3, <2>1, <2>2 DEF HelperContext, Interrupts
  <2>4. c \in HelperCalls
    BY ZenonT(60), <2>3 DEF Call
  <2>. QED  BY ZenonT(60), <1>1, <2>4, HelperAssumption DEF MaskChanging
<1>6. st'[n] \notin {"run", "clear"} /\ st'[n] \notin Interrupts
  BY ZenonT(60), <1>1 DEF Interrupts
<1>. QED  BY ZenonT(60), <1>0, <1>1, <1>2, <1>3, <1>4, <1>5, <1>6, MaskPush

(* The kernel starts a handler: the mask it will restore is the mask of    *)
(* the interrupted frame.                                                  *)
LEMMA DeliverMask ==
    ASSUME TypeOK, MaskInv, NEW z, NEW m, Deliver(z, m)
    PROVE  MaskInv'
<1>. USE ConstantsAssumption
<1>0. PICK n \in Nat : n = depth + 1
  BY DepthType
<1>1. depth < MaxDepth /\ n \in Frames /\ \A d \in 1..depth : d \in Frames /\ d # n
  BY <1>0, DepthType DEF Deliver, Room
<1>2. /\ depth' = n /\ UNCHANGED <<call, loc>> /\ st'[n] = "handler" /\ set'[n] = mask
      /\ entry' = [entry EXCEPT ![n] = mask]
      /\ \A d \in 1..depth : st'[d] = st[d] /\ set'[d] = set[d]
  BY ZenonT(60), <1>0, <1>1, FrameType DEF Deliver
<1>3. ASSUME NEW d \in 1..depth
      PROVE  Locked(d)' <=> Locked(d)
  BY ZenonT(60), <1>2 DEF Locked, KnownAt
<1>4. st'[n] \in Interrupts /\ st'[n] \notin {"run", "clear"} /\ ~Locked(n)' /\ st'[n] # "call"
  BY ZenonT(60), <1>2 DEF Interrupts, Locked
<1>. QED  BY ZenonT(60), <1>0, <1>1, <1>2, <1>3, <1>4, MaskPush

(* The steps of wasmjit_invoke_function and of the handler that push       *)
(* nothing.                                                                *)
LEMMA InvokeLocalMask ==
    ASSUME TypeOK, MaskInv, InvokeTest \/ InvokeSet \/ HandlerSkip
    PROVE  MaskInv'
<1>. USE ConstantsAssumption
<1>0. PICK n \in Nat : n = depth
  BY ZenonT(60), DepthType
<1>1. /\ n > 0 /\ n \in Frames /\ UNCHANGED <<depth, call, loc, set, mask, entry>>
      /\ \/ st[n] = "test" /\ st' = [st EXCEPT ![n] = "set"]
         \/ st[n] = "set" /\ st' = [st EXCEPT ![n] = "save"]
         \/ st[n] = "handler" /\ st' = [st EXCEPT ![n] = "sigreturn"]
  BY <1>0, DepthType DEF InvokeTest, InvokeSet, HandlerSkip, Running, sigVars
<1>2. \A d \in 1..n : d # n => st'[d] = st[d]
  <2>1. \A d \in 1..n : d \in Frames
    BY <1>0, DepthType
  <2>. QED  BY ZenonT(60), <1>1, <2>1, FrameType
<1>3. /\ st'[n] # "call" /\ st[n] # "call" /\ (st'[n] \in Interrupts <=> st[n] \in Interrupts)
      /\ st'[n] \notin {"run", "clear"}
  BY ZenonT(60), <1>1, FrameType DEF Interrupts
<1>4. FrameMask(n)'
  <2>1. FrameMask(n)
    BY <1>0, <1>1 DEF MaskInv
  <2>2. Locked(n)' <=> Locked(n)
    BY ZenonT(60), <1>3 DEF Locked
  <2>3. OnBehalf(n)' => OnBehalf(n)
    <3>1. \A g \in 1..n : /\ st'[g] = "call" => st[g] = "call"
                          /\ st[g] \in Interrupts => st'[g] \in Interrupts
      BY ZenonT(60), <1>2, <1>3
    <3>. QED  BY ZenonT(60), <3>1, BehalfKept
  <2>4. MaskAt(n)' = MaskAt(n)
    BY ZenonT(60), <1>1 DEF MaskAt
  <2>. QED  BY ZenonT(60), <1>1, <1>3, <2>1, <2>2, <2>3, <2>4, MaskFrameKept
<1>. QED  BY ZenonT(60), <1>0, <1>1, <1>2, <1>4, MaskLocal

(* An operation of a host function that changes no mask.                   *)
LEMMA MoveMask ==
    ASSUME TypeOK, AllDisciplined, MaskInv, Running("call"),
           UNCHANGED <<depth, st, call, set, mask, entry>>, Next1 \/ Error,
           Code[call[depth]][loc[depth]].op \notin {"block", "unblock", "abort", "return"},
           Code[call[depth]][loc[depth]].op = "goto" => Error
    PROVE  MaskInv'
<1>. USE ConstantsAssumption
<1>0. PICK n \in Nat : n = depth
  BY ZenonT(60), DepthType
<1>1. n \in Frames /\ n > 0 /\ st[n] = "call" /\ n \in 1..depth
  BY <1>0, DepthType DEF Running
<1>2. Locked(n)' <=> Locked(n)
  <2>1. CASE Next1 /\ ~Error
    <3>1. Falls(Code[call[depth]][loc[depth]])
      BY ZenonT(60), <2>1 DEF Falls
    <3>2. Implies(After(Code[call[depth]][loc[depth]], KnownAt(depth)), KnownAt(depth)')
      BY ZenonT(60), <2>1, <3>1, KnownNext
    <3>. QED  BY ZenonT(60), <1>0, <3>2 DEF Implies, After, LockedAfter, Locked
  <2>2. CASE Error
    <3>1. Implies(KnownAt(depth), KnownAt(depth)')
      BY ZenonT(60), <2>2, KnownError
    <3>. QED  BY ZenonT(60), <1>0, <3>1 DEF Implies, Locked
  <2>. QED  BY ZenonT(60), <2>1, <2>2
<1>3. \A d \in 1..n : d # n => loc'[d] = loc[d]
  <2>1. \A d \in 1..n : d \in Frames
    BY <1>0, DepthType
  <2>. QED  BY ZenonT(60), <1>0, <2>1, FrameType DEF Next1, Error, Goto
<1>4. FrameMask(n)'
  <2>1. FrameMask(n)
    BY ZenonT(60), <1>1 DEF MaskInv
  <2>2. (OnBehalf(n)' => OnBehalf(n)) /\ MaskAt(n)' = MaskAt(n)
    BY ZenonT(60) DEF OnBehalf, MaskAt
  <2>. QED  BY ZenonT(60), <1>2, <2>1, <2>2, MaskFrameKept
<1>. QED  BY ZenonT(60), <1>0, <1>1, <1>3, <1>4, MaskLocal

(* block_signals, unblock_signals and the host's sigprocmask.              *)
LEMMA MaskOps ==
    ASSUME TypeOK, AllDisciplined, MaskInv, MaskStep
    PROVE  MaskInv'
<1>. USE ConstantsAssumption
<1>. DEFINE i == Code[call[depth]][loc[depth]]
<1>0. PICK n \in Nat : n = depth
  BY ZenonT(60), DepthType
<1>1. /\ Running("call") /\ UNCHANGED <<depth, st, call, entry>> /\ (Next1 \/ Error)
      /\ i.op \in {"block", "unblock", "unblock_uninit", "sigprocmask"}
      /\ i.op = "block" => Next1 /\ set' = [set EXCEPT ![depth] = mask]
      /\ i.op = "unblock" => Next1 /\ mask' = set[depth]
      /\ i.op # "block" => set' = set
  BY ZenonT(60) DEF MaskStep, BlockSignals, UnblockSignals, UnblockUninit, SigProcMask, At
<1>2. n \in Frames /\ n > 0 /\ st[n] = "call" /\ n \in 1..depth /\ FrameMask(n)
  BY <1>0, <1>1, DepthType DEF Running, MaskInv
<1>3. /\ Safe(i, KnownAt(depth)) /\ call[depth] \in Calls /\ loc[depth] \in DOMAIN Code[call[depth]]
  <2>1. Running("call")
    BY ZenonT(60), <1>1
  <2>. QED  BY ZenonT(60), <2>1, OpFacts
<1>4. \A d \in 1..n : d # n => loc'[d] = loc[d] /\ set'[d] = set[d]
  <2>1. \A d \in 1..n : d \in Frames
    BY <1>0, DepthType
  <2>. QED  BY ZenonT(60), <1>0, <1>1, <2>1, FrameType DEF Next1, Error, Goto
<1>5. (OnBehalf(n)' <=> OnBehalf(n)) /\ MaskAt(n)' = mask' /\ MaskAt(n) = mask
  BY ZenonT(60), <1>0, <1>1 DEF OnBehalf, MaskAt
<1>6. st'[n] = "call" /\ st'[n] \notin Interrupts /\ st'[n] \notin {"run", "clear"}
  BY ZenonT(60), <1>1, <1>2 DEF Interrupts
<1>7. ASSUME i.op \in {"block", "unblock"}
      PROVE  Locked(n)' <=> i.op = "block"
  <2>1. Falls(i) /\ Next1
    BY ZenonT(60), <1>1, <1>7 DEF Falls
  <2>2. Implies(After(i, KnownAt(depth)), KnownAt(depth)')
    BY ZenonT(60), <1>1, <2>1, KnownNext
  <2>3. LockedAfter(i, KnownAt(depth)) <=> i.op = "block"
    BY ZenonT(60), <1>7 DEF LockedAfter
  <2>4. KnownAt(depth)'.locked = LockedAfter(i, KnownAt(depth))
    BY ZenonT(60), <2>2 DEF Implies, After
  <2>5. KnownAt(n)' = KnownAt(depth)'
    BY ZenonT(60), <1>0, <1>1
  <2>. QED  BY ZenonT(60), <1>6, <2>3, <2>4, <2>5 DEF Locked
<1>8. FrameMask(n)'
  <2>1. CASE i.op = "block"
    <3>1. Locked(n)' /\ ~Locked(n) /\ set'[n] = mask
      BY ZenonT(60), <1>0, <1>1, <1>2, <1>3, <1>7, <2>1, FrameType DEF Safe, Locked
    <3>2. ~MaskChanging(call[n]) => mask = entry[n]
      BY ZenonT(60), <1>2, <1>5, <3>1 DEF FrameMask, Steady
    <3>. QED  BY ZenonT(60), <1>1, <1>2, <1>5, <1>6, <3>1, <3>2 DEF FrameMask, Saved, Steady, MaskChanging
  <2>2. CASE i.op = "unblock"
    <3>1. ~Locked(n)' /\ Locked(n) /\ mask' = set[n] /\ set' = set
      <4>1. i.op # "block"
        BY ZenonT(60), <2>2
      <4>. QED  BY ZenonT(60), <1>0, <1>1, <1>2, <1>3, <1>7, <2>2, <4>1 DEF Safe, Locked
    <3>2. ~MaskChanging(call[n]) => mask' = entry[n]
      BY ZenonT(60), <1>2, <3>1 DEF FrameMask, Saved
    <3>. QED  BY ZenonT(60), <1>1, <1>2, <1>5, <1>6, <3>1, <3>2 DEF FrameMask, Saved, Steady, MaskChanging
  <2>3. CASE i.op = "sigprocmask"
    <3>1. MaskChanging(call[n]) /\ ~OnBehalf(n)
      BY ZenonT(60), <1>0, <1>2, <1>3, <2>3 DEF MaskChanging, FrameMask
    <3>. QED  BY ZenonT(60), <1>1, <1>5, <1>6, <3>1 DEF FrameMask, Saved, Steady, MaskChanging
  <2>4. CASE i.op = "unblock_uninit"
    BY ZenonT(60), <1>3, <2>4 DEF Safe
  <2>. QED  BY ZenonT(60), <1>1, <2>1, <2>2, <2>3, <2>4
<1>. QED  BY ZenonT(60), <1>0, <1>1, <1>2, <1>4, <1>8, MaskLocal

(* Every step keeps MaskInv.                                               *)
LEMMA MaskInvStep ==
    ASSUME TypeOK, JmpInv, AllDisciplined, MaskInv, [Next]_vars
    PROVE  MaskInv'
<1>1. CASE InvokeMain \/ StackAlloc \/ HandlerInvoke \/ InvokeRaw \/ InvokeSave \/ InvokeHelper
  BY ZenonT(60), <1>1, InvokePushMask
<1>2. CASE \E c \in Calls : Call(c)
  BY ZenonT(60), <1>2, CallMask
<1>3. CASE \E z \in Signals, m \in SUBSET Signals : Deliver(z, m)
  BY ZenonT(60), <1>3, DeliverMask
<1>4. CASE InvokeTest \/ InvokeSet \/ HandlerSkip
  BY ZenonT(60), <1>4, InvokeLocalMask
<1>5. CASE InvokeClear \/ InvokeReturn \/ WasmReturn
  <2>1. depth > 0 /\ Pop /\ UNCHANGED mask /\ st[depth] \in {"clear", "raw", "wasm"}
    BY ZenonT(60), <1>5 DEF InvokeClear, InvokeReturn, WasmReturn, Running, sigVars
  <2>2. st[depth] \notin Interrupts /\ ~Locked(depth)
    BY ZenonT(60), <2>1 DEF Interrupts, Locked
  <2>. QED  BY ZenonT(60), <2>1, <2>2, MaskPop
<1>6. CASE Return
  <2>1. Running("call") /\ ~Locked(depth) /\ Pop /\ UNCHANGED mask
    BY ZenonT(60), <1>6, ReturnsUnlocked DEF Return, sigVars
  <2>2. depth > 0 /\ st[depth] \notin Interrupts
    BY ZenonT(60), <2>1 DEF Running, Interrupts
  <2>. QED  BY ZenonT(60), <2>1, <2>2, MaskPop
<1>7. CASE SigReturn
  BY ZenonT(60), <1>7, SigReturnMask
<1>8. CASE WasmTrap \/ Abort
  BY ZenonT(60), <1>8, TrapMask DEF WasmTrap, Abort
<1>9. CASE MaskStep
  BY ZenonT(60), <1>9, MaskOps
<1>10. CASE HeapStep \/ Jump \/ Proceed("branch") \/ Proceed("libc") \/ Proceed("sys") \/ Exec
  <2>1. /\ Running("call") /\ UNCHANGED <<depth, st, call, set, mask>>
        /\ Code[call[depth]][loc[depth]].op
             \in {"alloc", "free", "add", "remove", "goto", "branch", "libc", "sys", "exec"}
        /\ Next1 \/ Error
        /\ Code[call[depth]][loc[depth]].op = "goto" => Error
    BY ZenonT(60), <1>10, Moves
  <2>2. UNCHANGED entry
    BY ZenonT(60), <1>10 DEF HeapStep, Alloc, Free, AddUnfreed, AddUnfreedFails, RemoveUnfreed, Jump, Proceed, Exec
  <2>3. Code[call[depth]][loc[depth]].op \notin {"block", "unblock", "abort", "return"}
    BY ZenonT(60), <2>1
  <2>. QED  BY ZenonT(60), <2>1, <2>2, <2>3, MoveMask
<1>11. CASE UNCHANGED <<st, depth, call, loc, set, mask, entry>>
  BY ZenonT(60), <1>11, SameMask
<1>. QED
  BY ZenonT(60), <1>1, <1>2, <1>3, <1>4, <1>5, <1>6, <1>7, <1>8, <1>9, <1>10, <1>11
     DEF Next, InvokeStep, SignalStep, CallStep, Kill, Ended, frameVars, sigVars, vars

(* A host function that does not mean to change the mask returns to        *)
(* WebAssembly with the mask it was called with: whatever handlers, traps  *)
(* and nested host functions ran meanwhile, _wasmjit_unblock_signals finds *)
(* the mask of the call in set.                                            *)
THEOREM MaskAlwaysRestored ==
    ASSUME AllDisciplined
    PROVE  Spec => MaskRestored
<1>. DEFINE I == TypeOK /\ JmpInv /\ MaskInv
<1>1. Init => I
  <2>. SUFFICES ASSUME Init PROVE I
    BY ZenonT(60)
  <2>1. TypeOK /\ depth = 0 /\ jmp_buf = 0
    BY ZenonT(60), TypeInit DEF Init
  <2>. QED  BY <2>1 DEF JmpInv, JmpBufLive, MaskInv
<1>2. I /\ [Next]_vars => I'
  <2>. SUFFICES ASSUME I, [Next]_vars PROVE I'
    BY ZenonT(60)
  <2>1. CASE Next
    BY ZenonT(60), <2>1, TypeStep, JmpStep, MaskInvStep DEF JmpInv
  <2>2. CASE UNCHANGED vars
    <3>1. (TypeOK /\ JmpInv)'
      BY ZenonT(60), <2>2 DEF vars, frameVars, sigVars, heapVars, TypeOK, JmpInv, JmpBufLive
    <3>. QED  BY ZenonT(60), <3>1, MaskInvStep
  <2>. QED  BY ZenonT(60), <2>1, <2>2
<1>3. I /\ [Next]_vars => [Return => MaskChanging(call[depth]) \/ mask = entry[depth]]_vars
  <2>. SUFFICES ASSUME I, Return, ~MaskChanging(call[depth])
                PROVE  mask = entry[depth]
    BY ZenonT(60)
  <2>1. st[depth] = "call" /\ ~Locked(depth) /\ FrameMask(depth)
    BY ZenonT(60), ReturnsUnlocked DEF MaskInv, Running
  <2>. QED  BY ZenonT(60), <2>1 DEF FrameMask, Steady, MaskAt
<1>. QED  BY <1>1, <1>2, <1>3, PTL DEF Spec, MaskRestored

-----------------------------------------------------------------------------
(***************************************************************************)
(* The facts inferred for each location hold of every frame that is there: *)
(* which buffers are null, which are recorded, and which indices are       *)
(* unset.  With them no heap buffer is lost, freed twice or recorded       *)
(* twice, and no libc function is interrupted.                             *)
(***************************************************************************)

(* The facts inferred for each location hold.  Frames that are no calls    *)
(* hold no buffer.                                                         *)
Recorded(d) == \A b \in Bufs : buf[d][b] = NULL \/ idx[d][b] # 0
Clean ==
    \A d \in Frames : d > depth \/ st[d] # "call" =>
        \A b \in Bufs : buf[d][b] = NULL /\ idx[d][b] = 0
FactsInv == FactsHold /\ Clean

(* known holds of the buffers of frame d.                                  *)
FactsOf(d, known) ==
    \A b \in Bufs :
        /\ b \in known.null => buf[d][b] = NULL
        /\ b \in known.rec => buf[d][b] = NULL \/ idx[d][b] # 0
        /\ b \in known.off => idx[d][b] = 0

(* Facts that hold where more is known hold where less is claimed.         *)
LEMMA FactsWeaken ==
    ASSUME NEW d, NEW a, NEW k, FactsOf(d, a), Implies(a, k)
    PROVE  FactsOf(d, k)
BY ZenonT(60) DEF FactsOf, Implies

(* The facts of the remaining frames when frames are dropped by a return   *)
(* or a trap.                                                              *)
LEMMA FactsCut ==
    ASSUME TypeOK, FactsInv, NEW t \in 0..MaxDepth, t <= depth, NEW s, CutTo(t, s),
           t > 0 => s = st[t] \/ (s # "call" /\ st[t] # "call")
    PROVE  FactsInv'
<1>. USE ConstantsAssumption
<1>1. depth' = t
  BY ZenonT(60) DEF CutTo
<1>2. ASSUME NEW d \in 1..t
      PROVE  /\ d \in Frames /\ d \in 1..depth /\ (d < t => d < depth)
             /\ call'[d] = call[d] /\ loc'[d] = loc[d] /\ buf'[d] = buf[d] /\ idx'[d] = idx[d]
             /\ st'[d] = "call" <=> st[d] = "call"
  <2>1. depth \in Nat /\ t \in Nat
    BY DepthType
  <2>2. d \in Frames /\ d \in 1..depth /\ ~(d > t) /\ (d < t => d < depth)
    BY <2>1
  <2>3. /\ call'[d] = call[d] /\ loc'[d] = loc[d] /\ buf'[d] = buf[d] /\ idx'[d] = idx[d]
        /\ st'[d] = IF d = t THEN s ELSE st[d]
    BY ZenonT(60), <2>2 DEF CutTo
  <2>. QED  BY <2>1, <2>2, <2>3
<1>3. FactsHold'
  <2>1. ASSUME NEW d \in 1..t, st'[d] = "call"
        PROVE  /\ \A b \in Bufs :
                  /\ b \in KnownAt(d)'.null => buf'[d][b] = NULL
                  /\ b \in KnownAt(d)'.rec => buf'[d][b] = NULL \/ idx'[d][b] # 0
                  /\ b \in KnownAt(d)'.off => idx'[d][b] = 0
               /\ d < t => \A b \in Bufs : buf'[d][b] = NULL \/ idx'[d][b] # 0
    <3>1. /\ d \in 1..depth /\ (d < t => d < depth) /\ st[d] = "call"
          /\ KnownAt(d)' = KnownAt(d) /\ buf'[d] = buf[d] /\ idx'[d] = idx[d]
      BY ZenonT(60), <1>2, <2>1 DEF KnownAt
    <3>. QED  BY ZenonT(60), <3>1 DEF FactsInv, FactsHold
  <2>. QED  BY ZenonT(60), <1>1, <2>1 DEF FactsHold
<1>4. ASSUME NEW d \in Frames, d > t \/ st'[d] # "call", NEW b \in Bufs
      PROVE  buf'[d][b] = NULL /\ idx'[d][b] = 0
  <2>1. CASE d > t
    BY ZenonT(60), <2>1 DEF CutTo
  <2>2. CASE ~(d > t)
    <3>1. d \in 1..t
      BY <2>2
    <3>2. st[d] # "call"
      BY ZenonT(60), <3>1, <2>2, <1>2, <1>4
    <3>. QED  BY <3>1, <3>2, <1>2 DEF FactsInv, Clean
  <2>. QED  BY ZenonT(60), <2>1, <2>2
<1>. QED  BY ZenonT(60), <1>1, <1>3, <1>4 DEF FactsInv, Clean

(* The facts of all frames when a frame is pushed: the caller must have    *)
(* recorded what it holds.                                                 *)
LEMMA FactsPush ==
    ASSUME TypeOK, FactsInv, depth < MaxDepth, depth' = depth + 1, UNCHANGED <<buf, idx>>,
           \A d \in Frames : d # depth + 1 => (st'[d] = "call" <=> st[d] = "call"),
           \A d \in 1..depth : st[d] = "call" =>
              /\ call'[d] = call[d]
              /\ d # depth => loc'[d] = loc[d]
              /\ d = depth => /\ Recorded(d)
                              /\ FactsOf(d, Known[call'[d]][loc'[d]])
    PROVE  FactsInv'
<1>. USE ConstantsAssumption
<1>1. \A d \in Frames : d > depth' => d > depth /\ d # depth + 1
  BY DepthType
<1>2. \A d \in Frames : (d > depth' \/ st'[d] # "call") => (d > depth \/ st[d] # "call")
  BY <1>1, DepthType
<1>3. Clean'
  BY ZenonT(60), <1>2 DEF FactsInv, Clean
<1>4. ASSUME NEW d \in 1..depth', st'[d] = "call"
      PROVE  /\ FactsOf(d, Known[call'[d]][loc'[d]])
             /\ d < depth' => Recorded(d)
  <2>0. d \in Frames
    BY DepthType
  <2>1. CASE d = depth + 1
    <3>1. d > depth /\ ~(d < depth')
      BY <2>1, DepthType
    <3>. QED  BY ZenonT(60), <3>1, <2>0 DEF FactsInv, Clean, FactsOf
  <2>2. CASE d = depth
    <3>1. d \in 1..depth /\ d # depth + 1
      BY <2>2
    <3>. QED  BY ZenonT(60), <2>2, <3>1, <2>0, <1>4
  <2>3. CASE d # depth /\ d # depth + 1
    <3>1. d \in 1..depth /\ d < depth
      BY <2>3, DepthType
    <3>2. st[d] = "call" /\ call'[d] = call[d] /\ loc'[d] = loc[d]
      BY ZenonT(60), <2>3, <3>1, <2>0, <1>4
    <3>. QED  BY ZenonT(60), <3>1, <3>2 DEF FactsInv, FactsHold, KnownAt, FactsOf, Recorded
  <2>. QED  BY ZenonT(60), <2>1, <2>2, <2>3
<1>5. FactsHold'
  <2>1. ASSUME NEW d \in 1..depth', st'[d] = "call"
        PROVE  /\ \A b \in Bufs :
                  /\ b \in KnownAt(d)'.null => buf'[d][b] = NULL
                  /\ b \in KnownAt(d)'.rec => buf'[d][b] = NULL \/ idx'[d][b] # 0
                  /\ b \in KnownAt(d)'.off => idx'[d][b] = 0
               /\ d < depth' => \A b \in Bufs : buf'[d][b] = NULL \/ idx'[d][b] # 0
    BY ZenonT(60), <2>1, <1>4 DEF KnownAt, FactsOf, Recorded
  <2>. QED  BY ZenonT(60), <2>1 DEF FactsHold
<1>. QED  BY ZenonT(60), <1>3, <1>5 DEF FactsInv

(* The top frame executes an operation.                                    *)
LEMMA FactsLocal ==
    ASSUME TypeOK, FactsInv, depth > 0, UNCHANGED <<depth, call>>,
           st'[depth] = "call" <=> st[depth] = "call",
           \A d \in Frames : d # depth =>
              loc'[d] = loc[d] /\ st'[d] = st[d] /\ buf'[d] = buf[d] /\ idx'[d] = idx[d],
           st[depth] # "call" => buf'[depth] = buf[depth] /\ idx'[depth] = idx[depth],
           st[depth] = "call" =>
              \A b \in Bufs :
                 /\ b \in Known[call[depth]][loc'[depth]].null => buf'[depth][b] = NULL
                 /\ b \in Known[call[depth]][loc'[depth]].rec => buf'[depth][b] = NULL \/ idx'[depth][b] # 0
                 /\ b \in Known[call[depth]][loc'[depth]].off => idx'[depth][b] = 0
    PROVE  FactsInv'
<1>. USE ConstantsAssumption
<1>1. \A d \in 1..depth : d \in Frames /\ (d # depth <=> d < depth) /\ ~(d > depth)
  BY ZenonT(60), BelowTop
<1>2. ASSUME NEW d \in Frames, d > depth' \/ st'[d] # "call", NEW b \in Bufs
      PROVE  buf'[d][b] = NULL /\ idx'[d][b] = 0
  <2>1. (d > depth \/ st[d] # "call") /\ buf'[d] = buf[d] /\ idx'[d] = idx[d]
    <3>1. CASE d = depth
      <4>1. ~(d > depth')
        BY ZenonT(60), <3>1, NotAboveItself
      <4>. QED  BY ZenonT(60), <3>1, <4>1, <1>2
    <3>2. CASE d # depth
      BY ZenonT(60), <3>2, <1>2
    <3>. QED  BY ZenonT(60), <3>1, <3>2
  <2>. QED  BY <2>1 DEF FactsInv, Clean
<1>3. ASSUME NEW d \in 1..depth, st'[d] = "call", d # depth
      PROVE  /\ st[d] = "call" /\ d < depth /\ loc'[d] = loc[d] /\ buf'[d] = buf[d] /\ idx'[d] = idx[d]
             /\ FactsOf(d, KnownAt(d)) /\ Recorded(d)
  <2>1. st[d] = "call" /\ d < depth /\ loc'[d] = loc[d] /\ buf'[d] = buf[d] /\ idx'[d] = idx[d]
    BY ZenonT(60), <1>1, <1>3
  <2>. QED  BY ZenonT(60), <2>1 DEF FactsInv, FactsHold, FactsOf, Recorded
<1>4. ASSUME NEW d \in 1..depth, st'[d] = "call"
      PROVE  \A b \in Bufs :
               /\ b \in Known[call'[d]][loc'[d]].null => buf'[d][b] = NULL
               /\ b \in Known[call'[d]][loc'[d]].rec => buf'[d][b] = NULL \/ idx'[d][b] # 0
               /\ b \in Known[call'[d]][loc'[d]].off => idx'[d][b] = 0
  <2>1. CASE d = depth
    BY ZenonT(60), <2>1, <1>4
  <2>2. CASE d # depth
    <3>1. /\ FactsOf(d, KnownAt(d)) /\ loc'[d] = loc[d] /\ buf'[d] = buf[d] /\ idx'[d] = idx[d]
          /\ call'[d] = call[d]
      BY ZenonT(60), <2>2, <1>3, <1>4
    <3>. QED  BY ZenonT(60), <3>1 DEF FactsOf, KnownAt
  <2>. QED  BY ZenonT(60), <2>1, <2>2
<1>5. ASSUME NEW d \in 1..depth, st'[d] = "call", d < depth
      PROVE  \A b \in Bufs : buf'[d][b] = NULL \/ idx'[d][b] # 0
  <2>1. d # depth
    BY ZenonT(60), <1>1, <1>5
  <2>. QED  BY ZenonT(60), <2>1, <1>3, <1>5 DEF Recorded
<1>6. FactsHold'
  BY ZenonT(60), <1>4, <1>5 DEF FactsHold, KnownAt
<1>7. Clean'
  BY ZenonT(60), <1>2 DEF Clean
<1>. QED  BY ZenonT(60), <1>6, <1>7 DEF FactsInv

(* A step that touches none of what the facts are about.                   *)
LEMMA SameFacts ==
    ASSUME FactsInv, UNCHANGED <<st, depth, call, loc, buf, idx>>
    PROVE  FactsInv'
<1>1. FactsHold'
  <2>1. ASSUME NEW d \in 1..depth PROVE KnownAt(d)' = KnownAt(d)
    BY ZenonT(60) DEF KnownAt
  <2>. QED  BY ZenonT(60), <2>1 DEF FactsInv, FactsHold
<1>2. Clean'
  BY ZenonT(60) DEF FactsInv, Clean
<1>. QED  BY ZenonT(60), <1>1, <1>2 DEF FactsInv

(* A running call frame is the top frame.                                  *)
LEMMA TopFrame ==
    ASSUME TypeOK, Running("call")
    PROVE  depth \in 1..depth /\ depth \in Frames /\ st[depth] = "call" /\ depth > 0
BY ConstantsAssumption, DepthType DEF Running

(* A frame that may lose control has recorded whatever it holds.           *)
LEMMA TopRecorded ==
    ASSUME TypeOK, FactsInv, AllDisciplined, Running("call"),
           KnownAt(depth).rec = Bufs
    PROVE  Recorded(depth)
<1>1. depth \in 1..depth /\ st[depth] = "call"
  BY DepthType DEF Running
<1>. QED  BY ZenonT(60), <1>1 DEF FactsInv, FactsHold, Recorded

(* The facts of the top frame once it took operation i to its next         *)
(* location or to its error path, with buffers and indices unchanged.      *)
LEMMA TopFacts ==
    ASSUME TypeOK, FactsInv, AllDisciplined, Running("call"), UNCHANGED <<depth, st, call, buf, idx>>,
           Next1 \/ Error,
           Code[call[depth]][loc[depth]].op \notin {"abort", "return", "remove"},
           Code[call[depth]][loc[depth]].op \in {"goto", "add", "alloc", "free"} => Error
    PROVE  FactsInv'
<1>. DEFINE i == Code[call[depth]][loc[depth]]
            a == KnownAt(depth)
            k == Known[call[depth]][loc'[depth]]
<1>1. depth \in 1..depth /\ depth \in Frames /\ st[depth] = "call" /\ depth > 0
  BY ZenonT(60), TopFrame
<1>2. FactsOf(depth, a)
  BY ZenonT(60), <1>1 DEF FactsInv, FactsHold, FactsOf
<1>3. k = KnownAt(depth)'
  BY ZenonT(60) DEF KnownAt
<1>4. k.null \subseteq a.null /\ k.rec \subseteq a.rec /\ k.off \subseteq a.off
  <2>1. CASE Error
    BY ZenonT(60), <2>1, <1>3, KnownError DEF Implies
  <2>2. CASE Next1 /\ ~Error
    <3>1. Falls(i) /\ i.op \notin {"add", "alloc", "free", "remove"}
      BY ZenonT(60), <2>2 DEF Falls
    <3>2. Implies(After(i, a), k)
      BY ZenonT(60), <2>2, <3>1, <1>3, KnownNext
    <3>. QED  BY ZenonT(60), <3>1, <3>2 DEF Implies, After, NullAfter, RecAfter, OffAfter
  <2>. QED  BY ZenonT(60), <2>1, <2>2
<1>5. \E l : Goto(l)
  BY ZenonT(60) DEF Next1, Error
<1>6. \A d \in Frames : d # depth => loc'[d] = loc[d]
  BY <1>5, <1>1 DEF Goto
<1>. HIDE DEF a
<1>7. \A b \in Bufs :
        /\ b \in k.null => buf'[depth][b] = NULL
        /\ b \in k.rec => buf'[depth][b] = NULL \/ idx'[depth][b] # 0
        /\ b \in k.off => idx'[depth][b] = 0
  BY ZenonT(60), <1>2, <1>4 DEF FactsOf
<1>. QED  BY ZenonT(60), <1>1, <1>6, <1>7, FactsLocal

(* The facts of the top frame once it allocated, freed, recorded or        *)
(* removed one of its buffers.                                             *)
LEMMA TopHeapFacts ==
    ASSUME TypeOK, FactsInv, AllDisciplined, LockHeld, Running("call"), Next1,
           UNCHANGED <<depth, st, call>>,
           NEW x \in Bufs, x = Code[call[depth]][loc[depth]].arg,
           Code[call[depth]][loc[depth]].op \in {"alloc", "free", "add", "remove"},
           \A d \in Frames : d # depth => buf'[d] = buf[d] /\ idx'[d] = idx[d],
           \A b \in Bufs \ {x} : buf'[depth][b] = buf[depth][b] /\ idx'[depth][b] = idx[depth][b],
           LET i == Code[call[depth]][loc[depth]] IN
           /\ i.op = "alloc" => idx'[depth][x] = idx[depth][x]
           /\ i.op = "free" => buf'[depth][x] = NULL /\ idx'[depth][x] = idx[depth][x]
           /\ i.op = "add" => buf'[depth][x] = buf[depth][x] /\ idx'[depth][x] # 0
           /\ i.op = "remove" => buf'[depth][x] = buf[depth][x] /\ idx'[depth][x] = 0
    PROVE  FactsInv'
<1>. DEFINE i == Code[call[depth]][loc[depth]]
            a == KnownAt(depth)
            k == Known[call[depth]][loc'[depth]]
<1>1. depth \in 1..depth /\ depth \in Frames /\ st[depth] = "call" /\ depth > 0
  BY ZenonT(60), TopFrame
<1>2. FactsOf(depth, a)
  BY ZenonT(60), <1>1 DEF FactsInv, FactsHold, FactsOf
<1>3. Implies(After(i, a), k)
  <2>1. Falls(i)
    BY ZenonT(60) DEF Falls
  <2>. QED  BY ZenonT(60), <2>1, KnownNext DEF KnownAt
<1>4. \A d \in Frames : d # depth => loc'[d] = loc[d]
  BY ZenonT(60), <1>1 DEF Next1, Goto, TypeOK
<1>. HIDE DEF a, k
<1>5. ASSUME NEW b \in Bufs
      PROVE  /\ b \in k.null => buf'[depth][b] = NULL
             /\ b \in k.rec => buf'[depth][b] = NULL \/ idx'[depth][b] # 0
             /\ b \in k.off => idx'[depth][b] = 0
  <2>1. /\ k.null \subseteq NullAfter(i, a) /\ k.rec \subseteq RecAfter(i, a)
        /\ k.off \subseteq OffAfter(i, a)
    BY ZenonT(60), <1>3 DEF Implies, After
  <2>2. /\ b \in a.null => buf[depth][b] = NULL
        /\ b \in a.rec => buf[depth][b] = NULL \/ idx[depth][b] # 0
        /\ b \in a.off => idx[depth][b] = 0
    BY ZenonT(60), <1>2 DEF FactsOf
  <2>3. CASE b # x
    BY ZenonT(60), <2>1, <2>2, <2>3 DEF NullAfter, RecAfter, OffAfter
  <2>4. CASE b = x
    <3>1. CASE i.op = "alloc"
      BY ZenonT(60), <2>1, <2>2, <2>4, <3>1 DEF NullAfter, RecAfter, OffAfter
    <3>2. CASE i.op = "free"
      BY ZenonT(60), <2>1, <2>2, <2>4, <3>2 DEF NullAfter, RecAfter, OffAfter
    <3>3. CASE i.op = "add"
      BY ZenonT(60), <2>1, <2>2, <2>4, <3>3 DEF NullAfter, RecAfter, OffAfter
    <3>4. CASE i.op = "remove"
      BY ZenonT(60), <2>1, <2>2, <2>4, <3>4 DEF NullAfter, RecAfter, OffAfter
    <3>. QED  BY ZenonT(60), <3>1, <3>2, <3>3, <3>4
  <2>. QED  BY ZenonT(60), <2>3, <2>4
<1>. QED  BY ZenonT(60), <1>1, <1>4, <1>5, FactsLocal DEF k

(* Every step keeps the facts inferred for every frame.                    *)
LEMMA FactsStep ==
    ASSUME TypeOK, JmpInv, AllDisciplined, LockHeld, FactsInv, Next
    PROVE  FactsInv'
<1>. USE ConstantsAssumption
<1>. DEFINE i == Code[call[depth]][loc[depth]]
<1>1. CASE InvokeMain \/ StackAlloc \/ HandlerInvoke \/ InvokeRaw \/ InvokeSave
           \/ \E c \in Calls : Call(c)
  <2>1. /\ depth < MaxDepth /\ depth' = depth + 1 /\ UNCHANGED <<buf, idx>>
        /\ \/ depth = 0
           \/ depth > 0 /\ st[depth] \in {"handler", "test", "save", "wasm"}
    BY ZenonT(60), <1>1 DEF InvokeMain, StackAlloc, HandlerInvoke, InvokeRaw, InvokeSave, Call, Push, Running
  <2>2. ASSUME NEW d \in Frames, d # depth + 1
        PROVE  st'[d] = "call" <=> st[d] = "call"
    <3>1. st'[d] = st[d] \/ (d = depth /\ st'[d] \in {"sigreturn", "raw", "run"})
      BY ZenonT(60), <1>1, <2>2 DEF InvokeMain, StackAlloc, HandlerInvoke, InvokeRaw, InvokeSave, Call, Push, TypeOK
    <3>2. d = depth => st[d] # "call"
      BY <2>1
    <3>. QED  BY ZenonT(60), <3>1, <3>2
  <2>3. ASSUME NEW d \in 1..depth, st[d] = "call"
        PROVE  call'[d] = call[d] /\ loc'[d] = loc[d] /\ d # depth
    <3>1. d \in Frames /\ d # depth + 1 /\ d # depth
      BY <2>1, <2>3, DepthType
    <3>. QED  BY ZenonT(60), <1>1, <3>1 DEF InvokeMain, StackAlloc, HandlerInvoke, InvokeRaw, InvokeSave, Call, TypeOK
  <2>. QED  BY ZenonT(60), <2>1, <2>2, <2>3, FactsPush
<1>2. CASE InvokeHelper
  <2>1. /\ depth < MaxDepth /\ depth' = depth + 1 /\ UNCHANGED <<buf, idx, call>> /\ Running("call")
        /\ i.op = "invoke" /\ st' = [st EXCEPT ![depth + 1] = "test"]
        /\ loc' = [loc EXCEPT ![depth] = loc[depth] + 1]
    BY ZenonT(60), <1>2 DEF InvokeHelper, Push, Next1, Goto, At
  <2>2. depth \in 1..depth /\ depth \in Frames /\ st[depth] = "call"
    BY ZenonT(60), <2>1, TopFrame
  <2>3. Safe(i, KnownAt(depth)) /\ Falls(i)
    BY ZenonT(60), <2>1, OpFacts DEF Falls
  <2>4. Implies(After(i, KnownAt(depth)), Known[call[depth]][loc[depth] + 1])
    BY ZenonT(60), <2>1, <2>3, OpFacts
  <2>5. Recorded(depth)
    BY ZenonT(60), <2>1, <2>3, TopRecorded DEF Safe
  <2>6. FactsOf(depth, KnownAt(depth))
    BY ZenonT(60), <2>2 DEF FactsInv, FactsHold, FactsOf
  <2>7. /\ Known[call[depth]][loc[depth] + 1].null \subseteq KnownAt(depth).null
        /\ Known[call[depth]][loc[depth] + 1].rec \subseteq KnownAt(depth).rec
        /\ Known[call[depth]][loc[depth] + 1].off \subseteq KnownAt(depth).off
    BY ZenonT(60), <2>1, <2>4 DEF Implies, After, NullAfter, RecAfter, OffAfter
  <2>8. FactsOf(depth, Known[call[depth]][loc[depth] + 1])
    BY ZenonT(60), <2>6, <2>7 DEF FactsOf
  <2>9. \A d \in Frames : d # depth + 1 => st'[d] = st[d]
    BY <2>1
  <2>10. /\ call' = call /\ loc'[depth] = loc[depth] + 1
         /\ \A d \in 1..depth : d # depth => loc'[d] = loc[d]
    BY <2>1, <2>2, FrameType
  <2>11. FactsOf(depth, Known[call'[depth]][loc'[depth]])
    BY ZenonT(60), <2>8, <2>10
  <2>. QED  BY ZenonT(60), <2>1, <2>5, <2>9, <2>10, <2>11, FactsPush
<1>3. CASE \E z \in Signals, m \in SUBSET Signals : Deliver(z, m)
  <2>1. /\ mask # Signals /\ depth < MaxDepth /\ depth' = depth + 1 /\ proc = "running"
        /\ UNCHANGED <<buf, idx, call, loc>> /\ st' = [st EXCEPT ![depth + 1] = "handler"]
    BY <1>3, DepthType DEF Deliver, Room
  <2>2. \A d \in Frames : d # depth + 1 => st'[d] = st[d]
    BY <2>1
  <2>3. ASSUME depth \in 1..depth, st[depth] = "call"
        PROVE  Recorded(depth) /\ FactsOf(depth, Known[call'[depth]][loc'[depth]])
    <3>1. Running("call")
      BY <2>1, <2>3 DEF Running
    <3>2. ~KnownAt(depth).locked
      BY ZenonT(60), <2>1, <2>3 DEF LockHeld, Locked
    <3>3. KnownAt(depth).rec = Bufs
      BY ZenonT(60), <3>1, <3>2, OpFacts DEF Safe
    <3>4. Recorded(depth)
      BY ZenonT(60), <3>1, <3>3, TopRecorded
    <3>5. FactsOf(depth, KnownAt(depth))
      BY ZenonT(60), <2>3 DEF FactsInv, FactsHold, FactsOf
    <3>. QED  BY ZenonT(60), <3>4, <3>5, <2>1 DEF KnownAt
  <2>. QED  BY ZenonT(60), <2>1, <2>2, <2>3, FactsPush
<1>4. CASE InvokeTest \/ InvokeSet \/ HandlerSkip
  <2>1. /\ depth > 0 /\ depth \in Frames /\ UNCHANGED <<depth, call, loc, buf, idx>>
        /\ \/ st[depth] = "test" /\ st' = [st EXCEPT ![depth] = "set"]
           \/ st[depth] = "set" /\ st' = [st EXCEPT ![depth] = "save"]
           \/ st[depth] = "handler" /\ st' = [st EXCEPT ![depth] = "sigreturn"]
    BY <1>4, DepthType DEF InvokeTest, InvokeSet, HandlerSkip, Running
  <2>2. \A d \in Frames : d # depth => st'[d] = st[d]
    BY ZenonT(60), <2>1 DEF TypeOK
  <2>3. st[depth] # "call" /\ st'[depth] # "call"
    BY ZenonT(60), <2>1, FrameType
  <2>. QED  BY ZenonT(60), <2>1, <2>2, <2>3, FactsLocal
<1>5. CASE InvokeClear \/ InvokeReturn \/ WasmReturn \/ Return
  <2>1. depth > 0 /\ Pop
    BY ZenonT(60), <1>5 DEF InvokeClear, InvokeReturn, WasmReturn, Return, At, Running
  <2>2. depth - 1 \in 0..MaxDepth /\ depth - 1 <= depth /\ CutTo(depth - 1, AfterReturn)
    BY <2>1, DepthType DEF Pop
  <2>3. depth - 1 > 0 => \/ AfterReturn = st[depth - 1]
                         \/ AfterReturn # "call" /\ st[depth - 1] # "call"
    BY <2>1 DEF AfterReturn
  <2>. QED  BY ZenonT(60), <2>2, <2>3, FactsCut
<1>6. CASE SigReturn
  <2>. DEFINE s == IF depth = 1 THEN "none" ELSE st[depth - 1]
  <2>1. depth > 0 /\ CutTo(depth - 1, s)
    BY ZenonT(60), <1>6 DEF SigReturn, Running
  <2>2. depth - 1 \in 0..MaxDepth /\ depth - 1 <= depth
    BY <2>1, DepthType
  <2>3. depth - 1 > 0 => s = st[depth - 1]
    BY <2>2
  <2>. HIDE DEF s
  <2>. QED  BY ZenonT(60), <2>1, <2>2, <2>3, FactsCut
<1>7. CASE WasmTrap \/ Abort
  <2>0. wasmjit_trap
    BY ZenonT(60), <1>7 DEF WasmTrap, Abort
  <2>1. CASE jmp_buf = 0 \/ st[jmp_buf] = "save"
    <3>1. UNCHANGED <<st, depth, call, loc, buf, idx>>
      BY ZenonT(60), <2>0, <2>1 DEF wasmjit_trap, frameVars
    <3>. QED  BY ZenonT(60), <3>1, SameFacts
  <2>2. CASE ~(jmp_buf = 0 \/ st[jmp_buf] = "save")
    <3>1. CutTo(jmp_buf, "clear")
      BY ZenonT(60), <2>0, <2>2 DEF wasmjit_trap
    <3>2. jmp_buf <= depth /\ st[jmp_buf] \in {"run", "clear"} /\ jmp_buf \in 0..MaxDepth
      BY <2>2, DepthType DEF JmpInv, JmpBufLive
    <3>. QED  BY ZenonT(60), <3>1, <3>2, FactsCut
  <2>. QED  BY ZenonT(60), <2>1, <2>2
<1>8. CASE MaskStep \/ Jump \/ Proceed("branch") \/ Proceed("libc") \/ Proceed("sys") \/ Exec
           \/ AddUnfreedFails \/ (Alloc /\ Error /\ UNCHANGED <<buf>>)
  <2>1. /\ Running("call") /\ UNCHANGED <<depth, st, call, buf, idx>>
        /\ i.op \in {"block", "unblock", "unblock_uninit", "sigprocmask", "goto", "branch", "libc",
                     "sys", "exec", "add", "alloc"}
    BY ZenonT(60), <1>8 DEF MaskStep, BlockSignals, UnblockSignals, UnblockUninit, SigProcMask, Jump, Proceed,
                Exec, AddUnfreedFails, Alloc, At
  <2>2. Next1 \/ Error
    BY ZenonT(60), <1>8 DEF MaskStep, BlockSignals, UnblockSignals, UnblockUninit, SigProcMask, Jump, Proceed,
                Exec, AddUnfreedFails
  <2>3. i.op \in {"goto", "add", "alloc"} => Error
    BY ZenonT(60), <1>8 DEF MaskStep, BlockSignals, UnblockSignals, UnblockUninit, SigProcMask, Jump, Proceed,
                Exec, AddUnfreedFails, At
  <2>4. i.op # "free" /\ i.op \notin {"abort", "return", "remove"}
    BY ZenonT(60), <2>1
  <2>. QED  BY ZenonT(60), <2>1, <2>2, <2>3, <2>4, TopFacts
<1>9. ASSUME Alloc, ~(Error /\ UNCHANGED <<buf>>)
      PROVE  FactsInv'
  <2>1. PICK p \in Ptr : buf' = [buf EXCEPT ![depth] = [buf[depth] EXCEPT ![Arg] = p]] /\ Next1
    BY ZenonT(60), <1>9 DEF Alloc
  <2>2. Running("call") /\ i.op = "alloc" /\ UNCHANGED <<depth, st, call, idx>>
    BY ZenonT(60), <1>9 DEF Alloc, At
  <2>3. Arg \in Bufs /\ Arg = i.arg /\ depth \in Frames
    BY ZenonT(60), <2>2, OpFacts, CodeAssumption DEF Arg
  <2>4. /\ \A d \in Frames : d # depth => buf'[d] = buf[d]
        /\ \A b \in Bufs \ {Arg} : buf'[depth][b] = buf[depth][b]
    BY <2>1, <2>3
  <2>. QED  BY ZenonT(60), <2>1, <2>2, <2>3, <2>4, TopHeapFacts
<1>10. CASE Free
  <2>1. /\ buf' = [buf EXCEPT ![depth] = [buf[depth] EXCEPT ![Arg] = NULL]] /\ Next1
        /\ Running("call") /\ i.op = "free" /\ UNCHANGED <<depth, st, call, idx>>
    BY ZenonT(60), <1>10 DEF Free, At
  <2>2. Arg \in Bufs /\ Arg = i.arg /\ depth \in Frames
    BY ZenonT(60), <2>1, OpFacts, CodeAssumption DEF Arg
  <2>3. /\ \A d \in Frames : d # depth => buf'[d] = buf[d]
        /\ \A b \in Bufs \ {Arg} : buf'[depth][b] = buf[depth][b]
        /\ buf'[depth][Arg] = NULL
    BY ZenonT(60), <2>1, <2>2, HeapType
  <2>. QED  BY ZenonT(60), <2>1, <2>2, <2>3, TopHeapFacts
<1>11. CASE AddUnfreed
  <2>1. Running("call") /\ i.op = "add" /\ UNCHANGED <<depth, st, call, buf>>
    BY ZenonT(60), <1>11 DEF AddUnfreed, At
  <2>2. PICK k \in Nat \ {0} : idx' = [idx EXCEPT ![depth] = [idx[depth] EXCEPT ![Arg] = k]] /\ Next1
    <3>1. CASE \E k \in 1..n_elts : Record(k)
      <4>1. PICK k \in 1..n_elts : Record(k)
        BY ZenonT(60), <3>1
      <4>2. k \in Nat \ {0}
        BY DepthType
      <4>. QED  BY ZenonT(60), <4>1, <4>2 DEF Record
    <3>2. CASE Record(n_elts + 1)
      <4>1. n_elts + 1 \in Nat \ {0}
        BY HeapType
      <4>. QED  BY ZenonT(60), <3>2, <4>1 DEF Record
    <3>. QED  BY ZenonT(60), <1>11, <3>1, <3>2 DEF AddUnfreed
  <2>3. Arg \in Bufs /\ Arg = i.arg /\ depth \in Frames
    BY ZenonT(60), <2>1, OpFacts, CodeAssumption DEF Arg
  <2>4. /\ \A d \in Frames : d # depth => idx'[d] = idx[d]
        /\ \A b \in Bufs \ {Arg} : idx'[depth][b] = idx[depth][b]
        /\ idx'[depth][Arg] # 0
    BY ZenonT(60), <2>2, <2>3, HeapType
  <2>. QED  BY ZenonT(60), <2>1, <2>2, <2>3, <2>4, TopHeapFacts
<1>12. CASE RemoveUnfreed
  <2>1. /\ idx' = [idx EXCEPT ![depth] = [idx[depth] EXCEPT ![Arg] = 0]] /\ Next1
        /\ Running("call") /\ i.op = "remove" /\ UNCHANGED <<depth, st, call, buf>>
    BY ZenonT(60), <1>12 DEF RemoveUnfreed, At
  <2>2. Arg \in Bufs /\ Arg = i.arg /\ depth \in Frames
    BY ZenonT(60), <2>1, OpFacts, CodeAssumption DEF Arg
  <2>3. /\ \A d \in Frames : d # depth => idx'[d] = idx[d]
        /\ \A b \in Bufs \ {Arg} : idx'[depth][b] = idx[depth][b]
        /\ idx'[depth][Arg] = 0
    BY ZenonT(60), <2>1, <2>2, HeapType
  <2>. QED  BY ZenonT(60), <2>1, <2>2, <2>3, TopHeapFacts
<1>13. CASE UNCHANGED <<st, depth, call, loc, buf, idx>>
  BY ZenonT(60), <1>13, SameFacts
<1>. QED
  BY ZenonT(60), <1>1, <1>2, <1>3, <1>4, <1>5, <1>6, <1>7, <1>8, <1>9, <1>10, <1>11, <1>12, <1>13
     DEF Next, InvokeStep, SignalStep, CallStep, HeapStep, Kill, Ended, frameVars, sigVars, vars

-----------------------------------------------------------------------------
(* The heap and the table of unfreed pointers.                             *)

(* The slot a frame remembers holds its buffer.                            *)
SlotsMatch ==
    \A d \in Frames, b \in Bufs : idx[d][b] # 0 =>
        /\ idx[d][b] <= n_elts
        /\ buf[d][b] # NULL
        /\ elts = "live" => unfreed[idx[d][b]] = buf[d][b]

(* Buffers held are allocated, and no two locals hold the same one.        *)
Owned ==
    \A d \in Frames, b \in Bufs : buf[d][b] # NULL =>
        /\ buf[d][b] \in heap
        /\ \A e \in Frames, c \in Bufs : buf[e][c] = buf[d][b] => e = d /\ c = b

(* Recorded pointers are allocated, are recorded once, and a frame that    *)
(* holds one remembers its slot.                                           *)
TableOwned ==
    elts = "live" =>
        \A i \in 1..n_elts : unfreed[i] # NULL =>
            /\ unfreed[i] \in heap
            /\ \A j \in 1..n_elts : unfreed[j] = unfreed[i] => j = i
            /\ \A d \in Frames, b \in Bufs : buf[d][b] = unfreed[i] => idx[d][b] = i

HeapInv == SlotsMatch /\ Owned /\ TableOwned

(* Steps that leave the heap and the table alone keep HeapInv, whatever    *)
(* frames they push or drop.                                               *)
LEMMA HeapKeep ==
    ASSUME HeapInv, UNCHANGED heapVars,
           \A d \in Frames : \/ buf'[d] = buf[d] /\ idx'[d] = idx[d]
                             \/ buf'[d] = NoBuf /\ idx'[d] = NoIdx
    PROVE  HeapInv'
<1>1. ASSUME NEW d \in Frames, NEW b \in Bufs
      PROVE  \/ buf'[d][b] = buf[d][b] /\ idx'[d][b] = idx[d][b]
             \/ buf'[d][b] = NULL /\ idx'[d][b] = 0
  OBVIOUS
<1>2. SlotsMatch'
  BY <1>1 DEF HeapInv, SlotsMatch, heapVars
<1>3. Owned'
  BY <1>1 DEF HeapInv, Owned, heapVars
<1>4. TableOwned'
  BY <1>1 DEF HeapInv, TableOwned, heapVars
<1>. QED  BY ZenonT(60), <1>2, <1>3, <1>4 DEF HeapInv

(* What the discipline gives when the top frame executes a heap operation. *)
LEMMA HeapOp ==
    ASSUME TypeOK, FactsInv, AllDisciplined, LockHeld, Running("call"),
           Code[call[depth]][loc[depth]].op \in {"alloc", "free", "add", "remove"}
    PROVE  /\ depth \in Frames /\ depth > 0 /\ Arg \in Bufs /\ mask = Signals
           /\ At("alloc") => buf[depth][Arg] = NULL
           /\ At("free") \/ At("add") => idx[depth][Arg] = 0
<1>. DEFINE i == Code[call[depth]][loc[depth]]
<1>1. depth \in 1..depth /\ depth \in Frames /\ st[depth] = "call" /\ depth > 0
  BY ZenonT(60), TopFrame
<1>2. Arg \in Bufs /\ Arg = i.arg
  <2>1. depth <= depth
    BY ZenonT(60), <1>1, DepthType, Reflexive
  <2>2. call[depth] \in Calls /\ loc[depth] \in DOMAIN Code[call[depth]]
    BY ZenonT(60), <1>1, <2>1, CallType
  <2>3. i.arg \in Bufs
    BY ZenonT(60), <2>2, CodeAssumption
  <2>. QED  BY ZenonT(60), <2>3 DEF Arg
<1>3. Safe(i, KnownAt(depth))
  BY ZenonT(60), OpFacts
<1>4. mask = Signals
  <2>1. Locked(depth)
    BY ZenonT(60), <1>1, <1>3 DEF Safe, Locked
  <2>. QED  BY ZenonT(60), <2>1, <1>1 DEF LockHeld
<1>5. FactsOf(depth, KnownAt(depth))
  BY ZenonT(60), <1>1 DEF FactsInv, FactsHold, FactsOf
<1>6. At("alloc") => Arg \in KnownAt(depth).null
  BY ZenonT(60), <1>2, <1>3 DEF Safe, At
<1>7. At("free") \/ At("add") => Arg \in KnownAt(depth).off
  BY ZenonT(60), <1>2, <1>3 DEF Safe, At
<1>. QED  BY ZenonT(60), <1>1, <1>2, <1>4, <1>5, <1>6, <1>7 DEF FactsOf

(* malloc returns a pointer no frame holds and no slot records.            *)
LEMMA AllocHeap ==
    ASSUME TypeOK, HeapInv, NEW x \in Bufs, NEW p \in Ptr \ heap, depth \in Frames,
           buf[depth][x] = NULL, heap' = heap \cup {p}, UNCHANGED <<idx, unfreed, n_elts, elts>>,
           buf' = [buf EXCEPT ![depth] = [buf[depth] EXCEPT ![x] = p]]
    PROVE  HeapInv'
<1>1. \A d \in Frames, b \in Bufs : buf'[d][b] = IF d = depth /\ b = x THEN p ELSE buf[d][b]
  BY ZenonT(60), HeapType
<1>2. p # NULL /\ idx[depth][x] = 0
  BY ZenonT(60), ConstantsAssumption DEF HeapInv, SlotsMatch
<1>3. SlotsMatch'
  BY <1>1, <1>2 DEF HeapInv, SlotsMatch
<1>4. Owned'
  <2>1. \A d \in Frames, b \in Bufs : buf[d][b] # p
    BY <1>2 DEF HeapInv, Owned
  <2>. QED  BY <1>1, <1>2, <2>1 DEF HeapInv, Owned
<1>5. TableOwned'
  BY <1>1, <1>2 DEF HeapInv, TableOwned
<1>. QED  BY ZenonT(60), <1>3, <1>4, <1>5 DEF HeapInv

(* A freed pointer was held by the top frame alone and was not recorded.   *)
LEMMA FreeHeap ==
    ASSUME TypeOK, HeapInv, NEW x \in Bufs, depth \in Frames,
           idx[depth][x] = 0, heap' = heap \ {buf[depth][x]}, UNCHANGED <<idx, unfreed, n_elts, elts>>,
           buf' = [buf EXCEPT ![depth] = [buf[depth] EXCEPT ![x] = NULL]]
    PROVE  HeapInv'
<1>1. \A d \in Frames, b \in Bufs : buf'[d][b] = IF d = depth /\ b = x THEN NULL ELSE buf[d][b]
  BY ZenonT(60), HeapType
<1>2. SlotsMatch'
  BY <1>1 DEF HeapInv, SlotsMatch
<1>3. Owned'
  BY <1>1 DEF HeapInv, Owned
<1>4. TableOwned'
  <2>1. elts = "live" => \A i \in 1..n_elts : unfreed[i] # NULL => unfreed[i] # buf[depth][x]
    <3>1. \A i \in 1..n_elts : i # 0
      OBVIOUS
    <3>. QED  BY <3>1 DEF HeapInv, TableOwned
  <2>. QED  BY <1>1, <2>1 DEF HeapInv, TableOwned
<1>. QED  BY ZenonT(60), <1>2, <1>3, <1>4 DEF HeapInv

(* The index a frame remembers is a slot number or 0.                      *)
LEMMA IdxType ==
    ASSUME TypeOK, NEW d \in Frames, NEW b \in Bufs
    PROVE  idx[d][b] \in 0..MaxSlots
<1>1. idx[d] \in [Bufs -> 0..MaxSlots]
  BY ZenonT(60), HeapType
<1>. QED  BY ZenonT(60), <1>1

(* SlotsMatch after a step, local by local.                                *)
LEMMA SlotsNext ==
    ASSUME \A d \in Frames, b \in Bufs : idx'[d][b] # 0 =>
               /\ idx'[d][b] <= n_elts' /\ buf'[d][b] # NULL
               /\ elts' = "live" => unfreed'[idx'[d][b]] = buf'[d][b]
    PROVE  SlotsMatch'
BY ZenonT(60) DEF SlotsMatch

(* A pointer is recorded in a free slot, or in the one slot gained.        *)
LEMMA AddHeap ==
    ASSUME TypeOK, HeapInv, NEW x \in Bufs, depth \in Frames,
           NEW k \in Slots, n_elts' \in 0..MaxSlots,
           \/ k \in 1..n_elts /\ unfreed[k] = NULL /\ n_elts' = n_elts
           \/ k = n_elts + 1 /\ n_elts' = n_elts + 1,
           buf[depth][x] # NULL, idx[depth][x] = 0,
           unfreed' = [unfreed EXCEPT ![k] = buf[depth][x]],
           idx' = [idx EXCEPT ![depth] = [idx[depth] EXCEPT ![x] = k]],
           UNCHANGED <<buf, heap, elts>>
    PROVE  HeapInv'
<1>. USE ConstantsAssumption
<1>1. \A d \in Frames, b \in Bufs : idx'[d][b] = IF d = depth /\ b = x THEN k ELSE idx[d][b]
  BY ZenonT(60) DEF TypeOK
<1>2. \A j \in Slots : unfreed'[j] = IF j = k THEN buf[depth][x] ELSE unfreed[j]
  BY ZenonT(60), HeapType
<1>3. k # 0 /\ k <= n_elts' /\ n_elts <= n_elts' /\ n_elts \in Nat /\ n_elts' \in Nat
  BY HeapType
<1>4. ASSUME NEW j \in 1..n_elts'
      PROVE  j \in Slots /\ j # 0 /\ (j # k => j \in 1..n_elts)
  <2>1. j \in Slots /\ j # 0
    BY <1>3
  <2>2. j # k => j \in 1..n_elts
    BY <1>3
  <2>. QED  BY ZenonT(60), <2>1, <2>2
<1>5. SlotsMatch'
  <2>. SUFFICES ASSUME NEW d \in Frames, NEW b \in Bufs, idx'[d][b] # 0
                PROVE  /\ idx'[d][b] <= n_elts' /\ buf'[d][b] # NULL
                       /\ elts' = "live" => unfreed'[idx'[d][b]] = buf'[d][b]
    BY ZenonT(60), SlotsNext
  <2>1. CASE d = depth /\ b = x
    BY <2>1, <1>1, <1>2, <1>3
  <2>2. CASE ~(d = depth /\ b = x)
    <3>1. idx'[d][b] = idx[d][b]
      BY ZenonT(60), <2>2, <1>1
    <3>2. idx[d][b] <= n_elts /\ buf[d][b] # NULL /\ (elts = "live" => unfreed[idx[d][b]] = buf[d][b])
      BY ZenonT(60), <3>1 DEF HeapInv, SlotsMatch
    <3>3. idx[d][b] \in 1..n_elts /\ idx[d][b] \in Slots
      <4>1. idx[d][b] \in 0..MaxSlots
        BY ZenonT(60), IdxType
      <4>. QED  BY <4>1, <3>1, <3>2, <1>3
    <3>4. elts = "live" => idx[d][b] # k
      BY <3>2, <3>3, <1>3
    <3>5. idx[d][b] <= n_elts'
      BY <3>3, <1>3
    <3>. QED  BY ZenonT(60), <3>1, <3>2, <3>3, <3>4, <3>5, <1>2
  <2>. QED  BY ZenonT(60), <2>1, <2>2
<1>6. Owned'
  BY DEF HeapInv, Owned
<1>7. TableOwned'
  <2>. SUFFICES ASSUME elts = "live", NEW i \in 1..n_elts', unfreed'[i] # NULL
                PROVE  /\ unfreed'[i] \in heap
                       /\ \A j \in 1..n_elts' : unfreed'[j] = unfreed'[i] => j = i
                       /\ \A d \in Frames, b \in Bufs : buf[d][b] = unfreed'[i] => idx'[d][b] = i
    BY DEF TableOwned
  <2>1. \A j \in 1..n_elts : unfreed[j] # buf[depth][x]
    <3>1. \A j \in 1..n_elts : j # 0
      OBVIOUS
    <3>. QED  BY <3>1 DEF HeapInv, TableOwned
  <2>2. CASE i = k
    <3>1. unfreed'[i] = buf[depth][x]
      BY ZenonT(60), <2>2, <1>2
    <3>2. \A j \in 1..n_elts' : unfreed'[j] = unfreed'[i] => j = i
      BY ZenonT(60), <3>1, <2>1, <2>2, <1>2, <1>4
    <3>3. unfreed'[i] \in heap
      BY <3>1 DEF HeapInv, Owned
    <3>4. \A d \in Frames, b \in Bufs : buf[d][b] = unfreed'[i] => idx'[d][b] = i
      BY <3>1, <2>2, <1>1 DEF HeapInv, Owned
    <3>. QED  BY ZenonT(60), <3>2, <3>3, <3>4
  <2>3. CASE i # k
    <3>1. i \in 1..n_elts /\ unfreed'[i] = unfreed[i] /\ unfreed[i] # buf[depth][x]
      BY ZenonT(60), <2>1, <2>3, <1>2, <1>4
    <3>2. /\ unfreed[i] \in heap
          /\ \A j \in 1..n_elts : unfreed[j] = unfreed[i] => j = i
          /\ \A d \in Frames, b \in Bufs : buf[d][b] = unfreed[i] => idx[d][b] = i
      BY ZenonT(60), <3>1 DEF HeapInv, TableOwned
    <3>3. \A j \in 1..n_elts' : unfreed'[j] = unfreed'[i] => j = i
      BY <3>1, <3>2, <1>2, <1>4
    <3>4. \A d \in Frames, b \in Bufs : buf[d][b] = unfreed'[i] => idx'[d][b] = i
      BY <3>1, <3>2, <1>1
    <3>. QED  BY ZenonT(60), <3>1, <3>2, <3>3, <3>4
  <2>. QED  BY ZenonT(60), <2>2, <2>3
<1>. QED  BY ZenonT(60), <1>5, <1>6, <1>7 DEF HeapInv

(* A removed record is that of the top frame, and of no other frame.       *)
LEMMA RemoveHeap ==
    ASSUME TypeOK, HeapInv, NEW x \in Bufs, depth \in Frames,
           unfreed' = [i \in Slots |-> IF i = idx[depth][x] THEN NULL ELSE unfreed[i]],
           idx' = [idx EXCEPT ![depth] = [idx[depth] EXCEPT ![x] = 0]],
           UNCHANGED <<buf, heap, n_elts, elts>>
    PROVE  HeapInv'
<1>. USE ConstantsAssumption
<1>1. \A d \in Frames, b \in Bufs : idx'[d][b] = IF d = depth /\ b = x THEN 0 ELSE idx[d][b]
  BY ZenonT(60), HeapType
<1>2. \A j \in Slots : unfreed'[j] = IF j = idx[depth][x] THEN NULL ELSE unfreed[j]
  BY ZenonT(60)
<1>3. \A j \in 1..n_elts : j \in Slots /\ j # 0
  BY HeapType
<1>4. SlotsMatch'
  <2>. SUFFICES ASSUME NEW d \in Frames, NEW b \in Bufs, idx'[d][b] # 0
                PROVE  /\ idx'[d][b] <= n_elts' /\ buf'[d][b] # NULL
                       /\ elts' = "live" => unfreed'[idx'[d][b]] = buf'[d][b]
    BY ZenonT(60) DEF SlotsMatch
  <2>0. n_elts' = n_elts /\ buf' = buf /\ elts' = elts
    BY ZenonT(60)
  <2>1. idx'[d][b] = idx[d][b] /\ ~(d = depth /\ b = x)
    BY <1>1
  <2>2. idx[d][b] <= n_elts /\ buf[d][b] # NULL /\ (elts = "live" => unfreed[idx[d][b]] = buf[d][b])
    BY ZenonT(60), <2>1 DEF HeapInv, SlotsMatch
  <2>3. idx[d][b] \in Slots
    <3>1. idx[d][b] \in 0..MaxSlots
      BY ZenonT(60), IdxType
    <3>. QED  BY <3>1, <2>1
  <2>4. ASSUME elts = "live"
        PROVE  idx[d][b] # idx[depth][x]
    <3>. SUFFICES ASSUME idx[d][b] = idx[depth][x] PROVE FALSE
      BY ZenonT(60)
    <3>1. idx[depth][x] # 0 /\ unfreed[idx[depth][x]] = buf[depth][x]
      BY ZenonT(60), <2>1, <2>4 DEF HeapInv, SlotsMatch
    <3>2. buf[depth][x] = buf[d][b]
      BY ZenonT(60), <3>1, <2>2, <2>4
    <3>. QED  BY <3>2, <2>1, <2>2 DEF HeapInv, Owned
  <2>5. elts = "live" => unfreed'[idx[d][b]] = buf[d][b]
    BY ZenonT(60), <2>2, <2>3, <2>4, <1>2
  <2>. QED  BY ZenonT(60), <2>0, <2>1, <2>2, <2>5
<1>5. Owned'
  BY DEF HeapInv, Owned
<1>6. TableOwned'
  <2>. SUFFICES ASSUME elts' = "live", NEW i \in 1..n_elts', unfreed'[i] # NULL
                PROVE  /\ unfreed'[i] \in heap'
                       /\ \A j \in 1..n_elts' : unfreed'[j] = unfreed'[i] => j = i
                       /\ \A d \in Frames, b \in Bufs : buf'[d][b] = unfreed'[i] => idx'[d][b] = i
    BY ZenonT(60) DEF TableOwned
  <2>1. unfreed'[i] = unfreed[i] /\ i # idx[depth][x] /\ unfreed[i] # NULL
    BY ZenonT(60), <1>2, <1>3
  <2>2. /\ unfreed[i] \in heap
        /\ \A j \in 1..n_elts : unfreed[j] = unfreed[i] => j = i
        /\ \A d \in Frames, b \in Bufs : buf[d][b] = unfreed[i] => idx[d][b] = i
    BY ZenonT(60), <2>1 DEF HeapInv, TableOwned
  <2>3. \A j \in 1..n_elts : unfreed'[j] = unfreed'[i] => j = i
    BY ZenonT(60), <2>1, <2>2, <1>2, <1>3
  <2>4. \A d \in Frames, b \in Bufs : buf[d][b] = unfreed'[i] => idx'[d][b] = i
    BY <2>1, <2>2, <1>1
  <2>5. buf' = buf /\ heap' = heap /\ n_elts' = n_elts
    BY ZenonT(60)
  <2>6. unfreed'[i] \in heap'
    BY ZenonT(60), <2>1, <2>2, <2>5
  <2>7. \A j \in 1..n_elts' : unfreed'[j] = unfreed'[i] => j = i
    BY ZenonT(60), <2>3, <2>5
  <2>8. \A d \in Frames, b \in Bufs : buf'[d][b] = unfreed'[i] => idx'[d][b] = i
    BY <2>4, <2>5
  <2>. QED  BY ZenonT(60), <2>6, <2>7, <2>8
<1>. QED  BY ZenonT(60), <1>4, <1>5, <1>6 DEF HeapInv

(* Every step keeps HeapInv: pointers have one owner, and slots and        *)
(* remembered indices agree.                                               *)
LEMMA HeapInvStep ==
    ASSUME TypeOK, JmpInv, AllDisciplined, LockHeld, FactsInv, HeapInv, Next
    PROVE  HeapInv'
<1>. USE ConstantsAssumption
<1>1. CASE Alloc
  <2>1. At("alloc") /\ Running("call") /\ UNCHANGED <<idx, unfreed, n_elts, elts>>
    BY ZenonT(60), <1>1 DEF Alloc, At
  <2>2. depth \in Frames /\ Arg \in Bufs /\ buf[depth][Arg] = NULL
    BY ZenonT(60), <2>1, HeapOp DEF At
  <2>3. CASE UNCHANGED <<heap, buf>>
    BY ZenonT(60), <2>1, <2>3, HeapKeep DEF heapVars
  <2>4. CASE ~UNCHANGED <<heap, buf>>
    BY ZenonT(60), <1>1, <2>1, <2>2, <2>4, AllocHeap DEF Alloc
  <2>. QED  BY ZenonT(60), <2>3, <2>4
<1>2. CASE Free
  <2>1. At("free") /\ Running("call")
    BY ZenonT(60), <1>2 DEF Free, At
  <2>2. depth \in Frames /\ Arg \in Bufs /\ idx[depth][Arg] = 0
    BY ZenonT(60), <2>1, HeapOp DEF At
  <2>. QED  BY ZenonT(60), <1>2, <2>1, <2>2, FreeHeap DEF Free
<1>3. CASE AddUnfreed
  <2>1. At("add") /\ Running("call") /\ buf[depth][Arg] # NULL /\ UNCHANGED <<buf, heap, elts>>
    BY ZenonT(60), <1>3 DEF AddUnfreed, At
  <2>2. depth \in Frames /\ Arg \in Bufs /\ idx[depth][Arg] = 0
    BY ZenonT(60), <2>1, HeapOp DEF At
  <2>3. CASE \E k \in 1..n_elts : unfreed[k] = NULL /\ Record(k) /\ UNCHANGED n_elts
    <3>1. PICK k \in 1..n_elts : unfreed[k] = NULL /\ Record(k) /\ UNCHANGED n_elts
      BY ZenonT(60), <2>3
    <3>2. k \in Slots /\ n_elts' \in 0..MaxSlots
      BY <3>1, HeapType
    <3>. QED  BY ZenonT(60), <2>1, <2>2, <3>1, <3>2, AddHeap DEF Record
  <2>4. CASE n_elts < MaxSlots /\ Record(n_elts + 1) /\ n_elts' = n_elts + 1
    <3>1. n_elts + 1 \in Slots /\ n_elts' \in 0..MaxSlots
      BY <2>4, HeapType
    <3>. QED  BY ZenonT(60), <2>1, <2>2, <2>4, <3>1, AddHeap DEF Record
  <2>. QED  BY ZenonT(60), <1>3, <2>3, <2>4 DEF AddUnfreed
<1>4. CASE AddUnfreedFails
  <2>1. UNCHANGED <<buf, idx, heap, n_elts>> /\ elts' = "freed"
    BY ZenonT(60), <1>4 DEF AddUnfreedFails
  <2>2. elts' # "live"
    BY <2>1
  <2>3. SlotsMatch'
    BY ZenonT(60), <2>1, <2>2 DEF HeapInv, SlotsMatch
  <2>4. Owned'
    BY ZenonT(60), <2>1 DEF HeapInv, Owned
  <2>5. TableOwned'
    BY ZenonT(60), <2>2 DEF TableOwned
  <2>. QED  BY ZenonT(60), <2>3, <2>4, <2>5 DEF HeapInv
<1>5. CASE RemoveUnfreed
  <2>1. At("remove") /\ Running("call")
    BY ZenonT(60), <1>5 DEF RemoveUnfreed, At
  <2>2. depth \in Frames /\ Arg \in Bufs
    BY ZenonT(60), <2>1, HeapOp DEF At
  <2>. QED  BY ZenonT(60), <1>5, <2>2, RemoveHeap DEF RemoveUnfreed
<1>6. CASE UNCHANGED <<buf, idx>> /\ UNCHANGED heapVars
  BY ZenonT(60), <1>6, HeapKeep
<1>7. ASSUME NEW t, NEW s, CutTo(t, s), UNCHANGED heapVars
      PROVE  HeapInv'
  <2>1. \A d \in Frames : \/ buf'[d] = buf[d] /\ idx'[d] = idx[d]
                          \/ buf'[d] = NoBuf /\ idx'[d] = NoIdx
    BY ZenonT(60), <1>7 DEF CutTo
  <2>. QED  BY ZenonT(60), <1>7, <2>1, HeapKeep
<1>8. CASE InvokeClear \/ InvokeReturn \/ WasmReturn \/ Return \/ SigReturn
  BY ZenonT(60), <1>7, <1>8 DEF InvokeClear, InvokeReturn, WasmReturn, Return, SigReturn, Pop
<1>9. CASE WasmTrap \/ Abort
  <2>1. wasmjit_trap
    BY ZenonT(60), <1>9 DEF WasmTrap, Abort
  <2>. QED  BY ZenonT(60), <2>1, <1>6, <1>7 DEF wasmjit_trap
<1>. QED
  BY ZenonT(60), <1>1, <1>2, <1>3, <1>4, <1>5, <1>6, <1>8, <1>9
     DEF Next, InvokeStep, SignalStep, CallStep, MaskStep, HeapStep, InvokeMain, StackAlloc,
         InvokeRaw, InvokeTest, InvokeSet, InvokeSave, Call, Kill, Deliver, HandlerInvoke,
         HandlerSkip, BlockSignals, UnblockSignals, UnblockUninit, SigProcMask, Jump, Proceed,
         Exec, InvokeHelper, Ended, vars

-----------------------------------------------------------------------------
(* Nothing is lost.                                                        *)
AllRecorded == elts = "live" => \A p \in heap : \E i \in 1..n_elts : unfreed[i] = p

(* Where control may be lost, everything allocated is recorded.            *)
LEMMA NothingHeld ==
    ASSUME TypeOK, HeapInv, UnfreedTracked,
           \/ depth = 0 \/ st[depth] # "call" \/ mask # Signals \/ Recorded(depth)
    PROVE  AllRecorded
<1>. SUFFICES ASSUME elts = "live", NEW p \in heap
              PROVE  \E i \in 1..n_elts : unfreed[i] = p
  BY ZenonT(60) DEF AllRecorded
<1>. SUFFICES ASSUME depth > 0, st[depth] = "call", mask = Signals, Recorded(depth),
                     NEW b \in Bufs, buf[depth][b] = p
              PROVE  \E i \in 1..n_elts : unfreed[i] = p
  BY DEF UnfreedTracked
<1>1. depth \in Frames /\ p # NULL
  BY ConstantsAssumption, DepthType, HeapType
<1>2. idx[depth][b] # 0
  BY ZenonT(60), <1>1 DEF Recorded
<1>3. idx[depth][b] <= n_elts /\ unfreed[idx[depth][b]] = p
  BY ZenonT(60), <1>1, <1>2 DEF HeapInv, SlotsMatch
<1>4. idx[depth][b] \in 0..MaxSlots
  BY ZenonT(60), <1>1, IdxType
<1>5. idx[depth][b] \in 1..n_elts
  BY <1>2, <1>3, <1>4
<1>. QED  BY ZenonT(60), <1>3, <1>5

(* Every step keeps UnfreedTracked: no return, trap, callback or signal    *)
(* drops a buffer that is not recorded.                                    *)
LEMMA TrackedStep ==
    ASSUME TypeOK, JmpInv, AllDisciplined, LockHeld, FactsInv, HeapInv, UnfreedTracked, Next
    PROVE  UnfreedTracked'
<1>. USE ConstantsAssumption
<1>. DEFINE i == Code[call[depth]][loc[depth]]
<1>1. ASSUME AllRecorded, UNCHANGED heapVars
      PROVE  UnfreedTracked'
  BY ZenonT(60), <1>1 DEF AllRecorded, UnfreedTracked, heapVars
<1>2. CASE Running("call")
  <2>1. /\ depth \in 1..depth /\ depth \in Frames /\ st[depth] = "call" /\ depth > 0
        /\ Safe(i, KnownAt(depth))
    BY ZenonT(60), <1>2, OpFacts, TopFrame
  <2>2. KnownAt(depth).rec = Bufs => AllRecorded
    BY ZenonT(60), <1>2, NothingHeld, TopRecorded
  <2>3. CASE i.op \in {"unblock", "invoke", "abort", "sigprocmask", "return", "unblock_uninit"}
    <3>1. KnownAt(depth).rec = Bufs /\ i.op # "unblock_uninit"
      BY ZenonT(60), <2>1, <2>3 DEF Safe
    <3>2. CASE UNCHANGED heapVars
      BY ZenonT(60), <3>1, <3>2, <2>2, <1>1
    <3>3. CASE ~UNCHANGED heapVars
      <4>1. HeapStep
        BY ZenonT(60), <1>2, <3>3
           DEF Next, InvokeStep, SignalStep, CallStep, MaskStep, InvokeMain, StackAlloc,
               InvokeRaw, InvokeTest, InvokeSet, InvokeSave, InvokeClear, InvokeReturn, WasmReturn,
               WasmTrap, Abort, wasmjit_trap, Call, Kill, Deliver, HandlerInvoke, HandlerSkip,
               SigReturn, BlockSignals, UnblockSignals, UnblockUninit, SigProcMask, Jump, Proceed,
               Exec, InvokeHelper, Return, Ended, vars
      <4>. QED  BY ZenonT(60), <4>1, <2>3 DEF HeapStep, Alloc, Free, AddUnfreed, AddUnfreedFails, RemoveUnfreed, At
    <3>. QED  BY ZenonT(60), <3>2, <3>3
  <2>4. CASE i.op \notin {"unblock", "invoke", "abort", "sigprocmask", "return", "unblock_uninit"}
    <3>1. CASE HeapStep
      <4>0. /\ UNCHANGED <<depth, st, mask>> /\ Arg \in Bufs /\ mask = Signals
        <5>1. /\ UNCHANGED <<depth, st, mask>>
              /\ i.op \in {"alloc", "free", "add", "remove"}
          BY ZenonT(60), <3>1 DEF HeapStep, Alloc, Free, AddUnfreed, AddUnfreedFails, RemoveUnfreed, At, sigVars
        <5>. QED  BY ZenonT(60), <5>1, <1>2, HeapOp
      <4>1. ASSUME elts' = "live", NEW p \in heap'
            PROVE  \/ \E k \in 1..n_elts' : unfreed'[k] = p
                   \/ \E b \in Bufs : buf'[depth][b] = p
        <5>0. ASSUME elts = "live", p \in heap
              PROVE  (\E k \in 1..n_elts : unfreed[k] = p) \/ (\E b \in Bufs : buf[depth][b] = p)
          BY ZenonT(60), <5>0 DEF UnfreedTracked
        <5>1. CASE Alloc
          <6>1. UNCHANGED <<unfreed, n_elts, elts>>
            BY ZenonT(60), <5>1 DEF Alloc
          <6>2. CASE UNCHANGED <<heap, buf>>
            BY ZenonT(60), <6>1, <6>2, <4>1, <5>0
          <6>3. ASSUME NEW q \in Ptr \ heap, heap' = heap \cup {q},
                       buf' = [buf EXCEPT ![depth] = [buf[depth] EXCEPT ![Arg] = q]]
                PROVE  (\E k \in 1..n_elts' : unfreed'[k] = p) \/ (\E b \in Bufs : buf'[depth][b] = p)
            <7>1. /\ buf'[depth][Arg] = q
                  /\ \A b \in Bufs : b # Arg => buf'[depth][b] = buf[depth][b]
              BY ZenonT(60), <6>3, <4>0, <2>1, HeapType
            <7>2. buf[depth][Arg] = NULL
              BY ZenonT(60), <5>1, <1>2, <4>0, HeapOp DEF Alloc, At
            <7>3. CASE p = q
              BY ZenonT(60), <7>1, <7>3, <4>0
            <7>4. CASE p # q
              <8>1. p \in heap /\ p # NULL
                BY ZenonT(60), <7>4, <6>3, <4>1, HeapType
              <8>. QED  BY ZenonT(60), <8>1, <7>1, <7>2, <6>1, <4>1, <5>0
            <7>. QED  BY ZenonT(60), <7>3, <7>4
          <6>. QED  BY ZenonT(60), <5>1, <6>2, <6>3 DEF Alloc
        <5>2. CASE Free
          <6>1. /\ UNCHANGED <<unfreed, n_elts, elts>> /\ p \in heap /\ p # buf[depth][Arg]
                /\ buf' = [buf EXCEPT ![depth] = [buf[depth] EXCEPT ![Arg] = NULL]]
            BY ZenonT(60), <5>2, <4>1 DEF Free
          <6>2. \A b \in Bufs : b # Arg => buf'[depth][b] = buf[depth][b]
            BY <6>1, <4>0, <2>1
          <6>. QED  BY ZenonT(60), <6>1, <6>2, <4>1, <5>0
        <5>3. CASE AddUnfreed
          <6>1. UNCHANGED <<buf, heap, elts>>
            BY ZenonT(60), <5>3 DEF AddUnfreed
          <6>2. PICK j \in Slots : /\ Record(j) /\ n_elts' \in Nat /\ n_elts <= n_elts'
                                   /\ j <= n_elts => unfreed[j] = NULL
            <7>1. CASE \E k \in 1..n_elts : unfreed[k] = NULL /\ Record(k) /\ UNCHANGED n_elts
              BY <7>1, HeapType
            <7>2. CASE n_elts < MaxSlots /\ Record(n_elts + 1) /\ n_elts' = n_elts + 1
              <8>1. n_elts + 1 \in Slots /\ n_elts' \in Nat /\ n_elts <= n_elts' /\ ~(n_elts + 1 <= n_elts)
                BY <7>2, HeapType
              <8>. QED  BY ZenonT(60), <7>2, <8>1
            <7>. QED  BY ZenonT(60), <5>3, <7>1, <7>2 DEF AddUnfreed
          <6>3. CASE \E b \in Bufs : buf[depth][b] = p
            BY ZenonT(60), <6>1, <6>3
          <6>4. CASE \E k \in 1..n_elts : unfreed[k] = p
            <7>1. PICK k \in 1..n_elts : unfreed[k] = p
              BY ZenonT(60), <6>4
            <7>2. k # j /\ k \in 1..n_elts' /\ k \in Slots
              BY <6>1, <6>2, <7>1, <4>1, HeapType
            <7>3. unfreed'[k] = unfreed[k]
              BY <6>2, <7>2 DEF Record
            <7>. QED  BY ZenonT(60), <7>1, <7>2, <7>3
          <6>. QED  BY ZenonT(60), <6>1, <6>3, <6>4, <4>1, <5>0
        <5>4. CASE RemoveUnfreed
          <6>1. /\ UNCHANGED <<buf, heap, n_elts, elts>>
                /\ unfreed' = [k \in Slots |-> IF k = idx[depth][Arg] THEN NULL ELSE unfreed[k]]
            BY ZenonT(60), <5>4 DEF RemoveUnfreed
          <6>2. CASE \E b \in Bufs : buf[depth][b] = p
            BY ZenonT(60), <6>1, <6>2
          <6>3. CASE \E k \in 1..n_elts : unfreed[k] = p
            <7>1. PICK k \in 1..n_elts : unfreed[k] = p
              BY ZenonT(60), <6>3
            <7>2. k \in Slots /\ k # 0
              BY HeapType
            <7>3. CASE k = idx[depth][Arg]
              <8>1. buf[depth][Arg] = p
                BY ZenonT(60), <6>1, <7>1, <7>2, <7>3, <4>0, <4>1, <2>1 DEF HeapInv, SlotsMatch
              <8>. QED  BY ZenonT(60), <8>1, <6>1, <4>0
            <7>4. CASE k # idx[depth][Arg]
              BY ZenonT(60), <6>1, <7>1, <7>2, <7>4
            <7>. QED  BY ZenonT(60), <7>3, <7>4
          <6>. QED  BY ZenonT(60), <6>1, <6>2, <6>3, <4>1, <5>0
        <5>5. CASE AddUnfreedFails
          BY ZenonT(60), <5>5, <4>1 DEF AddUnfreedFails
        <5>. QED  BY ZenonT(60), <3>1, <5>1, <5>2, <5>3, <5>4, <5>5 DEF HeapStep
      <4>. QED  BY ZenonT(60), <4>0, <4>1, <2>1 DEF UnfreedTracked
    <3>2. CASE \E z \in Signals, m \in SUBSET Signals : Deliver(z, m)
      <4>1. mask # Signals /\ UNCHANGED heapVars
        BY ZenonT(60), <3>2 DEF Deliver
      <4>. QED  BY ZenonT(60), <4>1, <1>1, NothingHeld
    <3>3. CASE UNCHANGED <<depth, st, buf, heapVars>> /\ mask' \in {mask, Signals}
      BY ZenonT(60), <3>3 DEF UnfreedTracked, heapVars
    <3>4. CASE BlockSignals \/ Jump \/ Proceed("branch") \/ Proceed("libc") \/ Proceed("sys")
               \/ Exec \/ (\E z \in Signals : Kill(z)) \/ Ended
      <4>1. CASE BlockSignals \/ Jump \/ Exec
        BY ZenonT(60), <4>1, <3>3 DEF BlockSignals, Jump, Exec, sigVars
      <4>2. CASE Proceed("branch") \/ Proceed("libc") \/ Proceed("sys")
        BY ZenonT(60), <4>2, <3>3 DEF Proceed, sigVars
      <4>3. CASE Ended \/ \E z \in Signals : Kill(z)
        BY ZenonT(60), <4>3, <3>3 DEF Kill, Ended, vars, frameVars, sigVars
      <4>. QED  BY ZenonT(60), <3>4, <4>1, <4>2, <4>3
    <3>5. ~(InvokeMain \/ StackAlloc \/ InvokeStep \/ WasmReturn \/ WasmTrap \/ SignalStep
            \/ \E c \in Calls : Call(c))
      <4>1. depth # 0
        BY <2>1
      <4>2. ~(InvokeMain \/ StackAlloc \/ WasmReturn \/ WasmTrap \/ \E c \in Calls : Call(c))
        BY ZenonT(60), <2>1, <4>1 DEF InvokeMain, StackAlloc, WasmReturn, WasmTrap, Call, Running
      <4>3. ~InvokeStep
        BY ZenonT(60), <2>1 DEF InvokeStep, InvokeRaw, InvokeTest, InvokeSet, InvokeSave, InvokeClear,
                           InvokeReturn, Running
      <4>4. ~SignalStep
        BY ZenonT(60), <2>1 DEF SignalStep, HandlerInvoke, HandlerSkip, SigReturn, Running
      <4>. QED  BY ZenonT(60), <4>2, <4>3, <4>4
    <3>6. ~(UnblockSignals \/ UnblockUninit \/ SigProcMask \/ InvokeHelper \/ Abort \/ Return)
      BY ZenonT(60), <2>4 DEF UnblockSignals, UnblockUninit, SigProcMask, InvokeHelper, Abort, Return, At
    <3>. QED  BY ZenonT(60), <3>1, <3>2, <3>4, <3>5, <3>6 DEF Next, CallStep, MaskStep
  <2>. QED  BY ZenonT(60), <2>3, <2>4
<1>3. CASE ~Running("call") /\ proc = "running"
  <2>1. AllRecorded
    <3>1. depth = 0 \/ st[depth] # "call"
      BY <1>3, DepthType DEF Running
    <3>. QED  BY ZenonT(60), <3>1, NothingHeld
  <2>2. UNCHANGED heapVars
    BY ZenonT(60), <1>3 DEF Next, InvokeStep, SignalStep, CallStep, MaskStep, HeapStep, InvokeMain, StackAlloc,
                InvokeRaw, InvokeTest, InvokeSet, InvokeSave, InvokeClear, InvokeReturn, WasmReturn,
                WasmTrap, Abort, wasmjit_trap, Call, Kill, Deliver, HandlerInvoke, HandlerSkip,
                SigReturn, BlockSignals, UnblockSignals, UnblockUninit, SigProcMask, Alloc, Free,
                AddUnfreed, AddUnfreedFails, RemoveUnfreed, Jump, Proceed, Exec, InvokeHelper,
                Return, Ended, At, vars
  <2>. QED  BY ZenonT(60), <2>1, <2>2, <1>1
<1>4. CASE proc # "running"
  <2>1. Ended
    BY ZenonT(60), <1>4 DEF Next, InvokeStep, SignalStep, CallStep, MaskStep, HeapStep, InvokeMain, StackAlloc,
                InvokeRaw, InvokeTest, InvokeSet, InvokeSave, InvokeClear, InvokeReturn, WasmReturn,
                WasmTrap, Abort, Call, Kill, Deliver, HandlerInvoke, HandlerSkip,
                SigReturn, BlockSignals, UnblockSignals, UnblockUninit, SigProcMask, Alloc, Free,
                AddUnfreed, AddUnfreedFails, RemoveUnfreed, Jump, Proceed, Exec, InvokeHelper,
                Return, At, Running
  <2>. QED  BY ZenonT(60), <2>1 DEF Ended, vars, frameVars, heapVars, sigVars, UnfreedTracked
<1>. QED  BY ZenonT(60), <1>2, <1>3, <1>4

-----------------------------------------------------------------------------
(* The inductive invariant, and what follows from it.                      *)
Inv == TypeOK /\ JmpInv /\ LockHeld /\ FactsInv /\ HeapInv /\ UnfreedTracked

(* The inductive invariant holds initially.                                *)
LEMMA InvInit == Init => Inv
<1>. SUFFICES ASSUME Init PROVE Inv
  BY ZenonT(60)
<1>0. depth = 0 /\ jmp_buf = 0
  BY ZenonT(60) DEF Init
<1>1. JmpInv /\ LockHeld /\ FactsHold
  <2>1. \A d \in 1..depth : FALSE
    BY <1>0
  <2>. QED  BY ZenonT(60), <1>0, <2>1 DEF JmpInv, JmpBufLive, LockHeld, FactsHold
<1>2. \A d \in Frames, b \in Bufs : buf[d][b] = NULL /\ idx[d][b] = 0
  BY ZenonT(60) DEF Init
<1>3. Clean /\ SlotsMatch /\ Owned
  BY ZenonT(60), <1>2 DEF Clean, SlotsMatch, Owned
<1>4. TableOwned /\ UnfreedTracked
  BY DEF Init, TableOwned, UnfreedTracked
<1>. QED  BY ZenonT(60), <1>1, <1>3, <1>4, TypeInit DEF Inv, FactsInv, HeapInv

(* Every step keeps the inductive invariant.                               *)
LEMMA InvStep ==
    ASSUME AllDisciplined, Inv, [Next]_vars
    PROVE  Inv'
<1>1. CASE Next
  <2>1. TypeOK /\ JmpInv /\ LockHeld /\ FactsInv /\ HeapInv /\ UnfreedTracked /\ JmpBufLive
    BY ZenonT(60) DEF Inv, JmpInv
  <2>. QED  BY ZenonT(60), <1>1, <2>1, TypeStep, JmpStep, LockStep, FactsStep, HeapInvStep, TrackedStep DEF Inv
<1>2. CASE UNCHANGED vars
  <2>1. (TypeOK /\ JmpInv /\ LockHeld)'
    BY ZenonT(60), <1>2 DEF vars, frameVars, sigVars, heapVars, Inv, TypeOK, JmpInv, JmpBufLive, LockHeld, Locked, KnownAt
  <2>2. FactsInv'
    BY ZenonT(60), <1>2, SameFacts DEF vars, frameVars, Inv
  <2>3. HeapInv'
    <3>1. UNCHANGED <<buf, idx>> /\ UNCHANGED heapVars /\ HeapInv
      BY ZenonT(60), <1>2 DEF vars, frameVars, heapVars, Inv
    <3>. QED  BY ZenonT(60), <3>1, HeapKeep
  <2>4. UnfreedTracked'
    BY ZenonT(60), <1>2 DEF vars, frameVars, sigVars, heapVars, Inv, UnfreedTracked
  <2>. QED  BY ZenonT(60), <2>1, <2>2, <2>3, <2>4 DEF Inv
<1>. QED  BY ZenonT(60), <1>1, <1>2

(* The inductive invariant holds of every program whose host functions     *)
(* keep the discipline: the signal lock of a host function is never        *)
(* opened under it, and the inferred facts hold at every location.         *)
THEOREM DisciplineSound ==
    ASSUME AllDisciplined
    PROVE  Spec => []Inv
<1>1. Init => Inv
  BY ZenonT(60), InvInit
<1>2. Inv /\ [Next]_vars => Inv'
  BY ZenonT(60), InvStep
<1>. QED  BY <1>1, <1>2, PTL DEF Spec

(* Between _wasmjit_block_signals and _wasmjit_unblock_signals of a host    *)
(* function every signal stays blocked and no handler runs above it,       *)
(* whatever the frames above do to the mask.                               *)
THEOREM LockAlwaysHeld ==
    ASSUME AllDisciplined
    PROVE  Spec => []LockHeld
<1>1. Inv => LockHeld
  BY ZenonT(60) DEF Inv
<1>. QED  BY <1>1, DisciplineSound, PTL

(* What the discipline infers of a location (signals blocked, a set filled,*)
(* a pointer allocated, recorded or free) is true whenever a host function *)
(* is at that location.                                                    *)
THEOREM FactsAlwaysHold ==
    ASSUME AllDisciplined
    PROVE  Spec => []FactsHold
<1>1. Inv => FactsHold
  BY ZenonT(60) DEF Inv, FactsInv
<1>. QED  BY <1>1, DisciplineSound, PTL

(* "We must block signals when calling non-async safe functions": no       *)
(* handler ever interrupts malloc, free, the unfreed_pointers table or     *)
(* another function that is not async-signal-safe.                         *)
THEOREM LibcNeverInterrupted ==
    ASSUME AllDisciplined
    PROVE  Spec => []NoInterruptedLibc
<1>1. Inv => NoInterruptedLibc
  <2>. SUFFICES ASSUME Inv, NEW d \in 1..depth, InLibc(d)
                PROVE  mask = Signals /\ \A e \in (d + 1)..depth : st[e] \notin {"handler", "sigreturn"}
    BY ZenonT(60) DEF NoInterruptedLibc
  <2>1. d \in Frames /\ d <= depth /\ st[d] = "call"
    BY ConstantsAssumption, DepthType DEF Inv, InLibc
  <2>2. call[d] \in Calls /\ loc[d] \in DOMAIN Code[call[d]]
    BY ZenonT(60), <2>1, CallType DEF Inv
  <2>3. Safe(Code[call[d]][loc[d]], Known[call[d]][loc[d]])
    BY ZenonT(60), <2>2 DEF AllDisciplined, Disciplined, UsedSafely
  <2>4. Locked(d)
    BY ZenonT(60), <2>1, <2>3 DEF Safe, Locked, KnownAt, InLibc
  <2>. QED  BY ZenonT(60), <2>4 DEF Inv, LockHeld
<1>. QED  BY <1>1, DisciplineSound, PTL

(* No trap and no signal loses a heap buffer of a host function: what is   *)
(* allocated is in ctx->unfreed_pointers whenever control can be lost.     *)
THEOREM NothingLost ==
    ASSUME AllDisciplined
    PROVE  Spec => []UnfreedTracked
<1>1. Inv => UnfreedTracked
  BY ZenonT(60) DEF Inv
<1>. QED  BY <1>1, DisciplineSound, PTL

(* Every recorded pointer is allocated and recorded once, and the index a  *)
(* host function remembers still names the slot of its own buffer.         *)
THEOREM RecordsExact ==
    ASSUME AllDisciplined
    PROVE  Spec => []RecordedOnce
<1>1. Inv => RecordedOnce
  <2>. SUFFICES ASSUME Inv, elts = "live"
                PROVE  /\ \A i \in 1..n_elts : unfreed[i] # NULL => unfreed[i] \in heap
                       /\ \A i, j \in 1..n_elts : unfreed[i] = unfreed[j] /\ i # j => unfreed[i] = NULL
                       /\ \A d \in 1..depth, b \in Bufs :
                            idx[d][b] # 0 => /\ idx[d][b] <= n_elts
                                             /\ buf[d][b] # NULL
                                             /\ unfreed[idx[d][b]] = buf[d][b]
    BY ZenonT(60) DEF RecordedOnce
  <2>1. \A i \in 1..n_elts : unfreed[i] # NULL => unfreed[i] \in heap
    BY ZenonT(60) DEF Inv, HeapInv, TableOwned
  <2>2. \A i, j \in 1..n_elts : unfreed[i] = unfreed[j] /\ i # j => unfreed[i] = NULL
    BY ZenonT(60) DEF Inv, HeapInv, TableOwned
  <2>3. \A d \in 1..depth : d \in Frames
    BY ConstantsAssumption, DepthType DEF Inv
  <2>. QED  BY ZenonT(60), <2>1, <2>2, <2>3 DEF Inv, HeapInv, SlotsMatch
<1>. QED  BY <1>1, DisciplineSound, PTL

=============================================================================
