------------------------------ MODULE HostCall ------------------------------
(***************************************************************************)
(* One user-space thread of the Emscripten host: WebAssembly code that     *)
(* calls host functions, host functions that call WebAssembly helpers      *)
(* back, POSIX signals that interrupt either of them, and traps that       *)
(* siglongjmp out of all of it.                                            *)
(*                                                                         *)
(* The C stack is frames 1..depth.  Every host function is a short program *)
(* (constant Code, see HostCallCode) over the operations that matter for   *)
(* signals and traps: blocking and unblocking signals, heap buffers, the   *)
(* unfreed_pointers table of the context, system calls, calls back into    *)
(* WebAssembly, aborts.  One step executes one operation of the top frame. *)
(***************************************************************************)
EXTENDS Naturals, FiniteSets

CONSTANTS
    Signals,      \* the maskable signals
    Ptr,          \* heap addresses
    NULL,         \* the null pointer
    Calls,        \* the host functions the program imports
    Code,         \* Code[c]: the program of host function c
    HelperCalls,  \* host functions used by the exports the runtime calls back
    MaxDepth,     \* bound on the number of frames
    MaxSlots,     \* bound on unfreed_pointers.n_elts
    MaxKills,     \* bound on the signals sent to the process
    ReallocFails  \* whether the realloc of VECTOR_GROW may fail

Bufs == {1, 2}
Frames == 1..MaxDepth
Slots == 1..MaxSlots
PtrOrNull == Ptr \cup {NULL}

(* The operations a host function is made of.                              *)
Ops == {"block", "unblock", "unblock_uninit", "sigprocmask",
        "alloc", "free", "add", "remove",
        "goto", "branch", "sys", "libc", "exec", "invoke", "abort", "return"}

(* The states of a frame.  none: not in use; native frames of              *)
(* wasmjit_invoke_function: test, set, save, run, clear, raw; handler and  *)
(* sigreturn: a signal frame before and after it invoked the WebAssembly   *)
(* handler.                                                                *)
InvokeStates == {"test", "set", "save", "run", "clear", "raw"}
States == {"none", "wasm", "call", "handler", "sigreturn"} \cup InvokeStates

ASSUME ConstantsAssumption ==
    /\ MaxDepth \in Nat
    /\ MaxSlots \in Nat
    /\ MaxKills \in Nat
    /\ NULL \notin Ptr
    /\ HelperCalls \subseteq Calls
    /\ ReallocFails \in BOOLEAN

(* Code[c][l] is the operation at location l: its name, the buffer it is   *)
(* about and where an error path goes (0: none).  All others fall through. *)
ASSUME CodeAssumption ==
    \A c \in Calls :
        /\ 1 \in DOMAIN Code[c]
        /\ \A l \in DOMAIN Code[c] :
            /\ l \in Nat \ {0}
            /\ Code[c][l].op \in Ops
            /\ Code[c][l].op \in {"alloc", "free", "add", "remove"}
                  => Code[c][l].arg \in Bufs
            /\ Code[c][l].op \notin {"goto", "abort", "return"}
                  => l + 1 \in DOMAIN Code[c]
            /\ Code[c][l].op = "goto" => Code[c][l].err # 0
            /\ Code[c][l].err # 0 => Code[c][l].err \in DOMAIN Code[c]

ASSUME HelperAssumption ==
    \A c \in HelperCalls : \A l \in DOMAIN Code[c] : Code[c][l].op # "sigprocmask"

VARIABLES
    proc,      \* "running", "crashed" (jump through no jmp_buf), "replaced" (execve)
    depth,     \* number of frames on the stack
    st,        \* st[d]: state of frame d
    call,      \* call[d]: the host function of a call frame
    loc,       \* loc[d]: its next operation
    set,       \* set[d]: the mask saved by the frame (block_signals, sigsetjmp, kernel)
    buf,       \* buf[d][b]: heap pointer held in a local of the frame
    idx,       \* idx[d][b]: ptr_idx_b, 0 when not recorded
    mask,      \* the thread's signal mask
    pending,   \* signals sent and not delivered
    kills,     \* number of signals sent so far
    jmp_buf,   \* the frame whose jmp_buf is in thread-local storage, 0 for NULL
    heap,      \* allocated pointers
    unfreed,   \* ctx->unfreed_pointers.elts
    n_elts,    \* ctx->unfreed_pointers.n_elts
    elts,      \* storage of unfreed_pointers: "live", or "freed" by a failed VECTOR_GROW
    entry      \* history: entry[d] is the mask when frame d was pushed

frameVars == <<depth, st, call, loc>>
heapVars == <<heap, unfreed, n_elts, elts>>
sigVars == <<mask, pending, kills>>
vars == <<proc, frameVars, set, buf, idx, sigVars, jmp_buf, heapVars, entry>>

NoBuf == [b \in Bufs |-> NULL]
NoIdx == [b \in Bufs |-> 0]

TypeOK ==
    /\ proc \in {"running", "crashed", "replaced"}
    /\ depth \in 0..MaxDepth
    /\ st \in [Frames -> States]
    /\ call \in [Frames -> Calls \cup {NULL}]
    /\ loc \in [Frames -> Nat]
    /\ set \in [Frames -> SUBSET Signals]
    /\ buf \in [Frames -> [Bufs -> PtrOrNull]]
    /\ idx \in [Frames -> [Bufs -> 0..MaxSlots]]
    /\ mask \in SUBSET Signals
    /\ pending \in SUBSET Signals
    /\ kills \in 0..MaxKills
    /\ jmp_buf \in 0..MaxDepth
    /\ heap \in SUBSET Ptr
    /\ unfreed \in [Slots -> PtrOrNull]
    /\ n_elts \in 0..MaxSlots
    /\ elts \in {"live", "freed"}
    /\ entry \in [Frames -> SUBSET Signals]
    /\ \A d \in Frames : d <= depth /\ st[d] = "call" =>
          call[d] \in Calls /\ loc[d] \in DOMAIN Code[call[d]]

(* wasmjit_emscripten_init: no pointer recorded, the thread outside of     *)
(* WebAssembly, the mask the one the process was started with.             *)
Init ==
    /\ proc = "running"
    /\ depth = 0
    /\ st = [d \in Frames |-> "none"]
    /\ call = [d \in Frames |-> NULL]
    /\ loc = [d \in Frames |-> 0]
    /\ set = [d \in Frames |-> {}]
    /\ buf = [d \in Frames |-> NoBuf]
    /\ idx = [d \in Frames |-> NoIdx]
    /\ mask = {}
    /\ pending = {}
    /\ kills = 0
    /\ jmp_buf = 0
    /\ heap = {}
    /\ unfreed = [i \in Slots |-> NULL]
    /\ n_elts = 0
    /\ elts = "live"
    /\ entry = [d \in Frames |-> {}]

-----------------------------------------------------------------------------
(* The stack.  Whoever starts a call, a handler or the program asks for    *)
(* room for the frames it may need (itself, wasmjit_invoke_function, the   *)
(* WebAssembly function), so that the bound never stops anything half way. *)

Running(s) == proc = "running" /\ depth > 0 /\ st[depth] = s
Room(k) == depth + k <= MaxDepth

(* Push a frame in state s above frame depth; st1 already has the caller's *)
(* own change of state.                                                    *)
Push(st1, s) ==
    /\ depth < MaxDepth
    /\ depth' = depth + 1
    /\ st' = [st1 EXCEPT ![depth + 1] = s]
    /\ entry' = [entry EXCEPT ![depth + 1] = mask]

(* Drop the frames above t, leaving frame t in state s.                    *)
CutTo(t, s) ==
    /\ depth' = t
    /\ st' = [d \in Frames |-> IF d > t THEN "none" ELSE IF d = t THEN s ELSE st[d]]
    /\ call' = [d \in Frames |-> IF d > t THEN NULL ELSE call[d]]
    /\ loc' = [d \in Frames |-> IF d > t THEN 0 ELSE loc[d]]
    /\ buf' = [d \in Frames |-> IF d > t THEN NoBuf ELSE buf[d]]
    /\ idx' = [d \in Frames |-> IF d > t THEN NoIdx ELSE idx[d]]
    /\ set' = [d \in Frames |-> IF d > t THEN {} ELSE set[d]]
    /\ entry' = [d \in Frames |-> IF d > t THEN {} ELSE entry[d]]

(* The state the caller's frame continues in once frame depth returns.     *)
AfterReturn ==
    IF depth = 1 THEN "none"
    ELSE CASE st[depth - 1] = "run" -> "clear"
           [] OTHER -> st[depth - 1]

Pop == CutTo(depth - 1, AfterReturn)

-----------------------------------------------------------------------------
(* wasmjit_invoke_function.                                                *)

(* The program calls wasmjit_invoke_function from native code: the         *)
(* environment constructor, then main.                                     *)
InvokeMain ==
    /\ proc = "running"
    /\ depth = 0
    /\ Room(3)
    /\ Push(st, "test")
    /\ UNCHANGED <<proc, call, loc, set, buf, idx, sigVars, jmp_buf, heapVars>>

(* wasmjit_emscripten_invoke_main calls the code of stackAlloc directly,   *)
(* without wasmjit_invoke_function.                                        *)
StackAlloc ==
    /\ proc = "running"
    /\ depth = 0
    /\ Room(3)
    /\ Push(st, "wasm")
    /\ UNCHANGED <<proc, call, loc, set, buf, idx, sigVars, jmp_buf, heapVars>>

(* if (wasmjit_get_jmp_buf()): run under the jmp_buf that is already set.  *)
InvokeRaw ==
    /\ Running("test")
    /\ jmp_buf # 0
    /\ Push([st EXCEPT ![depth] = "raw"], "wasm")
    /\ UNCHANGED <<proc, call, loc, set, buf, idx, sigVars, jmp_buf, heapVars>>

(* Mutant: the jmp_buf already in place is not looked at.                  *)
InvokeTest_Untested ==
    /\ Running("test")
    /\ st' = [st EXCEPT ![depth] = "set"]
    /\ UNCHANGED <<proc, depth, call, loc, set, buf, idx, sigVars, jmp_buf, heapVars, entry>>

InvokeTest ==
    /\ Running("test")
    /\ jmp_buf = 0
    /\ st' = [st EXCEPT ![depth] = "set"]
    /\ UNCHANGED <<proc, depth, call, loc, set, buf, idx, sigVars, jmp_buf, heapVars, entry>>

(* wasmjit_set_jmp_buf(&jmpbuf), before the buffer is filled.              *)
InvokeSet ==
    /\ Running("set")
    /\ jmp_buf' = depth
    /\ st' = [st EXCEPT ![depth] = "save"]
    /\ UNCHANGED <<proc, depth, call, loc, set, buf, idx, sigVars, heapVars, entry>>

(* wasmjit_save_thread_state is sigsetjmp(., 1): it saves the mask.        *)
InvokeSave ==
    /\ Running("save")
    /\ set' = [set EXCEPT ![depth] = mask]
    /\ Push([st EXCEPT ![depth] = "run"], "wasm")
    /\ UNCHANGED <<proc, call, loc, buf, idx, sigVars, jmp_buf, heapVars>>

(* wasmjit_set_jmp_buf(NULL), and return to the caller.                    *)
InvokeClear ==
    /\ Running("clear")
    /\ jmp_buf' = 0
    /\ Pop
    /\ UNCHANGED <<proc, sigVars, heapVars>>

(* The raw branch returns to the caller at once.                           *)
InvokeReturn ==
    /\ Running("raw")
    /\ Pop
    /\ UNCHANGED <<proc, sigVars, jmp_buf, heapVars>>

(* wasmjit_trap and wasmjit_exit: siglongjmp to the jmp_buf in             *)
(* thread-local storage.  There may be none, or one that                   *)
(* wasmjit_save_thread_state has not filled yet.                           *)
wasmjit_trap ==
    IF jmp_buf = 0 \/ st[jmp_buf] = "save"
    THEN /\ proc' = "crashed"
         /\ UNCHANGED <<frameVars, set, buf, idx, sigVars, jmp_buf, heapVars, entry>>
    ELSE /\ CutTo(jmp_buf, "clear")
         /\ mask' = set[jmp_buf]
         /\ UNCHANGED <<proc, pending, kills, jmp_buf, heapVars>>

-----------------------------------------------------------------------------
(* WebAssembly code.                                                       *)

(* Code the runtime itself called back runs on behalf of a host function.  *)
HelperContext ==
    \E d \in 1..depth :
        /\ st[d] = "call"
        /\ \A e \in d..depth : st[e] # "sigreturn"

Call(c) ==
    /\ Running("wasm")
    /\ Room(3)
    /\ HelperContext => c \in HelperCalls
    /\ Push(st, "call")
    /\ call' = [call EXCEPT ![depth + 1] = c]
    /\ loc' = [loc EXCEPT ![depth + 1] = 1]
    /\ UNCHANGED <<proc, set, buf, idx, sigVars, jmp_buf, heapVars>>

WasmReturn ==
    /\ Running("wasm")
    /\ Pop
    /\ UNCHANGED <<proc, sigVars, jmp_buf, heapVars>>

WasmTrap == Running("wasm") /\ wasmjit_trap

-----------------------------------------------------------------------------
(* Signals.                                                                *)

Kill(s) ==
    /\ proc = "running"
    /\ kills < MaxKills
    /\ s \notin pending
    /\ pending' = pending \cup {s}
    /\ kills' = kills + 1
    /\ UNCHANGED <<proc, frameVars, set, buf, idx, mask, jmp_buf, heapVars, entry>>

(* The kernel pushes a signal frame that will restore the current mask,    *)
(* and blocks m: the sa_mask of the action and, without SA_NODEFER, s.     *)
Deliver(s, m) ==
    /\ proc = "running"
    /\ Room(3)
    /\ s \in pending \ mask
    /\ pending' = pending \ {s}
    /\ mask' = mask \cup m
    /\ depth' = depth + 1
    /\ st' = [st EXCEPT ![depth + 1] = "handler"]
    /\ set' = [set EXCEPT ![depth + 1] = mask]
    /\ entry' = [entry EXCEPT ![depth + 1] = mask]
    /\ UNCHANGED <<proc, call, loc, buf, idx, kills, jmp_buf, heapVars>>

(* _wasmjit_emscripten_sigaction_handler: run the WebAssembly handler, or  *)
(* return at once when there is no context or no dynCall export.           *)
HandlerInvoke ==
    /\ Running("handler")
    /\ Push([st EXCEPT ![depth] = "sigreturn"], "test")
    /\ UNCHANGED <<proc, call, loc, set, buf, idx, sigVars, jmp_buf, heapVars>>

HandlerSkip ==
    /\ Running("handler")
    /\ st' = [st EXCEPT ![depth] = "sigreturn"]
    /\ UNCHANGED <<proc, depth, call, loc, set, buf, idx, sigVars, jmp_buf, heapVars, entry>>

SigReturn ==
    /\ Running("sigreturn")
    /\ mask' = set[depth]
    /\ CutTo(depth - 1, IF depth = 1 THEN "none" ELSE st[depth - 1])
    /\ UNCHANGED <<proc, pending, kills, jmp_buf, heapVars>>

-----------------------------------------------------------------------------
(* The operations of host functions.                                       *)

At(op) == Running("call") /\ Code[call[depth]][loc[depth]].op = op
Arg == Code[call[depth]][loc[depth]].arg
Err == Code[call[depth]][loc[depth]].err
Goto(l) == loc' = [loc EXCEPT ![depth] = l]
Next1 == Goto(loc[depth] + 1)
Error == Err # 0 /\ Goto(Err)

(* sigprocmask(SIG_SETMASK, all signals, &set)                             *)
BlockSignals ==
    /\ At("block")
    /\ set' = [set EXCEPT ![depth] = mask]
    /\ mask' = Signals
    /\ Next1
    /\ UNCHANGED <<proc, depth, st, call, buf, idx, pending, kills, jmp_buf, heapVars, entry>>

(* Mutant: every signal is unblocked, whatever was blocked before.         *)
UnblockSignals_All ==
    /\ At("unblock")
    /\ mask' = {}
    /\ Next1
    /\ UNCHANGED <<proc, depth, st, call, set, buf, idx, pending, kills, jmp_buf, heapVars, entry>>

UnblockSignals ==
    /\ At("unblock")
    /\ mask' = set[depth]
    /\ Next1
    /\ UNCHANGED <<proc, depth, st, call, set, buf, idx, pending, kills, jmp_buf, heapVars, entry>>

(* Unblocking from a set no block_signals has filled: any mask.            *)
UnblockUninit ==
    /\ At("unblock_uninit")
    /\ mask' \in SUBSET Signals
    /\ Next1
    /\ UNCHANGED <<proc, depth, st, call, set, buf, idx, pending, kills, jmp_buf, heapVars, entry>>

(* The program changes its own mask through the host's sigprocmask.        *)
SigProcMask ==
    /\ At("sigprocmask")
    /\ \/ mask' \in SUBSET Signals /\ Next1
       \/ Error /\ UNCHANGED mask
    /\ UNCHANGED <<proc, depth, st, call, set, buf, idx, pending, kills, jmp_buf, heapVars, entry>>

Alloc ==
    /\ At("alloc")
    /\ \/ \E p \in Ptr \ heap :
            /\ heap' = heap \cup {p}
            /\ buf' = [buf EXCEPT ![depth] = [buf[depth] EXCEPT ![Arg] = p]]
            /\ Next1
       \/ Error /\ UNCHANGED <<heap, buf>>
    /\ UNCHANGED <<proc, depth, st, call, set, idx, sigVars, jmp_buf,
                   unfreed, n_elts, elts, entry>>

Free ==
    /\ At("free")
    /\ heap' = heap \ {buf[depth][Arg]}
    /\ buf' = [buf EXCEPT ![depth] = [buf[depth] EXCEPT ![Arg] = NULL]]
    /\ Next1
    /\ UNCHANGED <<proc, depth, st, call, set, idx, sigVars, jmp_buf,
                   unfreed, n_elts, elts, entry>>

(* Mutant: the index is returned zero-based, 0 also meaning failure.       *)
Record_ZeroBased(i) ==
    /\ unfreed' = [unfreed EXCEPT ![i] = buf[depth][Arg]]
    /\ idx' = [idx EXCEPT ![depth] = [idx[depth] EXCEPT ![Arg] = i - 1]]
    /\ Next1

Record(i) ==
    /\ unfreed' = [unfreed EXCEPT ![i] = buf[depth][Arg]]
    /\ idx' = [idx EXCEPT ![depth] = [idx[depth] EXCEPT ![Arg] = i]]
    /\ Next1

(* _wasmjit_add_unfreed_pointer: assert(ptr), then the first free slot,    *)
(* else a slot gained by growing the vector.                               *)
AddUnfreed ==
    /\ At("add")
    /\ buf[depth][Arg] # NULL
    /\ \/ \E i \in 1..n_elts :
            /\ unfreed[i] = NULL
            /\ \A j \in 1..(i - 1) : unfreed[j] # NULL
            /\ Record(i)
            /\ UNCHANGED n_elts
       \/ /\ \A j \in 1..n_elts : unfreed[j] # NULL
          /\ n_elts < MaxSlots
          /\ Record(n_elts + 1)
          /\ n_elts' = n_elts + 1
    /\ UNCHANGED <<proc, depth, st, call, set, buf, sigVars, jmp_buf,
                   heap, elts, entry>>

(* wasmjit_vector_set_size frees elts and keeps n_elts when realloc fails: *)
(* from then on the table is whatever the freed storage holds.             *)
AddUnfreedFails ==
    /\ At("add")
    /\ ReallocFails
    /\ \A j \in 1..n_elts : unfreed[j] # NULL
    /\ elts' = "freed"
    /\ unfreed' \in [Slots -> PtrOrNull]
    /\ Error
    /\ UNCHANGED <<proc, depth, st, call, set, buf, idx, sigVars, jmp_buf,
                   heap, n_elts, entry>>

(* _wasmjit_remove_unfreed_pointer.  No host function uses ptr_idx_b after *)
(* it, so the model clears it.                                             *)
RemoveUnfreed ==
    /\ At("remove")
    /\ unfreed' = [i \in Slots |-> IF i = idx[depth][Arg] THEN NULL ELSE unfreed[i]]
    /\ idx' = [idx EXCEPT ![depth] = [idx[depth] EXCEPT ![Arg] = 0]]
    /\ Next1
    /\ UNCHANGED <<proc, depth, st, call, set, buf, sigVars, jmp_buf,
                   heap, n_elts, elts, entry>>

(* An unconditional jump.                                                  *)
Jump ==
    /\ At("goto")
    /\ Error
    /\ UNCHANGED <<proc, depth, st, call, set, buf, idx, sigVars, jmp_buf, heapVars, entry>>

(* A test of the arguments or of a result, a system call that may block, a *)
(* call of a libc function that is not async-signal-safe.                  *)
Proceed(op) ==
    /\ At(op)
    /\ Next1 \/ Error
    /\ UNCHANGED <<proc, depth, st, call, set, buf, idx, sigVars, jmp_buf, heapVars, entry>>

(* execve: either it fails and returns, or the process image is replaced.  *)
Exec ==
    /\ At("exec")
    /\ proc' \in {"running", "replaced"}
    /\ Next1
    /\ UNCHANGED <<depth, st, call, set, buf, idx, sigVars, jmp_buf, heapVars, entry>>

(* wasmjit_invoke_function of an export: malloc, free, ___errno_location,  *)
(* stackSave, stackRestore.                                                *)
InvokeHelper ==
    /\ At("invoke")
    /\ Push(st, "test")
    /\ Next1
    /\ UNCHANGED <<proc, call, set, buf, idx, sigVars, jmp_buf, heapVars>>

(* wasmjit_emscripten_internal_abort, and _exit                            *)
Abort == At("abort") /\ wasmjit_trap

Return ==
    /\ At("return")
    /\ Pop
    /\ UNCHANGED <<proc, sigVars, jmp_buf, heapVars>>

-----------------------------------------------------------------------------
InvokeStep == InvokeRaw \/ InvokeTest \/ InvokeSet \/ InvokeSave \/ InvokeClear \/ InvokeReturn
SignalStep == HandlerInvoke \/ HandlerSkip \/ SigReturn
MaskStep == BlockSignals \/ UnblockSignals \/ UnblockUninit \/ SigProcMask
HeapStep == Alloc \/ Free \/ AddUnfreed \/ AddUnfreedFails \/ RemoveUnfreed
CallStep ==
    \/ MaskStep
    \/ HeapStep
    \/ Jump
    \/ Proceed("branch")
    \/ Proceed("libc")
    \/ Exec
    \/ InvokeHelper
    \/ Abort
    \/ Return

(* A crashed or replaced process takes no further step.                    *)
Ended == proc # "running" /\ UNCHANGED vars

Next ==
    \/ InvokeMain
    \/ StackAlloc
    \/ InvokeStep
    \/ WasmReturn
    \/ WasmTrap
    \/ \E c \in Calls : Call(c)
    \/ \E s \in Signals : Kill(s)
    \/ \E s \in Signals, m \in SUBSET Signals : Deliver(s, m)
    \/ SignalStep
    \/ CallStep
    \/ Proceed("sys")
    \/ Ended

Spec == Init /\ [][Next]_vars

-----------------------------------------------------------------------------
(* What the code promises.                                                 *)

(* Frame d executes, or was interrupted while executing, work that is not  *)
(* async-signal-safe.                                                      *)
InLibc(d) ==
    /\ st[d] = "call"
    /\ Code[call[d]][loc[d]].op \in {"alloc", "free", "add", "remove", "libc"}

(* "We must block signals when calling non-async safe functions because we *)
(* may siglongjmp during signal handlers, and we can't leave those         *)
(* functions in incomplete states" (_wasmjit_block_signals): malloc, free, *)
(* the unfreed_pointers table and other libc state are only touched with   *)
(* every signal blocked and no handler running on top, so that no handler  *)
(* can abandon them half way.                                              *)
NoInterruptedLibc ==
    \A d \in 1..depth : InLibc(d) =>
        /\ mask = Signals
        /\ \A e \in (d + 1)..depth : st[e] \notin {"handler", "sigreturn"}

(* A heap buffer is never lost to a trap: whatever the trap abandons, each *)
(* allocated buffer is in ctx->unfreed_pointers, or in a local of the      *)
(* function on top of the stack, with all signals blocked so that nothing  *)
(* can take control away from it before it records or frees the buffer.    *)
UnfreedTracked ==
    elts = "live" =>
        \A p \in heap :
            \/ \E i \in 1..n_elts : unfreed[i] = p
            \/ /\ depth > 0
               /\ st[depth] = "call"
               /\ \E b \in Bufs : buf[depth][b] = p
               /\ mask = Signals

(* No double free and no stale record: a recorded pointer is allocated,    *)
(* recorded once, and the slot a frame remembers still holds its buffer,   *)
(* whatever other frames added and removed meanwhile.                      *)
RecordedOnce ==
    elts = "live" =>
        /\ \A i \in 1..n_elts : unfreed[i] # NULL => unfreed[i] \in heap
        /\ \A i, j \in 1..n_elts : unfreed[i] = unfreed[j] /\ i # j => unfreed[i] = NULL
        /\ \A d \in 1..depth, b \in Bufs :
              idx[d][b] # 0 => /\ idx[d][b] <= n_elts
                               /\ buf[d][b] # NULL
                               /\ unfreed[idx[d][b]] = buf[d][b]

(* The jmp_buf in thread-local storage belongs to a live frame of          *)
(* wasmjit_invoke_function, and every frame that published one is that     *)
(* frame: a handler that runs between the test and the publication, or     *)
(* nested invocations, never leave a stale or a foreign jmp_buf behind.    *)
(* That it is filled when a trap uses it is not claimed: a handler that    *)
(* traps between the publication and sigsetjmp ends in "crashed".          *)
JmpBufLive ==
    /\ jmp_buf # 0 => jmp_buf <= depth
    /\ \A d \in 1..depth : st[d] \in {"save", "run", "clear"} <=> jmp_buf = d

(* A host function that does not mean to change the mask returns to        *)
(* WebAssembly with the mask it was called with, whatever handlers ran and *)
(* whatever they did to the mask. Host functions that are not Disciplined  *)
(* may fail this, and some do.                                             *)
MaskChanging(c) == \E l \in DOMAIN Code[c] : Code[c][l].op = "sigprocmask"
MaskRestored ==
    [][Return => MaskChanging(call[depth]) \/ mask = entry[depth]]_vars

=============================================================================
