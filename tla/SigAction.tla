----------------------------- MODULE SigAction -----------------------------
(***************************************************************************)
(* Signal handlers of the program: the host function _sigaction, the       *)
(* native handler _wasmjit_emscripten_sigaction_handler, and the global    *)
(* _g_handler_ctx that connects the two.  A signal can arrive between any  *)
(* two memory accesses of the native code.                                 *)
(*                                                                         *)
(* The kernel knows one native handler; which WebAssembly function it runs *)
(* is in ctx->sig_handlers, which _sigaction updates after the system call *)
(* and field by field.                                                     *)
(***************************************************************************)
EXTENDS Naturals

CONSTANTS
    Signals,     \* the signals of the program
    NULL,        \* no signal
    Acts,        \* the struct em_sigaction values the program passes
    Disciplined, \* whether the program follows the discipline of Allowed
    MaxKills,    \* bound on the signals sent
    MaxDepth     \* bound on the number of frames

EM_SIG_DFL == 0
EM_SIG_IGN == 1
Native == {EM_SIG_DFL, EM_SIG_IGN}

(* An entry of ctx->sig_handlers.                                          *)
Entries == [siginfo : BOOLEAN, handler : Nat]
DefaultEntry == [siginfo |-> FALSE, handler |-> EM_SIG_DFL]
EntryOf(a) == [siginfo |-> a.siginfo, handler |-> a.handler]

(* blocked: sa_mask, and the signal itself unless SA_NODEFER is given;     *)
(* resethand: SA_RESETHAND.                                                *)
ASSUME ActsAssumption ==
    \A a \in Acts :
        EntryOf(a) \in Entries /\ a.blocked \subseteq Signals /\ a.resethand \in BOOLEAN

ASSUME BoundsAssumption ==
    /\ NULL \notin Signals
    /\ Disciplined \in BOOLEAN
    /\ MaxKills \in Nat
    /\ MaxDepth \in Nat \ {0}

Frames == 1..MaxDepth
ProgramPcs == {"init", "setting", "publish", "published", "main", "cleanup", "removing",
               "removed", "stopped"}
SigactionPcs == {"sys", "old", "old_flag", "flag", "store", "return"}
HandlerPcs == {"handler", "lookup", "fptr", "assert", "sigreturn"}
Pcs == ProgramPcs \cup SigactionPcs \cup HandlerPcs \cup {"none", "wasm"}

VARIABLES
    proc,          \* "running", "killed" (default action) or "assert" (failed assertion)
    depth,         \* number of frames
    frame,         \* frame[d]: pc and locals of frame d
    ctx,           \* _g_handler_ctx: "null" or "set"
    setting,       \* _g_handler_setting
    sig_handlers,  \* ctx->sig_handlers
    action,        \* the kernel's disposition: "dfl", "ign" or "handler"
    sa_mask,       \* the kernel's record of the signals the handler blocks
    sa_flags,      \* the kernel's record of SA_SIGINFO and SA_RESETHAND
    mask, pending, kills,
    accepted,      \* history: the entry of the last action the kernel accepted
    changed        \* history: the signals whose action the program has set

vars == <<proc, depth, frame, ctx, setting, sig_handlers, action, sa_mask, sa_flags,
          mask, pending, kills, accepted, changed>>
contextVars == <<ctx, setting>>
kernelVars == <<action, sa_mask, sa_flags, accepted, changed>>

NoAct == [siginfo |-> FALSE, handler |-> EM_SIG_DFL, blocked |-> Signals, resethand |-> FALSE]
Flags == [siginfo : BOOLEAN, resethand : BOOLEAN]

(* pc, sig: the signal handled or configured; act, query: arguments of     *)
(* _sigaction; entry: what was read so far of the handler to call, or of   *)
(* oldact; before: history, accepted[sig] at the system call; saved: the   *)
(* mask to restore.                                                        *)
NewFrame(p, s, m) ==
    [pc |-> p, sig |-> s, act |-> NoAct, query |-> FALSE, entry |-> DefaultEntry,
     before |-> DefaultEntry, saved |-> m]

FrameRecords ==
    [pc : Pcs, sig : Signals \cup {NULL}, act : Acts \cup {NoAct}, query : BOOLEAN,
     entry : Entries, before : Entries, saved : SUBSET Signals]

TypeOK ==
    /\ proc \in {"running", "killed", "assert"}
    /\ depth \in Frames
    /\ frame \in [Frames -> FrameRecords]
    /\ \A d \in Frames :
        /\ frame[d].pc = "none" <=> d > depth
        /\ frame[d].pc \in ProgramPcs <=> d = 1
    /\ ctx \in {"null", "set"}
    /\ setting \in BOOLEAN
    /\ sig_handlers \in [Signals -> Entries]
    /\ action \in [Signals -> {"dfl", "ign", "handler"}]
    /\ sa_mask \in [Signals -> SUBSET Signals]
    /\ sa_flags \in [Signals -> Flags]
    /\ mask \subseteq Signals
    /\ pending \subseteq Signals
    /\ kills \in 0..MaxKills
    /\ accepted \in [Signals -> Entries]
    /\ changed \subseteq Signals

(* A process may be started with signals ignored; the table does not know. *)
Init ==
    /\ proc = "running"
    /\ depth = 1
    /\ frame = [d \in Frames |-> NewFrame(IF d = 1 THEN "init" ELSE "none", NULL, {})]
    /\ ctx = "null"
    /\ setting = FALSE
    /\ sig_handlers = [s \in Signals |-> DefaultEntry]
    /\ action \in [Signals -> {"dfl", "ign"}]
    /\ sa_mask = [s \in Signals |-> {}]
    /\ sa_flags = [s \in Signals |-> [siginfo |-> FALSE, resethand |-> FALSE]]
    /\ mask = {}
    /\ pending = {}
    /\ kills = 0
    /\ accepted = [s \in Signals |-> DefaultEntry]
    /\ changed = {}

-----------------------------------------------------------------------------
At(p) == proc = "running" /\ frame[depth].pc = p
Goto(p) == frame' = [frame EXCEPT ![depth].pc = p]
Push(top, f) ==
    /\ depth < MaxDepth
    /\ depth' = depth + 1
    /\ frame' = [frame EXCEPT ![depth] = top, ![depth + 1] = f]
Pop ==
    /\ depth' = depth - 1
    /\ frame' = [frame EXCEPT ![depth] = NewFrame("none", NULL, {})]

(* wasmjit_emscripten_init clears the table of the new context, then       *)
(* set_signal_context publishes it.                                        *)
InitTable ==
    /\ At("init")
    /\ sig_handlers' = [s \in Signals |-> DefaultEntry]
    /\ Goto("setting")
    /\ UNCHANGED <<proc, depth, ctx, setting, kernelVars, mask, pending, kills>>

(* _g_handler_setting = 1, on the way in or on the way out                 *)
BeginSetting(from, to) ==
    /\ At(from)
    /\ setting' = TRUE
    /\ Goto(to)
    /\ UNCHANGED <<proc, depth, ctx, sig_handlers, kernelVars, mask, pending, kills>>

(* assert(_g_handler_ctx == NULL); _g_handler_ctx = ctx                    *)
PublishContext ==
    /\ At("publish")
    /\ IF ctx = "null"
       THEN ctx' = "set" /\ Goto("published") /\ UNCHANGED proc
       ELSE proc' = "assert" /\ UNCHANGED <<ctx, frame>>
    /\ UNCHANGED <<depth, setting, sig_handlers, kernelVars, mask, pending, kills>>

(* _g_handler_setting = 0, then wasmjit_invoke_function of main            *)
InvokeMain ==
    /\ At("published")
    /\ setting' = FALSE
    /\ Push([frame[1] EXCEPT !.pc = "main", !.saved = mask], NewFrame("wasm", NULL, {}))
    /\ UNCHANGED <<proc, ctx, sig_handlers, kernelVars, mask, pending, kills>>

(* main has returned or trapped: wasmjit_emscripten_cleanup                *)
MainReturned ==
    /\ At("main")
    /\ Goto("cleanup")
    /\ UNCHANGED <<proc, depth, contextVars, sig_handlers, kernelVars, mask, pending, kills>>

RemoveContext ==
    /\ At("removing")
    /\ ctx' = "null"
    /\ Goto("removed")
    /\ UNCHANGED <<proc, depth, setting, sig_handlers, kernelVars, mask, pending, kills>>

EndSetting ==
    /\ At("removed")
    /\ setting' = FALSE
    /\ Goto("stopped")
    /\ UNCHANGED <<proc, depth, ctx, sig_handlers, kernelVars, mask, pending, kills>>

-----------------------------------------------------------------------------
(* WebAssembly code.                                                       *)

(* The discipline: handlers are changed with every signal blocked, and a   *)
(* handler runs with every signal blocked until it unblocks some itself.   *)
Allowed(a) ==
    Disciplined => mask = Signals /\ (a.handler \notin Native => a.blocked = Signals)

(* _sigaction(s, act, .); query stands for act == NULL.                    *)
CallSigaction(s, a, q) ==
    /\ At("wasm")
    /\ Allowed(a)
    /\ Push(frame[depth], [NewFrame("sys", s, {}) EXCEPT !.act = a, !.query = q])
    /\ UNCHANGED <<proc, contextVars, sig_handlers, kernelVars, mask, pending, kills>>

SigProcMask(m) ==
    /\ At("wasm")
    /\ mask' = m
    /\ UNCHANGED <<proc, depth, frame, contextVars, sig_handlers, kernelVars, pending, kills>>

WasmReturn ==
    /\ At("wasm")
    /\ Pop
    /\ UNCHANGED <<proc, contextVars, sig_handlers, kernelVars, mask, pending, kills>>

(* A trap unwinds to the invocation of main, or, in a handler that runs    *)
(* outside main, to the handler's own wasmjit_invoke_function.             *)
WasmTrap ==
    /\ At("wasm")
    /\ IF frame[1].pc = "main"
       THEN /\ depth' = 1
            /\ mask' = frame[1].saved
            /\ frame' = [d \in Frames |-> IF d = 1 THEN frame[1]
                                          ELSE NewFrame("none", NULL, {})]
       ELSE Pop /\ UNCHANGED mask
    /\ UNCHANGED <<proc, contextVars, sig_handlers, kernelVars, pending, kills>>

-----------------------------------------------------------------------------
(* _sigaction.                                                             *)

Cur == frame[depth]

(* Any of the checks, or the system call, fails: ____setErrNo, return -1.  *)
SigactionFails ==
    /\ At("sys")
    /\ Pop
    /\ UNCHANGED <<proc, contextVars, sig_handlers, kernelVars, mask, pending, kills>>

(* The conversion of the handler to what the kernel is given.              *)
NativeAction(h) ==
    CASE h = EM_SIG_DFL -> "dfl"
      [] h = EM_SIG_IGN -> "ign"
      [] OTHER -> "handler"

(* sys_sigaction succeeds.  The native handler is always installed with    *)
(* SA_SIGINFO, and the flags of the action that is replaced are the answer.*)
SigactionSys ==
    /\ At("sys")
    /\ IF Cur.query
       THEN UNCHANGED kernelVars
       ELSE /\ action' = [action EXCEPT ![Cur.sig] = NativeAction(Cur.act.handler)]
            /\ sa_mask' = [sa_mask EXCEPT ![Cur.sig] = Cur.act.blocked]
            /\ sa_flags' = [sa_flags EXCEPT
                              ![Cur.sig] = [siginfo |-> Cur.act.handler \notin Native,
                                            resethand |-> Cur.act.resethand]]
            /\ accepted' = [accepted EXCEPT ![Cur.sig] = EntryOf(Cur.act)]
            /\ changed' = changed \cup {Cur.sig}
    /\ frame' = [frame EXCEPT ![depth].pc = "old", ![depth].before = accepted[Cur.sig],
                              ![depth].entry.siginfo = sa_flags[Cur.sig].siginfo]
    /\ UNCHANGED <<proc, depth, contextVars, sig_handlers, mask, pending, kills>>

(* Mutant: oldact is taken from the new action.                            *)
SigactionOld_New ==
    /\ At("old")
    /\ frame' = [frame EXCEPT ![depth].pc = "old_flag",
                              ![depth].entry.handler = Cur.act.handler]
    /\ UNCHANGED <<proc, depth, contextVars, sig_handlers, kernelVars, mask, pending, kills>>

(* oldact_v.__sa_handler is ctx->sig_handlers[signum].handler, not the     *)
(* kernel's answer.                                                        *)
SigactionOld ==
    /\ At("old")
    /\ frame' = [frame EXCEPT ![depth].pc = "old_flag",
                              ![depth].entry.handler = sig_handlers[Cur.sig].handler]
    /\ UNCHANGED <<proc, depth, contextVars, sig_handlers, kernelVars, mask, pending, kills>>

(* if (ctx->sig_handlers[signum].is_sigaction), EM_SA_SIGINFO is added to  *)
(* the flags of the kernel's answer.                                       *)
SigactionOldFlag ==
    /\ At("old_flag")
    /\ frame' = [frame EXCEPT
                    ![depth].pc = IF Cur.query THEN "return" ELSE "flag",
                    ![depth].entry.siginfo = Cur.entry.siginfo \/ sig_handlers[Cur.sig].siginfo]
    /\ UNCHANGED <<proc, depth, contextVars, sig_handlers, kernelVars, mask, pending, kills>>

(* Mutant: is_sigaction is set but never cleared.                          *)
SigactionFlag_Sticky ==
    /\ At("flag")
    /\ sig_handlers' = [sig_handlers EXCEPT
                          ![Cur.sig].siginfo = Cur.act.siginfo \/ sig_handlers[Cur.sig].siginfo]
    /\ Goto("store")
    /\ UNCHANGED <<proc, depth, contextVars, kernelVars, mask, pending, kills>>

(* ctx->sig_handlers[signum].is_sigaction = ...                            *)
SigactionFlag ==
    /\ At("flag")
    /\ sig_handlers' = [sig_handlers EXCEPT ![Cur.sig].siginfo = Cur.act.siginfo]
    /\ Goto("store")
    /\ UNCHANGED <<proc, depth, contextVars, kernelVars, mask, pending, kills>>

(* ctx->sig_handlers[signum].handler = ...                                 *)
SigactionStore ==
    /\ At("store")
    /\ sig_handlers' = [sig_handlers EXCEPT ![Cur.sig].handler = Cur.act.handler]
    /\ Goto("return")
    /\ UNCHANGED <<proc, depth, contextVars, kernelVars, mask, pending, kills>>

SigactionReturn ==
    /\ At("return")
    /\ Pop
    /\ UNCHANGED <<proc, contextVars, sig_handlers, kernelVars, mask, pending, kills>>

-----------------------------------------------------------------------------
(* Signals.                                                                *)

Kill(s) ==
    /\ proc = "running"
    /\ kills < MaxKills
    /\ s \notin pending
    /\ pending' = pending \cup {s}
    /\ kills' = kills + 1
    /\ UNCHANGED <<proc, depth, frame, contextVars, sig_handlers, kernelVars, mask>>

(* The kernel starts the native handler, which restores mask at its end.   *)
(* With SA_RESETHAND the action becomes SIG_DFL first; the flags stay.     *)
Deliver(s) ==
    /\ proc = "running"
    /\ s \in pending \ mask
    /\ action[s] = "handler"
    /\ pending' = pending \ {s}
    /\ mask' = mask \cup sa_mask[s]
    /\ action' = [action EXCEPT ![s] = IF sa_flags[s].resethand THEN "dfl" ELSE @]
    /\ Push(frame[depth], NewFrame("handler", s, mask))
    /\ UNCHANGED <<proc, contextVars, sig_handlers, sa_mask, sa_flags, accepted, changed, kills>>

(* The default action kills the process or does nothing; SIG_IGN drops.    *)
Discard(s) ==
    /\ proc = "running"
    /\ s \in pending \ mask
    /\ action[s] # "handler"
    /\ pending' = pending \ {s}
    /\ proc' \in IF action[s] = "dfl" THEN {"killed", "running"} ELSE {"running"}
    /\ UNCHANGED <<depth, frame, contextVars, sig_handlers, kernelVars, mask, kills>>

(* if (_g_handler_setting) return; ctx = _g_handler_ctx; if (!ctx) return  *)
HandlerEnter ==
    /\ At("handler")
    /\ Goto(IF setting \/ ctx = "null" THEN "sigreturn" ELSE "lookup")
    /\ UNCHANGED <<proc, depth, contextVars, sig_handlers, kernelVars, mask, pending, kills>>

(* Mutant: every handler is taken for a one-argument handler.              *)
HandlerLookup_Plain ==
    /\ At("lookup")
    /\ Goto("fptr")
    /\ UNCHANGED <<proc, depth, contextVars, sig_handlers, kernelVars, mask, pending, kills>>

(* if (ctx->sig_handlers[em_signum].is_sigaction)                          *)
HandlerLookup ==
    /\ At("lookup")
    /\ frame' = [frame EXCEPT ![depth].pc = "fptr",
                              ![depth].entry.siginfo = sig_handlers[Cur.sig].siginfo]
    /\ UNCHANGED <<proc, depth, contextVars, sig_handlers, kernelVars, mask, pending, kills>>

(* Mutant: fptr is never loaded from the table.                            *)
HandlerFptr_Unread ==
    /\ At("fptr")
    /\ Goto("assert")
    /\ UNCHANGED <<proc, depth, contextVars, sig_handlers, kernelVars, mask, pending, kills>>

(* fptr = ...; if (!funcinst) return, when the dynCall export is missing   *)
HandlerFptr ==
    /\ At("fptr")
    /\ \E p \in {"assert", "sigreturn"} :
         frame' = [frame EXCEPT ![depth].pc = p,
                                ![depth].entry.handler = sig_handlers[Cur.sig].handler]
    /\ UNCHANGED <<proc, depth, contextVars, sig_handlers, kernelVars, mask, pending, kills>>

(* assert(fptr != EM_SIG_IGN); assert(fptr != EM_SIG_DFL); then invoke it  *)
HandlerInvoke ==
    /\ At("assert")
    /\ IF Cur.entry.handler \in Native
       THEN proc' = "assert" /\ UNCHANGED <<depth, frame>>
       ELSE /\ Push([Cur EXCEPT !.pc = "sigreturn"], NewFrame("wasm", NULL, {}))
            /\ UNCHANGED proc
    /\ UNCHANGED <<contextVars, sig_handlers, kernelVars, mask, pending, kills>>

SigReturn ==
    /\ At("sigreturn")
    /\ mask' = Cur.saved
    /\ Pop
    /\ UNCHANGED <<proc, contextVars, sig_handlers, kernelVars, pending, kills>>

-----------------------------------------------------------------------------
ContextStep ==
    \/ InitTable
    \/ BeginSetting("setting", "publish")
    \/ PublishContext
    \/ InvokeMain
    \/ MainReturned
    \/ BeginSetting("cleanup", "removing")
    \/ RemoveContext
    \/ EndSetting
SigactionStep ==
    SigactionFails \/ SigactionSys \/ SigactionOld \/ SigactionOldFlag \/ SigactionFlag
    \/ SigactionStore \/ SigactionReturn
HandlerStep == HandlerEnter \/ HandlerLookup \/ HandlerFptr \/ HandlerInvoke \/ SigReturn
WasmStep ==
    \/ \E s \in Signals, a \in Acts, q \in BOOLEAN : CallSigaction(s, a, q)
    \/ \E m \in {{}, Signals} : SigProcMask(m)
    \/ WasmReturn
    \/ WasmTrap

Ended == (proc # "running" \/ frame[1].pc = "stopped") /\ UNCHANGED vars

Next ==
    \/ ContextStep
    \/ WasmStep
    \/ SigactionStep
    \/ HandlerStep
    \/ \E s \in Signals : Kill(s) \/ Deliver(s) \/ Discard(s)
    \/ Ended

Spec == Init /\ [][Next]_vars

-----------------------------------------------------------------------------
(* "assert(fptr != EM_SIG_IGN); assert(fptr != EM_SIG_DFL)": whenever the  *)
(* native handler runs, the table holds a function for its signal.         *)
HandlerDefined ==
    \A d \in 1..depth : frame[d].pc = "assert" => frame[d].entry.handler \notin Native

(* The native handler calls the function of the action the kernel accepted *)
(* last for the signal, through the dynCall of that same action, never a   *)
(* mixture of two actions.                                                 *)
HandlerCurrent ==
    \A d \in 1..depth : frame[d].pc = "assert" => frame[d].entry = accepted[frame[d].sig]

(* _sigaction reports as oldact the function of the action its own call    *)
(* replaced, as the program last gave it, although it reads the table      *)
(* field by field after the system call.  The flag it reports is           *)
(* SA_SIGINFO for every function, plain handlers included: the kernel's    *)
(* flags, which have it for the native handler, are where it starts from.  *)
(* Where the kernel's own disposition differs from what the program last   *)
(* gave, oldact does not tell (see TableAgrees).                           *)
Told(f) ==
    /\ f.entry.handler = f.before.handler
    /\ f.entry.siginfo <=> (f.before.siginfo \/ f.before.handler \notin Native)
OldActTold == \A d \in 1..depth : frame[d].pc = "return" => Told(frame[d])

(* When no _sigaction of a signal is in progress the table holds the       *)
(* action the program gave last, and the kernel's disposition is that      *)
(* action, with two exceptions the table cannot know of: a handler with    *)
(* SA_RESETHAND that has run, which the kernel has reset to SIG_DFL, and a *)
(* signal that was ignored when the process was started.                   *)
InProgress(s) ==
    \E d \in 1..depth :
        frame[d].pc \in {"old", "old_flag", "flag", "store"} /\ frame[d].sig = s
Stands(s) ==
    \/ action[s] = NativeAction(accepted[s].handler)
    \/ action[s] = "dfl" /\ sa_flags[s].resethand
    \/ action[s] = "ign" /\ s \notin changed
TableAgrees ==
    \A s \in Signals : ~InProgress(s) => sig_handlers[s] = accepted[s] /\ Stands(s)
=============================================================================
