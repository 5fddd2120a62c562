---------------------------- MODULE HostCallLive ----------------------------
(***************************************************************************)
(* Liveness of HostCall: the process stays responsive to signals.          *)
(*                                                                         *)
(* Fairness: the thread is scheduled, so native code that is not waiting   *)
(* goes on; the kernel delivers a pending signal when the thread lets it;  *)
(* malloc, free and the other exports the runtime itself calls return.     *)
(* Nothing is assumed of the program's own WebAssembly code, which may     *)
(* loop, nor of system calls, which may wait for ever.                     *)
(***************************************************************************)
EXTENDS HostCall

DeliverAny(s) == \E m \in SUBSET Signals : Deliver(s, m)

HelperReturn == HelperContext /\ WasmReturn

FairSpec ==
    /\ Spec
    /\ WF_vars(InvokeStep)
    /\ WF_vars(SignalStep)
    /\ WF_vars(CallStep)
    /\ SF_vars(HelperReturn)
    /\ \A s \in Signals : SF_vars(DeliverAny(s))

(* "It's better to not block signals while calling it, otherwise we may    *)
(* make the process annoyingly resistant to signals (like SIGINT, i.e.     *)
(* Ctrl-C)" (writev): a signal sent to the process is delivered, even when *)
(* the system call the thread is in never returns and the WebAssembly code *)
(* never leaves its loop.                                                  *)
SignalsDelivered ==
    \A s \in Signals : s \in pending ~> (s \notin pending \/ proc # "running")
=============================================================================
