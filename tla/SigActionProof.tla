--------------------------- MODULE SigActionProof ---------------------------
(***************************************************************************)
(* In a program that follows the discipline of Allowed, for any signals,   *)
(* actions, number of kills and depth of frames, the native handler finds  *)
(* the function of the current action and the table agrees with the        *)
(* kernel.                                                                 *)
(*                                                                         *)
(* The invariants of SigAction are not inductive: they hold because the    *)
(* steps of _sigaction and of the native handler up to its assertions run  *)
(* with every signal blocked, so that nothing comes between them (Quiet),  *)
(* and because the kernel blocks every signal when it starts the handler   *)
(* (Covered).  Handling and Storing say what each of the steps has read    *)
(* and written so far.                                                     *)
(***************************************************************************)
EXTENDS SigAction, TLAPS

(* Leaves that name no prover: how long each is tried, and in which order. *)
USE SMTT(20), ZenonT(20), SMTT(40), Z3T(60)

(* The native handler before it calls WebAssembly.                         *)
EarlyPcs == {"handler", "lookup", "fptr", "assert"}
BusyPcs == SigactionPcs \cup EarlyPcs

Quiet ==
    \A d \in Frames : frame[d].pc \in BusyPcs =>
        d = depth /\ mask = Signals /\ frame[d].sig \in Signals

Covered ==
    \A s \in Signals :
        /\ action[s] = "handler" => sa_mask[s] = Signals /\ accepted[s].handler \notin Native
        /\ sa_flags[s].siginfo <=> accepted[s].handler \notin Native
        /\ Stands(s)

Handling ==
    \A d \in Frames :
        /\ frame[d].pc \in EarlyPcs => accepted[frame[d].sig].handler \notin Native
        /\ frame[d].pc \in {"fptr", "assert"} =>
             frame[d].entry.siginfo = sig_handlers[frame[d].sig].siginfo
        /\ frame[d].pc = "assert" =>
             frame[d].entry.handler = sig_handlers[frame[d].sig].handler

Storing ==
    \A d \in Frames :
        /\ frame[d].pc \in SigactionPcs /\ frame[d].act.handler \notin Native =>
             frame[d].act.blocked = Signals
        /\ frame[d].pc \in {"old", "old_flag"} =>
             /\ frame[d].entry.siginfo <=> frame[d].before.handler \notin Native
             /\ frame[d].before = sig_handlers[frame[d].sig]
             /\ accepted[frame[d].sig] = IF frame[d].query THEN sig_handlers[frame[d].sig]
                                         ELSE EntryOf(frame[d].act)
        /\ frame[d].pc \in {"flag", "store"} => accepted[frame[d].sig] = EntryOf(frame[d].act)
        /\ frame[d].pc = "old_flag" => frame[d].entry.handler = frame[d].before.handler
        /\ frame[d].pc \in {"flag", "store", "return"} => Told(frame[d])
        /\ frame[d].pc = "store" => sig_handlers[frame[d].sig].siginfo = frame[d].act.siginfo

Agreeing ==
    /\ frame[1].pc = "init" => depth = 1 /\ \A s \in Signals : accepted[s] = DefaultEntry
    /\ \A s \in Signals : ~InProgress(s) => sig_handlers[s] = accepted[s]

(* What TypeOK says of the kernel.                                         *)
KernelType ==
    /\ action \in [Signals -> {"dfl", "ign", "handler"}]
    /\ sa_mask \in [Signals -> SUBSET Signals]
    /\ sa_flags \in [Signals -> Flags]
    /\ accepted \in [Signals -> Entries]
    /\ changed \subseteq Signals

Inv == TypeOK /\ Quiet /\ Covered /\ Handling /\ Storing /\ Agreeing

-----------------------------------------------------------------------------
(* Frames.                                                                 *)

(* The strings used as program counters are the elements of Pcs.           *)
LEMMA NewFrameType ==
    ASSUME NEW p \in Pcs, NEW s \in Signals \cup {NULL}, NEW m \in SUBSET Signals
    PROVE  /\ NewFrame(p, s, m) \in FrameRecords
           /\ NewFrame(p, s, m).pc = p
           /\ NewFrame(p, s, m).sig = s
           /\ NewFrame(p, s, m).saved = m
           /\ NewFrame(p, s, m).query = FALSE
<1>1. DefaultEntry \in Entries
  BY ZenonT(60) DEF DefaultEntry, Entries, EM_SIG_DFL
<1>. QED  BY ZenonT(60), <1>1 DEF NewFrame, FrameRecords

(* The frame that nobody uses is a frame.                                  *)
LEMMA EmptyFrame ==
    NewFrame("none", NULL, {}) \in FrameRecords /\ NewFrame("none", NULL, {}).pc = "none"
<1>1. "none" \in Pcs /\ NULL \in Signals \cup {NULL} /\ {} \in SUBSET Signals
  BY ZenonT(60) DEF Pcs
<1>2. DefaultEntry \in Entries
  BY ZenonT(60) DEF DefaultEntry, Entries, EM_SIG_DFL
<1>. QED  BY ZenonT(60), <1>1, <1>2 DEF NewFrame, FrameRecords

(* Frame 1 exists, and depth is one of the frames.                         *)
LEMMA DepthType == TypeOK => depth \in Frames /\ 1 \in Frames /\ depth \in Nat
BY BoundsAssumption DEF TypeOK, Frames

(* Goto changes the program counter of the running frame only.             *)
LEMMA GotoFrames ==
    ASSUME TypeOK, NEW p \in Pcs, Goto(p)
    PROVE  /\ frame' \in [Frames -> FrameRecords]
           /\ \A d \in Frames : d # depth => frame'[d] = frame[d]
           /\ frame'[depth] = [frame[depth] EXCEPT !.pc = p]
           /\ frame'[depth].pc = p
<1>1. frame \in [Frames -> FrameRecords] /\ depth \in Frames
  BY ZenonT(60), DepthType DEF TypeOK
<1>2. frame' = [frame EXCEPT ![depth] = [frame[depth] EXCEPT !.pc = p]]
  BY ZenonT(60) DEF Goto
<1>3. [frame[depth] EXCEPT !.pc = p] \in FrameRecords
  BY ZenonT(60), <1>1 DEF FrameRecords
<1>. QED  BY ZenonT(60), <1>1, <1>2, <1>3 DEF FrameRecords

(* Push replaces the running frame and adds one.                           *)
LEMMA PushFrames ==
    ASSUME TypeOK, NEW t \in FrameRecords, NEW f \in FrameRecords, Push(t, f)
    PROVE  /\ frame' \in [Frames -> FrameRecords]
           /\ depth' = depth + 1 /\ depth' \in Frames /\ depth + 1 \in Frames
           /\ \A d \in Frames : d # depth /\ d # depth + 1 => frame'[d] = frame[d]
           /\ frame'[depth] = t
           /\ frame'[depth + 1] = f
<1>1. frame \in [Frames -> FrameRecords] /\ depth \in Frames /\ depth \in Nat
  BY ZenonT(60), DepthType DEF TypeOK
<1>2. depth + 1 \in Frames /\ depth' = depth + 1
  BY <1>1, BoundsAssumption DEF Push, Frames
<1>. QED  BY <1>1, <1>2 DEF Push

(* Pop removes the running frame.                                          *)
LEMMA PopFrames ==
    ASSUME TypeOK, depth # 1, Pop
    PROVE  /\ frame' \in [Frames -> FrameRecords]
           /\ depth' = depth - 1 /\ depth' \in Frames
           /\ \A d \in Frames : d # depth => frame'[d] = frame[d]
           /\ frame'[depth].pc = "none"
<1>1. frame \in [Frames -> FrameRecords] /\ depth \in Frames /\ depth \in Nat
  BY ZenonT(60), DepthType DEF TypeOK
<1>2. depth' = depth - 1 /\ depth' \in Frames
  BY <1>1, BoundsAssumption DEF Pop, Frames
<1>. QED  BY ZenonT(60), <1>1, <1>2, EmptyFrame DEF Pop

-----------------------------------------------------------------------------
(* Steps after which no frame is busy.                                     *)

(* When the running frame is not storing, the table agrees with the kernel.*)
LEMMA AgreedUnlessStoring ==
    ASSUME Inv, frame[depth].pc \notin {"old", "old_flag", "flag", "store"}
    PROVE  \A s \in Signals : sig_handlers[s] = accepted[s]
<1>1. \A s \in Signals : ~InProgress(s)
  BY BoundsAssumption, DepthType DEF Inv, Quiet, InProgress, BusyPcs, SigactionPcs, Frames
<1>. QED  BY ZenonT(60), <1>1 DEF Inv, Agreeing

(* A frame that is not the running one is not busy.                        *)
LEMMA OnlyTopBusy ==
    ASSUME Inv, NEW d \in Frames, d # depth
    PROVE  frame[d].pc \notin BusyPcs
BY ZenonT(60) DEF Inv, Quiet

(* A step after which no frame is inside the table or a handler.           *)
LEMMA CalmStep ==
    ASSUME Inv, TypeOK', UNCHANGED kernelVars,
           \A d \in Frames : frame'[d].pc \notin BusyPcs,
           \A s \in Signals : sig_handlers'[s] = accepted[s],
           frame'[1].pc # "init"
    PROVE  Inv'
<1>1. Quiet' /\ Handling' /\ Storing'
  BY ZenonT(60) DEF Quiet, Handling, Storing, BusyPcs, SigactionPcs, EarlyPcs
<1>2. Covered'
  BY ZenonT(60) DEF Inv, Covered, Stands, kernelVars
<1>3. Agreeing'
  BY ZenonT(60) DEF Inv, Agreeing, kernelVars
<1>. QED  BY ZenonT(60), <1>1, <1>2, <1>3 DEF Inv

(* The running frame moves on and no frame is busy then.                   *)
LEMMA CalmGoto ==
    ASSUME Inv, NEW p \in Pcs, NEW q \in Pcs, frame[depth].pc = q, Goto(p),
           p \notin BusyPcs, p \notin {"none", "init"}, q # "none",
           p \in ProgramPcs <=> q \in ProgramPcs,
           UNCHANGED <<depth, kernelVars, mask, pending, kills>>,
           proc' \in {"running", "killed", "assert"}, ctx' \in {"null", "set"},
           setting' \in BOOLEAN,
           sig_handlers' \in [Signals -> Entries],
           \A s \in Signals : sig_handlers'[s] = accepted[s]
    PROVE  Inv'
<1>1. /\ frame' \in [Frames -> FrameRecords]
      /\ \A d \in Frames : d # depth => frame'[d] = frame[d]
      /\ frame'[depth].pc = p
  BY ZenonT(60), GotoFrames DEF Inv
<1>2. depth \in Frames /\ 1 \in Frames
  BY ZenonT(60), DepthType DEF Inv
<1>3. \A d \in Frames : frame'[d].pc \notin BusyPcs
  BY ZenonT(60), <1>1, OnlyTopBusy
<1>4. frame'[1].pc # "init"
  BY ZenonT(60), <1>1, <1>2 DEF Inv, Agreeing
<1>5. \A d \in Frames : (frame'[d].pc = "none" <=> d > depth)
                        /\ (frame'[d].pc \in ProgramPcs <=> d = 1)
  BY <1>1, <1>2 DEF Inv, TypeOK
<1>6. TypeOK'
  BY ZenonT(60), <1>1, <1>5 DEF Inv, TypeOK, kernelVars
<1>. QED  BY ZenonT(60), <1>3, <1>4, <1>6, CalmStep

(* The running frame ends and the one below it continues.                  *)
LEMMA CalmPop ==
    ASSUME Inv, depth # 1, Pop, frame[depth].pc \notin {"old", "old_flag", "flag", "store"},
           UNCHANGED <<proc, contextVars, sig_handlers, kernelVars, pending, kills>>,
           mask' \subseteq Signals
    PROVE  Inv'
<1>1. /\ frame' \in [Frames -> FrameRecords]
      /\ depth' = depth - 1 /\ depth' \in Frames
      /\ \A d \in Frames : d # depth => frame'[d] = frame[d]
      /\ frame'[depth].pc = "none"
  BY ZenonT(60), PopFrames DEF Inv
<1>2. depth \in Frames /\ 1 \in Frames /\ depth \in Nat
  BY ZenonT(60), DepthType DEF Inv
<1>3. \A d \in Frames : frame'[d].pc \notin BusyPcs
  BY ZenonT(60), <1>1, OnlyTopBusy DEF BusyPcs, SigactionPcs, EarlyPcs
<1>4. frame'[1].pc # "init"
  BY ZenonT(60), <1>1, <1>2 DEF Inv, Agreeing
<1>5. \A d \in Frames : (frame'[d].pc = "none" <=> d > depth')
                        /\ (frame'[d].pc \in ProgramPcs <=> d = 1)
  BY <1>1, <1>2 DEF Inv, TypeOK, ProgramPcs, Frames
<1>6. TypeOK'
  BY ZenonT(60), <1>1, <1>5 DEF Inv, TypeOK, kernelVars, contextVars
<1>7. \A s \in Signals : sig_handlers'[s] = accepted[s]
  BY ZenonT(60), AgreedUnlessStoring
<1>. QED  BY ZenonT(60), <1>3, <1>4, <1>6, <1>7, CalmStep

(* A frame that is not busy is added.                                      *)
LEMMA CalmPush ==
    ASSUME Inv, NEW t \in FrameRecords, NEW f \in FrameRecords, Push(t, f),
           t.pc \notin BusyPcs, f.pc \notin BusyPcs, f.pc # "none", t.pc \notin {"none", "init"},
           t.pc \in ProgramPcs <=> frame[depth].pc \in ProgramPcs,
           f.pc \notin ProgramPcs,
           frame[depth].pc \notin {"old", "old_flag", "flag", "store"},
           UNCHANGED <<proc, ctx, sig_handlers, kernelVars, mask, pending, kills>>,
           setting' \in BOOLEAN
    PROVE  Inv'
<1>1. /\ frame' \in [Frames -> FrameRecords]
      /\ depth' = depth + 1 /\ depth' \in Frames /\ depth + 1 \in Frames
      /\ \A d \in Frames : d # depth /\ d # depth + 1 => frame'[d] = frame[d]
      /\ frame'[depth] = t
      /\ frame'[depth + 1] = f
  BY ZenonT(60), PushFrames DEF Inv
<1>2. depth \in Frames /\ 1 \in Frames /\ depth \in Nat
  BY ZenonT(60), DepthType DEF Inv
<1>3. \A d \in Frames : frame'[d].pc \notin BusyPcs
  BY ZenonT(60), <1>1, OnlyTopBusy
<1>4. frame'[1].pc # "init"
  BY <1>1, <1>2 DEF Inv, Agreeing, Frames
<1>5. \A d \in Frames : (frame'[d].pc = "none" <=> d > depth')
                        /\ (frame'[d].pc \in ProgramPcs <=> d = 1)
  BY <1>1, <1>2 DEF Inv, TypeOK, Frames
<1>6. TypeOK'
  BY ZenonT(60), <1>1, <1>5 DEF Inv, TypeOK, kernelVars
<1>7. \A s \in Signals : sig_handlers'[s] = accepted[s]
  BY ZenonT(60), AgreedUnlessStoring
<1>. QED  BY ZenonT(60), <1>3, <1>4, <1>6, <1>7, CalmStep

-----------------------------------------------------------------------------
(* Steps of _sigaction and of the native handler.                          *)

(* The running frame of a step that stays in _sigaction or in the early    *)
(* part of the handler: what Handling and Storing ask of it, and Agreeing. *)
TopHandles(f) ==
    /\ f.pc \in EarlyPcs => accepted[f.sig].handler \notin Native
    /\ f.pc \in {"fptr", "assert"} => f.entry.siginfo = sig_handlers[f.sig].siginfo
    /\ f.pc = "assert" => f.entry.handler = sig_handlers[f.sig].handler
TopStores(f) ==
    /\ f.pc \in SigactionPcs /\ f.act.handler \notin Native => f.act.blocked = Signals
    /\ f.pc \in {"old", "old_flag"} =>
         /\ f.entry.siginfo <=> f.before.handler \notin Native
         /\ f.before = sig_handlers[f.sig]
         /\ accepted[f.sig] = IF f.query THEN sig_handlers[f.sig] ELSE EntryOf(f.act)
    /\ f.pc \in {"flag", "store"} => accepted[f.sig] = EntryOf(f.act)
    /\ f.pc = "old_flag" => f.entry.handler = f.before.handler
    /\ f.pc \in {"flag", "store", "return"} => Told(f)
    /\ f.pc = "store" => sig_handlers[f.sig].siginfo = f.act.siginfo
TopAgrees(f) ==
    \A s \in Signals : (f.pc \in {"old", "old_flag", "flag", "store"} /\ f.sig = s) \/ sig_handlers[s] = accepted[s]

(* A step after which the top frame, and no other, is busy.                *)
LEMMA BusyStep ==
    ASSUME Inv, TypeOK', Covered',
           \A d \in Frames : d # depth' => frame'[d].pc \notin BusyPcs,
           frame'[1].pc # "init", mask' = Signals,
           NEW f, f = frame'[depth'], f.sig \in Signals,
           TopHandles(f)', TopStores(f)', TopAgrees(f)'
    PROVE  Inv'
<1>1. Quiet'
  BY ZenonT(60) DEF Quiet
<1>2. Handling'
  BY ZenonT(60) DEF Handling, TopHandles, BusyPcs, EarlyPcs
<1>3. Storing'
  BY DEF Storing, TopStores, BusyPcs, SigactionPcs
<1>4. depth' \in Frames /\ depth' \in 1..depth'
  BY BoundsAssumption DEF TypeOK, Frames
<1>5. Agreeing'
  BY ZenonT(60), <1>4 DEF Agreeing, TopAgrees, InProgress
<1>. QED  BY ZenonT(60), <1>1, <1>2, <1>3, <1>5 DEF Inv

(* The running frame is replaced by t.                                     *)
LEMMA SetFrames ==
    ASSUME TypeOK, NEW t \in FrameRecords, frame' = [frame EXCEPT ![depth] = t],
           depth' = depth, t.pc # "none", frame[depth].pc # "none",
           t.pc \in ProgramPcs <=> frame[depth].pc \in ProgramPcs
    PROVE  /\ frame' \in [Frames -> FrameRecords]
           /\ \A d \in Frames : d # depth => frame'[d] = frame[d]
           /\ frame'[depth] = t
           /\ \A d \in Frames : (frame'[d].pc = "none" <=> d > depth')
                                /\ (frame'[d].pc \in ProgramPcs <=> d = 1)
<1>1. frame \in [Frames -> FrameRecords] /\ depth \in Frames /\ depth \in Nat
  BY ZenonT(60), DepthType DEF TypeOK
<1>2. /\ frame' \in [Frames -> FrameRecords]
      /\ \A d \in Frames : d # depth => frame'[d] = frame[d]
      /\ frame'[depth] = t
  BY ZenonT(60), <1>1
<1>. QED  BY <1>1, <1>2 DEF TypeOK

(* A frame other than the first is running: the first is not in "init".    *)
LEMMA BeyondInit ==
    ASSUME Inv, frame[depth].pc \notin ProgramPcs
    PROVE  frame[1].pc # "init" /\ depth # 1
<1>1. depth \in Frames /\ 1 \in Frames /\ depth \in Nat
  BY ZenonT(60), DepthType DEF Inv
<1>2. depth # 1
  BY ZenonT(60), <1>1 DEF Inv, TypeOK
<1>. QED  BY ZenonT(60), <1>2 DEF Inv, Agreeing

(* A step of the running frame that stays busy, apart from the table and   *)
(* the kernel.                                                             *)
LEMMA BusySet ==
    ASSUME Inv, NEW t \in FrameRecords, frame' = [frame EXCEPT ![depth] = t],
           frame[depth].pc \in BusyPcs, t.pc \in BusyPcs, t.sig = frame[depth].sig,
           UNCHANGED <<proc, depth, ctx, setting, mask, pending, kills>>,
           sig_handlers' \in [Signals -> Entries],
           KernelType', Covered', TopHandles(t)', TopStores(t)', TopAgrees(t)'
    PROVE  Inv'
<1>1. depth \in Frames /\ 1 \in Frames /\ depth \in Nat
  BY ZenonT(60), DepthType DEF Inv
<1>2. /\ t.pc # "none" /\ frame[depth].pc # "none"
      /\ t.pc \notin ProgramPcs /\ frame[depth].pc \notin ProgramPcs
  BY ZenonT(60) DEF BusyPcs, SigactionPcs, EarlyPcs, ProgramPcs
<1>3. /\ frame' \in [Frames -> FrameRecords]
      /\ \A d \in Frames : d # depth => frame'[d] = frame[d]
      /\ frame'[depth] = t
      /\ \A d \in Frames : (frame'[d].pc = "none" <=> d > depth')
                           /\ (frame'[d].pc \in ProgramPcs <=> d = 1)
  BY ZenonT(60), <1>2, SetFrames DEF Inv
<1>4. TypeOK'
  BY ZenonT(60), <1>3 DEF Inv, TypeOK, KernelType
<1>5. frame'[1].pc # "init"
  BY ZenonT(60), <1>1, <1>2, <1>3, BeyondInit
<1>6. \A d \in Frames : d # depth' => frame'[d].pc \notin BusyPcs
  BY ZenonT(60), <1>3, OnlyTopBusy
<1>7. mask' = Signals /\ t.sig \in Signals /\ t = frame'[depth']
  BY ZenonT(60), <1>1, <1>3 DEF Inv, Quiet
<1>. QED  BY ZenonT(60), <1>4, <1>5, <1>6, <1>7, BusyStep

(* The running frame as a constant record, for the lemmas above.           *)
LEMMA CurType ==
    ASSUME Inv
    PROVE  /\ Cur \in FrameRecords /\ Cur = frame[depth]
           /\ depth \in Frames /\ frame \in [Frames -> FrameRecords]
           /\ Cur.entry \in Entries /\ Cur.before \in Entries
           /\ Cur.sig \in Signals => /\ accepted[Cur.sig] \in Entries
                                     /\ sig_handlers[Cur.sig] \in Entries
                                     /\ sa_flags[Cur.sig] \in Flags
BY ZenonT(60), DepthType DEF Inv, TypeOK, Cur, FrameRecords

(* The act of a _sigaction in progress is one of Acts or NoAct.            *)
LEMMA ActType ==
    ASSUME Inv
    PROVE  /\ EntryOf(Cur.act) \in Entries /\ Cur.act.blocked \subseteq Signals
           /\ EntryOf(Cur.act).handler = Cur.act.handler
           /\ EntryOf(Cur.act).siginfo = Cur.act.siginfo
           /\ Cur.act.handler \in Nat /\ Cur.act.siginfo \in BOOLEAN
           /\ Cur.act.resethand \in BOOLEAN
<1>1. Cur.act \in Acts \cup {NoAct}
  BY ZenonT(60), CurType DEF FrameRecords
<1>2. EntryOf(NoAct) \in Entries /\ NoAct.blocked \subseteq Signals /\ NoAct.resethand \in BOOLEAN
  BY ZenonT(60) DEF EntryOf, Entries, NoAct, EM_SIG_DFL
<1>3. /\ EntryOf(Cur.act) \in Entries /\ Cur.act.blocked \subseteq Signals
      /\ Cur.act.resethand \in BOOLEAN
  BY ZenonT(60), <1>1, <1>2, ActsAssumption
<1>. QED  BY ZenonT(60), <1>3 DEF EntryOf, Entries

(* What the invariant says of the top frame.                               *)
LEMMA StoringTop ==
    ASSUME Inv
    PROVE  TopHandles(Cur) /\ TopStores(Cur) /\ TopAgrees(Cur)
<1>1. depth \in Frames
  BY ZenonT(60), DepthType DEF Inv
<1>2. TopHandles(Cur) /\ TopStores(Cur)
  BY ZenonT(60), <1>1 DEF Inv, Handling, Storing, TopHandles, TopStores, Cur
<1>3. TopAgrees(Cur)
  <2>. SUFFICES ASSUME NEW s \in Signals, ~(Cur.pc \in {"old", "old_flag", "flag", "store"} /\ Cur.sig = s)
                PROVE  ~InProgress(s)
    BY ZenonT(60) DEF TopAgrees, Inv, Agreeing
  <2>. QED  BY <1>1, BoundsAssumption DEF Inv, Quiet, InProgress, BusyPcs, SigactionPcs, Frames, Cur
<1>. QED  BY ZenonT(60), <1>2, <1>3

(* While the running frame is busy every signal is blocked.                *)
LEMMA BusyTop ==
    ASSUME Inv, Cur.pc \in BusyPcs
    PROVE  Cur.sig \in Signals /\ mask = Signals
BY ZenonT(60), CurType DEF Inv, Quiet

(* sys_sigaction changes the kernel's action; the table is still the old.  *)
LEMMA SysStep == ASSUME Inv, SigactionSys PROVE Inv'
<1>0. Cur.pc = "sys" /\ Cur.sig \in Signals
  BY ZenonT(60), BusyTop DEF SigactionSys, At, Cur, BusyPcs, SigactionPcs
<1>1. /\ Cur \in FrameRecords /\ frame \in [Frames -> FrameRecords] /\ depth \in Frames
      /\ Cur.entry \in Entries /\ sa_flags[Cur.sig] \in Flags
  BY ZenonT(60), <1>0, CurType
<1>. DEFINE e == [Cur.entry EXCEPT !.siginfo = sa_flags[Cur.sig].siginfo]
            u == [Cur EXCEPT !.pc = "old", !.before = accepted[Cur.sig], !.entry = e]
<1>2. e \in Entries /\ e.siginfo = sa_flags[Cur.sig].siginfo
  BY ZenonT(60), <1>1 DEF Entries, Flags
<1>3. u \in FrameRecords
  BY ZenonT(60), <1>0, <1>1, <1>2, CurType DEF FrameRecords, Pcs, SigactionPcs
<1>4. PICK t \in FrameRecords : t = u
  BY ZenonT(60), <1>3
<1>5. frame' = [frame EXCEPT ![depth] = t]
  BY ZenonT(60), <1>1, <1>4 DEF SigactionSys, Cur, FrameRecords
<1>6. /\ t.pc = "old" /\ t.sig = Cur.sig /\ t.act = Cur.act /\ t.query = Cur.query
      /\ t.before = accepted[Cur.sig] /\ t.entry = e
  BY ZenonT(60), <1>1, <1>4 DEF FrameRecords
<1>7. t.entry.siginfo <=> t.before.handler \notin Native
  BY ZenonT(60), <1>0, <1>2, <1>6 DEF Inv, Covered
<1>. HIDE DEF e, u
<1>8. \A s \in Signals : sig_handlers[s] = accepted[s]
  BY ZenonT(60), <1>0, AgreedUnlessStoring DEF Cur
<1>9. sig_handlers' = sig_handlers /\ UNCHANGED <<proc, depth, ctx, setting, mask, pending, kills>>
  BY ZenonT(60) DEF SigactionSys, contextVars
<1>10. frame[depth].pc \in BusyPcs /\ t.pc \in BusyPcs /\ t.sig = frame[depth].sig
  BY ZenonT(60), <1>0, <1>6 DEF BusyPcs, SigactionPcs, Cur
<1>11. TopHandles(t)'
  BY ZenonT(60), <1>6 DEF TopHandles, EarlyPcs
<1>12. Cur.act.handler \notin Native => Cur.act.blocked = Signals
  BY ZenonT(60), <1>0, StoringTop DEF TopStores, SigactionPcs
<1>13. ASSUME accepted'[Cur.sig] = (IF Cur.query THEN accepted[Cur.sig] ELSE EntryOf(Cur.act)),
              \A s \in Signals : s # Cur.sig => accepted'[s] = accepted[s]
       PROVE  TopStores(t)' /\ TopAgrees(t)'
  <2>1. TopStores(t)'
    BY ZenonT(60), <1>0, <1>6, <1>7, <1>8, <1>9, <1>12, <1>13 DEF TopStores
  <2>2. TopAgrees(t)'
    BY ZenonT(60), <1>6, <1>8, <1>9, <1>13 DEF TopAgrees
  <2>. QED  BY ZenonT(60), <2>1, <2>2
<1>14. CASE Cur.query
  <2>1. UNCHANGED kernelVars
    BY ZenonT(60), <1>14 DEF SigactionSys
  <2>2. TopStores(t)' /\ TopAgrees(t)'
    BY ZenonT(60), <1>13, <1>14, <2>1 DEF kernelVars
  <2>3. Covered'
    BY ZenonT(60), <2>1 DEF Inv, Covered, Stands, kernelVars
  <2>4. sig_handlers' \in [Signals -> Entries] /\ KernelType'
    BY ZenonT(60), <1>9, <2>1 DEF Inv, TypeOK, KernelType, kernelVars
  <2>. QED  BY ZenonT(60), <1>5, <1>9, <1>10, <1>11, <2>2, <2>3, <2>4, BusySet
<1>15. CASE ~Cur.query
  <2>. DEFINE g == [siginfo |-> Cur.act.handler \notin Native, resethand |-> Cur.act.resethand]
  <2>1. /\ action' = [action EXCEPT ![Cur.sig] = NativeAction(Cur.act.handler)]
        /\ sa_mask' = [sa_mask EXCEPT ![Cur.sig] = Cur.act.blocked]
        /\ sa_flags' = [sa_flags EXCEPT ![Cur.sig] = g]
        /\ accepted' = [accepted EXCEPT ![Cur.sig] = EntryOf(Cur.act)]
        /\ changed' = changed \cup {Cur.sig}
    BY ZenonT(60), <1>15 DEF SigactionSys
  <2>2. g \in Flags /\ (g.siginfo <=> Cur.act.handler \notin Native)
    BY ZenonT(60), ActType DEF Flags
  <2>. HIDE DEF g
  <2>3. /\ action \in [Signals -> {"dfl", "ign", "handler"}]
        /\ sa_mask \in [Signals -> SUBSET Signals] /\ sa_flags \in [Signals -> Flags]
        /\ accepted \in [Signals -> Entries] /\ changed \subseteq Signals
        /\ sig_handlers \in [Signals -> Entries]
    BY ZenonT(60) DEF Inv, TypeOK
  <2>4. NativeAction(Cur.act.handler) \in {"dfl", "ign", "handler"}
    BY ZenonT(60) DEF NativeAction
  <2>5. NativeAction(Cur.act.handler) = "handler" => Cur.act.handler \notin Native
    BY ZenonT(60) DEF NativeAction, Native
  <2>6. sig_handlers' \in [Signals -> Entries] /\ KernelType'
    BY ZenonT(60), <1>0, <1>9, <2>1, <2>2, <2>3, <2>4, ActType DEF KernelType
  <2>7. /\ action'[Cur.sig] = NativeAction(Cur.act.handler) /\ sa_mask'[Cur.sig] = Cur.act.blocked
        /\ sa_flags'[Cur.sig] = g /\ accepted'[Cur.sig] = EntryOf(Cur.act)
    BY ZenonT(60), <1>0, <2>1, <2>3
  <2>8. \A s \in Signals : s # Cur.sig =>
           /\ action'[s] = action[s] /\ sa_mask'[s] = sa_mask[s] /\ sa_flags'[s] = sa_flags[s]
           /\ accepted'[s] = accepted[s] /\ (s \in changed' => s \in changed)
    BY ZenonT(60), <2>1, <2>3
  <2>9. TopStores(t)' /\ TopAgrees(t)'
    BY ZenonT(60), <1>13, <1>15, <2>7, <2>8
  <2>10. accepted'[Cur.sig].handler = Cur.act.handler
    BY ZenonT(60), <2>7, ActType
  <2>11. Covered'
    <3>. SUFFICES ASSUME NEW s \in Signals
                  PROVE  /\ action'[s] = "handler" =>
                              sa_mask'[s] = Signals /\ accepted'[s].handler \notin Native
                         /\ sa_flags'[s].siginfo <=> accepted'[s].handler \notin Native
                         /\ Stands(s)'
      BY ZenonT(60) DEF Covered
    <3>1. CASE s = Cur.sig
      BY ZenonT(60), <1>12, <2>2, <2>5, <2>7, <2>10, <3>1 DEF Stands
    <3>2. CASE s # Cur.sig
      BY ZenonT(60), <2>8, <3>2 DEF Inv, Covered, Stands
    <3>. QED  BY ZenonT(60), <3>1, <3>2
  <2>. QED  BY ZenonT(60), <1>5, <1>9, <1>10, <1>11, <2>6, <2>9, <2>11, BusySet
<1>. QED  BY ZenonT(60), <1>14, <1>15

(* A busy step that leaves the kernel and the table alone.                 *)
LEMMA BusyLocal ==
    ASSUME Inv, NEW t \in FrameRecords, frame' = [frame EXCEPT ![depth] = t],
           Cur.pc \in BusyPcs, t.pc \in BusyPcs, t.sig = Cur.sig,
           UNCHANGED <<proc, depth, contextVars, sig_handlers, kernelVars, mask, pending, kills>>,
           TopHandles(t), TopStores(t), TopAgrees(t)
    PROVE  Inv'
<1>1. TopHandles(t)' /\ TopStores(t)' /\ TopAgrees(t)'
  BY ZenonT(60) DEF TopHandles, TopStores, TopAgrees, kernelVars
<1>2. Covered'
  BY ZenonT(60) DEF Inv, Covered, Stands, kernelVars
<1>3. sig_handlers' \in [Signals -> Entries] /\ KernelType'
  BY ZenonT(60) DEF Inv, TypeOK, KernelType, kernelVars
<1>. QED  BY ZenonT(60), <1>1, <1>2, <1>3, BusySet DEF Cur, contextVars

(* _sigaction reads the old function.                                      *)
LEMMA OldStep == ASSUME Inv, SigactionOld PROVE Inv'
<1>0. Cur.pc = "old" /\ Cur.sig \in Signals
  BY ZenonT(60), BusyTop DEF SigactionOld, At, Cur, BusyPcs, SigactionPcs
<1>1. /\ Cur \in FrameRecords /\ frame \in [Frames -> FrameRecords] /\ depth \in Frames
      /\ sig_handlers[Cur.sig] \in Entries /\ Cur.entry \in Entries
  BY ZenonT(60), <1>0, CurType
<1>. DEFINE e == [Cur.entry EXCEPT !.handler = sig_handlers[Cur.sig].handler]
            u == [Cur EXCEPT !.pc = "old_flag", !.entry = e]
<1>2. /\ e \in Entries /\ e.handler = sig_handlers[Cur.sig].handler
      /\ e.siginfo = Cur.entry.siginfo
  BY ZenonT(60), <1>1 DEF Entries
<1>3. u \in FrameRecords
  BY ZenonT(60), <1>1, <1>2 DEF FrameRecords, Pcs, SigactionPcs
<1>4. PICK t \in FrameRecords : t = u
  BY ZenonT(60), <1>3
<1>5. frame' = [frame EXCEPT ![depth] = t]
  BY ZenonT(60), <1>1, <1>4 DEF SigactionOld, Cur, FrameRecords
<1>6. /\ t.pc = "old_flag" /\ t.sig = Cur.sig /\ t.act = Cur.act
      /\ t.query = Cur.query /\ t.before = Cur.before /\ t.entry = e
  BY ZenonT(60), <1>1, <1>4 DEF FrameRecords
<1>. HIDE DEF e, u
<1>7. TopStores(Cur) /\ TopAgrees(Cur)
  BY ZenonT(60), StoringTop
<1>8. TopHandles(t)
  BY ZenonT(60), <1>6 DEF TopHandles, EarlyPcs
<1>9. TopStores(t)
  BY ZenonT(60), <1>0, <1>2, <1>6, <1>7 DEF TopStores, SigactionPcs
<1>10. TopAgrees(t)
  BY ZenonT(60), <1>0, <1>6, <1>7 DEF TopAgrees
<1>11. Cur.pc \in BusyPcs /\ t.pc \in BusyPcs
  BY ZenonT(60), <1>0, <1>6 DEF BusyPcs, SigactionPcs
<1>. QED  BY ZenonT(60), <1>5, <1>6, <1>8, <1>9, <1>10, <1>11, BusyLocal DEF SigactionOld

(* _sigaction completes the flags of the old action.                       *)
LEMMA OldFlagStep == ASSUME Inv, SigactionOldFlag PROVE Inv'
<1>0. Cur.pc = "old_flag" /\ Cur.sig \in Signals
  BY ZenonT(60), BusyTop DEF SigactionOldFlag, At, Cur, BusyPcs, SigactionPcs
<1>1. /\ Cur \in FrameRecords /\ frame \in [Frames -> FrameRecords] /\ depth \in Frames
      /\ sig_handlers[Cur.sig] \in Entries /\ Cur.entry \in Entries /\ Cur.query \in BOOLEAN
  BY ZenonT(60), <1>0, CurType DEF FrameRecords
<1>. DEFINE e == [Cur.entry EXCEPT !.siginfo = Cur.entry.siginfo \/ sig_handlers[Cur.sig].siginfo]
            p == IF Cur.query THEN "return" ELSE "flag"
            u == [Cur EXCEPT !.pc = p, !.entry = e]
<1>2. /\ e \in Entries /\ e.handler = Cur.entry.handler
      /\ e.siginfo <=> (Cur.entry.siginfo \/ sig_handlers[Cur.sig].siginfo)
  BY ZenonT(60), <1>1 DEF Entries
<1>3. p \in {"return", "flag"} /\ (p = "return" <=> Cur.query)
  BY ZenonT(60), <1>1
<1>4. u \in FrameRecords
  BY ZenonT(60), <1>1, <1>2, <1>3 DEF FrameRecords, Pcs, SigactionPcs
<1>5. PICK t \in FrameRecords : t = u
  BY ZenonT(60), <1>4
<1>6. frame' = [frame EXCEPT ![depth] = t]
  BY ZenonT(60), <1>1, <1>5 DEF SigactionOldFlag, Cur, FrameRecords
<1>7. /\ t.pc = p /\ t.sig = Cur.sig /\ t.act = Cur.act
      /\ t.query = Cur.query /\ t.before = Cur.before /\ t.entry = e
  BY ZenonT(60), <1>1, <1>5 DEF FrameRecords
<1>. HIDE DEF e, u, p
<1>8. TopStores(Cur) /\ TopAgrees(Cur)
  BY ZenonT(60), StoringTop
<1>9. TopHandles(t)
  BY ZenonT(60), <1>3, <1>7 DEF TopHandles, EarlyPcs
<1>10. Told(t)
  BY ZenonT(60), <1>0, <1>2, <1>7, <1>8 DEF TopStores, Told
<1>11. TopStores(t)
  BY ZenonT(60), <1>0, <1>3, <1>7, <1>8, <1>10 DEF TopStores, SigactionPcs
<1>12. TopAgrees(t)
  BY ZenonT(60), <1>0, <1>3, <1>7, <1>8 DEF TopAgrees, TopStores
<1>13. Cur.pc \in BusyPcs /\ t.pc \in BusyPcs
  BY ZenonT(60), <1>0, <1>3, <1>7 DEF BusyPcs, SigactionPcs
<1>. QED  BY ZenonT(60), <1>6, <1>7, <1>9, <1>11, <1>12, <1>13, BusyLocal DEF SigactionOldFlag

(* A step of _sigaction that changes the table entry of its signal.        *)
LEMMA TableStep ==
    ASSUME Inv, NEW p \in SigactionPcs, Goto(p), Cur.pc \in {"flag", "store"},
           NEW e \in Entries, sig_handlers' = [sig_handlers EXCEPT ![Cur.sig] = e],
           UNCHANGED <<proc, depth, contextVars, kernelVars, mask, pending, kills>>,
           p \in {"store", "return"},
           p = "store" => e.siginfo = Cur.act.siginfo,
           p = "return" => e = accepted[Cur.sig]
    PROVE  Inv'
<1>1. Cur.pc \in BusyPcs /\ Cur.sig \in Signals
  BY ZenonT(60), BusyTop DEF BusyPcs, SigactionPcs
<1>2. Cur \in FrameRecords /\ frame \in [Frames -> FrameRecords] /\ depth \in Frames
  BY ZenonT(60), CurType
<1>. DEFINE u == [Cur EXCEPT !.pc = p]
<1>3. u \in FrameRecords
  BY ZenonT(60), <1>2 DEF FrameRecords, Pcs
<1>4. PICK t \in FrameRecords : t = u
  BY ZenonT(60), <1>3
<1>5. frame' = [frame EXCEPT ![depth] = t]
  BY ZenonT(60), <1>2, <1>4 DEF Goto, Cur
<1>6. /\ t.pc = p /\ t.sig = Cur.sig /\ t.act = Cur.act
      /\ t.query = Cur.query /\ t.before = Cur.before /\ t.entry = Cur.entry
  BY ZenonT(60), <1>2, <1>4 DEF FrameRecords
<1>7. TopStores(Cur) /\ TopAgrees(Cur)
  BY ZenonT(60), StoringTop
<1>8. sig_handlers \in [Signals -> Entries] /\ accepted' = accepted
  BY ZenonT(60) DEF Inv, TypeOK, kernelVars
<1>9. /\ sig_handlers' \in [Signals -> Entries] /\ sig_handlers'[Cur.sig] = e
      /\ \A s \in Signals : s # Cur.sig => sig_handlers'[s] = sig_handlers[s]
  BY ZenonT(60), <1>1, <1>8
<1>10. TopHandles(t)'
  BY ZenonT(60), <1>6 DEF TopHandles, EarlyPcs, SigactionPcs
<1>11. TopStores(t)'
  BY ZenonT(60), <1>6, <1>7, <1>8, <1>9 DEF TopStores, Told, SigactionPcs
<1>12. TopAgrees(t)'
  BY ZenonT(60), <1>1, <1>6, <1>7, <1>8, <1>9 DEF TopAgrees
<1>13. Covered'
  BY ZenonT(60) DEF Inv, Covered, Stands, kernelVars
<1>14. KernelType'
  BY ZenonT(60) DEF Inv, TypeOK, KernelType, kernelVars
<1>15. t.pc \in BusyPcs
  BY ZenonT(60), <1>6 DEF BusyPcs
<1>. QED  BY ZenonT(60), <1>1, <1>5, <1>6, <1>9, <1>10, <1>11, <1>12, <1>13, <1>14, <1>15, BusySet
       DEF Cur, contextVars

(* _sigaction stores the flag of the new action.                           *)
LEMMA FlagStep == ASSUME Inv, SigactionFlag PROVE Inv'
<1>1. Cur.pc = "flag" /\ Cur.sig \in Signals
  BY ZenonT(60), BusyTop DEF SigactionFlag, At, Cur, BusyPcs, SigactionPcs
<1>2. sig_handlers[Cur.sig] \in Entries /\ Cur.act.siginfo \in BOOLEAN
  BY ZenonT(60), <1>1, CurType, ActType
<1>. DEFINE e == [sig_handlers[Cur.sig] EXCEPT !.siginfo = Cur.act.siginfo]
<1>3. e \in Entries /\ e.siginfo = Cur.act.siginfo
  BY ZenonT(60), <1>2 DEF Entries
<1>4. sig_handlers' = [sig_handlers EXCEPT ![Cur.sig] = e]
  BY ZenonT(60) DEF SigactionFlag
<1>5. "store" \in SigactionPcs
  BY ZenonT(60) DEF SigactionPcs
<1>. HIDE DEF e
<1>6. PICK c \in Entries : c = e
  BY ZenonT(60), <1>3
<1>7. /\ Goto("store")
      /\ UNCHANGED <<proc, depth, contextVars, kernelVars, mask, pending, kills>>
  BY ZenonT(60) DEF SigactionFlag
<1>8. sig_handlers' = [sig_handlers EXCEPT ![Cur.sig] = c] /\ c.siginfo = Cur.act.siginfo
  BY ZenonT(60), <1>3, <1>4, <1>6
<1>9. Cur.pc \in {"flag", "store"}
  BY ZenonT(60), <1>1
<1>. QED  BY ZenonT(60), <1>5, <1>7, <1>8, <1>9, TableStep

(* _sigaction stores the function of the new action.                       *)
LEMMA StoreStep == ASSUME Inv, SigactionStore PROVE Inv'
<1>1. Cur.pc = "store" /\ Cur.sig \in Signals
  BY ZenonT(60), BusyTop DEF SigactionStore, At, Cur, BusyPcs, SigactionPcs
<1>2. sig_handlers[Cur.sig] \in Entries /\ Cur.act.handler \in Nat
  BY ZenonT(60), <1>1, CurType, ActType
<1>. DEFINE e == [sig_handlers[Cur.sig] EXCEPT !.handler = Cur.act.handler]
<1>3. e \in Entries /\ e.handler = Cur.act.handler /\ e.siginfo = sig_handlers[Cur.sig].siginfo
  BY ZenonT(60), <1>2 DEF Entries
<1>4. sig_handlers' = [sig_handlers EXCEPT ![Cur.sig] = e]
  BY ZenonT(60) DEF SigactionStore
<1>5. sig_handlers[Cur.sig].siginfo = Cur.act.siginfo /\ accepted[Cur.sig] = EntryOf(Cur.act)
  BY ZenonT(60), <1>1, StoringTop DEF TopStores
<1>6. e = accepted[Cur.sig]
  BY <1>3, <1>5 DEF EntryOf, Entries
<1>7. "return" \in SigactionPcs
  BY ZenonT(60) DEF SigactionPcs
<1>. HIDE DEF e
<1>8. PICK c \in Entries : c = e
  BY ZenonT(60), <1>3
<1>. QED  BY ZenonT(60), <1>1, <1>4, <1>6, <1>7, <1>8, TableStep DEF SigactionStore

(* A busy frame is added when no frame is busy.                            *)
LEMMA BusyPush ==
    ASSUME Inv, NEW f \in FrameRecords, Push(frame[depth], f),
           f.pc \in {"sys", "handler"}, Cur.pc \notin BusyPcs, frame[1].pc # "init",
           f.sig \in Signals, UNCHANGED <<proc, contextVars, sig_handlers, accepted>>,
           KernelType', Covered',
           Cur.pc # "none",
           mask' = Signals, pending' \subseteq Signals, kills' \in 0..MaxKills,
           TopHandles(f), TopStores(f)
    PROVE  Inv'
<1>1. Cur \in FrameRecords /\ frame[depth] \in FrameRecords /\ 1 \in Frames /\ depth \in Frames
      /\ depth \in Nat
  BY ZenonT(60), CurType, DepthType DEF Inv
<1>2. PICK c \in FrameRecords : c = frame[depth]
  BY ZenonT(60), <1>1
<1>3. /\ frame' \in [Frames -> FrameRecords]
      /\ depth' = depth + 1 /\ depth' \in Frames /\ depth + 1 \in Frames
      /\ \A d \in Frames : d # depth /\ d # depth + 1 => frame'[d] = frame[d]
      /\ frame'[depth] = c
      /\ frame'[depth + 1] = f
  BY ZenonT(60), <1>1, <1>2, PushFrames DEF Inv
<1>4. \A d \in Frames : d # depth' => frame'[d] = frame[d]
  BY ZenonT(60), <1>2, <1>3
<1>5. f.pc \notin ProgramPcs /\ f.pc # "none"
  BY ZenonT(60) DEF ProgramPcs
<1>6. \A d \in Frames : (frame'[d].pc = "none" <=> d > depth')
                        /\ (frame'[d].pc \in ProgramPcs <=> d = 1)
  BY <1>1, <1>2, <1>3, <1>5 DEF Inv, TypeOK, Frames, Cur
<1>7. TypeOK'
  BY ZenonT(60), <1>3, <1>6 DEF Inv, TypeOK, KernelType, contextVars
<1>8. \A d \in Frames : d # depth' => frame'[d].pc \notin BusyPcs
  BY ZenonT(60), <1>1, <1>4, OnlyTopBusy DEF Cur
<1>9. frame'[1].pc # "init"
  BY ZenonT(60), <1>1, <1>3, <1>4
<1>11. \A s \in Signals : sig_handlers[s] = accepted[s]
  BY ZenonT(60), AgreedUnlessStoring DEF Cur, BusyPcs, SigactionPcs
<1>12. TopHandles(f)' /\ TopStores(f)' /\ TopAgrees(f)'
  BY ZenonT(60), <1>11 DEF TopHandles, TopStores, TopAgrees
<1>. QED  BY ZenonT(60), <1>3, <1>7, <1>8, <1>9, <1>12, BusyStep

(* The remaining actions.                                                  *)

(* A step that changes neither frames nor table nor kernel.                *)
LEMMA SameFrames ==
    ASSUME Inv, UNCHANGED <<depth, frame, contextVars, sig_handlers, kernelVars>>,
           proc' \in {"running", "killed", "assert"}, mask' \subseteq Signals,
           mask' = mask \/ Cur.pc \notin BusyPcs,
           pending' \subseteq Signals, kills' \in 0..MaxKills
    PROVE  Inv'
<1>1. TypeOK'
  BY ZenonT(60) DEF Inv, TypeOK, contextVars, kernelVars
<1>2. Quiet'
  BY ZenonT(60) DEF Inv, Quiet, Cur
<1>3. Covered' /\ Handling' /\ Storing'
  BY ZenonT(60) DEF Inv, Covered, Stands, Handling, Storing, kernelVars
<1>4. Agreeing'
  BY ZenonT(60) DEF Inv, Agreeing, InProgress, kernelVars
<1>. QED  BY ZenonT(60), <1>1, <1>2, <1>3, <1>4 DEF Inv

(* The kernel starts the native handler with every signal blocked.         *)
LEMMA DeliverStep == ASSUME Inv, NEW s \in Signals, Deliver(s) PROVE Inv'
<1>1. /\ s \notin mask /\ action[s] = "handler" /\ sa_mask[s] = Signals /\ mask \subseteq Signals
      /\ accepted[s].handler \notin Native
  BY ZenonT(60) DEF Deliver, Inv, Covered, TypeOK
<1>2. mask' = Signals
  BY ZenonT(60), <1>1 DEF Deliver
<1>3. Cur.pc \notin BusyPcs /\ Cur.pc # "none"
  <2>1. Cur.pc # "none"
    BY DepthType DEF Inv, TypeOK, Cur, Frames
  <2>. QED  BY ZenonT(60), <1>1, <2>1, BusyTop
<1>4. frame[1].pc # "init"
  <2>1. DefaultEntry.handler \in Native
    BY ZenonT(60) DEF DefaultEntry, Native
  <2>. QED  BY ZenonT(60), <1>1, <2>1 DEF Inv, Agreeing
<1>. DEFINE f == NewFrame("handler", s, mask)
<1>5. "handler" \in Pcs /\ s \in Signals \cup {NULL} /\ mask \in SUBSET Signals
  BY ZenonT(60), <1>1 DEF Pcs, HandlerPcs
<1>6. f \in FrameRecords /\ f.pc = "handler" /\ f.sig = s
  <2>1. DefaultEntry \in Entries
    BY ZenonT(60) DEF DefaultEntry, Entries, EM_SIG_DFL
  <2>. QED  BY ZenonT(60), <1>5, <2>1 DEF NewFrame, FrameRecords
<1>. HIDE DEF f
<1>7. PICK g \in FrameRecords : g = f
  BY ZenonT(60), <1>6
<1>8. TopHandles(g)
  BY ZenonT(60), <1>1, <1>6, <1>7 DEF TopHandles
<1>9. TopStores(g)
  BY ZenonT(60), <1>6, <1>7 DEF TopStores, SigactionPcs
<1>10. Push(frame[depth], g)
  BY ZenonT(60), <1>7 DEF Deliver, f
<1>11. pending' \subseteq Signals /\ kills' \in 0..MaxKills
  BY ZenonT(60) DEF Deliver, Inv, TypeOK
<1>12. action' = [action EXCEPT ![s] = IF sa_flags[s].resethand THEN "dfl" ELSE action[s]]
       /\ UNCHANGED <<sa_mask, sa_flags, accepted, changed>>
  BY ZenonT(60) DEF Deliver
<1>13. action \in [Signals -> {"dfl", "ign", "handler"}]
  BY ZenonT(60) DEF Inv, TypeOK
<1>14. KernelType'
  BY ZenonT(60), <1>1, <1>12, <1>13 DEF Inv, TypeOK, KernelType
<1>15. Covered'
  <2>. SUFFICES ASSUME NEW r \in Signals
                PROVE  /\ action'[r] = "handler" =>
                            sa_mask'[r] = Signals /\ accepted'[r].handler \notin Native
                       /\ sa_flags'[r].siginfo <=> accepted'[r].handler \notin Native
                       /\ Stands(r)'
    BY ZenonT(60) DEF Covered
  <2>1. action'[r] = action[r] \/ (action'[r] = "dfl" /\ sa_flags[r].resethand)
    BY ZenonT(60), <1>12, <1>13
  <2>2. /\ action[r] = "handler" => sa_mask[r] = Signals /\ accepted[r].handler \notin Native
        /\ sa_flags[r].siginfo <=> accepted[r].handler \notin Native
        /\ Stands(r)
    BY ZenonT(60) DEF Inv, Covered
  <2>. QED  BY ZenonT(60), <1>12, <2>1, <2>2 DEF Stands
<1>. QED  BY ZenonT(60), <1>2, <1>3, <1>4, <1>6, <1>7, <1>8, <1>9, <1>10, <1>11, <1>12, <1>14, <1>15,
             BusyPush DEF Deliver

(* The discipline: _sigaction is called with every signal blocked.         *)
LEMMA CallStep ==
    ASSUME Inv, Disciplined, NEW s \in Signals, NEW a \in Acts, NEW q \in BOOLEAN,
           CallSigaction(s, a, q)
    PROVE  Inv'
<1>1. mask = Signals /\ (a.handler \notin Native => a.blocked = Signals)
  BY ZenonT(60) DEF CallSigaction, Allowed
<1>2. Cur.pc = "wasm" /\ Cur.pc \notin BusyPcs /\ Cur.pc \notin ProgramPcs
  BY ZenonT(60) DEF CallSigaction, At, Cur, BusyPcs, SigactionPcs, EarlyPcs, ProgramPcs
<1>3. frame[1].pc # "init"
  BY ZenonT(60), <1>2, BeyondInit DEF Cur
<1>. DEFINE f == [NewFrame("sys", s, {}) EXCEPT !.act = a, !.query = q]
<1>4. "sys" \in Pcs /\ s \in Signals \cup {NULL} /\ {} \in SUBSET Signals
  BY ZenonT(60) DEF Pcs, SigactionPcs
<1>5. NewFrame("sys", s, {}) \in FrameRecords /\ NewFrame("sys", s, {}).pc = "sys"
      /\ NewFrame("sys", s, {}).sig = s
  <2>1. DefaultEntry \in Entries
    BY ZenonT(60) DEF DefaultEntry, Entries, EM_SIG_DFL
  <2>. QED  BY ZenonT(60), <1>4, <2>1 DEF NewFrame, FrameRecords
<1>6. f \in FrameRecords /\ f.pc = "sys" /\ f.sig = s /\ f.act = a
  BY ZenonT(60), <1>5 DEF FrameRecords
<1>7. Push(frame[depth], f)
  BY ZenonT(60) DEF CallSigaction
<1>. HIDE DEF f
<1>8. TopHandles(f) /\ TopStores(f)
  BY ZenonT(60), <1>1, <1>6 DEF TopHandles, TopStores, EarlyPcs
<1>9. pending' \subseteq Signals /\ kills' \in 0..MaxKills /\ mask' = Signals
  BY ZenonT(60), <1>1 DEF CallSigaction, Inv, TypeOK
<1>10. KernelType' /\ Covered' /\ accepted' = accepted
  BY ZenonT(60) DEF CallSigaction, Inv, TypeOK, KernelType, Covered, Stands, kernelVars
<1>. QED  BY ZenonT(60), <1>2, <1>3, <1>6, <1>7, <1>8, <1>9, <1>10, BusyPush DEF CallSigaction

(* The native handler is entered.                                          *)
LEMMA HandlerEnterStep == ASSUME Inv, HandlerEnter PROVE Inv'
<1>1. Cur.pc = "handler" /\ Cur.pc \in BusyPcs
  BY ZenonT(60) DEF HandlerEnter, At, Cur, BusyPcs, EarlyPcs
<1>2. CASE setting \/ ctx = "null"
  <2>1. Goto("sigreturn")
    BY ZenonT(60), <1>2 DEF HandlerEnter
  <2>2. /\ "sigreturn" \in Pcs /\ "handler" \in Pcs /\ "sigreturn" \notin BusyPcs
        /\ "sigreturn" \notin ProgramPcs /\ "handler" \notin ProgramPcs
    BY ZenonT(60) DEF Pcs, HandlerPcs, BusyPcs, SigactionPcs, EarlyPcs, ProgramPcs
  <2>3. \A s \in Signals : sig_handlers'[s] = accepted[s]
    BY ZenonT(60), <1>1, AgreedUnlessStoring DEF HandlerEnter, Cur
  <2>4. /\ proc' \in {"running", "killed", "assert"} /\ ctx' \in {"null", "set"}
        /\ setting' \in BOOLEAN /\ sig_handlers' \in [Signals -> Entries]
    BY ZenonT(60) DEF HandlerEnter, Inv, TypeOK, contextVars
  <2>. QED  BY ZenonT(60), <1>1, <2>1, <2>2, <2>3, <2>4, CalmGoto DEF HandlerEnter, Cur
<1>3. CASE ~(setting \/ ctx = "null")
  <2>1. Cur \in FrameRecords /\ frame \in [Frames -> FrameRecords] /\ depth \in Frames
    BY ZenonT(60), CurType
  <2>. DEFINE u == [Cur EXCEPT !.pc = "lookup"]
  <2>2. u \in FrameRecords
    BY ZenonT(60), <2>1 DEF FrameRecords, Pcs, HandlerPcs
  <2>3. PICK t \in FrameRecords : t = u
    BY ZenonT(60), <2>2
  <2>4. frame' = [frame EXCEPT ![depth] = t]
    BY ZenonT(60), <1>3, <2>1, <2>3 DEF HandlerEnter, Goto, Cur
  <2>5. t.pc = "lookup" /\ t.sig = Cur.sig
    BY ZenonT(60), <2>1, <2>3 DEF FrameRecords
  <2>6. TopHandles(t) /\ TopStores(t) /\ TopAgrees(t)
    BY ZenonT(60), <1>1, <2>5, StoringTop DEF TopHandles, TopStores, TopAgrees, EarlyPcs, SigactionPcs
  <2>7. t.pc \in BusyPcs
    BY ZenonT(60), <2>5 DEF BusyPcs, EarlyPcs
  <2>. QED  BY ZenonT(60), <1>1, <2>4, <2>5, <2>6, <2>7, BusyLocal DEF HandlerEnter
<1>. QED  BY ZenonT(60), <1>2, <1>3

(* The native handler reads the flag of its signal.                        *)
LEMMA HandlerLookupStep == ASSUME Inv, HandlerLookup PROVE Inv'
<1>1. Cur.pc = "lookup" /\ Cur.pc \in BusyPcs /\ Cur.sig \in Signals
  BY ZenonT(60), BusyTop DEF HandlerLookup, At, Cur, BusyPcs, EarlyPcs
<1>2. Cur \in FrameRecords /\ frame \in [Frames -> FrameRecords] /\ depth \in Frames
      /\ sig_handlers[Cur.sig] \in Entries /\ Cur.entry \in Entries
  BY ZenonT(60), <1>1, CurType
<1>3. sig_handlers[Cur.sig].siginfo \in BOOLEAN
  BY ZenonT(60), <1>2 DEF Entries
<1>. DEFINE e == [Cur.entry EXCEPT !.siginfo = sig_handlers[Cur.sig].siginfo]
            u == [Cur EXCEPT !.pc = "fptr", !.entry = e]
<1>4. e \in Entries /\ e.siginfo = sig_handlers[Cur.sig].siginfo
  BY ZenonT(60), <1>2, <1>3 DEF Entries
<1>5. u \in FrameRecords
  BY ZenonT(60), <1>2, <1>4 DEF FrameRecords, Pcs, HandlerPcs
<1>6. PICK t \in FrameRecords : t = u
  BY ZenonT(60), <1>5
<1>7. frame' = [frame EXCEPT ![depth] = t]
  BY ZenonT(60), <1>2, <1>6 DEF HandlerLookup, Cur, FrameRecords
<1>8. t.pc = "fptr" /\ t.sig = Cur.sig /\ t.entry = e
  BY ZenonT(60), <1>2, <1>6 DEF FrameRecords
<1>9. TopHandles(t)
  BY ZenonT(60), <1>1, <1>4, <1>8, StoringTop DEF TopHandles, EarlyPcs
<1>10. TopStores(t) /\ TopAgrees(t)
  BY ZenonT(60), <1>1, <1>8, StoringTop DEF TopStores, TopAgrees, SigactionPcs
<1>11. t.pc \in BusyPcs
  BY ZenonT(60), <1>8 DEF BusyPcs, EarlyPcs
<1>. QED  BY ZenonT(60), <1>1, <1>7, <1>8, <1>9, <1>10, <1>11, BusyLocal DEF HandlerLookup

(* The native handler reads the function of its signal.                    *)
LEMMA HandlerFptrStep == ASSUME Inv, HandlerFptr PROVE Inv'
<1>1. Cur.pc = "fptr" /\ Cur.pc \in BusyPcs /\ Cur.sig \in Signals
  BY ZenonT(60), BusyTop DEF HandlerFptr, At, Cur, BusyPcs, EarlyPcs
<1>2. Cur \in FrameRecords /\ frame \in [Frames -> FrameRecords] /\ depth \in Frames
      /\ sig_handlers[Cur.sig] \in Entries /\ Cur.entry \in Entries
  BY ZenonT(60), <1>1, CurType
<1>3. sig_handlers[Cur.sig].handler \in Nat
  BY ZenonT(60), <1>2 DEF Entries
<1>4. PICK p \in {"assert", "sigreturn"} :
         frame' = [frame EXCEPT ![depth].pc = p,
                                ![depth].entry.handler = sig_handlers[Cur.sig].handler]
  BY ZenonT(60) DEF HandlerFptr
<1>. DEFINE e == [Cur.entry EXCEPT !.handler = sig_handlers[Cur.sig].handler]
            u == [Cur EXCEPT !.pc = p, !.entry = e]
<1>5. /\ e \in Entries /\ e.handler = sig_handlers[Cur.sig].handler
      /\ e.siginfo = Cur.entry.siginfo
  BY ZenonT(60), <1>2, <1>3 DEF Entries
<1>6. u \in FrameRecords
  BY ZenonT(60), <1>2, <1>5 DEF FrameRecords, Pcs, HandlerPcs
<1>7. PICK t \in FrameRecords : t = u
  BY ZenonT(60), <1>6
<1>8. frame' = [frame EXCEPT ![depth] = t]
  BY ZenonT(60), <1>2, <1>4, <1>7 DEF Cur, FrameRecords
<1>9. t.pc = p /\ t.sig = Cur.sig /\ t.entry = e
  BY ZenonT(60), <1>2, <1>7 DEF FrameRecords
<1>10. UNCHANGED <<proc, depth, contextVars, sig_handlers, kernelVars, mask, pending, kills>>
  BY ZenonT(60) DEF HandlerFptr
<1>11. CASE p = "assert"
  <2>1. TopHandles(t)
    BY ZenonT(60), <1>1, <1>5, <1>9, <1>11, StoringTop DEF TopHandles, EarlyPcs
  <2>2. TopStores(t) /\ TopAgrees(t)
    BY ZenonT(60), <1>1, <1>9, <1>11, StoringTop DEF TopStores, TopAgrees, SigactionPcs
  <2>3. t.pc \in BusyPcs
    BY ZenonT(60), <1>9, <1>11 DEF BusyPcs, EarlyPcs
  <2>. QED  BY ZenonT(60), <1>1, <1>8, <1>9, <1>10, <2>1, <2>2, <2>3, BusyLocal
<1>12. CASE p = "sigreturn"
  <2>1. /\ t.pc # "none" /\ t.pc \notin BusyPcs /\ t.pc \notin ProgramPcs /\ t.pc # "init"
        /\ frame[depth].pc # "none" /\ frame[depth].pc \notin ProgramPcs
    BY ZenonT(60), <1>1, <1>9, <1>12 DEF BusyPcs, SigactionPcs, EarlyPcs, ProgramPcs, Cur
  <2>2. /\ frame' \in [Frames -> FrameRecords]
        /\ \A d \in Frames : d # depth => frame'[d] = frame[d]
        /\ frame'[depth] = t
        /\ \A d \in Frames : (frame'[d].pc = "none" <=> d > depth')
                             /\ (frame'[d].pc \in ProgramPcs <=> d = 1)
    BY ZenonT(60), <1>8, <1>10, <2>1, SetFrames DEF Inv
  <2>3. TypeOK'
    BY ZenonT(60), <1>10, <2>2 DEF Inv, TypeOK, contextVars, kernelVars
  <2>4. \A d \in Frames : frame'[d].pc \notin BusyPcs
    BY ZenonT(60), <2>1, <2>2, OnlyTopBusy
  <2>5. frame'[1].pc # "init"
    BY ZenonT(60), <1>2, <2>1, <2>2, DepthType, BeyondInit DEF Inv
  <2>6. \A s \in Signals : sig_handlers'[s] = accepted[s]
    BY ZenonT(60), <1>1, <1>10, AgreedUnlessStoring DEF Cur
  <2>. QED  BY ZenonT(60), <1>10, <2>3, <2>4, <2>5, <2>6, CalmStep
<1>. QED  BY ZenonT(60), <1>11, <1>12

(* The native handler invokes the function it has found.                   *)
LEMMA HandlerInvokeStep == ASSUME Inv, HandlerInvoke PROVE Inv'
<1>1. Cur.pc = "assert"
  BY ZenonT(60) DEF HandlerInvoke, At, Cur
<1>2. CASE Cur.entry.handler \in Native
  <2>1. /\ UNCHANGED <<depth, frame, contextVars, sig_handlers, kernelVars, mask, pending, kills>>
        /\ proc' = "assert"
    BY ZenonT(60), <1>2 DEF HandlerInvoke
  <2>. QED  BY ZenonT(60), <2>1, SameFrames DEF Inv, TypeOK
<1>3. CASE Cur.entry.handler \notin Native
  <2>1. Cur \in FrameRecords
    BY ZenonT(60), CurType
  <2>. DEFINE u == [Cur EXCEPT !.pc = "sigreturn"]
              v == NewFrame("wasm", NULL, {})
  <2>2. u \in FrameRecords /\ u.pc = "sigreturn"
    BY ZenonT(60), <2>1 DEF FrameRecords, Pcs, HandlerPcs
  <2>3. v \in FrameRecords /\ v.pc = "wasm"
    <3>1. DefaultEntry \in Entries
      BY ZenonT(60) DEF DefaultEntry, Entries, EM_SIG_DFL
    <3>. QED  BY ZenonT(60), <3>1 DEF NewFrame, FrameRecords, Pcs
  <2>4. Push(u, v)
    BY ZenonT(60), <1>3 DEF HandlerInvoke
  <2>. HIDE DEF u, v
  <2>5. PICK t \in FrameRecords : t = u
    BY ZenonT(60), <2>2
  <2>6. PICK f \in FrameRecords : f = v
    BY ZenonT(60), <2>3
  <2>7. /\ t.pc \notin BusyPcs /\ f.pc \notin BusyPcs /\ f.pc # "none" /\ t.pc \notin {"none", "init"}
        /\ t.pc \notin ProgramPcs /\ frame[depth].pc \notin ProgramPcs /\ f.pc \notin ProgramPcs
        /\ frame[depth].pc \notin {"old", "old_flag", "flag", "store"}
    BY ZenonT(60), <1>1, <2>2, <2>3, <2>5, <2>6 DEF BusyPcs, SigactionPcs, EarlyPcs, ProgramPcs, Cur
  <2>8. UNCHANGED <<proc, ctx, setting, sig_handlers, kernelVars, mask, pending, kills>>
    BY ZenonT(60), <1>3 DEF HandlerInvoke, contextVars
  <2>9. setting' \in BOOLEAN /\ Push(t, f)
    BY ZenonT(60), <2>4, <2>5, <2>6, <2>8 DEF Inv, TypeOK
  <2>. QED  BY ZenonT(60), <2>7, <2>8, <2>9, CalmPush
<1>. QED  BY ZenonT(60), <1>2, <1>3

(* The first frame runs alone in the program's own code.                   *)
LEMMA ProgramTop ==
    ASSUME Inv, frame[depth].pc \in ProgramPcs
    PROVE  depth = 1
BY ZenonT(60), DepthType DEF Inv, TypeOK

(* The steps of wasmjit_emscripten_init and wasmjit_emscripten_cleanup.    *)
LEMMA ProgramGoto ==
    ASSUME Inv, NEW p \in ProgramPcs \ {"init"}, NEW q \in ProgramPcs, At(q), Goto(p),
           UNCHANGED <<proc, depth, kernelVars, mask, pending, kills>>,
           ctx' \in {"null", "set"}, setting' \in BOOLEAN,
           sig_handlers' \in [Signals -> Entries],
           \A s \in Signals : sig_handlers'[s] = accepted[s]
    PROVE  Inv'
<1>1. /\ p \in Pcs /\ q \in Pcs /\ p \notin BusyPcs /\ p \notin {"none", "init"} /\ q # "none"
      /\ p \in ProgramPcs
  BY ZenonT(60) DEF Pcs, ProgramPcs, BusyPcs, SigactionPcs, EarlyPcs
<1>2. frame[depth].pc = q /\ proc' \in {"running", "killed", "assert"}
  BY ZenonT(60) DEF At, Inv, TypeOK
<1>. QED  BY ZenonT(60), <1>1, <1>2, CalmGoto

(* In the program's own code the table agrees with the kernel.             *)
LEMMA ProgramAgrees ==
    ASSUME Inv, NEW q \in ProgramPcs, At(q)
    PROVE  \A s \in Signals : sig_handlers[s] = accepted[s]
BY ZenonT(60), AgreedUnlessStoring DEF At, ProgramPcs

(* The steps that set and clear the handler's context.                     *)
LEMMA ContextSteps == ASSUME Inv, ContextStep PROVE Inv'
<1>. USE DEF contextVars
<1>1. ctx \in {"null", "set"} /\ setting \in BOOLEAN /\ sig_handlers \in [Signals -> Entries]
  BY ZenonT(60) DEF Inv, TypeOK
<1>2. ASSUME NEW q \in ProgramPcs, NEW p \in ProgramPcs \ {"init"}, BeginSetting(q, p) PROVE Inv'
  <2>1. \A s \in Signals : sig_handlers'[s] = accepted[s]
    BY ZenonT(60), <1>2, ProgramAgrees DEF BeginSetting
  <2>. QED  BY ZenonT(60), <1>1, <1>2, <2>1, ProgramGoto DEF BeginSetting
<1>3. CASE InitTable
  <2>1. \A s \in Signals : sig_handlers'[s] = accepted[s]
    BY ZenonT(60), <1>3, ProgramTop DEF InitTable, At, ProgramPcs, Inv, Agreeing
  <2>2. sig_handlers' \in [Signals -> Entries]
    BY ZenonT(60), <1>3 DEF InitTable, DefaultEntry, Entries, EM_SIG_DFL
  <2>3. "setting" \in ProgramPcs \ {"init"} /\ "init" \in ProgramPcs
    BY ZenonT(60) DEF ProgramPcs
  <2>. QED  BY ZenonT(60), <1>1, <1>3, <2>1, <2>2, <2>3, ProgramGoto DEF InitTable
<1>4. CASE BeginSetting("setting", "publish") \/ BeginSetting("cleanup", "removing")
  BY ZenonT(60), <1>2, <1>4 DEF ProgramPcs
<1>5. CASE PublishContext
  <2>1. "published" \in ProgramPcs \ {"init"} /\ "publish" \in ProgramPcs
    BY ZenonT(60) DEF ProgramPcs
  <2>2. \A s \in Signals : sig_handlers'[s] = accepted[s]
    BY ZenonT(60), <1>5, <2>1, ProgramAgrees DEF PublishContext
  <2>3. CASE ctx = "null"
    BY ZenonT(60), <1>1, <1>5, <2>1, <2>2, <2>3, ProgramGoto DEF PublishContext
  <2>4. CASE ctx # "null"
    <3>1. UNCHANGED <<depth, frame, contextVars, sig_handlers, kernelVars, mask, pending, kills>>
          /\ proc' = "assert"
      BY ZenonT(60), <1>5, <2>4 DEF PublishContext
    <3>. QED  BY ZenonT(60), <3>1, SameFrames DEF Inv, TypeOK
  <2>. QED  BY ZenonT(60), <2>3, <2>4
<1>6. CASE MainReturned
  <2>1. "cleanup" \in ProgramPcs \ {"init"} /\ "main" \in ProgramPcs
    BY ZenonT(60) DEF ProgramPcs
  <2>2. \A s \in Signals : sig_handlers'[s] = accepted[s]
    BY ZenonT(60), <1>6, <2>1, ProgramAgrees DEF MainReturned
  <2>. QED  BY ZenonT(60), <1>1, <1>6, <2>1, <2>2, ProgramGoto DEF MainReturned
<1>7. CASE RemoveContext
  <2>1. "removed" \in ProgramPcs \ {"init"} /\ "removing" \in ProgramPcs
    BY ZenonT(60) DEF ProgramPcs
  <2>2. \A s \in Signals : sig_handlers'[s] = accepted[s]
    BY ZenonT(60), <1>7, <2>1, ProgramAgrees DEF RemoveContext
  <2>. QED  BY ZenonT(60), <1>1, <1>7, <2>1, <2>2, ProgramGoto DEF RemoveContext
<1>8. CASE EndSetting
  <2>1. "stopped" \in ProgramPcs \ {"init"} /\ "removed" \in ProgramPcs
    BY ZenonT(60) DEF ProgramPcs
  <2>2. \A s \in Signals : sig_handlers'[s] = accepted[s]
    BY ZenonT(60), <1>8, <2>1, ProgramAgrees DEF EndSetting
  <2>. QED  BY ZenonT(60), <1>1, <1>8, <2>1, <2>2, ProgramGoto DEF EndSetting
<1>9. CASE InvokeMain
  <2>1. frame[depth].pc = "published" /\ depth = 1
    BY ZenonT(60), <1>9, ProgramTop DEF InvokeMain, At, ProgramPcs
  <2>2. frame[1] \in FrameRecords /\ mask \subseteq Signals
    BY ZenonT(60), DepthType DEF Inv, TypeOK
  <2>. DEFINE u == [frame[1] EXCEPT !.pc = "main", !.saved = mask]
              v == NewFrame("wasm", NULL, {})
  <2>3. u \in FrameRecords /\ u.pc = "main"
    BY ZenonT(60), <2>2 DEF FrameRecords, Pcs, ProgramPcs
  <2>4. v \in FrameRecords /\ v.pc = "wasm"
    <3>1. DefaultEntry \in Entries
      BY ZenonT(60) DEF DefaultEntry, Entries, EM_SIG_DFL
    <3>. QED  BY ZenonT(60), <3>1 DEF NewFrame, FrameRecords, Pcs
  <2>5. Push(u, v)
    BY ZenonT(60), <1>9 DEF InvokeMain
  <2>. HIDE DEF u, v
  <2>6. PICK t \in FrameRecords : t = u
    BY ZenonT(60), <2>3
  <2>7. PICK f \in FrameRecords : f = v
    BY ZenonT(60), <2>4
  <2>8. /\ t.pc \notin BusyPcs /\ f.pc \notin BusyPcs /\ f.pc # "none" /\ t.pc \notin {"none", "init"}
        /\ t.pc \in ProgramPcs /\ frame[depth].pc \in ProgramPcs /\ f.pc \notin ProgramPcs
        /\ frame[depth].pc \notin {"old", "old_flag", "flag", "store"}
    BY ZenonT(60), <2>1, <2>3, <2>4, <2>6, <2>7 DEF BusyPcs, SigactionPcs, EarlyPcs, ProgramPcs
  <2>9. UNCHANGED <<proc, ctx, sig_handlers, kernelVars, mask, pending, kills>> /\ setting' \in BOOLEAN
    BY ZenonT(60), <1>9 DEF InvokeMain
  <2>10. Push(t, f)
    BY ZenonT(60), <2>5, <2>6, <2>7
  <2>. QED  BY ZenonT(60), <2>8, <2>9, <2>10, CalmPush
<1>. QED  BY ZenonT(60), <1>3, <1>4, <1>5, <1>6, <1>7, <1>8, <1>9 DEF ContextStep

(* The steps of the program.                                               *)
LEMMA WasmSteps == ASSUME Inv, Disciplined, WasmStep PROVE Inv'
<1>1. CASE \E s \in Signals, a \in Acts, q \in BOOLEAN : CallSigaction(s, a, q)
  BY ZenonT(60), <1>1, CallStep
<1>2. ASSUME At("wasm") PROVE Cur.pc = "wasm" /\ Cur.pc \notin BusyPcs /\ depth # 1
  <2>1. Cur.pc = "wasm" /\ Cur.pc \notin BusyPcs /\ Cur.pc \notin ProgramPcs
    BY ZenonT(60), <1>2 DEF At, Cur, BusyPcs, SigactionPcs, EarlyPcs, ProgramPcs
  <2>. QED  BY ZenonT(60), <2>1, BeyondInit DEF Cur
<1>3. CASE \E m \in {{}, Signals} : SigProcMask(m)
  <2>1. PICK m \in {{}, Signals} : SigProcMask(m)
    BY ZenonT(60), <1>3
  <2>2. /\ UNCHANGED <<proc, depth, frame, contextVars, sig_handlers, kernelVars, pending, kills>>
        /\ mask' \subseteq Signals /\ At("wasm")
    BY ZenonT(60), <2>1 DEF SigProcMask
  <2>. QED  BY ZenonT(60), <1>2, <2>2, SameFrames DEF Inv, TypeOK
<1>4. ASSUME At("wasm"), Pop,
             UNCHANGED <<proc, contextVars, sig_handlers, kernelVars, mask, pending, kills>>
      PROVE  Inv'
  <2>1. mask' \subseteq Signals
    BY ZenonT(60), <1>4 DEF Inv, TypeOK
  <2>2. frame[depth].pc \notin {"old", "old_flag", "flag", "store"}
    BY ZenonT(60), <1>2, <1>4 DEF Cur
  <2>. QED  BY ZenonT(60), <1>2, <1>4, <2>1, <2>2, CalmPop
<1>5. CASE WasmReturn
  BY ZenonT(60), <1>4, <1>5 DEF WasmReturn
<1>6. CASE WasmTrap /\ frame[1].pc = "main"
  <2>1. /\ depth' = 1 /\ mask' = frame[1].saved
        /\ frame' = [d \in Frames |-> IF d = 1 THEN frame[1] ELSE NewFrame("none", NULL, {})]
        /\ UNCHANGED <<proc, contextVars, sig_handlers, kernelVars, pending, kills>>
    BY ZenonT(60), <1>6 DEF WasmTrap
  <2>2. 1 \in Frames /\ frame[1] \in FrameRecords /\ Frames \subseteq Nat \ {0}
    BY DepthType DEF Inv, TypeOK, Frames
  <2>3. /\ frame' \in [Frames -> FrameRecords] /\ frame'[1] = frame[1]
        /\ \A d \in Frames : d # 1 => frame'[d].pc = "none"
    BY ZenonT(60), <2>1, <2>2, EmptyFrame
  <2>4. \A d \in Frames : frame'[d].pc \notin BusyPcs
    BY ZenonT(60), <1>6, <2>3 DEF BusyPcs, SigactionPcs, EarlyPcs
  <2>5. \A d \in Frames : (frame'[d].pc = "none" <=> d > depth')
                          /\ (frame'[d].pc \in ProgramPcs <=> d = 1)
    <3>. SUFFICES ASSUME NEW d \in Frames
                  PROVE  (frame'[d].pc = "none" <=> d > depth') /\ (frame'[d].pc \in ProgramPcs <=> d = 1)
      BY ZenonT(60)
    <3>1. CASE d = 1
      BY <1>6, <2>1, <2>3, <3>1 DEF ProgramPcs
    <3>2. CASE d # 1
      <4>1. d > depth'
        BY <2>1, <2>2, <3>2
      <4>2. frame'[d].pc = "none"
        BY ZenonT(60), <2>3, <3>2
      <4>. QED  BY ZenonT(60), <3>2, <4>1, <4>2 DEF ProgramPcs
    <3>. QED  BY ZenonT(60), <3>1, <3>2
  <2>6. mask' \subseteq Signals
    BY ZenonT(60), <2>1, <2>2 DEF FrameRecords
  <2>7. TypeOK'
    BY ZenonT(60), <2>1, <2>2, <2>3, <2>5, <2>6 DEF Inv, TypeOK, contextVars, kernelVars
  <2>8. \A s \in Signals : sig_handlers'[s] = accepted[s]
    BY ZenonT(60), <1>2, <1>6, <2>1, AgreedUnlessStoring DEF WasmTrap, Cur
  <2>. QED  BY ZenonT(60), <1>6, <2>1, <2>3, <2>4, <2>7, <2>8, CalmStep
<1>7. CASE WasmTrap /\ frame[1].pc # "main"
  BY ZenonT(60), <1>4, <1>7 DEF WasmTrap
<1>. QED  BY ZenonT(60), <1>1, <1>3, <1>5, <1>6, <1>7 DEF WasmStep

(* The steps of _sigaction.                                                *)
LEMMA SigactionSteps == ASSUME Inv, SigactionStep PROVE Inv'
<1>1. ASSUME Cur.pc \in {"sys", "return"}, Pop,
             UNCHANGED <<proc, contextVars, sig_handlers, kernelVars, mask, pending, kills>>
      PROVE  Inv'
  <2>1. Cur.pc \notin ProgramPcs /\ frame[depth].pc \notin {"old", "old_flag", "flag", "store"}
    BY ZenonT(60), <1>1 DEF ProgramPcs, Cur
  <2>2. mask' \subseteq Signals
    BY ZenonT(60), <1>1 DEF Inv, TypeOK
  <2>3. depth # 1
    BY ZenonT(60), <2>1, BeyondInit DEF Cur
  <2>. QED  BY ZenonT(60), <1>1, <2>1, <2>2, <2>3, CalmPop
<1>2. CASE SigactionFails
  BY ZenonT(60), <1>1, <1>2 DEF SigactionFails, At, Cur
<1>3. CASE SigactionReturn
  BY ZenonT(60), <1>1, <1>3 DEF SigactionReturn, At, Cur
<1>. QED  BY ZenonT(60), <1>2, <1>3, SysStep, OldStep, OldFlagStep, FlagStep, StoreStep DEF SigactionStep

(* The steps of the native handler.                                        *)
LEMMA HandlerSteps == ASSUME Inv, HandlerStep PROVE Inv'
<1>1. CASE SigReturn
  <2>1. Cur.pc = "sigreturn" /\ Cur.pc \notin ProgramPcs
    BY ZenonT(60), <1>1 DEF SigReturn, At, Cur, ProgramPcs
  <2>2. depth # 1 /\ frame[depth].pc \notin {"old", "old_flag", "flag", "store"}
    BY ZenonT(60), <2>1, BeyondInit DEF Cur
  <2>3. mask' \subseteq Signals
    BY ZenonT(60), <1>1, CurType DEF SigReturn, FrameRecords
  <2>. QED  BY ZenonT(60), <1>1, <2>2, <2>3, CalmPop DEF SigReturn
<1>. QED  BY ZenonT(60), <1>1, HandlerEnterStep, HandlerLookupStep, HandlerFptrStep, HandlerInvokeStep
       DEF HandlerStep

(* A signal is sent, delivered or discarded.                               *)
LEMMA SignalSteps ==
    ASSUME Inv, NEW s \in Signals, Kill(s) \/ Deliver(s) \/ Discard(s)
    PROVE  Inv'
<1>1. /\ mask \subseteq Signals /\ pending \subseteq Signals /\ kills \in 0..MaxKills
      /\ proc \in {"running", "killed", "assert"}
  BY ZenonT(60) DEF Inv, TypeOK
<1>2. CASE Kill(s)
  <2>1. pending' \subseteq Signals /\ kills' \in 0..MaxKills
    BY <1>1, <1>2, BoundsAssumption DEF Kill
  <2>. QED  BY ZenonT(60), <1>1, <1>2, <2>1, SameFrames DEF Kill
<1>3. CASE Discard(s)
  <2>1. pending' \subseteq Signals /\ proc' \in {"running", "killed", "assert"}
    BY ZenonT(60), <1>1, <1>3 DEF Discard
  <2>. QED  BY ZenonT(60), <1>1, <1>3, <2>1, SameFrames DEF Discard
<1>. QED  BY ZenonT(60), <1>2, <1>3, DeliverStep

-----------------------------------------------------------------------------
(* The invariant holds initially.                                          *)
LEMMA InvInit == Init => Inv
<1>. SUFFICES ASSUME Init PROVE Inv
  BY ZenonT(60)
<1>1. DefaultEntry \in Entries
  BY ZenonT(60) DEF DefaultEntry, Entries, EM_SIG_DFL
<1>2. Frames \subseteq Nat \ {0} /\ 1 \in Frames
  BY BoundsAssumption DEF Frames
<1>3. \A d \in Frames : /\ frame[d] \in FrameRecords
                        /\ frame[d].pc = IF d = 1 THEN "init" ELSE "none"
  BY ZenonT(60), <1>1 DEF Init, NewFrame, FrameRecords, Pcs, ProgramPcs
<1>4. frame \in [Frames -> FrameRecords]
  BY ZenonT(60), <1>3 DEF Init
<1>5. \A d \in Frames : /\ frame[d].pc = "none" <=> d > depth
                        /\ frame[d].pc \in ProgramPcs <=> d = 1
  BY <1>2, <1>3 DEF Init, ProgramPcs
<1>6. TypeOK
  <2>1. depth \in Frames /\ kills \in 0..MaxKills
    BY <1>2, BoundsAssumption DEF Init
  <2>2. sig_handlers \in [Signals -> Entries] /\ accepted \in [Signals -> Entries]
    BY ZenonT(60), <1>1 DEF Init
  <2>3. /\ action \in [Signals -> {"dfl", "ign", "handler"}] /\ sa_mask \in [Signals -> SUBSET Signals]
        /\ proc \in {"running", "killed", "assert"} /\ ctx \in {"null", "set"} /\ setting \in BOOLEAN
        /\ mask \subseteq Signals /\ pending \subseteq Signals
        /\ sa_flags \in [Signals -> Flags] /\ changed \subseteq Signals
    BY ZenonT(60) DEF Init, Flags
  <2>. QED  BY ZenonT(60), <1>4, <1>5, <2>1, <2>2, <2>3 DEF TypeOK
<1>7. Quiet /\ Handling /\ Storing
  BY ZenonT(60), <1>3 DEF Quiet, Handling, Storing, BusyPcs, SigactionPcs, EarlyPcs
<1>8. Covered
  <2>1. DefaultEntry.handler \in Native /\ NativeAction(DefaultEntry.handler) = "dfl"
    BY DEF DefaultEntry, Native, NativeAction, EM_SIG_DFL, EM_SIG_IGN
  <2>2. \A s \in Signals : /\ action[s] \in {"dfl", "ign"} /\ s \notin changed
                           /\ accepted[s] = DefaultEntry /\ ~sa_flags[s].siginfo
    BY ZenonT(60) DEF Init
  <2>. QED  BY ZenonT(60), <2>1, <2>2 DEF Covered, Stands
<1>9. Agreeing
  BY ZenonT(60) DEF Init, Agreeing
<1>. QED  BY ZenonT(60), <1>6, <1>7, <1>8, <1>9 DEF Inv

(* Every step of a disciplined program keeps the invariant.                *)
LEMMA InvNext == ASSUME Disciplined, Inv, [Next]_vars PROVE Inv'
<1>1. CASE UNCHANGED vars
  BY ZenonT(60), <1>1, SameFrames DEF vars, contextVars, kernelVars, Inv, TypeOK
<1>2. CASE Ended
  BY ZenonT(60), <1>1, <1>2 DEF Ended
<1>. QED  BY <1>1, <1>2, ContextSteps, WasmSteps, SigactionSteps, HandlerSteps, SignalSteps, ZenonT(60) DEF Next

(* In a disciplined program the inductive invariant holds in every state.  *)
THEOREM InvAlways == ASSUME Disciplined PROVE Spec => []Inv
<1>1. Init => Inv
  BY ZenonT(60), InvInit
<1>2. Inv /\ [Next]_vars => Inv'
  BY ZenonT(60), InvNext
<1>. QED  BY <1>1, <1>2, PTL DEF Spec

(* The native handler's assertions hold: it never finds SIG_DFL or SIG_IGN *)
(* in ctx->sig_handlers.                                                   *)
THEOREM HandlerAlwaysDefined == ASSUME Disciplined PROVE Spec => []HandlerDefined
<1>1. Inv => HandlerDefined
  <2>. SUFFICES ASSUME Inv, NEW d \in 1..depth, frame[d].pc = "assert"
                PROVE  frame[d].entry.handler \notin Native
    BY ZenonT(60) DEF HandlerDefined
  <2>1. d \in Frames
    BY DepthType, BoundsAssumption DEF Inv, Frames
  <2>2. d = depth /\ frame[d].sig \in Signals
    BY ZenonT(60), <2>1 DEF Inv, Quiet, BusyPcs, EarlyPcs
  <2>3. frame[d].entry.handler = sig_handlers[frame[d].sig].handler
    BY ZenonT(60), <2>1 DEF Inv, Handling
  <2>4. accepted[frame[d].sig].handler \notin Native
    BY ZenonT(60), <2>1 DEF Inv, Handling, EarlyPcs
  <2>5. sig_handlers[frame[d].sig] = accepted[frame[d].sig]
    BY ZenonT(60), <2>2, AgreedUnlessStoring
  <2>. QED  BY ZenonT(60), <2>3, <2>4, <2>5
<1>. QED  BY <1>1, InvAlways, PTL

(* The handler calls the function of the action the kernel accepted last,  *)
(* through the dynCall that belongs to that action.                        *)
THEOREM HandlerAlwaysCurrent == ASSUME Disciplined PROVE Spec => []HandlerCurrent
<1>1. Inv => HandlerCurrent
  <2>. SUFFICES ASSUME Inv, NEW d \in 1..depth, frame[d].pc = "assert"
                PROVE  frame[d].entry = accepted[frame[d].sig]
    BY ZenonT(60) DEF HandlerCurrent
  <2>1. d \in Frames
    BY DepthType, BoundsAssumption DEF Inv, Frames
  <2>2. d = depth /\ frame[d].sig \in Signals
    BY ZenonT(60), <2>1 DEF Inv, Quiet, BusyPcs, EarlyPcs
  <2>3. /\ frame[d].entry.siginfo = sig_handlers[frame[d].sig].siginfo
        /\ frame[d].entry.handler = sig_handlers[frame[d].sig].handler
    BY ZenonT(60), <2>1 DEF Inv, Handling
  <2>4. sig_handlers[frame[d].sig] = accepted[frame[d].sig]
    BY ZenonT(60), <2>2, AgreedUnlessStoring
  <2>5. frame[d].entry \in Entries /\ sig_handlers[frame[d].sig] \in Entries
    BY ZenonT(60), <2>1, <2>2 DEF Inv, TypeOK, FrameRecords
  <2>6. frame[d].entry = sig_handlers[frame[d].sig]
    BY <2>3, <2>5 DEF Entries
  <2>. QED  BY ZenonT(60), <2>4, <2>6
<1>. QED  BY <1>1, InvAlways, PTL

(* _sigaction reports as oldact the function of the action that its own    *)
(* call replaced, although it reads the table after the system call.       *)
THEOREM OldActAlwaysTold == ASSUME Disciplined PROVE Spec => []OldActTold
<1>1. Inv => OldActTold
  BY DepthType, BoundsAssumption DEF Inv, Storing, OldActTold, Frames
<1>. QED  BY <1>1, InvAlways, PTL

(* When no _sigaction of a signal is in progress, ctx->sig_handlers holds  *)
(* the action the program gave last, and the kernel's disposition differs  *)
(* from it only after a reset by SA_RESETHAND or for a signal that was     *)
(* ignored from the start.                                                 *)
THEOREM TableAlwaysAgrees == ASSUME Disciplined PROVE Spec => []TableAgrees
<1>1. Inv => TableAgrees
  BY ZenonT(60) DEF Inv, Agreeing, Covered, TableAgrees
<1>. QED  BY <1>1, InvAlways, PTL
=============================================================================
