------------------------------ MODULE HookDLL ------------------------------
(***************************************************************************)
(* The hook DLL (MedusaDLL/dllmain.cpp) in a process, composed with the    *)
(* named pipe.  InitThread is started by DllMain and again by the exported *)
(* Start; the winner of the interlocked exchange sets up MinHook,          *)
(* announces itself and installs the hook.  From then on every call of     *)
(* CreateRemoteThreadEx by an application thread goes through the hook,    *)
(* which calls the real function and reports the call.  Some other process *)
(* writes messages of any size to the pipe.                                *)
(*                                                                         *)
(* DLL_PROCESS_DETACH happens only when the process ends, after its other  *)
(* threads: nothing is left that could see what it resets.                 *)
(***************************************************************************)
EXTENDS MedusaPipe

CONSTANTS
  InitThreads, \* the threads running InitThread
  AppThreads,  \* threads of the process that call CreateRemoteThreadEx
  Others       \* threads of other processes that write to the pipe

ASSUME ThreadAssumption ==
  /\ Thread = InitThreads \cup AppThreads \cup Others
  /\ InitThreads \cap (AppThreads \cup Others) = {}
  /\ AppThreads \cap Others = {}

VARIABLES
  inited,  \* g_inited
  real,    \* whether RealCreateRemoteThreadEx points to the real function
  enabled, \* the hook is in place
  pc,      \* program counter of every thread
  inits,   \* history: how often MH_Initialize was called
  hooks    \* history: how often MH_CreateHook has patched the function

dllVars == <<inited, real, enabled, pc, inits, hooks>>
vars == <<pipeVars, dllVars>>

Goto(t, label) == pc' = [pc EXCEPT ![t] = label]

Init ==
  /\ PipeInit
  /\ inited = FALSE /\ real = FALSE /\ enabled = FALSE
  /\ pc = [t \in Thread |-> IF t \in InitThreads THEN "init" ELSE "app"]
  /\ inits = 0 /\ hooks = 0

-----------------------------------------------------------------------------
(* InitThread *)

\* Mutant: test and set are two steps.
InitOnceGuard_Split(t) ==
  \/ pc[t] = "init" /\ ~inited /\ UNCHANGED inited /\ Goto(t, "set")
  \/ pc[t] = "set" /\ inited' = TRUE /\ Goto(t, "minhook")
  \/ pc[t] = "init" /\ inited /\ UNCHANGED inited /\ Goto(t, "done")

\* InterlockedCompareExchange(&g_inited, 1, 0)
InitOnceGuard(t) ==
  /\ pc[t] = "init"
  /\ inited' = TRUE
  /\ Goto(t, IF inited THEN "done" ELSE "minhook")

EnterInit(t) == InitOnceGuard(t) /\ UNCHANGED <<pipeVars, real, enabled, inits, hooks>>

\* A failed MH_Initialize leaves g_inited set: nobody tries again.
MH_Initialize(t) ==
  /\ pc[t] = "minhook"
  /\ inits' = inits + 1
  /\ Goto(t, "announce") \/ Goto(t, "done")
  /\ UNCHANGED <<pipeVars, inited, real, enabled, hooks>>

SendTestEvent(t) ==
  /\ pc[t] = "announce"
  /\ BeginSend(t, "event")
  /\ Goto(t, "KernelBase")
  /\ UNCHANGED <<inited, real, enabled, inits, hooks>>

\* Mutant: MH_CreateHook is not given the pointer to store into.
Trampoline_Lost == UNCHANGED real

\* MH_CreateHook stores the way to the original function in *pReal.
Trampoline == real' = TRUE

\* HookExport for KernelBase or kernel32: no module, no export and a failed
\* MH_CreateHook all leave the pointer null.
HookExport(t, mod) ==
  /\ pc[t] = mod /\ call[t] = "idle"
  /\ \/ Trampoline /\ hooks' = hooks + 1 /\ Goto(t, "enable")
     \/ UNCHANGED <<real, hooks>> /\ Goto(t, IF mod = "KernelBase" THEN "kernel32" ELSE "done")
  /\ UNCHANGED <<pipeVars, inited, enabled, inits>>

\* MH_EnableHook, which may fail.  kernel32 is tried next only if the pointer is
\* still null, so never after a hook that was created and could not be enabled.
MH_EnableHook(t) ==
  /\ pc[t] = "enable"
  /\ enabled' \in {TRUE, enabled}
  /\ Goto(t, IF real THEN "done" ELSE "kernel32")
  /\ UNCHANGED <<pipeVars, inited, real, inits, hooks>>

InitStep(t) ==
  \/ EnterInit(t) \/ MH_Initialize(t) \/ SendTestEvent(t) \/ MH_EnableHook(t)
  \/ \E mod \in {"KernelBase", "kernel32"} : HookExport(t, mod)

-----------------------------------------------------------------------------
(* HookCreateRemoteThreadEx *)

\* Bound: a new call is begun only if MaxMsgs leaves room for the messages that
\* calls in progress have yet to send.
MayBegin ==
  msgs + Cardinality({t \in AppThreads : pc[t] = "hook"})
       + (IF \E t \in InitThreads : pc[t] \in {"init", "minhook", "announce"} THEN 1 ELSE 0)
    < MaxMsgs

\* An application thread calls the hooked function.
EnterHook(t) ==
  /\ pc[t] = "app" /\ call[t] = "idle"
  /\ enabled /\ MayBegin
  /\ Goto(t, "hook")
  /\ UNCHANGED <<pipeVars, inited, real, enabled, inits, hooks>>

\* The call of the real function, if there is one, and of SendIPCMessageRaw.
HookReport(t) ==
  /\ pc[t] = "hook"
  /\ BeginSend(t, "event")
  /\ Goto(t, "report")
  /\ UNCHANGED <<inited, real, enabled, inits, hooks>>

\* SendIPCMessageRaw has returned; its result is ignored.
HookReturn(t) ==
  /\ pc[t] = "report" /\ call[t] = "idle"
  /\ Goto(t, "app")
  /\ UNCHANGED <<pipeVars, inited, real, enabled, inits, hooks>>

\* Another process writes to the pipe.  Bound: one message for each such thread.
OtherSend(t) ==
  /\ pc[t] = "app" /\ MayBegin
  /\ \E size \in Sizes : BeginSend(t, size)
  /\ Goto(t, "done")
  /\ UNCHANGED <<inited, real, enabled, inits, hooks>>

-----------------------------------------------------------------------------
\* Nothing is left to do but to wait for clients.
Quiet ==
  /\ \A t \in Thread : call[t] = "idle" /\ pc[t] \in {"app", "done"}
  /\ spc = "wait" /\ cur \in Listening
  /\ ch = <<>> /\ \A i \in Inst : reader[i] = "none"
  /\ UNCHANGED vars

HookStep(t) == HookReport(t) \/ HookReturn(t)

Next ==
  \/ PipeStep /\ UNCHANGED dllVars
  \/ \E t \in InitThreads : InitStep(t)
  \/ \E t \in AppThreads : EnterHook(t) \/ HookStep(t)
  \/ \E t \in Others : OtherSend(t)
  \/ Quiet

Spec == Init /\ [][Next]_vars

\* Threads and goroutines that can run do run; the agent, when it has ended, is
\* started again.  Nothing is assumed of eventPump, which stops receiving while
\* the backend is away, nor of anyone making a call.
Fairness ==
  /\ WF_vars((ServerStep \/ Start) /\ UNCHANGED dllVars)
  /\ \A i \in Inst : WF_vars(ReaderStep(i) /\ UNCHANGED dllVars)
  /\ \A t \in Thread : WF_vars(SendStep(t) /\ UNCHANGED dllVars)
  /\ \A t \in InitThreads : WF_vars(InitStep(t))
  /\ \A t \in AppThreads : WF_vars(HookStep(t))

FairSpec == Spec /\ Fairness
-----------------------------------------------------------------------------
(* Properties *)

Msg == (0..MaxMsgs) \X Sizes

PipeType ==
  /\ up \in BOOLEAN /\ exits \in 0..MaxExits
  /\ inst \in SUBSET Inst /\ cur \in Inst \cup {0}
  /\ client \in [Inst -> Thread \cup {"none", "gone"}]
  /\ buf \in [Inst -> Seq(Msg)] /\ hand \in [Inst -> Msg]
  /\ spc \in {"create", "connect", "wait"}
  /\ reader \in [Inst -> {"none", "read", "send", "leave"}]
  /\ ch \in Seq(Msg) /\ Len(ch) <= Cap
CallType ==
  /\ call \in [Thread -> {"idle", "open", "write", "close"}] /\ msg \in [Thread -> Msg]
  /\ msgs \in 0..MaxMsgs
  /\ taken \in [1..MaxMsgs -> Nat] /\ dropped \in SUBSET (1..MaxMsgs)
DllType ==
  /\ inited \in BOOLEAN /\ enabled \in BOOLEAN /\ real \in BOOLEAN
  /\ inits \in Nat /\ hooks \in Nat
  /\ pc \in [Thread -> {"init", "minhook", "announce", "KernelBase", "kernel32", "enable",
                        "done", "app", "hook", "report"}]

\* Types of all variables.
TypeOK == PipeType /\ CallType /\ DllType

\* No pipe instance is leaked: each one that exists is either the server loop's
\* current one or served by a reader, never both and never neither.  There are only
\* 16, and a leaked one never comes back.
NoInstanceLeak ==
  /\ cur # 0 <=> spc # "create"
  /\ inst = ({cur} \ {0}) \cup {i \in Inst : reader[i] # "none"}
  /\ cur # 0 => reader[cur] = "none"

\* MinHook is initialised at most once and the function patched at most once in the
\* life of the process, however the threads that run InitThread interleave, one after
\* the other included, and although one of them may try two modules.
InitOnce == inits <= 1 /\ hooks <= 1

\* A hooked call always reaches the real function, although the hook and the
\* pointer it uses are set in two steps while application threads run.
HookFallsThrough == \A t \in AppThreads : pc[t] = "hook" => real

Stream == INSTANCE EventStream WITH
  Event <- 1..MaxMsgs, pending <- InPipe, forwarded <- taken

\* The pipe implements EventStream: a message that was written is received once or
\* discarded, through instances that are reused, readers that outlive their clients
\* and an agent that ends and starts again.
PipeIsStream == Stream!Spec

\* An event that was written is discarded in one situation only, as long as the
\* agent runs: its client has come and gone before ConnectNamedPipe was called.  Past
\* that call nothing is lost, however early the client closes.
LostOnlyBeforeConnect ==
  [][\A m \in dropped' \ dropped :
       up' => \/ \E i \in Inst : buf[i] # <<>> /\ Head(buf[i])[1] = m /\ Head(buf[i])[2] # "event"
              \/ spc = "connect" /\ client[cur] = "gone" /\ m \in Ids(buf[cur])]_vars

\* The hooked function returns to its caller whatever the agent does: not running,
\* out of instances, blocked on a full EventChannel.
HookedCallReturns == \A t \in AppThreads : pc[t] = "hook" ~> pc[t] = "app"

\* If EventChannel is drained again and again, the pipe keeps serving: it can be
\* opened again, and what was written to it leaves it.
PipeServes == []<>(ch = <<>>) => []<>(Listening # {} /\ InPipe = {})
=============================================================================
