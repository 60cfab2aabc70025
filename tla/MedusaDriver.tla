---------------------------- MODULE MedusaDriver ----------------------------
(***************************************************************************)
(* The kernel driver (MedusaKernelDriver): DriverEntry and                 *)
(* FilterUnloadCallback step by step, the communication port with its      *)
(* connect routine, the handle, process, thread and image callbacks that   *)
(* run on any thread at any time, and the agent's Receiver at the other    *)
(* end of the port (MedusaUserlandAgent/structs.go, main.go).              *)
(*                                                                         *)
(* Every step of DriverEntry may fail, and DriverEntry ignores it.  What   *)
(* the Filter, Process and Object Managers do is external: unregistering a *)
(* callback waits until no invocation of it is running, the unload         *)
(* callback runs only for a registered filter, and a port with one allowed *)
(* connection runs one connect routine at a time.  A call with an argument *)
(* its contract excludes (a filter that is NULL or gone, a registration    *)
(* that was never made) returns, or the machine stops (Bugcheck).          *)
(***************************************************************************)
EXTENDS Integers, FiniteSets

CONSTANTS
  Thread,      \* threads that may be inside a driver callback
  Pid,         \* process ids, the agents' included
  Ctxs,        \* <<target, agent>> pairs that agents connect with
  MaxConnects  \* bound: connections made to the port

Sentinel == "99133799"     \* initial value of ToProtectPID and AgentPID

ASSUME DriverAssumption ==
  /\ Ctxs \subseteq Pid \X Pid
  /\ MaxConnects \in Nat
  /\ Sentinel \notin Pid

Notify == {"process", "thread", "image"}
Kind   == Notify \cup {"handle"}

VARIABLES
  dpc,          \* where DriverEntry or FilterUnloadCallback is
  registered,   \* kinds of callbacks the system may invoke
  filter,       \* the minifilter is registered with the Filter Manager
  gHandle,      \* g_minifilterHandle is not NULL
  fltHandle,    \* flt_handle is not NULL
  refs,         \* references the driver holds on the filter
  fltPort,      \* flt_port is not NULL
  clientPort,   \* client_port: number of a connection, 0 for NULL
  connected,    \* the connection that is up, 0 if none
  connects,     \* number of connections so far
  ToProtectPID,
  AgentPID,
  cpc,          \* where MinifltPortNotifyRoutine is
  cctx,         \* the context it was called with
  pc,           \* where each thread is in a callback
  op,           \* the operation the callback was invoked for
  access,       \* for a handle operation: the access it leaves, full or minimal
  held,         \* the flt_handle that the callback has read was not NULL
  conf,         \* history: the last <<target, agent>> that a connect installed
  confs,        \* history: those in force, or being installed, since a handle callback began
  missed,       \* history: the event was sent and given up, with an agent connected
  receiver      \* the agent: waiting in FilterGetMessage, or busy with a message

drvVars  == <<dpc, registered, filter, gHandle, fltHandle, refs, fltPort>>
connVars == <<clientPort, connected, connects, cpc, cctx>>
pidVars  == <<ToProtectPID, AgentPID, conf>>
cbVars   == <<pc, op, access, held, confs, missed>>
vars == <<drvVars, connVars, pidVars, cbVars, receiver>>

NoOp == [kind |-> "none", caller |-> Sentinel, target |-> Sentinel]
NoConf == <<Sentinel, Sentinel>>

Init ==
  /\ dpc = "alloc" /\ registered = {} /\ filter = FALSE /\ gHandle = FALSE
  /\ fltHandle = FALSE /\ refs = 0 /\ fltPort = FALSE
  /\ clientPort = 0 /\ connected = 0 /\ connects = 0
  /\ cpc = "idle" /\ cctx = NoConf
  /\ ToProtectPID = Sentinel /\ AgentPID = Sentinel /\ conf = NoConf
  /\ pc = [t \in Thread |-> "idle"] /\ op = [t \in Thread |-> NoOp]
  /\ access = [t \in Thread |-> "full"] /\ held = [t \in Thread |-> FALSE]
  /\ confs = [t \in Thread |-> {}]
  /\ receiver = "busy" /\ missed = [t \in Thread |-> FALSE]

-----------------------------------------------------------------------------
(* DriverEntry *)

\* ExAllocatePool2 for the registry path: the only failure that ends DriverEntry.
AllocRegPath ==
  /\ dpc = "alloc"
  /\ dpc' \in {"handle", "failed"}
  /\ UNCHANGED <<registered, filter, gHandle, fltHandle, refs, fltPort, connVars, pidVars, cbVars, receiver>>

\* ObRegisterCallbacks succeeds or fails; DriverEntry goes on either way.
createRegistration ==
  /\ dpc = "handle"
  /\ registered' \in {registered, registered \cup {"handle"}}
  /\ dpc' = "filter"
  /\ UNCHANGED <<filter, gHandle, fltHandle, refs, fltPort, connVars, pidVars, cbVars, receiver>>

AfterRegister == [process |-> "thread", thread |-> "image", image |-> "bind"]

\* One of the three calls of registerNotifyRoutine, which goes on after a failure.
registerNotifyRoutine(k) ==
  /\ dpc = k
  /\ registered' \in {registered, registered \cup {k}}
  /\ dpc' = AfterRegister[k]
  /\ UNCHANGED <<filter, gHandle, fltHandle, refs, fltPort, connVars, pidVars, cbVars, receiver>>

FltRegisterFilter ==
  /\ dpc = "filter"
  /\ \/ filter' = TRUE /\ gHandle' = TRUE /\ dpc' = "start"
     \/ UNCHANGED <<filter, gHandle>> /\ dpc' = "process"
  /\ UNCHANGED <<registered, fltHandle, refs, fltPort, connVars, pidVars, cbVars, receiver>>

\* On failure the filter is unregistered, and g_minifilterHandle keeps its value.
FltStartFiltering ==
  /\ dpc = "start"
  /\ filter' \in BOOLEAN
  /\ dpc' = "process"
  /\ UNCHANGED <<registered, gHandle, fltHandle, refs, fltPort, connVars, pidVars, cbVars, receiver>>

\* BindToExistingFilterAndCreatePort: FltGetFilterFromName takes a reference ...
BindFilter ==
  /\ dpc = "bind"
  /\ \/ filter /\ fltHandle' = TRUE /\ refs' = refs + 1 /\ dpc' = "port"
     \/ UNCHANGED <<fltHandle, refs>> /\ dpc' = "running"
  /\ UNCHANGED <<registered, filter, gHandle, fltPort, connVars, pidVars, cbVars, receiver>>

\* ... which MinifltPortInitialize's failure gives back.
MinifltPortInitialize ==
  /\ dpc = "port"
  /\ \/ fltPort' = TRUE /\ UNCHANGED <<fltHandle, refs>>
     \/ fltHandle' = FALSE /\ refs' = refs - 1 /\ UNCHANGED fltPort
  /\ dpc' = "running"
  /\ UNCHANGED <<registered, filter, gHandle, connVars, pidVars, cbVars, receiver>>

-----------------------------------------------------------------------------
(* FilterUnloadCallback *)

\* The Filter Manager unloads a filter that is registered.
UnloadBegin ==
  /\ dpc = "running"
  /\ filter
  /\ dpc' = "closeport"
  /\ UNCHANGED <<registered, filter, gHandle, fltHandle, refs, fltPort, connVars, pidVars, cbVars, receiver>>

\* MinifltPortFinalize, first half: no more connections.
ClosePort ==
  /\ dpc = "closeport"
  /\ fltPort' = FALSE
  /\ dpc' = "deref"
  /\ UNCHANGED <<registered, filter, gHandle, fltHandle, refs, connVars, pidVars, cbVars, receiver>>

\* Mutants: the reference is not given back, or without the test of flt_handle.
Deref_Missing == UNCHANGED refs
Deref_Unguarded == refs' = refs - 1

\* if (flt_handle) FltObjectDereference(flt_handle)
Deref == refs' = IF fltHandle THEN refs - 1 ELSE refs

\* Second half: callbacks still run and find flt_handle = NULL from here on.
DerefFilter ==
  /\ dpc = "deref"
  /\ fltHandle' = FALSE
  /\ Deref
  /\ dpc' = "unregister"
  /\ UNCHANGED <<registered, filter, gHandle, fltPort, connVars, pidVars, cbVars, receiver>>

\* FltUnregisterFilter waits for references and for a connect routine, and cuts
\* the connection off; MinifltPortDisconnectRoutine leaves everything as it is.
UnregisterFilter ==
  /\ dpc = "unregister"
  /\ gHandle => refs = 0 /\ cpc = "idle"
  /\ filter' = (filter /\ ~gHandle)
  /\ gHandle' = FALSE
  /\ connected' = IF gHandle THEN 0 ELSE connected
  /\ receiver' = IF gHandle THEN "busy" ELSE receiver
  /\ dpc' = "noprocess"
  /\ UNCHANGED <<registered, fltHandle, refs, fltPort, clientPort, connects, cpc, cctx, pidVars, cbVars>>

Drained(kinds) == \A t \in Thread : op[t].kind \notin kinds

\* Mutant: the call waits for running invocations, but removes nothing.
Without_All(k) == registered

Without(k) == registered \ {k}

\* One call: the callback is removed, and the previous call has waited for the
\* invocations of its own kind that were running.
Unregister(at, k, waited, next) ==
  /\ dpc = at
  /\ Drained(waited)
  /\ registered' = Without(k)
  /\ dpc' = next
  /\ UNCHANGED <<filter, gHandle, fltHandle, refs, fltPort, connVars, pidVars, cbVars, receiver>>

\* unregisterNotifyRoutine, then ObUnRegisterCallbacks, whether or not
\* createRegistration succeeded: see OutOfContract.
UnregisterCallbacks ==
  \/ Unregister("noprocess", "process", {}, "nothread")
  \/ Unregister("nothread", "thread", {"process"}, "noimage")
  \/ Unregister("noimage", "image", {"thread"}, "nohandle")
  \/ Unregister("nohandle", "handle", {"image"}, "return")

UnloadReturn ==
  /\ dpc = "return"
  /\ Drained({"handle"})
  /\ dpc' = "unloaded"
  /\ UNCHANGED <<registered, filter, gHandle, fltHandle, refs, fltPort, connVars, pidVars, cbVars, receiver>>

-----------------------------------------------------------------------------
(* The port: Receiver.Connect and MinifltPortNotifyRoutine *)

\* client_port is set at once.  A context that is absent or not of version 1
\* changes nothing else.
ConnectBegin ==
  /\ fltPort /\ cpc = "idle" /\ connected = 0
  /\ connects < MaxConnects
  /\ connects' = connects + 1
  /\ clientPort' = connects + 1
  /\ \/ \E c \in Ctxs : cctx' = c /\ cpc' = "target"
     \/ cpc' = "connected" /\ UNCHANGED cctx
  /\ UNCHANGED <<drvVars, connected, pidVars, cbVars, receiver>>

\* History: the threads inside a handle callback witness the new configuration.
Witnessed(c) == [t \in Thread |-> IF op[t].kind = "handle" THEN confs[t] \cup {c} ELSE {}]

\* InterlockedExchange(&ToProtectPID, ctx->ToProtectPID)
ConnectTarget ==
  /\ cpc = "target"
  /\ ToProtectPID' = cctx[1]
  /\ confs' = Witnessed(cctx)
  /\ cpc' = "agent"
  /\ UNCHANGED <<drvVars, clientPort, connected, connects, cctx, AgentPID, conf, pc, op, access, held, missed, receiver>>

\* InterlockedExchange(&AgentPID, ctx->AgentPID)
ConnectAgent ==
  /\ cpc = "agent"
  /\ AgentPID' = cctx[2]
  /\ conf' = cctx
  /\ cpc' = "connected"
  /\ UNCHANGED <<drvVars, clientPort, connected, connects, cctx, ToProtectPID, cbVars, receiver>>

ConnectReturn ==
  /\ cpc = "connected"
  /\ connected' = clientPort
  /\ cpc' = "idle"
  /\ cctx' = NoConf
  /\ UNCHANGED <<drvVars, clientPort, connects, pidVars, cbVars, receiver>>

\* Receiver.Loop asks for the next message; before that it was blocked on
\* EventChannel, or had not connected yet.
GetMessage ==
  /\ connected # 0
  /\ receiver = "busy"
  /\ receiver' = "waiting"
  /\ UNCHANGED <<drvVars, connVars, pidVars, cbVars>>

\* Receiver.Close or the agent's death; MinifltPortDisconnectRoutine keeps
\* client_port and both PIDs.  Nobody calls FltCloseClientPort: whether the Filter
\* Manager accepts another connection afterwards is left open.
Disconnect ==
  /\ connected # 0
  /\ connected' = 0
  /\ receiver' = "busy"
  /\ UNCHANGED <<drvVars, clientPort, connects, cpc, cctx, pidVars, cbVars>>

-----------------------------------------------------------------------------
(* The callbacks *)

Goto(t, label) == pc' = [pc EXCEPT ![t] = label]

\* LoadImageNotifyRoutine, like CreateProcessNotifyRoutineEx, has no condition.
Unguarded == {"process", "image"}

\* Mutant: the thread callback reports every process too.
Entry_EveryThread(k) == IF k = "handle" THEN "enabled?" ELSE "send"

\* Process and image callbacks report everything; the other two look at the PIDs.
Entry(k) == IF k \in Unguarded THEN "send" ELSE "enabled?"

\* History: the configuration in force, and the one that is half installed.
InForce == {conf} \cup (IF cpc = "agent" THEN {cctx} ELSE {})

\* The system invokes a registered callback on thread t.  Thread exits, kernel
\* handles and other object types return at once; only the handle callback looks
\* at the caller.
Invoke(t, k, caller, target) ==
  /\ pc[t] = "idle"
  /\ k \in registered
  /\ k # "handle" => caller = target
  /\ op' = [op EXCEPT ![t] = [kind |-> k, caller |-> caller, target |-> target]]
  /\ access' = [access EXCEPT ![t] = "full"]
  /\ confs' = [confs EXCEPT ![t] = IF k = "handle" THEN InForce ELSE {}]
  /\ Goto(t, Entry(k))
  /\ UNCHANGED <<drvVars, connVars, pidVars, receiver, held, missed>>

\* if (ToProtectPID == 99133799) return
EnabledCheck(t) ==
  /\ pc[t] = "enabled?"
  /\ Goto(t, IF ToProtectPID = Sentinel THEN "return" ELSE "target?")
  /\ UNCHANGED <<drvVars, connVars, pidVars, op, access, held, confs, missed, receiver>>

\* if (pid != ToProtectPID) return: a second read of the same variable.
TargetCheck(t) ==
  /\ pc[t] = "target?"
  /\ Goto(t, IF op[t].target # ToProtectPID THEN "return"
             ELSE IF op[t].kind = "handle" THEN "agent?" ELSE "send")
  /\ UNCHANGED <<drvVars, connVars, pidVars, op, access, held, confs, missed, receiver>>

\* Mutant: the caller is compared with the wrong PID.
ByAgent_WrongPid(t) == op[t].caller = ToProtectPID

ByAgent(t) == op[t].caller = AgentPID

\* if (callerPID != AgentPID) DesiredAccess &= MINIMAL_ALLOW
AgentCheck(t) ==
  /\ pc[t] = "agent?"
  /\ access' = [access EXCEPT ![t] = IF ByAgent(t) THEN "full" ELSE "minimal"]
  /\ Goto(t, "send")
  /\ UNCHANGED <<drvVars, connVars, pidVars, op, held, confs, receiver, missed>>

\* FpSendRaw, MinifltPortSendMessage: flt_handle is read, without a lock, ...
MinifltPortSendMessage(t) ==
  /\ pc[t] = "send"
  /\ held' = [held EXCEPT ![t] = fltHandle]
  /\ Goto(t, "call")
  /\ UNCHANGED <<drvVars, connVars, pidVars, op, access, confs, missed, receiver>>

\* The filter that the thread passes to FltSendMessage exists.
LiveFilter(t) == held[t] /\ filter

Delivers(t) == LiveFilter(t) /\ connected # 0 /\ connected = clientPort /\ receiver = "waiting"

\* ... and passed to FltSendMessage, which reads client_port.  With a timeout of 1 us
\* it delivers if the connection is up and the agent is already waiting; without a
\* live filter it returns an error, or does not return (OutOfContract).
FltSendMessage(t) ==
  /\ pc[t] = "call"
  /\ receiver' = IF Delivers(t) THEN "busy" ELSE receiver
  /\ missed' = [missed EXCEPT ![t] = LiveFilter(t) /\ connected # 0 /\ ~Delivers(t)]
  /\ held' = [held EXCEPT ![t] = FALSE]
  /\ Goto(t, "return")
  /\ UNCHANGED <<drvVars, connVars, pidVars, op, access, confs>>

CallbackReturn(t) ==
  /\ pc[t] = "return"
  /\ op' = [op EXCEPT ![t] = NoOp]
  /\ access' = [access EXCEPT ![t] = "full"]
  /\ missed' = [missed EXCEPT ![t] = FALSE]
  /\ confs' = [confs EXCEPT ![t] = {}]
  /\ Goto(t, "idle")
  /\ UNCHANGED <<drvVars, connVars, pidVars, held, receiver>>

-----------------------------------------------------------------------------
(* Calls outside their contract *)

\* FltSendMessage with a filter that is NULL (flt_handle before the port exists, or
\* since the unload) or no longer registered; ObUnRegisterCallbacks(NULL).
OutOfContract ==
  \/ \E t \in Thread : pc[t] = "call" /\ ~LiveFilter(t)
  \/ dpc = "nohandle" /\ "handle" \notin registered /\ Drained({"image"})

\* The machine stops; nothing of the driver, of its threads and of the agent is left.
Bugcheck ==
  /\ OutOfContract
  /\ dpc' = "bugcheck" /\ registered' = {} /\ filter' = FALSE /\ gHandle' = FALSE
  /\ fltHandle' = FALSE /\ refs' = 0 /\ fltPort' = FALSE
  /\ clientPort' = 0 /\ connected' = 0 /\ connects' = MaxConnects
  /\ cpc' = "idle" /\ cctx' = NoConf
  /\ ToProtectPID' = Sentinel /\ AgentPID' = Sentinel /\ conf' = NoConf
  /\ pc' = [t \in Thread |-> "idle"] /\ op' = [t \in Thread |-> NoOp]
  /\ access' = [t \in Thread |-> "full"] /\ held' = [t \in Thread |-> FALSE]
  /\ confs' = [t \in Thread |-> {}]
  /\ receiver' = "busy" /\ missed' = [t \in Thread |-> FALSE]

-----------------------------------------------------------------------------
DriverEntry ==
  \/ AllocRegPath \/ createRegistration \/ FltRegisterFilter \/ FltStartFiltering
  \/ \E k \in Notify : registerNotifyRoutine(k)
  \/ BindFilter \/ MinifltPortInitialize
FilterUnloadCallback ==
  ClosePort \/ DerefFilter \/ UnregisterFilter \/ UnregisterCallbacks \/ UnloadReturn
PortRoutine == ConnectTarget \/ ConnectAgent \/ ConnectReturn
Callback(t) ==
  \/ EnabledCheck(t) \/ TargetCheck(t) \/ AgentCheck(t)
  \/ MinifltPortSendMessage(t) \/ FltSendMessage(t) \/ CallbackReturn(t)

\* The driver was not loaded, is gone, the machine has stopped, or every step of
\* DriverEntry failed and it stays resident with nothing to do.
Stopped ==
  /\ \/ dpc \in {"failed", "unloaded", "bugcheck"}
     \/ dpc = "running" /\ ~filter /\ registered = {}
  /\ UNCHANGED vars

Next ==
  \/ DriverEntry \/ UnloadBegin \/ FilterUnloadCallback
  \/ ConnectBegin \/ PortRoutine \/ GetMessage \/ Disconnect
  \/ \E t \in Thread : Callback(t)
  \/ \E t \in Thread, k \in Kind, p, q \in Pid : Invoke(t, k, p, q)
  \/ Bugcheck \/ Stopped

Spec == Init /\ [][Next]_vars

\* The threads that execute DriverEntry, the unload callback, the connect routine
\* and the callbacks run.  Nothing is assumed of agents or of who unloads when.
Fairness ==
  /\ WF_vars(FilterUnloadCallback)
  /\ WF_vars(PortRoutine)
  /\ \A t \in Thread : WF_vars(Callback(t))

FairSpec == Spec /\ Fairness

-----------------------------------------------------------------------------
(* Properties *)

Loading   == {"alloc", "handle", "filter", "start", "process", "thread", "image", "bind", "port"}
Unloading == {"closeport", "deref", "unregister", "noprocess", "nothread", "noimage", "nohandle", "return"}

\* Types of all variables.
TypeOK ==
  /\ dpc \in Loading \cup Unloading \cup {"failed", "running", "unloaded", "bugcheck"}
  /\ registered \in SUBSET Kind
  /\ filter \in BOOLEAN /\ gHandle \in BOOLEAN /\ fltHandle \in BOOLEAN /\ fltPort \in BOOLEAN
  /\ refs \in 0..1
  /\ connects \in 0..MaxConnects /\ clientPort \in 0..connects /\ connected \in 0..connects
  /\ ToProtectPID \in Pid \cup {Sentinel} /\ AgentPID \in Pid \cup {Sentinel}
  /\ cpc \in {"idle", "target", "agent", "connected"}
  /\ cctx \in Ctxs \cup {NoConf} /\ conf \in Ctxs \cup {NoConf}
  /\ pc \in [Thread -> {"idle", "enabled?", "target?", "agent?", "send", "call", "return"}]
  /\ op \in [Thread -> [kind : Kind, caller : Pid, target : Pid] \cup {NoOp}]
  /\ access \in [Thread -> {"full", "minimal"}]
  /\ held \in [Thread -> BOOLEAN]
  /\ confs \in [Thread -> SUBSET (Ctxs \cup {NoConf})]
  /\ receiver \in {"waiting", "busy"}
  /\ missed \in [Thread -> BOOLEAN]

\* What one configuration lets an operation keep.
Decision(c, o) == IF o.target = c[1] /\ o.caller # c[2] THEN "minimal" ELSE "full"

\* Both PIDs differ between two of the configurations.
BothReplaced(cs) == \E c, d \in cs : c[1] # d[1] /\ c[2] # d[2]

\* CreateCallback reads ToProtectPID twice and AgentPID once, while connects replace
\* them one after the other.  It never leaves more access than some configuration
\* that was in force, or being installed, while it ran; and it reduces access only
\* if one of them does, unless both PIDs were replaced meanwhile: then it may judge
\* by the target of one configuration and the agent of another.  An operation that
\* overlaps no connect gets exactly the decision of the configuration in force.
StripExplained ==
  \A t \in Thread : pc[t] = "return" /\ op[t].kind = "handle" =>
    \/ \E c \in confs[t] : access[t] = Decision(c, op[t])
    \/ /\ access[t] = "minimal" /\ BothReplaced(confs[t])
       /\ \E c \in confs[t] : op[t].target = c[1]

\* Handle and thread callbacks pass FltSendMessage a filter that exists, although they
\* are registered before the port, read flt_handle without a lock and run through
\* the unload: they wait for ToProtectPID, which only a connect through the port
\* sets.  Only once the driver is being unloaded do they find the filter NULL, or
\* hold one that is gone.
NoEarlySend ==
  \A t \in Thread :
    pc[t] = "call" /\ op[t].kind \in {"handle", "thread"} /\ ~LiveFilter(t) => dpc \in Unloading

\* FltUnregisterFilter is called for a registered filter only (never for the
\* handle that a failed FltStartFiltering left behind), after the port is closed
\* and the reference on the filter is given back, which it would wait for.
UnregisterSafe ==
  dpc = "unregister" => (gHandle => filter) /\ ~fltPort /\ refs = 0

\* Whichever steps of DriverEntry failed: once FilterUnloadCallback has returned,
\* no callback is registered or running, and no reference, port or connect
\* routine is left that would execute unloaded code.
UnloadedIsQuiet ==
  dpc = "unloaded" =>
    /\ registered = {} /\ \A t \in Thread : pc[t] = "idle"
    /\ ~filter /\ ~fltPort /\ refs = 0 /\ cpc = "idle" /\ connected = 0

\* An unload that has begun completes, however callbacks keep arriving, unless a call
\* outside its contract stops the machine.
UnloadCompletes == dpc \in Unloading ~> dpc \in {"unloaded", "bugcheck"}

\* README.md: "Track all process lifecycle events".  While an agent is connected,
\* a process event is not given up.
AllProcessesTracked == \A t \in Thread : op[t].kind = "process" => ~missed[t]
=============================================================================
