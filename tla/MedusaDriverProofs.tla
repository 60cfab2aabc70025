------------------------ MODULE MedusaDriverProofs ------------------------
(***************************************************************************)
(* Proofs about the driver's life cycle and its callbacks (MedusaDriver),  *)
(* for any number of threads, processes and connections.                   *)
(***************************************************************************)
EXTENDS MedusaDriver, TLAPS


-----------------------------------------------------------------------------
(* Which steps change what *)

\* Only DriverEntry, the unload callback and a bugcheck change the state of the driver itself.
LEMMA DriverSteps ==
  [Next]_vars => DriverEntry \/ UnloadBegin \/ FilterUnloadCallback \/ Bugcheck \/ UNCHANGED drvVars
BY DEF Next, PortRoutine, Callback, Stopped, ConnectBegin, ConnectTarget, ConnectAgent,
       ConnectReturn, GetMessage, Disconnect, EnabledCheck, TargetCheck, AgentCheck,
       MinifltPortSendMessage, FltSendMessage, CallbackReturn, Invoke, vars

\* Only the callbacks and a bugcheck move a thread, or change its operation.
LEMMA ThreadSteps ==
  [Next]_vars =>
    \/ \E t \in Thread : Callback(t)
    \/ \E t \in Thread, k \in Kind, p, q \in Pid : Invoke(t, k, p, q)
    \/ Bugcheck
    \/ UNCHANGED <<pc, op>>
BY DEF Next, DriverEntry, FilterUnloadCallback, PortRoutine, Stopped, AllocRegPath,
       createRegistration, FltRegisterFilter, FltStartFiltering, registerNotifyRoutine,
       BindFilter, MinifltPortInitialize, UnloadBegin, ClosePort, DerefFilter,
       UnregisterFilter, UnregisterCallbacks, Unregister, UnloadReturn, ConnectBegin,
       ConnectTarget, ConnectAgent, ConnectReturn, GetMessage, Disconnect, vars, cbVars

\* The same of the flt_handle a thread has read.
LEMMA HeldSteps ==
  [Next]_vars =>
    \/ \E t \in Thread : Callback(t)
    \/ \E t \in Thread, k \in Kind, p, q \in Pid : Invoke(t, k, p, q)
    \/ Bugcheck
    \/ UNCHANGED <<pc, op, held>>
BY DEF Next, DriverEntry, FilterUnloadCallback, PortRoutine, Stopped, AllocRegPath,
       createRegistration, FltRegisterFilter, FltStartFiltering, registerNotifyRoutine,
       BindFilter, MinifltPortInitialize, UnloadBegin, ClosePort, DerefFilter,
       UnregisterFilter, UnregisterCallbacks, Unregister, UnloadReturn, ConnectBegin,
       ConnectTarget, ConnectAgent, ConnectReturn, GetMessage, Disconnect, vars, cbVars

-----------------------------------------------------------------------------
(* The life cycle of the filter, its handles and the port *)

\* The driver holds exactly the reference flt_handle stands for, and only from the
\* time it binds to the filter until it gives it back; the port exists only while it
\* holds the reference; and the unload callback runs for a filter that is registered.
LifeInv ==
  /\ refs = IF fltHandle THEN 1 ELSE 0
  /\ fltHandle => dpc \in {"port", "running", "closeport", "deref"}
  /\ fltPort => fltHandle /\ dpc \in {"running", "closeport"}
  /\ dpc = "port" => fltHandle
  /\ fltHandle => filter
  /\ filter => gHandle
  /\ dpc = "start" => gHandle
  /\ dpc \in {"closeport", "deref", "unregister"} => filter

LEMMA LifeInit == Init => LifeInv
BY DEF Init, LifeInv

LEMMA LifeStep == LifeInv /\ [Next]_vars => LifeInv'
<1> SUFFICES ASSUME LifeInv, [Next]_vars PROVE LifeInv'
  OBVIOUS
<1> USE DEF LifeInv
<1>1. CASE AllocRegPath
  BY <1>1 DEF AllocRegPath
<1>2. CASE createRegistration
  BY <1>2 DEF createRegistration
<1>3. CASE FltRegisterFilter
  BY <1>3 DEF FltRegisterFilter
<1>4. CASE FltStartFiltering
  BY <1>4 DEF FltStartFiltering
<1>5. CASE \E k \in Notify : registerNotifyRoutine(k)
  BY <1>5 DEF registerNotifyRoutine, AfterRegister, Notify
<1>6. CASE BindFilter
  BY <1>6 DEF BindFilter
<1>7. CASE MinifltPortInitialize
  <2>1. fltHandle /\ refs = 1 /\ ~fltPort
    BY <1>7 DEF MinifltPortInitialize
  <2>2. CASE fltPort' = TRUE /\ UNCHANGED <<fltHandle, refs>>
    BY <1>7, <2>1, <2>2 DEF MinifltPortInitialize
  <2>3. CASE fltHandle' = FALSE /\ refs' = refs - 1 /\ UNCHANGED fltPort
    <3>1. refs' = 0
      BY <2>1, <2>3
    <3> QED  BY <1>7, <2>1, <2>3, <3>1 DEF MinifltPortInitialize
  <2> QED  BY <1>7, <2>2, <2>3 DEF MinifltPortInitialize
<1>8. CASE UnloadBegin
  BY <1>8 DEF UnloadBegin
<1>9. CASE ClosePort
  BY <1>9 DEF ClosePort
<1>10. CASE DerefFilter
  BY <1>10 DEF DerefFilter, Deref
<1>11. CASE UnregisterFilter
  BY <1>11 DEF UnregisterFilter
<1>12. CASE UnregisterCallbacks
  BY <1>12 DEF UnregisterCallbacks, Unregister, Without
<1>13. CASE UnloadReturn
  BY <1>13 DEF UnloadReturn
<1>14. CASE UNCHANGED drvVars
  BY <1>14 DEF drvVars
<1>15. CASE Bugcheck
  BY <1>15 DEF Bugcheck
<1> QED
  BY <1>1, <1>2, <1>3, <1>4, <1>5, <1>6, <1>7, <1>8, <1>9, <1>10, <1>11, <1>12,
     <1>13, <1>14, <1>15, DriverSteps
  DEF DriverEntry, FilterUnloadCallback

-----------------------------------------------------------------------------
(* Types *)

LEMMA TypeInit == Init => TypeOK
<1> SUFFICES ASSUME Init PROVE TypeOK
  OBVIOUS
<1>1. /\ op \in [Thread -> [kind : Kind, caller : Pid, target : Pid] \cup {NoOp}]
      /\ confs \in [Thread -> SUBSET (Ctxs \cup {NoConf})]
  BY DEF Init
<1>2. cctx \in Ctxs \cup {NoConf} /\ conf \in Ctxs \cup {NoConf}
  BY DEF Init
<1>3. /\ pc \in [Thread -> {"idle", "enabled?", "target?", "agent?", "send", "call", "return"}]
      /\ held \in [Thread -> BOOLEAN]
      /\ access \in [Thread -> {"full", "minimal"}]
      /\ missed \in [Thread -> BOOLEAN]
  BY DEF Init
<1>4. refs \in 0..1 /\ connects \in 0..MaxConnects /\ clientPort \in 0..connects /\ connected \in 0..connects
  BY DriverAssumption DEF Init
<1> QED  BY <1>1, <1>2, <1>3, <1>4 DEF Init, TypeOK, Loading

\* The part of the type that the load and the unload can change.
DriverType ==
  /\ dpc \in Loading \cup Unloading \cup {"failed", "running", "unloaded", "bugcheck"}
  /\ registered \in SUBSET Kind
  /\ filter \in BOOLEAN /\ gHandle \in BOOLEAN /\ fltHandle \in BOOLEAN /\ fltPort \in BOOLEAN
  /\ refs \in 0..1

LEMMA DriverTypeStep ==
  ASSUME TypeOK, DriverType', UNCHANGED <<connVars, pidVars, cbVars, receiver>> PROVE TypeOK'
BY DEF DriverType, TypeOK, connVars, pidVars, cbVars

LEMMA TypeStep == TypeOK /\ LifeInv /\ [Next]_vars => TypeOK'
<1> SUFFICES ASSUME TypeOK, LifeInv, [Next]_vars PROVE TypeOK'
  OBVIOUS
<1>a. refs' \in 0..1
  BY LifeStep DEF LifeInv
<1>b. DriverType
  BY DEF TypeOK, DriverType
<1>1. CASE AllocRegPath
  <2>1. DriverType'
    BY <1>1, <1>a, <1>b DEF AllocRegPath, Loading, DriverType
  <2>2. UNCHANGED <<connVars, pidVars, cbVars, receiver>>
    BY <1>1 DEF AllocRegPath
  <2> QED  BY <2>1, <2>2, DriverTypeStep
<1>2. CASE createRegistration
  <2>1. DriverType'
    BY <1>2, <1>a, <1>b DEF createRegistration, Loading, Kind, DriverType
  <2>2. UNCHANGED <<connVars, pidVars, cbVars, receiver>>
    BY <1>2 DEF createRegistration
  <2> QED  BY <2>1, <2>2, DriverTypeStep
<1>3. CASE FltRegisterFilter
  <2>1. DriverType'
    BY <1>3, <1>a, <1>b DEF FltRegisterFilter, Loading, DriverType
  <2>2. UNCHANGED <<connVars, pidVars, cbVars, receiver>>
    BY <1>3 DEF FltRegisterFilter
  <2> QED  BY <2>1, <2>2, DriverTypeStep
<1>4. CASE FltStartFiltering
  <2>1. DriverType'
    BY <1>4, <1>a, <1>b DEF FltStartFiltering, Loading, DriverType
  <2>2. UNCHANGED <<connVars, pidVars, cbVars, receiver>>
    BY <1>4 DEF FltStartFiltering
  <2> QED  BY <2>1, <2>2, DriverTypeStep
<1>5. CASE \E k \in Notify : registerNotifyRoutine(k)
  <2>1. DriverType'
    BY <1>5, <1>a, <1>b DEF registerNotifyRoutine, AfterRegister, Notify, Loading, Kind, DriverType
  <2>2. UNCHANGED <<connVars, pidVars, cbVars, receiver>>
    BY <1>5 DEF registerNotifyRoutine
  <2> QED  BY <2>1, <2>2, DriverTypeStep
<1>6. CASE BindFilter
  <2>1. DriverType'
    BY <1>6, <1>a, <1>b DEF BindFilter, Loading, DriverType
  <2>2. UNCHANGED <<connVars, pidVars, cbVars, receiver>>
    BY <1>6 DEF BindFilter
  <2> QED  BY <2>1, <2>2, DriverTypeStep
<1>7. CASE MinifltPortInitialize
  <2>1. DriverType'
    BY <1>7, <1>a, <1>b DEF MinifltPortInitialize, DriverType
  <2>2. UNCHANGED <<connVars, pidVars, cbVars, receiver>>
    BY <1>7 DEF MinifltPortInitialize
  <2> QED  BY <2>1, <2>2, DriverTypeStep
<1>8. CASE UnloadBegin
  <2>1. DriverType'
    BY <1>8, <1>a, <1>b DEF UnloadBegin, Unloading, DriverType
  <2>2. UNCHANGED <<connVars, pidVars, cbVars, receiver>>
    BY <1>8 DEF UnloadBegin
  <2> QED  BY <2>1, <2>2, DriverTypeStep
<1>9. CASE ClosePort
  <2>1. DriverType'
    BY <1>9, <1>a, <1>b DEF ClosePort, Unloading, DriverType
  <2>2. UNCHANGED <<connVars, pidVars, cbVars, receiver>>
    BY <1>9 DEF ClosePort
  <2> QED  BY <2>1, <2>2, DriverTypeStep
<1>10. CASE DerefFilter
  <2>1. DriverType'
    BY <1>10, <1>a, <1>b DEF DerefFilter, Deref, Unloading, DriverType
  <2>2. UNCHANGED <<connVars, pidVars, cbVars, receiver>>
    BY <1>10 DEF DerefFilter
  <2> QED  BY <2>1, <2>2, DriverTypeStep
<1> USE DEF TypeOK
<1>11. CASE UnregisterFilter
  <2>1. connected' \in 0..connects' /\ filter' \in BOOLEAN
    BY <1>11, DriverAssumption DEF UnregisterFilter
  <2> QED  BY <1>11, <1>a, <2>1 DEF UnregisterFilter, Unloading, pidVars, cbVars
<1>12. CASE UnregisterCallbacks
  <2>1. DriverType'
    BY <1>12, <1>a, <1>b DEF UnregisterCallbacks, Unregister, Without, Unloading, Kind, DriverType
  <2>2. UNCHANGED <<connVars, pidVars, cbVars, receiver>>
    BY <1>12 DEF UnregisterCallbacks, Unregister
  <2> QED  BY <2>1, <2>2, DriverTypeStep
<1>13. CASE UnloadReturn
  <2>1. DriverType'
    BY <1>13, <1>a, <1>b DEF UnloadReturn, DriverType
  <2>2. UNCHANGED <<connVars, pidVars, cbVars, receiver>>
    BY <1>13 DEF UnloadReturn
  <2> QED  BY <2>1, <2>2, DriverTypeStep
<1>14. CASE ConnectBegin
  <2>1. /\ connects' \in 0..MaxConnects /\ clientPort' \in 0..connects' /\ connected' \in 0..connects'
        /\ cctx' \in Ctxs \cup {NoConf}
    BY <1>14, DriverAssumption DEF ConnectBegin
  <2> QED  BY <1>14, <2>1 DEF ConnectBegin, drvVars, pidVars, cbVars
<1>15. CASE ConnectTarget
  <2>1. cctx[1] \in Pid \cup {Sentinel}
    BY DriverAssumption DEF NoConf
  <2>2. confs' \in [Thread -> SUBSET (Ctxs \cup {NoConf})]
    BY <1>15 DEF ConnectTarget, Witnessed
  <2> QED  BY <1>15, <2>1, <2>2 DEF ConnectTarget, drvVars
<1>16. CASE ConnectAgent
  <2>1. cctx[2] \in Pid \cup {Sentinel}
    BY DriverAssumption DEF NoConf
  <2> QED  BY <1>16, <2>1 DEF ConnectAgent, drvVars, cbVars
<1>17. CASE ConnectReturn
  BY <1>17 DEF ConnectReturn, drvVars, pidVars, cbVars
<1>18. CASE GetMessage
  BY <1>18 DEF GetMessage, drvVars, connVars, pidVars, cbVars
<1>19. CASE Disconnect
  BY <1>19, DriverAssumption DEF Disconnect, drvVars, pidVars, cbVars
<1>20. CASE \E t \in Thread : EnabledCheck(t)
  BY <1>20 DEF EnabledCheck, Goto, drvVars, connVars, pidVars
<1>21. CASE \E t \in Thread : TargetCheck(t)
  BY <1>21 DEF TargetCheck, Goto, drvVars, connVars, pidVars
<1>22. CASE \E t \in Thread : AgentCheck(t)
  BY <1>22 DEF AgentCheck, Goto, drvVars, connVars, pidVars
<1>23. CASE \E t \in Thread : FltSendMessage(t)
  <2>1. PICK t \in Thread : FltSendMessage(t)
    BY <1>23
  <2>2. missed' \in [Thread -> BOOLEAN]
    BY <2>1 DEF FltSendMessage, LiveFilter, Delivers
  <2>3. receiver' \in {"waiting", "busy"}
    BY <2>1 DEF FltSendMessage
  <2>4. held' \in [Thread -> BOOLEAN]
    BY <2>1 DEF FltSendMessage
  <2>5. /\ pc' = [pc EXCEPT ![t] = "return"]
        /\ UNCHANGED <<drvVars, connVars, pidVars, op, access, confs>>
    BY <2>1 DEF FltSendMessage, Goto
  <2> QED  BY <2>2, <2>3, <2>4, <2>5 DEF drvVars, connVars, pidVars
<1>27. CASE \E t \in Thread : MinifltPortSendMessage(t)
  <2>1. PICK t \in Thread : MinifltPortSendMessage(t)
    BY <1>27
  <2>2. held' \in [Thread -> BOOLEAN]
    BY <2>1 DEF MinifltPortSendMessage
  <2>3. /\ pc' = [pc EXCEPT ![t] = "call"]
        /\ UNCHANGED <<drvVars, connVars, pidVars, op, access, confs, missed, receiver>>
    BY <2>1 DEF MinifltPortSendMessage, Goto
  <2> QED  BY <2>2, <2>3 DEF drvVars, connVars, pidVars
<1>28. CASE Bugcheck
  <2>1. /\ connects' \in 0..MaxConnects /\ clientPort' \in 0..connects' /\ connected' \in 0..connects'
        /\ refs' \in 0..1
    BY <1>28, DriverAssumption DEF Bugcheck
  <2>2. /\ op' \in [Thread -> [kind : Kind, caller : Pid, target : Pid] \cup {NoOp}]
        /\ confs' \in [Thread -> SUBSET (Ctxs \cup {NoConf})]
    BY <1>28 DEF Bugcheck
  <2>3. /\ held' \in [Thread -> BOOLEAN] /\ missed' \in [Thread -> BOOLEAN]
    BY <1>28 DEF Bugcheck
  <2> QED  BY <1>28, <2>1, <2>2, <2>3 DEF Bugcheck
<1>24. CASE \E t \in Thread : CallbackReturn(t)
  BY <1>24 DEF CallbackReturn, Goto, drvVars, connVars, pidVars
<1>25. CASE \E t \in Thread, k \in Kind, p, q \in Pid : Invoke(t, k, p, q)
  <2>1. confs' \in [Thread -> SUBSET (Ctxs \cup {NoConf})]
    BY <1>25 DEF Invoke, InForce
  <2> QED  BY <1>25, <2>1 DEF Invoke, Goto, Entry, drvVars, connVars, pidVars
<1>26. CASE UNCHANGED vars
  BY <1>26 DEF vars, drvVars, connVars, pidVars, cbVars
<1> QED
  BY <1>1, <1>2, <1>3, <1>4, <1>5, <1>6, <1>7, <1>8, <1>9, <1>10, <1>11, <1>12,
     <1>13, <1>14, <1>15, <1>16, <1>17, <1>18, <1>19, <1>20, <1>21, <1>22,
     <1>23, <1>24, <1>25, <1>26, <1>27, <1>28
  DEF Next, DriverEntry, FilterUnloadCallback, PortRoutine, Callback, Stopped

LEMMA BaseInvariant == Spec => [](TypeOK /\ LifeInv)
BY TypeInit, TypeStep, LifeInit, LifeStep, PTL DEF Spec

\* The types of MedusaDriver's variables.  That refs stays within 0..1 is what
\* MinifltPortInitialize's failure path and MinifltPortFinalize have to get right.
THEOREM DriverTypes == Spec => []TypeOK
BY BaseInvariant, PTL

\* FltUnregisterFilter finds a registered filter, a closed port and no reference,
\* whichever steps of DriverEntry failed.
THEOREM UnregisterIsSafe == Spec => []UnregisterSafe
<1>1. TypeOK /\ LifeInv => UnregisterSafe
  BY DEF TypeOK, LifeInv, UnregisterSafe
<1> QED  BY <1>1, BaseInvariant, PTL

-----------------------------------------------------------------------------
(* Unloading *)

\* A thread is inside a callback exactly while it has an operation.
OpInv == \A t \in Thread : pc[t] = "idle" <=> op[t].kind = "none"

\* What FltUnregisterFilter has left, and what each of the unregistration calls that
\* follow it: a callback that is removed is not invoked again, and once the next call
\* has begun it is not running either.
QuietInv ==
  /\ dpc \in {"noprocess", "nothread", "noimage", "nohandle", "return", "unloaded"} =>
       ~filter /\ cpc = "idle" /\ connected = 0
  /\ dpc \in {"nothread", "noimage", "nohandle", "return", "unloaded"} => "process" \notin registered
  /\ dpc \in {"noimage", "nohandle", "return", "unloaded"} => "thread" \notin registered
  /\ dpc \in {"nohandle", "return", "unloaded"} => "image" \notin registered
  /\ dpc \in {"return", "unloaded"} => "handle" \notin registered
  /\ dpc \in {"noimage", "nohandle", "return", "unloaded"} => Drained({"process"})
  /\ dpc \in {"nohandle", "return", "unloaded"} => Drained({"thread"})
  /\ dpc \in {"return", "unloaded"} => Drained({"image"})
  /\ dpc = "unloaded" => Drained({"handle"})


LEMMA OpInit == Init => OpInv
BY DEF Init, OpInv, NoOp

LEMMA OpStep == TypeOK /\ OpInv /\ [Next]_vars => OpInv'
<1> SUFFICES ASSUME TypeOK, OpInv, [Next]_vars PROVE OpInv'
  OBVIOUS
<1> USE DEF TypeOK, OpInv
<1>1. CASE \E t \in Thread : EnabledCheck(t)
  BY <1>1 DEF EnabledCheck, Goto
<1>2. CASE \E t \in Thread : TargetCheck(t)
  BY <1>2 DEF TargetCheck, Goto
<1>3. CASE \E t \in Thread : AgentCheck(t)
  BY <1>3 DEF AgentCheck, Goto
<1>4. CASE \E t \in Thread : FltSendMessage(t)
  <2>1. PICK t \in Thread : pc[t] = "call" /\ pc' = [pc EXCEPT ![t] = "return"] /\ op' = op
    BY <1>4 DEF FltSendMessage, Goto
  <2> QED  BY <2>1
<1>8. CASE \E t \in Thread : MinifltPortSendMessage(t)
  <2>1. PICK t \in Thread : pc[t] = "send" /\ pc' = [pc EXCEPT ![t] = "call"] /\ op' = op
    BY <1>8 DEF MinifltPortSendMessage, Goto
  <2> QED  BY <2>1
<1>9. CASE Bugcheck
  BY <1>9 DEF Bugcheck, NoOp
<1>5. CASE \E t \in Thread : CallbackReturn(t)
  BY <1>5 DEF CallbackReturn, Goto, NoOp
<1>6. CASE \E t \in Thread, k \in Kind, p, q \in Pid : Invoke(t, k, p, q)
  BY <1>6 DEF Invoke, Goto, Entry, Kind, Notify
<1>7. CASE UNCHANGED <<pc, op>>
  BY <1>7
<1> QED  BY <1>1, <1>2, <1>3, <1>4, <1>5, <1>6, <1>7, <1>8, <1>9, ThreadSteps DEF Callback

LEMMA QuietInit == Init => QuietInv
BY DEF Init, QuietInv

\* A step that removes no operation only adds one of a registered kind.
LEMMA StaysDrained ==
  ASSUME TypeOK, [Next]_vars, NEW k \in Kind, Drained({k}), k \notin registered
  PROVE  Drained({k})'
<1> USE DEF TypeOK, Drained
<1>1. CASE \E t \in Thread : Callback(t)
  <2>1. PICK t \in Thread : op' = op \/ op' = [op EXCEPT ![t] = NoOp]
    BY <1>1 DEF Callback, EnabledCheck, TargetCheck, AgentCheck, MinifltPortSendMessage, FltSendMessage,
       CallbackReturn
  <2>2. NoOp.kind # k
    BY DEF NoOp, Kind, Notify
  <2> QED  BY <2>1, <2>2
<1>2. CASE \E t \in Thread, j \in Kind, p, q \in Pid : Invoke(t, j, p, q)
  BY <1>2 DEF Invoke
<1>3. CASE UNCHANGED <<pc, op>>
  BY <1>3
<1>4. CASE Bugcheck
  BY <1>4 DEF Bugcheck, NoOp, Kind, Notify
<1> QED  BY <1>1, <1>2, <1>3, <1>4, ThreadSteps

\* Only these steps begin or end a connection or a connect routine.
LEMMA ConnSteps ==
  [Next]_vars =>
    \/ ConnectBegin \/ PortRoutine \/ Disconnect \/ UnregisterFilter \/ Bugcheck
    \/ UNCHANGED <<cpc, connected>>
BY DEF Next, DriverEntry, FilterUnloadCallback, Callback, Stopped, AllocRegPath,
       createRegistration, FltRegisterFilter, FltStartFiltering, registerNotifyRoutine,
       BindFilter, MinifltPortInitialize, UnloadBegin, ClosePort, DerefFilter,
       UnregisterCallbacks, Unregister, UnloadReturn, GetMessage, EnabledCheck,
       TargetCheck, AgentCheck, MinifltPortSendMessage, FltSendMessage, CallbackReturn, Invoke, vars, connVars

LEMMA QuietStep == TypeOK /\ LifeInv /\ QuietInv /\ [Next]_vars => QuietInv'
<1> SUFFICES ASSUME TypeOK, LifeInv, QuietInv, [Next]_vars PROVE QuietInv'
  OBVIOUS
<1>1. CASE UNCHANGED drvVars
  <2>1. "process" \in Kind /\ "thread" \in Kind /\ "image" \in Kind /\ "handle" \in Kind
    BY DEF Kind, Notify
  <2>2. \A k \in Kind : Drained({k}) /\ k \notin registered => Drained({k})'
    BY StaysDrained
  <2>3. dpc' = dpc /\ registered' = registered /\ filter' = filter
    BY <1>1 DEF drvVars
  <2>4. ASSUME dpc \in {"noprocess", "nothread", "noimage", "nohandle", "return", "unloaded"}
        PROVE  cpc' = "idle" /\ connected' = 0
    <3>1. ~fltPort /\ cpc = "idle" /\ connected = 0
      BY <2>4 DEF LifeInv, QuietInv
    <3> QED
      BY <2>3, <2>4, <3>1, ConnSteps DEF ConnectBegin, PortRoutine, ConnectTarget, ConnectAgent,
         ConnectReturn, Disconnect, UnregisterFilter, Bugcheck
  <2> QED  BY <2>1, <2>2, <2>3, <2>4 DEF QuietInv
<1>2. CASE DriverEntry \/ UnloadBegin \/ ClosePort \/ DerefFilter \/ Bugcheck
  <2>1. dpc' \notin {"noprocess", "nothread", "noimage", "nohandle", "return", "unloaded"}
    BY <1>2 DEF DriverEntry, UnloadBegin, AllocRegPath, createRegistration,
       FltRegisterFilter, FltStartFiltering, registerNotifyRoutine, AfterRegister, Notify,
       BindFilter, MinifltPortInitialize, ClosePort, DerefFilter, Bugcheck
  <2> QED  BY <2>1 DEF QuietInv
<1>3. CASE UnregisterFilter
  <2>1. dpc' = "noprocess" /\ gHandle /\ cpc' = "idle" /\ connected' = 0
    BY <1>3 DEF UnregisterFilter, LifeInv
  <2>2. ~filter'
    BY <1>3, <2>1 DEF UnregisterFilter
  <2> QED  BY <2>1, <2>2 DEF QuietInv
<1>4. CASE UnregisterCallbacks
  <2>1. UNCHANGED <<filter, cpc, connected, op>>
    BY <1>4 DEF UnregisterCallbacks, Unregister, connVars, cbVars
  <2>2. CASE Unregister("noprocess", "process", {}, "nothread")
    BY <2>1, <2>2 DEF Unregister, Without, QuietInv
  <2>3. CASE Unregister("nothread", "thread", {"process"}, "noimage")
    BY <2>1, <2>3 DEF Unregister, Without, QuietInv, Drained
  <2>4. CASE Unregister("noimage", "image", {"thread"}, "nohandle")
    BY <2>1, <2>4 DEF Unregister, Without, QuietInv, Drained
  <2>5. CASE Unregister("nohandle", "handle", {"image"}, "return")
    BY <2>1, <2>5 DEF Unregister, Without, QuietInv, Drained
  <2> QED  BY <1>4, <2>2, <2>3, <2>4, <2>5 DEF UnregisterCallbacks
<1>5. CASE UnloadReturn
  BY <1>5 DEF UnloadReturn, QuietInv, Drained, connVars, cbVars
<1> QED  BY <1>1, <1>2, <1>3, <1>4, <1>5, DriverSteps DEF FilterUnloadCallback

LEMMA QuietInvariant == Spec => [](TypeOK /\ LifeInv /\ OpInv /\ QuietInv)
BY BaseInvariant, TypeInit, TypeStep, LifeInit, LifeStep, OpInit, OpStep, QuietInit, QuietStep, PTL DEF Spec

\* Whichever steps of DriverEntry failed and however many threads are in callbacks:
\* once FilterUnloadCallback has returned, nothing can run the driver's code any more.
THEOREM UnloadedQuiet == Spec => []UnloadedIsQuiet
<1>1. TypeOK /\ LifeInv /\ OpInv /\ QuietInv => UnloadedIsQuiet
  <2> SUFFICES ASSUME TypeOK, LifeInv, OpInv, QuietInv, dpc = "unloaded"
               PROVE  /\ registered = {} /\ \A t \in Thread : pc[t] = "idle"
                      /\ ~filter /\ ~fltPort /\ refs = 0 /\ cpc = "idle" /\ connected = 0
    BY DEF UnloadedIsQuiet
  <2>1. registered = {}
    BY DEF TypeOK, QuietInv, Kind, Notify
  <2>2. ASSUME NEW t \in Thread PROVE pc[t] = "idle"
    <3>1. op[t].kind \in Kind \cup {"none"}
      BY DEF TypeOK, NoOp
    <3>2. op[t].kind = "none"
      BY <3>1 DEF QuietInv, Drained, Kind, Notify
    <3> QED  BY <3>2 DEF OpInv
  <2>3. ~filter /\ ~fltPort /\ refs = 0 /\ cpc = "idle" /\ connected = 0
    BY DEF LifeInv, QuietInv
  <2> QED  BY <2>1, <2>2, <2>3
<1> QED  BY <1>1, QuietInvariant, PTL

-----------------------------------------------------------------------------
(* The port is there before it is used *)

\* The port has been created, and flt_handle is there unless the driver is unloading.
PortSeen == (dpc = "running" /\ fltHandle) \/ dpc \in Unloading \cup {"unloaded"}

\* A handle or thread callback has decided to send, or is past the test of ToProtectPID.
Sending(t) ==
  \/ pc[t] \in {"target?", "agent?"}
  \/ pc[t] \in {"send", "call"} /\ op[t].kind \in {"handle", "thread"}

\* Nobody gets past the test of ToProtectPID, and nobody sets it, before that; and
\* while the driver is not being unloaded, the flt_handle they have read is alive.
SendInv ==
  /\ cpc # "idle" => PortSeen
  /\ ToProtectPID # Sentinel => PortSeen
  /\ \A t \in Thread : Sending(t) => PortSeen
  /\ \A t \in Thread : Sending(t) /\ pc[t] = "call" /\ dpc = "running" => LiveFilter(t)

LEMMA SendInit == Init => SendInv
BY DEF Init, SendInv, Sending

LEMMA PortStaysSeen == LifeInv /\ PortSeen /\ [Next]_vars => PortSeen' \/ Bugcheck
<1> SUFFICES ASSUME LifeInv, PortSeen, [Next]_vars, ~Bugcheck PROVE PortSeen'
  OBVIOUS
<1>1. CASE UNCHANGED drvVars
  BY <1>1 DEF PortSeen, drvVars
<1>2. CASE DriverEntry
  BY <1>2 DEF PortSeen, Unloading, DriverEntry, AllocRegPath, createRegistration,
     FltRegisterFilter, FltStartFiltering, registerNotifyRoutine, Notify, BindFilter,
     MinifltPortInitialize
<1>3. CASE UnloadBegin \/ FilterUnloadCallback
  BY <1>3 DEF PortSeen, Unloading, UnloadBegin, FilterUnloadCallback, ClosePort, DerefFilter,
     UnregisterFilter, UnregisterCallbacks, Unregister, UnloadReturn
<1> QED  BY <1>1, <1>2, <1>3, DriverSteps

\* A step at whose end the driver is running and the port seen leaves the driver alone.
LEMMA RunningStays ==
  ASSUME LifeInv, PortSeen, [Next]_vars, dpc' = "running" PROVE dpc = "running" /\ UNCHANGED drvVars
<1>1. ~DriverEntry
  BY DEF PortSeen, Unloading, DriverEntry, AllocRegPath, createRegistration,
     FltRegisterFilter, FltStartFiltering, registerNotifyRoutine, Notify, BindFilter,
     MinifltPortInitialize
<1>2. ~(UnloadBegin \/ FilterUnloadCallback \/ Bugcheck)
  BY DEF UnloadBegin, FilterUnloadCallback, ClosePort, DerefFilter, Bugcheck,
     UnregisterFilter, UnregisterCallbacks, Unregister, UnloadReturn
<1> QED  BY <1>1, <1>2, DriverSteps DEF drvVars

LEMMA SendStep == TypeOK /\ LifeInv /\ SendInv /\ [Next]_vars => SendInv'
<1> SUFFICES ASSUME TypeOK, LifeInv, SendInv, [Next]_vars PROVE SendInv'
  OBVIOUS
<1>1. CASE PortSeen /\ ~Bugcheck
  <2>1. PortSeen'
    BY <1>1, PortStaysSeen
  <2>2. ASSUME NEW t \in Thread, Sending(t)', pc'[t] = "call", dpc' = "running"
        PROVE  LiveFilter(t)'
    <3>1. dpc = "running" /\ fltHandle /\ filter /\ filter' = filter
      BY <1>1, <2>2, RunningStays DEF PortSeen, LifeInv, Unloading, drvVars
    <3>2. CASE pc[t] = "call" /\ op'[t] = op[t] /\ held'[t] = held[t]
      BY <2>2, <3>1, <3>2 DEF SendInv, LiveFilter, Sending
    <3>3. CASE MinifltPortSendMessage(t)
      BY <3>1, <3>3 DEF MinifltPortSendMessage, LiveFilter, TypeOK
    <3>4. (pc[t] = "call" /\ op'[t] = op[t] /\ held'[t] = held[t]) \/ MinifltPortSendMessage(t)
      <4>1. CASE \E u \in Thread : Callback(u)
        <5>1. PICK u \in Thread : Callback(u)
          BY <4>1
        <5>2. CASE MinifltPortSendMessage(u)
          BY <2>2, <5>2 DEF MinifltPortSendMessage, Goto, TypeOK
        <5>3. CASE FltSendMessage(u)
          <6>1. /\ pc' = [pc EXCEPT ![u] = "return"] /\ op' = op
                /\ held' = [held EXCEPT ![u] = FALSE]
            BY <5>3 DEF FltSendMessage, Goto
          <6> QED  BY <2>2, <6>1 DEF TypeOK
        <5>4. CASE EnabledCheck(u)
          BY <2>2, <5>4 DEF EnabledCheck, Goto, TypeOK
        <5>5. CASE TargetCheck(u)
          <6>1. PICK l \in {"return", "agent?", "send"} :
                  pc' = [pc EXCEPT ![u] = l] /\ op' = op /\ held' = held
            BY <5>5 DEF TargetCheck, Goto
          <6> QED  BY <2>2, <6>1 DEF TypeOK
        <5>6. CASE AgentCheck(u)
          BY <2>2, <5>6 DEF AgentCheck, Goto, TypeOK
        <5>7. CASE CallbackReturn(u)
          BY <2>2, <5>7 DEF CallbackReturn, Goto, TypeOK
        <5> QED  BY <5>1, <5>2, <5>3, <5>4, <5>5, <5>6, <5>7 DEF Callback
      <4>2. CASE \E u \in Thread, k \in Kind, p, q \in Pid : Invoke(u, k, p, q)
        BY <2>2, <4>2 DEF Invoke, Goto, Entry, TypeOK
      <4>3. CASE UNCHANGED <<pc, op, held>>
        BY <2>2, <4>3
      <4> QED  BY <1>1, <4>1, <4>2, <4>3, HeldSteps
    <3> QED  BY <3>2, <3>3, <3>4
  <2> QED  BY <2>1, <2>2 DEF SendInv
<1>2. CASE ~PortSeen /\ ~Bugcheck
  <2>1. cpc = "idle" /\ ToProtectPID = Sentinel /\ ~fltPort
    BY <1>2 DEF SendInv, LifeInv, PortSeen, Unloading
  <2>2. cpc' = "idle"
    BY <2>1, ConnSteps DEF ConnectBegin, PortRoutine, ConnectTarget, ConnectAgent,
       ConnectReturn, Disconnect, UnregisterFilter, Bugcheck
  <2>3. ToProtectPID' = Sentinel
    BY <2>1 DEF Next, DriverEntry, FilterUnloadCallback, PortRoutine, Callback, Stopped,
       AllocRegPath, createRegistration, FltRegisterFilter, FltStartFiltering,
       registerNotifyRoutine, BindFilter, MinifltPortInitialize, UnloadBegin, ClosePort,
       DerefFilter, UnregisterFilter, UnregisterCallbacks, Unregister, UnloadReturn,
       ConnectBegin, ConnectTarget, ConnectAgent, ConnectReturn, GetMessage, Disconnect,
       EnabledCheck, TargetCheck, AgentCheck, MinifltPortSendMessage, FltSendMessage,
       CallbackReturn, Invoke, Bugcheck, vars, pidVars
  <2>4. ASSUME NEW t \in Thread
        PROVE  /\ pc'[t] \notin {"target?", "agent?"}
               /\ ~(pc'[t] \in {"send", "call"} /\ op'[t].kind \in {"handle", "thread"})
    <3>1. /\ pc[t] \notin {"target?", "agent?"}
          /\ ~(pc[t] \in {"send", "call"} /\ op[t].kind \in {"handle", "thread"})
      BY <1>2 DEF SendInv, Sending
    <3>2. CASE \E u \in Thread : Callback(u)
      <4>1. PICK u \in Thread : Callback(u)
        BY <3>2
      <4>2. pc[u] \notin {"target?", "agent?"}
        BY <1>2 DEF SendInv, Sending
      <4>3. CASE EnabledCheck(u)
        BY <2>1, <3>1, <4>3 DEF EnabledCheck, Goto, TypeOK
      <4>4. CASE FltSendMessage(u)
        <5>1. pc' = [pc EXCEPT ![u] = "return"] /\ op' = op
          BY <4>4 DEF FltSendMessage, Goto
        <5> QED  BY <3>1, <5>1 DEF TypeOK
      <4>6. CASE MinifltPortSendMessage(u)
        <5>1. pc[u] = "send" /\ pc' = [pc EXCEPT ![u] = "call"] /\ op' = op
          BY <4>6 DEF MinifltPortSendMessage, Goto
        <5> QED  BY <3>1, <5>1 DEF TypeOK
      <4>5. CASE CallbackReturn(u)
        BY <3>1, <4>5 DEF CallbackReturn, Goto, TypeOK
      <4> QED  BY <4>1, <4>2, <4>3, <4>4, <4>5, <4>6 DEF Callback, TargetCheck, AgentCheck
    <3>3. CASE \E u \in Thread, k \in Kind, p, q \in Pid : Invoke(u, k, p, q)
      BY <3>1, <3>3 DEF Invoke, Goto, Entry, Unguarded, TypeOK
    <3>4. CASE UNCHANGED <<pc, op>>
      BY <3>1, <3>4
    <3> QED  BY <1>2, <3>2, <3>3, <3>4, ThreadSteps
  <2> QED  BY <2>2, <2>3, <2>4 DEF SendInv, Sending
<1>3. CASE Bugcheck
  BY <1>3 DEF Bugcheck, SendInv, Sending
<1> QED  BY <1>1, <1>2, <1>3

\* Handle and thread callbacks never pass a filter that is NULL or gone before the driver
\* is being unloaded, whichever steps of DriverEntry failed: ToProtectPID, which they
\* test, is set through the port only, and the filter outlives the port.
THEOREM NoSendBeforePort == Spec => []NoEarlySend
<1>1. TypeOK /\ LifeInv /\ OpInv /\ QuietInv /\ SendInv => NoEarlySend
  <2> SUFFICES ASSUME TypeOK, LifeInv, OpInv, QuietInv, SendInv, NEW t \in Thread,
                      pc[t] = "call", op[t].kind \in {"handle", "thread"}, ~LiveFilter(t)
               PROVE  dpc \in Unloading
    BY DEF NoEarlySend
  <2>1. dpc \in Unloading \cup {"unloaded"}
    BY DEF SendInv, PortSeen, Sending
  <2>2. dpc # "unloaded"
    BY DEF QuietInv, Drained
  <2> QED  BY <2>1, <2>2
<1>2. Spec => []SendInv
  BY BaseInvariant, SendInit, SendStep, PTL DEF Spec
<1> QED  BY <1>1, <1>2, QuietInvariant, PTL

-----------------------------------------------------------------------------
(* The decision of the handle callback *)

\* The PIDs are those of the last configuration, or a connect has replaced the first.
PidInv ==
  /\ cpc = "agent" => ToProtectPID = cctx[1] /\ cctx \in Ctxs
  /\ cpc = "target" => cctx \in Ctxs
  /\ cpc # "agent" => ToProtectPID = conf[1]
  /\ AgentPID = conf[2]

\* A target that was protected, and an agent, while the callback ran.
WasTarget(t) == \E c \in confs[t] : op[t].target = c[1]
Explained(t) == \E c \in confs[t] : access[t] = Decision(c, op[t])

\* What a handle callback has found out at each of its labels.
StripInv ==
  \A t \in Thread : op[t].kind = "handle" =>
    /\ conf \in confs[t]
    /\ cpc = "agent" => cctx \in confs[t]
    /\ op[t].target \in Pid /\ op[t].caller \in Pid
    /\ pc[t] \in {"enabled?", "target?", "agent?"} => access[t] = "full"
    /\ pc[t] = "agent?" => WasTarget(t)
    /\ pc[t] \in {"send", "call", "return"} =>
         \/ access[t] = "full" /\ Explained(t)
         \/ access[t] = "minimal" /\ WasTarget(t) /\ \E d \in confs[t] : d[2] # op[t].caller

LEMMA StripInit == Init => PidInv /\ StripInv
BY DEF Init, PidInv, StripInv, NoOp, NoConf

\* Only these steps change what the handle callback's decision rests on.
LEMMA StripSteps ==
  [Next]_vars =>
    \/ ConnectBegin \/ ConnectTarget \/ ConnectAgent \/ ConnectReturn \/ Bugcheck
    \/ \E t \in Thread : Callback(t)
    \/ \E t \in Thread, k \in Kind, p, q \in Pid : Invoke(t, k, p, q)
    \/ UNCHANGED <<pidVars, cpc, cctx, pc, op, access, confs>>
BY DEF Next, DriverEntry, FilterUnloadCallback, PortRoutine, Stopped, AllocRegPath,
       createRegistration, FltRegisterFilter, FltStartFiltering, registerNotifyRoutine,
       BindFilter, MinifltPortInitialize, UnloadBegin, ClosePort, DerefFilter,
       UnregisterFilter, UnregisterCallbacks, Unregister, UnloadReturn,
       GetMessage, Disconnect, vars, cbVars, connVars

LEMMA PidStep == PidInv /\ [Next]_vars => PidInv'
<1> SUFFICES ASSUME PidInv, [Next]_vars PROVE PidInv'
  OBVIOUS
<1> USE DEF PidInv
<1>1. CASE ConnectBegin
  BY <1>1 DEF ConnectBegin, pidVars
<1>2. CASE ConnectTarget
  BY <1>2 DEF ConnectTarget
<1>3. CASE ConnectAgent
  BY <1>3 DEF ConnectAgent
<1>4. CASE ConnectReturn
  BY <1>4 DEF ConnectReturn, pidVars
<1>5. CASE Bugcheck
  BY <1>5 DEF Bugcheck, NoConf
<1>6. CASE UNCHANGED <<pidVars, cpc, cctx>>
  BY <1>6 DEF pidVars
<1>7. (\E t \in Thread : Callback(t)) \/ (\E t \in Thread, k \in Kind, p, q \in Pid : Invoke(t, k, p, q))
      => UNCHANGED <<pidVars, cpc, cctx>>
  BY DEF Callback, EnabledCheck, TargetCheck, AgentCheck, MinifltPortSendMessage, FltSendMessage,
     CallbackReturn, Invoke, connVars
<1> QED  BY <1>1, <1>2, <1>3, <1>4, <1>5, <1>6, <1>7, StripSteps

\* A step that leaves the operation, its access and the configurations alone, or adds one.
LEMMA StripKept ==
  ASSUME NEW t \in Thread, op'[t] = op[t], access'[t] = access[t], confs[t] \subseteq confs'[t]
  PROVE  /\ WasTarget(t) => WasTarget(t)'
         /\ Explained(t) => Explained(t)'
         /\ (\E d \in confs[t] : d[2] # op[t].caller) => \E d \in confs'[t] : d[2] # op'[t].caller
BY DEF WasTarget, Explained, Decision

LEMMA StripStep ==
  TypeOK /\ OpInv /\ PidInv /\ StripInv /\ [Next]_vars => StripInv'
<1> SUFFICES ASSUME TypeOK, OpInv, PidInv, StripInv, [Next]_vars,
                    NEW t \in Thread, op'[t].kind = "handle"
             PROVE  /\ conf' \in confs'[t]
                    /\ cpc' = "agent" => cctx' \in confs'[t]
                    /\ op'[t].target \in Pid /\ op'[t].caller \in Pid
                    /\ pc'[t] \in {"enabled?", "target?", "agent?"} => access'[t] = "full"
                    /\ pc'[t] = "agent?" => WasTarget(t)'
                    /\ pc'[t] \in {"send", "call", "return"} =>
                         \/ access'[t] = "full" /\ Explained(t)'
                         \/ /\ access'[t] = "minimal" /\ WasTarget(t)'
                            /\ \E d \in confs'[t] : d[2] # op'[t].caller
  BY DEF StripInv
<1>1. CASE ConnectTarget \/ ConnectAgent \/ ConnectBegin \/ ConnectReturn
  <2>1. pc'[t] = pc[t] /\ op'[t] = op[t] /\ access'[t] = access[t]
    BY <1>1 DEF ConnectTarget, ConnectAgent, ConnectBegin, ConnectReturn, cbVars
  <2>2. confs[t] \subseteq confs'[t]
    BY <1>1, <2>1 DEF ConnectTarget, ConnectAgent, ConnectBegin, ConnectReturn, cbVars, Witnessed
  <2>3. conf' \in confs'[t] /\ (cpc' = "agent" => cctx' \in confs'[t])
    BY <1>1, <2>1 DEF ConnectTarget, ConnectAgent, ConnectBegin, ConnectReturn, cbVars, pidVars, Witnessed, StripInv
  <2> QED  BY <2>1, <2>2, <2>3, StripKept DEF StripInv
<1>2. CASE \E u \in Thread : Callback(u)
  <2>1. PICK u \in Thread : Callback(u)
    BY <1>2
  <2>a. UNCHANGED <<pidVars, cpc, cctx>>
    BY <2>1 DEF Callback, EnabledCheck, TargetCheck, AgentCheck, MinifltPortSendMessage, FltSendMessage,
       CallbackReturn, connVars
  <2>2. CASE u # t
    <3>1. pc'[t] = pc[t] /\ op'[t] = op[t] /\ access'[t] = access[t] /\ confs'[t] = confs[t]
      <4>1. CASE FltSendMessage(u)
        BY <2>2, <4>1 DEF FltSendMessage, Goto, TypeOK
      <4>2. CASE MinifltPortSendMessage(u)
        BY <2>2, <4>2 DEF MinifltPortSendMessage, Goto, TypeOK
      <4>3. CASE EnabledCheck(u) \/ TargetCheck(u) \/ AgentCheck(u) \/ CallbackReturn(u)
        BY <2>2, <4>3 DEF EnabledCheck, TargetCheck, AgentCheck, CallbackReturn, Goto, TypeOK
      <4> QED  BY <2>1, <4>1, <4>2, <4>3 DEF Callback
    <3> QED  BY <2>a, <3>1, StripKept DEF StripInv, pidVars
  <2>3. CASE u = t
    <3>a. CASE CallbackReturn(t)
      BY <3>a DEF CallbackReturn, NoOp, TypeOK
    <3>b. ASSUME ~CallbackReturn(t) PROVE op'[t] = op[t] /\ confs'[t] = confs[t]
      BY <2>1, <2>3, <3>b DEF Callback, EnabledCheck, TargetCheck, AgentCheck, MinifltPortSendMessage,
         FltSendMessage
    <3>c. ASSUME ~CallbackReturn(t)
          PROVE  /\ conf' \in confs'[t] /\ (cpc' = "agent" => cctx' \in confs'[t])
                 /\ op'[t].target \in Pid /\ op'[t].caller \in Pid
      BY <2>a, <3>b, <3>c DEF StripInv, pidVars
    <3>1. CASE EnabledCheck(t)
      <4>1. access'[t] = access[t] /\ access[t] = "full" /\ op'[t] = op[t] /\ confs'[t] = confs[t]
        BY <3>1 DEF EnabledCheck, StripInv
      <4>2. CASE pc'[t] = "return" /\ ToProtectPID = Sentinel
        <5>1. op[t].target # Sentinel
          BY <4>1, DriverAssumption DEF StripInv
        <5>2. cpc # "agent" /\ conf[1] = Sentinel
          BY <4>2, DriverAssumption DEF PidInv
        <5>3. access[t] = Decision(conf, op[t]) /\ conf \in confs[t]
          BY <4>1, <5>1, <5>2 DEF Decision, StripInv
        <5>4. Explained(t)'
          BY <4>1, <5>3 DEF Explained
        <5> QED  BY <3>1, <3>c, <4>1, <4>2, <5>4 DEF EnabledCheck, CallbackReturn
      <4>3. CASE pc'[t] = "target?"
        BY <3>1, <3>c, <4>1, <4>3 DEF EnabledCheck, CallbackReturn
      <4> QED  BY <3>1, <4>2, <4>3 DEF EnabledCheck, Goto, TypeOK
    <3>2. CASE TargetCheck(t)
      <4>1. access'[t] = access[t] /\ access[t] = "full" /\ op'[t] = op[t] /\ confs'[t] = confs[t]
        BY <3>2 DEF TargetCheck, StripInv
      <4>2. PICK c \in confs[t] : c[1] = ToProtectPID
        BY <4>1 DEF PidInv, StripInv
      <4>3. CASE pc'[t] = "return" /\ op[t].target # ToProtectPID
        <5>1. access[t] = Decision(c, op[t])
          BY <4>1, <4>2, <4>3 DEF Decision
        <5>2. Explained(t)'
          BY <4>1, <5>1 DEF Explained
        <5> QED  BY <3>2, <3>c, <4>1, <4>3, <5>2 DEF TargetCheck, CallbackReturn
      <4>4. CASE pc'[t] = "agent?" /\ op[t].target = ToProtectPID
        <5>1. WasTarget(t)'
          BY <4>1, <4>2, <4>4 DEF WasTarget
        <5> QED  BY <3>2, <3>c, <4>1, <4>4, <5>1 DEF TargetCheck, CallbackReturn
      <4>5. pc'[t] = IF op[t].target # ToProtectPID THEN "return" ELSE "agent?"
        BY <3>2, <4>1 DEF TargetCheck, Goto, TypeOK
      <4> QED  BY <4>3, <4>4, <4>5
    <3>3. CASE AgentCheck(t)
      <4>1. /\ op'[t] = op[t] /\ confs'[t] = confs[t] /\ pc'[t] = "send" /\ pc[t] = "agent?"
            /\ access'[t] = IF op[t].caller = AgentPID THEN "full" ELSE "minimal"
        BY <3>3 DEF AgentCheck, ByAgent, Goto, TypeOK
      <4>2. conf \in confs[t] /\ AgentPID = conf[2] /\ WasTarget(t)
        BY <4>1 DEF PidInv, StripInv
      <4>3. CASE op[t].caller = AgentPID
        <5>1. access'[t] = Decision(conf, op[t])
          BY <4>1, <4>2, <4>3 DEF Decision
        <5>2. Explained(t)'
          BY <4>1, <4>2, <5>1 DEF Explained
        <5> QED  BY <3>3, <3>c, <4>1, <4>3, <5>2 DEF AgentCheck, CallbackReturn
      <4>4. CASE op[t].caller # AgentPID
        <5>1. WasTarget(t)' /\ \E d \in confs'[t] : d[2] # op'[t].caller
          BY <4>1, <4>2, <4>4 DEF WasTarget
        <5> QED  BY <3>3, <3>c, <4>1, <4>4, <5>1 DEF AgentCheck, CallbackReturn
      <4> QED  BY <4>3, <4>4
    <3>4. CASE MinifltPortSendMessage(t)
      <4>1. pc[t] = "send" /\ pc'[t] = "call" /\ access'[t] = access[t] /\ ~CallbackReturn(t)
        BY <3>4 DEF MinifltPortSendMessage, CallbackReturn, Goto, TypeOK
      <4> QED  BY <3>b, <3>c, <4>1, StripKept DEF StripInv
    <3>5. CASE FltSendMessage(t)
      <4>1. pc[t] = "call" /\ pc'[t] = "return" /\ access'[t] = access[t] /\ ~CallbackReturn(t)
        BY <3>5 DEF FltSendMessage, CallbackReturn, Goto, TypeOK
      <4> QED  BY <3>b, <3>c, <4>1, StripKept DEF StripInv
    <3> QED  BY <2>1, <2>3, <3>a, <3>1, <3>2, <3>3, <3>4, <3>5 DEF Callback
  <2> QED  BY <2>2, <2>3
<1>3. CASE \E u \in Thread, k \in Kind, p, q \in Pid : Invoke(u, k, p, q)
  <2>1. PICK u \in Thread, k \in Kind, p \in Pid, q \in Pid : Invoke(u, k, p, q)
    BY <1>3
  <2>2. UNCHANGED <<pidVars, cpc, cctx>>
    BY <2>1 DEF Invoke, connVars
  <2>3. CASE u # t
    <3>1. pc'[t] = pc[t] /\ op'[t] = op[t] /\ access'[t] = access[t] /\ confs'[t] = confs[t]
      BY <2>1, <2>3 DEF Invoke, Goto, TypeOK
    <3> QED  BY <2>2, <3>1, StripKept DEF StripInv, pidVars
  <2>4. CASE u = t
    <3>1. op'[t] = [kind |-> k, caller |-> p, target |-> q] /\ access'[t] = "full"
      BY <2>1, <2>4 DEF Invoke, TypeOK
    <3>2. k = "handle"
      BY <3>1
    <3>3. confs'[t] = InForce /\ pc'[t] = "enabled?"
      BY <2>1, <2>4, <3>2 DEF Invoke, Goto, Entry, Unguarded, TypeOK
    <3> QED  BY <2>2, <3>1, <3>3 DEF InForce, pidVars
  <2> QED  BY <2>3, <2>4
<1>4. CASE Bugcheck
  BY <1>4 DEF Bugcheck, NoOp
<1>5. CASE UNCHANGED <<pidVars, cpc, cctx, pc, op, access, confs>>
  BY <1>5, StripKept DEF StripInv, pidVars
<1> QED  BY <1>1, <1>2, <1>3, <1>4, <1>5, StripSteps

\* CreateCallback never leaves more access than some configuration that was in force or
\* being installed while it ran, and reduces it only if one of them does or both PIDs
\* were replaced meanwhile: for any number of threads, agents and connects.
THEOREM StripIsExplained == Spec => []StripExplained
<1>1. Spec => [](PidInv /\ StripInv)
  BY QuietInvariant, StripInit, PidStep, StripStep, PTL DEF Spec
<1>2. PidInv /\ StripInv => StripExplained
  <2> SUFFICES ASSUME StripInv, NEW t \in Thread, pc[t] = "return", op[t].kind = "handle", ~Explained(t)
               PROVE  /\ access[t] = "minimal" /\ BothReplaced(confs[t])
                      /\ \E c \in confs[t] : op[t].target = c[1]
    BY DEF StripExplained, Explained
  <2>1. access[t] = "minimal" /\ WasTarget(t) /\ \E d \in confs[t] : d[2] # op[t].caller
    BY DEF StripInv
  <2>2. PICK c \in confs[t] : op[t].target = c[1]
    BY <2>1 DEF WasTarget
  <2>3. PICK d \in confs[t] : d[2] # op[t].caller
    BY <2>1
  <2>4. c[2] = op[t].caller
    BY <2>1, <2>2 DEF Explained, Decision
  <2>5. d[1] # op[t].target
    BY <2>1, <2>3 DEF Explained, Decision
  <2>6. BothReplaced(confs[t])
    BY <2>2, <2>3, <2>4, <2>5 DEF BothReplaced
  <2> QED  BY <2>1, <2>2, <2>6
<1> QED  BY <1>1, <1>2, PTL
===========================================================================
