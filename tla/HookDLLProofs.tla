--------------------------- MODULE HookDLLProofs ---------------------------
(***************************************************************************)
(* Proofs about the named pipe and the hook DLL that writes to it: no      *)
(* instance is leaked, the hook is installed once and always reaches the   *)
(* real function, what is lost and when, and that the pipe implements      *)
(* EventStream.  For every set of threads, number of instances, capacity,  *)
(* number of messages and of restarts of the agent.                        *)
(***************************************************************************)
EXTENDS HookDLL, TLAPS

USE DEF Refuse, Consumed, HasRoom, MayClose, BrokenPipe

LEMMA Constants ==
  /\ MaxInst \in Nat /\ Inst = 1..MaxInst /\ 0 \notin Inst /\ Inst \subseteq Nat
  /\ Cap \in Nat /\ MaxMsgs \in Nat /\ MaxExits \in Nat
  /\ "none" \notin Thread /\ "gone" \notin Thread
  /\ InitThreads \subseteq Thread /\ AppThreads \subseteq Thread /\ Others \subseteq Thread
BY PipeAssumption, ThreadAssumption DEF Inst

LEMMA MsgType ==
  /\ NoMsg \in Msg /\ NoMsg[1] = 0
  /\ \A m \in Msg : m[1] \in 0..MaxMsgs /\ m[2] \in Sizes
  /\ \A n \in 0..MaxMsgs, s \in Sizes : <<n, s>> \in Msg /\ <<n, s>>[1] = n
BY Constants DEF Msg, NoMsg, Sizes

-----------------------------------------------------------------------------
(* The steps, by what they do to the pipe *)

\* The server loop hands its instance to a reader.
Serve ==
  /\ spc \in {"connect", "wait"} /\ client[cur] # "none"
  /\ StartReader

\* The server loop has nobody to serve and waits.
Wait ==
  /\ spc = "connect" /\ spc' = "wait"
  /\ UNCHANGED <<agentVars, inst, client, buf, cur, readerVars, ch, callVars, taken, dropped>>

\* The server loop gives up on a client that has come and gone.
GiveUp ==
  /\ spc = "connect" /\ client[cur] = "gone" /\ CloseServerEnd(cur)
  /\ spc' = "create" /\ cur' = 0
  /\ UNCHANGED <<agentVars, readerVars, ch, callVars, taken>>

OpenFail(t) ==
  /\ call[t] = "open" /\ EndSend(t)
  /\ UNCHANGED <<agentVars, inst, client, buf, serverVars, readerVars, ch, msgs, taken, dropped>>

OpenOk(t, i) ==
  /\ call[t] = "open" /\ i \in inst /\ client[i] = "none"
  /\ client' = [client EXCEPT ![i] = t] /\ call' = [call EXCEPT ![t] = "write"]
  /\ UNCHANGED <<agentVars, inst, buf, serverVars, readerVars, ch, msg, msgs, taken, dropped>>

PipeMove ==
  \/ CreateNamedPipe \/ Serve \/ Wait \/ GiveUp \/ Receive \/ AgentExit \/ Start
  \/ \E i \in Inst : ReadFile(i) \/ ReadError(i) \/ Push(i) \/ Leave(i)
  \/ \E t \in Thread : OpenFail(t) \/ WriteFile(t) \/ CloseHandle(t)
  \/ \E t \in Thread, i \in Inst : OpenOk(t, i)

DllMove ==
  \/ \E t \in InitThreads : InitStep(t)
  \/ \E t \in AppThreads : EnterHook(t) \/ HookStep(t)
  \/ \E t \in Others : OtherSend(t)

PipeStays == UNCHANGED pipeVars

LEMMA Moves ==
  ASSUME TypeOK, [Next]_vars
  PROVE  \/ PipeMove /\ UNCHANGED dllVars
         \/ (\E t \in Thread, s \in Sizes : BeginSend(t, s)) /\ DllMove
         \/ PipeStays /\ (DllMove \/ UNCHANGED dllVars)
<1>1. CASE PipeStep /\ UNCHANGED dllVars
  <2>1. CASE ConnectNamedPipe
    BY <1>1, <2>1, Constants DEF ConnectNamedPipe, Serve, Wait, GiveUp, PipeMove
  <2>2. CASE GetOverlappedResult
    BY <1>1, <2>2 DEF GetOverlappedResult, Serve, PipeMove
  <2>3. ASSUME NEW t \in Thread, CreateFile(t) PROVE PipeMove
    <3>1. inst \subseteq Inst
      BY DEF TypeOK, PipeType
    <3> QED  BY <2>3, <3>1 DEF CreateFile, Listening, OpenFail, OpenOk, PipeMove
  <2> QED  BY <1>1, <2>1, <2>2, <2>3 DEF PipeStep, ServerStep, ReaderStep, SendStep, PipeMove
<1>2. ASSUME NEW t \in InitThreads, InitStep(t)
      PROVE  (\E u \in Thread, s \in Sizes : BeginSend(u, s)) \/ PipeStays
  BY <1>2, Constants
  DEF InitStep, EnterInit, MH_Initialize, SendTestEvent, HookExport, MH_EnableHook, PipeStays, Sizes
<1>3. ASSUME NEW t \in AppThreads, EnterHook(t) \/ HookStep(t)
      PROVE  (\E u \in Thread, s \in Sizes : BeginSend(u, s)) \/ PipeStays
  BY <1>3, Constants DEF EnterHook, HookStep, HookReport, HookReturn, PipeStays, Sizes
<1>4. ASSUME NEW t \in Others, OtherSend(t) PROVE \E u \in Thread, s \in Sizes : BeginSend(u, s)
  BY <1>4, Constants DEF OtherSend
<1>5. CASE Quiet
  BY <1>5 DEF Quiet, vars, PipeStays
<1>6. CASE UNCHANGED vars
  BY <1>6 DEF vars, PipeStays
<1> QED  BY <1>1, <1>2, <1>3, <1>4, <1>5, <1>6 DEF Next, DllMove

-----------------------------------------------------------------------------
(* The hook DLL *)

\* Labels at which the function cannot have been patched yet.
Unpatched == {"minhook", "announce", "KernelBase", "kernel32"}

\* Until the guard is taken every InitThread stands before it and nothing is done; one
\* passes, and it does each thing for the first time.
InitInv ==
  /\ ~inited => inits = 0 /\ hooks = 0 /\ \A t \in InitThreads : pc[t] = "init"
  /\ \A t, u \in InitThreads :
       pc[t] \notin {"init", "done"} /\ pc[u] \notin {"init", "done"} => t = u
  /\ \A t \in InitThreads : /\ pc[t] = "minhook" => inits = 0
                            /\ pc[t] \in Unpatched => hooks = 0
  /\ InitOnce

\* The pointer is set before the hook can be enabled, and stays set.
HookInv ==
  /\ \A t \in InitThreads : pc[t] = "enable" => real
  /\ enabled => real
  /\ HookFallsThrough

DllInv == DllType /\ InitInv /\ HookInv

LEMMA DllInit == Init => DllInv
<1> SUFFICES ASSUME Init PROVE DllInv
  OBVIOUS
<1>1. DllType
  BY DEF Init, DllType
<1>2. \A t \in Thread : pc[t] = IF t \in InitThreads THEN "init" ELSE "app"
  BY DEF Init
<1>3. \A t \in AppThreads : t \notin InitThreads
  BY ThreadAssumption
<1> QED  BY <1>1, <1>2, <1>3, Constants DEF Init, DllInv, InitInv, InitOnce, HookInv, HookFallsThrough

\* What an InitThread's step does.
LEMMA InitMove ==
  ASSUME DllInv, NEW t \in InitThreads, InitStep(t) PROVE DllInv'
<1>0. t \in Thread /\ t \notin AppThreads
  BY Constants, ThreadAssumption
<1>1. \A u \in AppThreads : u \in Thread /\ u # t
  BY <1>0, Constants
<1>2. ASSUME NEW l \in {"minhook", "announce", "KernelBase", "kernel32", "enable", "done"},
             Goto(t, l)
      PROVE  /\ pc' \in [Thread -> {"init", "minhook", "announce", "KernelBase", "kernel32", "enable",
                                    "done", "app", "hook", "report"}]
             /\ pc'[t] = l /\ \A u \in Thread : u # t => pc'[u] = pc[u]
  BY <1>0, <1>2 DEF Goto, DllInv, DllType
<1>3. \A u \in InitThreads : u \in Thread
  BY Constants
\* Past the guard: only t moves, the pointer is not reset.
<1>4. ASSUME pc[t] \notin {"init", "done"}, UNCHANGED inited,
             NEW l \in {"minhook", "announce", "KernelBase", "kernel32", "enable", "done"},
             Goto(t, l), real => real', l = "enable" => real', real' \in BOOLEAN,
             enabled' \in BOOLEAN, enabled' => enabled \/ real,
             l # "minhook", inits' \in {0, 1}, hooks' \in {0, 1}, l \in Unpatched => hooks' = 0
      PROVE  DllInv'
  <2>1. inited /\ \A u \in InitThreads : pc[u] \notin {"init", "done"} => u = t
    BY <1>4 DEF DllInv, InitInv, DllType
  <2>5. pc'[t] = l /\ \A u \in InitThreads : u # t => pc'[u] \in {"init", "done"}
    BY <1>2, <1>3, <1>4, <2>1
  <2>6. InitOnce'
    BY <1>4 DEF InitOnce
  <2>2. InitInv'
    BY <1>4, <2>1, <2>5, <2>6 DEF InitInv, Unpatched
  <2>3. HookInv'
    BY <1>1, <1>2, <1>3, <1>4 DEF HookInv, HookFallsThrough, DllInv
  <2>4. DllType'
    BY <1>2, <1>4 DEF DllType, DllInv
  <2> QED  BY <2>2, <2>3, <2>4 DEF DllInv
<1>10. inits \in {0, 1} /\ hooks \in {0, 1}
  BY DEF DllInv, DllType, InitInv, InitOnce
<1>5. CASE EnterInit(t)
  <2>1. /\ pc[t] = "init" /\ inited' = TRUE /\ Goto(t, IF inited THEN "done" ELSE "minhook")
        /\ UNCHANGED <<real, enabled, inits, hooks>>
    BY <1>5 DEF EnterInit, InitOnceGuard
  <2>2. PICK l \in {"minhook", "done"} : Goto(t, l) /\ (l = "minhook" => ~inited)
    BY <2>1
  <2>3. pc'[t] = l /\ \A u \in Thread : u # t => pc'[u] = pc[u]
    BY <1>2, <2>2
  <2>4. InitInv'
    <3>1. CASE l = "done"
      BY <1>3, <2>1, <2>3, <3>1 DEF InitInv, InitOnce, DllInv, Unpatched
    <3>2. CASE l = "minhook"
      <4>1. inits = 0 /\ hooks = 0 /\ \A u \in InitThreads : pc[u] = "init"
        BY <2>2, <3>2 DEF DllInv, InitInv
      <4>2. \A u \in InitThreads : u # t => pc'[u] = "init"
        BY <1>3, <2>3, <4>1
      <4> QED  BY <2>1, <4>1, <4>2 DEF InitInv, InitOnce, Unpatched
    <3> QED  BY <3>1, <3>2
  <2>5. HookInv'
    BY <1>1, <1>3, <2>1, <2>2, <2>3 DEF HookInv, HookFallsThrough, DllInv
  <2>6. DllType'
    BY <1>2, <2>1, <2>2 DEF DllType, DllInv
  <2> QED  BY <2>4, <2>5, <2>6 DEF DllInv
<1>6. CASE MH_Initialize(t)
  <2>1. /\ pc[t] = "minhook" /\ UNCHANGED <<inited, real, enabled, hooks>>
        /\ Goto(t, "announce") \/ Goto(t, "done")
    BY <1>6 DEF MH_Initialize
  <2>2. hooks = 0 /\ inits = 0
    BY <2>1 DEF DllInv, InitInv, Unpatched
  <2>3. inits' \in {0, 1}
    BY <1>6, <2>2 DEF MH_Initialize
  <2> QED  BY <1>4, <2>1, <2>2, <2>3 DEF DllInv, DllType
<1>7. CASE SendTestEvent(t)
  <2>1. pc[t] = "announce" /\ UNCHANGED <<inited, real, enabled, inits, hooks>> /\ Goto(t, "KernelBase")
    BY <1>7 DEF SendTestEvent
  <2>2. hooks = 0
    BY <2>1 DEF DllInv, InitInv, Unpatched
  <2> QED  BY <1>4, <1>10, <2>1, <2>2 DEF DllInv, DllType
<1>8. ASSUME NEW mod \in {"KernelBase", "kernel32"}, HookExport(t, mod) PROVE DllInv'
  <2>1. pc[t] = mod /\ UNCHANGED <<inited, enabled, inits>>
    BY <1>8 DEF HookExport
  <2>0. hooks = 0
    BY <2>1 DEF DllInv, InitInv, Unpatched
  <2>2. CASE real' = TRUE /\ hooks' = hooks + 1 /\ Goto(t, "enable")
    <3>1. hooks' \in {0, 1}
      BY <2>0, <2>2
    <3> QED  BY <1>4, <1>10, <2>1, <2>2, <3>1 DEF DllInv, DllType, Unpatched
  <2>3. CASE UNCHANGED <<real, hooks>> /\ Goto(t, IF mod = "KernelBase" THEN "kernel32" ELSE "done")
    <3>1. PICK l \in {"kernel32", "done"} : Goto(t, l)
      BY <2>3
    <3> QED  BY <1>4, <1>10, <2>0, <2>1, <2>3, <3>1 DEF DllInv, DllType
  <2> QED  BY <1>8, <2>2, <2>3 DEF HookExport, Trampoline
<1>9. CASE MH_EnableHook(t)
  <2>1. /\ pc[t] = "enable" /\ UNCHANGED <<inited, real, inits, hooks>>
        /\ enabled' \in {TRUE, enabled}
    BY <1>9 DEF MH_EnableHook
  <2>2. real
    BY <2>1 DEF DllInv, HookInv
  <2>3. Goto(t, "done")
    BY <1>9, <2>2 DEF MH_EnableHook
  <2> QED  BY <1>4, <1>10, <2>1, <2>2, <2>3 DEF DllInv, DllType, Unpatched
<1> QED  BY <1>5, <1>6, <1>7, <1>8, <1>9 DEF InitStep

LEMMA DllStep == DllInv /\ TypeOK /\ [Next]_vars => DllInv'
<1> SUFFICES ASSUME DllInv, TypeOK, [Next]_vars PROVE DllInv'
  OBVIOUS
<1>1. ASSUME NEW t \in AppThreads \cup Others, NEW l \in {"app", "hook", "report", "done"},
             Goto(t, l), UNCHANGED <<inited, real, enabled, inits, hooks>>, l = "hook" => enabled
      PROVE  DllInv'
  <2>1. t \in Thread /\ t \notin InitThreads /\ \A u \in InitThreads : u \in Thread /\ u # t
    BY Constants, ThreadAssumption
  <2>2. pc'[t] = l /\ \A u \in Thread : u # t => pc'[u] = pc[u]
    BY <1>1, <2>1 DEF Goto, DllInv, DllType
  <2>3. InitInv'
    BY <1>1, <2>1, <2>2 DEF DllInv, InitInv, InitOnce
  <2>4. HookInv'
    BY <1>1, <2>1, <2>2, Constants DEF DllInv, HookInv, HookFallsThrough
  <2>5. DllType'
    BY <1>1, <2>1 DEF DllInv, DllType, Goto
  <2> QED  BY <2>3, <2>4, <2>5 DEF DllInv
<1>2. ASSUME NEW t \in AppThreads, EnterHook(t) PROVE DllInv'
  BY <1>1, <1>2 DEF EnterHook
<1>3. ASSUME NEW t \in AppThreads, HookStep(t) PROVE DllInv'
  BY <1>1, <1>3 DEF HookStep, HookReport, HookReturn
<1>4. ASSUME NEW t \in Others, OtherSend(t) PROVE DllInv'
  BY <1>1, <1>4 DEF OtherSend
<1>5. CASE UNCHANGED dllVars
  BY <1>5 DEF dllVars, DllInv, DllType, InitInv, InitOnce, HookInv, HookFallsThrough
<1> QED  BY <1>2, <1>3, <1>4, <1>5, InitMove, Moves DEF DllMove

-----------------------------------------------------------------------------
(* Types, numbers and instances *)

\* The messages in the pipe have numbers that were given out, and a reader holds
\* one exactly while it sends.
IdInv ==
  /\ \A t \in Thread : call[t] # "idle" => msg[t][1] \in 1..msgs
  /\ \A i \in Inst : \A k \in DOMAIN buf[i] : buf[i][k][1] \in 1..msgs
  /\ \A i \in Inst : hand[i][1] \in 0..msgs /\ (reader[i] = "send" <=> hand[i][1] # 0)
  /\ \A k \in DOMAIN ch : ch[k][1] \in 1..msgs
  /\ dropped \subseteq 1..msgs
  /\ \A m \in 1..MaxMsgs : taken[m] # 0 => m <= msgs

LEMMA IdsAre == \A s, m : m \in Ids(s) <=> \E k \in DOMAIN s : s[k][1] = m
BY DEF Ids

\* InPipe, of any instances, readers and channel.
Within(b, h, c) == (UNION {Ids(b[i]) : i \in Inst}) \cup ({h[i][1] : i \in Inst} \ {0}) \cup Ids(c)

LEMMA WithinIs ==
  \A b, h, c, m : m \in Within(b, h, c) <=>
    \/ \E i \in Inst : \E k \in DOMAIN b[i] : b[i][k][1] = m
    \/ m # 0 /\ \E i \in Inst : h[i][1] = m
    \/ \E k \in DOMAIN c : c[k][1] = m
BY DEF Within, Ids

LEMMA InPipeIs ==
  \A m : /\ m \in InPipe <=> \/ \E i \in Inst : \E k \in DOMAIN buf[i] : buf[i][k][1] = m
                             \/ m # 0 /\ \E i \in Inst : hand[i][1] = m
                             \/ \E k \in DOMAIN ch : ch[k][1] = m
         /\ m \in InPipe' <=> \/ \E i \in Inst : \E k \in DOMAIN buf'[i] : buf'[i][k][1] = m
                              \/ m # 0 /\ \E i \in Inst : hand'[i][1] = m
                              \/ \E k \in DOMAIN ch' : ch'[k][1] = m
<1>1. InPipe = Within(buf, hand, ch) /\ InPipe' = Within(buf', hand', ch')
  BY DEF InPipe, Within, Ids
<1> QED  BY <1>1, WithinIs

LEMMA IdsInRange == IdInv => \A i \in Inst : Ids(buf[i]) \subseteq 1..msgs
BY IdsAre DEF IdInv

LEMMA InPipeInRange == TypeOK /\ IdInv => InPipe \subseteq 1..msgs
<1> SUFFICES ASSUME TypeOK, IdInv, NEW m, m \in InPipe PROVE m \in 1..msgs
  OBVIOUS
<1>1. msgs \in Nat
  BY DEF TypeOK, CallType
<1>2. \A i \in Inst : hand[i][1] # 0 => hand[i][1] \in 1..msgs
  BY <1>1 DEF IdInv
<1> QED  BY <1>2, InPipeIs DEF IdInv

\* The head of a buffer.
LEMMA Heads ==
  ASSUME PipeType, NEW i \in Inst, buf[i] # <<>>
  PROVE  Head(buf[i]) = buf[i][1] /\ 1 \in DOMAIN buf[i] /\ buf[i][1] \in Msg /\ Tail(buf[i]) \in Seq(Msg)
<1>1. buf[i] \in Seq(Msg)
  BY DEF PipeType
<1> QED  BY <1>1

LEMMA PipeInitTypes == Init => PipeType /\ CallType /\ IdInv /\ NoInstanceLeak
<1> SUFFICES ASSUME Init PROVE PipeType /\ CallType /\ IdInv /\ NoInstanceLeak
  OBVIOUS
<1> USE Constants DEF Init, PipeInit
<1>1. PipeType
  BY MsgType DEF PipeType
<1>2. CallType
  BY MsgType DEF CallType
<1>3. NoInstanceLeak
  BY DEF NoInstanceLeak
<1>4. IdInv
  BY MsgType DEF IdInv
<1> QED  BY <1>1, <1>2, <1>3, <1>4

LEMMA TypeStep == TypeOK /\ IdInv /\ NoInstanceLeak /\ [Next]_vars => PipeType' /\ CallType'
<1> SUFFICES ASSUME TypeOK, IdInv, NoInstanceLeak, [Next]_vars PROVE PipeType' /\ CallType'
  OBVIOUS
<1>0. /\ msgs \in Nat /\ msgs <= MaxMsgs /\ 1..msgs \subseteq 1..MaxMsgs
      /\ \A i \in Inst : Ids(buf[i]) \subseteq 1..MaxMsgs
  <2>1. msgs \in Nat /\ msgs <= MaxMsgs
    BY Constants DEF TypeOK, CallType
  <2>2. 1..msgs \subseteq 1..MaxMsgs
    BY <2>1, Constants
  <2> QED  BY <2>1, <2>2, IdsInRange
<1> USE DEF TypeOK
<1>1. CASE CreateNamedPipe
  BY <1>1 DEF CreateNamedPipe, PipeType, CallType, agentVars, readerVars, callVars
<1>2. CASE Serve
  BY <1>2 DEF Serve, StartReader, PipeType, CallType, agentVars, callVars
<1>3. CASE Wait
  BY <1>3 DEF Wait, PipeType, CallType, agentVars, readerVars, callVars
<1>4. CASE GiveUp
  <2>1. cur \in Inst
    BY <1>4 DEF GiveUp, NoInstanceLeak, PipeType
  <2>2. dropped' \in SUBSET (1..MaxMsgs) /\ UNCHANGED <<agentVars, readerVars, ch, callVars, taken>>
    BY <1>0, <1>4, <2>1 DEF GiveUp, CloseServerEnd, CallType
  <2>3. inst' \in SUBSET Inst /\ client' \in [Inst -> Thread \cup {"none", "gone"}] /\ buf' \in [Inst -> Seq(Msg)]
    BY <1>4, <2>1 DEF GiveUp, CloseServerEnd, PipeType
  <2>4. cur' \in Inst \cup {0} /\ spc' \in {"create", "connect", "wait"}
    BY <1>4 DEF GiveUp
  <2> QED  BY <2>2, <2>3, <2>4 DEF PipeType, CallType, agentVars, readerVars, callVars
<1>5. CASE Receive
  <2>1. ch \in Seq(Msg) /\ ch # <<>> /\ ch' = Tail(ch) /\ Len(ch) <= Cap
    BY <1>5 DEF Receive, PipeType
  <2>2. ch' \in Seq(Msg) /\ Len(ch') <= Cap
    BY <2>1, Constants
  <2>3. taken' \in [1..MaxMsgs -> Nat]
    <3>1. PICK x : x = Head(ch)[1]
      OBVIOUS
    <3>2. taken' = [taken EXCEPT ![x] = taken[x] + 1] /\ taken \in [1..MaxMsgs -> Nat]
      BY <1>5, <3>1 DEF Receive, CallType
    <3>3. CASE x \in 1..MaxMsgs
      BY <3>2, <3>3
    <3>4. CASE x \notin 1..MaxMsgs
      BY <3>2, <3>4
    <3> QED  BY <3>3, <3>4
  <2> QED  BY <1>5, <2>2, <2>3 DEF Receive, PipeType, CallType, agentVars, serverVars, readerVars, callVars
<1>6. CASE AgentExit
  <2>1. dropped' \in SUBSET (1..MaxMsgs)
    BY <1>0, <1>6, InPipeInRange DEF AgentExit, CallType
  <2>2. /\ buf' \in [Inst -> Seq(Msg)] /\ hand' \in [Inst -> Msg] /\ ch' \in Seq(Msg) /\ Len(ch') <= Cap
    BY <1>6, MsgType, Constants DEF AgentExit
  <2>3. /\ reader' \in [Inst -> {"none", "read", "send", "leave"}]
        /\ client' \in [Inst -> Thread \cup {"none", "gone"}]
    BY <1>6 DEF AgentExit
  <2>4. up' \in BOOLEAN /\ exits' \in 0..MaxExits
    <3>1. exits \in 0..MaxExits /\ exits < MaxExits /\ exits' = exits + 1 /\ up' = FALSE
      BY <1>6 DEF AgentExit, PipeType
    <3>2. exits' \in 0..MaxExits
      BY <3>1, Constants
    <3> QED  BY <3>1, <3>2
  <2> QED  BY <1>6, <2>1, <2>2, <2>3, <2>4 DEF AgentExit, PipeType, CallType, callVars
<1>7. CASE Start
  BY <1>7 DEF Start, PipeType, CallType, serverVars, readerVars, callVars
<1>8. ASSUME NEW i \in Inst, ReadFile(i) PROVE PipeType' /\ CallType'
  <2>1. buf[i] # <<>> /\ Head(buf[i]) \in Msg /\ Tail(buf[i]) \in Seq(Msg) /\ Head(buf[i])[1] \in 1..MaxMsgs
    BY <1>0, <1>8, Heads DEF ReadFile, IdInv
  <2>2. AfterRead(Head(buf[i])[2]) \in {"none", "read", "send", "leave"}
    BY DEF AfterRead
  <2>3. hand' \in [Inst -> Msg] /\ dropped' \in SUBSET (1..MaxMsgs)
    BY <1>8, <2>1 DEF ReadFile, PipeType, CallType
  <2>4. reader' \in [Inst -> {"none", "read", "send", "leave"}] /\ buf' \in [Inst -> Seq(Msg)]
    BY <1>8, <2>1, <2>2 DEF ReadFile, PipeType
  <2> QED  BY <1>8, <2>3, <2>4 DEF ReadFile, PipeType, CallType, agentVars, serverVars, callVars
<1>9. ASSUME NEW i \in Inst, ReadError(i) PROVE PipeType' /\ CallType'
  BY <1>9 DEF ReadError, PipeType, CallType, agentVars, serverVars, callVars
<1>10. ASSUME NEW i \in Inst, Push(i) PROVE PipeType' /\ CallType'
  <2>1. ch \in Seq(Msg) /\ hand[i] \in Msg /\ ch' = Append(ch, hand[i]) /\ Len(ch) < Cap
    BY <1>10 DEF Push, PipeType
  <2>2. ch' \in Seq(Msg) /\ Len(ch') <= Cap
    BY <2>1, Constants
  <2> QED  BY <1>10, <2>2, MsgType DEF Push, PipeType, CallType, agentVars, serverVars, callVars
<1>11. ASSUME NEW i \in Inst, Leave(i) PROVE PipeType' /\ CallType'
  <2>1. dropped' \in SUBSET (1..MaxMsgs) /\ UNCHANGED <<agentVars, serverVars, hand, ch, callVars, taken>>
    BY <1>0, <1>11 DEF Leave, CloseServerEnd, CallType
  <2>2. inst' \in SUBSET Inst /\ client' \in [Inst -> Thread \cup {"none", "gone"}] /\ buf' \in [Inst -> Seq(Msg)]
    BY <1>11 DEF Leave, CloseServerEnd, PipeType
  <2>3. reader' \in [Inst -> {"none", "read", "send", "leave"}]
    BY <1>11 DEF Leave, PipeType
  <2> QED  BY <2>1, <2>2, <2>3 DEF PipeType, CallType, agentVars, serverVars, callVars
<1>12. ASSUME NEW t \in Thread, OpenFail(t) PROVE PipeType' /\ CallType'
  BY <1>12, MsgType DEF OpenFail, EndSend, PipeType, CallType, agentVars, serverVars, readerVars
<1>13. ASSUME NEW t \in Thread, WriteFile(t) PROVE PipeType' /\ CallType'
  <2>1. \A i \in Inst : buf[i] \in Seq(Msg) /\ msg[t] \in Msg
    BY DEF PipeType, CallType
  <2>2. buf' \in [Inst -> Seq(Msg)]
    BY <1>13, <2>1 DEF WriteFile
  <2> QED  BY <1>13, <2>2 DEF WriteFile, PipeType, CallType, agentVars, serverVars, readerVars
<1>14. ASSUME NEW t \in Thread, CloseHandle(t) PROVE PipeType' /\ CallType'
  BY <1>14, MsgType DEF CloseHandle, EndSend, PipeType, CallType, agentVars, serverVars, readerVars
<1>15. ASSUME NEW t \in Thread, NEW i \in Inst, OpenOk(t, i) PROVE PipeType' /\ CallType'
  BY <1>15 DEF OpenOk, PipeType, CallType, agentVars, serverVars, readerVars
<1>16. ASSUME NEW t \in Thread, NEW s \in Sizes, BeginSend(t, s) PROVE PipeType' /\ CallType'
  <2>1. msgs < MaxMsgs /\ msgs' = msgs + 1 /\ msg' = [msg EXCEPT ![t] = <<msgs + 1, s>>]
    BY <1>16 DEF BeginSend
  <2>2. msgs' \in 0..MaxMsgs /\ <<msgs + 1, s>> \in Msg
    BY <1>0, <2>1, Constants, MsgType
  <2>3. msg' \in [Thread -> Msg]
    BY <2>1, <2>2 DEF CallType
  <2> QED  BY <1>16, <2>2, <2>3 DEF BeginSend, PipeType, CallType, agentVars, serverVars, readerVars
<1>17. CASE PipeStays
  BY <1>17 DEF PipeStays, pipeVars, PipeType, CallType, agentVars, serverVars, readerVars, callVars
<1> QED
  BY <1>1, <1>2, <1>3, <1>4, <1>5, <1>6, <1>7, <1>8, <1>9, <1>10, <1>11, <1>12, <1>13,
     <1>14, <1>15, <1>16, <1>17, Moves DEF PipeMove

LEMMA LeakStep == TypeOK /\ NoInstanceLeak /\ [Next]_vars => NoInstanceLeak'
<1> SUFFICES ASSUME TypeOK, NoInstanceLeak, [Next]_vars PROVE NoInstanceLeak'
  OBVIOUS
<1>0. /\ reader \in [Inst -> {"none", "read", "send", "leave"}] /\ inst \subseteq Inst
      /\ cur \in Inst \cup {0} /\ 0 \notin Inst
  BY Constants DEF TypeOK, PipeType
<1>1. CASE CreateNamedPipe
  <2>1. PICK i \in Inst \ inst : inst' = inst \cup {i} /\ cur' = i /\ spc' = "connect"
    BY <1>1 DEF CreateNamedPipe
  <2>2. UNCHANGED reader /\ spc = "create"
    BY <1>1 DEF CreateNamedPipe, readerVars
  <2> QED  BY <1>0, <2>1, <2>2 DEF NoInstanceLeak
<1>2. CASE Serve
  <2>1. /\ spc # "create" /\ spc' = "create" /\ cur' = 0 /\ UNCHANGED inst
        /\ reader' = [reader EXCEPT ![cur] = "read"]
    BY <1>2 DEF Serve, StartReader
  <2>2. cur \in Inst /\ reader'[cur] = "read" /\ \A i \in Inst : i # cur => reader'[i] = reader[i]
    BY <1>0, <2>1 DEF NoInstanceLeak
  <2>3. \A i \in Inst : reader'[i] # "none" <=> reader[i] # "none" \/ i = cur
    BY <2>2
  <2> QED  BY <1>0, <2>1, <2>2, <2>3 DEF NoInstanceLeak
<1>3. CASE Wait
  BY <1>3 DEF Wait, readerVars, NoInstanceLeak
<1>4. CASE GiveUp
  <2>1. /\ spc # "create" /\ spc' = "create" /\ cur' = 0 /\ inst' = inst \ {cur} /\ UNCHANGED reader
    BY <1>4 DEF GiveUp, CloseServerEnd, readerVars
  <2> QED  BY <1>0, <2>1 DEF NoInstanceLeak
<1>5. CASE Receive
  BY <1>5 DEF Receive, serverVars, readerVars, NoInstanceLeak
<1>6. CASE AgentExit
  BY <1>6 DEF AgentExit, NoInstanceLeak
<1>7. CASE Start
  BY <1>7 DEF Start, serverVars, readerVars, NoInstanceLeak
<1>8. ASSUME NEW i \in Inst, NEW l \in {"read", "send", "leave"}, reader[i] # "none",
             reader' = [reader EXCEPT ![i] = l], UNCHANGED <<inst, spc, cur>>
      PROVE  NoInstanceLeak'
  <2>1. \A j \in Inst : reader'[j] = "none" <=> reader[j] = "none"
    BY <1>0, <1>8
  <2> QED  BY <1>0, <1>8, <2>1 DEF NoInstanceLeak
<1>9. ASSUME NEW i \in Inst, ReadFile(i) PROVE NoInstanceLeak'
  <2>1. AfterRead(Head(buf[i])[2]) \in {"read", "send", "leave"}
    BY DEF AfterRead
  <2> QED  BY <1>8, <1>9, <2>1 DEF ReadFile, serverVars
<1>10. ASSUME NEW i \in Inst, ReadError(i) PROVE NoInstanceLeak'
  BY <1>8, <1>10 DEF ReadError, serverVars
<1>11. ASSUME NEW i \in Inst, Push(i) PROVE NoInstanceLeak'
  BY <1>8, <1>11 DEF Push, serverVars
<1>12. ASSUME NEW i \in Inst, Leave(i) PROVE NoInstanceLeak'
  <2>1. /\ reader[i] = "leave" /\ reader' = [reader EXCEPT ![i] = "none"] /\ inst' = inst \ {i}
        /\ UNCHANGED <<spc, cur>>
    BY <1>12 DEF Leave, CloseServerEnd, serverVars
  <2>2. reader'[i] = "none" /\ \A j \in Inst : j # i => reader'[j] = reader[j]
    BY <1>0, <2>1
  <2>3. i # cur
    BY <1>0, <2>1 DEF NoInstanceLeak
  <2> QED  BY <1>0, <2>1, <2>2, <2>3 DEF NoInstanceLeak
<1>13. ASSUME NEW t \in Thread, OpenFail(t) \/ WriteFile(t) \/ CloseHandle(t) PROVE NoInstanceLeak'
  BY <1>13 DEF OpenFail, WriteFile, CloseHandle, serverVars, readerVars, NoInstanceLeak
<1>14. ASSUME NEW t \in Thread, NEW i \in Inst, OpenOk(t, i) PROVE NoInstanceLeak'
  BY <1>14 DEF OpenOk, serverVars, readerVars, NoInstanceLeak
<1>15. ASSUME NEW t \in Thread, NEW s \in Sizes, BeginSend(t, s) PROVE NoInstanceLeak'
  BY <1>15 DEF BeginSend, serverVars, readerVars, NoInstanceLeak
<1>16. CASE PipeStays
  BY <1>16 DEF PipeStays, pipeVars, serverVars, readerVars, NoInstanceLeak
<1> QED
  BY <1>1, <1>2, <1>3, <1>4, <1>5, <1>6, <1>7, <1>9, <1>10, <1>11, <1>12, <1>13, <1>14, <1>15,
     <1>16, Moves DEF PipeMove

LEMMA IdStep == TypeOK /\ NoInstanceLeak /\ IdInv /\ [Next]_vars => IdInv'
<1> SUFFICES ASSUME TypeOK, NoInstanceLeak, IdInv, [Next]_vars PROVE IdInv'
  OBVIOUS
<1>0. /\ reader \in [Inst -> {"none", "read", "send", "leave"}] /\ hand \in [Inst -> Msg]
      /\ buf \in [Inst -> Seq(Msg)] /\ msgs \in Nat /\ cur \in Inst \cup {0}
      /\ taken \in [1..MaxMsgs -> Nat]
  BY Constants DEF TypeOK, PipeType, CallType
<1>1. CASE CreateNamedPipe
  BY <1>1 DEF CreateNamedPipe, readerVars, callVars, IdInv
<1>2. CASE Serve
  <2>1. /\ reader' = [reader EXCEPT ![cur] = "read"] /\ cur \in Inst /\ reader[cur] = "none"
        /\ UNCHANGED <<buf, hand, ch, callVars, taken, dropped>>
    BY <1>0, <1>2 DEF Serve, StartReader, NoInstanceLeak
  <2>2. \A i \in Inst : reader'[i] = "send" <=> reader[i] = "send"
    BY <1>0, <2>1
  <2> QED  BY <2>1, <2>2 DEF IdInv, callVars
<1>3. CASE Wait
  BY <1>3 DEF Wait, readerVars, callVars, IdInv
<1>4. ASSUME NEW i \in Inst, CloseServerEnd(i), UNCHANGED <<hand, ch, callVars, taken>>,
             \A j \in Inst : reader'[j] = "send" <=> reader[j] = "send"
      PROVE  IdInv'
  <2>1. dropped' \subseteq 1..msgs
    BY <1>4, IdsInRange DEF CloseServerEnd, IdInv
  <2>2. \A j \in Inst : \A k \in DOMAIN buf'[j] : k \in DOMAIN buf[j] /\ buf'[j][k] = buf[j][k]
    BY <1>0, <1>4 DEF CloseServerEnd
  <2>3. \A j \in Inst : \A k \in DOMAIN buf'[j] : buf'[j][k][1] \in 1..msgs
    BY <2>2 DEF IdInv
  <2> QED  BY <1>4, <2>1, <2>3 DEF IdInv, callVars
<1>5. CASE GiveUp
  <2>1. cur \in Inst /\ CloseServerEnd(cur) /\ UNCHANGED <<reader, hand, ch, callVars, taken>>
    BY <1>0, <1>5 DEF GiveUp, readerVars, NoInstanceLeak
  <2> QED  BY <1>4, <2>1
<1>6. ASSUME NEW i \in Inst, Leave(i) PROVE IdInv'
  <2>1. /\ CloseServerEnd(i) /\ UNCHANGED <<hand, ch, callVars, taken>>
        /\ reader[i] = "leave" /\ reader' = [reader EXCEPT ![i] = "none"]
    BY <1>6 DEF Leave
  <2>2. \A j \in Inst : reader'[j] = "send" <=> reader[j] = "send"
    BY <1>0, <2>1
  <2> QED  BY <1>4, <2>1, <2>2
<1>7. CASE Receive
  <2>1. /\ ch \in Seq(Msg) /\ ch # <<>> /\ ch' = Tail(ch)
        /\ UNCHANGED <<buf, reader, hand, callVars, dropped>>
        /\ taken' = [taken EXCEPT ![Head(ch)[1]] = @ + 1]
    BY <1>7 DEF Receive, readerVars, TypeOK, PipeType
  <2>2. \A k \in DOMAIN ch' : k + 1 \in DOMAIN ch /\ ch'[k] = ch[k + 1]
    BY <2>1
  <2>3. \A k \in DOMAIN ch' : ch'[k][1] \in 1..msgs
    BY <2>2 DEF IdInv
  <2>4. Head(ch)[1] \in 1..msgs
    BY <2>1 DEF IdInv
  <2>5. \A m \in 1..MaxMsgs : taken'[m] # 0 => m <= msgs
    BY <1>0, <2>1, <2>4 DEF IdInv
  <2> QED  BY <2>1, <2>3, <2>5 DEF IdInv, callVars
<1>8. CASE AgentExit
  <2>1. dropped' \subseteq 1..msgs
    BY <1>8, InPipeInRange DEF AgentExit, IdInv
  <2>2. /\ buf' = [i \in Inst |-> <<>>] /\ hand' = [i \in Inst |-> NoMsg] /\ ch' = <<>>
        /\ reader' = [i \in Inst |-> "none"] /\ UNCHANGED <<callVars, taken>>
    BY <1>8 DEF AgentExit
  <2>3. /\ \A i \in Inst : DOMAIN buf'[i] = {} /\ hand'[i][1] = 0 /\ reader'[i] = "none"
        /\ DOMAIN ch' = {} /\ 0 \in 0..msgs
    BY <1>0, <2>2, MsgType
  <2> QED  BY <2>1, <2>2, <2>3 DEF IdInv, callVars
<1>9. CASE Start
  BY <1>9 DEF Start, readerVars, callVars, IdInv
<1>10. ASSUME NEW i \in Inst, ReadFile(i) PROVE IdInv'
  <2>1. /\ Head(buf[i]) = buf[i][1] /\ 1 \in DOMAIN buf[i] /\ buf[i][1] \in Msg /\ buf[i] # <<>>
        /\ reader[i] = "read"
    BY <1>10, Heads DEF ReadFile, TypeOK
  <2>2. buf[i][1][1] \in 1..msgs /\ hand[i][1] = 0
    BY <2>1 DEF IdInv
  <2>3. buf' = [buf EXCEPT ![i] = Tail(buf[i])] /\ UNCHANGED <<ch, callVars, taken>>
    BY <1>10 DEF ReadFile
  <2>4. \A j \in Inst : \A k \in DOMAIN buf'[j] : buf'[j][k][1] \in 1..msgs
    <3>1. buf[i] \in Seq(Msg) /\ buf'[i] = Tail(buf[i]) /\ \A j \in Inst : j # i => buf'[j] = buf[j]
      BY <1>0, <2>3
    <3>2. \A k \in DOMAIN buf'[i] : k + 1 \in DOMAIN buf[i] /\ buf'[i][k] = buf[i][k + 1]
      BY <2>1, <3>1
    <3>3. \A k \in DOMAIN buf'[i] : buf'[i][k][1] \in 1..msgs
      BY <3>2 DEF IdInv
    <3>4. \A j \in Inst : j # i => \A k \in DOMAIN buf'[j] : buf'[j][k][1] \in 1..msgs
      BY <3>1 DEF IdInv
    <3> QED  BY <3>3, <3>4
  <2>5. CASE buf[i][1][2] = "event"
    <3>1. reader' = [reader EXCEPT ![i] = "send"] /\ hand' = [hand EXCEPT ![i] = buf[i][1]] /\ UNCHANGED dropped
      BY <1>10, <2>1, <2>5 DEF ReadFile, AfterRead
    <3>2. \A j \in Inst : hand'[j][1] \in 0..msgs /\ (reader'[j] = "send" <=> hand'[j][1] # 0)
      BY <1>0, <2>2, <3>1 DEF IdInv
    <3> QED  BY <2>3, <2>4, <3>1, <3>2 DEF IdInv, callVars
  <2>6. CASE buf[i][1][2] # "event"
    <3>1. PICK l \in {"read", "leave"} : reader' = [reader EXCEPT ![i] = l]
      BY <1>10, <2>1, <2>6 DEF ReadFile, AfterRead
    <3>2. UNCHANGED hand /\ dropped' = dropped \cup {buf[i][1][1]}
      BY <1>10, <2>1, <2>6 DEF ReadFile
    <3>3. \A j \in Inst : reader'[j] = "send" <=> reader[j] = "send"
      BY <1>0, <2>1, <3>1
    <3>4. dropped' \subseteq 1..msgs
      BY <2>2, <3>2 DEF IdInv
    <3> QED  BY <2>3, <2>4, <3>2, <3>3, <3>4 DEF IdInv, callVars
  <2> QED  BY <2>5, <2>6
<1>11. ASSUME NEW i \in Inst, ReadError(i) PROVE IdInv'
  <2>1. reader[i] = "read" /\ reader' = [reader EXCEPT ![i] = "leave"] /\ UNCHANGED <<buf, hand, ch, callVars, taken, dropped>>
    BY <1>11 DEF ReadError
  <2>2. \A j \in Inst : reader'[j] = "send" <=> reader[j] = "send"
    BY <1>0, <2>1
  <2> QED  BY <2>1, <2>2 DEF IdInv, callVars
<1>12. ASSUME NEW i \in Inst, Push(i) PROVE IdInv'
  <2>1. /\ reader[i] = "send" /\ reader' = [reader EXCEPT ![i] = "read"]
        /\ hand' = [hand EXCEPT ![i] = NoMsg] /\ ch' = Append(ch, hand[i])
        /\ UNCHANGED <<buf, callVars, taken, dropped>>
    BY <1>12 DEF Push
  <2>2. \A j \in Inst : hand'[j][1] \in 0..msgs /\ (reader'[j] = "send" <=> hand'[j][1] # 0)
    BY <1>0, <2>1, MsgType DEF IdInv
  <2>3. ch \in Seq(Msg) /\ hand[i] \in Msg /\ hand[i][1] \in 1..msgs
    <3>1. hand[i][1] \in 0..msgs /\ hand[i][1] # 0
      BY <2>1 DEF IdInv
    <3> QED  BY <1>0, <3>1 DEF TypeOK, PipeType
  <2>4. \A k \in DOMAIN ch' : (k \in DOMAIN ch /\ ch'[k] = ch[k]) \/ ch'[k] = hand[i]
    BY <2>1, <2>3
  <2>5. \A k \in DOMAIN ch' : ch'[k][1] \in 1..msgs
    BY <2>3, <2>4 DEF IdInv
  <2> QED  BY <2>1, <2>2, <2>5 DEF IdInv, callVars
<1>13. ASSUME NEW t \in Thread, EndSend(t), UNCHANGED <<buf, reader, hand, ch, msgs, taken, dropped>>
       PROVE  IdInv'
  <2>1. call'[t] = "idle" /\ \A u \in Thread : u # t => call'[u] = call[u] /\ msg'[u] = msg[u]
    BY <1>13 DEF EndSend, TypeOK, CallType
  <2> QED  BY <1>13, <2>1 DEF IdInv
<1>14. ASSUME NEW t \in Thread, OpenFail(t) PROVE IdInv'
  BY <1>13, <1>14 DEF OpenFail, readerVars
<1>15. ASSUME NEW t \in Thread, CloseHandle(t) PROVE IdInv'
  BY <1>13, <1>15 DEF CloseHandle, readerVars
<1>16. ASSUME NEW t \in Thread, WriteFile(t) PROVE IdInv'
  <2>1. /\ call[t] = "write" /\ call' = [call EXCEPT ![t] = "close"]
        /\ UNCHANGED <<reader, hand, ch, msg, msgs, taken, dropped>>
        /\ buf' = [i \in Inst |-> IF client[i] = t THEN Append(buf[i], msg[t]) ELSE buf[i]]
    BY <1>16 DEF WriteFile, readerVars
  <2>2. \A u \in Thread : call'[u] = "idle" <=> call[u] = "idle"
    BY <2>1 DEF TypeOK, CallType
  <2>3. msg[t] \in Msg /\ msg[t][1] \in 1..msgs
    BY <2>1 DEF TypeOK, CallType, IdInv
  <2>4. ASSUME NEW i \in Inst, NEW k \in DOMAIN buf'[i] PROVE buf'[i][k][1] \in 1..msgs
    <3>1. buf[i] \in Seq(Msg) /\ (buf'[i] = Append(buf[i], msg[t]) \/ buf'[i] = buf[i])
      BY <1>0, <2>1
    <3>2. (k \in DOMAIN buf[i] /\ buf'[i][k] = buf[i][k]) \/ buf'[i][k] = msg[t]
      BY <2>3, <3>1
    <3> QED  BY <2>3, <3>2 DEF IdInv
  <2> QED  BY <2>1, <2>2, <2>4 DEF IdInv
<1>17. ASSUME NEW t \in Thread, NEW i \in Inst, OpenOk(t, i) PROVE IdInv'
  <2>1. call[t] = "open" /\ call' = [call EXCEPT ![t] = "write"] /\ UNCHANGED <<buf, reader, hand, ch, msg, msgs, taken, dropped>>
    BY <1>17 DEF OpenOk, readerVars
  <2>2. \A u \in Thread : call'[u] = "idle" <=> call[u] = "idle"
    BY <2>1 DEF TypeOK, CallType
  <2> QED  BY <2>1, <2>2 DEF IdInv
<1>18. ASSUME NEW t \in Thread, NEW s \in Sizes, BeginSend(t, s) PROVE IdInv'
  <2>1. /\ msgs' = msgs + 1 /\ msg' = [msg EXCEPT ![t] = <<msgs + 1, s>>] /\ call' = [call EXCEPT ![t] = "open"]
        /\ UNCHANGED <<buf, reader, hand, ch, taken, dropped>>
    BY <1>18 DEF BeginSend, readerVars
  <2>2. 1..msgs \subseteq 1..msgs' /\ 0..msgs \subseteq 0..msgs' /\ msgs + 1 \in 1..msgs'
    BY <1>0, <2>1
  <2>3. msg'[t][1] = msgs + 1 /\ \A u \in Thread : u # t => msg'[u] = msg[u] /\ call'[u] = call[u]
    BY <2>1 DEF TypeOK, CallType
  <2>4. \A u \in Thread : call'[u] # "idle" => msg'[u][1] \in 1..msgs'
    BY <2>2, <2>3 DEF IdInv
  <2>5. /\ \A i \in Inst : \A k \in DOMAIN buf[i] : buf[i][k][1] \in 1..msgs'
        /\ \A i \in Inst : hand[i][1] \in 0..msgs'
        /\ \A k \in DOMAIN ch : ch[k][1] \in 1..msgs'
        /\ dropped \subseteq 1..msgs'
    BY <2>2 DEF IdInv
  <2>6. \A m \in 1..MaxMsgs : taken[m] # 0 => m <= msgs'
    BY <1>0, <2>1, Constants DEF IdInv
  <2> QED  BY <2>1, <2>4, <2>5, <2>6 DEF IdInv
<1>19. CASE PipeStays
  BY <1>19 DEF PipeStays, pipeVars, readerVars, callVars, IdInv
<1> QED
  BY <1>1, <1>2, <1>3, <1>5, <1>6, <1>7, <1>8, <1>9, <1>10, <1>11, <1>12, <1>14, <1>15, <1>16,
     <1>17, <1>18, <1>19, Moves DEF PipeMove

\* An instance has one client at a time, which writes once: a client that has not
\* written yet finds the instance empty and its reader, if there is one, reading.
InstInv ==
  /\ \A i \in Inst : i \notin inst => client[i] = "none"
  /\ \A i \in Inst : client[i] = "none" => buf[i] = <<>> /\ reader[i] = "none"
  /\ \A i \in Inst : Len(buf[i]) <= 1
  /\ \A i \in Inst : reader[i] \in {"send", "leave"} => buf[i] = <<>>
  /\ \A i \in Inst, t \in Thread : client[i] = t => call[t] \in {"write", "close"}
  /\ \A i \in Inst, t \in Thread :
       client[i] = t /\ call[t] = "write" => buf[i] = <<>> /\ reader[i] \in {"none", "read"}
  /\ \A i, j \in Inst : client[i] \in Thread /\ client[i] = client[j] => i = j

LEMMA InstInit == Init => InstInv
<1> SUFFICES ASSUME Init PROVE InstInv
  OBVIOUS
<1>1. \A i \in Inst : client[i] = "none" /\ buf[i] = <<>> /\ reader[i] = "none"
  BY DEF Init, PipeInit
<1>2. Len(<<>>) <= 1
  OBVIOUS
<1> QED  BY <1>1, <1>2, Constants DEF InstInv

LEMMA InstStep == TypeOK /\ NoInstanceLeak /\ InstInv /\ [Next]_vars => InstInv'
<1> SUFFICES ASSUME TypeOK, NoInstanceLeak, InstInv, [Next]_vars PROVE InstInv'
  OBVIOUS
<1>0. /\ reader \in [Inst -> {"none", "read", "send", "leave"}]
      /\ client \in [Inst -> Thread \cup {"none", "gone"}]
      /\ buf \in [Inst -> Seq(Msg)] /\ cur \in Inst \cup {0}
      /\ call \in [Thread -> {"idle", "open", "write", "close"}]
      /\ "none" \notin Thread /\ "gone" \notin Thread /\ Len(<<>>) <= 1
  BY Constants DEF TypeOK, PipeType, CallType
<1>1. CASE CreateNamedPipe
  <2>1. PICK i \in Inst \ inst : inst' = inst \cup {i} /\ client' = [client EXCEPT ![i] = "none"]
    BY <1>1 DEF CreateNamedPipe
  <2>2. client' = client
    <3>1. client[i] = "none"
      BY DEF InstInv
    <3> QED  BY <1>0, <2>1, <3>1
  <2>3. UNCHANGED <<buf, reader, call>>
    BY <1>1 DEF CreateNamedPipe, readerVars, callVars
  <2> QED  BY <2>1, <2>2, <2>3 DEF InstInv
\* A reader moves on, and only on an instance whose client is not about to write.
<1>2. ASSUME NEW i \in Inst, NEW l \in {"read", "send", "leave"}, reader' = [reader EXCEPT ![i] = l],
             client[i] # "none", UNCHANGED <<inst, client, buf, call>>,
             l # "read" => buf[i] = <<>>,
             \A t \in Thread : client[i] = t /\ call[t] = "write" => l = "read"
      PROVE  InstInv'
  <2>1. reader'[i] = l /\ \A j \in Inst : j # i => reader'[j] = reader[j]
    BY <1>0, <1>2
  <2> QED  BY <1>2, <2>1 DEF InstInv
<1>3. CASE Serve
  <2>1. /\ cur \in Inst /\ client[cur] # "none" /\ reader' = [reader EXCEPT ![cur] = "read"]
        /\ UNCHANGED <<inst, client, buf, call>>
    BY <1>0, <1>3 DEF Serve, StartReader, NoInstanceLeak, callVars
  <2> QED  BY <1>2, <2>1
<1>4. CASE Wait
  BY <1>4 DEF Wait, readerVars, callVars, InstInv
<1>5. ASSUME NEW i \in Inst, CloseServerEnd(i), UNCHANGED call, reader'[i] = "none",
             \A j \in Inst : j # i => reader'[j] = reader[j]
      PROVE  InstInv'
  <2>1. /\ inst' = inst \ {i} /\ client'[i] = "none" /\ buf'[i] = <<>>
        /\ \A j \in Inst : j # i => client'[j] = client[j] /\ buf'[j] = buf[j]
    BY <1>0, <1>5 DEF CloseServerEnd
  <2>2. \A j \in Inst : client'[j] \in Thread => j # i
    BY <1>0, <2>1
  <2>3. /\ \A j \in Inst : j \notin inst' => client'[j] = "none"
        /\ \A j \in Inst : client'[j] = "none" => buf'[j] = <<>> /\ reader'[j] = "none"
        /\ \A j \in Inst : reader'[j] \in {"send", "leave"} => buf'[j] = <<>>
    BY <1>5, <2>1 DEF InstInv
  <2>4. \A j \in Inst : Len(buf'[j]) <= 1
    BY <1>0, <2>1 DEF InstInv
  <2>5. ASSUME NEW j \in Inst, NEW t \in Thread, client'[j] = t
        PROVE  /\ call'[t] \in {"write", "close"}
               /\ call'[t] = "write" => buf'[j] = <<>> /\ reader'[j] \in {"none", "read"}
    <3>1. j # i /\ client[j] = t /\ buf'[j] = buf[j] /\ reader'[j] = reader[j] /\ call' = call
      BY <1>5, <2>1, <2>2, <2>5
    <3> QED  BY <3>1 DEF InstInv
  <2>6. \A j, k \in Inst : client'[j] \in Thread /\ client'[j] = client'[k] => j = k
    BY <2>1, <2>2 DEF InstInv
  <2>7. /\ \A j \in Inst, t \in Thread : client'[j] = t => call'[t] \in {"write", "close"}
        /\ \A j \in Inst, t \in Thread :
             client'[j] = t /\ call'[t] = "write" => buf'[j] = <<>> /\ reader'[j] \in {"none", "read"}
    BY <2>5
  <2> QED  BY <2>3, <2>4, <2>6, <2>7, Zenon DEF InstInv
<1>6. CASE GiveUp
  <2>1. cur \in Inst /\ CloseServerEnd(cur) /\ UNCHANGED <<reader, call>> /\ reader[cur] = "none"
    BY <1>0, <1>6 DEF GiveUp, readerVars, callVars, NoInstanceLeak
  <2> QED  BY <1>5, <2>1
<1>7. ASSUME NEW i \in Inst, Leave(i) PROVE InstInv'
  <2>1. CloseServerEnd(i) /\ UNCHANGED call /\ reader' = [reader EXCEPT ![i] = "none"]
    BY <1>7 DEF Leave, callVars
  <2>2. reader'[i] = "none" /\ \A j \in Inst : j # i => reader'[j] = reader[j]
    BY <1>0, <2>1
  <2> QED  BY <1>5, <2>1, <2>2
<1>8. CASE Receive
  BY <1>8 DEF Receive, readerVars, callVars, InstInv
<1>9. CASE AgentExit
  <2>1. \A i \in Inst : client'[i] = "none" /\ buf'[i] = <<>> /\ reader'[i] = "none"
    BY <1>9 DEF AgentExit
  <2> QED  BY <1>0, <2>1 DEF InstInv
<1>10. CASE Start
  BY <1>10 DEF Start, readerVars, callVars, InstInv
<1>11. ASSUME NEW i \in Inst, ReadFile(i) PROVE InstInv'
  <2>1. PICK l \in {"read", "send", "leave"} : reader' = [reader EXCEPT ![i] = l]
    BY <1>11 DEF ReadFile, AfterRead
  <2>2. /\ buf[i] # <<>> /\ buf' = [buf EXCEPT ![i] = Tail(buf[i])] /\ UNCHANGED <<inst, client, call>>
    BY <1>11 DEF ReadFile, callVars
  <2>3. buf'[i] = <<>> /\ \A j \in Inst : j # i => buf'[j] = buf[j]
    <3>1. buf[i] \in Seq(Msg) /\ Len(buf[i]) <= 1
      BY <1>0 DEF InstInv
    <3>2. Tail(buf[i]) = <<>>
      BY <2>2, <3>1
    <3> QED  BY <1>0, <2>2, <3>2
  <2>4. reader'[i] = l /\ \A j \in Inst : j # i => reader'[j] = reader[j]
    BY <1>0, <2>1
  <2>5. client[i] # "none" /\ \A t \in Thread : client[i] = t => call[t] # "write"
    BY <2>2 DEF InstInv
  <2> QED  BY <1>0, <2>2, <2>3, <2>4, <2>5 DEF InstInv
<1>12. ASSUME NEW i \in Inst, ReadError(i) PROVE InstInv'
  <2>1. /\ client[i] = "gone" /\ buf[i] = <<>> /\ reader' = [reader EXCEPT ![i] = "leave"]
        /\ UNCHANGED <<inst, client, buf, call>>
    BY <1>12 DEF ReadError, callVars
  <2>2. client[i] # "none" /\ \A t \in Thread : client[i] # t
    BY <1>0, <2>1
  <2> QED  BY <1>2, <2>1, <2>2
<1>13. ASSUME NEW i \in Inst, Push(i) PROVE InstInv'
  <2>1. /\ reader[i] = "send" /\ reader' = [reader EXCEPT ![i] = "read"]
        /\ UNCHANGED <<inst, client, buf, call>>
    BY <1>13 DEF Push, callVars
  <2>2. client[i] # "none"
    BY <2>1 DEF InstInv
  <2> QED  BY <1>2, <2>1, <2>2
<1>14. ASSUME NEW t \in Thread, OpenFail(t) PROVE InstInv'
  <2>1. call[t] = "open" /\ call' = [call EXCEPT ![t] = "idle"] /\ UNCHANGED <<inst, client, buf, reader>>
    BY <1>14 DEF OpenFail, EndSend, readerVars
  <2>2. \A i \in Inst : client[i] # t
    BY <2>1 DEF InstInv
  <2>3. \A u \in Thread : u # t => call'[u] = call[u]
    BY <1>0, <2>1
  <2> QED  BY <2>1, <2>2, <2>3 DEF InstInv
<1>15. ASSUME NEW t \in Thread, WriteFile(t) PROVE InstInv'
  <2>1. /\ call[t] = "write" /\ call' = [call EXCEPT ![t] = "close"] /\ UNCHANGED <<inst, client, reader>>
        /\ buf' = [i \in Inst |-> IF client[i] = t THEN Append(buf[i], msg[t]) ELSE buf[i]]
    BY <1>15 DEF WriteFile, readerVars
  <2>2. call'[t] = "close" /\ \A u \in Thread : u # t => call'[u] = call[u]
    BY <1>0, <2>1
  <2>3. ASSUME NEW i \in Inst, client[i] = t PROVE Len(buf'[i]) <= 1
    <3>1. buf[i] = <<>> /\ msg[t] \in Msg
      BY <2>1, <2>3 DEF InstInv, TypeOK, CallType
    <3>2. buf'[i] = Append(<<>>, msg[t])
      BY <2>1, <2>3, <3>1
    <3> QED  BY <3>1, <3>2
  <2>4. \A i \in Inst : client[i] # t => buf'[i] = buf[i]
    BY <2>1
  <2>5. \A i \in Inst : client[i] = t => reader[i] \in {"none", "read"} /\ client[i] # "none"
    BY <1>0, <2>1 DEF InstInv
  <2> QED  BY <2>1, <2>2, <2>3, <2>4, <2>5 DEF InstInv
<1>16. ASSUME NEW t \in Thread, CloseHandle(t) PROVE InstInv'
  <2>1. /\ call' = [call EXCEPT ![t] = "idle"] /\ UNCHANGED <<inst, buf, reader>>
        /\ client' = [i \in Inst |-> IF client[i] = t THEN "gone" ELSE client[i]]
    BY <1>16 DEF CloseHandle, EndSend, readerVars
  <2>2. \A u \in Thread : u # t => call'[u] = call[u]
    BY <1>0, <2>1
  <2>3. \A i \in Inst : client'[i] = IF client[i] = t THEN "gone" ELSE client[i]
    BY <2>1
  <2>4. \A i \in Inst : client'[i] # t /\ (client'[i] = "none" <=> client[i] = "none")
                        /\ (client'[i] \in Thread => client'[i] = client[i])
    BY <1>0, <2>3
  <2> QED  BY <2>1, <2>2, <2>4 DEF InstInv
<1>17. ASSUME NEW t \in Thread, NEW i \in Inst, OpenOk(t, i) PROVE InstInv'
  <2>1. /\ call[t] = "open" /\ i \in inst /\ client[i] = "none"
        /\ client' = [client EXCEPT ![i] = t] /\ call' = [call EXCEPT ![t] = "write"]
        /\ UNCHANGED <<inst, buf, reader>>
    BY <1>17 DEF OpenOk, readerVars
  <2>2. call'[t] = "write" /\ \A u \in Thread : u # t => call'[u] = call[u]
    BY <1>0, <2>1
  <2>3. client'[i] = t /\ \A j \in Inst : j # i => client'[j] = client[j] /\ client[j] # t
    BY <1>0, <2>1 DEF InstInv
  <2>4. buf[i] = <<>> /\ reader[i] = "none"
    BY <2>1 DEF InstInv
  <2> QED  BY <1>0, <2>1, <2>2, <2>3, <2>4 DEF InstInv
<1>18. ASSUME NEW t \in Thread, NEW s \in Sizes, BeginSend(t, s) PROVE InstInv'
  <2>1. call[t] = "idle" /\ call' = [call EXCEPT ![t] = "open"] /\ UNCHANGED <<inst, client, buf, reader>>
    BY <1>18 DEF BeginSend, readerVars
  <2>2. \A i \in Inst : client[i] # t
    BY <2>1 DEF InstInv
  <2>3. \A u \in Thread : u # t => call'[u] = call[u]
    BY <1>0, <2>1
  <2> QED  BY <2>1, <2>2, <2>3 DEF InstInv
<1>19. CASE PipeStays
  BY <1>19 DEF PipeStays, pipeVars, readerVars, callVars, InstInv
<1> QED
  BY <1>1, <1>3, <1>4, <1>6, <1>7, <1>8, <1>9, <1>10, <1>11, <1>12, <1>13, <1>14, <1>15, <1>16,
     <1>17, <1>18, <1>19, Moves DEF PipeMove

\* The invariant of the pipe and the hook, without the uniqueness of messages.
Inv == TypeOK /\ IdInv /\ NoInstanceLeak /\ InstInv /\ InitInv /\ HookInv

LEMMA Invariant == Spec => []Inv
<1>1. Init => Inv
  BY PipeInitTypes, DllInit, InstInit DEF Inv, TypeOK, DllInv
<1>2. Inv /\ [Next]_vars => Inv'
  BY TypeStep, IdStep, LeakStep, InstStep, DllStep DEF Inv, TypeOK, DllInv
<1> QED  BY <1>1, <1>2, PTL DEF Spec

\* Types of the variables of the pipe, of its clients and of the hook DLL.
THEOREM HookTypes == Spec => []TypeOK
BY Invariant, PTL DEF Inv

\* No pipe instance is leaked: each is the server loop's own or served by a reader,
\* through refused clients, readers that leave and restarts of the agent.
THEOREM InstancesAccounted == Spec => []NoInstanceLeak
BY Invariant, PTL DEF Inv

\* However many threads run InitThread and in whatever order, MinHook is initialised and
\* the function patched at most once.
THEOREM InitializedOnce == Spec => []InitOnce
BY Invariant, PTL DEF Inv, InitInv

\* Every hooked call reaches the real function.
THEOREM HooksFallThrough == Spec => []HookFallsThrough
BY Invariant, PTL DEF Inv, HookInv

\* A message is discarded while the agent runs in two situations only: its size is
\* wrong, or its client has come and gone before ConnectNamedPipe was called.
THEOREM OnlyBeforeConnect == Spec => LostOnlyBeforeConnect
<1>1. Inv /\ [Next]_vars => [\A m \in dropped' \ dropped :
        up' => \/ \E i \in Inst : buf[i] # <<>> /\ Head(buf[i])[1] = m /\ Head(buf[i])[2] # "event"
               \/ spc = "connect" /\ client[cur] = "gone" /\ m \in Ids(buf[cur])]_vars
  <2> SUFFICES ASSUME Inv, [Next]_vars, NEW m \in dropped' \ dropped, up'
               PROVE  \/ \E i \in Inst : buf[i] # <<>> /\ Head(buf[i])[1] = m /\ Head(buf[i])[2] # "event"
                      \/ spc = "connect" /\ client[cur] = "gone" /\ m \in Ids(buf[cur])
    OBVIOUS
  <2>1. CASE GiveUp
    BY <2>1 DEF GiveUp, CloseServerEnd
  <2>2. ASSUME NEW i \in Inst, ReadFile(i)
        PROVE  buf[i] # <<>> /\ Head(buf[i])[1] = m /\ Head(buf[i])[2] # "event"
    BY <2>2 DEF ReadFile
  <2>3. ASSUME NEW i \in Inst, Leave(i) PROVE FALSE
    <3>1. buf[i] = <<>>
      BY <2>3 DEF Leave, Inv, InstInv
    <3>2. m \notin Ids(buf[i])
      BY <3>1, IdsAre
    <3> QED  BY <2>3, <3>2 DEF Leave, CloseServerEnd
  <2>4. ~AgentExit
    BY DEF AgentExit
  <2>5. CASE UNCHANGED dropped
    BY <2>5
  <2>6. \/ GiveUp \/ (\E i \in Inst : ReadFile(i) \/ Leave(i)) \/ AgentExit \/ UNCHANGED dropped
    <3>1. ASSUME PipeMove
          PROVE  GiveUp \/ (\E i \in Inst : ReadFile(i) \/ Leave(i)) \/ AgentExit \/ UNCHANGED dropped
      BY <3>1 DEF PipeMove, CreateNamedPipe, Serve, StartReader, Wait, Receive, Start, ReadError, Push,
         OpenFail, WriteFile, CloseHandle, OpenOk
    <3>2. ASSUME NEW t \in Thread, NEW s \in Sizes, BeginSend(t, s) PROVE UNCHANGED dropped
      BY <3>2 DEF BeginSend
    <3>3. PipeStays => UNCHANGED dropped
      BY DEF PipeStays, pipeVars
    <3> QED  BY <3>1, <3>2, <3>3, Moves DEF Inv
  <2> QED  BY <2>1, <2>2, <2>3, <2>4, <2>5, <2>6
<1> QED  BY <1>1, Invariant, PTL DEF LostOnlyBeforeConnect, Spec

-----------------------------------------------------------------------------
(* A message is in one place *)

\* m is not in any instance, with any reader or in EventChannel.
Absent(m) ==
  /\ \A i \in Inst : \A k \in DOMAIN buf[i] : buf[i][k][1] # m
  /\ \A i \in Inst : hand[i][1] # m
  /\ \A k \in DOMAIN ch : ch[k][1] # m

\* m has not been written to the pipe yet.
Fresh(m) == Absent(m) /\ m \notin dropped /\ taken[m] = 0

\* No message is in two places.
UniqInv ==
  /\ \A i, j \in Inst : \A k \in DOMAIN buf[i], l \in DOMAIN buf[j] : buf[i][k][1] = buf[j][l][1] => i = j
  /\ \A i, j \in Inst : hand[i][1] = hand[j][1] /\ hand[i][1] # 0 => i = j
  /\ \A k, l \in DOMAIN ch : ch[k][1] = ch[l][1] => k = l
  /\ \A i, j \in Inst : \A k \in DOMAIN buf[i] : buf[i][k][1] # hand[j][1]
  /\ \A i \in Inst : \A k \in DOMAIN buf[i], l \in DOMAIN ch : buf[i][k][1] # ch[l][1]
  /\ \A i \in Inst, l \in DOMAIN ch : hand[i][1] # ch[l][1]

\* The message of a call that has not written it yet is fresh, and no other call's.
FreshInv ==
  /\ \A t \in Thread : call[t] \in {"open", "write"} => Fresh(msg[t][1])
  /\ \A t, u \in Thread : call[t] # "idle" /\ call[u] # "idle" /\ msg[t][1] = msg[u][1] => t = u

\* What the moves do to the places.  Most take messages away, to dropped, or nothing.
Shrink ==
  /\ \A j \in Inst : \A k \in DOMAIN buf'[j] : k \in DOMAIN buf[j] /\ buf'[j][k] = buf[j][k]
  /\ \A j \in Inst : hand'[j][1] = hand[j][1] \/ hand'[j][1] = 0
  /\ \A k \in DOMAIN ch' : k \in DOMAIN ch /\ ch'[k] = ch[k]
  /\ \A m \in dropped' : m \in dropped \/ (m \in InPipe /\ m \notin InPipe')
  /\ \A m \in InPipe : m \in InPipe' \/ m \in dropped'
  /\ dropped \subseteq dropped' /\ UNCHANGED taken

\* The other four, element by element.
Received ==
  /\ UNCHANGED <<buf, hand, dropped>> /\ ch # <<>> /\ 1 \in DOMAIN ch
  /\ \A k \in DOMAIN ch' : k \in Nat \ {0} /\ k + 1 \in DOMAIN ch /\ ch'[k] = ch[k + 1]
  /\ \A k \in DOMAIN ch : k = 1 \/ (k - 1 \in DOMAIN ch' /\ ch'[k - 1] = ch[k])
  /\ taken' = [taken EXCEPT ![ch[1][1]] = @ + 1]

TakenBy(i) ==
  /\ 1 \in DOMAIN buf[i] /\ DOMAIN buf'[i] = {} /\ hand'[i] = buf[i][1] /\ hand[i][1] = 0
  /\ \A k \in DOMAIN buf[i] : k = 1
  /\ \A j \in Inst : j # i => buf'[j] = buf[j] /\ hand'[j] = hand[j]
  /\ UNCHANGED <<ch, dropped, taken>>

PushedBy(i) ==
  /\ hand'[i][1] = 0 /\ hand[i][1] # 0 /\ \A j \in Inst : j # i => hand'[j] = hand[j]
  /\ \A k \in DOMAIN ch : k \in DOMAIN ch' /\ ch'[k] = ch[k]
  /\ \E n \in DOMAIN ch' : ch'[n] = hand[i] /\ \A k \in DOMAIN ch' : k = n \/ k \in DOMAIN ch
  /\ UNCHANGED <<buf, dropped, taken>>

WrittenBy(t) ==
  /\ call[t] = "write"
  /\ \A i \in Inst : client[i] = t => DOMAIN buf[i] = {} /\ DOMAIN buf'[i] = {1} /\ buf'[i][1] = msg[t]
  /\ \A i \in Inst : client[i] # t => buf'[i] = buf[i]
  /\ UNCHANGED <<hand, ch, dropped, taken>>

LEMMA PlaceMoves ==
  ASSUME Inv, UniqInv, [Next]_vars
  PROVE  \/ Shrink \/ Received \/ \E i \in Inst : TakenBy(i) \/ PushedBy(i)
         \/ \E t \in Thread : WriteFile(t) /\ WrittenBy(t)
<1> USE DEF Inv
<1>0. /\ hand \in [Inst -> Msg] /\ buf \in [Inst -> Seq(Msg)] /\ ch \in Seq(Msg) /\ cur \in Inst \cup {0}
      /\ reader \in [Inst -> {"none", "read", "send", "leave"}]
  BY DEF TypeOK, PipeType
\* Messages in a buffer are in that buffer only.
<1>sole. ASSUME NEW i \in Inst, NEW k \in DOMAIN buf[i]
         PROVE  /\ \A j \in Inst : j # i => \A l \in DOMAIN buf[j] : buf[j][l][1] # buf[i][k][1]
                /\ \A j \in Inst : hand[j][1] # buf[i][k][1]
                /\ \A l \in DOMAIN ch : ch[l][1] # buf[i][k][1]
  BY DEF UniqInv
<1>1. ASSUME UNCHANGED <<buf, hand, ch, dropped, taken>> PROVE Shrink
  <2>1. \A m : m \in InPipe <=> m \in InPipe'
    BY <1>1 DEF InPipe
  <2> QED  BY <1>1, <2>1 DEF Shrink
<1>2. ASSUME NEW i \in Inst, CloseServerEnd(i), UNCHANGED <<hand, ch, taken>> PROVE Shrink
  <2>1. \A j \in Inst : \A k \in DOMAIN buf'[j] : k \in DOMAIN buf[j] /\ buf'[j][k] = buf[j][k]
    BY <1>0, <1>2 DEF CloseServerEnd
  <2>2. DOMAIN buf'[i] = {} /\ \A j \in Inst : j # i => buf'[j] = buf[j]
    BY <1>0, <1>2 DEF CloseServerEnd
  <2>3. \A m \in Ids(buf[i]) : m \in InPipe /\ m \notin InPipe'
    BY <1>2, <1>sole, <2>2, IdsAre, InPipeIs
  <2>4. \A m \in InPipe : m \in InPipe' \/ m \in Ids(buf[i])
    BY <1>2, <2>2, IdsAre, InPipeIs
  <2> QED  BY <1>2, <2>1, <2>3, <2>4 DEF Shrink, CloseServerEnd
<1>3. CASE GiveUp
  <2>1. cur \in Inst /\ CloseServerEnd(cur) /\ UNCHANGED <<hand, ch, taken>>
    BY <1>0, <1>3 DEF GiveUp, readerVars, NoInstanceLeak
  <2> QED  BY <1>2, <2>1
<1>4. ASSUME NEW i \in Inst, Leave(i) PROVE Shrink
  BY <1>2, <1>4 DEF Leave
<1>5. CASE Receive
  <2>1. /\ ch # <<>> /\ ch' = Tail(ch) /\ UNCHANGED <<buf, hand, dropped>>
        /\ taken' = [taken EXCEPT ![Head(ch)[1]] = @ + 1]
    BY <1>5 DEF Receive, readerVars
  <2>2. /\ \A k \in DOMAIN ch' : k \in Nat \ {0} /\ k + 1 \in DOMAIN ch /\ ch'[k] = ch[k + 1]
        /\ \A k \in DOMAIN ch : k = 1 \/ (k - 1 \in DOMAIN ch' /\ ch'[k - 1] = ch[k])
        /\ 1 \in DOMAIN ch /\ Head(ch) = ch[1]
    BY <1>0, <2>1
  <2> QED  BY <2>1, <2>2 DEF Received
<1>6. CASE AgentExit
  <2>1. /\ \A j \in Inst : buf'[j] = <<>> /\ hand'[j] = NoMsg
        /\ ch' = <<>> /\ dropped' = dropped \cup InPipe /\ UNCHANGED taken
    BY <1>6 DEF AgentExit
  <2>2. /\ \A j \in Inst : DOMAIN buf'[j] = {} /\ hand'[j][1] = 0
        /\ DOMAIN ch' = {}
    BY <2>1, MsgType
  <2>3. \A m : m \notin InPipe'
    BY <2>2, InPipeIs
  <2> QED  BY <2>1, <2>2, <2>3 DEF Shrink
<1>7. ASSUME NEW i \in Inst, ReadFile(i) PROVE Shrink \/ TakenBy(i)
  <2>1. /\ Head(buf[i]) = buf[i][1] /\ 1 \in DOMAIN buf[i] /\ buf[i] # <<>> /\ reader[i] = "read"
    BY <1>7, Heads DEF ReadFile, TypeOK
  <2>2. buf' = [buf EXCEPT ![i] = Tail(buf[i])] /\ UNCHANGED <<ch, taken>>
    BY <1>7 DEF ReadFile
  <2>3. /\ DOMAIN buf'[i] = {} /\ (\A k \in DOMAIN buf[i] : k = 1)
        /\ \A j \in Inst : j # i => buf'[j] = buf[j]
    <3>1. buf[i] \in Seq(Msg) /\ Len(buf[i]) <= 1
      BY <1>0 DEF InstInv
    <3>2. Tail(buf[i]) = <<>> /\ \A k \in DOMAIN buf[i] : k = 1
      BY <2>1, <3>1
    <3> QED  BY <1>0, <2>2, <3>2
  <2>4. CASE buf[i][1][2] = "event"
    <3>1. hand' = [hand EXCEPT ![i] = buf[i][1]] /\ UNCHANGED dropped
      BY <1>7, <2>1, <2>4 DEF ReadFile
    <3>2. hand'[i] = buf[i][1] /\ \A j \in Inst : j # i => hand'[j] = hand[j]
      BY <1>0, <3>1
    <3>3. hand[i][1] = 0
      BY <2>1 DEF IdInv
    <3> QED  BY <2>1, <2>2, <2>3, <3>1, <3>2, <3>3 DEF TakenBy
  <2>5. CASE buf[i][1][2] # "event"
    <3>1. UNCHANGED hand /\ dropped' = dropped \cup {buf[i][1][1]}
      BY <1>7, <2>1, <2>5 DEF ReadFile
    <3>2. buf[i][1][1] \in InPipe /\ buf[i][1][1] \notin InPipe'
      BY <1>sole, <2>1, <2>2, <2>3, <3>1, InPipeIs
    <3>3. \A m \in InPipe : m \in InPipe' \/ m = buf[i][1][1]
      BY <2>2, <2>3, <3>1, InPipeIs
    <3>4. \A j \in Inst : \A k \in DOMAIN buf'[j] : k \in DOMAIN buf[j] /\ buf'[j][k] = buf[j][k]
      BY <2>3
    <3> QED  BY <2>2, <3>1, <3>2, <3>3, <3>4 DEF Shrink
  <2> QED  BY <2>4, <2>5
<1>8. ASSUME NEW i \in Inst, Push(i) PROVE PushedBy(i)
  <2>1. /\ reader[i] = "send" /\ hand' = [hand EXCEPT ![i] = NoMsg] /\ ch' = Append(ch, hand[i])
        /\ UNCHANGED <<buf, dropped, taken>>
    BY <1>8 DEF Push
  <2>2. hand[i] \in Msg /\ hand[i][1] # 0 /\ hand'[i][1] = 0 /\ \A j \in Inst : j # i => hand'[j] = hand[j]
    BY <1>0, <2>1, MsgType DEF IdInv
  <2>3. /\ \A k \in DOMAIN ch : k \in DOMAIN ch' /\ ch'[k] = ch[k]
        /\ Len(ch) + 1 \in DOMAIN ch' /\ ch'[Len(ch) + 1] = hand[i]
        /\ \A k \in DOMAIN ch' : k = Len(ch) + 1 \/ k \in DOMAIN ch
    BY <1>0, <2>1, <2>2
  <2> QED  BY <2>1, <2>2, <2>3 DEF PushedBy
<1>9. ASSUME NEW t \in Thread, WriteFile(t) PROVE WrittenBy(t)
  <2>1. /\ call[t] = "write" /\ UNCHANGED <<hand, ch, dropped, taken>>
        /\ buf' = [i \in Inst |-> IF client[i] = t THEN Append(buf[i], msg[t]) ELSE buf[i]]
    BY <1>9 DEF WriteFile, readerVars
  <2>2. ASSUME NEW i \in Inst, client[i] = t
        PROVE  DOMAIN buf[i] = {} /\ DOMAIN buf'[i] = {1} /\ buf'[i][1] = msg[t]
    <3>1. buf[i] = <<>> /\ msg[t] \in Msg
      BY <2>1, <2>2 DEF InstInv, TypeOK, CallType
    <3>2. buf'[i] = Append(<<>>, msg[t])
      BY <2>1, <2>2, <3>1
    <3>3. buf'[i] = <<msg[t]>>
      BY <3>1, <3>2
    <3> QED  BY <3>1, <3>3
  <2>3. \A i \in Inst : client[i] # t => buf'[i] = buf[i]
    BY <2>1
  <2> QED  BY <2>1, <2>2, <2>3 DEF WrittenBy
<1>10. CASE CreateNamedPipe
  BY <1>1, <1>10 DEF CreateNamedPipe, readerVars
<1>11. CASE Serve
  BY <1>1, <1>11 DEF Serve, StartReader
<1>12. CASE Wait
  BY <1>1, <1>12 DEF Wait, readerVars
<1>13. CASE Start
  BY <1>1, <1>13 DEF Start, readerVars
<1>14. ASSUME NEW i \in Inst, ReadError(i) PROVE Shrink
  BY <1>1, <1>14 DEF ReadError
<1>15. ASSUME NEW t \in Thread, OpenFail(t) \/ CloseHandle(t) PROVE Shrink
  BY <1>1, <1>15 DEF OpenFail, CloseHandle, readerVars
<1>16. ASSUME NEW t \in Thread, NEW i \in Inst, OpenOk(t, i) PROVE Shrink
  BY <1>1, <1>16 DEF OpenOk, readerVars
<1>17. ASSUME NEW t \in Thread, NEW s \in Sizes, BeginSend(t, s) PROVE Shrink
  BY <1>1, <1>17 DEF BeginSend, readerVars
<1>18. CASE PipeStays
  BY <1>1, <1>18 DEF PipeStays, pipeVars, readerVars
<1> QED
  BY <1>3, <1>4, <1>5, <1>6, <1>7, <1>8, <1>9, <1>10, <1>11, <1>12, <1>13, <1>14, <1>15, <1>16,
     <1>17, <1>18, Moves DEF PipeMove

LEMMA FreshKept ==
  ASSUME Inv, UniqInv, [Next]_vars, NEW m \in 1..MaxMsgs, Fresh(m),
         \A t \in Thread : WriteFile(t) => msg[t][1] # m
  PROVE  Fresh(m)'
<1> USE DEF Inv
<1>0. m # 0 /\ taken \in [1..MaxMsgs -> Nat]
  BY Constants DEF TypeOK, CallType
<1>1. m \notin InPipe
  BY InPipeIs DEF Fresh, Absent
<1>2. CASE Shrink
  BY <1>0, <1>1, <1>2 DEF Shrink, Fresh, Absent
<1>3. CASE Received
  <2>1. ch[1][1] # m
    BY <1>3 DEF Received, Fresh, Absent
  <2>2. taken'[m] = taken[m]
    BY <1>0, <1>3, <2>1 DEF Received
  <2> QED  BY <1>3, <2>2 DEF Received, Fresh, Absent
<1>4. ASSUME NEW i \in Inst, TakenBy(i) PROVE Fresh(m)'
  <2>1. \A j \in Inst : \A k \in DOMAIN buf'[j] : buf'[j][k][1] # m
    BY <1>4 DEF TakenBy, Fresh, Absent
  <2>2. \A j \in Inst : hand'[j][1] # m
    BY <1>4 DEF TakenBy, Fresh, Absent
  <2> QED  BY <1>4, <2>1, <2>2 DEF TakenBy, Fresh, Absent
<1>5. ASSUME NEW i \in Inst, PushedBy(i) PROVE Fresh(m)'
  <2>1. \A k \in DOMAIN ch' : ch'[k][1] # m
    BY <1>5 DEF PushedBy, Fresh, Absent
  <2>2. \A j \in Inst : hand'[j][1] # m
    BY <1>0, <1>5 DEF PushedBy, Fresh, Absent
  <2> QED  BY <1>5, <2>1, <2>2 DEF PushedBy, Fresh, Absent
<1>6. ASSUME NEW t \in Thread, WriteFile(t), WrittenBy(t) PROVE Fresh(m)'
  <2>1. \A j \in Inst : \A k \in DOMAIN buf'[j] : buf'[j][k][1] # m
    BY <1>6 DEF WrittenBy, Fresh, Absent
  <2> QED  BY <1>6, <2>1 DEF WrittenBy, Fresh, Absent
<1> QED  BY <1>2, <1>3, <1>4, <1>5, <1>6, PlaceMoves

LEMMA UniqInit == Init => UniqInv /\ FreshInv
<1> SUFFICES ASSUME Init PROVE UniqInv /\ FreshInv
  OBVIOUS
<1>1. /\ \A i \in Inst : buf[i] = <<>> /\ hand[i][1] = 0
      /\ ch = <<>> /\ \A t \in Thread : call[t] = "idle"
  BY MsgType DEF Init, PipeInit
<1>2. (\A i \in Inst : DOMAIN buf[i] = {}) /\ DOMAIN ch = {}
  BY <1>1
<1> QED  BY <1>1, <1>2 DEF UniqInv, FreshInv

LEMMA UniqStep ==
  ASSUME Inv, UniqInv, FreshInv, [Next]_vars PROVE UniqInv'
<1>0. /\ \A i \in Inst : \A k \in DOMAIN buf[i] : buf[i][k][1] # 0
      /\ \A k \in DOMAIN ch : ch[k][1] # 0
  <2>1. msgs \in Nat /\ \A n \in 1..msgs : n # 0
    BY DEF Inv, TypeOK, CallType
  <2> QED  BY <2>1 DEF Inv, IdInv
<1>1. CASE Shrink
  <2>1. \A i, j \in Inst : \A k \in DOMAIN buf'[i], l \in DOMAIN buf'[j] : buf'[i][k][1] = buf'[j][l][1] => i = j
    BY <1>1 DEF Shrink, UniqInv
  <2>2. \A i, j \in Inst : hand'[i][1] = hand'[j][1] /\ hand'[i][1] # 0 => i = j
    BY <1>1 DEF Shrink, UniqInv
  <2>3. \A k, l \in DOMAIN ch' : ch'[k][1] = ch'[l][1] => k = l
    BY <1>1 DEF Shrink, UniqInv
  <2>4. \A i, j \in Inst : \A k \in DOMAIN buf'[i] : buf'[i][k][1] # hand'[j][1]
    BY <1>0, <1>1 DEF Shrink, UniqInv
  <2>5. \A i \in Inst : \A k \in DOMAIN buf'[i], l \in DOMAIN ch' : buf'[i][k][1] # ch'[l][1]
    BY <1>1 DEF Shrink, UniqInv
  <2>6. \A i \in Inst, l \in DOMAIN ch' : hand'[i][1] # ch'[l][1]
    BY <1>0, <1>1 DEF Shrink, UniqInv
  <2> QED  BY <2>1, <2>2, <2>3, <2>4, <2>5, <2>6 DEF UniqInv
<1>2. CASE Received
  <2>1. UNCHANGED <<buf, hand>> /\ \A k \in DOMAIN ch' : k + 1 \in DOMAIN ch /\ ch'[k] = ch[k + 1]
    BY <1>2 DEF Received
  <2>2. \A k \in DOMAIN ch' : k \in Int
    BY <1>2 DEF Received
  <2>3. \A k, l \in DOMAIN ch' : ch'[k][1] = ch'[l][1] => k = l
    <3>1. \A k, l \in DOMAIN ch' : ch'[k][1] = ch'[l][1] => k + 1 = l + 1
      BY <2>1 DEF UniqInv
    <3> QED  BY <2>2, <3>1
  <2>4. \A i \in Inst : \A k \in DOMAIN buf[i], l \in DOMAIN ch' : buf[i][k][1] # ch'[l][1]
    BY <2>1 DEF UniqInv
  <2>5. \A i \in Inst, l \in DOMAIN ch' : hand[i][1] # ch'[l][1]
    BY <2>1 DEF UniqInv
  <2> QED  BY <2>1, <2>3, <2>4, <2>5 DEF UniqInv
<1>3. ASSUME NEW n \in Inst, TakenBy(n) PROVE UniqInv'
  <2>1. /\ \A j \in Inst : \A k \in DOMAIN buf'[j] : j # n /\ k \in DOMAIN buf[j] /\ buf'[j][k] = buf[j][k]
        /\ \A j \in Inst : j # n => hand'[j] = hand[j]
        /\ 1 \in DOMAIN buf[n] /\ hand'[n] = buf[n][1] /\ UNCHANGED ch
    BY <1>3 DEF TakenBy
  <2>2. \A i, j \in Inst : \A k \in DOMAIN buf'[i], l \in DOMAIN buf'[j] : buf'[i][k][1] = buf'[j][l][1] => i = j
    BY <2>1 DEF UniqInv
  <2>3. \A i, j \in Inst : hand'[i][1] = hand'[j][1] /\ hand'[i][1] # 0 => i = j
    BY <2>1 DEF UniqInv
  <2>4. \A i, j \in Inst : \A k \in DOMAIN buf'[i] : buf'[i][k][1] # hand'[j][1]
    BY <2>1 DEF UniqInv
  <2>5. \A i \in Inst : \A k \in DOMAIN buf'[i], l \in DOMAIN ch : buf'[i][k][1] # ch[l][1]
    BY <2>1 DEF UniqInv
  <2>6. \A i \in Inst, l \in DOMAIN ch : hand'[i][1] # ch[l][1]
    BY <2>1 DEF UniqInv
  <2> QED  BY <2>1, <2>2, <2>3, <2>4, <2>5, <2>6 DEF UniqInv
<1>4. ASSUME NEW n \in Inst, PushedBy(n) PROVE UniqInv'
  <2>1. UNCHANGED buf /\ hand'[n][1] = 0 /\ hand[n][1] # 0 /\ \A j \in Inst : j # n => hand'[j] = hand[j]
    BY <1>4 DEF PushedBy
  <2>2. PICK p \in DOMAIN ch' : ch'[p] = hand[n] /\ \A k \in DOMAIN ch' : k = p \/ k \in DOMAIN ch
    BY <1>4 DEF PushedBy
  <2>3. \A k \in DOMAIN ch' : k = p \/ (k \in DOMAIN ch /\ ch'[k] = ch[k])
    BY <1>4, <2>2 DEF PushedBy
  <2>4. \A k, l \in DOMAIN ch' : ch'[k][1] = ch'[l][1] => k = l
    BY <2>2, <2>3 DEF UniqInv
  <2>5. \A i, j \in Inst : hand'[i][1] = hand'[j][1] /\ hand'[i][1] # 0 => i = j
    BY <2>1 DEF UniqInv
  <2>6. \A i, j \in Inst : \A k \in DOMAIN buf[i] : buf[i][k][1] # hand'[j][1]
    BY <1>0, <2>1 DEF UniqInv
  <2>7. \A i \in Inst : \A k \in DOMAIN buf[i], l \in DOMAIN ch' : buf[i][k][1] # ch'[l][1]
    BY <2>2, <2>3 DEF UniqInv
  <2>8. \A i \in Inst, l \in DOMAIN ch' : hand'[i][1] # ch'[l][1]
    BY <1>0, <2>1, <2>2, <2>3 DEF UniqInv
  <2> QED  BY <2>1, <2>4, <2>5, <2>6, <2>7, <2>8 DEF UniqInv
<1>5. ASSUME NEW t \in Thread, WrittenBy(t) PROVE UniqInv'
  <2>1. Absent(msg[t][1])
    BY <1>5 DEF WrittenBy, FreshInv, Fresh
  <2>2. \A i, j \in Inst : client[i] = t /\ client[j] = t => i = j
    BY DEF Inv, InstInv
  <2>3. \A i \in Inst : \A k \in DOMAIN buf'[i] :
          \/ client[i] = t /\ buf'[i][k][1] = msg[t][1]
          \/ client[i] # t /\ k \in DOMAIN buf[i] /\ buf'[i][k] = buf[i][k]
    BY <1>5 DEF WrittenBy
  <2>4. UNCHANGED <<hand, ch>>
    BY <1>5 DEF WrittenBy
  <2>5. \A i, j \in Inst : \A k \in DOMAIN buf'[i], l \in DOMAIN buf'[j] : buf'[i][k][1] = buf'[j][l][1] => i = j
    BY <2>1, <2>2, <2>3 DEF UniqInv, Absent
  <2>6. \A i, j \in Inst : \A k \in DOMAIN buf'[i] : buf'[i][k][1] # hand[j][1]
    BY <2>1, <2>3 DEF UniqInv, Absent
  <2>7. \A i \in Inst : \A k \in DOMAIN buf'[i], l \in DOMAIN ch : buf'[i][k][1] # ch[l][1]
    BY <2>1, <2>3 DEF UniqInv, Absent
  <2> QED  BY <2>4, <2>5, <2>6, <2>7 DEF UniqInv
<1> QED  BY <1>1, <1>2, <1>3, <1>4, <1>5, PlaceMoves

\* The calls in progress after a step were in progress before, with the same message,
\* or have just begun with a new one.
Kept(t) == call[t] # "idle" /\ msg'[t] = msg[t] /\ (call'[t] \in {"open", "write"} => call[t] \in {"open", "write"})

LEMMA CallMoves ==
  ASSUME Inv, [Next]_vars
  PROVE  \/ \A t \in Thread : call'[t] # "idle" => Kept(t)
         \/ \E t \in Thread, s \in Sizes :
              /\ BeginSend(t, s) /\ msg'[t][1] = msgs + 1
              /\ \A u \in Thread : u # t /\ call'[u] # "idle" => Kept(u)
<1>0. /\ call \in [Thread -> {"idle", "open", "write", "close"}]
      /\ msg \in [Thread -> Msg]
  BY DEF Inv, TypeOK, CallType
<1>1. ASSUME UNCHANGED callVars PROVE \A t \in Thread : call'[t] # "idle" => Kept(t)
  BY <1>1 DEF callVars, Kept
<1>2. ASSUME NEW u \in Thread, EndSend(u) PROVE \A t \in Thread : call'[t] # "idle" => Kept(t)
  <2>1. call'[u] = "idle" /\ \A t \in Thread : t # u => call'[t] = call[t] /\ msg'[t] = msg[t]
    BY <1>0, <1>2 DEF EndSend
  <2> QED  BY <2>1 DEF Kept
<1>3. ASSUME NEW u \in Thread, WriteFile(u) PROVE \A t \in Thread : call'[t] # "idle" => Kept(t)
  <2>1. /\ call[u] = "write" /\ call'[u] = "close" /\ UNCHANGED msg
        /\ \A t \in Thread : t # u => call'[t] = call[t]
    BY <1>0, <1>3 DEF WriteFile
  <2> QED  BY <2>1 DEF Kept
<1>4. ASSUME NEW u \in Thread, NEW i \in Inst, OpenOk(u, i)
      PROVE  \A t \in Thread : call'[t] # "idle" => Kept(t)
  <2>1. /\ call[u] = "open" /\ UNCHANGED msg /\ \A t \in Thread : t # u => call'[t] = call[t]
    BY <1>0, <1>4 DEF OpenOk
  <2> QED  BY <2>1 DEF Kept
<1>5. ASSUME NEW t \in Thread, NEW s \in Sizes, BeginSend(t, s)
      PROVE  /\ msg'[t][1] = msgs + 1
             /\ \A u \in Thread : u # t /\ call'[u] # "idle" => Kept(u)
  <2>1. msg' = [msg EXCEPT ![t] = <<msgs + 1, s>>] /\ call' = [call EXCEPT ![t] = "open"]
    BY <1>5 DEF BeginSend
  <2>2. msg'[t] = <<msgs + 1, s>> /\ \A u \in Thread : u # t => call'[u] = call[u] /\ msg'[u] = msg[u]
    BY <1>0, <2>1
  <2> QED  BY <2>2 DEF Kept
<1>6. PipeMove => \/ UNCHANGED callVars
                  \/ \E u \in Thread : EndSend(u) \/ WriteFile(u)
                  \/ \E u \in Thread, i \in Inst : OpenOk(u, i)
  BY DEF PipeMove, CreateNamedPipe, Serve, StartReader, Wait, GiveUp, Receive, AgentExit, Start, ReadFile,
     ReadError, Push, Leave, OpenFail, CloseHandle
<1>7. PipeStays => UNCHANGED callVars
  BY DEF PipeStays, pipeVars
<1>8. CASE PipeMove
  BY <1>1, <1>2, <1>3, <1>4, <1>6, <1>8
<1>9. CASE \E t \in Thread, s \in Sizes : BeginSend(t, s)
  BY <1>5, <1>9
<1>10. CASE PipeStays
  BY <1>1, <1>7, <1>10
<1> QED  BY <1>8, <1>9, <1>10, Moves DEF Inv

LEMMA FreshStep ==
  ASSUME Inv, UniqInv, FreshInv, [Next]_vars PROVE FreshInv'
<1>0. /\ msgs \in Nat /\ msgs <= MaxMsgs /\ MaxMsgs \in Nat /\ 1..msgs \subseteq 1..MaxMsgs
      /\ taken \in [1..MaxMsgs -> Nat]
  <2>1. msgs \in 0..MaxMsgs /\ MaxMsgs \in Nat /\ taken \in [1..MaxMsgs -> Nat]
    BY Constants DEF Inv, TypeOK, CallType
  <2> QED  BY <2>1
<1>1. \A t \in Thread : call[t] # "idle" => msg[t][1] \in 1..msgs
  BY DEF Inv, IdInv
<1>2. ASSUME NEW t \in Thread, Kept(t), call'[t] \in {"open", "write"} PROVE Fresh(msg[t][1])'
  <2>1. PICK m \in 1..MaxMsgs : m = msg[t][1] /\ m = msg'[t][1]
    BY <1>0, <1>1, <1>2 DEF Kept
  <2>2. Fresh(m)
    BY <1>2, <2>1 DEF Kept, FreshInv
  <2>3. ASSUME NEW u \in Thread, WriteFile(u) PROVE msg[u][1] # m
    <3>1. call[u] = "write" /\ call'[u] = "close"
      BY <2>3 DEF WriteFile, Inv, TypeOK, CallType
    <3>2. u # t
      BY <1>2, <3>1
    <3> QED  BY <1>2, <2>1, <3>1, <3>2 DEF Kept, FreshInv
  <2>4. Fresh(m)'
    BY <2>2, <2>3, FreshKept
  <2> QED  BY <2>1, <2>4 DEF Fresh, Absent
<1>3. CASE \A t \in Thread : call'[t] # "idle" => Kept(t)
  <2>1. \A t \in Thread : call'[t] \in {"open", "write"} => Fresh(msg[t][1])'
    BY <1>2, <1>3
  <2>2. \A t, u \in Thread : call'[t] # "idle" /\ call'[u] # "idle" /\ msg'[t][1] = msg'[u][1] => t = u
    BY <1>3 DEF Kept, FreshInv
  <2> QED  BY <2>1, <2>2 DEF FreshInv
<1>4. ASSUME NEW t \in Thread, NEW s \in Sizes, BeginSend(t, s), msg'[t][1] = msgs + 1,
             \A u \in Thread : u # t /\ call'[u] # "idle" => Kept(u)
      PROVE  FreshInv'
  <2>1. msgs + 1 \in 1..MaxMsgs /\ msgs + 1 \notin 0..msgs /\ msgs + 1 \notin 1..msgs
    BY <1>0, <1>4 DEF BeginSend
  <2>2. Absent(msgs + 1) /\ msgs + 1 \notin dropped
    BY <2>1 DEF Inv, IdInv, Absent
  <2>3. taken[msgs + 1] = 0
    <3>1. \A m \in 1..MaxMsgs : taken[m] # 0 => m <= msgs
      BY DEF Inv, IdInv
    <3>2. ~(msgs + 1 <= msgs)
      BY <1>0
    <3> QED  BY <2>1, <3>1, <3>2
  <2>4. UNCHANGED <<buf, hand, ch, dropped, taken>>
    BY <1>4 DEF BeginSend, readerVars
  <2>5. Fresh(msg[t][1])'
    BY <1>4, <2>2, <2>3, <2>4 DEF Fresh, Absent
  <2>6. \A u \in Thread : call'[u] \in {"open", "write"} => Fresh(msg[u][1])'
    BY <1>2, <1>4, <2>5
  <2>7. \A u \in Thread : u # t /\ call'[u] # "idle" => msg'[u][1] # msgs + 1
    BY <1>1, <1>4, <2>1 DEF Kept
  <2>8. \A v, u \in Thread : call'[v] # "idle" /\ call'[u] # "idle" /\ msg'[v][1] = msg'[u][1] => v = u
    BY <1>4, <2>7 DEF Kept, FreshInv
  <2> QED  BY <2>6, <2>8 DEF FreshInv
<1> QED  BY <1>3, <1>4, CallMoves

\* The invariant that the refinement needs.
OnceInv == Inv /\ UniqInv /\ FreshInv

LEMMA OnceInvariant == Spec => []OnceInv
<1>1. Inv /\ UniqInv /\ FreshInv /\ [Next]_vars => UniqInv' /\ FreshInv'
  BY UniqStep, FreshStep
<1> QED  BY <1>1, UniqInit, Invariant, PTL DEF Spec, OnceInv

-----------------------------------------------------------------------------
(* The pipe implements EventStream *)

LEMMA AcceptStep ==
  ASSUME OnceInv, NEW t \in Thread, WrittenBy(t)
  PROVE  (\E e \in 1..MaxMsgs : Stream!Accept(e)) \/ UNCHANGED <<InPipe, taken, dropped>>
<1> USE DEF OnceInv, Inv
<1>1. PICK e \in 1..MaxMsgs : e = msg[t][1]
  <2>1. msg[t][1] \in 1..msgs
    BY DEF WrittenBy, IdInv
  <2>2. msgs \in 0..MaxMsgs /\ MaxMsgs \in Nat
    BY Constants DEF TypeOK, CallType
  <2> QED  BY <2>1, <2>2
<1>2. UNCHANGED <<hand, ch, dropped, taken>>
  BY DEF WrittenBy
<1>3. Fresh(e)
  BY <1>1 DEF WrittenBy, FreshInv
<1>4. e \notin InPipe
  BY <1>3, InPipeIs DEF Fresh, Absent
<1>5. CASE \E i \in Inst : client[i] = t
  <2>1. PICK n \in Inst : client[n] = t
    BY <1>5
  <2>2. DOMAIN buf'[n] = {1} /\ buf'[n][1] = msg[t]
    BY <2>1 DEF WrittenBy
  <2>3. \A i \in Inst : \A k \in DOMAIN buf'[i] :
          buf'[i][k][1] = e \/ (k \in DOMAIN buf[i] /\ buf'[i][k] = buf[i][k])
    BY <1>1 DEF WrittenBy
  <2>4. \A i \in Inst : \A k \in DOMAIN buf[i] : k \in DOMAIN buf'[i] /\ buf'[i][k] = buf[i][k]
    BY DEF WrittenBy
  <2>5. \A m : m \in InPipe' <=> m \in InPipe \/ m = e
    <3>1. e \in InPipe'
      BY <1>1, <2>2, InPipeIs
    <3>2. ASSUME NEW m, m \in InPipe PROVE m \in InPipe'
      BY <1>2, <2>4, <3>2, InPipeIs
    <3>3. ASSUME NEW m, m \in InPipe', m # e PROVE m \in InPipe
      BY <1>2, <2>3, <3>3, InPipeIs
    <3> QED  BY <3>1, <3>2, <3>3
  <2>6. InPipe' = InPipe \cup {e}
    BY <2>5
  <2> QED  BY <1>2, <1>3, <1>4, <2>6 DEF Stream!Accept, Fresh
<1>6. CASE \A i \in Inst : client[i] # t
  <2>1. \A i \in Inst : buf'[i] = buf[i]
    BY <1>6 DEF WrittenBy
  <2>2. \A m : m \in InPipe' <=> m \in InPipe
    BY <1>2, <2>1, InPipeIs
  <2>3. InPipe' = InPipe
    BY <2>2
  <2> QED  BY <1>2, <2>3
<1> QED  BY <1>5, <1>6

LEMMA ForwardStep ==
  ASSUME OnceInv, Received PROVE \E e \in 1..MaxMsgs : Stream!Forward(e)
<1> USE DEF OnceInv, Inv
<1>1. PICK e \in 1..MaxMsgs : e = ch[1][1]
  <2>1. ch[1][1] \in 1..msgs
    BY DEF Received, IdInv
  <2>2. msgs \in 0..MaxMsgs /\ MaxMsgs \in Nat
    BY Constants DEF TypeOK, CallType
  <2> QED  BY <2>1, <2>2
<1>2. e \in InPipe
  BY <1>1, InPipeIs DEF Received
<1>3. e \notin InPipe'
  <2>1. \A k \in DOMAIN ch' : k \in Nat \ {0} /\ k + 1 \in DOMAIN ch /\ ch'[k] = ch[k + 1]
    BY DEF Received
  <2>2. \A k \in DOMAIN ch : ch[k][1] = e => k = 1
    BY <1>1 DEF Received, UniqInv
  <2>3. ASSUME NEW k \in DOMAIN ch', ch'[k][1] = e PROVE FALSE
    <3>1. k + 1 = 1
      BY <2>1, <2>2, <2>3
    <3> QED  BY <2>1, <3>1
  <2>4. (\A i \in Inst : \A k \in DOMAIN buf[i] : buf[i][k][1] # e) /\ \A i \in Inst : hand[i][1] # e
    BY <1>1 DEF Received, UniqInv
  <2> QED  BY <2>3, <2>4, InPipeIs DEF Received
<1>4. ASSUME NEW m, m # e PROVE m \in InPipe' <=> m \in InPipe
  <2>1. ASSUME NEW k \in DOMAIN ch, ch[k][1] = m PROVE \E l \in DOMAIN ch' : ch'[l][1] = m
    BY <1>1, <1>4, <2>1 DEF Received
  <2>2. ASSUME NEW k \in DOMAIN ch', ch'[k][1] = m PROVE \E l \in DOMAIN ch : ch[l][1] = m
    BY <2>2 DEF Received
  <2> QED  BY <2>1, <2>2, InPipeIs DEF Received
<1>5. InPipe' = InPipe \ {e}
  BY <1>3, <1>4
<1>6. taken' = [taken EXCEPT ![e] = @ + 1] /\ UNCHANGED dropped
  BY <1>1 DEF Received
<1> QED  BY <1>2, <1>5, <1>6 DEF Stream!Forward

LEMMA DropStep ==
  ASSUME Shrink
  PROVE  (\E es \in SUBSET InPipe : Stream!Drop(es)) \/ UNCHANGED <<InPipe, taken, dropped>>
<1>1. InPipe' \subseteq InPipe
  <2> SUFFICES ASSUME NEW m, m \in InPipe' PROVE m \in InPipe
    OBVIOUS
  <2>1. \A i \in Inst : \A k \in DOMAIN buf'[i] : buf'[i][k][1] = m => \E l \in DOMAIN buf[i] : buf[i][l][1] = m
    BY DEF Shrink
  <2>2. \A i \in Inst : hand'[i][1] = m /\ m # 0 => hand[i][1] = m
    BY DEF Shrink
  <2>3. \A k \in DOMAIN ch' : ch'[k][1] = m => \E l \in DOMAIN ch : ch[l][1] = m
    BY DEF Shrink
  <2> QED  BY <2>1, <2>2, <2>3, InPipeIs
<1>2. PICK es \in SUBSET InPipe : es = InPipe \ InPipe'
  OBVIOUS
<1>3. InPipe' = InPipe \ es
  BY <1>1, <1>2
<1>4. dropped' = dropped \cup es
  BY <1>2 DEF Shrink
<1>5. UNCHANGED taken
  BY DEF Shrink
<1>6. CASE es = {}
  BY <1>3, <1>4, <1>5, <1>6
<1>7. CASE es # {}
  BY <1>3, <1>4, <1>5, <1>7 DEF Stream!Drop
<1> QED  BY <1>6, <1>7

LEMMA MoveStep ==
  ASSUME OnceInv, NEW n \in Inst, TakenBy(n) \/ PushedBy(n) PROVE UNCHANGED <<InPipe, taken, dropped>>
<1> USE DEF OnceInv, Inv
<1>0. UNCHANGED <<taken, dropped>>
  BY DEF TakenBy, PushedBy
<1>1. \A m : m \in InPipe <=> m \in InPipe'
  <2>1. CASE TakenBy(n)
    <3>0. buf[n][1][1] # 0
      <4>1. msgs \in Nat /\ 0 \notin 1..msgs
        BY DEF TypeOK, CallType
      <4> QED  BY <2>1, <4>1 DEF TakenBy, IdInv
    <3>1. /\ 1 \in DOMAIN buf[n] /\ DOMAIN buf'[n] = {} /\ hand'[n] = buf[n][1] /\ hand[n][1] = 0
          /\ (\A k \in DOMAIN buf[n] : k = 1) /\ UNCHANGED ch
          /\ \A j \in Inst : j # n => buf'[j] = buf[j] /\ hand'[j] = hand[j]
      BY <2>1 DEF TakenBy
    <3>2. ASSUME NEW m, m \in InPipe PROVE m \in InPipe'
      BY <3>0, <3>1, <3>2, InPipeIs
    <3>3. ASSUME NEW m, m \in InPipe' PROVE m \in InPipe
      BY <3>0, <3>1, <3>3, InPipeIs
    <3> QED  BY <3>2, <3>3
  <2>2. CASE PushedBy(n)
    <3>1. PICK p \in DOMAIN ch' : ch'[p] = hand[n] /\ \A k \in DOMAIN ch' : k = p \/ k \in DOMAIN ch
      BY <2>2 DEF PushedBy
    <3>2. /\ \A k \in DOMAIN ch : k \in DOMAIN ch' /\ ch'[k] = ch[k]
          /\ hand'[n][1] = 0 /\ hand[n][1] # 0 /\ (\A j \in Inst : j # n => hand'[j] = hand[j])
          /\ UNCHANGED buf
      BY <2>2 DEF PushedBy
    <3>3. ASSUME NEW m, m \in InPipe PROVE m \in InPipe'
      BY <3>1, <3>2, <3>3, InPipeIs
    <3>4. ASSUME NEW m, m \in InPipe' PROVE m \in InPipe
      BY <3>1, <3>2, <3>4, InPipeIs
    <3> QED  BY <3>3, <3>4
  <2> QED  BY <2>1, <2>2
<1>2. InPipe' = InPipe
  BY <1>1
<1> QED  BY <1>0, <1>2

\* The named pipe implements EventStream: every message that was written is received
\* by eventPump at most once, or discarded, never both, through instances that are
\* reused, readers that outlive their clients and restarts of the agent.
THEOREM PipeImplementsStream == Spec => PipeIsStream
<1>1. Init => Stream!Init
  <2> SUFFICES ASSUME Init PROVE Stream!Init
    OBVIOUS
  <2>1. /\ \A i \in Inst : DOMAIN buf[i] = {} /\ hand[i][1] = 0
        /\ DOMAIN ch = {} /\ taken = [m \in 1..MaxMsgs |-> 0] /\ dropped = {}
    BY MsgType DEF Init, PipeInit
  <2>2. \A m : m \notin InPipe
    BY <2>1, InPipeIs
  <2>3. InPipe = {}
    BY <2>2
  <2> QED  BY <2>1, <2>3 DEF Stream!Init
<1>2. OnceInv /\ [Next]_vars => [Stream!Next]_<<InPipe, taken, dropped>>
  <2> SUFFICES ASSUME OnceInv, [Next]_vars
               PROVE  Stream!Next \/ UNCHANGED <<InPipe, taken, dropped>>
    OBVIOUS
  <2>1. \/ Shrink \/ Received \/ \E i \in Inst : TakenBy(i) \/ PushedBy(i)
        \/ \E t \in Thread : WrittenBy(t)
    BY PlaceMoves DEF OnceInv
  <2> QED  BY <2>1, AcceptStep, ForwardStep, DropStep, MoveStep DEF Stream!Next
<1> QED  BY <1>1, <1>2, OnceInvariant, PTL DEF Spec, PipeIsStream, Stream!Spec

============================================================================
