----------------------------- MODULE MedusaPipe -----------------------------
(***************************************************************************)
(* The named pipe \\.\pipe\MedusaPipe: the agent's server loop and reader  *)
(* goroutines (MedusaUserlandAgent/IPC.go) and the client procedure that   *)
(* opens, writes once and closes (MedusaDLL/IPC.c).                        *)
(*                                                                         *)
(* The pipe itself is external: an instance can be opened as soon as       *)
(* CreateNamedPipe has made it, a message stays readable after its writer  *)
(* has closed, and the buffer has room for 16 events, so that a client's   *)
(* single write never waits.  The server loop owns one instance at a time  *)
(* and hands it to a new reader; a reader sends into EventChannel and      *)
(* blocks while that is full.  Every message has a number and a size.      *)
(***************************************************************************)
EXTENDS Integers, Sequences, FiniteSets

CONSTANTS
  Thread,    \* threads of other processes that may write to the pipe
  MaxInst,   \* instances that may exist at a time (16 in server)
  Cap,       \* capacity of EventChannel (100 in main.go)
  MaxMsgs,   \* bound: messages offered to the pipe
  MaxExits   \* bound: times the agent process ends

ASSUME PipeAssumption ==
  /\ MaxInst \in Nat \ {0} /\ Cap \in Nat \ {0}
  /\ MaxMsgs \in Nat /\ MaxExits \in Nat
  /\ Thread \cap {"none", "gone"} = {}

Inst  == 1..MaxInst
Sizes == {"event", "wrong", "empty"} \* sizeof(ACEvent), shorter or longer, nothing
NoMsg == <<0, "empty">>

VARIABLES
  up,      \* the agent process runs
  exits,   \* times it has ended
  inst,    \* pipe instances that exist
  client,  \* who has an instance's other end open: "none" yet, a thread, "gone"
  buf,     \* messages written to an instance and not read
  spc,     \* the server loop: "create", "connect", "wait"
  cur,     \* its variable h
  reader,  \* the reader goroutine of an instance: "none", "read", "send", "leave"
  hand,    \* the event a reader holds
  ch,      \* EventChannel
  call,    \* a thread's SendIPCMessageRaw: "idle", "open", "write", "close"
  msg,     \* the message that call is about
  msgs,    \* messages offered so far
  taken,   \* history: how often eventPump received a message
  dropped  \* history: messages written and then discarded

agentVars  == <<up, exits>>
serverVars == <<spc, cur>>
readerVars == <<reader, hand>>
callVars   == <<call, msg, msgs>>
pipeVars == <<agentVars, inst, client, buf, serverVars, readerVars, ch, callVars, taken, dropped>>

PipeInit ==
  /\ up = TRUE /\ exits = 0 /\ inst = {} /\ spc = "create" /\ cur = 0
  /\ client = [i \in Inst |-> "none"] /\ buf = [i \in Inst |-> <<>>]
  /\ reader = [i \in Inst |-> "none"] /\ hand = [i \in Inst |-> NoMsg]
  /\ ch = <<>> /\ msgs = 0
  /\ call = [t \in Thread |-> "idle"] /\ msg = [t \in Thread |-> NoMsg]
  /\ taken = [m \in 1..MaxMsgs |-> 0] /\ dropped = {}

Ids(s) == {s[k][1] : k \in DOMAIN s}

-----------------------------------------------------------------------------
(* server *)

Listening == {i \in inst : client[i] = "none"}

\* CreateNamedPipe; with MaxInst instances it fails and the loop tries again.
CreateNamedPipe ==
  /\ up /\ spc = "create"
  /\ \E i \in Inst \ inst :
       /\ \A j \in Inst \ inst : i <= j
       /\ inst' = inst \cup {i}
       /\ cur' = i
       /\ client' = [client EXCEPT ![i] = "none"]
  /\ spc' = "connect"
  /\ UNCHANGED <<agentVars, buf, readerVars, ch, callVars, taken, dropped>>

\* CloseHandle on the server's end: the instance and what is in it are gone.
CloseServerEnd(i) ==
  /\ inst' = inst \ {i}
  /\ client' = [client EXCEPT ![i] = "none"]
  /\ buf' = [buf EXCEPT ![i] = <<>>]
  /\ dropped' = dropped \cup Ids(buf[i])

\* Mutant: the default branch continues without CloseHandle.
Refuse_NoClose(i) == dropped' = dropped \cup Ids(buf[i]) /\ UNCHANGED <<inst, client, buf>>

\* The default branch: whatever the client had written is discarded.
Refuse(i) == CloseServerEnd(i)

\* go func(ph) { readLoop ... }(h), and on to the next instance.
StartReader ==
  /\ reader' = [reader EXCEPT ![cur] = "read"]
  /\ spc' = "create" /\ cur' = 0
  /\ UNCHANGED <<agentVars, inst, client, buf, hand, ch, callVars, taken, dropped>>

\* ConnectNamedPipe: a client is there (ERROR_PIPE_CONNECTED), nobody has come
\* (ERROR_IO_PENDING), or one has come and gone (ERROR_NO_DATA).
ConnectNamedPipe ==
  /\ spc = "connect"
  /\ \/ client[cur] \in Thread /\ StartReader
     \/ /\ client[cur] = "none"
        /\ spc' = "wait"
        /\ UNCHANGED <<agentVars, inst, client, buf, cur, readerVars, ch, callVars, taken, dropped>>
     \/ /\ client[cur] = "gone"
        /\ Refuse(cur)
        /\ spc' = "create" /\ cur' = 0
        /\ UNCHANGED <<agentVars, readerVars, ch, callVars, taken>>

\* GetOverlappedResult: the client may have written and closed by the time it returns.
GetOverlappedResult ==
  /\ spc = "wait"
  /\ client[cur] # "none"
  /\ StartReader

-----------------------------------------------------------------------------
(* readLoop, drain *)

\* Mutant: the message is looked at and stays in the pipe.
Consumed_Peek(i) == buf[i]

\* What ReadFile leaves in the pipe (drain removes the rest of a long message).
Consumed(i) == Tail(buf[i])

\* Where readLoop goes after a message of this size: a message of the wrong size
\* is skipped, an empty one ends the loop.
AfterRead(size) == CASE size = "event" -> "send" [] size = "empty" -> "leave" [] OTHER -> "read"

ReadFile(i) ==
  /\ reader[i] = "read"
  /\ buf[i] # <<>>
  /\ LET m == Head(buf[i]) IN
     /\ reader' = [reader EXCEPT ![i] = AfterRead(m[2])]
     /\ IF m[2] = "event" THEN hand' = [hand EXCEPT ![i] = m] /\ UNCHANGED dropped
        ELSE dropped' = dropped \cup {m[1]} /\ UNCHANGED hand
  /\ buf' = [buf EXCEPT ![i] = Consumed(i)]
  /\ UNCHANGED <<agentVars, inst, client, serverVars, ch, callVars, taken>>

\* Mutant: the reader leaves as soon as its client has closed.
BrokenPipe_Eager(i) == client[i] = "gone"

\* ERROR_BROKEN_PIPE: the client has closed and nothing is left to read.
BrokenPipe(i) == client[i] = "gone" /\ buf[i] = <<>>

ReadError(i) ==
  /\ reader[i] = "read"
  /\ BrokenPipe(i)
  /\ reader' = [reader EXCEPT ![i] = "leave"]
  /\ UNCHANGED <<agentVars, inst, client, buf, serverVars, hand, ch, callVars, taken, dropped>>

\* Mutant: one event too many.
HasRoom_OffByOne == Len(ch) <= Cap

HasRoom == Len(ch) < Cap

\* EventChannel <- ev blocks while the channel is full.
Push(i) ==
  /\ reader[i] = "send"
  /\ HasRoom
  /\ ch' = Append(ch, hand[i])
  /\ hand' = [hand EXCEPT ![i] = NoMsg]
  /\ reader' = [reader EXCEPT ![i] = "read"]
  /\ UNCHANGED <<agentVars, inst, client, buf, serverVars, callVars, taken, dropped>>

\* FlushFileBuffers, DisconnectNamedPipe, CloseHandle.
Leave(i) ==
  /\ reader[i] = "leave"
  /\ CloseServerEnd(i)
  /\ reader' = [reader EXCEPT ![i] = "none"]
  /\ UNCHANGED <<agentVars, serverVars, hand, ch, callVars, taken>>

\* eventPump receives from EventChannel.
Receive ==
  /\ ch # <<>>
  /\ taken' = [taken EXCEPT ![Head(ch)[1]] = @ + 1]
  /\ ch' = Tail(ch)
  /\ UNCHANGED <<agentVars, inst, client, buf, serverVars, readerVars, callVars, dropped>>

\* Messages written to the pipe that eventPump has not received.
InPipe == (UNION {Ids(buf[i]) : i \in Inst}) \cup ({hand[i][1] : i \in Inst} \ {0}) \cup Ids(ch)

\* The agent process ends (main returns on a bad argument, or it is killed): its
\* handles are closed and everything it held is lost.
AgentExit ==
  /\ up /\ exits < MaxExits
  /\ up' = FALSE /\ exits' = exits + 1
  /\ inst' = {} /\ spc' = "create" /\ cur' = 0 /\ ch' = <<>>
  /\ client' = [i \in Inst |-> "none"] /\ buf' = [i \in Inst |-> <<>>]
  /\ reader' = [i \in Inst |-> "none"] /\ hand' = [i \in Inst |-> NoMsg]
  /\ dropped' = dropped \cup InPipe
  /\ UNCHANGED <<callVars, taken>>

\* main's first call is Start(""), which starts the server loop.
Start ==
  /\ ~up
  /\ up' = TRUE
  /\ UNCHANGED <<exits, inst, client, buf, serverVars, readerVars, ch, callVars, taken, dropped>>

-----------------------------------------------------------------------------
(* SendIPCMessageRaw and SendIPCMessage *)

\* A thread calls it with a message of the given size.
BeginSend(t, size) ==
  /\ call[t] = "idle" /\ msgs < MaxMsgs
  /\ call' = [call EXCEPT ![t] = "open"]
  /\ msgs' = msgs + 1
  /\ msg' = [msg EXCEPT ![t] = <<msgs + 1, size>>]
  /\ UNCHANGED <<agentVars, inst, client, buf, serverVars, readerVars, ch, taken, dropped>>

EndSend(t) ==
  /\ call' = [call EXCEPT ![t] = "idle"]
  /\ msg' = [msg EXCEPT ![t] = NoMsg]

\* CreateFileW takes a listening instance; if there is none, the call returns 0 at
\* once, and nobody tries again.
CreateFile(t) ==
  /\ call[t] = "open"
  /\ \/ Listening = {} /\ EndSend(t) /\ UNCHANGED client
     \/ \E i \in Listening : /\ client' = [client EXCEPT ![i] = t]
                             /\ call' = [call EXCEPT ![t] = "write"]
                             /\ UNCHANGED msg
  /\ UNCHANGED <<agentVars, inst, buf, serverVars, readerVars, ch, msgs, taken, dropped>>

\* WriteFile fails if the server's end has been closed.
WriteFile(t) ==
  /\ call[t] = "write"
  /\ call' = [call EXCEPT ![t] = "close"]
  /\ buf' = [i \in Inst |-> IF client[i] = t THEN Append(buf[i], msg[t]) ELSE buf[i]]
  /\ UNCHANGED <<agentVars, inst, client, serverVars, readerVars, ch, msg, msgs, taken, dropped>>

\* Mutant: the client stays until the agent has passed the event on.
MayClose_Synchronous(t) ==
  call[t] = "close" /\ \A i \in Inst : client[i] = t => buf[i] = <<>> /\ hand[i] = NoMsg

\* The client closes without waiting for anyone.
MayClose(t) == call[t] = "close"

CloseHandle(t) ==
  /\ MayClose(t)
  /\ EndSend(t)
  /\ client' = [i \in Inst |-> IF client[i] = t THEN "gone" ELSE client[i]]
  /\ UNCHANGED <<agentVars, inst, buf, serverVars, readerVars, ch, msgs, taken, dropped>>

SendStep(t) == CreateFile(t) \/ WriteFile(t) \/ CloseHandle(t)
ServerStep  == CreateNamedPipe \/ ConnectNamedPipe \/ GetOverlappedResult
ReaderStep(i) == ReadFile(i) \/ ReadError(i) \/ Push(i) \/ Leave(i)

PipeStep ==
  \/ ServerStep \/ Receive \/ AgentExit \/ Start
  \/ \E i \in Inst : ReaderStep(i)
  \/ \E t \in Thread : SendStep(t)
=============================================================================
