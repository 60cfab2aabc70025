--------------------------- MODULE HydraWSServer ---------------------------
(***************************************************************************)
(* The backend (MedusaBackend/WSServer.go, Main.go): one handler goroutine *)
(* per WebSocket connection, the map conns of registered connections under *)
(* the RWMutex mu, the broadcaster that writes each command to every       *)
(* registered connection, the bounded channels Recv and SendText, the      *)
(* consumer that prints events and the loop that queues commands.          *)
(*                                                                         *)
(* The broadcaster holds mu for reading while it writes to the network, so *)
(* its lock is state here; every writer section is short and is one step.  *)
(* net/http, gorilla/websocket and the agents are external.                *)
(***************************************************************************)
EXTENDS Integers, Sequences, FiniteSets

CONSTANTS
  Conn,        \* connections agents may open, each once
  RecvCap,     \* capacity of Recv (1024 in Main.go)
  SendCap,     \* capacity of SendText (1024 in Main.go)
  MaxFrames,   \* bound: event frames an agent sends on one connection
  CloseCalled  \* whether Close is ever called (Main's endless loop never gets there)

ASSUME ServerAssumption ==
  /\ RecvCap \in Nat \ {0}
  /\ SendCap \in Nat \ {0}
  /\ MaxFrames \in Nat
  /\ CloseCalled \in BOOLEAN

NoConn == "no conn"

VARIABLES
  conns,      \* h.conns: the registered connections
  rlock,      \* the broadcaster holds mu for reading
  hpc,        \* program counter of each connection's handler
  frames,     \* event frames each handler has read so far
  closed,     \* connections on which the server has called Close
  broken,     \* connections the agent or the network has broken
  recv,       \* h.Recv: <<connection, frame number>>
  recvClosed, \* close(h.Recv) has happened
  printed,    \* history: what the consumer has taken from Recv
  sendText,   \* number of commands in h.SendText
  bc,         \* program counter of the broadcaster
  cur,        \* the connection the broadcaster is writing to
  start,      \* the connections registered when this broadcast began
  visited,    \* the connections this iteration over the map has produced
  told,       \* history: the connections this command was written to without an error
  ctxDone,    \* h.ctx is cancelled
  listening,  \* ListenAndServe accepts connections
  panicked    \* the process died of a send on a closed channel

hVars  == <<conns, hpc, frames, closed>>
evVars == <<recv, recvClosed, printed>>
bcVars == <<rlock, bc, cur, start, visited, told>>
srVars == <<ctxDone, listening, panicked>>
vars == <<hVars, broken, evVars, sendText, bcVars, srVars>>

-----------------------------------------------------------------------------
Init ==
  /\ conns = {} /\ closed = {} /\ broken = {}
  /\ hpc = [c \in Conn |-> "none"] /\ frames = [c \in Conn |-> 0]
  /\ recv = <<>> /\ recvClosed = FALSE /\ printed = <<>>
  /\ sendText = 0
  /\ rlock = FALSE /\ bc = "idle" /\ cur = NoConn /\ start = {} /\ visited = {} /\ told = {}
  /\ ctxDone = FALSE /\ listening = TRUE /\ panicked = FALSE

HGoto(c, label) == hpc' = [hpc EXCEPT ![c] = label]

-----------------------------------------------------------------------------
(* handleWS *)

Upgrade(c) ==
  /\ hpc[c] = "none"
  /\ listening
  /\ HGoto(c, "upgraded")
  /\ UNCHANGED <<conns, frames, closed, broken, evVars, sendText, bcVars, srVars>>

\* h.mu.Lock(); h.conns[conn] = struct{}{}; h.mu.Unlock()
Register(c) ==
  /\ hpc[c] = "upgraded"
  /\ ~rlock
  /\ conns' = conns \cup {c}
  /\ HGoto(c, "reading")
  /\ UNCHANGED <<frames, closed, broken, evVars, sendText, bcVars, srVars>>

\* ReadMessage returns a binary frame of sizeof(ACEvent) bytes.  Frames of another
\* type or size are skipped and change nothing.
ReadEvent(c) ==
  /\ hpc[c] = "reading"
  /\ frames[c] < MaxFrames
  /\ frames' = [frames EXCEPT ![c] = @ + 1]
  /\ HGoto(c, "pushing")
  /\ UNCHANGED <<conns, closed, broken, evVars, sendText, bcVars, srVars>>

\* Mutant: the handler continues after an error.
AfterError_Continue == "reading"

AfterError == "leaving"

\* ReadMessage fails: the connection is gone, the broadcaster closed it, or no
\* pong renewed the read deadline in time.
ReadErr(c) ==
  /\ hpc[c] = "reading"
  /\ HGoto(c, AfterError)
  /\ UNCHANGED <<conns, frames, closed, broken, evVars, sendText, bcVars, srVars>>

\* Mutant: the newest event is delivered first.
Enqueued_Front(e) == <<e>> \o recv

Enqueued(e) == Append(recv, e)

\* case h.Recv <- ev
Push(c) ==
  /\ hpc[c] = "pushing"
  /\ ~recvClosed
  /\ Len(recv) < RecvCap
  /\ recv' = Enqueued(<<c, frames[c]>>)
  /\ HGoto(c, "reading")
  /\ UNCHANGED <<conns, frames, closed, broken, recvClosed, printed, sendText, bcVars, srVars>>

\* case <-h.ctx.Done(): the event is dropped.
PushCtxDone(c) ==
  /\ hpc[c] = "pushing"
  /\ ctxDone
  /\ HGoto(c, "leaving")
  /\ UNCHANGED <<conns, frames, closed, broken, evVars, sendText, bcVars, srVars>>

\* The select may also choose the send on the channel that Close has closed.
PushPanic(c) ==
  /\ hpc[c] = "pushing"
  /\ recvClosed
  /\ panicked' = TRUE
  /\ UNCHANGED <<hVars, broken, evVars, sendText, bcVars, ctxDone, listening>>

\* Mutant: the entry stays in the map.
Delete_Not(c) == UNCHANGED conns

\* delete(h.conns, c): no effect if the other side was faster.
Delete(c) == conns' = conns \ {c}

\* Deferred: h.mu.Lock(); delete(h.conns, conn); h.mu.Unlock() ...
Unregister(c) ==
  /\ hpc[c] = "leaving"
  /\ ~rlock
  /\ Delete(c)
  /\ HGoto(c, "closing")
  /\ UNCHANGED <<frames, closed, broken, evVars, sendText, bcVars, srVars>>

\* ... and only then conn.Close().
CloseConn(c) ==
  /\ hpc[c] = "closing"
  /\ closed' = closed \cup {c}
  /\ HGoto(c, "gone")
  /\ UNCHANGED <<conns, frames, broken, evVars, sendText, bcVars, srVars>>

-----------------------------------------------------------------------------
(* The broadcaster *)

\* cmd := <-h.SendText; h.mu.RLock(); the range loop begins.
BcTake ==
  /\ bc = "idle"
  /\ sendText > 0
  /\ sendText' = sendText - 1
  /\ rlock' = TRUE
  /\ start' = conns
  /\ bc' = "iter"
  /\ UNCHANGED <<hVars, broken, evVars, cur, visited, told, srVars>>

\* Mutant: the iteration starts over after each connection.
Produced_Forgotten(c) == visited

Produced(c) == visited \cup {c}

\* range over a map produces each entry still present once; an entry added while
\* the lock was released may or may not be produced.
BcPick(c) ==
  /\ bc = "iter"
  /\ c \in conns \ visited
  /\ cur' = c
  /\ visited' = Produced(c)
  /\ bc' = "write"
  /\ UNCHANGED <<hVars, broken, evVars, sendText, rlock, start, told, srVars>>

BcWriteOk ==
  /\ bc = "write"
  /\ cur \notin closed
  /\ told' = told \cup {cur}
  /\ cur' = NoConn
  /\ bc' = "iter"
  /\ UNCHANGED <<hVars, broken, evVars, sendText, rlock, start, visited, srVars>>

\* The write fails: c.Close(); h.mu.RUnlock().
BcWriteErr ==
  /\ bc = "write"
  /\ cur \in broken \cup closed
  /\ closed' = closed \cup {cur}
  /\ rlock' = FALSE
  /\ bc' = "drop"
  /\ UNCHANGED <<conns, hpc, frames, broken, evVars, sendText, cur, start, visited, told, srVars>>

\* h.mu.Lock(); delete(h.conns, c); h.mu.Unlock()
BcDrop ==
  /\ bc = "drop"
  /\ ~rlock
  /\ Delete(cur)
  /\ bc' = "relock"
  /\ UNCHANGED <<hpc, frames, closed, broken, evVars, sendText, rlock, cur, start, visited, told, srVars>>

\* Mutant: the broadcaster leaves the range after it has changed the map.
AfterDrop_Break == "idle"

AfterDrop == "iter"

\* Mutant: the iteration goes on without the read lock.
Relocked_Not == FALSE

Relocked == TRUE

\* h.mu.RLock(): the iteration goes on.
BcRelock ==
  /\ bc = "relock"
  /\ rlock' = Relocked
  /\ cur' = NoConn
  /\ bc' = AfterDrop
  /\ UNCHANGED <<hVars, broken, evVars, sendText, start, visited, told, srVars>>

\* What Go promises of a range over a map: it ends when every entry that was there
\* all along has been produced.
Exhausted == start \cap conns \subseteq visited

BcEnd ==
  /\ bc = "iter"
  /\ Exhausted
  /\ rlock' = FALSE
  /\ start' = {} /\ visited' = {} /\ told' = {}
  /\ bc' = "idle"
  /\ UNCHANGED <<hVars, broken, evVars, sendText, cur, srVars>>

\* The ticker: pings every connection under RLock and ignores errors.
BcPing ==
  /\ bc = "idle"
  /\ rlock' = TRUE
  /\ bc' = "ping"
  /\ UNCHANGED <<hVars, broken, evVars, sendText, cur, start, visited, told, srVars>>

BcPingEnd ==
  /\ bc = "ping"
  /\ rlock' = FALSE
  /\ bc' = "idle"
  /\ UNCHANGED <<hVars, broken, evVars, sendText, cur, start, visited, told, srVars>>

BcExit ==
  /\ bc = "idle"
  /\ ctxDone
  /\ bc' = "done"
  /\ UNCHANGED <<hVars, broken, evVars, sendText, rlock, cur, start, visited, told, srVars>>

-----------------------------------------------------------------------------
(* Main.go, Close and the environment *)

\* Mutant: one command too many.
RoomForCmd_OffByOne == sendText <= SendCap

RoomForCmd == sendText < SendCap

\* The endless loop of main: s.SendText <- "scanDLL".
MainSend ==
  /\ RoomForCmd
  /\ sendText' = sendText + 1
  /\ UNCHANGED <<hVars, broken, evVars, bcVars, srVars>>

\* for ev := range s.Recv
Consume ==
  /\ recv # <<>>
  /\ printed' = Append(printed, Head(recv))
  /\ recv' = Tail(recv)
  /\ UNCHANGED <<hVars, broken, recvClosed, sendText, bcVars, srVars>>

\* ListenAndServe returns an error: h.cancel().
ListenFails ==
  /\ listening
  /\ listening' = FALSE
  /\ ctxDone' = TRUE
  /\ UNCHANGED <<hVars, broken, evVars, sendText, bcVars, panicked>>

\* h.cancel(); srv.Shutdown stops the listener and leaves hijacked connections alone.
CloseCancel ==
  /\ CloseCalled
  /\ ~ctxDone
  /\ ctxDone' = TRUE
  /\ listening' = FALSE
  /\ UNCHANGED <<hVars, broken, evVars, sendText, bcVars, panicked>>

\* close(h.Recv), with handlers possibly still running.
CloseRecv ==
  /\ CloseCalled
  /\ ctxDone
  /\ ~recvClosed
  /\ recvClosed' = TRUE
  /\ UNCHANGED <<hVars, broken, recv, printed, sendText, bcVars, srVars>>

Break(c) ==
  /\ hpc[c] # "none"
  /\ c \notin broken
  /\ broken' = broken \cup {c}
  /\ UNCHANGED <<hVars, evVars, sendText, bcVars, srVars>>

-----------------------------------------------------------------------------
Handler(c) == \/ Upgrade(c) \/ Register(c) \/ ReadEvent(c) \/ ReadErr(c) \/ Push(c)
              \/ PushCtxDone(c) \/ PushPanic(c) \/ Unregister(c) \/ CloseConn(c)
Broadcaster == \/ BcTake \/ BcWriteOk \/ BcWriteErr \/ BcDrop \/ BcRelock
               \/ BcEnd \/ BcPing \/ BcPingEnd \/ BcExit

Step ==
  \/ \E c \in Conn : Handler(c) \/ BcPick(c) \/ Break(c)
  \/ Broadcaster
  \/ MainSend \/ Consume
  \/ ListenFails \/ CloseCancel \/ CloseRecv

\* A process that panicked has stopped.  So has main when nobody takes commands
\* from the full SendText any more.
Stopped ==
  /\ panicked \/ (bc = "done" /\ sendText = SendCap)
  /\ UNCHANGED vars

Next == (~panicked /\ Step) \/ Stopped

Spec == Init /\ [][Next]_vars

\* What handler c does of its own accord: its agent need not send anything, and
\* a read on a connection that is not dead need not return.
HandlerRuns(c) ==
  \/ Register(c) \/ Unregister(c) \/ CloseConn(c)
  \/ Push(c) \/ PushCtxDone(c) \/ PushPanic(c)
  \/ c \in broken \cup closed /\ ReadErr(c)

\* Every runnable goroutine runs.  A waiting writer of an RWMutex is served before
\* new readers, a blocked channel send is served in turn, and a select does not
\* ignore a ready command for ever: strong fairness for those.  A read on a dead
\* connection returns.  Nothing is assumed of agents, faults, deadlines or Close.
Fairness ==
  /\ \A c \in Conn : SF_vars(~panicked /\ HandlerRuns(c))
  /\ WF_vars(~panicked /\ Consume)
  /\ SF_vars(~panicked /\ BcTake)
  /\ WF_vars(~panicked /\ (\/ \E c \in Conn : BcPick(c)
                           \/ BcWriteOk \/ BcWriteErr \/ BcDrop \/ BcRelock
                           \/ BcEnd \/ BcPingEnd))

FairSpec == Spec /\ Fairness

-----------------------------------------------------------------------------
(* Properties *)

HandlerPc == {"none", "upgraded", "reading", "pushing", "leaving", "closing", "gone"}
BcPc == {"idle", "iter", "write", "drop", "relock", "ping", "done"}
Broadcasting == {"iter", "write", "drop", "relock"}

\* Types of all variables.
TypeOK ==
  /\ conns \in SUBSET Conn /\ closed \in SUBSET Conn /\ broken \in SUBSET Conn
  /\ start \in SUBSET Conn /\ visited \in SUBSET Conn /\ told \in SUBSET Conn
  /\ hpc \in [Conn -> HandlerPc] /\ frames \in [Conn -> Nat]
  /\ recv \in Seq(Conn \X Nat) /\ printed \in Seq(Conn \X Nat)
  /\ sendText \in 0..SendCap
  /\ bc \in BcPc /\ cur \in Conn \cup {NoConn} /\ (bc = "write" => cur \in Conn)
  /\ rlock \in BOOLEAN /\ recvClosed \in BOOLEAN /\ ctxDone \in BOOLEAN
  /\ listening \in BOOLEAN /\ panicked \in BOOLEAN

\* conns never keeps a connection whose handler has deregistered it, although
\* handlers and the broadcaster both delete entries and either may come first.
RegisteredIsServed == \A c \in conns : hpc[c] \in {"reading", "pushing", "leaving"}

\* While the broadcaster writes to a connection the connection is registered and
\* its handler has not closed it, although the broadcaster gives up its read lock
\* in the middle of the iteration to delete an entry: it has the lock back when it
\* goes on, and the handler's deferred cleanup takes the lock before it closes.
WriteToRegistered ==
  bc = "write" => cur \in conns /\ hpc[cur] \notin {"closing", "gone"}

\* However the broadcaster leaves the loop over the map: every connection that was
\* registered when the command was taken and still is has got the command and is not
\* closed.  One whose write failed is out of the map, and costs nobody else the
\* command, although the loop gives up its lock and changes the map in the middle.
BroadcastComplete ==
  [][(bc \in Broadcasting /\ bc' \notin Broadcasting) =>
       \A c \in start \cap conns' : c \in told /\ c \notin closed]_vars

\* What handler c has read and not yet handed to Recv.
InHand(c) == IF hpc[c] = "pushing" THEN 1 ELSE 0

\* Everything that was ever sent on Recv, and how many of the first n are c's.
Sent == printed \o recv
Count(c, n) == Cardinality({i \in 1..n : Sent[i][1] = c})

\* Each connection's events reach the consumer at most once and in the order they
\* were read, with none left out in between, however the handlers' sends on Recv
\* interleave: the n-th of them is the n-th frame.  As long as the server is not
\* shut down every event has been sent that its handler does not still hold.
EventsInOrder ==
  /\ \A i \in DOMAIN Sent : Sent[i][2] = Count(Sent[i][1], i)
  /\ ~ctxDone => \A c \in Conn : Count(c, Len(Sent)) = frames[c] - InHand(c)

\* A broken connection leaves the map, even while its handler is blocked on a
\* full Recv or waits for the lock a broadcast holds.
BrokenLeaves ==
  \A c \in Conn : (c \in conns /\ c \in broken) ~> (c \notin conns \/ panicked)

\* main is not blocked for ever on a full SendText while the server runs.
CommandsMove == sendText = SendCap ~> (sendText < SendCap \/ ctxDone \/ panicked)
=============================================================================
