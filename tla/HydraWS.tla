------------------------------ MODULE HydraWS ------------------------------
(***************************************************************************)
(* The agent's WebSocket client (MedusaUserlandAgent/WebSocketWorker.go)   *)
(* together with the bounded EventChannel that feeds it (main.go) and the  *)
(* "scanDLL" callback that feeds the same channel from inside the client's *)
(* own read loop (DLLScanner.go).                                          *)
(*                                                                         *)
(* Goroutines.  eventPump moves events from extCh to sendCh; run dials,    *)
(* stores h.conn, starts one readLoop, writeLoop and pingLoop, waits for   *)
(* the first of them to return, closes the connection and dials again.     *)
(* run does NOT wait for the other two loops: they are left behind and     *)
(* keep using whatever connection they captured.  The k-th successful dial *)
(* yields connection k and starts generation k of the loops.               *)
(*                                                                         *)
(* connMu protects short sections only; each is one atomic step here.      *)
(* gorilla/websocket and the network are external.                         *)
(***************************************************************************)
EXTENDS Integers, Sequences, FiniteSets

CONSTANTS
  ExtCap,       \* capacity of EventChannel (100 in main.go)
  SendCap,      \* capacity of sendCh (1024 in NewHydraWS)
  MaxEvents,    \* bound: the kernel and pipe readers offer events until this many exist
  MaxBreaks,    \* bound: connections the peer or the network breaks
  MaxTimeouts,  \* bound: expiries of the read deadline, which is never renewed
  MaxScans,     \* bound: "scanDLL" commands acted upon
  ScanMods,     \* bound: modules one scan reports
  CloseCalled   \* whether the owner ever calls Close (the agent's main never does)

ASSUME ConstAssumption ==
  /\ ExtCap \in Nat \ {0}
  /\ SendCap \in Nat \ {0}
  /\ MaxEvents \in Nat
  /\ MaxBreaks \in Nat
  /\ MaxTimeouts \in Nat
  /\ MaxScans \in Nat
  /\ ScanMods \in Nat
  /\ CloseCalled \in BOOLEAN

\* A connection ends only through a break, a timeout or Close, so one more dial
\* than there are failures is all that a run can need.
MaxDials == MaxBreaks + MaxTimeouts + 1
Gens     == 1..MaxDials
NoConn   == 0

Pump  == <<"pump", 0>>
Run   == <<"run", 0>>
Loops == {"read", "write", "ping"} \X Gens
Gor   == {Pump, Run} \cup Loops

VARIABLES
  extCh,      \* EventChannel: events are numbered in the order they enter it
  sendCh,     \* h.sendCh: frames on their way to a writeLoop
  sendClosed, \* close(h.sendCh) has happened
  made,       \* number of events that ever entered EventChannel
  ctxDone,    \* h.ctx is cancelled
  wg,         \* h.wg
  conn,       \* h.conn, NoConn for nil
  dials,      \* number of connections dialled so far
  open,       \* connections on which the client has not called Close
  broken,     \* connections the peer or the network has broken
  timeouts,   \* read deadlines that have expired
  pc,         \* program counter of every goroutine
  cn,         \* the connection a loop captured from h.conn when it started
  hand,       \* the event a pump or a writeLoop holds between two channel operations
  scans,      \* scans started so far
  scanLeft,   \* modules the scan running inside a readLoop has still to report
  closePc,    \* progress of the call of Close
  panicked,   \* the process died of a concurrent write
  wire,       \* history: frames handed to each connection, in order
  lost        \* history: events taken from a channel and then discarded

chanVars  == <<extCh, sendCh, sendClosed, made>>
connVars  == <<conn, dials, open>>
netVars   == <<broken, timeouts>>
gorVars   == <<pc, wg>>
scanVars  == <<scans, scanLeft>>
closeVars == <<closePc, ctxDone, panicked>>
history   == <<wire, lost>>
vars == <<chanVars, connVars, netVars, gorVars, cn, hand, scanVars, closeVars, history>>

-----------------------------------------------------------------------------
Live(t) == pc[t] \notin {"none", "done"}

\* What a goroutine does last: the deferred h.wg.Done().  A loop's send into its
\* buffered done channel is part of the same step.
Exit(t) ==
  /\ pc' = [pc EXCEPT ![t] = "done"]
  /\ wg' = wg - 1

Goto(t, label) ==
  /\ pc' = [pc EXCEPT ![t] = label]
  /\ UNCHANGED wg

Init ==
  /\ extCh = <<>> /\ sendCh = <<>> /\ sendClosed = FALSE /\ made = 0
  /\ ctxDone = FALSE /\ closePc = "idle" /\ panicked = FALSE
  /\ wg = 2
  /\ conn = NoConn /\ dials = 0 /\ open = {}
  /\ broken = {} /\ timeouts = 0
  /\ pc = [t \in Gor |-> CASE t = Pump -> "recv" [] t = Run -> "connect" [] OTHER -> "none"]
  /\ cn = [t \in Loops |-> NoConn]
  /\ hand = [t \in Gor |-> 0]
  /\ scans = 0 /\ scanLeft = [g \in Gens |-> 0]
  /\ wire = [g \in Gens |-> <<>>] /\ lost = {}

-----------------------------------------------------------------------------
(* EventChannel and eventPump *)

\* EventChannel <- ev: blocks while the channel is full.
SendExt ==
  /\ Len(extCh) < ExtCap
  /\ extCh' = Append(extCh, made + 1)
  /\ made' = made + 1

\* Receiver.Loop or a pipe readLoop delivers an event.
Produce ==
  /\ made < MaxEvents
  /\ SendExt
  /\ UNCHANGED <<sendCh, sendClosed, connVars, netVars, gorVars, cn, hand, scanVars, closeVars, history>>

PumpRecv ==
  /\ pc[Pump] = "recv"
  /\ extCh # <<>>
  /\ hand' = [hand EXCEPT ![Pump] = Head(extCh)]
  /\ extCh' = Tail(extCh)
  /\ Goto(Pump, "send")
  /\ UNCHANGED <<sendCh, sendClosed, made, connVars, netVars, cn, scanVars, closeVars, history>>

PumpSend ==
  /\ pc[Pump] = "send"
  /\ Len(sendCh) < SendCap
  /\ sendCh' = Append(sendCh, hand[Pump])
  /\ hand' = [hand EXCEPT ![Pump] = 0]
  /\ Goto(Pump, "recv")
  /\ UNCHANGED <<extCh, sendClosed, made, connVars, netVars, cn, scanVars, closeVars, history>>

\* ctx.Done wins either select; an event already taken is dropped.
PumpExit ==
  /\ pc[Pump] \in {"recv", "send"}
  /\ ctxDone
  /\ lost' = lost \cup ({hand[Pump]} \ {0})
  /\ hand' = [hand EXCEPT ![Pump] = 0]
  /\ Exit(Pump)
  /\ UNCHANGED <<chanVars, connVars, netVars, cn, scanVars, closeVars, wire>>

-----------------------------------------------------------------------------
(* run and connect *)

\* run calls connect(), at once or after time.Sleep(nextBackoff(attempt)), which
\* the context does not interrupt.  connect() refuses to dial once the context
\* is cancelled.
ConnectStart ==
  /\ pc[Run] = "connect"
  /\ \/ ctxDone /\ Exit(Run)
     \/ ~ctxDone /\ Goto(Run, "dialing")
  /\ UNCHANGED <<chanVars, connVars, netVars, cn, hand, scanVars, closeVars, history>>

DialOk ==
  /\ pc[Run] = "dialing"
  /\ dials < MaxDials
  /\ dials' = dials + 1
  /\ open' = open \cup {dials + 1}
  /\ Goto(Run, "storing")
  /\ UNCHANGED <<chanVars, conn, netVars, cn, hand, scanVars, closeVars, history>>

\* The dial fails: try again later, or return if the error is context.Canceled.
\* A cancelled dial may still report another error first.
DialFail ==
  /\ pc[Run] = "dialing"
  /\ \/ Goto(Run, "connect")
     \/ ctxDone /\ Exit(Run)
  /\ UNCHANGED <<chanVars, connVars, netVars, cn, hand, scanVars, closeVars, history>>

\* Mutant: the writeLoop is not started.
Started_NoWriter == {<<"read", dials>>, <<"ping", dials>>}

\* The loops of the connection just dialled.
Started == {<<"read", dials>>, <<"write", dials>>, <<"ping", dials>>}

\* h.conn = conn; wg.Add(3); three go statements.
StoreAndSpawn ==
  /\ pc[Run] = "storing"
  /\ conn' = dials
  /\ wg' = wg + 3
  /\ pc' = [t \in Gor |-> IF t = Run THEN "select" ELSE IF t \in Started THEN "start" ELSE pc[t]]
  /\ UNCHANGED <<chanVars, dials, open, netVars, cn, hand, scanVars, closeVars, history>>

\* Mutant: h.conn is set to nil and left open.
CloseAndForget_NoClose == conn' = NoConn /\ UNCHANGED open

\* Under connMu: close h.conn if there is one, h.conn = nil.
CloseAndForget ==
  /\ open' = open \ {conn}
  /\ conn' = NoConn

\* The first of this generation's loops has returned, or the context is done:
\* close the connection, leave the other loops behind.
Cleanup ==
  /\ pc[Run] = "select"
  /\ ctxDone \/ \E t \in Loops : t[2] = dials /\ pc[t] = "done"
  /\ CloseAndForget
  /\ IF ctxDone THEN Exit(Run) ELSE Goto(Run, "connect")
  /\ UNCHANGED <<chanVars, dials, netVars, cn, hand, scanVars, closeVars, history>>

-----------------------------------------------------------------------------
(* readLoop, writeLoop, pingLoop *)

\* A loop's first step copies h.conn - whatever connection that is by now.
LoopStart(t) ==
  /\ pc[t] = "start"
  /\ cn' = [cn EXCEPT ![t] = conn]
  /\ IF conn = NoConn THEN Exit(t) ELSE Goto(t, "loop")
  /\ UNCHANGED <<chanVars, connVars, netVars, hand, scanVars, closeVars, history>>

Failed(c) == c \notin open \/ c \in broken

\* Mutant: a loop goes on after an error.
ReturnErr_Continue(t) == Goto(t, "loop")

\* return err
ReturnErr(t) == Exit(t)

ReadErr(g) ==
  LET t == <<"read", g>> IN
  /\ pc[t] = "loop"
  /\ Failed(cn[t])
  /\ ReturnErr(t)
  /\ UNCHANGED <<chanVars, connVars, netVars, cn, hand, scanVars, closeVars, history>>

\* SetReadDeadline is called once, before the loop: the deadline expires however
\* healthy the connection is.
ReadDeadline(g) ==
  LET t == <<"read", g>> IN
  /\ pc[t] = "loop"
  /\ timeouts < MaxTimeouts
  /\ timeouts' = timeouts + 1
  /\ Exit(t)
  /\ UNCHANGED <<chanVars, connVars, broken, cn, hand, scanVars, closeVars, history>>

\* A "scanDLL" message, possibly one buffered before the connection failed, runs
\* executeDLLScan inside the read loop.  n is what GetProcessModules returns (0
\* on error).  Any other text changes nothing, and neither does a command that
\* arrives before main has replaced the default callback (WithOnMessage is called
\* when run has already been started).
ReadScanDLL(g) ==
  LET t == <<"read", g>> IN
  /\ pc[t] = "loop"
  /\ scans < MaxScans
  /\ scans' = scans + 1
  /\ \E n \in 0..ScanMods : scanLeft' = [scanLeft EXCEPT ![g] = n]
  /\ Goto(t, "scan")
  /\ UNCHANGED <<chanVars, connVars, netVars, cn, hand, closeVars, history>>

\* Mutant: one module too many.
MoreModules_OffByOne(g) == scanLeft[g] >= 0

MoreModules(g) == scanLeft[g] > 0

ScanSend(g) ==
  /\ pc[<<"read", g>>] = "scan"
  /\ MoreModules(g)
  /\ SendExt
  /\ scanLeft' = [scanLeft EXCEPT ![g] = @ - 1]
  /\ UNCHANGED <<sendCh, sendClosed, connVars, netVars, gorVars, cn, hand, scans, closeVars, history>>

ScanEnd(g) ==
  /\ pc[<<"read", g>>] = "scan"
  /\ ~MoreModules(g)
  /\ Goto(<<"read", g>>, "loop")
  /\ UNCHANGED <<chanVars, connVars, netVars, cn, hand, scanVars, closeVars, history>>

\* Mutant: the frame is looked at and stays in the channel.
RestOfSendCh_Peek == sendCh

RestOfSendCh == Tail(sendCh)

\* fr := <-h.sendCh and the beginning of conn.WriteMessage.  The frame is taken
\* before the connection is known to be usable.
WriteTake(g) ==
  LET t == <<"write", g>> IN
  /\ pc[t] = "loop"
  /\ sendCh # <<>>
  /\ hand' = [hand EXCEPT ![t] = Head(sendCh)]
  /\ sendCh' = RestOfSendCh
  /\ Goto(t, "write")
  /\ UNCHANGED <<extCh, sendClosed, made, connVars, netVars, cn, scanVars, closeVars, history>>

\* WriteMessage returns nil: the frame is in the socket.  It may do so on a
\* broken connection, never on a closed one.
WriteOk(g) ==
  LET t == <<"write", g>> IN
  /\ pc[t] = "write"
  /\ cn[t] \in open
  /\ wire' = [wire EXCEPT ![cn[t]] = Append(@, hand[t])]
  /\ hand' = [hand EXCEPT ![t] = 0]
  /\ Goto(t, "loop")
  /\ UNCHANGED <<chanVars, connVars, netVars, cn, scanVars, closeVars, lost>>

\* Mutant: the frame is put back, behind the later ones.
Discard_Requeue(e) == sendCh' = Append(sendCh, e) /\ UNCHANGED lost

\* Nobody puts the frame back.
Discard(e) == lost' = lost \cup {e} /\ UNCHANGED sendCh

\* WriteMessage fails: the loop returns.
WriteErr(g) ==
  LET t == <<"write", g>> IN
  /\ pc[t] = "write"
  /\ Failed(cn[t])
  /\ Discard(hand[t])
  /\ hand' = [hand EXCEPT ![t] = 0]
  /\ ReturnErr(t)
  /\ UNCHANGED <<extCh, sendClosed, made, connVars, netVars, cn, scanVars, closeVars, wire>>

PingTick(g) ==
  /\ pc[<<"ping", g>>] = "loop"
  /\ Goto(<<"ping", g>>, "write")
  /\ UNCHANGED <<chanVars, connVars, netVars, cn, hand, scanVars, closeVars, history>>

PingOk(g) ==
  LET t == <<"ping", g>> IN
  /\ pc[t] = "write"
  /\ cn[t] \in open
  /\ Goto(t, "loop")
  /\ UNCHANGED <<chanVars, connVars, netVars, cn, hand, scanVars, closeVars, history>>

PingErr(g) ==
  LET t == <<"ping", g>> IN
  /\ pc[t] = "write"
  /\ Failed(cn[t])
  /\ Exit(t)
  /\ UNCHANGED <<chanVars, connVars, netVars, cn, hand, scanVars, closeVars, history>>

\* The ctx.Done case of writeLoop and pingLoop.  writeLoop's other exit, a nil
\* frame from a closed sendCh, can never be the only one: Close cancels first.
LoopCtxDone(t) ==
  /\ t[1] \in {"write", "ping"}
  /\ pc[t] = "loop"
  /\ ctxDone
  /\ Exit(t)
  /\ UNCHANGED <<chanVars, connVars, netVars, cn, hand, scanVars, closeVars, history>>

-----------------------------------------------------------------------------
(* Owner and environment *)

CloseCancel ==
  /\ CloseCalled
  /\ closePc = "idle"
  /\ ctxDone' = TRUE
  /\ closePc' = "cancelled"
  /\ UNCHANGED <<chanVars, connVars, netVars, gorVars, cn, hand, scanVars, panicked, history>>

\* Under connMu: write the close frame, close h.conn, h.conn = nil.
CloseConn ==
  /\ closePc = "cancelled"
  /\ CloseAndForget
  /\ closePc' = "waiting"
  /\ UNCHANGED <<chanVars, dials, netVars, gorVars, cn, hand, scanVars, ctxDone, panicked, history>>

\* Mutant: h.wg.Wait() is left out.
Waited_Not == TRUE

\* h.wg.Wait()
Waited == wg = 0

\* close(h.sendCh) after the wait.
CloseReturn ==
  /\ closePc = "waiting"
  /\ Waited
  /\ sendClosed' = TRUE
  /\ closePc' = "closed"
  /\ UNCHANGED <<extCh, sendCh, made, connVars, netVars, gorVars, cn, hand, scanVars, ctxDone, panicked, history>>

\* The peer or the network breaks a connection.
Break(c) ==
  /\ c \in open \ broken
  /\ Cardinality(broken) < MaxBreaks
  /\ broken' = broken \cup {c}
  /\ UNCHANGED <<chanVars, connVars, timeouts, gorVars, cn, hand, scanVars, closeVars, history>>

\* Goroutines inside conn.WriteMessage on connection c.
Writing(c) == {t \in Loops : pc[t] = "write" /\ cn[t] = c}

\* gorilla/websocket allows one concurrent writer and panics when it notices two.
\* It need not notice: both writes may also go through.
ConcurrentWritePanic(c) ==
  /\ \/ \E t, u \in Writing(c) : t # u
     \/ Writing(c) # {} /\ closePc = "cancelled" /\ conn = c
  /\ panicked' = TRUE
  /\ UNCHANGED <<chanVars, connVars, netVars, gorVars, cn, hand, scanVars, closePc, ctxDone, history>>

-----------------------------------------------------------------------------
\* Close hangs: a readLoop is inside a scan, EventChannel is full and the pump
\* that would drain it has already returned.
ScanStuck ==
  \E g \in Gens : /\ pc[<<"read", g>>] = "scan"
                  /\ MoreModules(g)
                  /\ Len(extCh) = ExtCap
                  /\ pc[Pump] = "done"

\* The only states in which the client may stop for good.
Stopped ==
  /\ panicked \/ closePc = "closed" \/ ScanStuck
  /\ UNCHANGED vars

PumpStep == PumpRecv \/ PumpSend \/ PumpExit
RunStep  == ConnectStart \/ DialOk \/ DialFail \/ StoreAndSpawn \/ Cleanup
ReadStep(g)  == ReadErr(g) \/ ReadDeadline(g) \/ ReadScanDLL(g) \/ ScanSend(g) \/ ScanEnd(g)
WriteStep(g) == WriteTake(g) \/ WriteOk(g) \/ WriteErr(g)
PingStep(g)  == PingTick(g) \/ PingOk(g) \/ PingErr(g)
OwnerStep == CloseCancel \/ CloseConn \/ CloseReturn

Step ==
  \/ Produce
  \/ PumpStep
  \/ RunStep
  \/ \E t \in Loops : LoopStart(t) \/ LoopCtxDone(t)
  \/ \E g \in Gens : ReadStep(g) \/ WriteStep(g) \/ PingStep(g)
  \/ OwnerStep
  \/ \E c \in Gens : Break(c) \/ ConcurrentWritePanic(c)

Next == (~panicked /\ Step) \/ Stopped

Spec == Init /\ [][Next]_vars

\* What a loop does of its own accord: not a deadline, not a command.
LoopRuns(t) ==
  \/ LoopStart(t) \/ LoopCtxDone(t)
  \/ t[1] = "read"  /\ (ReadErr(t[2]) \/ ScanSend(t[2]) \/ ScanEnd(t[2]))
  \/ t[1] = "write" /\ WriteStep(t[2])
  \/ t[1] = "ping"  /\ PingStep(t[2])

\* The Go scheduler runs every runnable goroutine, and a failed socket operation
\* returns.  A dial that is tried again and again eventually succeeds: the
\* backend is reachable often enough.  Nothing is assumed of events, commands,
\* faults, deadlines or of Close being called.
Fairness ==
  /\ WF_vars(~panicked /\ PumpStep)
  /\ WF_vars(~panicked /\ RunStep)
  /\ SF_vars(~panicked /\ DialOk)
  /\ \A t \in Loops : WF_vars(~panicked /\ LoopRuns(t))
  /\ WF_vars(~panicked /\ (CloseConn \/ CloseReturn))

FairSpec == Spec /\ Fairness
-----------------------------------------------------------------------------
(* Properties *)

PumpPc == {"recv", "send", "done"}
LoopPc == {"none", "start", "loop", "scan", "write", "done"}
RunPc  == {"connect", "dialing", "storing", "select", "done"}

ChanType ==
  /\ extCh \in Seq(Nat) /\ sendCh \in Seq(Nat) /\ made \in Nat
  /\ hand \in [Gor -> Nat]
  /\ wire \in [Gens -> Seq(Nat)] /\ lost \in SUBSET Nat
ConnType ==
  /\ dials \in 0..MaxDials /\ conn \in 0..MaxDials
  /\ open \in SUBSET Gens /\ broken \in SUBSET Gens
  /\ cn \in [Loops -> 0..MaxDials]
PcType ==
  /\ pc \in [Gor -> PumpPc \cup RunPc \cup LoopPc]
  /\ pc[Pump] \in PumpPc /\ pc[Run] \in RunPc
  /\ \A t \in Loops : pc[t] \in LoopPc
  /\ wg \in Int
MiscType ==
  /\ timeouts \in Nat /\ scans \in Nat /\ scanLeft \in [Gens -> Nat]
  /\ sendClosed \in BOOLEAN /\ ctxDone \in BOOLEAN /\ panicked \in BOOLEAN
  /\ closePc \in {"idle", "cancelled", "waiting", "closed"}

\* Types of all variables, with the labels each kind of goroutine can be at and
\* the connections a loop can have captured.
TypeOK == ChanType /\ ConnType /\ PcType /\ MiscType

\* No socket is leaked, whatever the interleaving of run's reconnects with Close:
\* at most one connection is open at a time, storing a freshly dialled one never
\* overwrites an open h.conn, and none is open once run has returned.
NoConnLeak ==
  /\ \A c, d \in open : c = d
  /\ pc[Run] = "storing" => conn = NoConn
  /\ pc[Run] = "done" => open = {}

\* The WaitGroup counts exactly the goroutines that have been started and have
\* not returned, although run adds to it while Close may already be waiting.
WgCounts == wg = Cardinality({t \in Gor : Live(t)})

\* When Close returns, no goroutine of the client is left, so nothing can send
\* on or receive from the closed sendCh: not a loop that an earlier reconnect
\* left behind, not one that run started while Close was waiting.
ClosedIsQuiet == sendClosed => \A t \in Gor : ~Live(t)

\* What the client itself throws away: a writeLoop at most one event in its life, the
\* one it held when WriteMessage failed, and the pump at most one, at shutdown.  Frames
\* that WriteMessage accepts on a connection already broken are not counted: they are
\* on `wire', and how many there are is up to the network.
LossBound ==
  Cardinality(lost) <= Cardinality({g \in Gens : pc[<<"write", g>>] = "done"})
                       + Cardinality({t \in {Pump} : pc[t] = "done"})

\* On a connection that one writeLoop used alone, events appear in the order in
\* which they entered EventChannel, whatever other connections did meanwhile.
WireInOrder ==
  \A c \in Gens :
    (\A g, h \in Gens : cn[<<"write", g>>] = c /\ cn[<<"write", h>>] = c => g = h)
    => \A i, j \in DOMAIN wire[c] : i < j => wire[c][i] < wire[c][j]

\* Stated by README.md ("All events forwarded to WebSocket backend for analysis"):
\* no event that reached the agent's channel is discarded on the way.
AllEventsForwarded == lost = {}

Held == {hand[t] : t \in Gor} \ {0}
Elems(s) == {s[i] : i \in DOMAIN s}
Pending == Elems(extCh) \cup Elems(sendCh) \cup Held

Event == 1..(MaxEvents + MaxScans * ScanMods)

\* Where e is on the wire: <<connection, position>>.
WirePlaces(e) == {p \in UNION {{g} \X DOMAIN wire[g] : g \in Gens} : wire[p[1]][p[2]] = e}
Forwarded == [e \in Event |-> Cardinality(WirePlaces(e))]

Stream == INSTANCE EventStream WITH
  pending <- Pending, forwarded <- Forwarded, dropped <- lost

\* The client implements EventStream: through pump, frames left in the hands of
\* abandoned loops, reconnects and shutdown, every event leaves at most once.
ImplementsStream == Stream!Spec

\* As long as the client is neither closed nor killed, an event does not get
\* stuck: it is forwarded or discarded once the network stops failing.
EventLeaves ==
  \A e \in Event : e \in Pending ~> (e \notin Pending \/ ctxDone \/ panicked)

\* A broken connection does not stay h.conn: one of its own loops notices and run closes
\* it, even if the readLoop is busy with a scan and the writes of the other two loops
\* still succeed.
BrokenIsReplaced ==
  \A c \in Gens : (conn = c /\ c \in broken) ~> (conn # c \/ panicked)

\* Close returns, unless a DLL scan inside a readLoop is blocked on the full
\* EventChannel that no pump drains any more - the one way Close can hang.
CloseReturns ==
  closePc = "cancelled" ~> (closePc = "closed" \/ panicked \/ ScanStuck)
=============================================================================
