------------------------ MODULE HydraWSStreamProofs ------------------------
(***************************************************************************)
(* Proofs about the events that pass through HydraWS: how many can be      *)
(* lost, in which order they appear on a connection, and that the client   *)
(* implements EventStream.  For every capacity, number of events, breaks,  *)
(* timeouts and scans.                                                     *)
(***************************************************************************)
EXTENDS HydraWSProofs, SequenceTheorems

USE DEF ReturnErr, RestOfSendCh, Discard, Waited

evVars == <<extCh, sendCh, made, hand, wire, lost>>

Reader(g) == <<"read", g>>
Writer(g) == <<"write", g>>

-----------------------------------------------------------------------------
(* What the steps do to the labels, the hands and the captured connections *)

LEMMA Threads ==
  /\ \A g \in Gens : /\ Reader(g) \in Loops /\ Writer(g) \in Loops
                     /\ Reader(g) \in Gor /\ Writer(g) \in Gor
                     /\ Reader(g) # Pump /\ Writer(g) # Pump
                     /\ Reader(g) # Run /\ Writer(g) # Run
  /\ \A g, h \in Gens : Reader(g) # Writer(h) /\ (Writer(g) = Writer(h) => g = h)
                        /\ (Reader(g) = Reader(h) => g = h)
  /\ \A t \in Loops : t[1] = "write" => t = Writer(t[2])
  /\ \A t \in Loops : t \in Gor /\ t # Pump /\ t # Run /\ t[2] \in Gens
BY DEF Reader, Writer, Loops, Gor, Pump, Run

\* StoreAndSpawn starts loops that never ran before.
LEMMA Spawned ==
  ASSUME TypeOK, WgInv, StoreAndSpawn
  PROVE  /\ \A t \in Gor : pc'[t] = pc[t] \/ t = Run \/ (t \in Loops /\ pc[t] = "none" /\ pc'[t] = "start")
         /\ pc[Run] = "storing"
<1>0. dials \in Gens
  BY DEF StoreAndSpawn, WgInv, Dialled
<1>1. \A t \in Started : t \in Loops /\ t # Run /\ t[2] = dials
  BY <1>0 DEF Started, Loops, Run
<1>2. \A t \in Started : pc[t] = "none"
  BY <1>1 DEF StoreAndSpawn, WgInv, GenFresh
<1> QED  BY <1>1, <1>2, GorFacts DEF StoreAndSpawn

\* The steps that move an event.
EventStep ==
  \/ Produce \/ PumpRecv \/ PumpSend \/ PumpExit
  \/ \E g \in Gens : ScanSend(g) \/ WriteTake(g) \/ WriteOk(g) \/ WriteErr(g)

\* No other step moves an event, begins or ends a write or a send of the pump.
Idle ==
  /\ UNCHANGED evVars
  /\ pc'[Pump] = pc[Pump]
  /\ \A g \in Gens : pc'[Writer(g)] = "write" <=> pc[Writer(g)] = "write"

LEMMA EventSteps == TypeOK /\ WgInv /\ [Next]_vars => EventStep \/ Idle
<1> SUFFICES ASSUME TypeOK, WgInv, [Next]_vars PROVE EventStep \/ Idle
  OBVIOUS
<1> USE GorFacts DEF EventStep, Idle, TypeOK, PcType
<1>1. CASE Produce
  BY <1>1
<1>2. CASE PumpRecv
  BY <1>2
<1>3. CASE PumpSend
  BY <1>3
<1>4. CASE PumpExit
  BY <1>4
<1>5. CASE ConnectStart
  BY <1>5 DEF ConnectStart, Exit, Goto, Writer, evVars,
     chanVars, connVars, netVars, gorVars, scanVars, closeVars, history
<1>6. CASE DialOk
  BY <1>6 DEF DialOk, Exit, Goto, Writer, evVars,
     chanVars, connVars, netVars, gorVars, scanVars, closeVars, history
<1>7. CASE DialFail
  BY <1>7 DEF DialFail, Exit, Goto, Writer, evVars,
     chanVars, connVars, netVars, gorVars, scanVars, closeVars, history
<1>8. CASE StoreAndSpawn
  <2>1. UNCHANGED evVars
    BY <1>8 DEF StoreAndSpawn, evVars, chanVars, history
  <2> QED  BY <1>8, <2>1, Spawned, Threads
<1>9. CASE Cleanup
  BY <1>9 DEF Cleanup, CloseAndForget, Exit, Goto, Writer, evVars,
     chanVars, connVars, netVars, gorVars, scanVars, closeVars, history
<1>10. ASSUME NEW t \in Loops, LoopStart(t) PROVE EventStep \/ Idle
  BY <1>10 DEF LoopStart, Exit, Goto, Writer, evVars,
     chanVars, connVars, netVars, gorVars, scanVars, closeVars, history
<1>11. ASSUME NEW t \in Loops, LoopCtxDone(t) PROVE EventStep \/ Idle
  BY <1>11 DEF LoopCtxDone, Exit, Goto, Writer, evVars,
     chanVars, connVars, netVars, gorVars, scanVars, closeVars, history
<1>12. ASSUME NEW g \in Gens, ReadErr(g) PROVE EventStep \/ Idle
  BY <1>12 DEF ReadErr, Exit, Goto, Writer, evVars,
     chanVars, connVars, netVars, gorVars, scanVars, closeVars, history
<1>13. ASSUME NEW g \in Gens, ReadDeadline(g) PROVE EventStep \/ Idle
  BY <1>13 DEF ReadDeadline, Exit, Goto, Writer, evVars,
     chanVars, connVars, netVars, gorVars, scanVars, closeVars, history
<1>14. ASSUME NEW g \in Gens, ReadScanDLL(g) PROVE EventStep \/ Idle
  BY <1>14 DEF ReadScanDLL, Exit, Goto, Writer, evVars,
     chanVars, connVars, netVars, gorVars, scanVars, closeVars, history
<1>15. ASSUME NEW g \in Gens, ScanSend(g) PROVE EventStep \/ Idle
  BY <1>15
<1>16. ASSUME NEW g \in Gens, ScanEnd(g) PROVE EventStep \/ Idle
  BY <1>16 DEF ScanEnd, Exit, Goto, Writer, evVars,
     chanVars, connVars, netVars, gorVars, scanVars, closeVars, history
<1>17. ASSUME NEW g \in Gens, WriteTake(g) PROVE EventStep \/ Idle
  BY <1>17
<1>18. ASSUME NEW g \in Gens, WriteOk(g) PROVE EventStep \/ Idle
  BY <1>18
<1>19. ASSUME NEW g \in Gens, WriteErr(g) PROVE EventStep \/ Idle
  BY <1>19
<1>20. ASSUME NEW g \in Gens, PingTick(g) PROVE EventStep \/ Idle
  BY <1>20 DEF PingTick, Exit, Goto, Writer, evVars,
     chanVars, connVars, netVars, gorVars, scanVars, closeVars, history
<1>21. ASSUME NEW g \in Gens, PingOk(g) PROVE EventStep \/ Idle
  BY <1>21 DEF PingOk, Exit, Goto, Writer, evVars,
     chanVars, connVars, netVars, gorVars, scanVars, closeVars, history
<1>22. ASSUME NEW g \in Gens, PingErr(g) PROVE EventStep \/ Idle
  BY <1>22 DEF PingErr, Exit, Goto, Writer, evVars,
     chanVars, connVars, netVars, gorVars, scanVars, closeVars, history
<1>23. CASE CloseCancel
  BY <1>23 DEF CloseCancel, Exit, Goto, Writer, evVars,
     chanVars, connVars, netVars, gorVars, scanVars, closeVars, history
<1>24. CASE CloseConn
  BY <1>24 DEF CloseConn, CloseAndForget, Exit, Goto, Writer, evVars,
     chanVars, connVars, netVars, gorVars, scanVars, closeVars, history
<1>25. CASE CloseReturn
  BY <1>25 DEF CloseReturn, Exit, Goto, Writer, evVars,
     chanVars, connVars, netVars, gorVars, scanVars, closeVars, history
<1>26. ASSUME NEW c \in Gens, Break(c) PROVE EventStep \/ Idle
  BY <1>26 DEF Break, Exit, Goto, Writer, evVars,
     chanVars, connVars, netVars, gorVars, scanVars, closeVars, history
<1>27. ASSUME NEW c \in Gens, ConcurrentWritePanic(c) PROVE EventStep \/ Idle
  BY <1>27 DEF ConcurrentWritePanic, Exit, Goto, Writer, evVars,
     chanVars, connVars, netVars, gorVars, scanVars, closeVars, history
<1>28. CASE Stopped
  BY <1>28 DEF Stopped, Exit, Goto, Writer, evVars,
     chanVars, connVars, netVars, gorVars, scanVars, closeVars, history, vars
<1>29. CASE UNCHANGED vars
  BY <1>29 DEF vars, evVars, chanVars, connVars, netVars, gorVars, scanVars, closeVars, history
<1> QED
  BY <1>1, <1>2, <1>3, <1>4, <1>5, <1>6, <1>7, <1>8, <1>9, <1>10, <1>11, <1>12,
     <1>13, <1>14, <1>15, <1>16, <1>17, <1>18, <1>19, <1>20, <1>21, <1>22,
     <1>23, <1>24, <1>25, <1>26, <1>27, <1>28, <1>29
  DEF Next, Step, PumpStep, RunStep, ReadStep, WriteStep, PingStep, OwnerStep

\* A goroutine that has returned does not run again; a loop captures its connection
\* in its first step and keeps it; and a scan begins, goes on and ends in its readLoop.
LoopFacts ==
  /\ \A t \in Gor : pc[t] = "done" => pc'[t] = "done"
  /\ \A t \in Loops :
       \/ cn'[t] = cn[t] /\ (pc'[t] \in {"none", "start"} => pc[t] \in {"none", "start"})
       \/ LoopStart(t) /\ pc'[t] \in {"loop", "done"}
  /\ \/ \E g \in Gens : ReadScanDLL(g) \/ ScanSend(g) \/ ScanEnd(g)
     \/ UNCHANGED scanVars /\ \A g \in Gens : pc'[Reader(g)] = "scan" <=> pc[Reader(g)] = "scan"

LEMMA LoopSteps == TypeOK /\ WgInv /\ [Next]_vars => LoopFacts
<1> SUFFICES ASSUME TypeOK, WgInv, [Next]_vars PROVE LoopFacts
  OBVIOUS
<1> USE GorFacts DEF LoopFacts, TypeOK, PcType
<1>1. CASE Produce
  BY <1>1 DEF Produce, SendExt, Exit, Goto, Reader,
     chanVars, connVars, netVars, gorVars, scanVars, closeVars, history
<1>2. CASE PumpRecv
  BY <1>2 DEF PumpRecv, Exit, Goto, Reader,
     chanVars, connVars, netVars, gorVars, scanVars, closeVars, history
<1>3. CASE PumpSend
  BY <1>3 DEF PumpSend, Exit, Goto, Reader,
     chanVars, connVars, netVars, gorVars, scanVars, closeVars, history
<1>4. CASE PumpExit
  BY <1>4 DEF PumpExit, Exit, Goto, Reader,
     chanVars, connVars, netVars, gorVars, scanVars, closeVars, history
<1>5. CASE ConnectStart
  BY <1>5 DEF ConnectStart, Exit, Goto, Reader,
     chanVars, connVars, netVars, gorVars, scanVars, closeVars, history
<1>6. CASE DialOk
  BY <1>6 DEF DialOk, Exit, Goto, Reader,
     chanVars, connVars, netVars, gorVars, scanVars, closeVars, history
<1>7. CASE DialFail
  BY <1>7 DEF DialFail, Exit, Goto, Reader,
     chanVars, connVars, netVars, gorVars, scanVars, closeVars, history
<1>8. CASE StoreAndSpawn
  <2>1. UNCHANGED <<cn, scanVars>>
    BY <1>8 DEF StoreAndSpawn
  <2> QED  BY <1>8, <2>1, Spawned, Threads
<1>9. CASE Cleanup
  BY <1>9 DEF Cleanup, CloseAndForget, Exit, Goto, Reader,
     chanVars, connVars, netVars, gorVars, scanVars, closeVars, history
<1>10. ASSUME NEW t \in Loops, LoopStart(t) PROVE LoopFacts
  <2>1. PICK l \in {"loop", "done"} : pc' = [pc EXCEPT ![t] = l]
    BY <1>10 DEF LoopStart, Exit, Goto
  <2>2. pc[t] = "start" /\ cn' = [cn EXCEPT ![t] = conn] /\ UNCHANGED scanVars
    BY <1>10 DEF LoopStart
  <2>3. \A u \in Loops : u # t => cn'[u] = cn[u] /\ pc'[u] = pc[u]
    BY <2>1, <2>2 DEF ConnType
  <2>4. t \in Gor /\ pc'[t] = l
    BY <2>1
  <2>5. \A g \in Gens : pc'[Reader(g)] = "scan" <=> pc[Reader(g)] = "scan"
    BY <2>1, <2>2, <2>3, <2>4, Threads
  <2> QED  BY <1>10, <2>1, <2>2, <2>3, <2>4, <2>5
<1>11. ASSUME NEW t \in Loops, LoopCtxDone(t) PROVE LoopFacts
  BY <1>11 DEF LoopCtxDone, Exit, Goto, Reader,
     chanVars, connVars, netVars, gorVars, scanVars, closeVars, history
<1>12. ASSUME NEW g \in Gens, ReadErr(g) PROVE LoopFacts
  BY <1>12 DEF ReadErr, Exit, Goto, Reader,
     chanVars, connVars, netVars, gorVars, scanVars, closeVars, history
<1>13. ASSUME NEW g \in Gens, ReadDeadline(g) PROVE LoopFacts
  BY <1>13 DEF ReadDeadline, Exit, Goto, Reader,
     chanVars, connVars, netVars, gorVars, scanVars, closeVars, history
<1>14. ASSUME NEW g \in Gens, ReadScanDLL(g) PROVE LoopFacts
  BY <1>14 DEF ReadScanDLL, Exit, Goto, Reader,
     chanVars, connVars, netVars, gorVars, scanVars, closeVars, history
<1>15. ASSUME NEW g \in Gens, ScanSend(g) PROVE LoopFacts
  BY <1>15 DEF ScanSend, SendExt, Exit, Goto, Reader,
     chanVars, connVars, netVars, gorVars, scanVars, closeVars, history
<1>16. ASSUME NEW g \in Gens, ScanEnd(g) PROVE LoopFacts
  BY <1>16 DEF ScanEnd, Exit, Goto, Reader,
     chanVars, connVars, netVars, gorVars, scanVars, closeVars, history
<1>17. ASSUME NEW g \in Gens, WriteTake(g) PROVE LoopFacts
  BY <1>17 DEF WriteTake, Exit, Goto, Reader,
     chanVars, connVars, netVars, gorVars, scanVars, closeVars, history
<1>18. ASSUME NEW g \in Gens, WriteOk(g) PROVE LoopFacts
  BY <1>18 DEF WriteOk, Exit, Goto, Reader,
     chanVars, connVars, netVars, gorVars, scanVars, closeVars, history
<1>19. ASSUME NEW g \in Gens, WriteErr(g) PROVE LoopFacts
  BY <1>19 DEF WriteErr, Exit, Goto, Reader,
     chanVars, connVars, netVars, gorVars, scanVars, closeVars, history
<1>20. ASSUME NEW g \in Gens, PingTick(g) PROVE LoopFacts
  BY <1>20 DEF PingTick, Exit, Goto, Reader,
     chanVars, connVars, netVars, gorVars, scanVars, closeVars, history
<1>21. ASSUME NEW g \in Gens, PingOk(g) PROVE LoopFacts
  BY <1>21 DEF PingOk, Exit, Goto, Reader,
     chanVars, connVars, netVars, gorVars, scanVars, closeVars, history
<1>22. ASSUME NEW g \in Gens, PingErr(g) PROVE LoopFacts
  BY <1>22 DEF PingErr, Exit, Goto, Reader,
     chanVars, connVars, netVars, gorVars, scanVars, closeVars, history
<1>23. CASE CloseCancel
  BY <1>23 DEF CloseCancel, Exit, Goto, Reader,
     chanVars, connVars, netVars, gorVars, scanVars, closeVars, history
<1>24. CASE CloseConn
  BY <1>24 DEF CloseConn, CloseAndForget, Exit, Goto, Reader,
     chanVars, connVars, netVars, gorVars, scanVars, closeVars, history
<1>25. CASE CloseReturn
  BY <1>25 DEF CloseReturn, Exit, Goto, Reader,
     chanVars, connVars, netVars, gorVars, scanVars, closeVars, history
<1>26. ASSUME NEW c \in Gens, Break(c) PROVE LoopFacts
  BY <1>26 DEF Break, Exit, Goto, Reader,
     chanVars, connVars, netVars, gorVars, scanVars, closeVars, history
<1>27. ASSUME NEW c \in Gens, ConcurrentWritePanic(c) PROVE LoopFacts
  BY <1>27 DEF ConcurrentWritePanic, Exit, Goto, Reader,
     chanVars, connVars, netVars, gorVars, scanVars, closeVars, history
<1>28. CASE Stopped
  BY <1>28 DEF Stopped, Exit, Goto, Reader,
     chanVars, connVars, netVars, gorVars, scanVars, closeVars, history, vars
<1>29. CASE UNCHANGED vars
  BY <1>29 DEF vars, chanVars, connVars, netVars, gorVars, scanVars, closeVars, history
<1> QED
  BY <1>1, <1>2, <1>3, <1>4, <1>5, <1>6, <1>7, <1>8, <1>9, <1>10, <1>11, <1>12,
     <1>13, <1>14, <1>15, <1>16, <1>17, <1>18, <1>19, <1>20, <1>21, <1>22,
     <1>23, <1>24, <1>25, <1>26, <1>27, <1>28, <1>29
  DEF Next, Step, PumpStep, RunStep, ReadStep, WriteStep, PingStep, OwnerStep

-----------------------------------------------------------------------------
(* The steps that move an event, element by element *)

LEMMA AppendFacts ==
  ASSUME NEW S, NEW s \in Seq(S), NEW e \in S
  PROVE  /\ Len(s) \in Nat /\ DOMAIN s = 1..Len(s)
         /\ DOMAIN Append(s, e) = 1..(Len(s) + 1) /\ Append(s, e)[Len(s) + 1] = e
         /\ \A i \in 1..Len(s) : Append(s, e)[i] = s[i]
OBVIOUS

LEMMA TailFacts ==
  ASSUME NEW S, NEW s \in Seq(S), s # <<>>
  PROVE  /\ Len(s) \in Nat /\ DOMAIN s = 1..Len(s) /\ 1 \in DOMAIN s /\ Head(s) = s[1]
         /\ DOMAIN Tail(s) = 1..(Len(s) - 1)
         /\ \A i \in 1..(Len(s) - 1) : Tail(s)[i] = s[i + 1]
OBVIOUS

LEMMA AddFacts ==
  ASSUME TypeOK, Produce \/ \E g \in Gens : ScanSend(g)
  PROVE  /\ made' = made + 1 /\ UNCHANGED <<sendCh, hand, wire, lost, pc, cn>>
         /\ Len(extCh) \in Nat /\ DOMAIN extCh = 1..Len(extCh)
         /\ DOMAIN extCh' = 1..(Len(extCh) + 1) /\ extCh'[Len(extCh) + 1] = made + 1
         /\ \A i \in 1..Len(extCh) : extCh'[i] = extCh[i]
<1>1. /\ made' = made + 1 /\ extCh' = Append(extCh, made + 1)
      /\ UNCHANGED <<sendCh, hand, wire, lost, pc, cn>>
  BY DEF Produce, ScanSend, SendExt, gorVars, history
<1>2. extCh \in Seq(Nat) /\ made + 1 \in Nat
  BY DEF TypeOK, ChanType
<1> QED  BY <1>1, <1>2, AppendFacts

LEMMA PumpRecvFacts ==
  ASSUME TypeOK, PumpRecv
  PROVE  /\ pc[Pump] = "recv" /\ pc' = [pc EXCEPT ![Pump] = "send"]
         /\ UNCHANGED <<sendCh, made, wire, lost, cn>>
         /\ Len(extCh) \in Nat /\ DOMAIN extCh = 1..Len(extCh) /\ 1 \in DOMAIN extCh
         /\ extCh[1] \in Nat
         /\ hand' = [hand EXCEPT ![Pump] = extCh[1]]
         /\ hand'[Pump] = extCh[1] /\ \A t \in Gor : t # Pump => hand'[t] = hand[t]
         /\ DOMAIN extCh' = 1..(Len(extCh) - 1)
         /\ \A i \in 1..(Len(extCh) - 1) : extCh'[i] = extCh[i + 1]
<1>1. /\ pc[Pump] = "recv" /\ pc' = [pc EXCEPT ![Pump] = "send"]
      /\ UNCHANGED <<sendCh, made, wire, lost, cn>>
      /\ extCh # <<>> /\ extCh' = Tail(extCh) /\ hand' = [hand EXCEPT ![Pump] = Head(extCh)]
  BY DEF PumpRecv, Goto, history
<1>2. extCh \in Seq(Nat) /\ hand \in [Gor -> Nat] /\ Pump \in Gor
  BY GorFacts DEF TypeOK, ChanType
<1>3. Head(extCh) \in Nat
  BY <1>1, <1>2
<1> QED  BY <1>1, <1>2, <1>3, TailFacts

LEMMA PumpSendFacts ==
  ASSUME TypeOK, PumpSend
  PROVE  /\ pc[Pump] = "send" /\ pc' = [pc EXCEPT ![Pump] = "recv"]
         /\ UNCHANGED <<extCh, made, wire, lost, cn>>
         /\ Len(sendCh) \in Nat /\ DOMAIN sendCh = 1..Len(sendCh)
         /\ hand[Pump] \in Nat /\ hand' = [hand EXCEPT ![Pump] = 0]
         /\ hand'[Pump] = 0 /\ \A t \in Gor : t # Pump => hand'[t] = hand[t]
         /\ DOMAIN sendCh' = 1..(Len(sendCh) + 1) /\ sendCh'[Len(sendCh) + 1] = hand[Pump]
         /\ \A i \in 1..Len(sendCh) : sendCh'[i] = sendCh[i]
<1>1. /\ pc[Pump] = "send" /\ pc' = [pc EXCEPT ![Pump] = "recv"]
      /\ UNCHANGED <<extCh, made, wire, lost, cn>>
      /\ sendCh' = Append(sendCh, hand[Pump]) /\ hand' = [hand EXCEPT ![Pump] = 0]
  BY DEF PumpSend, Goto, history
<1>2. sendCh \in Seq(Nat) /\ hand \in [Gor -> Nat] /\ Pump \in Gor /\ hand[Pump] \in Nat
  BY GorFacts DEF TypeOK, ChanType
<1> QED  BY <1>1, <1>2, AppendFacts

LEMMA PumpExitFacts ==
  ASSUME TypeOK, PumpExit
  PROVE  /\ pc' = [pc EXCEPT ![Pump] = "done"]
         /\ UNCHANGED <<extCh, sendCh, made, wire, cn>>
         /\ lost' = lost \cup ({hand[Pump]} \ {0}) /\ hand' = [hand EXCEPT ![Pump] = 0]
         /\ hand'[Pump] = 0 /\ \A t \in Gor : t # Pump => hand'[t] = hand[t]
BY GorFacts DEF PumpExit, Exit, TypeOK, ChanType, chanVars

LEMMA WriteTakeFacts ==
  ASSUME TypeOK, NEW g \in Gens, WriteTake(g)
  PROVE  /\ pc[Writer(g)] = "loop" /\ pc' = [pc EXCEPT ![Writer(g)] = "write"]
         /\ UNCHANGED <<extCh, made, wire, lost, cn>>
         /\ Len(sendCh) \in Nat /\ DOMAIN sendCh = 1..Len(sendCh) /\ 1 \in DOMAIN sendCh
         /\ sendCh[1] \in Nat
         /\ hand' = [hand EXCEPT ![Writer(g)] = sendCh[1]]
         /\ hand'[Writer(g)] = sendCh[1] /\ \A t \in Gor : t # Writer(g) => hand'[t] = hand[t]
         /\ DOMAIN sendCh' = 1..(Len(sendCh) - 1)
         /\ \A i \in 1..(Len(sendCh) - 1) : sendCh'[i] = sendCh[i + 1]
<1>1. /\ pc[Writer(g)] = "loop" /\ pc' = [pc EXCEPT ![Writer(g)] = "write"]
      /\ UNCHANGED <<extCh, made, wire, lost, cn>>
      /\ sendCh # <<>> /\ sendCh' = Tail(sendCh) /\ hand' = [hand EXCEPT ![Writer(g)] = Head(sendCh)]
  BY DEF WriteTake, Goto, Writer, history
<1>2. sendCh \in Seq(Nat) /\ hand \in [Gor -> Nat] /\ Writer(g) \in Gor
  BY Threads DEF TypeOK, ChanType
<1>3. Head(sendCh) \in Nat
  BY <1>1, <1>2
<1> QED  BY <1>1, <1>2, <1>3, TailFacts

LEMMA WriteOkFacts ==
  ASSUME TypeOK, NEW g \in Gens, WriteOk(g)
  PROVE  /\ pc[Writer(g)] = "write" /\ pc' = [pc EXCEPT ![Writer(g)] = "loop"]
         /\ UNCHANGED <<extCh, sendCh, made, lost, cn>>
         /\ hand' = [hand EXCEPT ![Writer(g)] = 0]
         /\ hand'[Writer(g)] = 0 /\ \A t \in Gor : t # Writer(g) => hand'[t] = hand[t]
         /\ \E c \in Gens :
              /\ c = cn[Writer(g)] /\ c \in open
              /\ Len(wire[c]) \in Nat /\ DOMAIN wire[c] = 1..Len(wire[c])
              /\ DOMAIN wire'[c] = 1..(Len(wire[c]) + 1)
              /\ wire'[c][Len(wire[c]) + 1] = hand[Writer(g)]
              /\ \A i \in 1..Len(wire[c]) : wire'[c][i] = wire[c][i]
              /\ \A d \in Gens : d # c => wire'[d] = wire[d]
<1>1. /\ pc[Writer(g)] = "write" /\ pc' = [pc EXCEPT ![Writer(g)] = "loop"]
      /\ UNCHANGED <<extCh, sendCh, made, lost, cn>>
      /\ hand' = [hand EXCEPT ![Writer(g)] = 0] /\ cn[Writer(g)] \in open
      /\ wire' = [wire EXCEPT ![cn[Writer(g)]] = Append(wire[cn[Writer(g)]], hand[Writer(g)])]
  BY DEF WriteOk, Goto, Writer, chanVars
<1>2. wire \in [Gens -> Seq(Nat)] /\ hand \in [Gor -> Nat] /\ Writer(g) \in Gor /\ open \subseteq Gens
  BY Threads DEF TypeOK, ChanType, ConnType
<1>3. PICK c \in Gens : c = cn[Writer(g)]
  BY <1>1, <1>2
<1>4. wire[c] \in Seq(Nat) /\ hand[Writer(g)] \in Nat /\ wire'[c] = Append(wire[c], hand[Writer(g)])
  BY <1>1, <1>2, <1>3
<1>5. \A d \in Gens : d # c => wire'[d] = wire[d]
  BY <1>1, <1>2, <1>3
<1>6. hand'[Writer(g)] = 0 /\ \A t \in Gor : t # Writer(g) => hand'[t] = hand[t]
  BY <1>1, <1>2
<1>7. /\ Len(wire[c]) \in Nat /\ DOMAIN wire[c] = 1..Len(wire[c])
      /\ DOMAIN wire'[c] = 1..(Len(wire[c]) + 1)
      /\ wire'[c][Len(wire[c]) + 1] = hand[Writer(g)]
      /\ \A i \in 1..Len(wire[c]) : wire'[c][i] = wire[c][i]
  BY <1>4, AppendFacts
<1> QED  BY <1>1, <1>3, <1>5, <1>6, <1>7

LEMMA WriteErrFacts ==
  ASSUME TypeOK, NEW g \in Gens, WriteErr(g)
  PROVE  /\ pc[Writer(g)] = "write" /\ pc' = [pc EXCEPT ![Writer(g)] = "done"]
         /\ UNCHANGED <<extCh, sendCh, made, wire, cn>>
         /\ lost' = lost \cup {hand[Writer(g)]} /\ hand' = [hand EXCEPT ![Writer(g)] = 0]
         /\ hand'[Writer(g)] = 0 /\ \A t \in Gor : t # Writer(g) => hand'[t] = hand[t]
BY Threads DEF WriteErr, Exit, Writer, TypeOK, ChanType

-----------------------------------------------------------------------------
(* The order of the events on their way *)

\* Only the pump and writeLoops hold events, exactly between two channel operations.
HandInv ==
  /\ hand[Run] = 0
  /\ \A t \in Loops : t[1] # "write" => hand[t] = 0
  /\ pc[Pump] = "send" <=> hand[Pump] # 0
  /\ \A g \in Gens : pc[Writer(g)] = "write" <=> hand[Writer(g)] # 0

\* Everything the client has ever seen was sent on EventChannel.
MadeInv ==
  /\ \A i \in DOMAIN extCh : extCh[i] \in 1..made
  /\ \A i \in DOMAIN sendCh : sendCh[i] \in 1..made
  /\ \A t \in Gor : hand[t] \in 0..made
  /\ \A c \in Gens : \A i \in DOMAIN wire[c] : wire[c][i] \in 1..made
  /\ lost \subseteq 1..made

\* e has left sendCh before everything that is still in a channel or with the pump.
Older(e) ==
  /\ \A i \in DOMAIN sendCh : e < sendCh[i]
  /\ hand[Pump] # 0 => e < hand[Pump]
  /\ \A i \in DOMAIN extCh : e < extCh[i]

\* Both channels are in order, and sendCh is ahead of the pump's event, which is ahead
\* of EventChannel.
QueueInv ==
  /\ \A i, j \in DOMAIN extCh : i < j => extCh[i] < extCh[j]
  /\ \A i, j \in DOMAIN sendCh : i < j => sendCh[i] < sendCh[j]
  /\ \A i \in DOMAIN extCh : hand[Pump] < extCh[i]
  /\ \A i \in DOMAIN sendCh : \A j \in DOMAIN extCh : sendCh[i] < extCh[j]
  /\ hand[Pump] # 0 => \A i \in DOMAIN sendCh : sendCh[i] < hand[Pump]

\* What writeLoops hold or have written is older than all of that, and no two
\* writeLoops hold the same event.
GoneInv ==
  /\ \A t \in Loops : Older(hand[t])
  /\ \A c \in Gens : \A i \in DOMAIN wire[c] : Older(wire[c][i])
  /\ \A t, u \in Loops : hand[t] = hand[u] /\ hand[t] # 0 => t = u

LEMMA HandInit == Init => HandInv /\ MadeInv
<1> SUFFICES ASSUME Init PROVE HandInv /\ MadeInv
  OBVIOUS
<1>1. /\ \A t \in Gor : hand[t] = 0
      /\ pc[Pump] = "recv" /\ \A t \in Loops : pc[t] = "none"
  BY GorFacts DEF Init
<1>2. HandInv
  BY <1>1, GorFacts, Threads DEF HandInv
<1>3. MadeInv
  BY <1>1, GorFacts DEF Init, MadeInv
<1> QED  BY <1>2, <1>3

\* One goroutine takes an event and begins to send it, or has sent it.
LEMMA HandMove ==
  ASSUME TypeOK, HandInv, NEW t \in {Pump} \cup {Writer(g) : g \in Gens}, NEW l, NEW e \in Nat,
         pc' = [pc EXCEPT ![t] = l], hand' = [hand EXCEPT ![t] = e],
         t = Pump => (l = "send" <=> e # 0), t # Pump => (l = "write" <=> e # 0)
  PROVE  HandInv'
<1>1. t \in Gor /\ t # Run /\ \A u \in Loops : u[1] # "write" => u # t
  BY GorFacts, Threads DEF Writer, Pump
<1>2. pc'[t] = l /\ hand'[t] = e /\ \A u \in Gor : u # t => pc'[u] = pc[u] /\ hand'[u] = hand[u]
  BY <1>1 DEF TypeOK, PcType, ChanType
<1>3. Pump \in Gor /\ Run \in Gor /\ Loops \subseteq Gor
  BY GorFacts
<1>4. hand'[Run] = 0 /\ \A u \in Loops : u[1] # "write" => hand'[u] = 0
  BY <1>1, <1>2, <1>3 DEF HandInv
<1>5. pc'[Pump] = "send" <=> hand'[Pump] # 0
  BY <1>2, <1>3 DEF HandInv
<1>6. ASSUME NEW g \in Gens PROVE pc'[Writer(g)] = "write" <=> hand'[Writer(g)] # 0
  <2>1. Writer(g) \in Gor /\ Writer(g) # Pump
    BY Threads
  <2> QED  BY <1>2, <2>1 DEF HandInv
<1> QED  BY <1>4, <1>5, <1>6 DEF HandInv

LEMMA HandStep == TypeOK /\ WgInv /\ MadeInv /\ HandInv /\ [Next]_vars => HandInv'
<1> SUFFICES ASSUME TypeOK, WgInv, MadeInv, HandInv, [Next]_vars PROVE HandInv'
  OBVIOUS
<1>1. ASSUME Produce \/ \E g \in Gens : ScanSend(g) PROVE HandInv'
  BY <1>1, AddFacts DEF HandInv
<1>2. CASE PumpRecv
  <2>1. extCh[1] # 0
    BY <1>2, PumpRecvFacts DEF MadeInv
  <2>2. extCh[1] \in Nat /\ hand' = [hand EXCEPT ![Pump] = extCh[1]] /\ pc' = [pc EXCEPT ![Pump] = "send"]
    BY <1>2, PumpRecvFacts
  <2> QED  BY <2>1, <2>2, HandMove
<1>3. CASE PumpSend
  BY <1>3, PumpSendFacts, HandMove
<1>4. CASE PumpExit
  BY <1>4, PumpExitFacts, HandMove
<1>5. ASSUME NEW g \in Gens, WriteTake(g) PROVE HandInv'
  <2>1. sendCh[1] # 0 /\ Writer(g) # Pump
    BY <1>5, WriteTakeFacts, Threads DEF MadeInv
  <2> QED  BY <1>5, <2>1, WriteTakeFacts, HandMove
<1>6. ASSUME NEW g \in Gens, WriteOk(g) PROVE HandInv'
  <2>1. Writer(g) # Pump
    BY Threads
  <2>2. hand' = [hand EXCEPT ![Writer(g)] = 0] /\ pc' = [pc EXCEPT ![Writer(g)] = "loop"]
    BY <1>6, WriteOkFacts
  <2> QED  BY <2>1, <2>2, HandMove
<1>7. ASSUME NEW g \in Gens, WriteErr(g) PROVE HandInv'
  <2>1. Writer(g) # Pump
    BY Threads
  <2> QED  BY <1>7, <2>1, WriteErrFacts, HandMove
<1>8. CASE Idle
  BY <1>8 DEF Idle, evVars, HandInv
<1> QED  BY <1>1, <1>2, <1>3, <1>4, <1>5, <1>6, <1>7, <1>8, EventSteps DEF EventStep

LEMMA MadeStep == TypeOK /\ WgInv /\ HandInv /\ MadeInv /\ [Next]_vars => MadeInv'
<1> SUFFICES ASSUME TypeOK, WgInv, HandInv, MadeInv, [Next]_vars PROVE MadeInv'
  OBVIOUS
<1>0. made \in Nat
  BY DEF TypeOK, ChanType
<1>1. ASSUME Produce \/ \E g \in Gens : ScanSend(g) PROVE MadeInv'
  <2>1. /\ made' = made + 1 /\ UNCHANGED <<sendCh, hand, wire, lost>>
        /\ Len(extCh) \in Nat /\ DOMAIN extCh = 1..Len(extCh)
        /\ DOMAIN extCh' = 1..(Len(extCh) + 1) /\ extCh'[Len(extCh) + 1] = made + 1
        /\ \A i \in 1..Len(extCh) : extCh'[i] = extCh[i]
    BY <1>1, AddFacts
  <2>2. 1..made \subseteq 1..made' /\ 0..made \subseteq 0..made' /\ made + 1 \in 1..made'
    BY <1>0, <2>1
  <2>3. \A i \in DOMAIN extCh' : extCh'[i] \in 1..made'
    BY <2>1, <2>2 DEF MadeInv
  <2>4. /\ \A i \in DOMAIN sendCh : sendCh[i] \in 1..made'
        /\ \A t \in Gor : hand[t] \in 0..made'
        /\ lost \subseteq 1..made'
    BY <2>2 DEF MadeInv
  <2>5. \A c \in Gens : \A i \in DOMAIN wire[c] : wire[c][i] \in 1..made'
    BY <2>2 DEF MadeInv
  <2> QED  BY <2>1, <2>3, <2>4, <2>5 DEF MadeInv
<1>2. CASE PumpRecv
  <2>1. /\ \A i \in DOMAIN extCh' : extCh'[i] \in 1..made
        /\ UNCHANGED <<sendCh, made, wire, lost>>
    <3>1. \A i \in 1..(Len(extCh) - 1) : i + 1 \in DOMAIN extCh
      BY <1>2, PumpRecvFacts
    <3> QED  BY <1>2, <3>1, PumpRecvFacts DEF MadeInv
  <2>2. extCh[1] \in 0..made
    BY <1>0, <1>2, PumpRecvFacts DEF MadeInv
  <2>3. \A t \in Gor : hand'[t] \in 0..made
    BY <1>2, <2>2, PumpRecvFacts DEF MadeInv
  <2> QED  BY <2>1, <2>3 DEF MadeInv
<1>3. CASE PumpSend
  <2>1. hand[Pump] \in 1..made /\ 0 \in 0..made
    BY <1>0, <1>3, PumpSendFacts, GorFacts DEF MadeInv, HandInv
  <2>2. /\ \A i \in DOMAIN sendCh' : sendCh'[i] \in 1..made
        /\ UNCHANGED <<extCh, made, wire, lost>>
    BY <1>3, <2>1, PumpSendFacts DEF MadeInv
  <2>3. \A t \in Gor : hand'[t] \in 0..made
    BY <1>3, <2>1, PumpSendFacts DEF MadeInv
  <2> QED  BY <2>2, <2>3 DEF MadeInv
<1>4. CASE PumpExit
  <2>1. hand[Pump] \in 0..made /\ 0 \in 0..made
    BY <1>0, GorFacts DEF MadeInv
  <2>2. lost' \subseteq 1..made /\ UNCHANGED <<extCh, sendCh, made, wire>>
    BY <1>0, <1>4, <2>1, PumpExitFacts DEF MadeInv
  <2>3. \A t \in Gor : hand'[t] \in 0..made
    BY <1>4, <2>1, PumpExitFacts DEF MadeInv
  <2> QED  BY <2>2, <2>3 DEF MadeInv
<1>5. ASSUME NEW g \in Gens, WriteTake(g) PROVE MadeInv'
  <2>1. /\ \A i \in DOMAIN sendCh' : sendCh'[i] \in 1..made'
        /\ UNCHANGED <<extCh, made, wire, lost>>
    BY <1>0, <1>5, WriteTakeFacts DEF MadeInv
  <2>2. sendCh[1] \in 0..made
    BY <1>0, <1>5, WriteTakeFacts DEF MadeInv
  <2>3. \A t \in Gor : hand'[t] \in 0..made
    BY <1>5, <2>2, WriteTakeFacts DEF MadeInv
  <2> QED  BY <2>1, <2>3 DEF MadeInv
<1>6. ASSUME NEW g \in Gens, WriteOk(g) PROVE MadeInv'
  <2>1. hand[Writer(g)] \in 1..made /\ 0 \in 0..made
    <3>1. hand[Writer(g)] \in 0..made
      BY Threads DEF MadeInv
    <3>2. hand[Writer(g)] # 0
      BY <1>6, WriteOkFacts DEF HandInv
    <3> QED  BY <1>0, <3>1, <3>2
  <2>2. \A c \in Gens : \A i \in DOMAIN wire'[c] : wire'[c][i] \in 1..made
    <3>1. PICK c \in Gens :
              /\ Len(wire[c]) \in Nat /\ DOMAIN wire[c] = 1..Len(wire[c])
              /\ DOMAIN wire'[c] = 1..(Len(wire[c]) + 1)
              /\ wire'[c][Len(wire[c]) + 1] = hand[Writer(g)]
              /\ \A i \in 1..Len(wire[c]) : wire'[c][i] = wire[c][i]
              /\ \A d \in Gens : d # c => wire'[d] = wire[d]
      BY <1>6, WriteOkFacts
    <3>2. \A i \in DOMAIN wire'[c] : wire'[c][i] \in 1..made
      BY <2>1, <3>1 DEF MadeInv
    <3> QED  BY <3>1, <3>2 DEF MadeInv
  <2>3. \A t \in Gor : hand'[t] \in 0..made
    BY <1>6, <2>1, WriteOkFacts DEF MadeInv
  <2>4. UNCHANGED <<extCh, sendCh, made, lost>>
    BY <1>6, WriteOkFacts
  <2> QED  BY <2>2, <2>3, <2>4 DEF MadeInv
<1>7. ASSUME NEW g \in Gens, WriteErr(g) PROVE MadeInv'
  <2>1. hand[Writer(g)] \in 1..made /\ 0 \in 0..made
    <3>1. hand[Writer(g)] \in 0..made
      BY Threads DEF MadeInv
    <3>2. hand[Writer(g)] # 0
      BY <1>7, WriteErrFacts DEF HandInv
    <3> QED  BY <1>0, <3>1, <3>2
  <2>2. lost' \subseteq 1..made /\ UNCHANGED <<extCh, sendCh, made, wire>>
    BY <1>7, <2>1, WriteErrFacts DEF MadeInv
  <2>3. \A t \in Gor : hand'[t] \in 0..made
    BY <1>7, <2>1, WriteErrFacts DEF MadeInv
  <2> QED  BY <2>2, <2>3 DEF MadeInv
<1>8. CASE Idle
  BY <1>8 DEF Idle, evVars, MadeInv
<1> QED  BY <1>1, <1>2, <1>3, <1>4, <1>5, <1>6, <1>7, <1>8, EventSteps DEF EventStep

LEMMA QueueInit == Init => QueueInv /\ GoneInv
BY GorFacts DEF Init, QueueInv, GoneInv, Older

LEMMA QueueStep == TypeOK /\ WgInv /\ HandInv /\ MadeInv /\ QueueInv /\ [Next]_vars => QueueInv'
<1> SUFFICES ASSUME TypeOK, WgInv, HandInv, MadeInv, QueueInv, [Next]_vars PROVE QueueInv'
  OBVIOUS
<1>0. /\ made \in Nat /\ Pump \in Gor /\ hand[Pump] \in Nat
      /\ \A i \in DOMAIN extCh : extCh[i] \in Nat
      /\ \A i \in DOMAIN sendCh : sendCh[i] \in Nat
  BY GorFacts DEF TypeOK, ChanType
<1>1. ASSUME Produce \/ \E g \in Gens : ScanSend(g) PROVE QueueInv'
  <2>1. PICK L \in Nat : /\ DOMAIN extCh = 1..L /\ DOMAIN extCh' = 1..(L + 1)
                         /\ extCh'[L + 1] = made + 1 /\ \A i \in 1..L : extCh'[i] = extCh[i]
    BY <1>1, AddFacts
  <2>2. UNCHANGED <<sendCh, hand>>
    BY <1>1, AddFacts
  <2>3. hand[Pump] < made + 1 /\ \A i \in DOMAIN extCh : extCh[i] < made + 1
    BY <1>0 DEF MadeInv
  <2>4. \A i \in DOMAIN sendCh : sendCh[i] < made + 1
    BY <1>0 DEF MadeInv
  <2>5. \A i, j \in DOMAIN extCh' : i < j => extCh'[i] < extCh'[j]
    BY <2>1, <2>3 DEF QueueInv
  <2>6. \A i \in DOMAIN extCh' : hand[Pump] < extCh'[i]
    BY <2>1, <2>3 DEF QueueInv
  <2>7. \A i \in DOMAIN sendCh : \A j \in DOMAIN extCh' : sendCh[i] < extCh'[j]
    BY <2>1, <2>4 DEF QueueInv
  <2> QED  BY <2>2, <2>5, <2>6, <2>7 DEF QueueInv
<1>2. CASE PumpRecv
  <2>1. PICK L \in Nat : /\ DOMAIN extCh = 1..L /\ 1 \in 1..L /\ DOMAIN extCh' = 1..(L - 1)
                         /\ \A i \in 1..(L - 1) : extCh'[i] = extCh[i + 1]
    BY <1>2, PumpRecvFacts
  <2>2. hand'[Pump] = extCh[1] /\ UNCHANGED sendCh
    BY <1>2, PumpRecvFacts
  <2>3. \A i \in 1..(L - 1) : i + 1 \in DOMAIN extCh /\ 1 < i + 1
    BY <2>1
  <2>4. \A i, j \in DOMAIN extCh' : i < j => extCh'[i] < extCh'[j]
    <3>1. ASSUME NEW i \in 1..(L - 1), NEW j \in 1..(L - 1), i < j PROVE extCh'[i] < extCh'[j]
      <4>1. i + 1 < j + 1
        BY <3>1
      <4> QED  BY <2>1, <2>3, <4>1 DEF QueueInv
    <3> QED  BY <2>1, <3>1
  <2>5. \A i \in DOMAIN extCh' : hand'[Pump] < extCh'[i]
    BY <2>1, <2>2, <2>3 DEF QueueInv
  <2>6. \A i \in DOMAIN sendCh : \A j \in DOMAIN extCh' : sendCh[i] < extCh'[j]
    BY <2>1, <2>3 DEF QueueInv
  <2>7. \A i \in DOMAIN sendCh : sendCh[i] < hand'[Pump]
    BY <2>1, <2>2 DEF QueueInv
  <2> QED  BY <2>2, <2>4, <2>5, <2>6, <2>7 DEF QueueInv
<1>3. CASE PumpSend
  <2>1. PICK L \in Nat : /\ DOMAIN sendCh = 1..L /\ DOMAIN sendCh' = 1..(L + 1)
                         /\ sendCh'[L + 1] = hand[Pump] /\ \A i \in 1..L : sendCh'[i] = sendCh[i]
    BY <1>3, PumpSendFacts
  <2>2. hand'[Pump] = 0 /\ UNCHANGED extCh /\ hand[Pump] # 0
    BY <1>3, PumpSendFacts DEF HandInv
  <2>3. \A i, j \in DOMAIN sendCh' : i < j => sendCh'[i] < sendCh'[j]
    BY <2>1, <2>2 DEF QueueInv
  <2>4. \A i \in DOMAIN extCh : 0 < extCh[i]
    BY <1>0 DEF MadeInv
  <2>5. \A i \in DOMAIN sendCh' : \A j \in DOMAIN extCh : sendCh'[i] < extCh[j]
    BY <2>1 DEF QueueInv
  <2> QED  BY <2>2, <2>3, <2>4, <2>5 DEF QueueInv
<1>4. CASE PumpExit
  <2>1. hand'[Pump] = 0 /\ UNCHANGED <<extCh, sendCh>>
    BY <1>4, PumpExitFacts
  <2>2. \A i \in DOMAIN extCh : 0 < extCh[i]
    BY <1>0 DEF MadeInv
  <2> QED  BY <2>1, <2>2 DEF QueueInv
<1>5. ASSUME NEW g \in Gens, WriteTake(g) PROVE QueueInv'
  <2>1. PICK L \in Nat : /\ DOMAIN sendCh = 1..L /\ DOMAIN sendCh' = 1..(L - 1)
                         /\ \A i \in 1..(L - 1) : sendCh'[i] = sendCh[i + 1]
    BY <1>5, WriteTakeFacts
  <2>2. hand'[Pump] = hand[Pump] /\ UNCHANGED extCh
    BY <1>0, <1>5, WriteTakeFacts, Threads
  <2>3. \A i \in 1..(L - 1) : i + 1 \in DOMAIN sendCh
    BY <2>1
  <2>4. \A i, j \in DOMAIN sendCh' : i < j => sendCh'[i] < sendCh'[j]
    <3>1. ASSUME NEW i \in 1..(L - 1), NEW j \in 1..(L - 1), i < j PROVE sendCh'[i] < sendCh'[j]
      <4>1. i + 1 < j + 1
        BY <3>1
      <4> QED  BY <2>1, <2>3, <4>1 DEF QueueInv
    <3> QED  BY <2>1, <3>1
  <2>5. \A i \in DOMAIN sendCh' : \A j \in DOMAIN extCh : sendCh'[i] < extCh[j]
    BY <2>1, <2>3 DEF QueueInv
  <2>6. hand[Pump] # 0 => \A i \in DOMAIN sendCh' : sendCh'[i] < hand[Pump]
    BY <2>1, <2>3 DEF QueueInv
  <2> QED  BY <2>2, <2>4, <2>5, <2>6 DEF QueueInv
<1>6. ASSUME NEW g \in Gens, WriteOk(g) PROVE QueueInv'
  <2>1. hand'[Pump] = hand[Pump] /\ UNCHANGED <<extCh, sendCh>>
    BY <1>0, <1>6, WriteOkFacts, Threads
  <2> QED  BY <2>1 DEF QueueInv
<1>7. ASSUME NEW g \in Gens, WriteErr(g) PROVE QueueInv'
  <2>1. hand'[Pump] = hand[Pump] /\ UNCHANGED <<extCh, sendCh>>
    BY <1>0, <1>7, WriteErrFacts, Threads
  <2> QED  BY <2>1 DEF QueueInv
<1>8. CASE Idle
  BY <1>8 DEF Idle, evVars, QueueInv
<1> QED  BY <1>1, <1>2, <1>3, <1>4, <1>5, <1>6, <1>7, <1>8, EventSteps DEF EventStep

\* What has left the queues stays older than what is in them.
LEMMA StaysOlder ==
  ASSUME TypeOK, WgInv, HandInv, MadeInv, [Next]_vars, NEW e \in 0..made, Older(e)
  PROVE  Older(e)'
<1>0. made \in Nat /\ Pump \in Gor
  BY GorFacts DEF TypeOK, ChanType
<1>1. ASSUME Produce \/ \E g \in Gens : ScanSend(g) PROVE Older(e)'
  <2>1. e < made + 1
    BY <1>0
  <2> QED  BY <1>0, <1>1, <2>1, AddFacts DEF Older
<1>2. CASE PumpRecv
  <2>1. \A i \in 1..(Len(extCh) - 1) : i + 1 \in DOMAIN extCh
    BY <1>2, PumpRecvFacts
  <2>2. \A i \in DOMAIN extCh' : e < extCh'[i]
    BY <1>2, <2>1, PumpRecvFacts DEF Older
  <2> QED  BY <1>2, <2>2, PumpRecvFacts DEF Older
<1>3. CASE PumpSend
  <2>1. hand[Pump] # 0 /\ hand'[Pump] = 0 /\ UNCHANGED extCh
    BY <1>3, PumpSendFacts DEF HandInv
  <2>2. \A i \in DOMAIN sendCh' : e < sendCh'[i]
    BY <1>3, <2>1, PumpSendFacts DEF Older
  <2> QED  BY <2>1, <2>2 DEF Older
<1>4. CASE PumpExit
  BY <1>4, PumpExitFacts DEF Older
<1>5. ASSUME NEW g \in Gens, WriteTake(g) PROVE Older(e)'
  <2>1. hand'[Pump] = hand[Pump] /\ UNCHANGED extCh
    BY <1>0, <1>5, WriteTakeFacts, Threads
  <2>2. \A i \in 1..(Len(sendCh) - 1) : i + 1 \in DOMAIN sendCh
    BY <1>5, WriteTakeFacts
  <2>3. \A i \in DOMAIN sendCh' : e < sendCh'[i]
    BY <1>5, <2>2, WriteTakeFacts DEF Older
  <2> QED  BY <2>1, <2>3 DEF Older
<1>6. ASSUME NEW g \in Gens, WriteOk(g) PROVE Older(e)'
  <2>1. hand'[Pump] = hand[Pump] /\ UNCHANGED <<extCh, sendCh>>
    BY <1>0, <1>6, WriteOkFacts, Threads
  <2> QED  BY <2>1 DEF Older
<1>7. ASSUME NEW g \in Gens, WriteErr(g) PROVE Older(e)'
  <2>1. hand'[Pump] = hand[Pump] /\ UNCHANGED <<extCh, sendCh>>
    BY <1>0, <1>7, WriteErrFacts, Threads
  <2> QED  BY <2>1 DEF Older
<1>8. CASE Idle
  BY <1>8 DEF Idle, evVars, Older
<1> QED  BY <1>1, <1>2, <1>3, <1>4, <1>5, <1>6, <1>7, <1>8, EventSteps DEF EventStep

\* Only WriteTake puts an event into a loop's hands.
LEMMA Taken ==
  ASSUME TypeOK, WgInv, [Next]_vars
  PROVE  \/ \A t \in Loops : hand'[t] = hand[t] \/ hand'[t] = 0
         \/ \E g \in Gens : WriteTake(g)
<1>1. \A t \in Loops : t \in Gor /\ t # Pump
  BY Threads
<1>2. ASSUME Produce \/ \E g \in Gens : ScanSend(g) PROVE hand' = hand
  BY <1>2, AddFacts
<1>3. CASE PumpRecv
  BY <1>1, <1>3, PumpRecvFacts
<1>4. CASE PumpSend
  BY <1>1, <1>4, PumpSendFacts
<1>5. CASE PumpExit
  BY <1>1, <1>5, PumpExitFacts
<1>6. ASSUME NEW g \in Gens, WriteOk(g) PROVE \A t \in Loops : hand'[t] = hand[t] \/ hand'[t] = 0
  BY <1>1, <1>6, WriteOkFacts
<1>7. ASSUME NEW g \in Gens, WriteErr(g) PROVE \A t \in Loops : hand'[t] = hand[t] \/ hand'[t] = 0
  BY <1>1, <1>7, WriteErrFacts
<1>8. CASE Idle
  BY <1>8 DEF Idle, evVars
<1> QED  BY <1>2, <1>3, <1>4, <1>5, <1>6, <1>7, <1>8, EventSteps DEF EventStep

\* Only WriteOk writes.
LEMMA Written ==
  ASSUME TypeOK, WgInv, [Next]_vars
  PROVE  UNCHANGED wire \/ \E g \in Gens : WriteOk(g)
<1>2. ASSUME Produce \/ \E g \in Gens : ScanSend(g) PROVE wire' = wire
  BY <1>2, AddFacts
<1>3. CASE PumpRecv
  BY <1>3, PumpRecvFacts
<1>4. CASE PumpSend
  BY <1>4, PumpSendFacts
<1>5. CASE PumpExit
  BY <1>5, PumpExitFacts
<1>6. ASSUME NEW g \in Gens, WriteTake(g) PROVE wire' = wire
  BY <1>6, WriteTakeFacts
<1>7. ASSUME NEW g \in Gens, WriteErr(g) PROVE wire' = wire
  BY <1>7, WriteErrFacts
<1>8. CASE Idle
  BY <1>8 DEF Idle, evVars
<1> QED  BY <1>2, <1>3, <1>4, <1>5, <1>6, <1>7, <1>8, EventSteps DEF EventStep

LEMMA GoneStep ==
  TypeOK /\ WgInv /\ HandInv /\ MadeInv /\ QueueInv /\ GoneInv /\ [Next]_vars => GoneInv'
<1> SUFFICES ASSUME TypeOK, WgInv, HandInv, MadeInv, QueueInv, GoneInv, [Next]_vars PROVE GoneInv'
  OBVIOUS
<1>0. made \in Nat /\ Pump \in Gor /\ Loops \subseteq Gor
  BY GorFacts DEF TypeOK, ChanType
<1>1. Older(0)'
  <2>1. Older(0) /\ 0 \in 0..made
    BY <1>0 DEF Older, MadeInv
  <2> QED  BY <2>1, StaysOlder
<1>2. ASSUME NEW t \in Loops, hand'[t] = hand[t] \/ hand'[t] = 0 PROVE Older(hand[t])'
  <2>1. PICK e \in 0..made : e = hand[t]
    BY <1>0 DEF MadeInv
  <2>2. Older(e)
    BY <2>1 DEF GoneInv
  <2>3. Older(e)'
    BY <2>2, StaysOlder
  <2> QED  BY <1>1, <1>2, <2>1, <2>3 DEF Older
<1>3. ASSUME NEW c \in Gens, NEW i \in DOMAIN wire[c], wire'[c][i] = wire[c][i] PROVE Older(wire[c][i])'
  <2>1. wire[c][i] \in 1..made
    BY DEF MadeInv
  <2>2. PICK e \in 0..made : e = wire[c][i]
    BY <1>0, <2>1
  <2>3. Older(e)
    BY <2>2 DEF GoneInv
  <2>4. Older(e)'
    BY <2>3, StaysOlder
  <2> QED  BY <1>3, <2>2, <2>4 DEF Older
<1>4. \A t \in Loops : Older(hand[t])'
  <2>1. ASSUME NEW g \in Gens, WriteTake(g), NEW t \in Loops PROVE Older(hand[t])'
    <3>1. CASE t = Writer(g)
      <4>1. PICK L \in Nat : /\ DOMAIN sendCh = 1..L /\ DOMAIN sendCh' = 1..(L - 1) /\ 1 \in 1..L
                             /\ \A i \in 1..(L - 1) : sendCh'[i] = sendCh[i + 1]
        BY <2>1, WriteTakeFacts
      <4>2. hand'[t] = sendCh[1] /\ hand'[Pump] = hand[Pump] /\ UNCHANGED extCh
        BY <1>0, <2>1, <3>1, WriteTakeFacts, Threads
      <4>3. \A i \in 1..(L - 1) : i + 1 \in 1..L /\ 1 < i + 1
        OBVIOUS
      <4>4. \A i \in DOMAIN sendCh' : hand'[t] < sendCh'[i]
        BY <4>1, <4>2, <4>3 DEF QueueInv
      <4>5. \A i \in DOMAIN extCh : hand'[t] < extCh[i]
        BY <4>1, <4>2 DEF QueueInv
      <4>6. hand[Pump] # 0 => hand'[t] < hand[Pump]
        BY <4>1, <4>2 DEF QueueInv
      <4> QED  BY <4>2, <4>4, <4>5, <4>6 DEF Older
    <3>2. CASE t # Writer(g)
      <4>1. hand'[t] = hand[t]
        BY <1>0, <2>1, <3>2, WriteTakeFacts
      <4> QED  BY <1>2, <4>1
    <3> QED  BY <3>1, <3>2
  <2> QED  BY <1>2, <2>1, Taken
<1>5. \A c \in Gens : \A i \in DOMAIN wire'[c] : Older(wire[c][i])'
  <2>1. CASE UNCHANGED wire
    BY <1>3, <2>1
  <2>2. ASSUME NEW g \in Gens, WriteOk(g), NEW d \in Gens, NEW i \in DOMAIN wire'[d]
        PROVE  Older(wire[d][i])'
    <3>1. PICK c \in Gens :
              /\ Len(wire[c]) \in Nat /\ DOMAIN wire[c] = 1..Len(wire[c])
              /\ DOMAIN wire'[c] = 1..(Len(wire[c]) + 1)
              /\ wire'[c][Len(wire[c]) + 1] = hand[Writer(g)]
              /\ \A j \in 1..Len(wire[c]) : wire'[c][j] = wire[c][j]
              /\ \A k \in Gens : k # c => wire'[k] = wire[k]
      BY <2>2, WriteOkFacts
    <3>2. CASE d = c /\ i = Len(wire[c]) + 1
      <4>1. PICK e \in 0..made : e = hand[Writer(g)]
        BY Threads DEF MadeInv
      <4>2. Older(e)
        BY <4>1, Threads DEF GoneInv
      <4>3. Older(e)'
        BY <4>2, StaysOlder
      <4>4. wire'[d][i] = e
        BY <3>1, <3>2, <4>1
      <4> QED  BY <4>3, <4>4 DEF Older
    <3>3. CASE d = c /\ i # Len(wire[c]) + 1
      <4>1. i \in 1..Len(wire[c])
        BY <3>1, <3>3
      <4> QED  BY <1>3, <3>1, <3>3, <4>1
    <3>4. CASE d # c
      BY <1>3, <3>1, <3>4
    <3> QED  BY <3>2, <3>3, <3>4
  <2> QED  BY <2>1, <2>2, Written
<1>6. \A t, u \in Loops : hand'[t] = hand'[u] /\ hand'[t] # 0 => t = u
  <2>1. CASE \A t \in Loops : hand'[t] = hand[t] \/ hand'[t] = 0
    BY <2>1 DEF GoneInv
  <2>2. ASSUME NEW g \in Gens, WriteTake(g)
        PROVE  \A t, u \in Loops : hand'[t] = hand'[u] /\ hand'[t] # 0 => t = u
    <3>1. /\ 1 \in DOMAIN sendCh /\ sendCh[1] \in Nat /\ hand'[Writer(g)] = sendCh[1]
          /\ \A t \in Gor : t # Writer(g) => hand'[t] = hand[t]
      BY <2>2, WriteTakeFacts
    <3>2. \A t \in Loops : hand[t] \in Nat /\ hand[t] < sendCh[1]
      BY <1>0, <3>1 DEF GoneInv, Older, TypeOK, ChanType
    <3> QED  BY <1>0, <3>1, <3>2 DEF GoneInv
  <2> QED  BY <2>1, <2>2, Taken
<1> QED  BY <1>4, <1>5, <1>6 DEF GoneInv

-----------------------------------------------------------------------------
(* Order on one connection *)

\* One writeLoop has captured connection c, or none.
Sole(c) == \A g, h \in Gens : cn[Writer(g)] = c /\ cn[Writer(h)] = c => g = h

\* A loop captures a connection only once, only a writeLoop that captured c writes to
\* it, and while there is just one, what it holds is younger than what it has written.
WireInv ==
  /\ \A t \in Loops : pc[t] \in {"none", "start"} => cn[t] = NoConn
  /\ \A c \in Gens : \A i \in DOMAIN wire[c] : \E g \in Gens : cn[Writer(g)] = c
  /\ \A c \in Gens : Sole(c) => \A i, j \in DOMAIN wire[c] : i < j => wire[c][i] < wire[c][j]
  /\ \A c, g \in Gens : Sole(c) /\ cn[Writer(g)] = c /\ hand[Writer(g)] # 0 =>
       \A i \in DOMAIN wire[c] : wire[c][i] < hand[Writer(g)]

LEMMA WireInit == Init => WireInv
<1> SUFFICES ASSUME Init PROVE WireInv
  OBVIOUS
<1>1. \A t \in Loops : cn[t] = NoConn
  BY DEF Init
<1>2. \A c \in Gens : DOMAIN wire[c] = {}
  BY DEF Init
<1> QED  BY <1>1, <1>2 DEF WireInv

LEMMA WireStep ==
  TypeOK /\ WgInv /\ HandInv /\ MadeInv /\ GoneInv /\ WireInv /\ [Next]_vars => WireInv'
<1> SUFFICES ASSUME TypeOK, WgInv, HandInv, MadeInv, GoneInv, WireInv, [Next]_vars PROVE WireInv'
  OBVIOUS
<1>0. LoopFacts
  BY LoopSteps
<1>1. \A c \in Gens : c # NoConn
  BY DEF Gens, NoConn
<1>2. \A t \in Loops : cn[t] # NoConn => cn'[t] = cn[t]
  BY <1>0 DEF LoopFacts, LoopStart, WireInv
<1>3. \A g \in Gens : hand[Writer(g)] # 0 => cn'[Writer(g)] = cn[Writer(g)]
  BY <1>0, Threads DEF LoopFacts, LoopStart, HandInv
<1>4. \A c \in Gens : Sole(c)' => Sole(c)
  <2>1. \A c, g \in Gens : cn[Writer(g)] = c => cn'[Writer(g)] = c
    BY <1>1, <1>2, Threads
  <2> QED  BY <2>1 DEF Sole
<1>5. \A t \in Loops : pc'[t] \in {"none", "start"} => cn'[t] = NoConn
  BY <1>0 DEF LoopFacts, WireInv
<1>6. CASE UNCHANGED wire
  <2>1. \A c \in Gens : \A i \in DOMAIN wire[c] : \E g \in Gens : cn'[Writer(g)] = c
    BY <1>1, <1>2, Threads DEF WireInv
  <2>2. \A c \in Gens : Sole(c)' => \A i, j \in DOMAIN wire[c] : i < j => wire[c][i] < wire[c][j]
    BY <1>4 DEF WireInv
  <2>3. ASSUME NEW c \in Gens, NEW g \in Gens, Sole(c)', cn'[Writer(g)] = c, hand'[Writer(g)] # 0,
               NEW i \in DOMAIN wire[c]
        PROVE  wire[c][i] < hand'[Writer(g)]
    <3>1. CASE hand'[Writer(g)] = hand[Writer(g)]
      BY <1>3, <1>4, <2>3, <3>1 DEF WireInv
    <3>2. CASE hand'[Writer(g)] # hand[Writer(g)]
      <4>1. Writer(g) \in Loops /\ Writer(g) \in Gor
        BY Threads
      <4>2. PICK k \in Gens : WriteTake(k)
        BY <2>3, <3>2, <4>1, Taken
      <4>3. hand'[Writer(g)] = sendCh[1] /\ 1 \in DOMAIN sendCh
        BY <3>2, <4>1, <4>2, WriteTakeFacts
      <4> QED  BY <4>3 DEF GoneInv, Older
    <3> QED  BY <3>1, <3>2
  <2> QED  BY <1>5, <1>6, <2>1, <2>2, <2>3 DEF WireInv
<1>7. ASSUME NEW k \in Gens, WriteOk(k) PROVE WireInv'
  <2>1. PICK c \in Gens :
              /\ c = cn[Writer(k)]
              /\ Len(wire[c]) \in Nat /\ DOMAIN wire[c] = 1..Len(wire[c])
              /\ DOMAIN wire'[c] = 1..(Len(wire[c]) + 1)
              /\ wire'[c][Len(wire[c]) + 1] = hand[Writer(k)]
              /\ \A j \in 1..Len(wire[c]) : wire'[c][j] = wire[c][j]
              /\ \A d \in Gens : d # c => wire'[d] = wire[d]
    BY <1>7, WriteOkFacts
  <2>2. /\ cn' = cn /\ hand'[Writer(k)] = 0 /\ \A t \in Gor : t # Writer(k) => hand'[t] = hand[t]
        /\ hand[Writer(k)] # 0
    BY <1>7, WriteOkFacts DEF HandInv
  <2>3. \A d \in Gens : \A i \in DOMAIN wire'[d] : \E g \in Gens : cn'[Writer(g)] = d
    BY <2>1, <2>2 DEF WireInv
  <2>4. \A d \in Gens : Sole(d)' <=> Sole(d)
    BY <2>2 DEF Sole
  <2>5. Sole(c) => \A i, j \in DOMAIN wire'[c] : i < j => wire'[c][i] < wire'[c][j]
    <3> SUFFICES ASSUME Sole(c) PROVE \A i, j \in DOMAIN wire'[c] : i < j => wire'[c][i] < wire'[c][j]
      OBVIOUS
    <3>1. \A i, j \in 1..Len(wire[c]) : i < j => wire[c][i] < wire[c][j]
      BY <2>1 DEF WireInv
    <3>2. \A i \in 1..Len(wire[c]) : wire[c][i] < hand[Writer(k)]
      BY <2>1, <2>2 DEF WireInv
    <3> QED  BY <2>1, <3>1, <3>2
  <2>6. \A d \in Gens : Sole(d) => \A i, j \in DOMAIN wire'[d] : i < j => wire'[d][i] < wire'[d][j]
    BY <2>1, <2>5 DEF WireInv
  <2>7. ASSUME NEW d \in Gens, NEW g \in Gens, Sole(d), cn[Writer(g)] = d, hand'[Writer(g)] # 0,
               NEW i \in DOMAIN wire'[d]
        PROVE  wire'[d][i] < hand'[Writer(g)]
    <3>1. g # k /\ Writer(g) # Writer(k) /\ Writer(g) \in Gor
      BY <2>2, <2>7, Threads
    <3>2. d # c
      BY <2>1, <2>7, <3>1 DEF Sole
    <3> QED  BY <2>1, <2>2, <2>7, <3>1, <3>2 DEF WireInv
  <2> QED  BY <1>5, <2>2, <2>3, <2>4, <2>6, <2>7 DEF WireInv
<1> QED  BY <1>6, <1>7, Written

\* All that the order of the events needs.
StreamInv == TypeOK /\ WgInv /\ HandInv /\ MadeInv /\ QueueInv /\ GoneInv /\ WireInv

LEMMA StreamInvariant == Spec => []StreamInv
<1>1. Init => HandInv /\ MadeInv /\ QueueInv /\ GoneInv /\ WireInv
  BY HandInit, QueueInit, WireInit
<1>2. /\ TypeOK /\ WgInv
      /\ HandInv /\ MadeInv /\ QueueInv /\ GoneInv /\ WireInv
      /\ [Next]_vars
      => (HandInv /\ MadeInv /\ QueueInv /\ GoneInv /\ WireInv)'
  BY HandStep, MadeStep, QueueStep, GoneStep, WireStep
<1> QED  BY <1>1, <1>2, TypeCorrect, WgInvariant, PTL DEF Spec, StreamInv

\* On a connection that one writeLoop used alone, events appear in the order in which
\* they entered EventChannel - although writeLoops of older generations may still
\* take frames from the same sendCh.
THEOREM WireIsInOrder == Spec => []WireInOrder
<1>1. StreamInv => WireInOrder
  BY DEF StreamInv, WireInv, WireInOrder, Sole, Writer
<1> QED  BY <1>1, StreamInvariant, PTL

-----------------------------------------------------------------------------
(* How many events can be lost *)

\* The goroutines that may each have discarded one event.
DoneWriters == {g \in Gens : pc[Writer(g)] = "done"}
DonePump == {t \in {Pump} : pc[t] = "done"}

LossInv ==
  /\ IsFiniteSet(lost)
  /\ Cardinality(lost) <= Cardinality(DoneWriters) + Cardinality(DonePump)

LEMMA GensFinite == IsFiniteSet(Gens)
<1>1. 1 \in Int /\ MaxDials \in Int /\ Gens = 1..MaxDials
  BY DialsType
<1>2. IsFiniteSet(1..MaxDials)
  BY <1>1, FS_Interval
<1> QED  BY <1>1, <1>2

LEMMA LossInit == Init => LossInv
<1> SUFFICES ASSUME Init PROVE LossInv
  OBVIOUS
<1>1. lost = {} /\ IsFiniteSet(lost) /\ Cardinality(lost) = 0
  BY FS_EmptySet DEF Init
<1>2. IsFiniteSet(Gens) /\ IsFiniteSet({Pump})
  BY GensFinite, FS_Singleton
<1>3. Cardinality(DoneWriters) \in Nat /\ Cardinality(DonePump) \in Nat
  BY <1>2, FS_Subset, FS_CardinalityType DEF DoneWriters, DonePump
<1> QED  BY <1>1, <1>3 DEF LossInv

LEMMA LossStep == TypeOK /\ WgInv /\ HandInv /\ LossInv /\ [Next]_vars => LossInv'
<1> SUFFICES ASSUME TypeOK, WgInv, HandInv, LossInv, [Next]_vars PROVE LossInv'
  OBVIOUS
<1>1. IsFiniteSet(Gens) /\ IsFiniteSet({Pump})
  BY GensFinite, FS_Singleton
<1>2. /\ IsFiniteSet(DoneWriters) /\ IsFiniteSet(DoneWriters') /\ IsFiniteSet(DonePump) /\ IsFiniteSet(DonePump')
  <2>1. DoneWriters \subseteq Gens /\ DoneWriters' \subseteq Gens /\ DonePump \subseteq {Pump} /\ DonePump' \subseteq {Pump}
    BY DEF DoneWriters, DonePump
  <2> QED  BY <1>1, <2>1, FS_Subset
<1>3. DoneWriters \subseteq DoneWriters' /\ DonePump \subseteq DonePump'
  <2>1. LoopFacts
    BY LoopSteps
  <2> QED  BY <2>1, GorFacts, Threads DEF LoopFacts, DoneWriters, DonePump
<1>4. /\ Cardinality(DoneWriters) \in Nat /\ Cardinality(DoneWriters') \in Nat
      /\ Cardinality(DonePump) \in Nat /\ Cardinality(DonePump') \in Nat /\ Cardinality(lost) \in Nat
  BY <1>2, FS_CardinalityType DEF LossInv
<1>5. Cardinality(DoneWriters) <= Cardinality(DoneWriters') /\ Cardinality(DonePump) <= Cardinality(DonePump')
  BY <1>2, <1>3, FS_Subset
<1>6. CASE UNCHANGED lost
  BY <1>4, <1>5, <1>6 DEF LossInv
<1>7. ASSUME NEW e, lost' = lost \cup {e}
      PROVE  IsFiniteSet(lost') /\ Cardinality(lost') \in Nat /\ Cardinality(lost') <= Cardinality(lost) + 1
  <2>1. IsFiniteSet(lost)
    BY DEF LossInv
  <2>2. /\ IsFiniteSet(lost \cup {e})
        /\ Cardinality(lost \cup {e}) = IF e \in lost THEN Cardinality(lost) ELSE Cardinality(lost) + 1
    BY <2>1, FS_AddElement
  <2> QED  BY <1>4, <1>7, <2>2
<1>8. CASE PumpExit
  <2>1. DonePump = {} /\ DonePump' = {Pump}
    BY <1>8, PumpExitFacts, GorFacts DEF PumpExit, DonePump, TypeOK, PcType
  <2>2. Cardinality(DonePump) = 0 /\ Cardinality(DonePump') = 1
    BY <2>1, FS_EmptySet, FS_Singleton
  <2>3. CASE hand[Pump] = 0
    <3>1. UNCHANGED lost
      BY <1>8, <2>3, PumpExitFacts
    <3> QED  BY <1>6, <3>1
  <2>4. CASE hand[Pump] # 0
    <3>1. lost' = lost \cup {hand[Pump]}
      BY <1>8, <2>4, PumpExitFacts
    <3>2. IsFiniteSet(lost') /\ Cardinality(lost') \in Nat /\ Cardinality(lost') <= Cardinality(lost) + 1
      BY <1>7, <3>1
    <3> QED  BY <1>4, <1>5, <2>2, <3>2 DEF LossInv
  <2> QED  BY <2>3, <2>4
<1>9. ASSUME NEW g \in Gens, WriteErr(g) PROVE LossInv'
  <2>1. pc[Writer(g)] = "write" /\ pc'[Writer(g)] = "done" /\ lost' = lost \cup {hand[Writer(g)]}
    BY <1>9, WriteErrFacts, Threads DEF TypeOK, PcType
  <2>2. g \notin DoneWriters /\ g \in DoneWriters'
    BY <2>1 DEF DoneWriters
  <2>3. Cardinality(DoneWriters) + 1 <= Cardinality(DoneWriters')
    <3>1. DoneWriters \cup {g} \subseteq DoneWriters'
      BY <1>3, <2>2
    <3>2. IsFiniteSet(DoneWriters \cup {g}) /\ Cardinality(DoneWriters \cup {g}) = Cardinality(DoneWriters) + 1
      BY <1>2, <2>2, FS_AddElement
    <3> QED  BY <1>2, <3>1, <3>2, FS_Subset
  <2>4. IsFiniteSet(lost') /\ Cardinality(lost') \in Nat /\ Cardinality(lost') <= Cardinality(lost) + 1
    BY <1>7, <2>1
  <2> QED  BY <1>4, <1>5, <2>3, <2>4 DEF LossInv
<1>10. UNCHANGED lost \/ PumpExit \/ \E g \in Gens : WriteErr(g)
  <2>1. ASSUME Produce \/ \E g \in Gens : ScanSend(g) PROVE lost' = lost
    BY <2>1, AddFacts
  <2>2. CASE PumpRecv
    BY <2>2, PumpRecvFacts
  <2>3. CASE PumpSend
    BY <2>3, PumpSendFacts
  <2>4. ASSUME NEW g \in Gens, WriteTake(g) PROVE lost' = lost
    BY <2>4, WriteTakeFacts
  <2>5. ASSUME NEW g \in Gens, WriteOk(g) PROVE lost' = lost
    BY <2>5, WriteOkFacts
  <2>6. CASE Idle
    BY <2>6 DEF Idle, evVars
  <2> QED  BY <2>1, <2>2, <2>3, <2>4, <2>5, <2>6, EventSteps DEF EventStep
<1> QED  BY <1>6, <1>8, <1>9, <1>10

\* The client itself never discards more events than writeLoops (and the pump) have
\* returned, however often it reconnects.  Frames that WriteMessage accepts on a
\* connection already broken are not counted: they are on `wire'.
THEOREM LossIsBounded == Spec => []LossBound
<1>1. StreamInv /\ LossInv /\ [Next]_vars => LossInv'
  BY LossStep DEF StreamInv
<1>2. LossInv => LossBound
  BY DEF LossInv, LossBound, DoneWriters, DonePump, Writer
<1> QED  BY <1>1, <1>2, LossInit, StreamInvariant, PTL DEF Spec

-----------------------------------------------------------------------------
(* How many events there can be *)

\* The modules that running scans have still to report.
ToReport == {p \in Gens \X (1..ScanMods) : p[2] <= scanLeft[p[1]]}

\* Only a running scan has modules left, never more than all scans may report, and
\* those still to come leave room in Event for themselves.
ScanInv ==
  /\ scans \in 0..MaxScans
  /\ \A g \in Gens : scanLeft[g] \in 0..ScanMods /\ (pc[Reader(g)] # "scan" => scanLeft[g] = 0)
  /\ IsFiniteSet(ToReport)
  /\ Cardinality(ToReport) <= scans * ScanMods
  /\ made + Cardinality(ToReport) <= MaxEvents + scans * ScanMods

LEMMA Times == \A m, n \in Nat : m * n \in Nat /\ (m + 1) * n = m * n + n
OBVIOUS

LEMMA TimesMonotone == \A k, m, n \in Nat : k <= m => k * n <= m * n
<1> SUFFICES ASSUME NEW k \in Nat, NEW m \in Nat, NEW n \in Nat, k <= m PROVE k * n <= m * n
  OBVIOUS
<1>1. PICK d \in Nat : m = k + d
  <2>1. m - k \in Nat /\ m = k + (m - k)
    OBVIOUS
  <2> QED  BY <2>1
<1>2. m * n = k * n + d * n /\ k * n \in Nat /\ d * n \in Nat
  BY <1>1
<1> QED  BY <1>2

LEMMA ScanInit == Init => ScanInv
<1> SUFFICES ASSUME Init PROVE ScanInv
  OBVIOUS
<1>1. scans = 0 /\ made = 0 /\ scanLeft = [g \in Gens |-> 0]
  BY DEF Init
<1>2. ToReport = {}
  BY <1>1 DEF ToReport
<1>3. IsFiniteSet(ToReport) /\ Cardinality(ToReport) = 0
  BY <1>2, FS_EmptySet
<1>4. scans * ScanMods = 0
  BY <1>1, ConstAssumption
<1> QED  BY <1>1, <1>3, <1>4, ConstAssumption DEF ScanInv

LEMMA ScanStep == TypeOK /\ WgInv /\ ScanInv /\ [Next]_vars => ScanInv'
<1> SUFFICES ASSUME TypeOK, WgInv, ScanInv, [Next]_vars PROVE ScanInv'
  OBVIOUS
<1>0. /\ made \in Nat /\ scans \in Nat /\ ScanMods \in Nat /\ MaxScans \in Nat /\ MaxEvents \in Nat
      /\ scanLeft \in [Gens -> Nat] /\ pc \in [Gor -> PumpPc \cup RunPc \cup LoopPc]
  BY ConstAssumption DEF TypeOK, ChanType, MiscType, PcType
<1>1. Cardinality(ToReport) \in Nat /\ scans * ScanMods \in Nat
  BY <1>0, FS_CardinalityType, Times DEF ScanInv
<1>2. ASSUME NEW g \in Gens, ReadScanDLL(g) PROVE ScanInv'
  <2>1. PICK n \in 0..ScanMods : scanLeft' = [scanLeft EXCEPT ![g] = n]
    BY <1>2 DEF ReadScanDLL
  <2>2. /\ pc[Reader(g)] = "loop" /\ pc' = [pc EXCEPT ![Reader(g)] = "scan"]
        /\ scans < MaxScans /\ scans' = scans + 1 /\ made' = made
    BY <1>2 DEF ReadScanDLL, Goto, Reader, chanVars
  <2>3. \A h \in Gens : scanLeft'[h] \in 0..ScanMods /\ (pc'[Reader(h)] # "scan" => scanLeft'[h] = 0)
    <3>1. \A h \in Gens : h # g => scanLeft'[h] = scanLeft[h] /\ pc'[Reader(h)] = pc[Reader(h)]
      BY <1>0, <2>1, <2>2, Threads
    <3>2. scanLeft'[g] = n /\ pc'[Reader(g)] = "scan"
      BY <1>0, <2>1, <2>2, Threads
    <3> QED  BY <3>1, <3>2 DEF ScanInv
  <2>4. ToReport' = ToReport \cup ({g} \X (1..n))
    <3>1. scanLeft[g] = 0 /\ n \in Nat /\ n <= ScanMods
      BY <1>0, <2>2 DEF ScanInv
    <3>2. ASSUME NEW h \in Gens, NEW k \in 1..ScanMods
          PROVE  k <= scanLeft'[h] <=> (k <= scanLeft[h] \/ (h = g /\ k \in 1..n))
      BY <1>0, <2>1, <3>1
    <3>3. {g} \X (1..n) \subseteq Gens \X (1..ScanMods)
      BY <1>0, <3>1
    <3> QED  BY <3>2, <3>3 DEF ToReport
  <2>5. IsFiniteSet({g} \X (1..n)) /\ Cardinality({g} \X (1..n)) <= ScanMods
        /\ Cardinality({g} \X (1..n)) \in Nat
    <3>1. n \in Int /\ 1 \in Int /\ n \in Nat /\ n <= ScanMods
      BY <1>0
    <3>2. IsFiniteSet(1..n) /\ Cardinality(1..n) = IF 1 > n THEN 0 ELSE n - 1 + 1
      BY <3>1, FS_Interval
    <3>3. IsFiniteSet({g}) /\ Cardinality({g}) = 1
      BY FS_Singleton
    <3>4. IsFiniteSet({g} \X (1..n)) /\ Cardinality({g} \X (1..n)) = Cardinality({g}) * Cardinality(1..n)
      BY <3>2, <3>3, FS_Product
    <3>5. Cardinality(1..n) = n
      BY <3>1, <3>2
    <3> QED  BY <1>0, <3>1, <3>3, <3>4, <3>5
  <2>6. /\ IsFiniteSet(ToReport') /\ Cardinality(ToReport') \in Nat
        /\ Cardinality(ToReport') <= Cardinality(ToReport) + ScanMods
    <3>1. IsFiniteSet(ToReport)
      BY DEF ScanInv
    <3>2. /\ IsFiniteSet(ToReport \cup ({g} \X (1..n)))
          /\ Cardinality(ToReport \cup ({g} \X (1..n))) =
               Cardinality(ToReport) + Cardinality({g} \X (1..n)) - Cardinality(ToReport \cap ({g} \X (1..n)))
      BY <2>5, <3>1, FS_Union
    <3>3. Cardinality(ToReport \cap ({g} \X (1..n))) \in Nat
      <4>1. IsFiniteSet(ToReport \cap ({g} \X (1..n)))
        BY <3>1, FS_Subset
      <4> QED  BY <4>1, FS_CardinalityType
    <3>4. Cardinality(ToReport') \in Nat
      BY <2>4, <3>2, FS_CardinalityType
    <3> QED  BY <1>0, <1>1, <2>4, <2>5, <3>2, <3>3, <3>4
  <2>7. scans' * ScanMods = scans * ScanMods + ScanMods /\ scans' \in 0..MaxScans
    BY <1>0, <2>2, Times
  <2>8. Cardinality(ToReport) <= scans * ScanMods /\ made + Cardinality(ToReport) <= MaxEvents + scans * ScanMods
    BY DEF ScanInv
  <2>9. Cardinality(ToReport') <= scans' * ScanMods /\ made' + Cardinality(ToReport') <= MaxEvents + scans' * ScanMods
    BY <1>0, <1>1, <2>2, <2>6, <2>7, <2>8
  <2> QED  BY <2>3, <2>6, <2>7, <2>9 DEF ScanInv
<1>3. ASSUME NEW g \in Gens, ScanSend(g) PROVE ScanInv'
  <2>1. /\ scanLeft' = [scanLeft EXCEPT ![g] = scanLeft[g] - 1] /\ scanLeft[g] > 0
        /\ UNCHANGED <<pc, scans>> /\ made' = made + 1 /\ pc[Reader(g)] = "scan"
    BY <1>3 DEF ScanSend, MoreModules, SendExt, gorVars, Reader
  <2>2. \A h \in Gens : scanLeft'[h] \in 0..ScanMods /\ (pc'[Reader(h)] # "scan" => scanLeft'[h] = 0)
    <3>1. scanLeft'[g] \in 0..ScanMods
      BY <1>0, <2>1 DEF ScanInv
    <3> QED  BY <1>0, <2>1, <3>1 DEF ScanInv
  <2>3. PICK p \in Gens \X (1..ScanMods) : p = <<g, scanLeft[g]>>
    <3>1. scanLeft[g] \in 1..ScanMods
      BY <1>0, <2>1 DEF ScanInv
    <3> QED  BY <3>1
  <2>4. ToReport' = ToReport \ {p}
    <3>1. ASSUME NEW h \in Gens, NEW k \in 1..ScanMods
          PROVE  k <= scanLeft'[h] <=> (k <= scanLeft[h] /\ ~(h = g /\ k = scanLeft[g]))
      BY <1>0, <2>1
    <3>2. ASSUME NEW q \in Gens \X (1..ScanMods)
          PROVE  q[2] <= scanLeft'[q[1]] <=> (q[2] <= scanLeft[q[1]] /\ q # p)
      <4>1. PICK h \in Gens, k \in 1..ScanMods : q = <<h, k>>
        OBVIOUS
      <4>2. q[1] = h /\ q[2] = k /\ (q = p <=> h = g /\ k = scanLeft[g])
        BY <2>3, <4>1
      <4> QED  BY <3>1, <4>2
    <3> QED  BY <3>2 DEF ToReport
  <2>5. p \in ToReport
    BY <1>0, <2>3 DEF ToReport
  <2>6. IsFiniteSet(ToReport') /\ Cardinality(ToReport') = Cardinality(ToReport) - 1
    BY <2>4, <2>5, FS_RemoveElement DEF ScanInv
  <2>7. Cardinality(ToReport) <= scans * ScanMods /\ made + Cardinality(ToReport) <= MaxEvents + scans * ScanMods
    BY DEF ScanInv
  <2>8. Cardinality(ToReport') <= scans * ScanMods /\ made' + Cardinality(ToReport') <= MaxEvents + scans * ScanMods
    BY <1>0, <1>1, <2>1, <2>6, <2>7
  <2> QED  BY <2>1, <2>2, <2>6, <2>8 DEF ScanInv
<1>4. ASSUME NEW g \in Gens, ScanEnd(g) PROVE ScanInv'
  <2>1. /\ scanLeft' = scanLeft /\ ~(scanLeft[g] > 0) /\ UNCHANGED <<scans, made>>
        /\ pc' = [pc EXCEPT ![Reader(g)] = "loop"]
    BY <1>4 DEF ScanEnd, MoreModules, Goto, Reader, scanVars, chanVars
  <2>2. ToReport' = ToReport
    BY <2>1 DEF ToReport
  <2>3. scanLeft[g] = 0
    BY <1>0, <2>1
  <2>4. \A h \in Gens : h # g => pc'[Reader(h)] = pc[Reader(h)]
    BY <1>0, <2>1, Threads
  <2> QED  BY <2>1, <2>2, <2>3, <2>4 DEF ScanInv
<1>5. ASSUME UNCHANGED scanVars, \A g \in Gens : pc'[Reader(g)] = "scan" <=> pc[Reader(g)] = "scan"
      PROVE  (\E g \in Gens : ScanSend(g)) \/ ScanInv'
  <2>1. UNCHANGED <<scans, scanLeft>>
    BY <1>5 DEF scanVars
  <2>2. ToReport' = ToReport
    BY <2>1 DEF ToReport
  <2>3. ASSUME UNCHANGED made PROVE ScanInv'
    BY <1>5, <2>1, <2>2, <2>3 DEF ScanInv
  <2>4. CASE Produce
    <3>1. made' = made + 1 /\ made < MaxEvents
      BY <2>4 DEF Produce, SendExt
    <3>2. made' + Cardinality(ToReport) <= MaxEvents + scans * ScanMods
      BY <1>0, <1>1, <3>1 DEF ScanInv
    <3> QED  BY <1>5, <2>1, <2>2, <3>2 DEF ScanInv
  <2>5. CASE PumpRecv
    BY <2>3, <2>5, PumpRecvFacts
  <2>6. CASE PumpSend
    BY <2>3, <2>6, PumpSendFacts
  <2>7. CASE PumpExit
    BY <2>3, <2>7, PumpExitFacts
  <2>8. ASSUME NEW g \in Gens, WriteTake(g) PROVE ScanInv'
    BY <2>3, <2>8, WriteTakeFacts
  <2>9. ASSUME NEW g \in Gens, WriteOk(g) PROVE ScanInv'
    BY <2>3, <2>9, WriteOkFacts
  <2>10. ASSUME NEW g \in Gens, WriteErr(g) PROVE ScanInv'
    BY <2>3, <2>10, WriteErrFacts
  <2>11. CASE Idle
    BY <2>3, <2>11 DEF Idle, evVars
  <2> QED  BY <2>4, <2>5, <2>6, <2>7, <2>8, <2>9, <2>10, <2>11, EventSteps DEF EventStep
<1> QED
  <2>1. LoopFacts
    BY LoopSteps
  <2> QED  BY <1>2, <1>3, <1>4, <1>5, <2>1 DEF LoopFacts

-----------------------------------------------------------------------------
(* The client implements EventStream *)

\* The definitions behind Pending and WirePlaces, of any channels, hands and wires.
OnTheWay(x, s, h) == Elems(x) \cup Elems(s) \cup ({h[t] : t \in Gor} \ {0})
Places(w, e) == {p \in UNION {{g} \X DOMAIN w[g] : g \in Gens} : w[p[1]][p[2]] = e}

LEMMA OnTheWayIs ==
  \A x, s, h, e : e \in OnTheWay(x, s, h) <=>
    \/ \E i \in DOMAIN x : x[i] = e
    \/ \E i \in DOMAIN s : s[i] = e
    \/ e # 0 /\ \E t \in Gor : h[t] = e
BY DEF OnTheWay, Elems

LEMMA PlacesAre ==
  \A w, e, p : p \in Places(w, e) <=> \E g \in Gens : \E i \in DOMAIN w[g] : p = <<g, i>> /\ w[g][i] = e
BY DEF Places

LEMMA MappedIs ==
  /\ Pending = OnTheWay(extCh, sendCh, hand) /\ Pending' = OnTheWay(extCh', sendCh', hand')
  /\ \A e : WirePlaces(e) = Places(wire, e) /\ WirePlaces(e)' = Places(wire', e)
BY DEF Pending, OnTheWay, Held, WirePlaces, Places, Elems

LEMMA PendingIs ==
  \A e : /\ e \in Pending <=> \/ \E i \in DOMAIN extCh : extCh[i] = e
                              \/ \E i \in DOMAIN sendCh : sendCh[i] = e
                              \/ e # 0 /\ \E t \in Gor : hand[t] = e
         /\ e \in Pending' <=> \/ \E i \in DOMAIN extCh' : extCh'[i] = e
                               \/ \E i \in DOMAIN sendCh' : sendCh'[i] = e
                               \/ e # 0 /\ \E t \in Gor : hand'[t] = e
BY MappedIs, OnTheWayIs

\* y is the channel x without its first element.
TailOf(y, x) ==
  \E n \in Nat : /\ DOMAIN x = 1..n /\ 1 \in 1..n /\ DOMAIN y = 1..(n - 1)
                 /\ \A i \in 1..(n - 1) : y[i] = x[i + 1]

LEMMA TailElems ==
  ASSUME NEW x, NEW y, TailOf(y, x), NEW d
  PROVE  (\E i \in DOMAIN x : x[i] = d) <=> (\E i \in DOMAIN y : y[i] = d) \/ d = x[1]
<1>0. PICK n \in Nat : /\ DOMAIN x = 1..n /\ 1 \in 1..n /\ DOMAIN y = 1..(n - 1)
                       /\ \A i \in 1..(n - 1) : y[i] = x[i + 1]
  BY DEF TailOf
<1>1. ASSUME NEW i \in DOMAIN x, x[i] = d PROVE (\E k \in DOMAIN y : y[k] = d) \/ d = x[1]
  <2>1. CASE i = 1
    BY <1>0, <1>1, <2>1
  <2>2. CASE i # 1
    <3>1. i - 1 \in 1..(n - 1) /\ (i - 1) + 1 = i
      BY <1>0, <2>2
    <3>2. y[i - 1] = d
      BY <1>0, <1>1, <3>1
    <3> QED  BY <1>0, <3>1, <3>2
  <2> QED  BY <2>1, <2>2
<1>2. ASSUME NEW i \in DOMAIN y, y[i] = d PROVE \E k \in DOMAIN x : x[k] = d
  <2>1. i + 1 \in 1..n /\ x[i + 1] = d
    BY <1>0, <1>2
  <2> QED  BY <1>0, <2>1
<1>3. 1 \in DOMAIN x
  BY <1>0
<1> QED  BY <1>1, <1>2, <1>3

\* Every event is on the wire finitely often.
CountInv == \A e \in Event : IsFiniteSet(WirePlaces(e))

LEMMA CountInit == Init => CountInv
<1> SUFFICES ASSUME Init, NEW e \in Event PROVE IsFiniteSet(WirePlaces(e))
  BY DEF CountInv
<1>1. \A c \in Gens : DOMAIN wire[c] = {}
  BY DEF Init
<1>2. WirePlaces(e) = {}
  BY <1>1, PlacesAre, MappedIs
<1> QED  BY <1>2, FS_EmptySet

\* A write puts one event on the wire once.
LEMMA WritePlaces ==
  ASSUME TypeOK, NEW g \in Gens, WriteOk(g), NEW e
  PROVE  /\ e # hand[Writer(g)] => Places(wire', e) = Places(wire, e)
         /\ e = hand[Writer(g)] => \E p : p \notin Places(wire, e) /\ Places(wire', e) = Places(wire, e) \cup {p}
<1>1. PICK c \in Gens :
          /\ Len(wire[c]) \in Nat /\ DOMAIN wire[c] = 1..Len(wire[c])
          /\ DOMAIN wire'[c] = 1..(Len(wire[c]) + 1)
          /\ wire'[c][Len(wire[c]) + 1] = hand[Writer(g)]
          /\ \A i \in 1..Len(wire[c]) : wire'[c][i] = wire[c][i]
          /\ \A d \in Gens : d # c => wire'[d] = wire[d]
  BY WriteOkFacts
<1>2. PICK n \in Nat : n = Len(wire[c]) + 1
  BY <1>1
<1>3. ASSUME NEW d \in Gens, NEW i
      PROVE  (i \in DOMAIN wire'[d] /\ wire'[d][i] = e) <=>
             \/ i \in DOMAIN wire[d] /\ wire[d][i] = e
             \/ d = c /\ i = n /\ e = hand[Writer(g)]
  BY <1>1, <1>2
<1>4. n \notin DOMAIN wire[c]
  BY <1>1, <1>2
<1>5. CASE e # hand[Writer(g)]
  <2>1. \A p : p \in Places(wire', e) <=> p \in Places(wire, e)
    BY <1>3, <1>5, PlacesAre
  <2> QED  BY <1>5, <2>1
<1>6. CASE e = hand[Writer(g)]
  <2>1. <<c, n>> \notin Places(wire, e)
    BY <1>4, PlacesAre
  <2>2. \A p : p \in Places(wire', e) <=> p \in Places(wire, e) \/ p = <<c, n>>
    BY <1>3, <1>6, PlacesAre
  <2>3. Places(wire', e) = Places(wire, e) \cup {<<c, n>>}
    BY <2>2
  <2> QED  BY <1>6, <2>1, <2>3
<1> QED  BY <1>5, <1>6

LEMMA CountStep == TypeOK /\ WgInv /\ CountInv /\ [Next]_vars => CountInv'
<1> SUFFICES ASSUME TypeOK, WgInv, CountInv, [Next]_vars, NEW e \in Event PROVE IsFiniteSet(WirePlaces(e)')
  BY DEF CountInv, Event
<1>1. IsFiniteSet(Places(wire, e))
  BY MappedIs DEF CountInv
<1>2. CASE UNCHANGED wire
  BY <1>1, <1>2, MappedIs
<1>3. ASSUME NEW g \in Gens, WriteOk(g) PROVE IsFiniteSet(Places(wire', e))
  <2>1. CASE e # hand[Writer(g)]
    BY <1>1, <1>3, <2>1, WritePlaces
  <2>2. CASE e = hand[Writer(g)]
    <3>1. PICK p : Places(wire', e) = Places(wire, e) \cup {p}
      BY <1>3, <2>2, WritePlaces
    <3> QED  BY <1>1, <3>1, FS_AddElement
  <2> QED  BY <2>1, <2>2
<1> QED  BY <1>2, <1>3, MappedIs, Written

\* A step that does not write leaves the count of every event alone.
LEMMA SameCount == UNCHANGED wire => Forwarded' = Forwarded
<1> SUFFICES ASSUME UNCHANGED wire PROVE Forwarded' = Forwarded
  OBVIOUS
<1>1. \A e : WirePlaces(e)' = WirePlaces(e)
  BY MappedIs
<1> QED  BY <1>1 DEF Forwarded, Event

\* There is an event for every number that was or is about to be given out.
LEMMA EventBound ==
  ASSUME NEW m \in Nat, NEW n \in Nat, NEW r \in Nat,
         n <= MaxScans, m + r <= MaxEvents + n * ScanMods
  PROVE  1..m \subseteq Event
<1>1. ScanMods \in Nat /\ MaxScans \in Nat /\ MaxEvents \in Nat
  BY ConstAssumption
<1>2. n * ScanMods <= MaxScans * ScanMods /\ n * ScanMods \in Nat /\ MaxScans * ScanMods \in Nat
  BY <1>1, TimesMonotone, Times
<1>3. m <= MaxEvents + MaxScans * ScanMods
  BY <1>1, <1>2
<1> QED  BY <1>1, <1>2, <1>3 DEF Event

LEMMA EventRange == TypeOK /\ ScanInv => 1..made \subseteq Event
<1> SUFFICES ASSUME TypeOK, ScanInv PROVE 1..made \subseteq Event
  OBVIOUS
<1>1. /\ made \in Nat /\ scans \in Nat /\ scans <= MaxScans /\ Cardinality(ToReport) \in Nat
      /\ made + Cardinality(ToReport) <= MaxEvents + scans * ScanMods
  BY ConstAssumption, FS_CardinalityType DEF TypeOK, ChanType, MiscType, ScanInv
<1> QED  BY <1>1, EventBound

LEMMA NextEventRange == TypeOK' /\ ScanInv' => 1..made' \subseteq Event
<1> SUFFICES ASSUME TypeOK', ScanInv' PROVE 1..made' \subseteq Event
  OBVIOUS
<1>1. /\ made' \in Nat /\ scans' \in Nat /\ scans' <= MaxScans /\ Cardinality(ToReport') \in Nat
      /\ made' + Cardinality(ToReport') <= MaxEvents + scans' * ScanMods
  BY ConstAssumption, FS_CardinalityType DEF TypeOK, ChanType, MiscType, ScanInv
<1> QED  BY <1>1, EventBound

\* An event enters.
LEMMA AcceptStep ==
  ASSUME StreamInv, ScanInv, TypeOK', ScanInv', Produce \/ \E g \in Gens : ScanSend(g)
  PROVE  \E e \in Event : Stream!Accept(e)
<1>1. /\ made' = made + 1 /\ UNCHANGED <<sendCh, hand, wire, lost>>
      /\ Len(extCh) \in Nat /\ DOMAIN extCh = 1..Len(extCh)
      /\ DOMAIN extCh' = 1..(Len(extCh) + 1) /\ extCh'[Len(extCh) + 1] = made + 1
      /\ \A i \in 1..Len(extCh) : extCh'[i] = extCh[i]
  BY AddFacts DEF StreamInv
<1>2. made \in Nat
  BY DEF StreamInv, TypeOK, ChanType
<1>3. PICK e \in Event : e = made + 1
  BY <1>1, <1>2, NextEventRange
<1>4. e \notin 0..made /\ e \notin 1..made
  BY <1>2, <1>3
<1>5. e \notin Pending
  BY <1>4, PendingIs DEF StreamInv, MadeInv
<1>6. e \notin lost
  BY <1>4 DEF StreamInv, MadeInv
<1>7. Forwarded[e] = 0
  <2>1. WirePlaces(e) = {}
    BY <1>4, PlacesAre, MappedIs DEF StreamInv, MadeInv
  <2> QED  BY <2>1, FS_EmptySet DEF Forwarded
<1>8. Pending' = Pending \cup {e}
  <2>1. \A d : (\E i \in DOMAIN extCh' : extCh'[i] = d) <=> (\E i \in DOMAIN extCh : extCh[i] = d) \/ d = e
    BY <1>1, <1>3
  <2>2. UNCHANGED <<sendCh, hand>>
    BY <1>1
  <2>3. \A d : d \in Pending' <=> d \in Pending \/ d = e
    BY <2>1, <2>2, PendingIs
  <2> QED  BY <2>3
<1>9. UNCHANGED <<Forwarded, lost>>
  BY <1>1, SameCount
<1> QED  BY <1>5, <1>6, <1>7, <1>8, <1>9 DEF Stream!Accept

\* The pump takes an event from one channel and puts it into the other; a writeLoop
\* takes it from there.  It stays on its way.
LEMMA StayStep ==
  ASSUME StreamInv, PumpRecv \/ PumpSend \/ (\E g \in Gens : WriteTake(g)) \/ Idle
  PROVE  UNCHANGED <<Pending, Forwarded, lost>>
<1> USE DEF StreamInv
<1>1. CASE PumpRecv
  <2>1. PICK n \in Nat : /\ DOMAIN extCh = 1..n /\ 1 \in 1..n /\ DOMAIN extCh' = 1..(n - 1)
                         /\ \A i \in 1..(n - 1) : extCh'[i] = extCh[i + 1]
    BY <1>1, PumpRecvFacts
  <2>2. /\ UNCHANGED <<sendCh, wire, lost>> /\ hand'[Pump] = extCh[1]
        /\ \A t \in Gor : t # Pump => hand'[t] = hand[t]
    BY <1>1, PumpRecvFacts
  <2>3. hand[Pump] = 0 /\ Pump \in Gor
    BY <1>1, PumpRecvFacts, GorFacts DEF HandInv
  <2>4. \A i \in DOMAIN extCh : extCh[i] # 0
    BY DEF MadeInv, TypeOK, ChanType
  <2>5. \A d : (\E i \in DOMAIN extCh : extCh[i] = d) <=> (\E i \in DOMAIN extCh' : extCh'[i] = d) \/ d = extCh[1]
    <3>1. TailOf(extCh', extCh)
      BY <2>1 DEF TailOf
    <3> QED  BY <3>1, TailElems
  <2>6. \A d : d # 0 => ((\E t \in Gor : hand'[t] = d) <=> (\E t \in Gor : hand[t] = d) \/ d = extCh[1])
    BY <2>2, <2>3
  <2>7. ASSUME NEW d PROVE d \in Pending' <=> d \in Pending
    <3>1. CASE d = 0
      BY <2>1, <2>2, <2>4, <2>5, <3>1, PendingIs
    <3>2. CASE d # 0
      BY <2>2, <2>5, <2>6, <3>2, PendingIs
    <3> QED  BY <3>1, <3>2
  <2> QED  BY <2>2, <2>7, SameCount
<1>2. CASE PumpSend
  <2>1. PICK n \in Nat : /\ DOMAIN sendCh = 1..n /\ DOMAIN sendCh' = 1..(n + 1)
                         /\ sendCh'[n + 1] = hand[Pump] /\ \A i \in 1..n : sendCh'[i] = sendCh[i]
    BY <1>2, PumpSendFacts
  <2>2. /\ UNCHANGED <<extCh, wire, lost>> /\ hand'[Pump] = 0
        /\ \A t \in Gor : t # Pump => hand'[t] = hand[t]
    BY <1>2, PumpSendFacts
  <2>3. hand[Pump] # 0 /\ Pump \in Gor
    BY <1>2, PumpSendFacts, GorFacts DEF HandInv
  <2>4. \A d : (\E i \in DOMAIN sendCh' : sendCh'[i] = d) <=> (\E i \in DOMAIN sendCh : sendCh[i] = d) \/ d = hand[Pump]
    BY <2>1
  <2>5. \A d : d # 0 => ((\E t \in Gor : hand[t] = d) <=> (\E t \in Gor : hand'[t] = d) \/ d = hand[Pump])
    BY <2>2, <2>3
  <2>6. \A d : d \in Pending' <=> d \in Pending
    BY <2>2, <2>3, <2>4, <2>5, PendingIs
  <2> QED  BY <2>2, <2>6, SameCount
<1>3. ASSUME NEW g \in Gens, WriteTake(g) PROVE UNCHANGED <<Pending, Forwarded, lost>>
  <2>1. PICK n \in Nat : /\ DOMAIN sendCh = 1..n /\ 1 \in 1..n /\ DOMAIN sendCh' = 1..(n - 1)
                         /\ \A i \in 1..(n - 1) : sendCh'[i] = sendCh[i + 1]
    BY <1>3, WriteTakeFacts
  <2>2. /\ UNCHANGED <<extCh, wire, lost>> /\ hand'[Writer(g)] = sendCh[1]
        /\ \A t \in Gor : t # Writer(g) => hand'[t] = hand[t]
    BY <1>3, WriteTakeFacts
  <2>3. hand[Writer(g)] = 0 /\ Writer(g) \in Gor
    BY <1>3, WriteTakeFacts, Threads DEF HandInv
  <2>4. \A i \in DOMAIN sendCh : sendCh[i] # 0
    BY DEF MadeInv, TypeOK, ChanType
  <2>5. \A d : (\E i \in DOMAIN sendCh : sendCh[i] = d) <=> (\E i \in DOMAIN sendCh' : sendCh'[i] = d) \/ d = sendCh[1]
    <3>1. TailOf(sendCh', sendCh)
      BY <2>1 DEF TailOf
    <3> QED  BY <3>1, TailElems
  <2>6. \A d : d # 0 => ((\E t \in Gor : hand'[t] = d) <=> (\E t \in Gor : hand[t] = d) \/ d = sendCh[1])
    BY <2>2, <2>3
  <2>7. ASSUME NEW d PROVE d \in Pending' <=> d \in Pending
    <3>1. CASE d = 0
      BY <2>1, <2>2, <2>4, <2>5, <3>1, PendingIs
    <3>2. CASE d # 0
      BY <2>2, <2>5, <2>6, <3>2, PendingIs
    <3> QED  BY <3>1, <3>2
  <2> QED  BY <2>2, <2>7, SameCount
<1>4. CASE Idle
  <2>1. UNCHANGED <<extCh, sendCh, hand, wire, lost>>
    BY <1>4 DEF Idle, evVars
  <2> QED  BY <2>1, MappedIs, SameCount
<1> QED  BY <1>1, <1>2, <1>3, <1>4

\* Whoever lets go of the event in its hands was the only one to have it.
LEMMA LetGo ==
  ASSUME StreamInv, NEW t \in {Pump} \cup {Writer(g) : g \in Gens}, hand[t] # 0,
         UNCHANGED <<extCh, sendCh>>, hand'[t] = 0, \A u \in Gor : u # t => hand'[u] = hand[u]
  PROVE  hand[t] \in Pending /\ Pending' = Pending \ {hand[t]} /\ hand[t] \in 1..made
<1> USE DEF StreamInv
<1>1. t \in Gor /\ hand[t] \in Nat /\ made \in Nat
  BY GorFacts, Threads DEF TypeOK, ChanType
<1>2. hand[t] \in 1..made
  BY <1>1 DEF MadeInv
<1>3. \A i \in DOMAIN extCh : extCh[i] # hand[t] /\ extCh[i] \in Nat
  BY <1>1, Threads DEF QueueInv, GoneInv, Older, TypeOK, ChanType
<1>4. \A i \in DOMAIN sendCh : sendCh[i] # hand[t] /\ sendCh[i] \in Nat
  BY <1>1, Threads DEF QueueInv, GoneInv, Older, TypeOK, ChanType
<1>5. \A u \in Gor : hand[u] = hand[t] => u = t
  <2>1. hand[Run] = 0 /\ \A u \in Gor : u \in Loops \/ u = Pump \/ u = Run
    BY GorFacts DEF HandInv, Gor
  <2>2. \A u \in Loops : hand[Pump] # 0 => hand[u] < hand[Pump]
    BY DEF GoneInv, Older
  <2>3. \A u \in Gor : hand[u] \in Nat
    BY DEF TypeOK, ChanType
  <2>4. CASE t = Pump
    BY <2>1, <2>2, <2>3, <2>4, <1>1, GorFacts
  <2>5. CASE t # Pump
    <3>1. t \in Loops
      BY <2>5, Threads
    <3> QED  BY <2>1, <2>2, <2>3, <3>1, GorFacts DEF GoneInv
  <2> QED  BY <2>4, <2>5
<1>6. hand[t] \in Pending
  BY <1>1, PendingIs
<1>7. \A d : d # 0 => ((\E u \in Gor : hand'[u] = d) <=> (\E u \in Gor : hand[u] = d) /\ d # hand[t])
  BY <1>1, <1>5
<1>8. \A d : d \in Pending' <=> d \in Pending /\ d # hand[t]
  BY <1>3, <1>4, <1>7, PendingIs
<1> QED  BY <1>2, <1>6, <1>8

\* WriteMessage succeeds.
LEMMA ForwardStep ==
  ASSUME StreamInv, ScanInv, CountInv, NEW g \in Gens, WriteOk(g)
  PROVE  \E e \in Event : Stream!Forward(e)
<1> USE DEF StreamInv
<1>1. /\ UNCHANGED <<extCh, sendCh, lost>> /\ hand'[Writer(g)] = 0
      /\ \A t \in Gor : t # Writer(g) => hand'[t] = hand[t]
  BY WriteOkFacts
<1>2. hand[Writer(g)] # 0
  BY WriteOkFacts DEF HandInv
<1>3. hand[Writer(g)] \in Pending /\ Pending' = Pending \ {hand[Writer(g)]} /\ hand[Writer(g)] \in 1..made
  BY <1>1, <1>2, LetGo
<1>4. PICK e \in Event : e = hand[Writer(g)]
  BY <1>3, EventRange
<1>5. ASSUME NEW d \in Event, d # e PROVE Forwarded'[d] = Forwarded[d]
  <2>1. WirePlaces(d)' = WirePlaces(d)
    BY <1>4, <1>5, MappedIs, WritePlaces
  <2> QED  BY <2>1 DEF Forwarded, Event
<1>6. Forwarded'[e] = Forwarded[e] + 1
  <2>1. PICK p : p \notin Places(wire, e) /\ Places(wire', e) = Places(wire, e) \cup {p}
    BY <1>4, WritePlaces
  <2>2. IsFiniteSet(Places(wire, e))
    BY MappedIs DEF CountInv
  <2>3. Cardinality(Places(wire', e)) = Cardinality(Places(wire, e)) + 1
    BY <2>1, <2>2, FS_AddElement
  <2>4. Cardinality(WirePlaces(e)') = Cardinality(WirePlaces(e)) + 1
    BY <2>3, MappedIs
  <2> QED  BY <2>4 DEF Forwarded, Event
<1>7. Forwarded' = [Forwarded EXCEPT ![e] = @ + 1]
  <2>1. Forwarded' = [d \in Event |-> Forwarded'[d]] /\ Forwarded = [d \in Event |-> Forwarded[d]]
    BY DEF Forwarded, Event
  <2> QED  BY <1>5, <1>6, <2>1
<1> QED  BY <1>1, <1>3, <1>4, <1>7 DEF Stream!Forward

\* WriteMessage fails, or the pump ends at shutdown with an event in its hands.
LEMMA DropStep ==
  ASSUME StreamInv, PumpExit \/ \E g \in Gens : WriteErr(g)
  PROVE  (\E es \in SUBSET Pending : Stream!Drop(es)) \/ UNCHANGED <<Pending, Forwarded, lost>>
<1> USE DEF StreamInv
<1>1. CASE PumpExit
  <2>1. /\ UNCHANGED <<extCh, sendCh, wire>> /\ hand'[Pump] = 0
        /\ \A t \in Gor : t # Pump => hand'[t] = hand[t]
        /\ lost' = lost \cup ({hand[Pump]} \ {0}) /\ hand' = [hand EXCEPT ![Pump] = 0]
    BY <1>1, PumpExitFacts
  <2>2. CASE hand[Pump] = 0
    <3>1. hand \in [Gor -> Nat] /\ hand' = hand
      BY <2>1, <2>2 DEF TypeOK, ChanType
    <3>2. UNCHANGED <<extCh, sendCh, hand, wire, lost>>
      BY <2>1, <2>2, <3>1
    <3> QED  BY <3>2, MappedIs, SameCount
  <2>3. CASE hand[Pump] # 0
    <3>1. hand[Pump] \in Pending /\ Pending' = Pending \ {hand[Pump]}
      BY <2>1, <2>3, LetGo
    <3>2. lost' = lost \cup {hand[Pump]} /\ UNCHANGED Forwarded
      BY <2>1, <2>3, SameCount
    <3>3. Stream!Drop({hand[Pump]})
      BY <3>1, <3>2 DEF Stream!Drop
    <3> QED  BY <3>1, <3>3
  <2> QED  BY <2>2, <2>3
<1>2. ASSUME NEW g \in Gens, WriteErr(g) PROVE \E es \in SUBSET Pending : Stream!Drop(es)
  <2>1. /\ UNCHANGED <<extCh, sendCh, wire>> /\ hand'[Writer(g)] = 0
        /\ \A t \in Gor : t # Writer(g) => hand'[t] = hand[t]
        /\ lost' = lost \cup {hand[Writer(g)]}
    BY <1>2, WriteErrFacts
  <2>2. hand[Writer(g)] # 0
    BY <1>2, WriteErrFacts DEF HandInv
  <2>3. hand[Writer(g)] \in Pending /\ Pending' = Pending \ {hand[Writer(g)]}
    BY <2>1, <2>2, LetGo
  <2>4. Stream!Drop({hand[Writer(g)]})
    BY <2>1, <2>3, SameCount DEF Stream!Drop
  <2> QED  BY <2>3, <2>4
<1> QED  BY <1>1, <1>2

\* The client implements EventStream under the refinement mapping of HydraWS: through
\* the pump, the frames in the hands of abandoned writeLoops, reconnects and shutdown,
\* every event leaves at most once, forwarded or discarded.
THEOREM ClientIsStream == Spec => ImplementsStream
<1>1. Init => Stream!Init
  <2> SUFFICES ASSUME Init PROVE Stream!Init
    OBVIOUS
  <2>1. extCh = <<>> /\ sendCh = <<>> /\ (\A t \in Gor : hand[t] = 0) /\ lost = {}
    BY DEF Init
  <2>2. \A e : e \notin Pending
    BY <2>1, PendingIs
  <2>3. \A c \in Gens : DOMAIN wire[c] = {}
    BY DEF Init
  <2>4. \A e : WirePlaces(e) = {}
    BY <2>3, PlacesAre, MappedIs
  <2>5. Forwarded = [e \in Event |-> 0]
    BY <2>4, FS_EmptySet DEF Forwarded
  <2> QED  BY <2>1, <2>2, <2>5 DEF Stream!Init
<1>2. /\ StreamInv /\ ScanInv /\ CountInv /\ TypeOK' /\ ScanInv' /\ [Next]_vars
      => [Stream!Next]_<<Pending, Forwarded, lost>>
  <2> SUFFICES ASSUME StreamInv, ScanInv, CountInv, TypeOK', ScanInv', [Next]_vars
               PROVE  Stream!Next \/ UNCHANGED <<Pending, Forwarded, lost>>
    OBVIOUS
  <2>1. EventStep \/ Idle
    BY EventSteps DEF StreamInv
  <2> QED  BY <2>1, AcceptStep, StayStep, ForwardStep, DropStep DEF EventStep, Stream!Next
<1>3. StreamInv /\ ScanInv /\ [Next]_vars => ScanInv'
  BY ScanStep DEF StreamInv
<1>4. StreamInv /\ CountInv /\ [Next]_vars => CountInv'
  BY CountStep DEF StreamInv
<1>5. StreamInv => TypeOK
  BY DEF StreamInv
<1> QED
  BY <1>1, <1>2, <1>3, <1>4, <1>5, ScanInit, CountInit, StreamInvariant, PTL
  DEF Spec, ImplementsStream, Stream!Spec

============================================================================
