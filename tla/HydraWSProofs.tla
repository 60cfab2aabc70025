--------------------------- MODULE HydraWSProofs ---------------------------
(***************************************************************************)
(* Proofs about HydraWS, for every capacity, number of events, breaks,     *)
(* timeouts and scans.                                                     *)
(***************************************************************************)
EXTENDS HydraWS, FiniteSetTheorems, TLAPS

\* One-line operators, expanded wherever they occur.
USE DEF ReturnErr, RestOfSendCh, Discard, Waited

\* The number of generations is a positive natural number.
LEMMA DialsType == MaxDials \in Nat \ {0} /\ Gens = 1..MaxDials
  BY ConstAssumption DEF MaxDials, Gens

\* Goroutines are what they seem: pump and run are neither loops nor each other.
LEMMA GorFacts ==
  /\ Pump \in Gor /\ Run \in Gor /\ Pump # Run
  /\ \A t \in Loops : t \in Gor /\ t # Pump /\ t # Run /\ t[2] \in Gens
  /\ \A g \in Gens : <<"read", g>> \in Loops /\ <<"write", g>> \in Loops /\ <<"ping", g>> \in Loops
  BY DEF Pump, Run, Gor, Loops

\* A loop that returns, or goes on at another of its labels, keeps the labels typed.
LEMMA LoopMoves ==
  ASSUME PcType, NEW t \in Loops, NEW l \in LoopPc, Exit(t) \/ Goto(t, l)
  PROVE  PcType'
  <1>1. t \in Gor /\ t # Pump /\ t # Run
    BY GorFacts
  <1>2. PICK k \in LoopPc : pc' = [pc EXCEPT ![t] = k]
    BY DEF Exit, Goto, LoopPc
  <1>3. wg' \in Int
    BY DEF Exit, Goto, PcType
  <1> QED
    BY <1>1, <1>2, <1>3, GorFacts DEF PcType

-----------------------------------------------------------------------------
(* Type correctness *)

\* Initially every variable has its type.
LEMMA TypeInit == Init => TypeOK
  <1> SUFFICES ASSUME Init PROVE TypeOK
    OBVIOUS
  <1> USE GorFacts, DialsType DEF Init
  <1>1. ChanType
    BY DEF ChanType
  <1>2. ConnType
    BY DEF ConnType, NoConn
  <1>3. PcType
    BY DEF PcType, PumpPc, RunPc, LoopPc
  <1>4. MiscType
    BY DEF MiscType
  <1> QED
    BY <1>1, <1>2, <1>3, <1>4 DEF TypeOK

\* Channels carry event numbers, and every hand and history keeps its type.
LEMMA ChanTypeStep == TypeOK /\ Next => ChanType'
  <1> SUFFICES ASSUME TypeOK, Next PROVE ChanType'
    OBVIOUS
  <1> USE DialsType, GorFacts DEF TypeOK
  <1>1. CASE Produce
    BY <1>1 DEF Produce, ChanType, SendExt, chanVars, connVars, netVars, gorVars, scanVars, closeVars, history
  <1>2. CASE PumpRecv
    BY <1>2 DEF PumpRecv, ChanType, chanVars, connVars, netVars, gorVars, scanVars, closeVars, history
  <1>3. CASE PumpSend
    BY <1>3 DEF PumpSend, ChanType, chanVars, connVars, netVars, gorVars, scanVars, closeVars, history
  <1>4. CASE PumpExit
    BY <1>4 DEF PumpExit, ChanType, chanVars, connVars, netVars, gorVars, scanVars, closeVars, history
  <1>5. CASE ConnectStart
    BY <1>5 DEF ConnectStart, ChanType, chanVars, connVars, netVars, gorVars, scanVars, closeVars, history
  <1>6. CASE DialOk
    BY <1>6 DEF DialOk, ChanType, chanVars, connVars, netVars, gorVars, scanVars, closeVars, history
  <1>7. CASE DialFail
    BY <1>7 DEF DialFail, ChanType, chanVars, connVars, netVars, gorVars, scanVars, closeVars, history
  <1>8. CASE StoreAndSpawn
    BY <1>8 DEF StoreAndSpawn, Started, ChanType, chanVars, connVars, netVars, gorVars, scanVars, closeVars, history
  <1>9. CASE Cleanup
    BY <1>9 DEF Cleanup, CloseAndForget, ChanType, chanVars, connVars, netVars, gorVars, scanVars, closeVars, history
  <1>10. ASSUME NEW t \in Loops, LoopStart(t) PROVE ChanType'
    BY <1>10 DEF LoopStart, ChanType, chanVars, connVars, netVars, gorVars, scanVars, closeVars, history
  <1>11. ASSUME NEW t \in Loops, LoopCtxDone(t) PROVE ChanType'
    BY <1>11 DEF LoopCtxDone, ChanType, chanVars, connVars, netVars, gorVars, scanVars, closeVars, history
  <1>12. ASSUME NEW g \in Gens, ReadErr(g) PROVE ChanType'
    BY <1>12 DEF ReadErr, ChanType, chanVars, connVars, netVars, gorVars, scanVars, closeVars, history
  <1>13. ASSUME NEW g \in Gens, ReadDeadline(g) PROVE ChanType'
    BY <1>13 DEF ReadDeadline, ChanType, chanVars, connVars, netVars, gorVars, scanVars, closeVars, history
  <1>14. ASSUME NEW g \in Gens, ReadScanDLL(g) PROVE ChanType'
    BY <1>14 DEF ReadScanDLL, ChanType, chanVars, connVars, netVars, gorVars, scanVars, closeVars, history
  <1>15. ASSUME NEW g \in Gens, ScanSend(g) PROVE ChanType'
    BY <1>15 DEF ScanSend, ChanType, SendExt, chanVars, connVars, netVars, gorVars, scanVars, closeVars, history
  <1>16. ASSUME NEW g \in Gens, ScanEnd(g) PROVE ChanType'
    BY <1>16 DEF ScanEnd, ChanType, chanVars, connVars, netVars, gorVars, scanVars, closeVars, history
  <1>17. ASSUME NEW g \in Gens, WriteTake(g) PROVE ChanType'
    <2>1. hand' = [hand EXCEPT ![<<"write", g>>] = Head(sendCh)] /\ Head(sendCh) \in Nat
      BY <1>17 DEF WriteTake, ChanType
    <2>2. sendCh' \in Seq(Nat) /\ UNCHANGED <<extCh, made, wire, lost>>
      BY <1>17 DEF WriteTake, ChanType, history
    <2> QED
      BY <2>1, <2>2 DEF ChanType
  <1>18. ASSUME NEW g \in Gens, WriteOk(g) PROVE ChanType'
    <2> DEFINE t == <<"write", g>>
    <2>1. cn[t] \in Gens /\ hand[t] \in Nat /\ wire[cn[t]] \in Seq(Nat)
      BY <1>18 DEF WriteOk, ChanType, ConnType
    <2>2. wire' = [wire EXCEPT ![cn[t]] = Append(wire[cn[t]], hand[t])]
      BY <1>18 DEF WriteOk
    <2>3. wire' \in [Gens -> Seq(Nat)]
      BY <2>1, <2>2 DEF ChanType
    <2>4. hand' = [hand EXCEPT ![t] = 0] /\ UNCHANGED <<extCh, sendCh, made, lost>>
      BY <1>18 DEF WriteOk, chanVars
    <2> QED
      BY <2>3, <2>4 DEF ChanType
  <1>19. ASSUME NEW g \in Gens, WriteErr(g) PROVE ChanType'
    BY <1>19 DEF WriteErr, ChanType, chanVars, connVars, netVars, gorVars, scanVars, closeVars, history
  <1>20. ASSUME NEW g \in Gens, PingTick(g) PROVE ChanType'
    BY <1>20 DEF PingTick, ChanType, chanVars, connVars, netVars, gorVars, scanVars, closeVars, history
  <1>21. ASSUME NEW g \in Gens, PingOk(g) PROVE ChanType'
    BY <1>21 DEF PingOk, ChanType, chanVars, connVars, netVars, gorVars, scanVars, closeVars, history
  <1>22. ASSUME NEW g \in Gens, PingErr(g) PROVE ChanType'
    BY <1>22 DEF PingErr, ChanType, chanVars, connVars, netVars, gorVars, scanVars, closeVars, history
  <1>23. CASE CloseCancel
    BY <1>23 DEF CloseCancel, ChanType, chanVars, connVars, netVars, gorVars, scanVars, closeVars, history
  <1>24. CASE CloseConn
    BY <1>24 DEF CloseConn, CloseAndForget, ChanType, chanVars, connVars, netVars, gorVars, scanVars, closeVars, history
  <1>25. CASE CloseReturn
    BY <1>25 DEF CloseReturn, ChanType, chanVars, connVars, netVars, gorVars, scanVars, closeVars, history
  <1>26. ASSUME NEW c \in Gens, Break(c) PROVE ChanType'
    BY <1>26 DEF Break, ChanType, chanVars, connVars, netVars, gorVars, scanVars, closeVars, history
  <1>27. ASSUME NEW c \in Gens, ConcurrentWritePanic(c) PROVE ChanType'
    BY <1>27 DEF ConcurrentWritePanic, ChanType, chanVars, connVars, netVars, gorVars, scanVars, closeVars, history
  <1>30. CASE Stopped
    BY <1>30 DEF Stopped, vars, ChanType, chanVars, connVars, netVars, gorVars, scanVars, closeVars, history
  <1> QED
    BY <1>1, <1>2, <1>3, <1>4, <1>5, <1>6, <1>7, <1>8, <1>9, <1>10, <1>11, <1>12, <1>13, <1>14, <1>15, <1>16, <1>17, <1>18, <1>19, <1>20, <1>21, <1>22, <1>23, <1>24, <1>25, <1>26, <1>27, <1>30 DEF Next, Step, PumpStep, RunStep, ReadStep, WriteStep, PingStep, OwnerStep

\* Connections stay among the ones a run can dial.
LEMMA ConnTypeStep == TypeOK /\ Next => ConnType'
  <1> SUFFICES ASSUME TypeOK, Next PROVE ConnType'
    OBVIOUS
  <1> USE DialsType, GorFacts DEF TypeOK
  <1>1. CASE Produce
    BY <1>1 DEF Produce, ConnType, chanVars, connVars, netVars, gorVars, scanVars, closeVars, history
  <1>2. CASE PumpRecv
    BY <1>2 DEF PumpRecv, ConnType, chanVars, connVars, netVars, gorVars, scanVars, closeVars, history
  <1>3. CASE PumpSend
    BY <1>3 DEF PumpSend, ConnType, chanVars, connVars, netVars, gorVars, scanVars, closeVars, history
  <1>4. CASE PumpExit
    BY <1>4 DEF PumpExit, ConnType, chanVars, connVars, netVars, gorVars, scanVars, closeVars, history
  <1>5. CASE ConnectStart
    BY <1>5 DEF ConnectStart, ConnType, chanVars, connVars, netVars, gorVars, scanVars, closeVars, history
  <1>6. CASE DialOk
    BY <1>6 DEF DialOk, ConnType, chanVars, connVars, netVars, gorVars, scanVars, closeVars, history
  <1>7. CASE DialFail
    BY <1>7 DEF DialFail, ConnType, chanVars, connVars, netVars, gorVars, scanVars, closeVars, history
  <1>8. CASE StoreAndSpawn
    BY <1>8 DEF StoreAndSpawn, Started, ConnType, chanVars, connVars, netVars, gorVars, scanVars, closeVars, history
  <1>9. CASE Cleanup
    BY <1>9 DEF Cleanup, CloseAndForget, ConnType, NoConn, chanVars, connVars, netVars, gorVars, scanVars, closeVars, history
  <1>10. ASSUME NEW t \in Loops, LoopStart(t) PROVE ConnType'
    BY <1>10 DEF LoopStart, ConnType, chanVars, connVars, netVars, gorVars, scanVars, closeVars, history
  <1>11. ASSUME NEW t \in Loops, LoopCtxDone(t) PROVE ConnType'
    BY <1>11 DEF LoopCtxDone, ConnType, chanVars, connVars, netVars, gorVars, scanVars, closeVars, history
  <1>12. ASSUME NEW g \in Gens, ReadErr(g) PROVE ConnType'
    BY <1>12 DEF ReadErr, ConnType, chanVars, connVars, netVars, gorVars, scanVars, closeVars, history
  <1>13. ASSUME NEW g \in Gens, ReadDeadline(g) PROVE ConnType'
    BY <1>13 DEF ReadDeadline, ConnType, chanVars, connVars, netVars, gorVars, scanVars, closeVars, history
  <1>14. ASSUME NEW g \in Gens, ReadScanDLL(g) PROVE ConnType'
    BY <1>14 DEF ReadScanDLL, ConnType, chanVars, connVars, netVars, gorVars, scanVars, closeVars, history
  <1>15. ASSUME NEW g \in Gens, ScanSend(g) PROVE ConnType'
    BY <1>15 DEF ScanSend, ConnType, chanVars, connVars, netVars, gorVars, scanVars, closeVars, history
  <1>16. ASSUME NEW g \in Gens, ScanEnd(g) PROVE ConnType'
    BY <1>16 DEF ScanEnd, ConnType, chanVars, connVars, netVars, gorVars, scanVars, closeVars, history
  <1>17. ASSUME NEW g \in Gens, WriteTake(g) PROVE ConnType'
    BY <1>17 DEF WriteTake, ConnType, chanVars, connVars, netVars, gorVars, scanVars, closeVars, history
  <1>18. ASSUME NEW g \in Gens, WriteOk(g) PROVE ConnType'
    BY <1>18 DEF WriteOk, ConnType, chanVars, connVars, netVars, gorVars, scanVars, closeVars, history
  <1>19. ASSUME NEW g \in Gens, WriteErr(g) PROVE ConnType'
    BY <1>19 DEF WriteErr, ConnType, chanVars, connVars, netVars, gorVars, scanVars, closeVars, history
  <1>20. ASSUME NEW g \in Gens, PingTick(g) PROVE ConnType'
    BY <1>20 DEF PingTick, ConnType, chanVars, connVars, netVars, gorVars, scanVars, closeVars, history
  <1>21. ASSUME NEW g \in Gens, PingOk(g) PROVE ConnType'
    BY <1>21 DEF PingOk, ConnType, chanVars, connVars, netVars, gorVars, scanVars, closeVars, history
  <1>22. ASSUME NEW g \in Gens, PingErr(g) PROVE ConnType'
    BY <1>22 DEF PingErr, ConnType, chanVars, connVars, netVars, gorVars, scanVars, closeVars, history
  <1>23. CASE CloseCancel
    BY <1>23 DEF CloseCancel, ConnType, chanVars, connVars, netVars, gorVars, scanVars, closeVars, history
  <1>24. CASE CloseConn
    <2>1. /\ conn' = 0 /\ open' = open \ {conn}
          /\ UNCHANGED <<dials, broken, cn>>
      BY <1>24 DEF CloseConn, CloseAndForget, NoConn, netVars
    <2> QED
      BY <2>1 DEF ConnType
  <1>25. CASE CloseReturn
    BY <1>25 DEF CloseReturn, ConnType, chanVars, connVars, netVars, gorVars, scanVars, closeVars, history
  <1>26. ASSUME NEW c \in Gens, Break(c) PROVE ConnType'
    BY <1>26 DEF Break, ConnType, chanVars, connVars, netVars, gorVars, scanVars, closeVars, history
  <1>27. ASSUME NEW c \in Gens, ConcurrentWritePanic(c) PROVE ConnType'
    BY <1>27 DEF ConcurrentWritePanic, ConnType, chanVars, connVars, netVars, gorVars, scanVars, closeVars, history
  <1>30. CASE Stopped
    BY <1>30 DEF Stopped, vars, ConnType, chanVars, connVars, netVars, gorVars, scanVars, closeVars, history
  <1> QED
    BY <1>1, <1>2, <1>3, <1>4, <1>5, <1>6, <1>7, <1>8, <1>9, <1>10, <1>11, <1>12, <1>13, <1>14, <1>15, <1>16, <1>17, <1>18, <1>19, <1>20, <1>21, <1>22, <1>23, <1>24, <1>25, <1>26, <1>27, <1>30 DEF Next, Step, PumpStep, RunStep, ReadStep, WriteStep, PingStep, OwnerStep

\* Every goroutine stays at one of its own labels.
LEMMA PcTypeStep == TypeOK /\ Next => PcType'
  <1> SUFFICES ASSUME TypeOK, Next PROVE PcType'
    OBVIOUS
  <1> USE DialsType, GorFacts DEF TypeOK
  <1>1. CASE Produce
    BY <1>1 DEF Produce, PcType, Exit, Goto, PumpPc, RunPc, LoopPc, chanVars, connVars, netVars, gorVars, scanVars, closeVars, history
  <1>2. CASE PumpRecv
    BY <1>2 DEF PumpRecv, PcType, Exit, Goto, PumpPc, RunPc, LoopPc, chanVars, connVars, netVars, gorVars, scanVars, closeVars, history
  <1>3. CASE PumpSend
    BY <1>3 DEF PumpSend, PcType, Exit, Goto, PumpPc, RunPc, LoopPc, chanVars, connVars, netVars, gorVars, scanVars, closeVars, history
  <1>4. CASE PumpExit
    BY <1>4 DEF PumpExit, PcType, Exit, Goto, PumpPc, RunPc, LoopPc, chanVars, connVars, netVars, gorVars, scanVars, closeVars, history
  <1>5. CASE ConnectStart
    BY <1>5 DEF ConnectStart, PcType, Exit, Goto, PumpPc, RunPc, LoopPc, chanVars, connVars, netVars, gorVars, scanVars, closeVars, history
  <1>6. CASE DialOk
    BY <1>6 DEF DialOk, PcType, Exit, Goto, PumpPc, RunPc, LoopPc, chanVars, connVars, netVars, gorVars, scanVars, closeVars, history
  <1>7. CASE DialFail
    BY <1>7 DEF DialFail, PcType, Exit, Goto, PumpPc, RunPc, LoopPc, chanVars, connVars, netVars, gorVars, scanVars, closeVars, history
  <1>8. CASE StoreAndSpawn
    <2>1. /\ pc' = [t \in Gor |-> IF t = Run THEN "select" ELSE IF t \in Started THEN "start" ELSE pc[t]]
          /\ wg' = wg + 3
      BY <1>8 DEF StoreAndSpawn
    <2>2. Pump \notin Started
      BY DEF Started, Pump
    <2>3. pc'[Pump] = pc[Pump] /\ pc'[Run] = "select"
      BY <2>1, <2>2
    <2>4. \A t \in Loops : pc'[t] \in {"start", pc[t]}
      BY <2>1
    <2> QED
      BY <2>1, <2>3, <2>4 DEF PcType, RunPc, LoopPc
  <1>9. CASE Cleanup
    BY <1>9 DEF Cleanup, CloseAndForget, PcType, Exit, Goto, PumpPc, RunPc, LoopPc, chanVars, connVars, netVars, gorVars, scanVars, closeVars, history
  <1>10. ASSUME NEW t \in Loops, LoopStart(t) PROVE PcType'
    BY <1>10 DEF LoopStart, PcType, Exit, Goto, PumpPc, RunPc, LoopPc, chanVars, connVars, netVars, gorVars, scanVars, closeVars, history
  <1>11. ASSUME NEW t \in Loops, LoopCtxDone(t) PROVE PcType'
    BY <1>11 DEF LoopCtxDone, PcType, Exit, Goto, PumpPc, RunPc, LoopPc, chanVars, connVars, netVars, gorVars, scanVars, closeVars, history
  <1>12. ASSUME NEW g \in Gens, ReadErr(g) PROVE PcType'
    <2>1. Exit(<<"read", g>>) /\ <<"read", g>> \in Loops /\ "done" \in LoopPc
      BY <1>12 DEF ReadErr, LoopPc
    <2> QED
      BY <2>1, LoopMoves
  <1>13. ASSUME NEW g \in Gens, ReadDeadline(g) PROVE PcType'
    <2>1. Exit(<<"read", g>>) /\ <<"read", g>> \in Loops /\ "done" \in LoopPc
      BY <1>13 DEF ReadDeadline, LoopPc
    <2> QED
      BY <2>1, LoopMoves
  <1>14. ASSUME NEW g \in Gens, ReadScanDLL(g) PROVE PcType'
    <2>1. Goto(<<"read", g>>, "scan") /\ <<"read", g>> \in Loops /\ "scan" \in LoopPc
      BY <1>14 DEF ReadScanDLL, LoopPc
    <2> QED
      BY <2>1, LoopMoves
  <1>15. ASSUME NEW g \in Gens, ScanSend(g) PROVE PcType'
    BY <1>15 DEF ScanSend, PcType, Exit, Goto, PumpPc, RunPc, LoopPc, chanVars, connVars, netVars, gorVars, scanVars, closeVars, history
  <1>16. ASSUME NEW g \in Gens, ScanEnd(g) PROVE PcType'
    <2>1. Goto(<<"read", g>>, "loop") /\ <<"read", g>> \in Loops /\ "loop" \in LoopPc
      BY <1>16 DEF ScanEnd, LoopPc
    <2> QED
      BY <2>1, LoopMoves
  <1>17. ASSUME NEW g \in Gens, WriteTake(g) PROVE PcType'
    <2>1. Goto(<<"write", g>>, "write") /\ <<"write", g>> \in Loops /\ "write" \in LoopPc
      BY <1>17 DEF WriteTake, LoopPc
    <2> QED
      BY <2>1, LoopMoves
  <1>18. ASSUME NEW g \in Gens, WriteOk(g) PROVE PcType'
    <2>1. Goto(<<"write", g>>, "loop") /\ <<"write", g>> \in Loops /\ "loop" \in LoopPc
      BY <1>18 DEF WriteOk, LoopPc
    <2> QED
      BY <2>1, LoopMoves
  <1>19. ASSUME NEW g \in Gens, WriteErr(g) PROVE PcType'
    <2>1. Exit(<<"write", g>>) /\ <<"write", g>> \in Loops /\ "done" \in LoopPc
      BY <1>19 DEF WriteErr, LoopPc
    <2> QED
      BY <2>1, LoopMoves
  <1>20. ASSUME NEW g \in Gens, PingTick(g) PROVE PcType'
    <2>1. Goto(<<"ping", g>>, "write") /\ <<"ping", g>> \in Loops /\ "write" \in LoopPc
      BY <1>20 DEF PingTick, LoopPc
    <2> QED
      BY <2>1, LoopMoves
  <1>21. ASSUME NEW g \in Gens, PingOk(g) PROVE PcType'
    <2>1. Goto(<<"ping", g>>, "loop") /\ <<"ping", g>> \in Loops /\ "loop" \in LoopPc
      BY <1>21 DEF PingOk, LoopPc
    <2> QED
      BY <2>1, LoopMoves
  <1>22. ASSUME NEW g \in Gens, PingErr(g) PROVE PcType'
    <2>1. Exit(<<"ping", g>>) /\ <<"ping", g>> \in Loops /\ "done" \in LoopPc
      BY <1>22 DEF PingErr, LoopPc
    <2> QED
      BY <2>1, LoopMoves
  <1>23. CASE CloseCancel
    BY <1>23 DEF CloseCancel, PcType, Exit, Goto, PumpPc, RunPc, LoopPc, chanVars, connVars, netVars, gorVars, scanVars, closeVars, history
  <1>24. CASE CloseConn
    BY <1>24 DEF CloseConn, CloseAndForget, PcType, Exit, Goto, PumpPc, RunPc, LoopPc, chanVars, connVars, netVars, gorVars, scanVars, closeVars, history
  <1>25. CASE CloseReturn
    BY <1>25 DEF CloseReturn, PcType, Exit, Goto, PumpPc, RunPc, LoopPc, chanVars, connVars, netVars, gorVars, scanVars, closeVars, history
  <1>26. ASSUME NEW c \in Gens, Break(c) PROVE PcType'
    BY <1>26 DEF Break, PcType, Exit, Goto, PumpPc, RunPc, LoopPc, chanVars, connVars, netVars, gorVars, scanVars, closeVars, history
  <1>27. ASSUME NEW c \in Gens, ConcurrentWritePanic(c) PROVE PcType'
    BY <1>27 DEF ConcurrentWritePanic, PcType, Exit, Goto, PumpPc, RunPc, LoopPc, chanVars, connVars, netVars, gorVars, scanVars, closeVars, history
  <1>30. CASE Stopped
    BY <1>30 DEF Stopped, vars, PcType, chanVars, connVars, netVars, gorVars, scanVars, closeVars, history
  <1> QED
    BY <1>1, <1>2, <1>3, <1>4, <1>5, <1>6, <1>7, <1>8, <1>9, <1>10, <1>11, <1>12, <1>13, <1>14, <1>15, <1>16, <1>17, <1>18, <1>19, <1>20, <1>21, <1>22, <1>23, <1>24, <1>25, <1>26, <1>27, <1>30 DEF Next, Step, PumpStep, RunStep, ReadStep, WriteStep, PingStep, OwnerStep

\* Counters and flags keep their types.
LEMMA MiscTypeStep == TypeOK /\ Next => MiscType'
  <1> SUFFICES ASSUME TypeOK, Next PROVE MiscType'
    OBVIOUS
  <1> USE DialsType, GorFacts DEF TypeOK
  <1>1. CASE Produce
    BY <1>1 DEF Produce, MiscType, chanVars, connVars, netVars, gorVars, scanVars, closeVars, history
  <1>2. CASE PumpRecv
    BY <1>2 DEF PumpRecv, MiscType, chanVars, connVars, netVars, gorVars, scanVars, closeVars, history
  <1>3. CASE PumpSend
    BY <1>3 DEF PumpSend, MiscType, chanVars, connVars, netVars, gorVars, scanVars, closeVars, history
  <1>4. CASE PumpExit
    BY <1>4 DEF PumpExit, MiscType, chanVars, connVars, netVars, gorVars, scanVars, closeVars, history
  <1>5. CASE ConnectStart
    BY <1>5 DEF ConnectStart, MiscType, chanVars, connVars, netVars, gorVars, scanVars, closeVars, history
  <1>6. CASE DialOk
    BY <1>6 DEF DialOk, MiscType, chanVars, connVars, netVars, gorVars, scanVars, closeVars, history
  <1>7. CASE DialFail
    BY <1>7 DEF DialFail, MiscType, chanVars, connVars, netVars, gorVars, scanVars, closeVars, history
  <1>8. CASE StoreAndSpawn
    BY <1>8 DEF StoreAndSpawn, Started, MiscType, chanVars, connVars, netVars, gorVars, scanVars, closeVars, history
  <1>9. CASE Cleanup
    BY <1>9 DEF Cleanup, CloseAndForget, MiscType, chanVars, connVars, netVars, gorVars, scanVars, closeVars, history
  <1>10. ASSUME NEW t \in Loops, LoopStart(t) PROVE MiscType'
    BY <1>10 DEF LoopStart, MiscType, chanVars, connVars, netVars, gorVars, scanVars, closeVars, history
  <1>11. ASSUME NEW t \in Loops, LoopCtxDone(t) PROVE MiscType'
    BY <1>11 DEF LoopCtxDone, MiscType, chanVars, connVars, netVars, gorVars, scanVars, closeVars, history
  <1>12. ASSUME NEW g \in Gens, ReadErr(g) PROVE MiscType'
    BY <1>12 DEF ReadErr, MiscType, chanVars, connVars, netVars, gorVars, scanVars, closeVars, history
  <1>13. ASSUME NEW g \in Gens, ReadDeadline(g) PROVE MiscType'
    BY <1>13 DEF ReadDeadline, MiscType, chanVars, connVars, netVars, gorVars, scanVars, closeVars, history
  <1>14. ASSUME NEW g \in Gens, ReadScanDLL(g) PROVE MiscType'
    BY <1>14 DEF ReadScanDLL, MiscType, chanVars, connVars, netVars, gorVars, scanVars, closeVars, history
  <1>15. ASSUME NEW g \in Gens, ScanSend(g) PROVE MiscType'
    BY <1>15 DEF ScanSend, MoreModules, MiscType, chanVars, connVars, netVars, gorVars, scanVars, closeVars, history
  <1>16. ASSUME NEW g \in Gens, ScanEnd(g) PROVE MiscType'
    BY <1>16 DEF ScanEnd, MiscType, chanVars, connVars, netVars, gorVars, scanVars, closeVars, history
  <1>17. ASSUME NEW g \in Gens, WriteTake(g) PROVE MiscType'
    BY <1>17 DEF WriteTake, MiscType, chanVars, connVars, netVars, gorVars, scanVars, closeVars, history
  <1>18. ASSUME NEW g \in Gens, WriteOk(g) PROVE MiscType'
    BY <1>18 DEF WriteOk, MiscType, chanVars, connVars, netVars, gorVars, scanVars, closeVars, history
  <1>19. ASSUME NEW g \in Gens, WriteErr(g) PROVE MiscType'
    BY <1>19 DEF WriteErr, MiscType, chanVars, connVars, netVars, gorVars, scanVars, closeVars, history
  <1>20. ASSUME NEW g \in Gens, PingTick(g) PROVE MiscType'
    BY <1>20 DEF PingTick, MiscType, chanVars, connVars, netVars, gorVars, scanVars, closeVars, history
  <1>21. ASSUME NEW g \in Gens, PingOk(g) PROVE MiscType'
    BY <1>21 DEF PingOk, MiscType, chanVars, connVars, netVars, gorVars, scanVars, closeVars, history
  <1>22. ASSUME NEW g \in Gens, PingErr(g) PROVE MiscType'
    BY <1>22 DEF PingErr, MiscType, chanVars, connVars, netVars, gorVars, scanVars, closeVars, history
  <1>23. CASE CloseCancel
    BY <1>23 DEF CloseCancel, MiscType, chanVars, connVars, netVars, gorVars, scanVars, closeVars, history
  <1>24. CASE CloseConn
    BY <1>24 DEF CloseConn, CloseAndForget, MiscType, chanVars, connVars, netVars, gorVars, scanVars, closeVars, history
  <1>25. CASE CloseReturn
    BY <1>25 DEF CloseReturn, MiscType, chanVars, connVars, netVars, gorVars, scanVars, closeVars, history
  <1>26. ASSUME NEW c \in Gens, Break(c) PROVE MiscType'
    BY <1>26 DEF Break, MiscType, chanVars, connVars, netVars, gorVars, scanVars, closeVars, history
  <1>27. ASSUME NEW c \in Gens, ConcurrentWritePanic(c) PROVE MiscType'
    BY <1>27 DEF ConcurrentWritePanic, MiscType, chanVars, connVars, netVars, gorVars, scanVars, closeVars, history
  <1>30. CASE Stopped
    BY <1>30 DEF Stopped, vars, MiscType, chanVars, connVars, netVars, gorVars, scanVars, closeVars, history
  <1> QED
    BY <1>1, <1>2, <1>3, <1>4, <1>5, <1>6, <1>7, <1>8, <1>9, <1>10, <1>11, <1>12, <1>13, <1>14, <1>15, <1>16, <1>17, <1>18, <1>19, <1>20, <1>21, <1>22, <1>23, <1>24, <1>25, <1>26, <1>27, <1>30 DEF Next, Step, PumpStep, RunStep, ReadStep, WriteStep, PingStep, OwnerStep

\* Type correctness of the WebSocket client, for every value of the constants.
THEOREM TypeCorrect == Spec => []TypeOK
  <1>1. TypeOK /\ UNCHANGED vars => TypeOK'
    BY DEF TypeOK, ChanType, ConnType, PcType, MiscType, vars, chanVars, connVars, netVars, gorVars, scanVars, closeVars, history
  <1>2. TypeOK /\ Next => TypeOK'
    BY ChanTypeStep, ConnTypeStep, PcTypeStep, MiscTypeStep DEF TypeOK
  <1> QED
    BY <1>1, <1>2, TypeInit, PTL DEF Spec

-----------------------------------------------------------------------------
(* No connection is leaked *)

\* What makes NoConnLeak inductive: an open connection is h.conn, or the newest
\* one while run is about to store it.
ConnInv ==
  /\ \A c \in open : c = dials
  /\ conn # NoConn => conn = dials
  /\ open # {} /\ pc[Run] # "storing" => conn = dials
  /\ pc[Run] = "storing" => conn = NoConn
  /\ pc[Run] \in {"connect", "dialing", "done"} => conn = NoConn

\* A step that leaves h.conn, the open connections and run's position alone.
LEMMA ConnUntouched ==
  ASSUME ConnInv, UNCHANGED connVars, pc'[Run] = pc[Run]
  PROVE  ConnInv'
  BY DEF ConnInv, connVars

\* Before run dials, no connection is open.
LEMMA NothingOpen ==
  ASSUME TypeOK, ConnInv, pc[Run] # "storing", conn = NoConn
  PROVE  open = {}
  BY DialsType DEF TypeOK, ConnType, ConnInv, NoConn

\* The strengthened invariant survives every step.
LEMMA ConnStep == TypeOK /\ ConnInv /\ Next => ConnInv'
  <1> SUFFICES ASSUME TypeOK, ConnInv, Next PROVE ConnInv'
    OBVIOUS
  <1> USE GorFacts
  <1>1. CASE Produce
    <2>1. UNCHANGED connVars /\ pc'[Run] = pc[Run]
      BY <1>1 DEF Produce, Exit, Goto, TypeOK, PcType, connVars, gorVars
    <2> QED
      BY <2>1, ConnUntouched
  <1>2. CASE PumpRecv
    <2>1. UNCHANGED connVars /\ pc'[Run] = pc[Run]
      BY <1>2 DEF PumpRecv, Exit, Goto, TypeOK, PcType, connVars, gorVars
    <2> QED
      BY <2>1, ConnUntouched
  <1>3. CASE PumpSend
    <2>1. UNCHANGED connVars /\ pc'[Run] = pc[Run]
      BY <1>3 DEF PumpSend, Exit, Goto, TypeOK, PcType, connVars, gorVars
    <2> QED
      BY <2>1, ConnUntouched
  <1>4. CASE PumpExit
    <2>1. UNCHANGED connVars /\ pc'[Run] = pc[Run]
      BY <1>4 DEF PumpExit, Exit, Goto, TypeOK, PcType, connVars, gorVars
    <2> QED
      BY <2>1, ConnUntouched
  <1>5. CASE ConnectStart
    BY <1>5, NothingOpen, DialsType DEF ConnectStart, Exit, Goto, TypeOK, ConnType, PcType, ConnInv, NoConn, connVars, gorVars
  <1>6. CASE DialOk
    BY <1>6, NothingOpen, DialsType DEF DialOk, Goto, TypeOK, ConnType, PcType, ConnInv, NoConn, connVars, gorVars
  <1>7. CASE DialFail
    BY <1>7, NothingOpen, DialsType DEF DialFail, Exit, Goto, TypeOK, ConnType, PcType, ConnInv, NoConn, connVars, gorVars
  <1>8. CASE StoreAndSpawn
    BY <1>8, NothingOpen, DialsType DEF StoreAndSpawn, Started, TypeOK, ConnType, PcType, ConnInv, NoConn, connVars, gorVars
  <1>9. CASE Cleanup
    BY <1>9, NothingOpen, DialsType DEF Cleanup, CloseAndForget, Exit, Goto, TypeOK, ConnType, PcType, ConnInv, NoConn, connVars, gorVars
  <1>10. ASSUME NEW t \in Loops, LoopStart(t) PROVE ConnInv'
    <2>1. UNCHANGED connVars /\ pc'[Run] = pc[Run]
      BY <1>10 DEF LoopStart, Exit, Goto, TypeOK, PcType, connVars, gorVars
    <2> QED
      BY <2>1, ConnUntouched
  <1>11. ASSUME NEW t \in Loops, LoopCtxDone(t) PROVE ConnInv'
    <2>1. UNCHANGED connVars /\ pc'[Run] = pc[Run]
      BY <1>11 DEF LoopCtxDone, Exit, Goto, TypeOK, PcType, connVars, gorVars
    <2> QED
      BY <2>1, ConnUntouched
  <1>12. ASSUME NEW g \in Gens, ReadErr(g) PROVE ConnInv'
    <2>1. UNCHANGED connVars /\ pc'[Run] = pc[Run]
      BY <1>12 DEF ReadErr, Exit, Goto, TypeOK, PcType, connVars, gorVars
    <2> QED
      BY <2>1, ConnUntouched
  <1>13. ASSUME NEW g \in Gens, ReadDeadline(g) PROVE ConnInv'
    <2>1. UNCHANGED connVars /\ pc'[Run] = pc[Run]
      BY <1>13 DEF ReadDeadline, Exit, Goto, TypeOK, PcType, connVars, gorVars
    <2> QED
      BY <2>1, ConnUntouched
  <1>14. ASSUME NEW g \in Gens, ReadScanDLL(g) PROVE ConnInv'
    <2>1. UNCHANGED connVars /\ pc'[Run] = pc[Run]
      BY <1>14 DEF ReadScanDLL, Exit, Goto, TypeOK, PcType, connVars, gorVars
    <2> QED
      BY <2>1, ConnUntouched
  <1>15. ASSUME NEW g \in Gens, ScanSend(g) PROVE ConnInv'
    <2>1. UNCHANGED connVars /\ pc'[Run] = pc[Run]
      BY <1>15 DEF ScanSend, Exit, Goto, TypeOK, PcType, connVars, gorVars
    <2> QED
      BY <2>1, ConnUntouched
  <1>16. ASSUME NEW g \in Gens, ScanEnd(g) PROVE ConnInv'
    <2>1. UNCHANGED connVars /\ pc'[Run] = pc[Run]
      BY <1>16 DEF ScanEnd, Exit, Goto, TypeOK, PcType, connVars, gorVars
    <2> QED
      BY <2>1, ConnUntouched
  <1>17. ASSUME NEW g \in Gens, WriteTake(g) PROVE ConnInv'
    <2>1. UNCHANGED connVars /\ pc'[Run] = pc[Run]
      BY <1>17 DEF WriteTake, Exit, Goto, TypeOK, PcType, connVars, gorVars
    <2> QED
      BY <2>1, ConnUntouched
  <1>18. ASSUME NEW g \in Gens, WriteOk(g) PROVE ConnInv'
    <2>1. UNCHANGED connVars /\ pc'[Run] = pc[Run]
      BY <1>18 DEF WriteOk, Exit, Goto, TypeOK, PcType, connVars, gorVars
    <2> QED
      BY <2>1, ConnUntouched
  <1>19. ASSUME NEW g \in Gens, WriteErr(g) PROVE ConnInv'
    <2>1. UNCHANGED connVars /\ pc'[Run] = pc[Run]
      BY <1>19 DEF WriteErr, Exit, Goto, TypeOK, PcType, connVars, gorVars
    <2> QED
      BY <2>1, ConnUntouched
  <1>20. ASSUME NEW g \in Gens, PingTick(g) PROVE ConnInv'
    <2>1. UNCHANGED connVars /\ pc'[Run] = pc[Run]
      BY <1>20 DEF PingTick, Exit, Goto, TypeOK, PcType, connVars, gorVars
    <2> QED
      BY <2>1, ConnUntouched
  <1>21. ASSUME NEW g \in Gens, PingOk(g) PROVE ConnInv'
    <2>1. UNCHANGED connVars /\ pc'[Run] = pc[Run]
      BY <1>21 DEF PingOk, Exit, Goto, TypeOK, PcType, connVars, gorVars
    <2> QED
      BY <2>1, ConnUntouched
  <1>22. ASSUME NEW g \in Gens, PingErr(g) PROVE ConnInv'
    <2>1. UNCHANGED connVars /\ pc'[Run] = pc[Run]
      BY <1>22 DEF PingErr, Exit, Goto, TypeOK, PcType, connVars, gorVars
    <2> QED
      BY <2>1, ConnUntouched
  <1>23. CASE CloseCancel
    <2>1. UNCHANGED connVars /\ pc'[Run] = pc[Run]
      BY <1>23 DEF CloseCancel, Exit, Goto, TypeOK, PcType, connVars, gorVars
    <2> QED
      BY <2>1, ConnUntouched
  <1>24. CASE CloseConn
    BY <1>24, NothingOpen, DialsType DEF CloseConn, CloseAndForget, TypeOK, ConnType, PcType, ConnInv, NoConn, connVars, gorVars
  <1>25. CASE CloseReturn
    <2>1. UNCHANGED connVars /\ pc'[Run] = pc[Run]
      BY <1>25 DEF CloseReturn, Exit, Goto, TypeOK, PcType, connVars, gorVars
    <2> QED
      BY <2>1, ConnUntouched
  <1>26. ASSUME NEW c \in Gens, Break(c) PROVE ConnInv'
    <2>1. UNCHANGED connVars /\ pc'[Run] = pc[Run]
      BY <1>26 DEF Break, Exit, Goto, TypeOK, PcType, connVars, gorVars
    <2> QED
      BY <2>1, ConnUntouched
  <1>27. ASSUME NEW c \in Gens, ConcurrentWritePanic(c) PROVE ConnInv'
    <2>1. UNCHANGED connVars /\ pc'[Run] = pc[Run]
      BY <1>27 DEF ConcurrentWritePanic, Exit, Goto, TypeOK, PcType, connVars, gorVars
    <2> QED
      BY <2>1, ConnUntouched
  <1>30. CASE Stopped
    BY <1>30, ConnUntouched DEF Stopped, vars, connVars, gorVars
  <1> QED
    BY <1>1, <1>2, <1>3, <1>4, <1>5, <1>6, <1>7, <1>8, <1>9, <1>10, <1>11, <1>12, <1>13, <1>14, <1>15, <1>16, <1>17, <1>18, <1>19, <1>20, <1>21, <1>22, <1>23, <1>24, <1>25, <1>26, <1>27, <1>30 DEF Next, Step, PumpStep, RunStep, ReadStep, WriteStep, PingStep, OwnerStep

\* The strengthened invariant holds in every reachable state.
THEOREM ConnInvariant == Spec => []ConnInv
  <1>1. Init => ConnInv
    BY GorFacts DEF Init, ConnInv, NoConn
  <1>2. TypeOK /\ ConnInv /\ [Next]_vars => ConnInv'
    BY ConnStep, ConnUntouched DEF vars, connVars, gorVars
  <1> QED
    BY <1>1, <1>2, TypeCorrect, PTL DEF Spec

\* However many reconnects, breaks and timeouts there are and whenever Close is
\* called: one connection at most is open, run never overwrites an open one, and
\* leaves none behind.
THEOREM NoConnectionLeaks == Spec => []NoConnLeak
  <1>1. TypeOK /\ ConnInv => NoConnLeak
    BY NothingOpen DEF ConnInv, NoConnLeak
  <1> QED
    BY <1>1, TypeCorrect, ConnInvariant, PTL

-----------------------------------------------------------------------------
(* The WaitGroup, and what Close may rely on *)

LiveSet == {t \in Gor : Live(t)}

\* The loops of a generation that run has not started yet do not run: what makes
\* wg.Add(3) count three new goroutines.
GenFresh ==
  \A t \in Loops :
    t[2] > dials \/ (t[2] = dials /\ pc[Run] = "storing") => pc[t] = "none"

\* What run is about to store is a connection it has dialled.
Dialled == pc[Run] = "storing" => dials \in Gens

WgInv == GenFresh /\ Dialled /\ WgCounts /\ ClosedIsQuiet

\* There are finitely many goroutines, so the live ones can be counted.
LEMMA LiveFinite == IsFiniteSet(LiveSet) /\ Cardinality(LiveSet) \in Nat
  <1>1. IsFiniteSet({"read", "write", "ping"})
    <2>1. IsFiniteSet({"read"} \cup {"write"})
      BY FS_Singleton, FS_AddElement
    <2>2. IsFiniteSet(({"read"} \cup {"write"}) \cup {"ping"})
      BY <2>1, FS_AddElement
    <2>3. ({"read"} \cup {"write"}) \cup {"ping"} = {"read", "write", "ping"}
      OBVIOUS
    <2> QED
      BY <2>2, <2>3
  <1>2. IsFiniteSet(Gens)
    BY DialsType, FS_Interval
  <1>3. IsFiniteSet(Loops)
    BY <1>1, <1>2, FS_Product DEF Loops
  <1>4. IsFiniteSet({Pump} \cup {Run})
    BY FS_Singleton, FS_AddElement
  <1>5. IsFiniteSet(Gor)
    <2>1. Gor = ({Pump} \cup {Run}) \cup Loops
      BY DEF Gor
    <2> QED
      BY <2>1, <1>3, <1>4, FS_Union
  <1>6. LiveSet \in SUBSET Gor
    BY DEF LiveSet
  <1> QED
    BY <1>5, <1>6, FS_Subset, FS_CardinalityType

\* A goroutine that returns is counted out exactly once.
LEMMA ExitCounts ==
  ASSUME PcType, WgCounts, NEW t \in Gor, Live(t), Exit(t)
  PROVE  WgCounts'
  <1>1. LiveSet' = LiveSet \ {t} /\ t \in LiveSet
    BY DEF LiveSet, Live, Exit, PcType
  <1>2. Cardinality(LiveSet') = Cardinality(LiveSet) - 1
    BY <1>1, LiveFinite, FS_RemoveElement
  <1> QED
    BY <1>2 DEF WgCounts, LiveSet, Exit

\* A goroutine that goes on changes no count.
LEMMA GotoCounts ==
  ASSUME PcType, WgCounts, NEW t \in Gor, Live(t), NEW l, l \notin {"none", "done"}, Goto(t, l)
  PROVE  WgCounts'
  <1>1. LiveSet' = LiveSet
    BY DEF LiveSet, Live, Goto, PcType
  <1> QED
    BY <1>1 DEF WgCounts, LiveSet, Goto

\* Neither disturbs a generation that has not been started, nor the silence after
\* close(h.sendCh).
LEMMA MoveKeeps ==
  ASSUME TypeOK, GenFresh, Dialled, ClosedIsQuiet, NEW t \in Gor \ {Run}, Live(t), NEW l,
         pc' = [pc EXCEPT ![t] = l], UNCHANGED <<dials, sendClosed>>
  PROVE  GenFresh' /\ Dialled' /\ ClosedIsQuiet'
  <1>1. GenFresh' /\ Dialled'
    BY GorFacts DEF GenFresh, Dialled, Live, TypeOK, PcType
  <1>2. ~sendClosed
    BY DEF ClosedIsQuiet
  <1> QED
    BY <1>1, <1>2 DEF ClosedIsQuiet

\* A step that moves no goroutine.
LEMMA NoMove ==
  ASSUME WgInv, UNCHANGED <<pc, wg, dials, sendClosed>>
  PROVE  WgInv'
  BY DEF WgInv, GenFresh, Dialled, WgCounts, ClosedIsQuiet, Live

\* A pump or a loop that returns or goes on.
LEMMA OneMoves ==
  ASSUME TypeOK, WgInv, NEW t \in Gor \ {Run}, Live(t), NEW l, l \notin {"none", "done"},
         Exit(t) \/ Goto(t, l), UNCHANGED <<dials, sendClosed>>
  PROVE  WgInv'
  <1>1. WgCounts'
    BY ExitCounts, GotoCounts DEF WgInv, TypeOK
  <1>2. PICK k : pc' = [pc EXCEPT ![t] = k]
    BY DEF Exit, Goto
  <1> QED
    BY <1>1, <1>2, MoveKeeps DEF WgInv

\* run adds three to the WaitGroup and starts three loops that were not running.
LEMMA SpawnCounts ==
  ASSUME TypeOK, WgInv, StoreAndSpawn
  PROVE  WgInv'
  <1> DEFINE r == <<"read", dials>>
             w == <<"write", dials>>
             p == <<"ping", dials>>
  <1> USE GorFacts
  <1>1. pc[Run] = "storing" /\ wg' = wg + 3 /\ UNCHANGED <<dials, sendClosed>>
    BY DEF StoreAndSpawn, Started, chanVars
  <1>2. dials \in Gens
    BY <1>1 DEF WgInv, Dialled
  <1>3. \A t \in Loops : t[2] = dials <=> t \in {r, w, p}
    BY <1>2 DEF Loops
  <1>4. r \notin LiveSet /\ w \notin LiveSet /\ p \notin LiveSet
    BY <1>1, <1>2, <1>3 DEF WgInv, GenFresh, LiveSet, Live
  <1>5. /\ pc'[Run] = "select"
        /\ \A t \in {r, w, p} : pc'[t] = "start"
        /\ \A t \in Gor \ {Run, r, w, p} : pc'[t] = pc[t]
    <2>1. pc' = [t \in Gor |-> IF t = Run THEN "select" ELSE IF t \in {r, w, p} THEN "start" ELSE pc[t]]
      BY DEF StoreAndSpawn, Started
    <2>2. \A t \in {r, w, p} : t \in Loops /\ t \in Gor /\ t # Run
      BY <1>2
    <2> QED
      BY <2>1, <2>2
  <1>6. LiveSet' = ((LiveSet \cup {r}) \cup {w}) \cup {p}
    <2>1. Run \in LiveSet /\ Run \in LiveSet'
      BY <1>1, <1>5 DEF LiveSet, Live
    <2>2. \A t \in {r, w, p} : t \in LiveSet'
      BY <1>2, <1>5 DEF LiveSet, Live
    <2>3. \A t \in Gor \ {Run, r, w, p} : t \in LiveSet' <=> t \in LiveSet
      BY <1>5 DEF LiveSet, Live
    <2>4. LiveSet \subseteq Gor /\ LiveSet' \subseteq Gor
      BY DEF LiveSet
    <2> QED
      BY <2>1, <2>2, <2>3, <2>4
  <1>7. Cardinality(LiveSet') = Cardinality(LiveSet) + 3
    <2>1. /\ IsFiniteSet(LiveSet \cup {r})
          /\ Cardinality(LiveSet \cup {r}) = Cardinality(LiveSet) + 1
      BY <1>4, LiveFinite, FS_AddElement
    <2>2. w \notin LiveSet \cup {r} /\ p \notin (LiveSet \cup {r}) \cup {w}
      BY <1>4
    <2>3. /\ IsFiniteSet((LiveSet \cup {r}) \cup {w})
          /\ Cardinality((LiveSet \cup {r}) \cup {w}) = Cardinality(LiveSet) + 1 + 1
      BY <2>1, <2>2, FS_AddElement
    <2>4. Cardinality(((LiveSet \cup {r}) \cup {w}) \cup {p}) = Cardinality(LiveSet) + 1 + 1 + 1
      BY <2>2, <2>3, FS_AddElement
    <2> QED
      BY <2>4, <1>6, LiveFinite
  <1>8. WgCounts'
    BY <1>1, <1>7 DEF WgCounts, LiveSet, WgInv
  <1>9. GenFresh' /\ Dialled'
    <2>1. ASSUME NEW t \in Loops, t[2] > dials PROVE pc'[t] = "none"
      <3>1. t \in Gor \ {Run, r, w, p}
        BY <2>1, <1>2, <1>3, DialsType
      <3> QED
        BY <3>1, <2>1, <1>5 DEF WgInv, GenFresh
    <2> QED
      BY <2>1, <1>1, <1>5 DEF GenFresh, Dialled
  <1>10. ~sendClosed
    BY <1>1 DEF WgInv, ClosedIsQuiet, Live
  <1> QED
    BY <1>1, <1>8, <1>9, <1>10 DEF WgInv, ClosedIsQuiet

\* run moves between its own labels, or returns.
LEMMA RunMoves ==
  ASSUME TypeOK, WgInv, NEW l \in RunPc \ {"done", "storing"}, Live(Run),
         Exit(Run) \/ Goto(Run, l), UNCHANGED <<dials, sendClosed>>
  PROVE  WgInv'
  <1> USE GorFacts
  <1>1. WgCounts'
    BY ExitCounts, GotoCounts DEF WgInv, TypeOK, RunPc
  <1>2. pc'[Run] # "storing" /\ \A t \in Loops : pc'[t] = pc[t]
    BY DEF Exit, Goto, TypeOK, PcType
  <1>3. GenFresh' /\ Dialled'
    BY <1>2 DEF WgInv, GenFresh, Dialled
  <1>4. ~sendClosed
    BY DEF WgInv, ClosedIsQuiet
  <1> QED
    BY <1>1, <1>3, <1>4 DEF WgInv, ClosedIsQuiet

\* Close may close sendCh: at that moment nobody is left.
LEMMA CloseQuiet ==
  ASSUME TypeOK, WgInv, CloseReturn
  PROVE  WgInv'
  <1>1. UNCHANGED <<pc, wg, dials>> /\ wg = 0
    BY DEF CloseReturn, gorVars, connVars
  <1>2. LiveSet = {}
    BY <1>1, LiveFinite, FS_EmptySet DEF WgInv, WgCounts, LiveSet
  <1>3. ClosedIsQuiet'
    BY <1>1, <1>2 DEF ClosedIsQuiet, LiveSet, Live
  <1> QED
    BY <1>1, <1>3 DEF WgInv, GenFresh, Dialled, WgCounts, Live

\* Every step keeps the WaitGroup exact.
LEMMA WgStep == TypeOK /\ WgInv /\ Next => WgInv'
  <1> SUFFICES ASSUME TypeOK, WgInv, Next PROVE WgInv'
    OBVIOUS
  <1> USE GorFacts
  <1>1. CASE Produce
    BY <1>1, NoMove DEF Produce, SendExt, chanVars, connVars, gorVars
  <1>2. CASE PumpRecv
    <2>1. Live(Pump) /\ UNCHANGED <<dials, sendClosed>> /\ Goto(Pump, "send")
      BY <1>2 DEF PumpRecv, Live, chanVars, connVars
    <2> QED
      BY <2>1, OneMoves
  <1>3. CASE PumpSend
    <2>1. Live(Pump) /\ UNCHANGED <<dials, sendClosed>> /\ Goto(Pump, "recv")
      BY <1>3 DEF PumpSend, Live, chanVars, connVars
    <2> QED
      BY <2>1, OneMoves
  <1>4. CASE PumpExit
    <2>1. Live(Pump) /\ UNCHANGED <<dials, sendClosed>> /\ Exit(Pump)
      BY <1>4 DEF PumpExit, Live, chanVars, connVars
    <2> QED
      BY <2>1, OneMoves
  <1>5. CASE ConnectStart
    <2>1. Live(Run) /\ UNCHANGED <<dials, sendClosed>> /\ (Exit(Run) \/ Goto(Run, "dialing"))
      BY <1>5 DEF ConnectStart, Live, chanVars, connVars
    <2> QED
      BY <2>1, RunMoves DEF RunPc
  <1>6. CASE DialOk
    <2>1. pc[Run] = "dialing" /\ Goto(Run, "storing") /\ dials' = dials + 1
          /\ dials < MaxDials /\ UNCHANGED sendClosed
      BY <1>6 DEF DialOk, chanVars
    <2>2. Live(Run) /\ WgCounts'
      BY <2>1, GotoCounts DEF Live, WgInv, TypeOK
    <2>3. pc'[Run] = "storing" /\ \A t \in Loops : pc'[t] = pc[t]
      BY <2>1 DEF Goto, TypeOK, PcType
    <2>4. GenFresh' /\ Dialled'
      BY <2>1, <2>3, DialsType DEF WgInv, GenFresh, Dialled, TypeOK, ConnType
    <2>5. ~sendClosed
      BY <2>2 DEF WgInv, ClosedIsQuiet
    <2> QED
      BY <2>1, <2>2, <2>4, <2>5 DEF WgInv, ClosedIsQuiet
  <1>7. CASE DialFail
    <2>1. Live(Run) /\ UNCHANGED <<dials, sendClosed>> /\ (Exit(Run) \/ Goto(Run, "connect"))
      BY <1>7 DEF DialFail, Live, chanVars, connVars
    <2> QED
      BY <2>1, RunMoves DEF RunPc
  <1>8. CASE StoreAndSpawn
    BY <1>8, SpawnCounts
  <1>9. CASE Cleanup
    <2>1. Live(Run) /\ UNCHANGED <<dials, sendClosed>> /\ (Exit(Run) \/ Goto(Run, "connect"))
      BY <1>9 DEF Cleanup, CloseAndForget, Live, chanVars, connVars
    <2> QED
      BY <2>1, RunMoves DEF RunPc
  <1>10. ASSUME NEW t \in Loops, LoopStart(t) PROVE WgInv'
    <2>1. Live(t) /\ UNCHANGED <<dials, sendClosed>> /\ (Exit(t) \/ Goto(t, "loop"))
      BY <1>10 DEF LoopStart, Live, chanVars, connVars
    <2> QED
      BY <2>1, OneMoves
  <1>11. ASSUME NEW t \in Loops, LoopCtxDone(t) PROVE WgInv'
    <2>1. Live(t) /\ UNCHANGED <<dials, sendClosed>> /\ Exit(t)
      BY <1>11 DEF LoopCtxDone, Live, chanVars, connVars
    <2> QED
      BY <2>1, OneMoves
  <1>12. ASSUME NEW g \in Gens, ReadErr(g) PROVE WgInv'
    <2>1. PICK t \in Loops : (Exit(t) \/ Goto(t, "loop")) /\ Live(t) /\ UNCHANGED <<dials, sendClosed>>
      BY <1>12 DEF ReadErr, Live, chanVars, connVars
    <2> QED
      BY <2>1, OneMoves
  <1>13. ASSUME NEW g \in Gens, ReadDeadline(g) PROVE WgInv'
    <2>1. PICK t \in Loops : (Exit(t) \/ Goto(t, "loop")) /\ Live(t) /\ UNCHANGED <<dials, sendClosed>>
      BY <1>13 DEF ReadDeadline, Live, chanVars, connVars
    <2> QED
      BY <2>1, OneMoves
  <1>14. ASSUME NEW g \in Gens, ReadScanDLL(g) PROVE WgInv'
    <2>1. PICK t \in Loops : (Goto(t, "scan")) /\ Live(t) /\ UNCHANGED <<dials, sendClosed>>
      BY <1>14 DEF ReadScanDLL, Live, chanVars, connVars
    <2> QED
      BY <2>1, OneMoves
  <1>15. ASSUME NEW g \in Gens, ScanSend(g) PROVE WgInv'
    BY <1>15, NoMove DEF ScanSend, SendExt, chanVars, connVars, gorVars
  <1>16. ASSUME NEW g \in Gens, ScanEnd(g) PROVE WgInv'
    <2>1. PICK t \in Loops : (Goto(t, "loop")) /\ Live(t) /\ UNCHANGED <<dials, sendClosed>>
      BY <1>16 DEF ScanEnd, Live, chanVars, connVars
    <2> QED
      BY <2>1, OneMoves
  <1>17. ASSUME NEW g \in Gens, WriteTake(g) PROVE WgInv'
    <2>1. PICK t \in Loops : (Goto(t, "write")) /\ Live(t) /\ UNCHANGED <<dials, sendClosed>>
      BY <1>17 DEF WriteTake, Live, chanVars, connVars
    <2> QED
      BY <2>1, OneMoves
  <1>18. ASSUME NEW g \in Gens, WriteOk(g) PROVE WgInv'
    <2>1. PICK t \in Loops : (Goto(t, "loop")) /\ Live(t) /\ UNCHANGED <<dials, sendClosed>>
      BY <1>18 DEF WriteOk, Live, chanVars, connVars
    <2> QED
      BY <2>1, OneMoves
  <1>19. ASSUME NEW g \in Gens, WriteErr(g) PROVE WgInv'
    <2>1. PICK t \in Loops : (Exit(t) \/ Goto(t, "loop")) /\ Live(t) /\ UNCHANGED <<dials, sendClosed>>
      BY <1>19 DEF WriteErr, Live, chanVars, connVars
    <2> QED
      BY <2>1, OneMoves
  <1>20. ASSUME NEW g \in Gens, PingTick(g) PROVE WgInv'
    <2>1. PICK t \in Loops : (Goto(t, "write")) /\ Live(t) /\ UNCHANGED <<dials, sendClosed>>
      BY <1>20 DEF PingTick, Live, chanVars, connVars
    <2> QED
      BY <2>1, OneMoves
  <1>21. ASSUME NEW g \in Gens, PingOk(g) PROVE WgInv'
    <2>1. PICK t \in Loops : (Goto(t, "loop")) /\ Live(t) /\ UNCHANGED <<dials, sendClosed>>
      BY <1>21 DEF PingOk, Live, chanVars, connVars
    <2> QED
      BY <2>1, OneMoves
  <1>22. ASSUME NEW g \in Gens, PingErr(g) PROVE WgInv'
    <2>1. PICK t \in Loops : (Exit(t) \/ Goto(t, "loop")) /\ Live(t) /\ UNCHANGED <<dials, sendClosed>>
      BY <1>22 DEF PingErr, Live, chanVars, connVars
    <2> QED
      BY <2>1, OneMoves
  <1>23. CASE CloseCancel
    BY <1>23, NoMove DEF CloseCancel, chanVars, connVars, gorVars
  <1>24. CASE CloseConn
    BY <1>24, NoMove DEF CloseConn, CloseAndForget, chanVars, connVars, gorVars
  <1>25. CASE CloseReturn
    BY <1>25, CloseQuiet
  <1>26. ASSUME NEW c \in Gens, Break(c) PROVE WgInv'
    BY <1>26, NoMove DEF Break, chanVars, connVars, gorVars
  <1>27. ASSUME NEW c \in Gens, ConcurrentWritePanic(c) PROVE WgInv'
    BY <1>27, NoMove DEF ConcurrentWritePanic, chanVars, connVars, gorVars
  <1>30. CASE Stopped
    BY <1>30, NoMove DEF Stopped, vars, chanVars, connVars, gorVars
  <1> QED
    BY <1>1, <1>2, <1>3, <1>4, <1>5, <1>6, <1>7, <1>8, <1>9, <1>10, <1>11, <1>12, <1>13, <1>14, <1>15, <1>16, <1>17, <1>18, <1>19, <1>20, <1>21, <1>22, <1>23, <1>24, <1>25, <1>26, <1>27, <1>30 DEF Next, Step, PumpStep, RunStep, ReadStep, WriteStep, PingStep, OwnerStep

\* The inductive invariant holds in every reachable state.
LEMMA WgInvariant == Spec => []WgInv
  <1>1. Init => WgInv
    <2> SUFFICES ASSUME Init PROVE WgInv
      OBVIOUS
    <2> USE GorFacts
    <2>1. /\ pc[Pump] = "recv" /\ pc[Run] = "connect" /\ wg = 2
          /\ \A t \in Loops : pc[t] = "none"
      BY DEF Init
    <2>2. LiveSet = {Pump} \cup {Run}
      BY <2>1 DEF LiveSet, Live, Gor
    <2>3. Cardinality(LiveSet) = 2
      <3>1. IsFiniteSet({Pump}) /\ Cardinality({Pump}) = 1 /\ Run \notin {Pump}
        BY FS_Singleton
      <3>2. Cardinality({Pump} \cup {Run}) = Cardinality({Pump}) + 1
        BY <3>1, FS_AddElement
      <3> QED
        BY <3>1, <3>2, <2>2
    <2> QED
      BY <2>1, <2>3 DEF Init, WgInv, GenFresh, Dialled, WgCounts, LiveSet, ClosedIsQuiet
  <1>2. TypeOK /\ WgInv /\ [Next]_vars => WgInv'
    BY WgStep, NoMove DEF vars, chanVars, connVars, gorVars
  <1> QED
    BY <1>1, <1>2, TypeCorrect, PTL DEF Spec

\* The WaitGroup equals the number of goroutines that run, although run adds to it
\* while Close may be waiting and reconnects leave old loops behind.
THEOREM WgExact == Spec => []WgCounts
  BY WgInvariant, PTL DEF WgInv

\* Once Close has closed sendCh no goroutine of any generation is left that could
\* send on it or receive from it.
THEOREM ClosedQuiet == Spec => []ClosedIsQuiet
  BY WgInvariant, PTL DEF WgInv
=============================================================================
