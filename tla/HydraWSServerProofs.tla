------------------------ MODULE HydraWSServerProofs ------------------------
(***************************************************************************)
(* Proofs about the backend's connections, broadcaster and event channel   *)
(* (HydraWSServer), for any number of connections and all capacities.      *)
(***************************************************************************)
EXTENDS HydraWSServer, TLAPS, FiniteSetTheorems, SequenceTheorems

-----------------------------------------------------------------------------
(* Types *)

LEMMA TypeInit == Init => TypeOK
<1> SUFFICES ASSUME Init PROVE TypeOK
  OBVIOUS
<1>1. recv \in Seq(Conn \X Nat) /\ printed \in Seq(Conn \X Nat)
  BY DEF Init
<1>2. hpc \in [Conn -> HandlerPc] /\ frames \in [Conn -> Nat]
  BY DEF Init, HandlerPc
<1>3. sendText \in 0..SendCap
  BY ServerAssumption DEF Init
<1> QED  BY <1>1, <1>2, <1>3 DEF Init, TypeOK, BcPc

LEMMA TypeStep == TypeOK /\ [Next]_vars => TypeOK'
<1> SUFFICES ASSUME TypeOK, [Next]_vars PROVE TypeOK'
  OBVIOUS
<1> USE DEF TypeOK, HandlerPc, BcPc
<1>1. CASE \E c \in Conn : Upgrade(c)
  BY <1>1 DEF Upgrade, HGoto, hVars, evVars, bcVars, srVars
<1>2. CASE \E c \in Conn : Register(c)
  BY <1>2 DEF Register, HGoto, hVars, evVars, bcVars, srVars
<1>3. CASE \E c \in Conn : ReadEvent(c)
  BY <1>3 DEF ReadEvent, HGoto, hVars, evVars, bcVars, srVars
<1>4. CASE \E c \in Conn : ReadErr(c)
  BY <1>4 DEF ReadErr, HGoto, AfterError, hVars, evVars, bcVars, srVars
<1>5. CASE \E c \in Conn : Push(c)
  BY <1>5 DEF Push, HGoto, Enqueued, hVars, evVars, bcVars, srVars
<1>6. CASE \E c \in Conn : PushCtxDone(c)
  BY <1>6 DEF PushCtxDone, HGoto, hVars, evVars, bcVars, srVars
<1>7. CASE \E c \in Conn : PushPanic(c)
  BY <1>7 DEF PushPanic, hVars, evVars, bcVars, srVars
<1>8. CASE \E c \in Conn : Unregister(c)
  BY <1>8 DEF Unregister, HGoto, Delete, hVars, evVars, bcVars, srVars
<1>9. CASE \E c \in Conn : CloseConn(c)
  BY <1>9 DEF CloseConn, HGoto, hVars, evVars, bcVars, srVars
<1>10. CASE \E c \in Conn : BcPick(c)
  BY <1>10 DEF BcPick, Produced, hVars, evVars, bcVars, srVars
<1>11. CASE \E c \in Conn : Break(c)
  BY <1>11 DEF Break, hVars, evVars, bcVars, srVars
<1>12. CASE BcTake
  <2>1. sendText' \in 0..SendCap
    BY <1>12, ServerAssumption DEF BcTake
  <2> QED  BY <1>12, <2>1 DEF BcTake, hVars, evVars, srVars
<1>13. CASE BcWriteOk
  BY <1>13 DEF BcWriteOk, hVars, evVars, bcVars, srVars
<1>14. CASE BcWriteErr
  BY <1>14 DEF BcWriteErr, hVars, evVars, bcVars, srVars
<1>15. CASE BcDrop
  BY <1>15 DEF BcDrop, Delete, hVars, evVars, bcVars, srVars
<1>16. CASE BcRelock
  BY <1>16 DEF BcRelock, Relocked, AfterDrop, hVars, evVars, bcVars, srVars
<1>17. CASE BcEnd
  BY <1>17 DEF BcEnd, Exhausted, hVars, evVars, bcVars, srVars
<1>18. CASE BcPing
  BY <1>18 DEF BcPing, hVars, evVars, bcVars, srVars
<1>19. CASE BcPingEnd
  BY <1>19 DEF BcPingEnd, hVars, evVars, bcVars, srVars
<1>20. CASE BcExit
  BY <1>20 DEF BcExit, hVars, evVars, bcVars, srVars
<1>21. CASE MainSend
  <2>1. sendText' \in 0..SendCap
    BY <1>21, ServerAssumption DEF MainSend, RoomForCmd
  <2> QED  BY <1>21, <2>1 DEF MainSend, hVars, evVars, bcVars, srVars
<1>22. CASE Consume
  <2>1. Head(recv) \in Conn \X Nat /\ Tail(recv) \in Seq(Conn \X Nat)
    BY <1>22 DEF Consume
  <2>2. recv' \in Seq(Conn \X Nat) /\ printed' \in Seq(Conn \X Nat)
    BY <1>22, <2>1 DEF Consume
  <2> QED  BY <1>22, <2>2 DEF Consume, hVars, bcVars, srVars
<1>23. CASE ListenFails
  BY <1>23 DEF ListenFails, hVars, evVars, bcVars, srVars
<1>24. CASE CloseCancel
  BY <1>24 DEF CloseCancel, hVars, evVars, bcVars, srVars
<1>25. CASE CloseRecv
  BY <1>25 DEF CloseRecv, hVars, evVars, bcVars, srVars
<1>26. CASE UNCHANGED vars
  BY <1>26 DEF vars, hVars, evVars, bcVars, srVars
<1> QED
  BY <1>1, <1>2, <1>3, <1>4, <1>5, <1>6, <1>7, <1>8, <1>9, <1>10, <1>11, <1>12,
     <1>13, <1>14, <1>15, <1>16, <1>17, <1>18, <1>19, <1>20, <1>21, <1>22,
     <1>23, <1>24, <1>25, <1>26
  DEF Next, Step, Stopped, Handler, Broadcaster

\* The types of HydraWSServer's variables; sendText never exceeds SendText's capacity.
THEOREM ServerTypes == Spec => []TypeOK
BY TypeInit, TypeStep, PTL DEF Spec

-----------------------------------------------------------------------------
(* The map of connections and its lock *)

\* Handlers and broadcaster agree on the map.  The broadcaster holds mu for reading
\* exactly while it iterates, so that what it writes to stays registered; a connection
\* that is closed is no longer in the map, except the one the broadcaster has closed
\* after a failed write and is about to delete; and no connection is closed before its
\* handler has registered it.
MapInv ==
  /\ RegisteredIsServed
  /\ rlock <=> bc \in {"iter", "write", "ping"}
  /\ bc = "write" => cur \in conns
  /\ \A c \in closed : hpc[c] \notin {"none", "upgraded"}
  /\ \A c \in conns \cap closed : bc = "drop" /\ cur = c

LEMMA MapInit == Init => MapInv
BY DEF Init, MapInv, RegisteredIsServed

LEMMA MapStep == TypeOK /\ MapInv /\ [Next]_vars => MapInv'
<1> SUFFICES ASSUME TypeOK, MapInv, [Next]_vars PROVE MapInv'
  OBVIOUS
<1> USE DEF TypeOK, MapInv, RegisteredIsServed
<1>1. CASE \E c \in Conn : Upgrade(c)
  BY <1>1 DEF Upgrade, HGoto, hVars, evVars, bcVars, srVars
<1>2. CASE \E c \in Conn : Register(c)
  BY <1>2 DEF Register, HGoto, hVars, evVars, bcVars, srVars
<1>3. CASE \E c \in Conn : ReadEvent(c)
  BY <1>3 DEF ReadEvent, HGoto, hVars, evVars, bcVars, srVars
<1>4. CASE \E c \in Conn : ReadErr(c)
  BY <1>4 DEF ReadErr, HGoto, AfterError, hVars, evVars, bcVars, srVars
<1>5. CASE \E c \in Conn : Push(c)
  BY <1>5 DEF Push, HGoto, Enqueued, hVars, evVars, bcVars, srVars
<1>6. CASE \E c \in Conn : PushCtxDone(c)
  BY <1>6 DEF PushCtxDone, HGoto, hVars, evVars, bcVars, srVars
<1>7. CASE \E c \in Conn : PushPanic(c)
  BY <1>7 DEF PushPanic, hVars, evVars, bcVars, srVars
<1>8. CASE \E c \in Conn : Unregister(c)
  BY <1>8 DEF Unregister, HGoto, Delete, hVars, evVars, bcVars, srVars
<1>9. CASE \E c \in Conn : CloseConn(c)
  <2>1. PICK c \in Conn : CloseConn(c)
    BY <1>9
  <2>2. c \notin conns
    BY <2>1 DEF CloseConn
  <2>3. /\ closed' = closed \cup {c} /\ hpc' = [hpc EXCEPT ![c] = "gone"]
        /\ UNCHANGED <<conns, rlock, bc, cur>>
    BY <2>1 DEF CloseConn, HGoto, bcVars
  <2> QED  BY <2>2, <2>3
<1>10. CASE \E c \in Conn : BcPick(c)
  BY <1>10 DEF BcPick, Produced, hVars, evVars, bcVars, srVars
<1>11. CASE \E c \in Conn : Break(c)
  BY <1>11 DEF Break, hVars, evVars, bcVars, srVars
<1>12. CASE BcTake
  BY <1>12 DEF BcTake, hVars, evVars, bcVars, srVars
<1>13. CASE BcWriteOk
  BY <1>13 DEF BcWriteOk, hVars, evVars, bcVars, srVars
<1>14. CASE BcWriteErr
  BY <1>14 DEF BcWriteErr, hVars, evVars, bcVars, srVars
<1>15. CASE BcDrop
  BY <1>15 DEF BcDrop, Delete, hVars, evVars, bcVars, srVars
<1>16. CASE BcRelock
  BY <1>16 DEF BcRelock, Relocked, AfterDrop, hVars, evVars, bcVars, srVars
<1>17. CASE BcEnd
  BY <1>17 DEF BcEnd, Exhausted, hVars, evVars, bcVars, srVars
<1>18. CASE BcPing
  BY <1>18 DEF BcPing, hVars, evVars, bcVars, srVars
<1>19. CASE BcPingEnd
  BY <1>19 DEF BcPingEnd, hVars, evVars, bcVars, srVars
<1>20. CASE BcExit
  BY <1>20 DEF BcExit, hVars, evVars, bcVars, srVars
<1>21. CASE MainSend
  BY <1>21 DEF MainSend, RoomForCmd, hVars, evVars, bcVars, srVars
<1>22. CASE Consume
  BY <1>22 DEF Consume, hVars, evVars, bcVars, srVars
<1>23. CASE ListenFails
  BY <1>23 DEF ListenFails, hVars, evVars, bcVars, srVars
<1>24. CASE CloseCancel
  BY <1>24 DEF CloseCancel, hVars, evVars, bcVars, srVars
<1>25. CASE CloseRecv
  BY <1>25 DEF CloseRecv, hVars, evVars, bcVars, srVars
<1>26. CASE UNCHANGED vars
  BY <1>26 DEF vars, hVars, evVars, bcVars, srVars
<1> QED
  BY <1>1, <1>2, <1>3, <1>4, <1>5, <1>6, <1>7, <1>8, <1>9, <1>10, <1>11, <1>12,
     <1>13, <1>14, <1>15, <1>16, <1>17, <1>18, <1>19, <1>20, <1>21, <1>22,
     <1>23, <1>24, <1>25, <1>26
  DEF Next, Step, Stopped, Handler, Broadcaster

LEMMA MapInvariant == Spec => [](TypeOK /\ MapInv)
BY TypeInit, TypeStep, MapInit, MapStep, PTL DEF Spec

\* conns never keeps a connection whose handler has deregistered it, whichever of
\* handler and broadcaster deletes the entry first.
THEOREM RegisteredServed == Spec => []RegisteredIsServed
BY MapInvariant, PTL DEF MapInv

\* The broadcaster writes to registered connections only, and their handlers have not
\* closed them, although it gives up its lock in the middle of an iteration.
THEOREM WritesToRegistered == Spec => []WriteToRegistered
<1>1. TypeOK /\ MapInv => WriteToRegistered
  BY DEF TypeOK, MapInv, RegisteredIsServed, WriteToRegistered
<1> QED  BY <1>1, MapInvariant, PTL

\* What the iteration has produced and is still in the map has got the command, but for
\* the connection in hand; and a connection is in the map once only.
ToldInv ==
  /\ \A c \in visited : hpc[c] \notin {"none", "upgraded"}
  /\ bc \notin Broadcasting => visited = {}
  /\ bc \in {"iter", "relock"} => visited \cap conns \subseteq told
  /\ bc \in {"write", "drop"} => visited \cap conns \subseteq told \cup {cur}

LEMMA ToldInit == Init => ToldInv
BY DEF Init, ToldInv, Broadcasting

LEMMA ToldStep == TypeOK /\ RegisteredIsServed /\ ToldInv /\ [Next]_vars => ToldInv'
<1> SUFFICES ASSUME TypeOK, RegisteredIsServed, ToldInv, [Next]_vars PROVE ToldInv'
  OBVIOUS
<1> USE DEF TypeOK, RegisteredIsServed, ToldInv, Broadcasting
<1>1. CASE \E c \in Conn : Upgrade(c)
  BY <1>1 DEF Upgrade, HGoto, hVars, evVars, bcVars, srVars
<1>2. CASE \E c \in Conn : Register(c)
  BY <1>2 DEF Register, HGoto, hVars, evVars, bcVars, srVars
<1>3. CASE \E c \in Conn : ReadEvent(c)
  BY <1>3 DEF ReadEvent, HGoto, hVars, evVars, bcVars, srVars
<1>4. CASE \E c \in Conn : ReadErr(c)
  BY <1>4 DEF ReadErr, HGoto, AfterError, hVars, evVars, bcVars, srVars
<1>5. CASE \E c \in Conn : Push(c)
  BY <1>5 DEF Push, HGoto, Enqueued, hVars, evVars, bcVars, srVars
<1>6. CASE \E c \in Conn : PushCtxDone(c)
  BY <1>6 DEF PushCtxDone, HGoto, hVars, evVars, bcVars, srVars
<1>7. CASE \E c \in Conn : PushPanic(c)
  BY <1>7 DEF PushPanic, hVars, evVars, bcVars, srVars
<1>8. CASE \E c \in Conn : Unregister(c)
  BY <1>8 DEF Unregister, HGoto, Delete, hVars, evVars, bcVars, srVars
<1>9. CASE \E c \in Conn : CloseConn(c)
  BY <1>9 DEF CloseConn, HGoto, hVars, evVars, bcVars, srVars
<1>10. CASE \E c \in Conn : BcPick(c)
  BY <1>10 DEF BcPick, Produced, hVars, evVars, bcVars, srVars
<1>11. CASE \E c \in Conn : Break(c)
  BY <1>11 DEF Break, hVars, evVars, bcVars, srVars
<1>12. CASE BcTake
  BY <1>12 DEF BcTake, hVars, evVars, bcVars, srVars
<1>13. CASE BcWriteOk
  BY <1>13 DEF BcWriteOk, hVars, evVars, bcVars, srVars
<1>14. CASE BcWriteErr
  BY <1>14 DEF BcWriteErr, hVars, evVars, bcVars, srVars
<1>15. CASE BcDrop
  BY <1>15 DEF BcDrop, Delete, hVars, evVars, bcVars, srVars
<1>16. CASE BcRelock
  BY <1>16 DEF BcRelock, Relocked, AfterDrop, hVars, evVars, bcVars, srVars
<1>17. CASE BcEnd
  BY <1>17 DEF BcEnd, Exhausted, hVars, evVars, bcVars, srVars
<1>18. CASE BcPing
  BY <1>18 DEF BcPing, hVars, evVars, bcVars, srVars
<1>19. CASE BcPingEnd
  BY <1>19 DEF BcPingEnd, hVars, evVars, bcVars, srVars
<1>20. CASE BcExit
  BY <1>20 DEF BcExit, hVars, evVars, bcVars, srVars
<1>21. CASE MainSend
  BY <1>21 DEF MainSend, RoomForCmd, hVars, evVars, bcVars, srVars
<1>22. CASE Consume
  BY <1>22 DEF Consume, hVars, evVars, bcVars, srVars
<1>23. CASE ListenFails
  BY <1>23 DEF ListenFails, hVars, evVars, bcVars, srVars
<1>24. CASE CloseCancel
  BY <1>24 DEF CloseCancel, hVars, evVars, bcVars, srVars
<1>25. CASE CloseRecv
  BY <1>25 DEF CloseRecv, hVars, evVars, bcVars, srVars
<1>26. CASE UNCHANGED vars
  BY <1>26 DEF vars, hVars, evVars, bcVars, srVars
<1> QED
  BY <1>1, <1>2, <1>3, <1>4, <1>5, <1>6, <1>7, <1>8, <1>9, <1>10, <1>11, <1>12,
     <1>13, <1>14, <1>15, <1>16, <1>17, <1>18, <1>19, <1>20, <1>21, <1>22,
     <1>23, <1>24, <1>25, <1>26
  DEF Next, Step, Stopped, Handler, Broadcaster

\* When a broadcast ends, every connection that was registered when it began and still
\* is has got the command and is open, however many broken ones it met on the way.
THEOREM BroadcastIsComplete == Spec => BroadcastComplete
<1>1. TypeOK /\ MapInv /\ ToldInv /\ [Next]_vars =>
        [(bc \in Broadcasting /\ bc' \notin Broadcasting) =>
           \A c \in start \cap conns' : c \in told /\ c \notin closed]_vars
  <2> SUFFICES ASSUME TypeOK, MapInv, ToldInv, Next, bc \in Broadcasting, bc' \notin Broadcasting,
                      NEW c \in start \cap conns'
               PROVE  c \in told /\ c \notin closed
    OBVIOUS
  <2>1. BcEnd
    BY DEF Next, Step, Stopped, Handler, Broadcaster, Upgrade, Register, ReadEvent, ReadErr,
       Push, PushCtxDone, PushPanic, Unregister, CloseConn, BcPick, Break, BcTake, BcWriteOk,
       BcWriteErr, BcDrop, BcRelock, AfterDrop, BcPing, BcPingEnd, BcExit, MainSend, Consume,
       ListenFails, CloseCancel, CloseRecv, vars, bcVars, Broadcasting
  <2>2. c \in start \cap conns
    BY <2>1 DEF BcEnd, hVars
  <2> QED  BY <2>1, <2>2 DEF BcEnd, Exhausted, TypeOK, MapInv, ToldInv
<1>2. Spec => []ToldInv
  <2>1. MapInv => RegisteredIsServed
    BY DEF MapInv
  <2> QED  BY <2>1, MapInvariant, ToldInit, ToldStep, PTL DEF Spec
<1> QED  BY <1>1, <1>2, MapInvariant, PTL DEF Spec, BroadcastComplete

-----------------------------------------------------------------------------
(* The order of the events *)

\* Positions below n that hold an event of connection c.
Places(c, n) == {i \in 1..n : Sent[i][1] = c}

\* The numbers say which event of its connection each one is, and unless a handler
\* has dropped its event at the shutdown and left, nothing is missing.
OrderInv ==
  /\ \A i \in DOMAIN Sent : Sent[i][2] = Count(Sent[i][1], i)
  /\ \A c \in Conn :
       \/ Count(c, Len(Sent)) = frames[c] - InHand(c)
       \/ ctxDone /\ hpc[c] \in {"leaving", "closing", "gone"}

LEMMA SentType == TypeOK => Sent \in Seq(Conn \X Nat) /\ Len(Sent) \in Nat
BY DEF TypeOK, Sent

LEMMA PlacesFinite ==
  ASSUME NEW c, NEW n \in Nat
  PROVE  IsFiniteSet(Places(c, n)) /\ Count(c, n) = Cardinality(Places(c, n)) /\ Count(c, n) \in Nat
<1>1. IsFiniteSet(1..n)
  BY FS_Interval
<1>2. IsFiniteSet(Places(c, n))
  BY <1>1, FS_Subset DEF Places
<1> QED  BY <1>2, FS_CardinalityType DEF Places, Count

LEMMA AppendLast ==
  ASSUME NEW S, NEW p \in Seq(S), NEW q \in Seq(S), NEW x \in S
  PROVE  p \o Append(q, x) = Append(p \o q, x)
OBVIOUS

\* Moving the first event of a queue to the end of another.
LEMMA MoveHead ==
  ASSUME NEW S, NEW p \in Seq(S), NEW q \in Seq(S), q # <<>>
  PROVE  Append(p, Head(q)) \o Tail(q) = p \o q
<1>0. Head(q) \in S /\ Tail(q) \in Seq(S)
  OBVIOUS
<1>1. PICK x \in S, r \in Seq(S) : x = Head(q) /\ r = Tail(q)
  BY <1>0
<1>2. q = <<x>> \o r
  BY <1>1
<1>3. Append(p, x) \o r = p \o (<<x>> \o r)
  OBVIOUS
<1> QED  BY <1>1, <1>2, <1>3

\* What an event that is appended to Sent does to the counts.
LEMMA CountAppend ==
  ASSUME TypeOK, NEW e \in Conn \X Nat, Sent' = Append(Sent, e), NEW d \in Conn
  PROVE  /\ \A n \in 0..Len(Sent) : Count(d, n)' = Count(d, n)
         /\ Count(d, Len(Sent))' = Count(d, Len(Sent)) + IF e[1] = d THEN 1 ELSE 0
<1>0. PICK L \in Nat : L = Len(Sent)
  BY SentType
<1>1. /\ L \in Nat /\ L = Len(Sent) /\ Len(Sent') = L + 1
      /\ Sent'[L + 1] = e /\ \A i \in 1..L : Sent'[i] = Sent[i]
  BY <1>0, SentType
<1>2. \A n \in 0..L : Places(d, n)' = Places(d, n)
  BY <1>1 DEF Places
<1>3. \A n \in 0..L : Count(d, n)' = Count(d, n)
  <2> TAKE n \in 0..L
  <2>1. Places(d, n)' = Places(d, n)
    BY <1>2
  <2> QED  BY <2>1 DEF Places, Count
<1>4. CASE e[1] = d
  <2>1. Places(d, L + 1)' = Places(d, L) \cup {L + 1}
    BY <1>1, <1>4 DEF Places
  <2>2. L + 1 \notin Places(d, L)
    BY <1>1 DEF Places
  <2>3. IsFiniteSet(Places(d, L)) /\ Count(d, L) = Cardinality(Places(d, L)) /\ Count(d, L) \in Nat
    BY PlacesFinite
  <2>4. Cardinality(Places(d, L) \cup {L + 1}) = Count(d, L) + 1
    BY <2>2, <2>3, FS_AddElement
  <2>5. Count(d, Len(Sent))' = Cardinality(Places(d, L + 1)')
    BY <1>1 DEF Places, Count
  <2> QED  BY <1>1, <1>3, <1>4, <2>1, <2>4, <2>5
<1>5. CASE e[1] # d
  <2>1. Places(d, L + 1)' = Places(d, L)
    BY <1>1, <1>5 DEF Places
  <2>2. Count(d, Len(Sent))' = Count(d, L)
    BY <1>1, <2>1 DEF Places, Count
  <2>3. Count(d, L) \in Nat
    BY <1>1, PlacesFinite
  <2> QED  BY <1>1, <1>3, <1>5, <2>2, <2>3
<1> QED  BY <1>4, <1>5

LEMMA OrderInit == Init => OrderInv
<1> SUFFICES ASSUME Init PROVE OrderInv
  OBVIOUS
<1>1. Sent = <<>> /\ Len(Sent) = 0
  BY DEF Init, Sent
<1>2. ASSUME NEW c \in Conn PROVE Count(c, Len(Sent)) = frames[c] - InHand(c)
  <2>1. Places(c, 0) = {}
    BY DEF Places
  <2>2. Count(c, 0) = 0
    BY <2>1, PlacesFinite, FS_EmptySet
  <2> QED  BY <1>1, <2>2 DEF Init, InHand
<1> QED  BY <1>1, <1>2 DEF OrderInv

\* Steps that send nothing on Recv.
LEMMA OrderSame ==
  ASSUME TypeOK, OrderInv, Sent' = Sent, ctxDone => ctxDone',
         \A c \in Conn : \/ frames'[c] = frames[c] /\ hpc'[c] = hpc[c]
                         \/ frames'[c] - InHand(c)' = frames[c] - InHand(c)
                            /\ (hpc[c] \in {"leaving", "closing", "gone"} =>
                                hpc'[c] \in {"leaving", "closing", "gone"})
                         \/ ctxDone' /\ hpc'[c] \in {"leaving", "closing", "gone"}
  PROVE  OrderInv'
<1>1. \A d, n : Count(d, n)' = Count(d, n)
  BY DEF Count
<1> QED  BY <1>1 DEF OrderInv, InHand

LEMMA OrderStep == TypeOK /\ OrderInv /\ [Next]_vars => OrderInv'
<1> SUFFICES ASSUME TypeOK, OrderInv, [Next]_vars PROVE OrderInv'
  OBVIOUS
<1>1. CASE \E c \in Conn : Upgrade(c)
  <2>1. Sent' = Sent /\ ctxDone' = ctxDone
    BY <1>1 DEF Upgrade, Sent, evVars, srVars
  <2> QED  BY <1>1, <2>1, OrderSame DEF Upgrade, HGoto, TypeOK, InHand
<1>2. CASE \E c \in Conn : Register(c)
  <2>1. Sent' = Sent /\ ctxDone' = ctxDone
    BY <1>2 DEF Register, Sent, evVars, srVars
  <2> QED  BY <1>2, <2>1, OrderSame DEF Register, HGoto, TypeOK, InHand
<1>3. CASE \E c \in Conn : ReadEvent(c)
  <2>1. Sent' = Sent /\ ctxDone' = ctxDone
    BY <1>3 DEF ReadEvent, Sent, evVars, srVars
  <2>2. PICK c \in Conn : /\ hpc[c] = "reading" /\ hpc' = [hpc EXCEPT ![c] = "pushing"]
                         /\ frames' = [frames EXCEPT ![c] = frames[c] + 1]
    BY <1>3 DEF ReadEvent, HGoto
  <2>3. frames'[c] - InHand(c)' = frames[c] - InHand(c)
    BY <2>2 DEF TypeOK, InHand
  <2> QED  BY <2>1, <2>2, <2>3, OrderSame DEF TypeOK
<1>4. CASE \E c \in Conn : ReadErr(c)
  <2>1. Sent' = Sent /\ ctxDone' = ctxDone
    BY <1>4 DEF ReadErr, Sent, evVars, srVars
  <2> QED  BY <1>4, <2>1, OrderSame DEF ReadErr, HGoto, AfterError, TypeOK, InHand
<1>5. CASE \E c \in Conn : Push(c)
  <2>1. PICK c \in Conn : Push(c)
    BY <1>5
  <2> DEFINE e == <<c, frames[c]>>
  <2>2. e \in Conn \X Nat /\ e[1] = c /\ e[2] = frames[c] /\ frames[c] \in Nat
    BY DEF TypeOK
  <2>3. Sent' = Append(Sent, e)
    <3>1. recv' = Append(recv, e) /\ printed' = printed
      BY <2>1 DEF Push, Enqueued
    <3>2. recv \in Seq(Conn \X Nat) /\ printed \in Seq(Conn \X Nat)
      BY DEF TypeOK
    <3> HIDE DEF e
    <3> QED  BY <2>2, <3>1, <3>2, AppendLast DEF Sent
  <2> HIDE DEF e
  <2>4. /\ hpc[c] = "pushing" /\ hpc' = [hpc EXCEPT ![c] = "reading"]
        /\ UNCHANGED <<frames, ctxDone>>
    BY <2>1 DEF Push, HGoto, srVars
  <2>5. \A d \in Conn :
          /\ \A n \in 0..Len(Sent) : Count(d, n)' = Count(d, n)
          /\ Count(d, Len(Sent))' = Count(d, Len(Sent)) + IF e[1] = d THEN 1 ELSE 0
          /\ Count(d, Len(Sent)) \in Nat
    BY <2>2, <2>3, CountAppend, SentType, PlacesFinite
  <2>6. Count(c, Len(Sent)) = frames[c] - 1
    BY <2>4 DEF OrderInv, InHand
  <2>7. ASSUME NEW d \in Conn
        PROVE  \/ Count(d, Len(Sent))' = (frames[d] - InHand(d))'
               \/ ctxDone' /\ hpc'[d] \in {"leaving", "closing", "gone"}
    <3>1. CASE d = c
      BY <2>2, <2>4, <2>5, <2>6, <3>1 DEF InHand, TypeOK
    <3>2. CASE d # c
      BY <2>2, <2>4, <2>5, <3>2 DEF InHand, TypeOK, OrderInv
    <3> QED  BY <3>1, <3>2
  <2>8. PICK L \in Nat : L = Len(Sent)
    BY SentType
  <2>9. /\ Sent' \in Seq(Conn \X Nat) /\ Len(Sent') = L + 1 /\ DOMAIN Sent' = 1..(L + 1)
        /\ Sent'[L + 1] = e /\ \A i \in 1..L : Sent'[i] = Sent[i] /\ Sent[i] \in Conn \X Nat
        /\ DOMAIN Sent = 1..L
    BY <2>2, <2>3, <2>8, SentType
  <2>10. ASSUME NEW i \in 1..(L + 1) PROVE (Sent[i][2] = Count(Sent[i][1], i))'
    <3>1. CASE i = L + 1
      <4>1. Count(c, L + 1)' = Count(c, Len(Sent))'
        BY <2>9
      <4>2. Count(c, L + 1)' = frames[c]
        BY <2>2, <2>5, <2>6, <4>1
      <4> QED  BY <2>2, <2>9, <3>1, <4>2
    <3>2. CASE i \in 1..L
      <4>1. PICK d \in Conn : d = Sent[i][1]
        BY <2>9, <3>2
      <4>2. Sent[i][2] = Count(d, i) /\ Sent'[i] = Sent[i]
        BY <2>9, <3>2, <4>1 DEF OrderInv
      <4>3. Count(d, i)' = Count(d, i)
        BY <2>5, <2>8, <3>2
      <4> QED  BY <4>1, <4>2, <4>3
    <3> QED  BY <3>1, <3>2
  <2> QED  BY <2>7, <2>9, <2>10 DEF OrderInv
<1>6. CASE \E c \in Conn : PushCtxDone(c)
  <2>1. Sent' = Sent /\ ctxDone' = ctxDone
    BY <1>6 DEF PushCtxDone, Sent, evVars, srVars
  <2> QED  BY <1>6, <2>1, OrderSame DEF PushCtxDone, HGoto, TypeOK, InHand
<1>7. CASE \E c \in Conn : PushPanic(c)
  <2>1. UNCHANGED <<recv, printed, frames, hpc>> /\ (ctxDone => ctxDone')
    BY <1>7 DEF PushPanic, hVars, evVars, srVars
  <2> QED  BY <2>1, OrderSame DEF Sent
<1>8. CASE \E c \in Conn : Unregister(c)
  <2>1. Sent' = Sent /\ ctxDone' = ctxDone
    BY <1>8 DEF Unregister, Sent, evVars, srVars
  <2> QED  BY <1>8, <2>1, OrderSame DEF Unregister, HGoto, Delete, TypeOK, InHand
<1>9. CASE \E c \in Conn : CloseConn(c)
  <2>1. Sent' = Sent /\ ctxDone' = ctxDone
    BY <1>9 DEF CloseConn, Sent, evVars, srVars
  <2> QED  BY <1>9, <2>1, OrderSame DEF CloseConn, HGoto, TypeOK, InHand
<1>10. CASE \E c \in Conn : BcPick(c)
  <2>1. UNCHANGED <<recv, printed, frames, hpc>> /\ (ctxDone => ctxDone')
    BY <1>10 DEF BcPick, hVars, evVars, srVars
  <2> QED  BY <2>1, OrderSame DEF Sent
<1>11. CASE \E c \in Conn : Break(c)
  <2>1. UNCHANGED <<recv, printed, frames, hpc>> /\ (ctxDone => ctxDone')
    BY <1>11 DEF Break, hVars, evVars, srVars
  <2> QED  BY <2>1, OrderSame DEF Sent
<1>12. CASE BcTake
  <2>1. UNCHANGED <<recv, printed, frames, hpc>> /\ (ctxDone => ctxDone')
    BY <1>12 DEF BcTake, hVars, evVars, srVars
  <2> QED  BY <2>1, OrderSame DEF Sent
<1>13. CASE BcWriteOk
  <2>1. UNCHANGED <<recv, printed, frames, hpc>> /\ (ctxDone => ctxDone')
    BY <1>13 DEF BcWriteOk, hVars, evVars, srVars
  <2> QED  BY <2>1, OrderSame DEF Sent
<1>14. CASE BcWriteErr
  <2>1. UNCHANGED <<recv, printed, frames, hpc>> /\ (ctxDone => ctxDone')
    BY <1>14 DEF BcWriteErr, hVars, evVars, srVars
  <2> QED  BY <2>1, OrderSame DEF Sent
<1>15. CASE BcDrop
  <2>1. UNCHANGED <<recv, printed, frames, hpc>> /\ (ctxDone => ctxDone')
    BY <1>15 DEF BcDrop, hVars, evVars, srVars
  <2> QED  BY <2>1, OrderSame DEF Sent
<1>16. CASE BcRelock
  <2>1. UNCHANGED <<recv, printed, frames, hpc>> /\ (ctxDone => ctxDone')
    BY <1>16 DEF BcRelock, hVars, evVars, srVars
  <2> QED  BY <2>1, OrderSame DEF Sent
<1>17. CASE BcEnd
  <2>1. UNCHANGED <<recv, printed, frames, hpc>> /\ (ctxDone => ctxDone')
    BY <1>17 DEF BcEnd, hVars, evVars, srVars
  <2> QED  BY <2>1, OrderSame DEF Sent
<1>18. CASE BcPing
  <2>1. UNCHANGED <<recv, printed, frames, hpc>> /\ (ctxDone => ctxDone')
    BY <1>18 DEF BcPing, hVars, evVars, srVars
  <2> QED  BY <2>1, OrderSame DEF Sent
<1>19. CASE BcPingEnd
  <2>1. UNCHANGED <<recv, printed, frames, hpc>> /\ (ctxDone => ctxDone')
    BY <1>19 DEF BcPingEnd, hVars, evVars, srVars
  <2> QED  BY <2>1, OrderSame DEF Sent
<1>20. CASE BcExit
  <2>1. UNCHANGED <<recv, printed, frames, hpc>> /\ (ctxDone => ctxDone')
    BY <1>20 DEF BcExit, hVars, evVars, srVars
  <2> QED  BY <2>1, OrderSame DEF Sent
<1>21. CASE MainSend
  <2>1. UNCHANGED <<recv, printed, frames, hpc>> /\ (ctxDone => ctxDone')
    BY <1>21 DEF MainSend, hVars, evVars, srVars
  <2> QED  BY <2>1, OrderSame DEF Sent
<1>22. CASE Consume
  <2>1. Sent' = Sent
    <3>1. recv \in Seq(Conn \X Nat) /\ recv # <<>> /\ printed \in Seq(Conn \X Nat)
      BY <1>22 DEF Consume, TypeOK
    <3>2. PICK S : S = Conn \X Nat
      OBVIOUS
    <3>3. recv \in Seq(S) /\ printed \in Seq(S)
      BY <3>1, <3>2
    <3>4. Append(printed, Head(recv)) \o Tail(recv) = printed \o recv
      BY <3>1, <3>3, MoveHead
    <3> QED  BY <1>22, <3>4 DEF Consume, Sent
  <2>2. UNCHANGED <<frames, hpc, ctxDone>>
    BY <1>22 DEF Consume, hVars, srVars
  <2> QED  BY <2>1, <2>2, OrderSame
<1>23. CASE ListenFails
  <2>1. UNCHANGED <<recv, printed, frames, hpc>> /\ (ctxDone => ctxDone')
    BY <1>23 DEF ListenFails, hVars, evVars, srVars
  <2> QED  BY <2>1, OrderSame DEF Sent
<1>24. CASE CloseCancel
  <2>1. UNCHANGED <<recv, printed, frames, hpc>> /\ (ctxDone => ctxDone')
    BY <1>24 DEF CloseCancel, hVars, evVars, srVars
  <2> QED  BY <2>1, OrderSame DEF Sent
<1>25. CASE CloseRecv
  <2>1. UNCHANGED <<recv, printed, frames, hpc>> /\ (ctxDone => ctxDone')
    BY <1>25 DEF CloseRecv, hVars, evVars, srVars
  <2> QED  BY <2>1, OrderSame DEF Sent
<1>26. CASE UNCHANGED vars
  <2>1. UNCHANGED <<recv, printed, frames, hpc>> /\ (ctxDone => ctxDone')
    BY <1>26 DEF vars, hVars, evVars, srVars
  <2> QED  BY <2>1, OrderSame DEF Sent
<1> QED
  BY <1>1, <1>2, <1>3, <1>4, <1>5, <1>6, <1>7, <1>8, <1>9, <1>10, <1>11, <1>12,
     <1>13, <1>14, <1>15, <1>16, <1>17, <1>18, <1>19, <1>20, <1>21, <1>22,
     <1>23, <1>24, <1>25, <1>26
  DEF Next, Step, Stopped, Handler, Broadcaster

\* Each connection's events reach the consumer in the order its handler read them,
\* none twice and none skipped, whatever the number of connections and the capacity of
\* Recv; until the shutdown none is missing.
THEOREM EventsAreInOrder == Spec => []EventsInOrder
<1>1. OrderInv => EventsInOrder
  BY DEF OrderInv, EventsInOrder
<1>2. Spec => []OrderInv
  BY MapInvariant, OrderInit, OrderStep, PTL DEF Spec
<1> QED  BY <1>1, <1>2, PTL
============================================================================
