------------------------- MODULE HydraTimingProofs -------------------------
(***************************************************************************)
(* Proofs about the timers of HydraTiming, for all durations that satisfy  *)
(* TimingAssumption and any number of faults.                              *)
(***************************************************************************)
EXTENDS HydraTiming, TLAPS
-----------------------------------------------------------------------------
(* Min and Max of the explicit sets the model uses *)

LEMMA MinOfTwo ==
  ASSUME NEW a \in Nat, NEW b \in Nat
  PROVE  Min({a, b}) \in Nat /\ Min({a, b}) <= a /\ Min({a, b}) <= b
<1>1. \E x \in {a, b} : \A y \in {a, b} : x <= y
  <2>1. CASE a <= b  BY <2>1
  <2>2. CASE b <= a  BY <2>2
  <2> QED  BY <2>1, <2>2
<1> QED  BY <1>1 DEF Min

LEMMA MaxOfTwo ==
  ASSUME NEW a \in Nat, NEW b \in Nat
  PROVE  Max({a, b}) \in {a, b} /\ Max({a, b}) >= a /\ Max({a, b}) >= b
<1>1. \E x \in {a, b} : \A y \in {a, b} : x >= y
  <2>1. CASE a >= b  BY <2>1
  <2>2. CASE b >= a  BY <2>2
  <2> QED  BY <2>1, <2>2
<1> QED  BY <1>1 DEF Max

LEMMA MaxOfThree ==
  ASSUME NEW a \in Nat, NEW b \in Nat, NEW c \in Nat
  PROVE  /\ Max({a, b, c}) \in {a, b, c}
         /\ Max({a, b, c}) >= a /\ Max({a, b, c}) >= b /\ Max({a, b, c}) >= c
<1>1. \E x \in {a, b, c} : \A y \in {a, b, c} : x >= y
  <2>1. CASE a >= b /\ a >= c  BY <2>1
  <2>2. CASE b >= a /\ b >= c  BY <2>2
  <2>3. CASE c >= a /\ c >= b  BY <2>3
  <2> QED  BY <2>1, <2>2, <2>3
<1> QED  BY <1>1 DEF Max

LEMMA Durations ==
  /\ PingIntv \in Nat /\ PingIntv > 0 /\ DialTimeout \in Nat /\ DialTimeout > 0
  /\ BackoffInitial \in Nat /\ BackoffMax \in Nat /\ ReadWait \in Nat /\ ReadWait > 0
  /\ Jitter \in Nat /\ MaxFaults \in Nat /\ MaxScan \in Nat /\ MaxQueued \in Nat
  /\ 2 * PingIntv < ReadWait
BY TimingAssumption


-----------------------------------------------------------------------------
(* Types *)

\* What Backoff returns to DialFail.
LEMMA BackoffBound ==
  ASSUME TypeOK
  PROVE  Backoff(delay) \in Nat /\ Backoff(delay) <= BackoffMax
BY MinOfTwo, Durations DEF TypeOK, Backoff

LEMMA Longest ==
  /\ LongestTimer \in Nat
  /\ LongestTimer >= 2 * PingIntv /\ LongestTimer >= DialTimeout
  /\ LongestTimer >= LongestSleep
<1>1. 2 * PingIntv \in Nat /\ DialTimeout \in Nat /\ LongestSleep \in Nat
  BY Durations DEF LongestSleep
<1> QED  BY <1>1, MaxOfThree DEF LongestTimer

LEMMA TypeInit == Init => TypeOK
BY Durations, Longest DEF Init, TypeOK, Slot

LEMMA TypeStep == TypeOK /\ [Next]_vars => TypeOK'
<1> SUFFICES ASSUME TypeOK, [Next]_vars PROVE TypeOK'
  OBVIOUS
<1>1. CASE DialOk
  BY <1>1, Longest, Durations DEF TypeOK, DialOk, Register, FirstDeadline
<1>2. CASE DialFail
  <2>1. PICK j \in 0..Jitter : timer' = Backoff(delay) + j
    BY <1>2 DEF DialFail
  <2>2. timer' \in 0..LongestTimer
    BY <2>1, Longest, Durations, BackoffBound DEF LongestSleep
  <2>3. delay' \in Nat
    BY <1>2 DEF TypeOK, DialFail
  <2> QED  BY <1>2, <2>2, <2>3 DEF TypeOK, DialFail, serverVars
<1>3. CASE Wake
  BY <1>3, Longest, Durations DEF TypeOK, Wake, Dial, serverVars
<1>4. CASE ReadDeadline
  BY <1>4, Longest, Durations DEF TypeOK, ReadDeadline, Abandon, Dial
<1>5. CASE NoticeReset
  BY <1>5, Longest, Durations DEF TypeOK, NoticeReset, Abandon, Dial
<1>6. CASE StartScan
  <2>1. scan' \in 0..MaxScan /\ queued' \in 0..MaxQueued
    BY <1>6, Durations DEF TypeOK, StartScan
  <2> QED  BY <1>6, <2>1 DEF TypeOK, StartScan, serverVars
<1>7. CASE \E s \in Slot : Pong(s)
  BY <1>7, Durations DEF TypeOK, Pong, clientVars
<1>8. CASE \E s \in Slot : ServerDrops(s)
  BY <1>8 DEF TypeOK, ServerDrops, clientVars
<1>9. CASE PathDown
  <2>1. faults' \in 0..MaxFaults
    BY <1>9, Durations DEF TypeOK, PathDown, Fault
  <2> QED  BY <1>9, <2>1 DEF TypeOK, PathDown, Fault, clientVars, serverVars
<1>10. CASE PathUp
  BY <1>10 DEF TypeOK, PathUp, clientVars, serverVars
<1>11. CASE Restart
  <2>1. faults' \in 0..MaxFaults
    BY <1>11, Durations DEF TypeOK, Restart, Fault
  <2> QED  BY <1>11, <2>1 DEF TypeOK, Restart, Fault, clientVars, serverVars
<1>12. CASE Tick
  <2>1. timer' \in 0..LongestTimer
    BY <1>12, Longest DEF TypeOK, Tick, Dec
  <2>2. scan' \in 0..MaxScan
    BY <1>12, Durations DEF TypeOK, Tick, Dec
  <2>3. left' \in [Slot -> 0..ReadWait]
    BY <1>12, Durations DEF TypeOK, Tick, Dec
  <2>4. gap' \in Nat /\ late' \in Nat /\ gone' \in [Slot -> Nat]
    BY <1>12 DEF TypeOK, Tick
  <2> QED  BY <1>12, <2>1, <2>2, <2>3, <2>4 DEF TypeOK, Tick
<1>13. CASE UNCHANGED vars
  BY <1>13 DEF TypeOK, vars, clientVars, serverVars
<1> QED  BY <1>1, <1>2, <1>3, <1>4, <1>5, <1>6, <1>7, <1>8, <1>9, <1>10, <1>11, <1>12, <1>13 DEF Next

\* Types and ranges of HydraTiming's variables: no timer exceeds the duration it was
\* set to, and the server has the connection the client is said to share with it.
THEOREM TimingTypes == Spec => []TypeOK
BY TypeInit, TypeStep, PTL DEF Spec

-----------------------------------------------------------------------------
(* The agent is back in time *)

\* The time the read loop still needs for n commands in its buffer, at most.
Backlog(n) == n * MaxScan

LEMMA Backlogs ==
  /\ \A n \in 0..MaxQueued : Backlog(n) \in Nat /\ Backlog(n) <= Backlog(MaxQueued)
  /\ \A n \in 1..MaxQueued : Backlog(n - 1) + MaxScan = Backlog(n)
  /\ Backlog(0) = 0
  /\ Backlog(MaxQueued) \in Nat
  /\ (MaxQueued + 1) * MaxScan = Backlog(MaxQueued) + MaxScan
<1>1. ASSUME NEW n \in Nat PROVE n * MaxScan \in Nat
  BY <1>1, Durations
<1>2. ASSUME NEW n \in Nat, NEW k \in Nat PROVE (n + k) * MaxScan = n * MaxScan + k * MaxScan
  BY <1>2, Durations
<1>3. ASSUME NEW n \in 0..MaxQueued PROVE n * MaxScan <= MaxQueued * MaxScan
  <2>1. MaxQueued - n \in Nat /\ n \in Nat /\ n + (MaxQueued - n) = MaxQueued
    BY Durations
  <2>2. MaxQueued * MaxScan = n * MaxScan + (MaxQueued - n) * MaxScan
    BY <1>2, <2>1
  <2>3. n * MaxScan \in Nat /\ (MaxQueued - n) * MaxScan \in Nat
    BY <1>1, <2>1
  <2> QED  BY <2>2, <2>3
<1>4. ASSUME NEW n \in 1..MaxQueued PROVE (n - 1) * MaxScan + MaxScan = n * MaxScan
  <2>1. n - 1 \in Nat /\ (n - 1) + 1 = n
    BY Durations
  <2>2. n * MaxScan = (n - 1) * MaxScan + 1 * MaxScan
    BY <1>2, <2>1
  <2> QED  BY <2>2, Durations
<1>5. (MaxQueued + 1) * MaxScan = MaxQueued * MaxScan + MaxScan
  BY <1>2, Durations
<1>6. 0 * MaxScan = 0
  BY Durations
<1>7. \A n \in 0..MaxQueued : n \in Nat
  BY Durations
<1> QED  BY <1>1, <1>3, <1>4, <1>5, <1>6, <1>7, Durations DEF Backlog

\* While the agent is up and the server does not have its connection, gap and what
\* is left of the read deadline stay within two ping intervals; when that is over, gap
\* and the scans still to be done stay within Noticed.
\* It may then dial with a dial that nothing disturbs; a dial that is disturbed began
\* before or with the fault that set gap to 0, and can lead to one sleep.
BackInv ==
  /\ cl = "up" => timer <= 2 * PingIntv
  /\ cl = "dial" => timer <= DialTimeout
  /\ cl = "sleep" => timer <= LongestSleep
  /\ ~path \/ conn # 0 => gap = 0
  /\ cl # "up" => conn = 0
  /\ cl = "up" /\ conn = 0 /\ timer > 0 => gap + timer <= 2 * PingIntv
  /\ cl = "up" /\ conn = 0 /\ timer = 0 => gap + scan + Backlog(queued) <= Noticed
  /\ cl = "dial" /\ smooth => gap + timer <= DialTimeout + LongestWait
  /\ cl = "dial" /\ ~smooth => gap + timer <= DialTimeout
  /\ cl = "sleep" => gap + timer <= DialTimeout + LongestSleep

LEMMA Waits ==
  /\ Noticed \in Nat /\ Noticed >= 2 * PingIntv
  /\ Noticed = 2 * PingIntv + Backlog(MaxQueued) + MaxScan
  /\ LongestSleep \in Nat
  /\ LongestWait \in Nat /\ LongestWait >= Noticed /\ LongestWait >= DialTimeout + LongestSleep
<1>0. Noticed = 2 * PingIntv + (Backlog(MaxQueued) + MaxScan)
  BY Backlogs DEF Noticed
<1>1. /\ Noticed \in Nat /\ Noticed >= 2 * PingIntv
      /\ Noticed = 2 * PingIntv + Backlog(MaxQueued) + MaxScan
      /\ LongestSleep \in Nat /\ DialTimeout + LongestSleep \in Nat
  BY <1>0, Durations, Backlogs DEF LongestSleep
<1> QED  BY <1>1, MaxOfTwo DEF LongestWait

LEMMA BackInit == Init => BackInv
BY Durations, Waits DEF Init, BackInv

LEMMA BackStep == TypeOK /\ BackInv /\ [Next]_vars => BackInv'
<1> SUFFICES ASSUME TypeOK, BackInv, [Next]_vars PROVE BackInv'
  OBVIOUS
<1>q. Backlog(queued) \in Nat /\ Backlog(queued) <= Backlog(MaxQueued) /\ Backlog(MaxQueued) \in Nat
  BY Backlogs DEF TypeOK
<1> USE <1>q, Durations, Waits DEF TypeOK, BackInv
<1>1. CASE DialOk
  BY <1>1 DEF DialOk, Slot
<1>2. CASE DialFail
  BY <1>2, BackoffBound DEF DialFail, LongestSleep
<1>3. CASE Wake
  BY <1>3 DEF Wake, Dial
<1>4. CASE ReadDeadline
  BY <1>4 DEF ReadDeadline, Abandon, Dial
<1>5. CASE NoticeReset
  BY <1>5 DEF NoticeReset, Abandon, Dial
<1>6. CASE StartScan
  <2>1. CASE queued > 0 /\ queued' = queued - 1
    <3>1. Backlog(queued') + MaxScan = Backlog(queued) /\ Backlog(queued') \in Nat
      <4>1. queued \in 1..MaxQueued /\ queued - 1 \in 0..MaxQueued
        BY <2>1
      <4> QED  BY <2>1, <4>1, Backlogs
    <3> QED  BY <1>6, <2>1, <3>1 DEF StartScan
  <2>2. CASE queued = 0 /\ timer > 0
    BY <1>6, <2>2 DEF StartScan
  <2> QED  BY <1>6, <2>1, <2>2 DEF StartScan
<1>7. CASE \E s \in Slot : Pong(s)
  BY <1>7 DEF Pong, clientVars
<1>8. CASE \E s \in Slot : ServerDrops(s)
  BY <1>8 DEF ServerDrops, clientVars
<1>9. CASE PathDown
  BY <1>9 DEF PathDown, Fault, clientVars
<1>10. CASE PathUp
  BY <1>10 DEF PathUp, clientVars
<1>11. CASE Restart
  BY <1>11 DEF Restart, Fault, clientVars
<1>12. CASE Tick
  <2>1. queued' = queued /\ cl' = cl /\ conn' = conn /\ smooth' = smooth /\ path' = path
    BY <1>12 DEF Tick
  <2>2. timer' = IF timer > 0 THEN timer - 1 ELSE 0
    BY <1>12 DEF Tick, Dec
  <2>3. scan' = IF scan > 0 THEN scan - 1 ELSE 0
    BY <1>12 DEF Tick, Dec
  <2>4. gap' = IF path /\ conn = 0 THEN gap + 1 ELSE 0
    BY <1>12 DEF Tick
  <2>5. timer > 0 \/ (cl = "up" /\ timer = 0 /\ scan > 0)
    BY <1>12 DEF Tick, NothingDue
  <2> QED  BY <2>1, <2>2, <2>3, <2>4, <2>5
<1>13. CASE UNCHANGED vars
  BY <1>13 DEF vars, clientVars
<1> QED  BY <1>1, <1>2, <1>3, <1>4, <1>5, <1>6, <1>7, <1>8, <1>9, <1>10, <1>11, <1>12, <1>13 DEF Next

LEMMA BackInvImplies == TypeOK /\ BackInv => BackInTime
<1>1. TypeOK => Backlog(queued) \in Nat
  BY Backlogs DEF TypeOK
<1> QED  BY <1>1, Durations, Waits DEF TypeOK, BackInv, BackInTime

\* After an outage of any length, and for all values of the timers, the agent has a
\* connection again within one dial and the longest wait for it: run, connect and
\* nextBackoff leave no window in which the reconnection can be put off once more.
THEOREM AgentIsBack == Spec => []BackInTime
<1>1. Spec => [](TypeOK /\ BackInv)
  BY TypeInit, TypeStep, BackInit, BackStep, PTL DEF Spec
<1> QED  BY <1>1, BackInvImplies, PTL

-----------------------------------------------------------------------------
(* The server is patient *)

\* The deadline of a connection the client keeps is ahead of the client's own, and once
\* that has passed it is used up no faster than the client is late.
PatientInv ==
  conn # 0 =>
    /\ timer > 0 => left[conn] >= timer + ReadWait - 2 * PingIntv
    /\ timer = 0 => left[conn] + late >= ReadWait - 2 * PingIntv

LEMMA PatientInit == Init => PatientInv
BY DEF Init, PatientInv

LEMMA PatientStep == TypeOK /\ BackInv /\ PatientInv /\ [Next]_vars => PatientInv'
<1> SUFFICES ASSUME TypeOK, BackInv, PatientInv, [Next]_vars PROVE PatientInv'
  OBVIOUS
<1> USE Durations DEF TypeOK, PatientInv
<1>1. CASE DialOk
  BY <1>1 DEF DialOk, Slot, FirstDeadline
<1>2. CASE DialFail
  BY <1>2 DEF DialFail, BackInv
<1>3. CASE Wake
  BY <1>3 DEF Wake, BackInv
<1>4. CASE ReadDeadline
  BY <1>4 DEF ReadDeadline, Abandon
<1>5. CASE NoticeReset
  BY <1>5 DEF NoticeReset, Abandon
<1>6. CASE StartScan
  BY <1>6 DEF StartScan, serverVars
<1>7. CASE \E s \in Slot : Pong(s)
  BY <1>7 DEF Pong, Answers, clientVars
<1>8. CASE \E s \in Slot : ServerDrops(s)
  BY <1>8 DEF ServerDrops, clientVars
<1>9. CASE PathDown
  BY <1>9 DEF PathDown, clientVars, serverVars
<1>10. CASE PathUp
  BY <1>10 DEF PathUp, clientVars, serverVars
<1>11. CASE Restart
  BY <1>11 DEF Restart
<1>12. CASE Tick
  BY <1>12 DEF Tick, NothingDue, Dec
<1>13. CASE UNCHANGED vars
  BY <1>13 DEF vars, clientVars, serverVars
<1> QED  BY <1>1, <1>2, <1>3, <1>4, <1>5, <1>6, <1>7, <1>8, <1>9, <1>10, <1>11, <1>12, <1>13 DEF Next

LEMMA PatientInvImplies == TypeOK /\ PatientInv => ServerPatient
BY Durations DEF TypeOK, PatientInv, ServerPatient

\* The server's read deadline runs out on a connection its client still keeps only if
\* scans have made the client late by ReadWait - 2*pingIntv, for all values of the timers,
\* scans of any length and buffers of any size, pings or not.
THEOREM ServerIsPatient == Spec => []ServerPatient
<1>1. Spec => [](TypeOK /\ BackInv /\ PatientInv)
  BY TypeInit, TypeStep, BackInit, BackStep, PatientInit, PatientStep, PTL DEF Spec
<1> QED  BY <1>1, PatientInvImplies, PTL

-----------------------------------------------------------------------------
(* The server forgets *)

\* The server's deadline runs from the moment the client has given up.
ForgetsInv ==
  /\ conn # 0 => gone[conn] = 0
  /\ \A s \in conns : gone[s] + left[s] <= ReadWait

LEMMA ForgetsInit == Init => ForgetsInv
BY DEF Init, ForgetsInv

LEMMA ForgetsStep == TypeOK /\ ForgetsInv /\ [Next]_vars => ForgetsInv'
<1> SUFFICES ASSUME TypeOK, ForgetsInv, [Next]_vars PROVE ForgetsInv'
  OBVIOUS
<1> USE Durations DEF TypeOK, ForgetsInv
<1>1. CASE DialOk
  BY <1>1 DEF DialOk, Register, FirstDeadline
<1>2. CASE DialFail
  BY <1>2 DEF DialFail, serverVars
<1>3. CASE Wake
  BY <1>3 DEF Wake, serverVars
<1>4. CASE ReadDeadline
  BY <1>4 DEF ReadDeadline, Abandon
<1>5. CASE NoticeReset
  BY <1>5 DEF NoticeReset, Abandon
<1>6. CASE StartScan
  BY <1>6 DEF StartScan, serverVars
<1>7. CASE \E s \in Slot : Pong(s)
  BY <1>7 DEF Pong, Answers, Slot
<1>8. CASE \E s \in Slot : ServerDrops(s)
  BY <1>8 DEF ServerDrops
<1>9. CASE PathDown
  BY <1>9 DEF PathDown, serverVars
<1>10. CASE PathUp
  BY <1>10 DEF PathUp, serverVars
<1>11. CASE Restart
  BY <1>11 DEF Restart
<1>12. CASE Tick
  BY <1>12 DEF Tick, NothingDue, Dec
<1>13. CASE UNCHANGED vars
  BY <1>13 DEF vars, serverVars
<1> QED  BY <1>1, <1>2, <1>3, <1>4, <1>5, <1>6, <1>7, <1>8, <1>9, <1>10, <1>11, <1>12, <1>13 DEF Next

LEMMA ForgetsInvImplies == TypeOK /\ ForgetsInv => ServerForgets
BY Durations DEF TypeOK, ForgetsInv, ServerForgets

\* A connection whose client has given up on it stays in the server's map no longer
\* than the read deadline, for all values of the timers and any number of outages.
THEOREM ServerDoesForget == Spec => []ServerForgets
<1>1. Spec => [](TypeOK /\ ForgetsInv)
  BY TypeInit, TypeStep, ForgetsInit, ForgetsStep, PTL DEF Spec
<1> QED  BY <1>1, ForgetsInvImplies, PTL
=============================================================================
