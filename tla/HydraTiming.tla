---------------------------- MODULE HydraTiming ----------------------------
(***************************************************************************)
(* The timers of one agent's connection to the backend, in discrete time:  *)
(* dial timeout, exponential backoff and read deadline of the client       *)
(* (WebSocketWorker.go), read deadline and pongs of the server             *)
(* (WSServer.go).  Everything but Tick takes no time; time does not pass a *)
(* timer that has run down.                                                *)
(*                                                                         *)
(* The path between the two may fail silently and come back, and the       *)
(* backend may be restarted.  The server's pings come when its broadcaster *)
(* gets round to them: at any time, or never.                              *)
(***************************************************************************)
EXTENDS Integers, FiniteSets, FiniteSetsExt

CONSTANTS
  PingIntv,       \* h.pingIntv (20 s)
  DialTimeout,    \* context.WithTimeout in connect (8 s)
  BackoffInitial, \* h.backoff.initial (0.5 s)
  BackoffMax,     \* h.backoff.max (30 s)
  Jitter,         \* h.backoff.jitter (0.25 s)
  ReadWait,       \* the server's read deadline (60 s)
  MaxScan,        \* bound: the longest DLL scan (nothing in the code limits it)
  MaxQueued,      \* bound: commands that one read brings into the library's buffer
  MaxFaults       \* bound: path failures and restarts of the backend

\* The server's deadline is longer than the client's: 60 s against 2 * 20 s.
ASSUME TimingAssumption ==
  /\ {PingIntv, DialTimeout, BackoffInitial, BackoffMax, ReadWait} \subseteq Nat \ {0}
  /\ {Jitter, MaxFaults, MaxScan, MaxQueued} \subseteq Nat
  /\ 2 * PingIntv < ReadWait

\* One more than the connections a fault can leave behind on the server.
Slot == 1..(MaxFaults + 1)

VARIABLES
  cl,      \* run: "dial", "sleep" or "up"
  timer,   \* what is left of the dial, of the sleep, of the read deadline
  delay,   \* initial * 2^attempt, for run's variable attempt
  scan,    \* what is left of the scan the read loop is in
  queued,  \* commands in the library's buffer, which are read without the network
  conn,    \* the client's connection, 0 if the server does not have it (any more)
  conns,   \* connections in the server's map
  left,    \* what is left of a connection's read deadline on the server
  path,    \* packets get through
  faults,  \* path failures and restarts so far
  smooth,  \* history: no fault since the dial began or the connection was made
  gap,     \* history: how long there is no connection although path is TRUE, since the last fault
  late,    \* history: how long the client has kept its connection past its own deadline
  gone     \* history: how long ago the client gave up a connection of the server

clientVars == <<cl, timer, delay, scan, queued>>
serverVars == <<conns, left>>
vars == <<clientVars, conn, serverVars, path, faults, smooth, gap, late, gone>>

\* NewHydraWS starts run, whose first call is connect.
Init ==
  /\ cl = "dial" /\ timer = DialTimeout /\ delay = BackoffInitial
  /\ scan = 0 /\ queued = 0
  /\ conn = 0 /\ conns = {} /\ left = [s \in Slot |-> 0]
  /\ path = TRUE /\ faults = 0 /\ smooth = TRUE
  /\ gap = 0 /\ late = 0 /\ gone = [s \in Slot |-> 0]

-----------------------------------------------------------------------------
(* run, connect, nextBackoff, readLoop *)

Dial ==
  /\ cl' = "dial" /\ timer' = DialTimeout /\ scan' = 0 /\ queued' = 0
  /\ smooth' = path /\ late' = 0

\* Mutant: the server waits no longer than the client does.
FirstDeadline_TooShort == 2 * PingIntv

\* The read deadline handleWS starts with.
FirstDeadline == ReadWait

\* Mutant: the connection is not put into the map.
Register_Not(s) == UNCHANGED conns

Register(s) == conns' = conns \cup {s}

\* connect succeeds: attempt starts anew, the read deadline is set once, the server
\* registers the connection, under the lowest free number, with a deadline of its own.
DialOk ==
  /\ cl = "dial" /\ path
  /\ \E s \in Slot \ conns :
       /\ \A r \in Slot \ conns : s <= r
       /\ conn' = s
       /\ Register(s)
       /\ left' = [left EXCEPT ![s] = FirstDeadline]
       /\ gone' = [gone EXCEPT ![s] = 0]
  /\ cl' = "up" /\ timer' = 2 * PingIntv /\ delay' = BackoffInitial /\ scan' = 0 /\ queued' = 0
  /\ smooth' = TRUE /\ gap' = 0 /\ late' = 0
  /\ UNCHANGED <<path, faults>>

\* Mutant: the backoff is not capped.
Backoff_Uncapped(d) == d

\* min(d, max) for d = initial * 2^attempt, without the jitter.
Backoff(d) == Min({d, BackoffMax})

\* The dial fails, at once or after its timeout, and run sleeps.  (A dial that is
\* not disturbed succeeds in time.)  attempt + 1 doubles the delay; well beyond the cap
\* it makes no difference.
DialFail ==
  /\ cl = "dial" /\ ~smooth
  /\ cl' = "sleep"
  /\ \E j \in 0..Jitter : timer' = Backoff(delay) + j
  /\ delay' = IF delay <= 2 * BackoffMax THEN 2 * delay ELSE delay
  /\ UNCHANGED <<scan, queued, conn, serverVars, path, faults, smooth, gap, late, gone>>

Wake ==
  /\ cl = "sleep" /\ timer = 0
  /\ Dial
  /\ UNCHANGED <<delay, conn, serverVars, path, faults, gap, gone>>

\* run closes the connection and dials again at once.  The server learns of it only
\* if the path is there.
Abandon ==
  /\ Dial
  /\ conn' = 0
  /\ conns' = IF path THEN conns \ {conn} ELSE conns
  /\ UNCHANGED <<delay, left, path, faults, gap, gone>>

\* The read deadline: noticed only when the read loop goes to the network, that is
\* when no scan keeps it busy and its buffer is empty.
ReadDeadline == cl = "up" /\ timer = 0 /\ scan = 0 /\ queued = 0 /\ Abandon

\* The server does not have the connection any more: a read, a ping or an event
\* fails, sooner or later.
NoticeReset == cl = "up" /\ conn = 0 /\ path /\ Abandon

\* A command is next, and the read loop scans for a while: one that is in the buffer,
\* deadline or not, or one that a read from the network brings before the deadline,
\* with others behind it.  (The network may deliver what was sent before a fault.)
StartScan ==
  /\ cl = "up" /\ scan = 0
  /\ \/ queued > 0 /\ queued' = queued - 1
     \/ queued = 0 /\ timer > 0 /\ queued' \in 0..MaxQueued
  /\ scan' \in 0..MaxScan
  /\ UNCHANGED <<cl, timer, delay, conn, serverVars, path, faults, smooth, gap, late, gone>>

-----------------------------------------------------------------------------
(* handleWS and the broadcaster's pings *)

\* Mutant: sending a ping is taken for an answer.
Answers_Always(s) == s \in conns

\* The client answers a ping while its read loop is reading, from the network or,
\* before it notices its deadline, from the buffer.
Answers(s) == s = conn /\ cl = "up" /\ path /\ scan = 0

\* The pong handler renews the deadline.
Pong(s) ==
  /\ Answers(s)
  /\ left' = [left EXCEPT ![s] = ReadWait]
  /\ UNCHANGED <<clientVars, conn, conns, path, faults, smooth, gap, late, gone>>

\* ReadMessage fails: the deadline has passed, or word of the client's close or
\* reset gets through after all.
ServerDrops(s) ==
  /\ s \in conns
  /\ left[s] = 0 \/ (s # conn /\ path)
  /\ conns' = conns \ {s}
  /\ conn' = IF s = conn THEN 0 ELSE conn
  /\ UNCHANGED <<clientVars, left, path, faults, smooth, gap, late, gone>>

-----------------------------------------------------------------------------
(* Faults and time *)

Fault ==
  /\ faults < MaxFaults
  /\ faults' = faults + 1
  /\ smooth' = FALSE /\ gap' = 0

PathDown ==
  /\ Fault /\ path
  /\ path' = FALSE
  /\ UNCHANGED <<clientVars, conn, serverVars, late, gone>>

PathUp ==
  /\ ~path
  /\ path' = TRUE
  /\ UNCHANGED <<clientVars, conn, serverVars, faults, smooth, gap, late, gone>>

\* The backend is restarted: its connections are gone, the client need not notice.
Restart ==
  /\ Fault
  /\ conn' = 0 /\ conns' = {}
  /\ UNCHANGED <<clientVars, left, path, late, gone>>

\* No timer has run down that somebody has to act on.
NothingDue ==
  /\ timer > 0 \/ (cl = "up" /\ scan > 0)
  /\ \A s \in conns : left[s] > 0

Dec(n) == IF n > 0 THEN n - 1 ELSE 0

Tick ==
  /\ NothingDue
  /\ timer' = Dec(timer) /\ scan' = Dec(scan)
  /\ left' = [s \in Slot |-> IF s \in conns THEN Dec(left[s]) ELSE 0]
  /\ gap' = IF path /\ conn = 0 THEN gap + 1 ELSE 0
  /\ late' = IF timer = 0 THEN late + 1 ELSE 0
  /\ gone' = [s \in Slot |-> IF s \in conns \ {conn} THEN gone[s] + 1 ELSE 0]
  /\ UNCHANGED <<cl, delay, queued, conn, conns, path, faults, smooth>>

Next ==
  \/ DialOk \/ DialFail \/ Wake \/ ReadDeadline \/ NoticeReset \/ StartScan
  \/ \E s \in Slot : Pong(s) \/ ServerDrops(s)
  \/ PathDown \/ PathUp \/ Restart \/ Tick

Spec == Init /\ [][Next]_vars
-----------------------------------------------------------------------------
(* Properties *)

\* The longest sleep of run, and the longest time its timer is ever set to.
LongestSleep == BackoffMax + Jitter
LongestTimer == Max({2 * PingIntv, DialTimeout, LongestSleep})

\* How long an agent that is up keeps a connection the server does not have: its read
\* deadline, and the scans it is in and has in its buffer by then.
Noticed == 2 * PingIntv + (MaxQueued + 1) * MaxScan

\* How long the agent's last dial may be in coming, at worst.
LongestWait == Max({Noticed, DialTimeout + LongestSleep})

\* Types and ranges of the variables; the client's connection is in the server's map.
TypeOK ==
  /\ cl \in {"dial", "sleep", "up"}
  /\ timer \in 0..LongestTimer
  /\ delay \in Nat /\ scan \in 0..MaxScan /\ queued \in 0..MaxQueued
  /\ conn \in conns \cup {0} /\ conns \subseteq Slot
  /\ left \in [Slot -> 0..ReadWait]
  /\ path \in BOOLEAN /\ smooth \in BOOLEAN /\ faults \in 0..MaxFaults
  /\ gap \in Nat /\ late \in Nat /\ gone \in [Slot -> Nat]

\* After an outage of any length, of the path or of the backend, the agent is back
\* within a fixed time: at worst it has just found out by its read deadline, or has
\* just missed the end of the outage and sleeps for the longest backoff.
BackInTime == gap <= DialTimeout + LongestWait

\* The server's read deadline runs out on a connection its client still keeps only if
\* scans have held up the client's read loop beyond its own deadline, for at least the
\* time by which the server's is longer.  Without that it is always the client that
\* gives up first, even if no ping ever reaches it and the path fails meanwhile.
ServerPatient == conn # 0 /\ left[conn] = 0 => late >= ReadWait - 2 * PingIntv

\* The server forgets a connection whose client has given up on it, or has
\* vanished, within its read deadline, whatever its broadcaster sends meanwhile.
ServerForgets == \A s \in conns : gone[s] <= ReadWait
=============================================================================
