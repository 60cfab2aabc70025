# Medusa: TLA+ models, checks and proofs

Medusa is an anti-cheat system in four programs: a Windows kernel driver
(`MedusaKernelDriver`), a userland agent (`MedusaUserlandAgent`, Go), a hook DLL
(`MedusaUserDLL`, C/C++) and a backend (`MedusaBackend`, Go). This directory models the
parts in which threads, goroutines and connections interact, model-checks them with TLC
and proves their safety properties, for every value of the constants, with TLAPS.

## 1. Inventory

Events flow driver -> port -> agent -> WebSocket -> backend, and hook DLL -> named pipe ->
agent; commands ("scanDLL") flow backend -> agent, whose answer is again a set of events.

| Component | State | Operations | Interacts through | Correct when |
|---|---|---|---|---|
| Driver life cycle (`Main.c`, `Minifilter.c`, `NotifyRoutine.c`, `Callback.c`) | registered callbacks, `g_minifilterHandle`, filter references | `DriverEntry`, `FilterUnloadCallback` | Filter, Process, Object Manager | an unload leaves nothing behind, whichever load step failed |
| Driver port (`Coms.c`) | `flt_handle`, `flt_port`, `client_port`, `ToProtectPID`, `AgentPID` | create, connect, disconnect, send | agent's `Receiver` | both PIDs are used consistently; events reach a waiting agent |
| Driver callbacks | none of their own | handle, process, thread, image | port, PIDs | access is reduced exactly when the configuration says so |
| Agent `Receiver` (`main.go`, `structs.go`) | port handle | `Connect`, `Loop`, `Close` | port, `EventChannel` | every received event enters the channel |
| Agent WebSocket client (`WebSocketWorker.go`) | `h.conn`, `sendCh`, `wg`, `ctx`, loops of every generation | `eventPump`, `run`, `connect`, three loops, `Close` | `EventChannel`, network | no event leaves twice, no socket or goroutine leaks, `Close` returns |
| DLL scanner (`DLLScanner.go`) | none | `executeDLLScan` inside `readLoop` | `EventChannel` | does not block the client |
| Backend server (`WSServer.go`, `Main.go`) | `conns` under `mu`, `Recv`, `SendText`, `ctx` | `handleWS`, broadcaster, `Close`, consumer, command loop | network | map consistent, commands reach everyone, events arrive once and in order |
| Named pipe (`IPC.go`, `IPC.c`) | up to 16 pipe instances | `server`, `readLoop`, `SendIPCMessageRaw` | `EventChannel` | no instance leaks, a message is received once, the sender never waits for the agent |
| Hook DLL (`dllmain.cpp`) | `g_inited`, real function pointer | `InitThread`, hook, attach and detach | named pipe | initialised once, hook falls through |
| Conversions (`Event.go`, `structs.go`, `NotifyRoutine.c`) | none | `ToJSON`, string helpers | - | text survives the fixed-width buffers |

Hard behaviour: goroutines that a reconnect leaves behind, a cancel that races a dial, a
`WaitGroup` that grows while somebody waits for it, a map iteration that gives up its
lock, bounded channels that form a cycle, callbacks that run before their driver is set
up and after it has begun to go, a configuration replaced in two steps and read in
three, pipe clients that are gone before the server has noticed them, five timers on two
ends of a connection. `PROJECT.json` lists these hazards with the lines where they bite.

## 2. Modules

| Module | Models |
|---|---|
| `HydraWS` | the agent's client, `EventChannel`, the DLL scan |
| `EventStream` | abstract: what a path promises about each event (client and pipe) |
| `HydraWSProofs`, `HydraWSStreamProofs` | theorems about `HydraWS`: goroutines and sockets; events |
| `HydraTiming` | client and server: the durations of their timers |
| `HydraWSServer` | the backend |
| `MedusaDriver` | the driver and the agent's `Receiver` |
| `MedusaPipe` | the named pipe: the agent's server and readers, the DLL's send procedure |
| `HookDLL` | the hook DLL in a process, composed with `MedusaPipe` |
| `Conversions` | text into and out of the buffers of an event |
| `HydraWSServerProofs`, `HydraTimingProofs`, `MedusaDriverProofs`, `HookDLLProofs`, `ConversionsProofs` | theorems about the module of that name (`HookDLLProofs`: and about `MedusaPipe`) |
| `MCHydraWS`, `MCHydraWSServer`, `MCMedusaDriver` | instances for TLC: constants and symmetry sets |

**HydraWS.** One program counter per goroutine. The k-th successful dial yields
connection k and generation k of the three loops. A loop captures `h.conn` in its first
step, so it may find `nil` or a later connection. Sections under `connMu` are one step
each: the mutex is never held across another blocking operation except `Close`'s write of
the close frame, whose effect on the connection is that of the close that follows. A
write takes two steps (`WriteTake`, then `WriteOk` or `WriteErr`), so that a frame can be
in a loop's hands when its connection goes. Two writers on one connection are possible;
the library may notice (`ConcurrentWritePanic`, the process ends) or not (both writes
succeed). A read of a scan command is possible on any connection, also on one that has
just failed, because the library buffers. `lost` and `wire` are history variables. The
agent's `main` never reaches `Close`, because `Receiver.Loop` never returns; the runs with
`CloseCalled = TRUE` check `Close` as the client's own operation.

**EventStream.** Each event is accepted once and leaves once, forwarded or dropped; a step
may drop several. `HydraWS` implements it with `pending` = both channels and all hands,
`forwarded` = how often an event stands on some connection's wire, `dropped` = `lost`.
`HookDLL` implements it with `pending` = what is in pipe instances, in readers' hands and in
`EventChannel`, `forwarded` = how often `eventPump` has received a message.

**HydraTiming.** One agent's connection in discrete time: `Tick` is the only step that takes
time, and it waits for whoever has to act on a timer that has run down. The client abandons
every connection two ping intervals after it was made (`ReadDeadline`; the deadline is set
once), unless scans keep the read loop busy longer: it notices its deadline only when it goes
to the network, and commands the library has already buffered (`queued`) are run first,
deadline or not (`StartScan`). Nothing in the code limits the length of a scan or the number
of buffered commands; `MaxScan` and `MaxQueued` are bounds of the model. The path may go silent and
come back and the backend may restart, any number of times up to `MaxFaults`; the server
then keeps a connection the client no longer has. Pings of the server are answered at any
time or never (`Pong`), because its broadcaster may be held up. A dial that nothing disturbs
succeeds within its timeout. `TimingAssumption` asks one thing of the durations, which the
constants of the code satisfy: two ping intervals (40 s) are less than the server's deadline
(60 s).

**HydraWSServer.** `mu` is state only while the broadcaster holds it for reading; the
writer sections are single steps guarded by `~rlock`. A range over a Go map is `visited`
plus the rule that an entry present all the time is produced exactly once and one added
meanwhile may or may not be (`Exhausted`, external: it is Go's promise and not the code's).
`told` is history: the connections to which the command was written successfully. An agent's connection is used once; a reconnect of an agent is
another member of `Conn`.

**MedusaDriver.** `dpc` walks through `DriverEntry` and `FilterUnloadCallback`, each step
able to fail where the code ignores the failure. Callbacks run on any thread at any time
while registered; each read of a PID is a step. A send takes two: `flt_handle` is read
(`held`), then passed to `FltSendMessage`, and an unload may come in between. `conf` and
`confs` are history: the last configuration that a connect has installed, and those in force
or being installed since a handle callback began. A call outside its contract
(`OutOfContract`: `FltSendMessage` with a filter that is NULL or gone,
`ObUnRegisterCallbacks(NULL)` after a failed `createRegistration`) returns with no effect or
stops the machine (`Bugcheck`). That unregistering waits for running callbacks,
that `FltUnregisterFilter` waits for references and disconnects clients, and that a port
with `MaxConnections = 1` runs one connect routine at a time is documented behaviour of
the kernel and is marked external.

**MedusaPipe, HookDLL.** A pipe instance has a server end and one client; it can be opened
from `CreateNamedPipe` on, so a client may come, write and go before `ConnectNamedPipe`
(default branch: the instance is closed with the message in it), between it and the return
of `GetOverlappedResult`, or later. A message keeps a number and a size class; a reader
skips one of the wrong size and leaves on an empty one. `EventChannel <- ev` blocks while
the channel is full; `Receive` is `eventPump`. `AgentExit` closes every handle the process
had. A send is open, write, close, and never retried. `HookDLL` adds `InitThread` on two
threads, the hook created and enabled in two steps with the fallback to kernel32 (`inits` and
`hooks` are history: how often MinHook was initialised and a hook created), the hooked calls, and another process that writes messages of any size with `SendIPCMessage`.
`ReadFile` is called on an overlapped handle without an `OVERLAPPED`; it is modelled as the
blocking read Windows makes of that.

**Conversions.** A text grows character by character, is put into an event by the agent or by
the driver, and is read back by both `ToJSON` functions. A text is a sequence of code
points; UTF-16 encoding and decoding, truncation to 16 bits and the packing of two units
into an `int` are modelled by what they compute. The decoders differ on half of a surrogate
pair: the backend's `utf16.Decode` gives one U+FFFD, while the agent's
`syscall.UTF16ToString` (Go 1.21 and later on Windows; `go.mod` says 1.25.1) writes its three
bytes, which are not UTF-8, and `json.Marshal` makes a U+FFFD of each (`HalfInJSON`).

## 3. Runs

| Run | Properties | Shows |
|---|---|---|
| `HydraWS_close` | `TypeOK`, `NoConnLeak`, `WgCounts`, `ClosedIsQuiet`, `WireInOrder`, `ImplementsStream` | `Close` against an event, a reconnect and a scan, at every moment |
| `HydraWS_forwarding` | `LossBound`, `EventLeaves`, `BrokenIsReplaced` | the event path with full channels, a scan and a connection that breaks: what is lost, and that it keeps moving |
| `HydraWS_shutdown` | `CloseReturns` | `Close` against a scan that fills `EventChannel` |
| `HydraWS_alleventsforwarded` | `AllEventsForwarded` (violated) | an event is lost at a reconnect |
| `HydraWSServer_safety` | `TypeOK`, `RegisteredIsServed`, `WriteToRegistered`, `EventsInOrder`, `BroadcastComplete` | two connections with two events each against the broadcaster's lock trading, with shutdown |
| `HydraWSServer_liveness` | `BrokenLeaves`, `CommandsMove` | two handlers compete for `mu` with the broadcaster and for a `Recv` of capacity one; a blocked handler still leaves |
| `MedusaDriver_config` | `TypeOK`, `StripExplained`, `NoEarlySend`, `UnregisterSafe`, `UnloadedIsQuiet`, `UnloadCompletes` | load and unload with any step failing, up to a call outside its contract; two agents in turn reconfigure while an operation is decided |
| `MedusaDriver_processes` | `AllProcessesTracked` (violated) | a process event is given up when the agent is not waiting |
| `HookDLL_pipe` | `TypeOK`, `NoInstanceLeak`, `InitOnce`, `HookFallsThrough`, `PipeIsStream`, `LostOnlyBeforeConnect`, `HookedCallReturns`, `PipeServes` | the DLL and another process against a pipe that runs out of instances, a full channel and an agent that restarts |
| `HydraTiming` | `TypeOK`, `BackInTime`, `ServerPatient`, `ServerForgets` | all timers of both ends against two outages of any length and scans that outlast the client's deadline |
| `Conversions` | `BuffersTerminated`, `WideSurvives`, `PathSurvives`, `SidesAgree` | texts longer and shorter than their buffers, with surrogate pairs |
| `Conversions_kernelname` | `KernelNameReadable` (violated) | a name reported by the driver cannot be read back |

The first two violated properties state sentences of the repository's `README.md` (lines 65
and 42), the third a comment of `Event.go` (line 41); section "findings" of `PROJECT.json`
quotes them and the code. Another sentence, "Monitor thread creation across all processes"
(line 43), is contradicted by a single condition, `NotifyRoutine.c:59`, which returns for
every process but the protected one; no run is needed to see it.

**Bounds.** Channel capacities of one or two make "full" and "empty" both frequent; the code
depends on nothing but those two. One failure (`MaxBreaks` or `MaxTimeouts`) gives two
generations of loops, the smallest number at which stale loops exist; a third generation adds
only more of them, and the proofs of section 5 cover any number. One scan with one or
two modules suffices to fill a channel of capacity one. With two connections one can arrive
or leave while the broadcaster is busy with the other, which is all its iteration can meet
at one moment. Two connects give an old and a new configuration, and the three contexts let
the second replace the target, the agent, or both; the driver's callbacks share no
state but what they read, so one thread meets every step of the port routine and of the
unload. Two pipe instances, of which one
can be held up by a full channel of capacity one, three messages and one end of the agent
let instances run out, be reused and be lost; each other process sends one message. The
unit of time is 5 s (8 s are rounded up to 10, 0.5 s and 0.25 s to one unit);
two scans of up to 15 s, one of them buffered, reach past the 20 s by which the deadlines
differ; `HydraTimingProofs` covers every other choice. Texts of six characters, two of the four in `Char` taking two units, exceed buffers of
five and four in every way. Model values of connections are symmetric in safety runs only.

**Fairness.** The Go scheduler and the kernel run every runnable thread: one fairness
condition per goroutine or thread, on the steps it takes of its own accord (`LoopRuns`,
`HandlerRuns`). Failed socket operations return. Strong fairness is used where the runtime
serves waiters in turn: a waiting writer of an `RWMutex`, a blocked channel sender, and a
`select` that finds a command ready again and again. `SF(DialOk)` says that the backend is
reachable often enough; without it nothing could ever be forwarded. Nothing is assumed of
agents, events, commands, faults, deadlines, or of `Close` or an unload being asked for.
In `HookDLL` the agent, once ended, is started again, and nothing at all is assumed of
`eventPump`, which receives nothing while the backend is away: `HookedCallReturns` holds
without it, `PipeServes` names what it needs of it as its hypothesis.
`CloseReturns` has an explicit exception, `ScanStuck`: the scan is blocked on a full
channel whose pump has already returned. `Close` then really hangs.

**Deadlock** is checked in every run. `Stopped` (in `HookDLL`, `Quiet`) names the states in which the program may
stop for good; any other stop is an error.

**Mutants.** Every property has a mutant in the module of the definition it changes
(`X_Something` before `X`, mostly a small operator for the one decision it changes), a bug one could make in that code, for which TLC finds
the property violated.

## 4. What the runs showed

Everything stated holds except the three violated sentences. Of the properties that hold,
the least obvious: the client itself discards at most one event per write loop that ends
(`LossBound`; frames that the library accepts on a connection already broken are not counted,
and there may be many until a loop notices), a broken connection is always noticed and
replaced (`BrokenIsReplaced`), no
interleaving of `Close` with a late dial leaks a socket (`NoConnLeak`), `wg.Add(3)` while
`Close` waits is harmless because `run` itself is still counted (`WgCounts`,
`ClosedIsQuiet`), a handler never closes a connection the broadcaster is writing to
(`WriteToRegistered`), and a broadcast that drops an agent still reaches every other one that
stays registered (`BroadcastComplete`). Order is guaranteed on a connection
only if a single write loop used it: a loop that starts late may share its successor's
connection.

The two-step update of the PIDs never lets a handle callback leave more access than some
configuration that was in force, or being installed, while it ran (`StripExplained`). It may
reduce access where no single configuration does: if both PIDs are replaced meanwhile, the
callback can judge by the new target and the old agent, and the new agent's own handle is
stripped. Handle and thread callbacks send through a filter that exists until the unload
begins (`NoEarlySend`); process and image callbacks have no such guard and may call
`FltSendMessage` with NULL before the port exists, and the unload calls
`ObUnRegisterCallbacks(NULL)` if `createRegistration` had failed. An unload completes
(`UnloadCompletes`) unless one of these calls stops the machine; whether it does is up to the
kernel.

In the pipe, an event that was written is discarded only if its client was gone before
`ConnectNamedPipe` was called, or with the agent itself (`LostOnlyBeforeConnect`); once
`GetOverlappedResult` has been entered, closing early is harmless. A hooked call returns
even when the agent has no instance left. The server's 60 s end a connection that its client
keeps only if scans hold up the client's read loop for at least 20 s past its own deadline
(`ServerPatient`), but that is not thanks to the pings: the client itself gives up every
connection after 40 s otherwise. After an outage the agent is back within one dial and the
longer of a read deadline with the scans still to be done and a dial with the longest backoff
(`BackInTime`).

Agent and backend print the same text exactly if no surrogate pair was cut (`SidesAgree`): for
half a pair the agent prints three U+FFFD and the backend one. Where a non-zero `int` of
`ImageFileName` has a lower half of 0, which the property excludes, the agent stops and the
backend prints a NUL. A name
that the driver reports loses every second character, because `wcsncpy_s` packs two units
into each `int` and both readers take one.

## 5. Proofs

Every invariant, action property and refinement that a passing run checks is also a theorem,
for every value of the constants that the modules' assumptions allow (positive capacities,
natural bounds, sets of threads and connections of any size, finite or not; `TimingAssumption`,
and for texts that characters are code points other than 0 and surrogates). Few of the
properties are inductive. Each proof module begins with the invariant that is, proves that every
action keeps it, one step per action, and derives the properties from it. TLC has checked the
invariants of these modules too, with the constants of the runs.

**HydraWSProofs** (goroutines and sockets of the client).

- `TypeCorrect`: `TypeOK`, from four lemmas, one per part of the type.
- `NoConnectionLeaks`: `NoConnLeak`. That at most one connection is open follows only if an
  open one is always the latest, and either stored in `h.conn` or about to be. `ConnInv` says
  that (theorem `ConnInvariant`): open connections equal `dials`, `h.conn` is the latest one
  or nil, it is nil whenever `run` is outside `select`, and an open connection that is not
  stored exists only while `run` is at `storing`.
- `WgExact`: `WgCounts`, and `ClosedQuiet`: `ClosedIsQuiet`. `WgInv` adds `GenFresh` (the
  loops of a generation not yet started are at "none", so that `wg.Add(3)` adds exactly the
  three goroutines that become live) and `Dialled`. At 0 the set of live goroutines is
  empty, and none can be started because only `run`, itself counted, starts any.

**HydraWSStreamProofs** (events of the client).

- `WireIsInOrder`: `WireInOrder`. `QueueInv` orders `sendCh`, the pump's hand and
  `EventChannel`; `GoneInv` says that what write loops hold or have written is older than all
  of that and held once; `WireInv` that a loop captures a connection once, and that a loop
  alone on a connection holds an event younger than all it has written there.
- `LossIsBounded`: `LossBound`. A loop that discards an event ends with that step, so `LossInv`
  compares the two cardinalities step by step.
- `ClientIsStream`: `ImplementsStream`. That an event is not forwarded twice is `GoneInv`
  again (what is pending is younger than what is on a wire); that the events a scan adds
  stay within `Event` is `ScanInv`, which counts the modules still to report.

**HydraWSServerProofs.** `MapInv` ties the broadcaster's lock to its label, and says that a
registered connection is closed only while the broadcaster is about to delete it. It gives
`RegisteredServed` and `WritesToRegistered`. `ToldInv` says that what the iteration has
produced and is still registered has got the command, but for the connection in hand; with it
`BroadcastIsComplete` is about every way out of the broadcast. `EventsAreInOrder` needs `OrderInv`: unless a handler has dropped its
event at the shutdown *and left*, nothing of its connection is missing; without the label the
next event of that connection could leave a hole.

**HydraTimingProofs.** `BackInv` bounds `gap + timer`, state by state: how long the agent has
been without a connection plus how long its current wait can still take, the buffered scans
(`Backlog`) included. That is `AgentIsBack`. `PatientInv` (`ServerIsPatient`) says that a
deadline of the server is ahead of the client's by `ReadWait - 2 * PingIntv`, and that once the
client's has passed the server's is used up no faster than `late` grows. `ForgetsInv`
(`ServerDoesForget`) bounds `gone + left`.

**MedusaDriverProofs.** `LifeInv` relates the handles, the port and the reference to the step
of the load or unload (`UnregisterIsSafe`). `QuietInv` lists, step by step of the unload, which
callbacks are unregistered and which have also finished; the latter is known one step after
the former (`UnloadedQuiet`). `SendInv` says that nobody gets past the test of `ToProtectPID`,
and nobody sets it, before the port exists, and that the handle a callback has read is alive
while the driver runs, because a non-NULL `flt_handle` keeps the filter (`NoSendBeforePort`).
`PidInv` ties the PIDs to the last configuration and the one half installed; `StripInv` keeps,
for every label of a callback, what its decision so far rests on (`StripIsExplained`).

**HookDLLProofs.** `InstInv` and `IdInv` (with `NoInstanceLeak`) describe an instance: an
instance without a client is empty and unread, a thread is the client of one instance, which
is empty until the thread writes. `InitInv` is `InitOnce` with what makes it inductive: before
the guard is taken nothing is done, one thread passes it, and at each of its labels the things
still ahead of it have not been done. `HookInv` is `HookFallsThrough` with the order of creating
and enabling. `OnlyBeforeConnect` follows from these.
`PipeImplementsStream` also needs `UniqInv` (no message is in two places) and `FreshInv` (the
message of a call that has not written it is nowhere yet).

**ConversionsProofs.** `EvInv` says that the event is made of the text; the theorems are then
about functions. `Encode` and `Decode` are recursive functions, and what they compute is
proved by induction over a *set* of naturals: the complement of the set would have a least
element (`Least`, from the well-foundedness of `<`; lemma `Induction`), and with a set no
operator has to be instantiated. `EncodeIs` describes the encodings of all prefixes of a text,
`DecodeIs` the recursion of the decoder, and `DecodeCut` combines them: decoding the first
units of an encoded text gives whole characters, and U+FFFD if half a pair follows. That gives
`WideTextSurvives`, for which `FittingIs` shows that the reference's `CHOOSE` has a value.
`PathsSurvive` uses the simpler `DecodePlain`. For `BothSidesAgree`, `HalvesShow` compares the
two decoders: each half alone makes the agent's text longer and nothing makes it shorter, so
the texts are equal exactly if there is none. `BuffersAreTerminated` needs only the types.

Only model-checked: liveness (`EventLeaves`, `BrokenIsReplaced`, `CloseReturns`, `BrokenLeaves`,
`CommandsMove`, `UnloadCompletes`, `HookedCallReturns`, `PipeServes`), which the prover does
not support, and the three violated properties, which are not theorems.

## 6. Not modelled

- `SendJSON`, the send with reply of `Coms.c`, `Injector.go` and `ETWConsumer.go` have no
  caller; `enrich` is commented out.
- `DLL_PROCESS_DETACH` of the hook DLL: it happens when the process ends, after its other
  threads, and nothing is left that could see what it resets.
- The minifilter's callbacks and `MinifltPortMessageRoutine` change nothing.
- `enableSeDebugPrivilege`, the Toolhelp snapshot, `hresultText`, `EnsureConsole` and
  printing are calls of the system without effect on the modelled state; `evToBytes` and
  the copies in `readLoop` and `handleWS` move bytes unchanged.
- Numeric fields of an event, which every conversion copies.
- `kernel_print_receiver.py`, a debugging tool, and the build files.
- `HydraWS` and `HydraWSServer` have no durations (a deadline or ticker may fire at any
  time); `HydraTiming` has them, for one agent and without the goroutines.

## 7. Plan

1. Done: `HydraWS`, `HydraWSServer`, `MedusaDriver`, `MedusaPipe` and `HookDLL`,
   `HydraTiming`, `Conversions`; a theorem for every invariant, action property and
   refinement that a passing run checks.
2. Next: the parts of the pipe's proof that do not mention the DLL as lemmas of their own, so
   that another client of the pipe could use them; the steps common to `HydraWSStreamProofs`
   and `HookDLLProofs` in showing that a step implements `EventStream`.
