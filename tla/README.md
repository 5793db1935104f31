# claudy-p2p in TLA+

claudy-p2p shares a folder from one computer (the *owner*) to another (the *viewer*) as
a WebDAV mount. Both dial a small WebSocket broker (the *hub*), which pairs them in a
room and forwards their SDP and ICE envelopes; they negotiate a WebRTC PeerConnection,
run a Noise handshake over a data channel, multiplex TCP streams over it with yamux, and
serve WebDAV on the streams. A controller with a local web UI starts one `dav-owner` per
viewer, or one `dav-client`, and mounts the client's proxy.

This directory holds TLA+ modules for the parts whose correctness depends on
interleavings, failures and time, the configurations TLC checks them with, and proofs
that TLAPS checks. Paths below are relative to `src/claudy-p2p/`.

## 1. Inventory

| Component | Source | State | Operations | What is hard | Correct when | Here |
|---|---|---|---|---|---|---|
| Signaling hub | `cmd/signal/main.go` | rooms with an owner and a viewer slot; a goroutine per WebSocket | join, pair (with takeover), announce, forward, drop | both sides' handlers write to each other's WebSocket; takeovers race late drops | slots hold the live connection, rooms are reclaimed, both sides learn of a pairing, frames stay in the room | SignalHub, proofs |
| Signaling client | `internal/signaling/client.go` | connection, `writeMu`, closed channel | dial, ready, send, receive, reconnect, close | several goroutines meet one loss; close during a reconnect; a reader without the lock | one connection, re-joined, no redial storm, close is final | SignalClient, proofs |
| Viewer supervisor | `cmd/dav-client/main.go` | epoch, PC, mux, ready channel, rebuild token | rebuild, OnOpen, watchdog, state callback, signal, proxy | callbacks of old epochs; rebuilds that overtake handshakes; reused channels | one live (PC, mux) pair, no stuck proxy, a dead tunnel is rebuilt | ViewerSession, Supervisor, proofs |
| Relay-only policy | `cmd/dav-client/main.go` (twin in `dav-owner`) | failure counter, latch, SDP-race stamp | classify, reset | callbacks in unordered goroutines | one failure does not latch | ViewerEscalation, proofs |
| Stat cache, over name normalisation | `internal/ownerfs/statcache.go`, `normalize.go` | entries with expiry for Stat and listings, under the path as spelled | Stat, Readdir, Mkdir, RemoveAll, Rename, OpenFile/Close | the file system is asked outside the lock; changes and their invalidations are apart; a file has several spellings | answers are at most a TTL old; a PROPFIND of what was changed, spelled the same, sees it | StatCache, proofs |
| Controller | `cmd/claudy/main.go` | `connect`, `slots`, `shareDir`; per child its command, status, mount path | share, add/remove viewer, connect, stop, reap, mount | concurrent HTTP requests whose critical sections are apart; children that crash or ignore SIGTERM | no child is stopped twice, none is lost but one whose room is taken, stop ends, the supervisor ends | Controller, proofs |
| Owner supervisor | `cmd/dav-owner/main.go` | epoch, PC, mux, backlog of streams | buildPC, OnDataChannel/OnOpen, answer, accept | as the viewer, plus a bounded backlog and a listener that closes | as the viewer; a stream is served or closed | OwnerSession, Supervisor, proofs |
| Identity, keyring | `internal/identity/`, `verifyPeer` | key file; pinned peers in memory and on disk | LoadOrCreate, OpenKeyring, Check, save | the processes of one user share the files, each with a copy of the keyring; crashes inside a save | one node key; the file parses; a pin is never replaced and binds later processes | Identity, proofs |
| Data-channel connection | `internal/peer/conn.go`, `listener.go` | queue of messages, deadlines, context | Read, Write, Close, deadlines, OnMessage, OnClose | pion's read loop waits for the reader; deadlines are set and cleared | frames in order, none dropped while open; the loop ends | SecureChannel, proofs |
| Noise channel | `internal/secure/noise.go` | handshake state, two cipher states | IK handshake, Read, Write | one end is up before the other; silence; nonce order | nobody is up with a stranger; neither end stays up alone; no decryption fails | SecureChannel, Pipe, proofs |
| Yamux tunnel | `internal/tunnel/tunnel.go` | none of its own | Serve, Dial | errors half way | a failed start closes the connection | steps of SecureChannel, ViewerSession, OwnerSession |
| Filters, share-delete | `internal/ownerfs/` | none | wrappers of a file system | – | unit tests | not modelled: stateless |
| File browser | `cmd/claudy/files.go` | none | HTTP handlers | – | – | not modelled: stateless |
| Power lock | `internal/powerlock/` | a helper process | acquire, release | – | – | not modelled: pure I/O |
| Legacy binaries | `cmd/owner`, `cmd/viewer`, `cmd/fileserv` | – | one-shot prototypes | – | – | not modelled: superseded |

How they interact: a `SignalClient` sits in `dav-owner` and in `dav-client` and talks to
a handler of the hub; the supervisors send their envelopes through it and are called
back by pion, by yamux and by the signal loop; what they dial or serve is a tunnel over
one data channel (`SecureChannel`, seen by them as a mux that is up or dead); before
that, each process checks its peer against the files of `Identity`; local TCP
connections are proxied to yamux streams and, at the owner, served by WebDAV over the
stat cache; the controller knows its children by their process, their output and the
mount. The models are joined at what each calls external: the hub's clients are the
environment of SignalHub (`Lose`, the choice of frames), the hub and the network that of
SignalClient (`Lose`, `Dial`), pion and the peer that of ViewerSession (`IceConnects`,
`IceFails`, `DataChannelOpens`, `SessionDies`, the choice of answers).

## 2. Modules and the code

Every module is written in steps a different goroutine can observe: a critical section,
a channel operation, a call that blocks. Nothing else is assumed atomic. `MCx`
instantiates `x` for TLC; `xProofs` proves theorems of it.

**SignalHub.** A member of `Conn` is one accepted WebSocket and the `handle` goroutine
that serves it; `pc[c]` is the statement it is at. `pair`, `counterpart` and `drop` are
single steps (the hub's mutex); each WebSocket write is a begin and an end step, because
the handlers of both sides of a room write to one WebSocket without a lock. A handler
goes on reading what its client sent before the connection was lost or taken over: those
frames are in the WebSocket's buffer. `slot`, `rooms` are `hub.rooms`; `inbox` is what a
client was delivered. A missed pong is `Lose`. Two writers at once leave a WebSocket
"torn", from which writes may be delivered, vanish, fail or panic; a panic outside
`pump` leaves the slot behind.

**SignalClient.** Connections are numbered in the order they are dialled. `mu` is
`writeMu`, `conn` is `c.conn`, and `pc` says for the main goroutine, the receiver and
each sender where they are in `Send`, `Recv`, `Close` and `reconnectLocked`. Envelopes
are abstracted to whether the first frame of a connection is a join. A loss that neither
end notices is a receiver that does not take its step. A dereference of a nil `c.conn`
ends the process (`panicked`).

**ViewerSession.** PCs and sessions are named by the epoch that made them, ready
channels by serial numbers. `run`/`rebuild` is split where a callback can come between
(`Rebuild`, `RebuildOffer`, `RebuildSend` and their failures, `RetryAfterSleep`; an
answer can be applied, and the PC fail, before Send returns), OnOpen into its guard, the
dial, the install and the close of the ready channel; state callbacks are members of
`cbs` (pion starts a goroutine for each), `dog` is the mux watchdog. SDP is the epoch of
the offer it answers. Not modelled: `ctx.Done` (it ends the process), `Disconnected` (it
does nothing), ICE envelopes (they change nothing here).

**ViewerEscalation** extends it with the failure counter, the relay-only latch and the
SDP-race window; every step is a step of ViewerSession with its effect on those, or a
Connected callback. `failedPCs` is a history variable: the PeerConnections that ever
went to Failed, as pion knows it.

**OwnerSession.** The same epochs with the roles exchanged: there is no ready channel
and no offer to make. `onopen`, `dog` and `cbs` are as above; `waiting` are the streams
of a session that nobody has accepted, `held` what each acceptor has in hand, `incoming`
the channel to the HTTP server. An offer is applied in one step: a PC that is replaced
in the meantime is closed and takes no notice. A data channel that opens before
`buildPC` has registered its handler is `lost`. Not modelled: the relay-only policy
(steers no step here; ViewerEscalation has its twin), labels of data channels,
`ctx.Done` and the closing of `streamListener` at exit.

**Supervisor** is what the viewer's and the owner's supervisor both promise, without
PCs, handshakes, callbacks, channels and locks: tunnels one after the other, each coming
up at most once, and a request for another one that is raised with every loss and
answered by a new epoch only. The mapping of `ViewerSession` and `OwnerSession` to it:
the current tunnel is `lost` when there is no PC, the PC has failed, the installed
session is dead, or OnOpen has ended without installing one; it is `up` while a session
is installed, and `coming` before. `asked` is the rebuild token or anything that is sure
to set it: `run` asleep after a failed rebuild, a state callback of the current epoch
that has not run yet, the watchdog of a dead session. A rebuild that fails keeps its
epoch, so the OnOpen of the PC it has closed can still pass its guard and install a
session: the tunnel stays lost. A panic of the viewer is `Crash`. The property
`ImplementsSupervisor` of both modules is `Supervisor`'s specification.

**StatCache.** A FileInfo is abstracted to the time it stopped being true (`until`), and
to whether a changing call of the cache has made it stale where it lay, in an entry that
a PROPFIND of what the call named would be answered from (`owed`). A reader is between
reading the clock, the two critical sections and the call of the inner file system; a
changing call is a plan of steps (`inner`, `open`, `invalidate`) that can fail half way.
The cache is the outermost wrapper (`cmd/dav-owner/main.go:420`): its keys are the paths
as the requests spell them, sequences of segments, and `NormalizeNFC`, beneath it, maps
the spellings of a name to one file (`File`, by the constant `Nfc`). A change of a file
ends the copies under all its spellings; `invalidate` forgets one. A listing seeds Stat
entries under its own spelling and the names on disk. Left out: bounded `Readdir` calls,
which bypass the cache; names on disk in another form than NFC, which no path reaches;
symbolic links, for which a listing holds what lstat says where Stat follows the link.

**Controller.** An HTTP request is a process whose `pc` is between the critical sections
of `a.mu`; `sp` is the child it starts or stops, `todo` what it still has to stop. A
child runs, exits by itself or when told to (or does not), and is reaped by the
goroutine that `launch` leaves. `sup` is the mount supervisor. `slots` maps rooms to
children, and a new viewer's room is any, taken or not: `randomRoom` computes it from
the clock alone. The commands that mount and unmount run without a timeout: `Unmount`
may never be taken, and `SupMount` need not be while the child runs. What children print
(and so `lastStatus`) is arbitrary at any time, and settings, the log ring, status
snapshots and `stopAll` at exit are left out.

**SecureChannel** has both ends of one tunnel. `hs[e]` is where `doHandshake` is and
what became of it, `in[e]` the queue of `peer.Conn`, `wire[e]` what pion's read loop of
`e` has yet to deliver; `Read` and `Write` test context and deadline as their selects
do, so that a ready frame may lose against either. A frame is numbered by the nonce it
was made with, and decrypts only as that one; taking the nonce (`Encrypt`) and handing
the frame over (`SendFrame`) are apart. `pinned[e]` says whether `e` was given the right
key of the other end. Abstracted: bytes, partial reads, time but for the deadline; yamux
is whoever reads, writes and gives up.

**Pipe** is what the two ends are promised, without frames, queues and deadlines: an
authenticated pipe each way. `SecureChannel` implements it with the mapping `phase` <-
where the handshake is, `sent` <- nonces taken; the property `ImplementsPipe` is
`Pipe`'s specification.

**Identity** has the start of the processes of one user, one step per file operation:
`os.WriteFile` creates or truncates, then writes; a process dies between any two steps
or in the middle of a write. Files are inodes (`content`, named by who created them), so
that a rename takes along whoever still has the file open. A process that is started
again is another member of `Proc`. Left out: `Forget` and `List`, which nothing calls,
and time stamps.

Operators whose comment begins with "Faulty variant" model plausible bugs: each property
of the passing runs is violated when one of them replaces the operator after it. They
play no part in the specifications.

## 3. Runs

| Run | Instance | Shows |
|---|---|---|
| SignalHub_safety | 3 connections, 2 rooms, one client that sends an envelope, fair | `LiveHoldsSlot`, `SlotIsServed`, `RoomsReclaimed`, `PairAnnounced`, `SameRoom`, `SlotFreed` |
| SignalClient_safety | main, receiver, 2 senders, 2 losses, fair | `JoinFirst`, `NoLeak`, `RedialsBounded`, `ClosedForGood`, `Reconnects`, `CloseReturns` |
| SignalClient_nil_conn | 1 sender, 1 loss, **violated** | `Recv` reads a nil `c.conn` |
| ViewerSession_safety | 2 epochs, 1 proxy, fair | `OneLivePair`, `WaitersReachable`, `DeadTunnelRebuilt`, `ImplementsSupervisor` |
| ViewerSession_double_close | 2 epochs, **violated** | a ready channel can be closed twice, a panic |
| ViewerEscalation_one_failure | 2 epochs | `OneFailureIsNotEnough` |
| OwnerSession_safety | 2 epochs, 2 streams, backlog of 1, fair | `OneLivePair`, `StreamsTracked`, `StreamAnswered`, `DeadTunnelRebuilt`, `ImplementsSupervisor` |
| SecureChannel_safety | queue of 2, 3 frames each way, fair | `Watched`, `NoSpuriousEnd`, `HandshakeEnds`, `EndsTogether`, `ReadLoopEnds`, `Delivered`, `ImplementsPipe` |
| Identity_safety | 3 processes, 2 aliases, 2 keys | `OneKey`, `FileReadable`, `PinKept`, `FirstUseBinds` |
| StatCache_safety | a tree of 4 paths, two of them spellings of one file, 1 reader, 1 writer, TTL 1, clock to 1 | `BoundedStaleness`, `PropfindSeesChange` |
| Controller_safety | 2 requests, 2 owners, 1 client, 2 rooms, fair | `OwnersTracked`, `StoppedByOne`, `StopFinishes`, `StopKills`, `SupervisorEnds` |
| Controller_one_viewer | 2 requests, 2 clients, **violated** | two viewers at once |

The type invariants (`TypeOK`) are proved (section 4) and not run.

Why the bounds suffice for the hazards they are for. Three connections are a pair and
one that takes over either slot while the displaced handler is still about to drop; two
rooms let a frame go astray, for which one envelope is enough. Two losses let one
goroutine's reconnect meet another's, and two senders make three goroutines that can
fail at once. Two epochs are an old one whose callbacks, handshake and watchdog are
late, and the new one they disturb; with two, a ready channel is shared or replaced. Two
streams and a backlog of one let a stream find it full. With a TTL of 1 and one reader,
the time from the clock's reading to the end of what it stores spans one tick, so that
the clock to 1 lets an entry be stored late, be hit and expire; the tree has a directory
and in it a file with two spellings, one of them the name on disk, so that a rename
moves out of the directory or to the other spelling. Two requests are the races of the
controller; two owners make a stop of the share stop one child after the other, and two
rooms let them sit side by side or draw the same code. A queue of two is full while a
third frame waits in pion's loop, and the third shows the order kept across that. Two
processes are a race, and a third starts after it or opened the keyring before it; two
aliases and two keys tell a lost pin from a replaced one. The invariants that are proved
do not depend on these bounds. `SupervisorEnds` is stated for a session that is stopped
or overwritten; the run has one client and so shows the first.

Symmetry is used only in `Identity_safety` (processes, aliases, keys), whose properties
are invariants that name none of them. `CHECK_DEADLOCK FALSE` is set everywhere because
the bounded systems really stop: connections, losses, epochs, nonces, processes,
children and the clock run out, and an idle server waits for input that need not come.

**Fairness.** Weak fairness of a goroutine's steps is Go's scheduler, and that calls
with a timeout return. Calls without one are the viewer's `Send`, which returns when the
signaling client has reconnected or was closed (SignalClient's `Reconnects`, which
assumes that the hub answers in the end), and the controller's mount and unmount
commands: nothing is assumed of an unmount, and of a mount only that it returns once the
proxy it talks to is gone. Strong fairness is assumed in these places only: taking
`writeMu` (Go's mutex hands over to a waiter that has starved for 1 ms); `Redial` (a hub
that is dialled time and again answers in the end); `ReadDropped` (reading on from a
connection that is down fails in the end); `Rebuild` and `BuildPC` (`NewWithPolicy` does
not fail for ever). In SecureChannel the handshake's timer fires, and both ends'
goroutines and pion's loops move; nothing is assumed of those that open, write to or
close a channel, nor of the link. In Controller, a process that was sent SIGKILL ends;
nothing is assumed of SIGTERM. No client, caller, callback of pion or request is assumed
to come.

### Disagreements between the code and its comments

- `internal/signaling/client.go:171`: `Recv` reads `c.conn` without the lock that "also
  guards conn replacement" (58-59) and can find nil (`NoNilConn`).
- `cmd/dav-client/main.go:300`: `close(readyCh)` after `mu` is released, so a rebuild in
  between hands the open channel to the next epoch, which closes it again
  (`NoDoubleClose`).
- `cmd/claudy/main.go:454`: `connect` is checked and set in different critical sections
  (`OneViewer`), against "at most one viewer subprocess at a time" (line 7).

Seen while modelling, without a run of its own:

- Two requests that add a viewer at the same clock reading draw the same room code
  (`cmd/claudy/main.go:837-846`), and the second overwrites the first's slot (381): that
  `dav-owner` runs on, and nothing in the controller can stop it, against "each slot is
  a fully independent dav-owner subprocess: own room" (9-10). `OwnersTracked` names the
  case.
- `stopConnect` "kills the viewer subprocess" (`cmd/claudy/main.go:509`) only after its
  unmount command, run without a timeout (522), has returned: if that hangs on the
  mount, the child is never signalled. `StopKills` therefore starts where `stop` is
  called.
- To refuse a second connection `startConnect` reads `a.connect` again without the lock
  (`cmd/claudy/main.go:416`); a stop in between makes it a nil dereference, which
  `net/http` recovers. No state changes.
- "Writes invalidate the affected entries" (`internal/ownerfs/statcache.go:16-17`) is
  not so of the directory's row in its own parent's listing, of what was below a removed
  directory, nor of other spellings of the path: the cache lies above `NormalizeNFC`
  (`cmd/dav-owner/main.go:420`), so the NFC and NFD forms of a name have entries of
  their own, and a write under one leaves those of the other.
- A listing seeds Stat entries with what lstat says (`statcache.go:213-216`), so a
  symbolic link's Stat depends on whether its directory was listed.
- Two handlers of the hub write to one WebSocket (`cmd/signal/main.go:231` with
  117-118), against gorilla's rule quoted at `internal/signaling/client.go:3-5`;
  SignalHub has the consequences ("torn").
- A deadline does not "cancel ctx" (`internal/peer/conn.go:20`, 93): it closes a
  channel, so that a later deadline can replace it; and `Write` does not wait below a
  high-water mark (190-192), since that gate is commented out (216-238).
- Two processes can save the keyring at a time, and its atomic rename
  (`internal/identity/keyring.go:39-40`) does not help: the second truncates the
  temporary file that the first renames, and if it then dies the keyring stays empty and
  later processes do not start. Identity has these behaviours; `FileReadable` and its
  fellows say what holds when no two saves overlap (`clashed`).
- A crash between creating and writing `identity.key`
  (`internal/identity/identity.go:61`) leaves a short file with which no later process
  starts (67).
- A slot of the hub is visible to the other side before its ready is written
  (`cmd/signal/main.go:98`), so an envelope can come first, for which `Ready`
  (`client.go:110`) fails.
- A proxy can be woken by a ready channel whose mux is already gone and drops its
  connection, where `cmd/dav-client/main.go:448-450` says that it stalls.
- A late Connected callback is ignored as stale, so two failures with a working
  connection between them can latch relay-only, where lines 143-144 say "no Connected
  between them".
- A mount that is under way when `stopConnect` reads `mountPath` is never unmounted.

What `PropfindSeesChange` does not claim, and `BoundedStaleness` limits to a TTL: a Stat
or Readdir that was under way during a change can store what it read before; the row of
a changed directory in its parent's listing, the entries below a removed or renamed
directory and its own listing, and everything kept under another spelling stay.

## 4. Proofs

TLAPS checks the theorems below for every value of the constants, from the named
assumptions of each module only (`None` is no connection, bounds are naturals, the
goroutines of the client are distinct, the tree is closed under `Dir`, `File` and the
keys that listings seed, and a name on disk is its own normal form; owners and clients
are disjoint).

| Module | Theorems | Argument |
|---|---|---|
| SignalHubProofs | `TypeCorrect`, `SlotsCorrect`, `ServedCorrect`, `RoomsCorrect`, `RoutingCorrect`, `AnnouncementsCorrect`, `WritesCorrect`, `WindsDownCorrect` | types need that a handler which writes has a target (`Addressed`); slots and their holders support each other (`SlotInv`); routing needs that whoever a handler holds in `peer` or `target` joined the same room in the other role (`RouteInv`); announcements need, for each pair, who still owes whom a ready (`AnnounceInv`). `Moves` says what any step can do to one handler and its WebSocket, and is what the last two layers use of `Next` |
| SignalClientProofs | `TypeCorrect`, `JoinCorrect`, `RedialsCorrect`, `NoLeakCorrect`, `CloseCorrect`, `HolderCorrect`, `ReleaseCorrect` | `LockInv` ties `mu` to the places where it is held, `ConnInv` says which connection can still be open, `FirstInv` that a connection nothing was written to is `c.conn` only until main has joined. `RedialsBounded` is not inductive: a goroutine about to redial, and a receiver behind the current connection, each still owe a dial, so `BudgetInv` is `dialled + Owed <= 2 * losses + 1` |
| ViewerSessionProofs | `TypeCorrect`, `OneLivePairCorrect`, `WaitersCorrect`, `EscalationCorrect`, `SupervisorCorrect`, `RequestCorrect` | ready channels are replaced in order and only once closed (`ChannelInv`); between the halves of a rebuild the new PC has no callbacks (`WireInv`). A PeerConnection fails once and has one Failed callback (`FailInv`), so every failure counted is that of another one (`CountInv`). For the refinement, `PairInv` relates PC, session, OnOpen and watchdog of the current epoch, and most steps are shown to keep the tunnel or to lose it while somebody asks (`Kept`), which is a step of Supervisor or a stutter |
| OwnerSessionProofs | `TypeCorrect`, `OneLivePairCorrect`, `StreamsCorrect`, `SupervisorCorrect`, `RequestCorrect`, `PendingCorrect` | epochs to come have no data channel and a PC being wired no callback (`WireInv`); no stream is held or waits twice (`Exclusive`). The refinement goes as the viewer's. `PendingInv`: a stream not yet accepted waits in a live session, since the end of one closes what waits in it |
| StatCacheProofs | `TypeCorrect`, `StalenessCorrect`, `ChangesCorrect` | `AgeInv`: an entry expires at most a TTL after a moment at which its copy was still true, and a reader's copies were true since its call began. `DueInv`: every copy that a change owes is still to be invalidated, under its spelling, by a call under way |
| ControllerProofs | `TypeCorrect`, `OwnersCorrect`, `StopCorrect`, `FinishCorrect`, `NearsCorrect` | `HandlerInv` says what a request holds at each point, `StartInv` that a child nobody has launched is nowhere and one being started is with its request alone, `CommandInv` that only a signal takes the command of a running child away, `FollowInv` that whoever sent SIGTERM is waiting for the exit, `FreshInv` that a client being started has no mount supervisor. `OwnersTracked` is an action property: a step that leaves a live owner neither in a slot nor in a hand is the `AddSlot` that overwrites it (`OwnersStep`) |
| SecureChannelProofs | `TypeCorrect`, `InvCorrect`, `NoSpuriousEndCorrect`, `WatchedCorrect`, `PipeCorrect`, `FrameFits` | `LocalInv` ties each end's counters to its handshake, `OrderInv` orders the two handshakes, `FrameInv` says that no frame is ahead of its sender; `FlowInv` is the point: while a Conn is open, its queue and the wire before it hold consecutive frames, from the next nonce to the one in hand, whether the link still lives or not. `LateInv`: a Conn made after the read loop has ended never gets a message, so its handshake fails. `PipeCorrect` is the refinement: each step is a step of Pipe or a stutter |
| IdentityProofs | `TypeCorrect`, `OneKeyCorrect`, `FileReadableCorrect`, `PinKeptCorrect`, `FirstUseCorrect` | `SeedInv` says who is between reading and writing the key; `SaveInv` that without a clash the temporary file is the saver's alone; `CountInv` orders renames, opens and saves; `CopyInv` relates each process's copy to the file |

Each invariant was checked by TLC before it was proved. A proof has a lemma per action
and, under it, a step per conjunct; the theorems combine them by temporal logic.

Only model-checked: the liveness properties (`SlotFreed`, `DeadTunnelRebuilt`,
`StreamAnswered`, `Reconnects`, `CloseReturns`, `StopKills`, `SupervisorEnds`,
`HandshakeEnds`, `EndsTogether`, `ReadLoopEnds`, `Delivered`), since the prover handles
neither fairness nor ENABLED. Every safety property of a passing run is proved. For most
of the liveness properties the half that is safety is proved too, for every value of the
constants: that whoever should move has something to do, and that each of its steps
brings the end nearer or that the request is not lost meanwhile.

| Liveness (TLC) | Its safety half (TLAPS) |
|---|---|
| `SlotFreed` | `WritesCorrect`: a handler's write can only succeed or fail; `WindsDownCorrect`: once its connection is gone, each of its steps lowers `StepsLeft`, in which an envelope still to be read counts four |
| `DeadTunnelRebuilt` (both) | `RequestCorrect`: while the tunnel is lost, a rebuild is asked for; `SupervisorCorrect`: only a new epoch answers |
| `StreamAnswered` | `PendingCorrect`: a stream that nobody has accepted waits in a session that lives and has an acceptor, or an OnOpen about to start one; `StreamsCorrect`: from then on it is in one hand or in the backlog until it is served or closed |
| `CloseReturns` | `HolderCorrect`: the holder of `writeMu` waits for no other goroutine; `ReleaseCorrect`: once Close has begun, each of its steps lowers `StepsLeft` |
| `StopKills` | `FinishCorrect`: a request is done with a child only when that has ended or was killed |
| `SupervisorEnds` | `NearsCorrect`: once its session is over, each step of the mount supervisor lowers `RoundsLeft` (whether a mount command returns is the environment's) |
| `HandshakeEnds`, `EndsTogether` | `WatchedCorrect`: a handshake has a deadline, an ended end has closed the channel, a live one a read loop that finds that out |

What remains for TLC is that the steps are taken (fairness) and that nothing else in the
state disables them.

## 5. Not modelled

- Name filters and share-delete (`internal/ownerfs/`), the file browser
  (`cmd/claudy/files.go`): they keep no state between calls; unit tests fit them. Of
  Unicode normalisation StatCache has that it maps spellings to files, not which.
- The power lock and the commands that mount: pure I/O. The legacy binaries
  (`cmd/owner`, `cmd/viewer`, `cmd/fileserv`) are superseded.
- pion, yamux, flynn/noise, gorilla/websocket and WebDAV are libraries: they are the
  environment of the models, with what this code relies on of each named where it is
  used.
- Settings, log ring and status snapshots of the controller; `stopAll` at exit; the
  closing of `streamListener` at exit: the process ends with them.
- Hub and clients in one model: same-role clients that displace each other are a
  behaviour of both together. Each is checked against everything the other may do, which
  covers safety but not that the two settle.
