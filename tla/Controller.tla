----------------------------- MODULE Controller -----------------------------
(***************************************************************************)
(* The controller behind the local web UI, cmd/claudy/main.go: it starts   *)
(* and stops a dav-owner for every viewer of the shared folder and one     *)
(* dav-client, reaps them, and mounts the client's WebDAV proxy.           *)
(*                                                                         *)
(* HTTP requests are handled concurrently.  a.mu is held only for single   *)
(* looks at and changes of the state, so a handler is a sequence of steps; *)
(* beside the handlers run, for each child, the goroutine that waits for   *)
(* it, those that read its output, and a mount supervisor.                 *)
(*                                                                         *)
(* A room code is drawn from the clock alone, so it may be the code of a   *)
(* slot that is there already, which the new one then overwrites.  What a  *)
(* child prints, and so its status, is arbitrary at any time.  The         *)
(* settings, the log and the file browser are left out.                    *)
(***************************************************************************)
CONSTANTS Request,   \* requests handled at a time
          Owner,     \* bound: the dav-owners there can ever be
          Client,    \* bound: the dav-clients there can ever be
          Room,      \* the codes that randomRoom can draw
          None

Child == Owner \cup Client

ASSUME ChildAssumption == Owner \cap Client = {} /\ None \notin Child

VARIABLES
  connect,   \* a.connect
  sharing,   \* a.shareDir is not empty
  slots,     \* a.slots: the subprocess in each room, or None
  pc,        \* what request r is about to do
  sp,        \* the subprocess it starts, or is stopping
  todo,      \* the subprocesses it still has to stop
  proc,      \* the process of a child: "none", "running", "exited" or "reaped"
  cmd,       \* whether sp.cmd is set
  signalled, \* "none", "term" or "kill": what it was sent
  sup,       \* where its mount supervisor is
  mounted,   \* whether the operating system has its proxy mounted
  recorded   \* whether sp.mountPath is set

app == <<connect, sharing, slots>>
handlers == <<pc, sp, todo>>
children == <<proc, cmd, signalled>>
mounts == <<sup, mounted, recorded>>
vars == <<app, handlers, children, mounts>>

Init ==
  /\ connect = None /\ sharing = FALSE
  /\ slots = [room \in Room |-> None]
  /\ pc = [r \in Request |-> "idle"] /\ sp = [r \in Request |-> None]
  /\ todo = [r \in Request |-> {}]
  /\ proc = [c \in Child |-> "none"]
  /\ cmd = [c \in Child |-> FALSE]
  /\ signalled = [c \in Child |-> "none"]
  /\ sup = [c \in Client |-> "none"]
  /\ mounted = [c \in Client |-> FALSE] /\ recorded = [c \in Client |-> FALSE]

Go(r, next) == pc' = [pc EXCEPT ![r] = next]

Slotted(c) == \E room \in Room : slots[room] = c

-----------------------------------------------------------------------------
(* Starting.                                                               *)

StartShare ==
  /\ ~sharing
  /\ sharing' = TRUE
  /\ UNCHANGED <<connect, slots, handlers, children, mounts>>

\* addViewer and startConnect look at the state, launch, and only then record what
\* they have launched.
AddViewer(r) ==
  /\ pc[r] = "idle" /\ sharing
  /\ Go(r, "launchOwner")
  /\ UNCHANGED <<app, sp, todo, children, mounts>>

\* To refuse, startConnect looks at a.connect again, without the lock: if that is nil
\* by now, the handler panics and net/http recovers it.  Either way nothing changes.
StartConnect(r) ==
  /\ pc[r] = "idle" /\ connect = None
  /\ Go(r, "launchClient")
  /\ UNCHANGED <<app, sp, todo, children, mounts>>

\* launch, which can fail.
Launch(r) ==
  /\ pc[r] \in {"launchOwner", "launchClient"}
  /\ \/ /\ Go(r, "idle")
        /\ UNCHANGED <<sp, children>>
     \/ \E c \in IF pc[r] = "launchOwner" THEN Owner ELSE Client :
          /\ proc[c] = "none"
          /\ proc' = [proc EXCEPT ![c] = "running"]
          /\ cmd' = [cmd EXCEPT ![c] = TRUE]
          /\ sp' = [sp EXCEPT ![r] = c]
          /\ Go(r, IF pc[r] = "launchOwner" THEN "addSlot" ELSE "setConnect")
          /\ UNCHANGED signalled
  /\ UNCHANGED <<app, todo, mounts>>

\* Faulty variant: the slot is added only if the folder is still shared.
AddSlotIfSharing(r) ==
  /\ pc[r] = "addSlot"
  /\ \E room \in Room : slots' = IF sharing THEN [slots EXCEPT ![room] = sp[r]] ELSE slots
  /\ sp' = [sp EXCEPT ![r] = None]
  /\ Go(r, "idle")
  /\ UNCHANGED <<connect, sharing, todo, children, mounts>>

\* Nothing that this module describes depends on the room before this step.
AddSlot(r) ==
  /\ pc[r] = "addSlot"
  /\ \E room \in Room : slots' = [slots EXCEPT ![room] = sp[r]]
  /\ sp' = [sp EXCEPT ![r] = None]
  /\ Go(r, "idle")
  /\ UNCHANGED <<connect, sharing, todo, children, mounts>>

SetConnect(r) ==
  /\ pc[r] = "setConnect"
  /\ connect' = sp[r]
  /\ sup' = [sup EXCEPT ![sp[r]] = "loop"]
  /\ sp' = [sp EXCEPT ![r] = None]
  /\ Go(r, "idle")
  /\ UNCHANGED <<sharing, slots, todo, children, mounted, recorded>>

-----------------------------------------------------------------------------
(* Stopping.                                                               *)

\* A request that has nothing left to stop is over.
StopNext(r) == Go(r, IF todo'[r] = {} THEN "idle" ELSE "stop")

\* Faulty variant: the slot stays in the map until its subprocess has stopped.
RemoveViewerLate(r) ==
  /\ pc[r] = "idle"
  /\ \E room \in Room : /\ slots[room] # None
                       /\ todo' = [todo EXCEPT ![r] = {slots[room]}]
  /\ Go(r, "stop")
  /\ UNCHANGED <<app, sp, children, mounts>>

RemoveViewer(r) ==
  /\ pc[r] = "idle"
  /\ \E room \in Room : /\ slots[room] # None
                       /\ todo' = [todo EXCEPT ![r] = {slots[room]}]
                       /\ slots' = [slots EXCEPT ![room] = None]
  /\ Go(r, "stop")
  /\ UNCHANGED <<connect, sharing, sp, children, mounts>>

StopShare(r) ==
  /\ pc[r] = "idle"
  /\ todo' = [todo EXCEPT ![r] = {c \in Owner : Slotted(c)}]
  /\ slots' = [room \in Room |-> None] /\ sharing' = FALSE
  /\ StopNext(r)
  /\ UNCHANGED <<connect, sp, children, mounts>>

StopConnect(r) ==
  /\ pc[r] = "idle" /\ connect # None
  /\ todo' = [todo EXCEPT ![r] = {connect}]
  /\ connect' = None
  /\ Go(r, "readMountPath")
  /\ UNCHANGED <<sharing, slots, sp, children, mounts>>

ReadMountPath(r) ==
  /\ pc[r] = "readMountPath"
  /\ Go(r, IF \E c \in todo[r] : recorded[c] THEN "unmount" ELSE "stop")
  /\ UNCHANGED <<app, sp, todo, children, mounts>>

\* A command, run with no timeout, which may fail or never return: the child that
\* serves the mount is stopped only after it.
Unmount(r) ==
  /\ pc[r] = "unmount"
  /\ \E c \in todo[r] : mounted' \in {mounted, [mounted EXCEPT ![c] = FALSE]}
  /\ Go(r, "stop")
  /\ UNCHANGED <<app, sp, todo, children, sup, recorded>>

\* stop, for each of todo: with its command taken, a child gets a signal and then a
\* while to exit in.
TakeCmd(r) ==
  /\ pc[r] = "stop"
  /\ \E c \in todo[r] :
       /\ cmd' = [cmd EXCEPT ![c] = FALSE]
       /\ IF cmd[c] THEN /\ signalled' = [signalled EXCEPT ![c] = "term"]
                         /\ sp' = [sp EXCEPT ![r] = c]
                         /\ Go(r, "wait")
                         /\ UNCHANGED todo
                    ELSE /\ todo' = [todo EXCEPT ![r] = @ \ {c}]
                         /\ StopNext(r)
                         /\ UNCHANGED <<signalled, sp>>
  /\ UNCHANGED <<app, proc, mounts>>

\* Faulty variant: it is not killed when it does not exit.
AwaitExitOnly(r) ==
  /\ pc[r] = "wait"
  /\ todo' = [todo EXCEPT ![r] = @ \ {sp[r]}]
  /\ sp' = [sp EXCEPT ![r] = None]
  /\ StopNext(r)
  /\ UNCHANGED <<app, children, mounts>>

AwaitExit(r) ==
  /\ pc[r] = "wait"
  /\ signalled' = IF proc[sp[r]] # "running" THEN signalled
                  ELSE [signalled EXCEPT ![sp[r]] = "kill"]
  /\ todo' = [todo EXCEPT ![r] = @ \ {sp[r]}]
  /\ sp' = [sp EXCEPT ![r] = None]
  /\ StopNext(r)
  /\ UNCHANGED <<app, proc, cmd, mounts>>

-----------------------------------------------------------------------------
(* A child: it prints, crashes, exits when told to or not, and is reaped.  *)

Exit(c) ==
  /\ proc[c] = "running"
  /\ proc' = [proc EXCEPT ![c] = "exited"]
  /\ UNCHANGED <<app, handlers, cmd, signalled, mounts>>

\* The goroutine that launch leaves behind.
Reap(c) ==
  /\ proc[c] = "exited"
  /\ proc' = [proc EXCEPT ![c] = "reaped"]
  /\ cmd' = [cmd EXCEPT ![c] = FALSE]
  /\ UNCHANGED <<app, handlers, signalled, mounts>>

-----------------------------------------------------------------------------
(* The mount supervisor.                                                   *)

Sup(c, next) == sup' = [sup EXCEPT ![c] = next]

\* Faulty variant: it does not look whether its session is still the one.
SupLoopBlind(c) ==
  /\ sup[c] = "loop"
  /\ Sup(c, "wait")
  /\ UNCHANGED <<app, handlers, children, mounted, recorded>>

SupLoop(c) ==
  /\ sup[c] = "loop"
  /\ Sup(c, IF connect = c THEN "wait" ELSE "done")
  /\ UNCHANGED <<app, handlers, children, mounted, recorded>>

\* After five minutes.
SupGivesUp(c) ==
  /\ sup[c] = "loop"
  /\ Sup(c, "done")
  /\ UNCHANGED <<app, handlers, children, mounted, recorded>>

\* The client says that it is connected, or a minute is over.
SupWait(c) ==
  /\ sup[c] = "wait"
  /\ \/ Sup(c, IF recorded[c] THEN "done" ELSE "mount")
     \/ Sup(c, "loop")
  /\ UNCHANGED <<app, handlers, children, mounted, recorded>>

\* mount runs a command with no timeout, which can succeed only while the child serves
\* its proxy, and may not return before that child has ended.
SupMount(c) ==
  /\ sup[c] = "mount"
  /\ \/ /\ proc[c] = "running"
        /\ mounted' = [mounted EXCEPT ![c] = TRUE] /\ Sup(c, "record")
     \/ Sup(c, "settle") /\ UNCHANGED mounted
  /\ UNCHANGED <<app, handlers, children, recorded>>

\* On Windows the drive may not be found in what net use prints.
SupRecord(c) ==
  /\ sup[c] = "record"
  /\ \E found \in BOOLEAN : recorded' = [recorded EXCEPT ![c] = found]
  /\ Sup(c, "done")
  /\ UNCHANGED <<app, handlers, children, mounted>>

\* No longer connected, or half a minute is over.
SupSettle(c) ==
  /\ sup[c] = "settle"
  /\ Sup(c, "loop")
  /\ UNCHANGED <<app, handlers, children, mounted, recorded>>

-----------------------------------------------------------------------------
Handle(r) == \/ Launch(r) \/ AddSlot(r) \/ SetConnect(r)
             \/ ReadMountPath(r) \/ TakeCmd(r) \/ AwaitExit(r)
Supervise(c) == SupLoop(c) \/ SupWait(c) \/ SupMount(c) \/ SupRecord(c) \/ SupSettle(c)

Next ==
  \/ StartShare
  \/ \E r \in Request : \/ AddViewer(r) \/ StartConnect(r)
                        \/ RemoveViewer(r) \/ StopShare(r) \/ StopConnect(r)
                        \/ Unmount(r) \/ Handle(r)
  \/ \E c \in Child : Exit(c) \/ Reap(c)
  \/ \E c \in Client : Supervise(c) \/ SupGivesUp(c)

Spec == Init /\ [][Next]_vars

\* Handlers and supervisors are goroutines, stop and waitForStatus give up after a
\* while, a killed process ends, and a mount command ends once the proxy it talks to has
\* gone.  Nothing is assumed of requests, of SIGTERM, of an unmount command, of a mount
\* command whose proxy is there, nor of the five minutes after which a supervisor
\* that is not in such a command ends.
Fairness ==
  /\ \A r \in Request : WF_vars(Handle(r))
  /\ \A c \in Client : WF_vars((sup[c] = "mount" => proc[c] # "running") /\ Supervise(c))
  /\ \A c \in Child : WF_vars(signalled[c] = "kill" /\ Exit(c))

FairSpec == Spec /\ Fairness

-----------------------------------------------------------------------------
(* Properties.                                                             *)

TypeOK ==
  /\ connect \in {None} \cup Client /\ sharing \in BOOLEAN
  /\ slots \in [Room -> {None} \cup Owner]
  /\ pc \in [Request -> {"idle", "launchOwner", "launchClient", "addSlot", "setConnect",
                         "readMountPath", "unmount", "stop", "wait"}]
  /\ sp \in [Request -> {None} \cup Child] /\ todo \in [Request -> SUBSET Child]
  /\ proc \in [Child -> {"none", "running", "exited", "reaped"}]
  /\ cmd \in [Child -> BOOLEAN]
  /\ signalled \in [Child -> {"none", "term", "kill"}]
  /\ sup \in [Client -> {"none", "loop", "wait", "mount", "record", "settle", "done"}]
  /\ mounted \in [Client -> BOOLEAN] /\ recorded \in [Client -> BOOLEAN]

Live(c) == proc[c] = "running" /\ signalled[c] = "none"
InHand(c) == \E r \in Request : c = sp[r] \/ c \in todo[r]
Ended(c) == proc[c] \in {"exited", "reaped"}

\* A dav-owner that nobody has told to stop can be told to: it is in a.slots or in
\* the hands of a request, whatever adds, removals and stops of the share cross it.
\* It is lost, and goes on running, in one case: its room code is drawn again, and
\* `a.slots[room] = sp` (line 381) puts another one into its slot.
Tracked(c) == Slotted(c) \/ InHand(c)
OwnersTracked ==
  [][\A c \in Owner : Live(c)' /\ (Live(c) => Tracked(c)) =>
       Tracked(c)' \/ \E room \in Room : slots[room] = c /\ slots'[room] \in Owner \ {c}]_vars

\* removeViewer, stopShare and stopConnect take a subprocess out of the state before
\* they stop it, so that two requests never stop the same one (its command is waited
\* for once, its mount undone once) and none is stopped that can still be found.
StoppedByOne ==
  \A r \in Request : \A c \in todo[r] :
    /\ ~Slotted(c) /\ c # connect
    /\ \A q \in Request \ {r} : c \notin todo[q]

\* stop leaves no subprocess half stopped: what a request is done with has ended or
\* was killed, also when another goroutine had taken its command or reaped it.
StopFinishes ==
  [][\A r \in Request : \A c \in todo[r] \ todo'[r] :
       Ended(c)' \/ signalled'[c] = "kill"]_vars

\* "stop sends SIGTERM, waits a few seconds, then kills" (line 222): whatever a
\* request has called stop for ends, if it handles SIGTERM or not.  stopConnect calls
\* it only when its unmount command has returned: with one that hangs the child is never
\* signalled, although "stopConnect kills the viewer subprocess" (line 509).
Stopping(c) == \E r \in Request : c \in todo[r] /\ pc[r] \in {"stop", "wait"}
StopKills == \A c \in Child : Stopping(c) ~> Ended(c)

\* A mount supervisor does not outlive its session: when the session is not a.connect
\* any more, stopped or overwritten by another startConnect, and its child has ended
\* (which StopKills is about), it ends too, without the five minutes having to pass.
SupervisorEnds ==
  \A c \in Client : (sup[c] # "none" /\ connect # c /\ Ended(c)) ~> sup[c] = "done"

\* "Connect side stays 1:1 — at most one viewer subprocess at a time" (line 7), not
\* counting those that have been told to stop.
OneViewer == \A c, d \in Client : Live(c) /\ Live(d) => c = d

=============================================================================
