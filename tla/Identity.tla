------------------------------ MODULE Identity ------------------------------
(***************************************************************************)
(* The files that the processes of one user share: the node's key and the  *)
(* keyring of pinned peers (internal/identity), and the start of dav-owner *)
(* and dav-client, which load both and check the peer once (verifyPeer).   *)
(* The UI starts one such process per share and gives them no directory of *)
(* their own, so all of them use ~/.claudy.                                *)
(*                                                                         *)
(* Each file operation is a step of its own: os.WriteFile creates or       *)
(* truncates, then writes; a process may die between any two steps and in  *)
(* the middle of a write (which also stands for a write that fails).  A    *)
(* process is started once; a restart is another member of Proc.  Files    *)
(* are inodes, so that a rename takes along whoever has the file open.     *)
(*                                                                         *)
(* Two processes that write one temporary file at a time can damage the    *)
(* keyring, whatever its comment says: clashed marks these behaviours, as  *)
(* raced marks two first starts at a time, and the properties say what     *)
(* holds without them.                                                     *)
(* Left out: Forget and List, which nobody calls; the time stamps.         *)
(***************************************************************************)
EXTENDS Naturals, FiniteSets

CONSTANTS Proc,   \* processes, also the names of what they create: keys, files
          Alias,  \* values of -peer-alias
          Key,    \* keys that peers announce
          Null

ASSUME NullAssumption == Null \notin Proc \cup Key \cup {"torn"}
ASSUME TornAssumption == "torn" \notin Proc

VARIABLES
  pc,        \* pc[p]: what main does next
  seedFile,  \* identity.key: absent (Null), short ("torn"), or whose seed it holds
  myKey,     \* myKey[p]: LoadOrCreate's result
  content,   \* content[i]: what the keyring file that i created holds
  tmpName,   \* the file named known_peers.json.tmp
  ringName,  \* the file named known_peers.json
  fd,        \* fd[p]: the file p writes to
  peers,     \* peers[p]: Keyring.peers of p
  peer,      \* peer[p]: the alias and key that p checked
  raced, clashed,        \* history, see above
  saves, opened, saved   \* history: number of renames; at p's OpenKeyring; after p's own

vars == <<pc, seedFile, myKey, content, tmpName, ringName, fd, peers, peer,
          raced, clashed, saves, opened, saved>>
seedVars == <<seedFile, myKey, raced>>
ringVars == <<content, tmpName, ringName, fd, peers, peer, clashed, saves, opened, saved>>

Pins == [Alias -> Key \cup {Null}]
NoPins == [a \in Alias |-> Null]
Whole(pins) == [state |-> "whole", pins |-> pins]
Empty == [state |-> "empty", pins |-> NoPins]
Torn == [state |-> "torn", pins |-> NoPins]

Saving == {"write tmp", "rename"}

Init ==
  /\ pc = [p \in Proc |-> "new"]
  /\ seedFile = Null /\ myKey = [p \in Proc |-> Null]
  /\ content = [p \in Proc |-> Empty]
  /\ tmpName = Null /\ ringName = Null
  /\ fd = [p \in Proc |-> Null]
  /\ peers = [p \in Proc |-> NoPins]
  /\ peer = [p \in Proc |-> Null]
  /\ raced = FALSE /\ clashed = FALSE
  /\ saves = 0 /\ opened = [p \in Proc |-> 0] /\ saved = [p \in Proc |-> 0]

Goto(p, where) == pc' = [pc EXCEPT ![p] = where]

-----------------------------------------------------------------------------
(* LoadOrCreate.                                                           *)

\* Faulty variant: a fresh key at every start.
ReadSeedGenerates(p) ==
  /\ pc[p] = "new"
  /\ Goto(p, "create seed")
  /\ raced' = (raced \/ \E q \in Proc \ {p} : pc[q] \in {"create seed", "write seed"})
  /\ UNCHANGED <<seedFile, myKey, ringVars>>

\* os.ReadFile: no file, so a seed is generated; or a file of the wrong size, and
\* main exits; or the key.
ReadSeed(p) ==
  /\ pc[p] = "new"
  /\ \/ /\ seedFile = Null
        /\ Goto(p, "create seed")
        /\ raced' = (raced \/ \E q \in Proc \ {p} : pc[q] \in {"create seed", "write seed"})
        /\ UNCHANGED myKey
     \/ seedFile = "torn" /\ Goto(p, "gone") /\ UNCHANGED <<myKey, raced>>
     \/ /\ seedFile \in Proc
        /\ Goto(p, "open keyring")
        /\ myKey' = [myKey EXCEPT ![p] = seedFile]
        /\ UNCHANGED raced
  /\ UNCHANGED <<seedFile, ringVars>>

\* os.WriteFile, first half: O_CREATE and O_TRUNC.
CreateSeed(p) ==
  /\ pc[p] = "create seed"
  /\ seedFile' = "torn"
  /\ Goto(p, "write seed")
  /\ UNCHANGED <<myKey, raced, ringVars>>

\* Second half: 32 bytes at the start of the file.
WriteSeed(p) ==
  /\ pc[p] = "write seed"
  /\ seedFile' = p
  /\ myKey' = [myKey EXCEPT ![p] = p]
  /\ Goto(p, "open keyring")
  /\ UNCHANGED <<raced, ringVars>>

-----------------------------------------------------------------------------
(* The keyring.                                                            *)

\* OpenKeyring: a copy of the file; a file that does not parse ends the process.
OpenKeyring(p) ==
  /\ pc[p] = "open keyring"
  /\ opened' = [opened EXCEPT ![p] = saves]
  /\ \/ ringName = Null /\ Goto(p, "check") /\ UNCHANGED peers
     \/ /\ ringName # Null /\ content[ringName].state = "whole"
        /\ Goto(p, "check")
        /\ peers' = [peers EXCEPT ![p] = content[ringName].pins]
     \/ /\ ringName # Null /\ content[ringName].state # "whole"
        /\ Goto(p, "gone") /\ UNCHANGED peers
  /\ UNCHANGED <<seedVars, content, tmpName, ringName, fd, peer, clashed, saves, saved>>

\* Faulty variant: a key that differs from the pinned one replaces it.
CheckOverwrites(p) ==
  /\ pc[p] = "check"
  /\ \E a \in Alias, k \in Key :
       /\ peers' = [peers EXCEPT ![p][a] = k]
       /\ peer' = [peer EXCEPT ![p] = [alias |-> a, key |-> k]]
  /\ Goto(p, "open tmp")
  /\ UNCHANGED <<seedVars, content, tmpName, ringName, fd, clashed, saves, opened, saved>>

\* Keyring.Check: a new pin, or the pinned key again; both are saved.
Check(p) ==
  /\ pc[p] = "check"
  /\ \E a \in Alias, k \in Key :
       /\ peers[p][a] \in {Null, k}
       /\ peers' = [peers EXCEPT ![p][a] = k]
       /\ peer' = [peer EXCEPT ![p] = [alias |-> a, key |-> k]]
  /\ Goto(p, "open tmp")
  /\ UNCHANGED <<seedVars, content, tmpName, ringName, fd, clashed, saves, opened, saved>>

\* ErrUntrusted: main exits.
Untrusted(p) ==
  /\ pc[p] = "check"
  /\ \E a \in Alias, k \in Key : peers[p][a] \notin {Null, k}
  /\ Goto(p, "gone")
  /\ UNCHANGED <<seedVars, ringVars>>

\* verifyPeer without -peer-alias: any key will do.
NotPinned(p) ==
  /\ pc[p] = "check"
  /\ Goto(p, "running")
  /\ UNCHANGED <<seedVars, ringVars>>

Clash(p) == \E q \in Proc \ {p} : pc[q] \in Saving

\* Faulty variants: the keyring is written in place; what an earlier process left
\* in the temporary file is not truncated.
OpenInPlace(p) ==
  /\ pc[p] = "open tmp"
  /\ LET i == IF ringName = Null THEN p ELSE ringName IN
       /\ ringName' = i /\ tmpName' = i
       /\ fd' = [fd EXCEPT ![p] = i]
       /\ content' = [content EXCEPT ![i] = Empty]
  /\ clashed' = (clashed \/ Clash(p))
  /\ Goto(p, "write tmp")
  /\ UNCHANGED <<seedVars, peers, peer, saves, opened, saved>>
OpenTmpKeeps(p) ==
  /\ pc[p] = "open tmp"
  /\ LET i == IF tmpName = Null THEN p ELSE tmpName IN
       /\ tmpName' = i
       /\ fd' = [fd EXCEPT ![p] = i]
  /\ clashed' = (clashed \/ Clash(p))
  /\ Goto(p, "write tmp")
  /\ UNCHANGED <<seedVars, content, ringName, peers, peer, saves, opened, saved>>

\* saveLocked, os.WriteFile of the temporary name, first half: the file of that
\* name is truncated or a new one created.
OpenTmp(p) ==
  /\ pc[p] = "open tmp"
  /\ LET i == IF tmpName = Null THEN p ELSE tmpName IN
       /\ tmpName' = i
       /\ fd' = [fd EXCEPT ![p] = i]
       /\ content' = [content EXCEPT ![i] = Empty]
  /\ clashed' = (clashed \/ Clash(p))
  /\ Goto(p, "write tmp")
  /\ UNCHANGED <<seedVars, ringName, peers, peer, saves, opened, saved>>

\* Second half: all pins, from the start of the file.  If another process has
\* written to it since, some of its bytes may be left at the end.
WriteTmp(p) ==
  /\ pc[p] = "write tmp"
  /\ \/ content' = [content EXCEPT ![fd[p]] = Whole(peers[p])]
     \/ content[fd[p]].state # "empty" /\ content' = [content EXCEPT ![fd[p]] = Torn]
  /\ Goto(p, "rename")
  /\ UNCHANGED <<seedVars, tmpName, ringName, fd, peers, peer, clashed, saves, opened, saved>>

\* os.Rename: what has the temporary name now, whoever wrote it; if nothing has,
\* verifyPeer fails and main exits.
Rename(p) ==
  /\ pc[p] = "rename"
  /\ \/ /\ tmpName # Null
        /\ ringName' = tmpName /\ tmpName' = Null
        /\ saves' = saves + 1
        /\ saved' = [saved EXCEPT ![p] = saves + 1]
        /\ Goto(p, "running")
     \/ /\ tmpName = Null
        /\ Goto(p, "gone")
        /\ UNCHANGED <<ringName, tmpName, saves, saved>>
  /\ UNCHANGED <<seedVars, content, fd, peers, peer, clashed, opened>>

\* The process ends; a write it was in the middle of is left half done.
Crash(p) ==
  /\ pc[p] \notin {"new", "gone"}
  /\ \/ UNCHANGED content
     \/ pc[p] = "write tmp" /\ content' = [content EXCEPT ![fd[p]] = Torn]
  /\ Goto(p, "gone")
  /\ UNCHANGED <<seedVars, tmpName, ringName, fd, peers, peer, clashed, saves, opened, saved>>

Next ==
  \E p \in Proc :
    \/ ReadSeed(p) \/ CreateSeed(p) \/ WriteSeed(p) \/ OpenKeyring(p)
    \/ Check(p) \/ Untrusted(p) \/ NotPinned(p)
    \/ OpenTmp(p) \/ WriteTmp(p) \/ Rename(p) \/ Crash(p)

Spec == Init /\ [][Next]_vars

-----------------------------------------------------------------------------
(* Properties.                                                             *)

Place == {"new", "create seed", "write seed", "open keyring", "check", "open tmp",
          "running", "gone"} \cup Saving
File == {Empty, Torn} \cup {Whole(pins) : pins \in Pins}

TypeOK ==
  /\ pc \in [Proc -> Place]
  /\ seedFile \in Proc \cup {Null, "torn"}
  /\ myKey \in [Proc -> Proc \cup {Null}]
  /\ content \in [Proc -> File]
  /\ tmpName \in Proc \cup {Null} /\ ringName \in Proc \cup {Null}
  /\ fd \in [Proc -> Proc \cup {Null}]
  /\ peers \in [Proc -> Pins]
  /\ peer \in [Proc -> [alias : Alias, key : Key] \cup {Null}]
  /\ raced \in BOOLEAN /\ clashed \in BOOLEAN
  /\ saves \in Nat /\ opened \in [Proc -> Nat] /\ saved \in [Proc -> Nat]

\* All processes of the node have one key, the one on disk, so that peers can pin
\* it (package comment), unless two of them were started for the first time at once.
OneKey == ~raced => \A p \in Proc : myKey[p] # Null => seedFile = myKey[p]

\* "A crash mid-save cannot corrupt the pin list" (Keyring's comment): wherever
\* processes die, the keyring parses, as long as two do not save at a time.
FileReadable ==
  ~clashed /\ ringName # Null => content[ringName].state = "whole"

\* r opened the keyring before p saved, and saved after it.
Stale(r, p) == opened[r] < saved[p] /\ saved[p] < saved[r]

\* A pin that was reported as saved is in the keyring from then on, unless a
\* process with an older copy saved after it.
PinKept ==
  ~clashed => \A p \in Proc : saved[p] > 0 =>
    \/ content[ringName].pins[peer[p].alias] = peer[p].key
    \/ \E r \in Proc : Stale(r, p)

\* Trust on first use: what one process has pinned is the only key that later
\* ones accept under the alias, unless a process with an older copy saved between.
FirstUseBinds ==
  ~clashed => \A p, q \in Proc :
    (saved[p] > 0 /\ saved[q] > 0 /\ opened[q] >= saved[p] /\ peer[q].alias = peer[p].alias)
      => \/ peer[q].key = peer[p].key
         \/ \E r \in Proc : Stale(r, p) /\ saved[r] <= opened[q]

=============================================================================
