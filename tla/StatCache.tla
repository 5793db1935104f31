------------------------------ MODULE StatCache ------------------------------
(***************************************************************************)
(* The TTL cache that internal/ownerfs/statcache.go puts in front of the   *)
(* shared folder: Stat and full directory listings are answered from the   *)
(* cache for statCacheTTL, changes made through it forget what they touch, *)
(* and changes the owner makes locally are not noticed.                    *)
(*                                                                         *)
(* WebDAV requests run concurrently.  A call is the steps another one can  *)
(* come between: reading the clock, each critical section of c.mu, each    *)
(* call of the file system underneath.                                     *)
(*                                                                         *)
(* An entry is kept under the path as the request spelled it, a sequence   *)
(* of segments: normalize reduces slashes and dots, and nothing else.  The *)
(* wrapper that maps the Unicode forms of a name to the one on disk,       *)
(* NormalizeNFC, lies underneath (dav-owner wraps it in FilterJunk and     *)
(* that in Cached), so a file has as many entries as its name has          *)
(* spellings, and a listing holds the names on disk.                       *)
(*                                                                         *)
(* Of a FileInfo ("no such file" is one, too) nothing matters but when it  *)
(* stopped being true, so that is what a copy of it is: a change of the    *)
(* tree ends the copies of the files it hits.  Which of a directory's      *)
(* children are there is left open.  A missing cache entry is one that     *)
(* expired at time 0.  Left out: names on disk in another form than NFC,   *)
(* and symbolic links, whose row of a listing (lstat) is not what Stat     *)
(* answers.                                                                *)
(***************************************************************************)
EXTENDS Integers, Sequences

CONSTANTS Path,      \* the spelled paths of the shared tree
          Nfc,       \* nfc, by segment: the form of each on disk
          Reader,    \* Stat and Readdir calls at a time
          Writer,    \* changing calls at a time
          Asked,     \* bound: the paths that Stat and Readdir are called for
          TTL,       \* statCacheTTL
          MaxTime    \* bound on the clock

Root == << >>
Dir(p) == IF p = Root THEN Root ELSE SubSeq(p, 1, Len(p) - 1)

\* The file that a path names, however it is spelled.
File(p) == [i \in 1..Len(p) |-> Nfc[p[i]]]
Disk == {File(p) : p \in Path}
Below(f) == {q \in Disk : Len(q) >= Len(f) /\ SubSeq(q, 1, Len(f)) = f}

\* What can be in a listing of p, and the key of such a child's Stat entry.
Listed(p) == {q \in Disk : q # Root /\ Dir(q) = File(p)}
Entry(p, q) == Append(p, q[Len(q)])

ASSUME PathAssumption == /\ Root \in Path /\ Asked \subseteq Path
                         /\ \A p \in Path : Dir(p) \in Path /\ File(p) \in Path
                         /\ \A p \in Path : File(File(p)) = File(p)
                         /\ \A p \in Path : \A q \in Listed(p) : Entry(p, q) \in Path
ASSUME TimeAssumption == TTL \in Nat \ {0} /\ MaxTime \in Nat

\* until: when the copy stopped being true; owed: a changing call made it stale
\* where it lay in the cache, and has promised to get rid of it.
Always == MaxTime + 1
Copy == [until : 0..Always, owed : BOOLEAN]
Fresh == [until |-> Always, owed |-> FALSE]

Missing == [copy |-> Fresh, expires |-> 0]
NoListing(p) == [row |-> [q \in Listed(p) |-> Fresh], expires |-> 0]

VARIABLES
  clock,
  stats,      \* c.stats
  listings,   \* c.readdir
  op,         \* op[c]: what reader c is about to do
  arg, now,   \* its path, and the clock when it began
  got,        \* the copies it has read and not yet stored
  plan        \* plan[w]: the steps writer w has yet to take

cache == <<stats, listings>>
readers == <<op, arg, now, got>>
vars == <<clock, cache, readers, plan>>

Init ==
  /\ clock = 0
  /\ stats = [p \in Path |-> Missing]
  /\ listings = [p \in Path |-> NoListing(p)]
  /\ op = [c \in Reader |-> "idle"] /\ arg = [c \in Reader |-> Root]
  /\ now = [c \in Reader |-> 0] /\ got = [c \in Reader |-> << >>]
  /\ plan = [w \in Writer |-> << >>]

-----------------------------------------------------------------------------
(* Reading: Stat, and Readdir of a whole directory.                        *)

\* A path without children (a file, whose Readdir fails, or an empty directory)
\* has no listing to speak of.
Read(c, o, p) ==
  /\ op[c] = "idle" /\ (o = "readdir" => Listed(p) # {})
  /\ op' = [op EXCEPT ![c] = o]
  /\ arg' = [arg EXCEPT ![c] = p]
  /\ now' = [now EXCEPT ![c] = clock]
  /\ UNCHANGED <<clock, cache, got, plan>>

StatHits(c)    == op[c] = "stat" /\ now[c] < stats[arg[c]].expires
ReaddirHits(c) == op[c] = "readdir" /\ now[c] < listings[arg[c]].expires

\* What a call that can return now answers: a copy for each path asked of.
Answer(c) ==
  CASE StatHits(c)    -> [q \in {arg[c]} |-> stats[q].copy]
    [] ReaddirHits(c) -> listings[arg[c]].row
    [] OTHER          -> got[c]

Return(c) ==
  /\ op' = [op EXCEPT ![c] = "idle"]
  /\ arg' = [arg EXCEPT ![c] = Root]
  /\ now' = [now EXCEPT ![c] = 0]
  /\ got' = [got EXCEPT ![c] = << >>]
  /\ UNCHANGED <<clock, plan>>

\* The clock was read before the lock was taken.
Hit(c) ==
  /\ StatHits(c) \/ ReaddirHits(c)
  /\ Return(c)
  /\ UNCHANGED cache

Miss(c) ==
  /\ op[c] \in {"stat", "readdir"} /\ ~StatHits(c) /\ ~ReaddirHits(c)
  /\ op' = [op EXCEPT ![c] = IF @ = "stat" THEN "statFetch" ELSE "readdirFetch"]
  /\ UNCHANGED <<clock, cache, arg, now, got, plan>>

\* The call of the file system underneath.  An error of Stat is an answer like
\* any other.
Fetch(c) ==
  /\ \/ /\ op[c] = "statFetch"
        /\ op' = [op EXCEPT ![c] = "statStore"]
        /\ got' = [got EXCEPT ![c] = [q \in {arg[c]} |-> Fresh]]
     \/ /\ op[c] = "readdirFetch"
        /\ op' = [op EXCEPT ![c] = "readdirStore"]
        /\ got' = [got EXCEPT ![c] = [q \in Listed(arg[c]) |-> Fresh]]
  /\ UNCHANGED <<clock, cache, arg, now, plan>>

\* An error of Readdir is not cached.
ReaddirFails(c) ==
  /\ op[c] = "readdirFetch"
  /\ Return(c)
  /\ UNCHANGED cache

\* Faulty variant: the lifetime is counted from when the answer is stored.
StatStoreFromNow(c) ==
  /\ op[c] = "statStore"
  /\ stats' = [stats EXCEPT ![arg[c]] = [copy |-> got[c][arg[c]], expires |-> clock + TTL]]
  /\ Return(c)
  /\ UNCHANGED listings

StatStore(c) ==
  /\ op[c] = "statStore"
  /\ stats' = [stats EXCEPT ![arg[c]] = [copy |-> got[c][arg[c]], expires |-> now[c] + TTL]]
  /\ Return(c)
  /\ UNCHANGED listings

\* A listing also seeds the stat entries of the children that are there, under
\* the listing's own spelling and their names on disk.
ReaddirStore(c) ==
  /\ op[c] = "readdirStore"
  /\ listings' = [listings EXCEPT ![arg[c]] = [row |-> got[c], expires |-> now[c] + TTL]]
  /\ \E present \in SUBSET Listed(arg[c]) :
       stats' = [p \in Path |-> IF File(p) \in present /\ p = Entry(arg[c], File(p))
                                THEN [copy |-> got[c][File(p)], expires |-> now[c] + TTL]
                                ELSE stats[p]]
  /\ Return(c)

-----------------------------------------------------------------------------
(* Changing the tree.                                                      *)

Ended(copy, owed) ==
  [until |-> IF copy.until = Always THEN clock ELSE copy.until, owed |-> copy.owed \/ owed]

\* The files in hit change, because of a call for the paths named (none, if it is
\* a local edit): every copy of them ends, in the cache, under whichever spelling,
\* and on its way there.  What the call owes is what a PROPFIND of a named path or
\* of its directory, spelled the same way, would be answered from: the Stat
\* entries of both, and the row of the path in the directory's listing.
Change(hit, named) ==
  LET entries == named \cup {Dir(p) : p \in named} IN
  /\ stats' = [p \in Path |->
       IF File(p) \in hit
       THEN [stats[p] EXCEPT !.copy = Ended(@, stats[p].expires > 0 /\ p \in entries)]
       ELSE stats[p]]
  /\ listings' = [p \in Path |-> [listings[p] EXCEPT !.row = [q \in Listed(p) |->
       IF q \in hit
       THEN Ended(@[q], listings[p].expires > 0 /\ \E x \in named : p = Dir(x) /\ q = File(x))
       ELSE @[q]]]]
  /\ got' = [c \in Reader |-> [q \in DOMAIN got[c] |->
       IF File(q) \in hit THEN Ended(got[c][q], FALSE) ELSE got[c][q]]]

\* The owner creates, edits or removes a file behind the cache's back.
LocalEdit(f) ==
  /\ \E hit \in {{f}, {f, Dir(f)}, Below(f) \cup {Dir(f)}} : Change(hit, {})
  /\ UNCHANGED <<clock, op, arg, now, plan>>

\* The calls that change the tree, as the steps they take one after the other:
\* calls of the file system underneath, with the paths they name and the files
\* they can hit, and calls of invalidate, with the path it is given.
Inner(named, hit) == [do |-> "inner", named |-> named, hit |-> hit]
OpenInner(p)  == [do |-> "open", named |-> {p}, hit |-> {File(p), Dir(File(p))}]
Invalidate(p) == [do |-> "invalidate", path |-> p]

MkdirPlan(p)     == <<Inner({p}, {File(p), Dir(File(p))}), Invalidate(p)>>
RemoveAllPlan(p) == <<Inner({p}, Below(File(p)) \cup {Dir(File(p))}), Invalidate(p)>>
RenamePlan(p, q) == <<Inner({p, q}, Below(File(p)) \cup Below(File(q))
                                    \cup {Dir(File(p)), Dir(File(q))}),
                      Invalidate(p), Invalidate(q)>>

\* Faulty variant: closing a written file does not invalidate.
PutPlanNoClose(p) == <<Invalidate(p), OpenInner(p), Inner({p}, {File(p)})>>

\* OpenFile for writing invalidates p before it opens it; Close does it after
\* the last write.
PutPlan(p) == <<Invalidate(p), OpenInner(p), Inner({p}, {File(p)}), Invalidate(p)>>

\* Nothing is renamed to a path below itself; to another spelling of itself it is.
Targets(p) == {q \in Path \ {Root, p} : File(q) = File(p) \/ File(q) \notin Below(File(p))}
Plans(p) == {MkdirPlan(p), RemoveAllPlan(p), PutPlan(p)} \cup {RenamePlan(p, q) : q \in Targets(p)}

ChangingCall(w, steps) ==
  /\ plan[w] = << >>
  /\ plan' = [plan EXCEPT ![w] = steps]
  /\ UNCHANGED <<clock, cache, readers>>

\* The file system underneath does what it is asked, or a part of it, or nothing
\* and returns an error: the call goes on all the same, except that a file which
\* does not open is not closed either.
Perform(w) ==
  /\ plan[w] # << >> /\ Head(plan[w]).do # "invalidate"
  /\ \E hit \in SUBSET Head(plan[w]).hit :
       /\ Change(hit, Head(plan[w]).named)
       /\ plan' = [plan EXCEPT ![w] = IF Head(@).do = "open" /\ hit = {} THEN << >> ELSE Tail(@)]
  /\ UNCHANGED <<clock, op, arg, now>>

\* Faulty variant: the parent's listing is not forgotten.
ForgetPathOnly(p) ==
  /\ stats' = [stats EXCEPT ![p] = Missing, ![Dir(p)] = Missing]
  /\ UNCHANGED listings

\* invalidate: the entries of p and of its parent, and the parent's listing.
Forget(p) ==
  /\ stats' = [stats EXCEPT ![p] = Missing, ![Dir(p)] = Missing]
  /\ listings' = [listings EXCEPT ![Dir(p)] = NoListing(Dir(p))]

InvalidateStep(w) ==
  /\ plan[w] # << >> /\ Head(plan[w]).do = "invalidate"
  /\ Forget(Head(plan[w]).path)
  /\ plan' = [plan EXCEPT ![w] = Tail(@)]
  /\ UNCHANGED <<clock, readers>>

\* Time passes.  An entry that no call can hit any more is the same as none: the
\* map keeps it until it is overwritten, the model drops it here.
Hittable(entry) == entry.expires > clock + 1
                   \/ \E c \in Reader : op[c] \in {"stat", "readdir"} /\ now[c] < entry.expires
Tick ==
  /\ clock < MaxTime
  /\ clock' = clock + 1
  /\ stats' = [p \in Path |-> IF Hittable(stats[p]) THEN stats[p] ELSE Missing]
  /\ listings' = [p \in Path |-> IF Hittable(listings[p]) THEN listings[p] ELSE NoListing(p)]
  /\ UNCHANGED <<readers, plan>>

-----------------------------------------------------------------------------
Next ==
  \/ Tick
  \/ \E f \in Disk \ {Root} : LocalEdit(f)
  \/ \E c \in Reader :
       \/ \E o \in {"stat", "readdir"}, p \in Asked : Read(c, o, p)
       \/ Hit(c) \/ Miss(c) \/ Fetch(c) \/ ReaddirFails(c)
       \/ StatStore(c) \/ ReaddirStore(c)
  \/ \E w \in Writer :
       \/ \E p \in Path \ {Root} : \E steps \in Plans(p) : ChangingCall(w, steps)
       \/ Perform(w) \/ InvalidateStep(w)

Spec == Init /\ [][Next]_vars

-----------------------------------------------------------------------------
(* Properties.                                                             *)

Lifetime == 0..(clock + TTL)

\* What a reader in its last step has in hand.
Wanted(c) == CASE op[c] = "statStore"    -> {arg[c]}
               [] op[c] = "readdirStore" -> Listed(arg[c])
               [] OTHER                  -> {}

TypeOK ==
  /\ clock \in 0..MaxTime
  /\ stats \in [Path -> [copy : Copy, expires : Lifetime]]
  /\ DOMAIN listings = Path
  /\ \A p \in Path : listings[p] \in [row : [Listed(p) -> Copy], expires : Lifetime]
  /\ op \in [Reader -> {"idle", "stat", "statFetch", "statStore",
                        "readdir", "readdirFetch", "readdirStore"}]
  /\ arg \in [Reader -> Path] /\ now \in [Reader -> 0..clock]
  /\ DOMAIN got = Reader /\ \A c \in Reader : got[c] \in [Wanted(c) -> Copy]

\* Local edits show up to viewers within the TTL (statcache.go's opening
\* comment): whatever a Stat or a listing answers was true less than TTL before
\* the call began, however calls, changes and the clock interleave, and under
\* whichever spelling it is asked for.
BoundedStaleness ==
  \A c \in Reader : \A p \in DOMAIN Answer(c) : Answer(c)[p].until > now[c] - TTL

\* invalidate's promise: once a changing call is over, "the new size / mtime /
\* existence is visible on next PROPFIND of the directory".  When no such call is
\* under way, nothing that a PROPFIND of a changed path or of its directory reads,
\* spelled as the call spelled it, is an entry that lay in the cache when the call
\* made it stale, however calls mix and whatever part of them fails.
\*
\* That is less than "writes invalidate the affected entries", which the code does
\* not do.  A change also makes stale, and leaves in the cache: the row of the
\* directory in ITS parent's listing; the entries of what was below a removed or
\* renamed directory, and its own listing; and whatever is kept for these files
\* under another spelling.  And a Stat or Readdir that was under way can store
\* afterwards what it read before.  For all of these the TTL (BoundedStaleness) is
\* the only limit.
PropfindSeesChange ==
  (\A w \in Writer : plan[w] = << >>) =>
    \A p \in Path : /\ ~stats[p].copy.owed
                    /\ \A q \in Listed(p) : ~listings[p].row[q].owed

=============================================================================
