--------------------------- MODULE StatCacheProofs ---------------------------
(***************************************************************************)
(* Proofs about the Stat cache, for every tree, every number of concurrent *)
(* requests and every TTL: types, and the bound on how stale an answer is. *)
(***************************************************************************)
EXTENDS StatCache, TLAPS

LEMMA LongerRange ==
  ASSUME NEW a \in Int, NEW b \in Int, NEW t \in Int, a <= b
  PROVE  0..a \subseteq 0..b /\ 0..(a + t) \subseteq 0..(b + t)
  OBVIOUS

LEMMA PathFacts == /\ Root \in Path /\ Asked \subseteq Path
                   /\ \A p \in Path : Dir(p) \in Path /\ File(p) \in Path
  BY PathAssumption

USE PathFacts, TimeAssumption

\* An entry lives for at most a TTL from a moment when its copy was still true,
\* and what a reader holds was true when it began.
AgeInv ==
  /\ \A p \in Path : stats[p].copy.until >= stats[p].expires - TTL
  /\ \A p \in Path : \A q \in Listed(p) : listings[p].row[q].until >= listings[p].expires - TTL
  /\ \A c \in Reader : \A q \in DOMAIN got[c] : got[c][q].until >= now[c]

CacheInv == TypeOK /\ AgeInv

\* The parts of the type invariant, by the variables they are about.
StatsOK    == stats \in [Path -> [copy : Copy, expires : Lifetime]]
ListingsOK == /\ DOMAIN listings = Path
              /\ \A p \in Path : listings[p] \in [row : [Listed(p) -> Copy], expires : Lifetime]
ReadersOK  == /\ op \in [Reader -> {"idle", "stat", "statFetch", "statStore",
                                    "readdir", "readdirFetch", "readdirStore"}]
              /\ arg \in [Reader -> Path] /\ now \in [Reader -> 0..clock]
              /\ DOMAIN got = Reader /\ \A c \in Reader : got[c] \in [Wanted(c) -> Copy]

LEMMA TypeParts == TypeOK <=> clock \in 0..MaxTime /\ StatsOK /\ ListingsOK /\ ReadersOK
  BY DEF TypeOK, StatsOK, ListingsOK, ReadersOK

LEMMA ConstantsType == /\ Fresh \in Copy /\ Fresh.until = MaxTime + 1
                       /\ Always = MaxTime + 1 /\ MaxTime \in Nat /\ TTL \in Nat /\ TTL > 0
                       /\ Root \in Path
                       /\ \A p \in Path : Listed(p) \subseteq Path
  BY DEF Fresh, Copy, Always, Listed, Disk

LEMMA EmptyFunction == \A S : << >> \in [{} -> S]
  OBVIOUS

LEMMA MissingType ==
  ASSUME clock \in Nat
  PROVE  /\ Missing \in [copy : Copy, expires : Lifetime]
         /\ Missing.copy.until >= Missing.expires - TTL
         /\ \A p \in Path : /\ NoListing(p) \in [row : [Listed(p) -> Copy], expires : Lifetime]
                            /\ \A q \in Listed(p) :
                                 NoListing(p).row[q].until >= NoListing(p).expires - TTL
  BY ConstantsType DEF Missing, NoListing, Lifetime

\* Ending a copy keeps its type, and does not end it before a moment that has
\* not passed it yet.
LEMMA EndedCopy ==
  ASSUME NEW copy \in Copy, NEW owed \in BOOLEAN, clock \in 0..MaxTime
  PROVE  /\ Ended(copy, owed) \in Copy
         /\ \A b \in Int : b <= clock /\ b <= copy.until => b <= Ended(copy, owed).until
  BY ConstantsType DEF Ended, Copy

LEMMA InitCache == Init => CacheInv
  <1> SUFFICES ASSUME Init PROVE CacheInv
    OBVIOUS
  <1> USE ConstantsType, MissingType DEF Init
  <1>1. StatsOK /\ ListingsOK
    BY DEF StatsOK, ListingsOK
  <1>2. ReadersOK
    BY EmptyFunction DEF ReadersOK, Wanted
  <1>3. AgeInv
    BY DEF AgeInv
  <1> QED BY <1>1, <1>2, <1>3, TypeParts DEF CacheInv

\* A change of the tree, whoever makes it.
LEMMA ChangeStep ==
  ASSUME CacheInv, NEW hit, NEW named, Change(hit, named), UNCHANGED <<clock, op, arg, now>>
  PROVE  CacheInv'
  <1> USE ConstantsType DEF CacheInv
  <1>1. clock \in 0..MaxTime /\ StatsOK /\ ListingsOK /\ ReadersOK
    BY TypeParts
  <1>2. ASSUME NEW p \in Path
        PROVE  /\ stats'[p] \in [copy : Copy, expires : Lifetime]
               /\ stats'[p].copy.until >= stats'[p].expires - TTL
    <2>1. stats[p] \in [copy : Copy, expires : Lifetime] /\ stats[p].copy.until >= stats[p].expires - TTL
      BY <1>1 DEF StatsOK, AgeInv
    <2>2. PICK owed \in BOOLEAN :
            stats'[p] = IF File(p) \in hit THEN [stats[p] EXCEPT !.copy = Ended(@, owed)] ELSE stats[p]
      <3> DEFINE o == stats[p].expires > 0 /\ p \in (named \cup {Dir(q) : q \in named})
      <3>1. o \in BOOLEAN
        OBVIOUS
      <3>2. stats'[p] = IF File(p) \in hit THEN [stats[p] EXCEPT !.copy = Ended(@, o)] ELSE stats[p]
        BY DEF Change
      <3> QED BY <3>1, <3>2
    <2>3. /\ stats[p].copy \in Copy /\ stats[p].expires \in Lifetime
          /\ stats[p].expires - TTL \in Int /\ stats[p].expires - TTL <= clock
      BY <1>1, <2>1 DEF Lifetime
    <2>4. /\ Ended(stats[p].copy, owed) \in Copy
          /\ Ended(stats[p].copy, owed).until >= stats[p].expires - TTL
      BY <1>1, <2>1, <2>3, EndedCopy DEF Copy
    <2> QED BY <2>1, <2>2, <2>3, <2>4
  <1>3. ASSUME NEW p \in Path
        PROVE  /\ listings'[p] \in [row : [Listed(p) -> Copy], expires : Lifetime]
               /\ \A q \in Listed(p) : listings'[p].row[q].until >= listings'[p].expires - TTL
    <2>1. /\ listings[p] \in [row : [Listed(p) -> Copy], expires : Lifetime]
          /\ \A q \in Listed(p) : listings[p].row[q].until >= listings[p].expires - TTL
      BY <1>1 DEF ListingsOK, AgeInv
    <2>2. /\ listings[p].expires \in Lifetime
          /\ listings[p].expires - TTL \in Int /\ listings[p].expires - TTL <= clock
      BY <1>1, <2>1 DEF Lifetime
    <2> DEFINE row(q) == IF q \in hit
                         THEN Ended(listings[p].row[q], listings[p].expires > 0
                                      /\ \E x \in named : p = Dir(x) /\ q = File(x))
                         ELSE listings[p].row[q]
    <2>3. listings'[p] = [listings[p] EXCEPT !.row = [q \in Listed(p) |-> row(q)]]
      BY DEF Change
    <2>4. ASSUME NEW q \in Listed(p)
          PROVE  row(q) \in Copy /\ row(q).until >= listings[p].expires - TTL
      <3>1. listings[p].row[q] \in Copy /\ listings[p].row[q].until >= listings[p].expires - TTL
        BY <2>1
      <3>2. (listings[p].expires > 0 /\ \E x \in named : p = Dir(x) /\ q = File(x)) \in BOOLEAN
        OBVIOUS
      <3> QED BY <1>1, <2>2, <3>1, <3>2, EndedCopy DEF Copy
    <2> HIDE DEF row
    <2> QED BY <2>1, <2>2, <2>3, <2>4
  <1>4. ASSUME NEW c \in Reader
        PROVE  /\ got'[c] \in [Wanted(c)' -> Copy]
               /\ \A q \in DOMAIN got'[c] : got'[c][q].until >= now'[c]
    <2>1. /\ got[c] \in [Wanted(c) -> Copy] /\ now[c] \in 0..clock /\ Wanted(c)' = Wanted(c)
          /\ \A q \in Wanted(c) : got[c][q].until >= now[c]
      BY <1>1 DEF ReadersOK, AgeInv, Wanted
    <2> DEFINE copy(q) == IF File(q) \in hit THEN Ended(got[c][q], FALSE) ELSE got[c][q]
    <2>2. got'[c] = [q \in Wanted(c) |-> copy(q)]
      BY <2>1 DEF Change
    <2>3. ASSUME NEW q \in Wanted(c)
          PROVE  copy(q) \in Copy /\ copy(q).until >= now[c]
      <3>1. /\ got[c][q] \in Copy /\ got[c][q].until >= now[c]
            /\ now[c] \in Int /\ now[c] <= clock
        BY <1>1, <2>1
      <3>2. Ended(got[c][q], FALSE) \in Copy /\ Ended(got[c][q], FALSE).until >= now[c]
        BY <1>1, <3>1, EndedCopy DEF Copy
      <3> QED BY <3>1, <3>2
    <2> HIDE DEF copy
    <2> QED BY <2>1, <2>2, <2>3
  <1>5. StatsOK'
    <2>1. stats' = [p \in Path |-> stats'[p]]
      BY DEF Change
    <2>2. Lifetime' = Lifetime
      BY DEF Lifetime
    <2> QED BY <1>2, <2>1, <2>2 DEF StatsOK
  <1>6. ListingsOK' /\ ReadersOK' /\ AgeInv'
    <2>1. Lifetime' = Lifetime
      BY DEF Lifetime
    <2>2. DOMAIN listings' = Path /\ DOMAIN got' = Reader
      BY DEF Change
    <2> QED BY <1>1, <1>2, <1>3, <1>4, <2>1, <2>2 DEF ListingsOK, ReadersOK, AgeInv
  <1>7. TypeOK'
    BY <1>1, <1>5, <1>6 DEF TypeOK, StatsOK, ListingsOK, ReadersOK
  <1> QED BY <1>6, <1>7

\* Steps after which the call is over.
LEMMA ReturnTypes ==
  ASSUME TypeOK, NEW c \in Reader, Return(c)
  PROVE  /\ ReadersOK'
         /\ \A d \in Reader : /\ DOMAIN got'[d] \subseteq DOMAIN got[d]
                              /\ \A q \in DOMAIN got'[d] : /\ got'[d][q] = got[d][q]
                                                          /\ now'[d] = now[d]
  <1> USE ConstantsType
  <1>1. ReadersOK /\ clock \in Nat /\ DOMAIN << >> = {}
    BY TypeParts
  <1>2. /\ op'[c] = "idle" /\ got'[c] = << >>
        /\ \A d \in Reader \ {c} : op'[d] = op[d] /\ got'[d] = got[d] /\ arg'[d] = arg[d] /\ now'[d] = now[d]
    BY <1>1 DEF Return, ReadersOK
  <1>3. ASSUME NEW d \in Reader PROVE got'[d] \in [Wanted(d)' -> Copy]
    <2>1. CASE d = c
      BY <1>2, <2>1, EmptyFunction DEF Wanted
    <2>2. CASE d # c
      BY <1>1, <1>2, <2>2 DEF Wanted, ReadersOK
    <2> QED BY <2>1, <2>2
  <1>4. ReadersOK'
    BY <1>1, <1>3 DEF Return, ReadersOK
  <1> QED BY <1>1, <1>2, <1>4

LEMMA ReturnStep ==
  ASSUME CacheInv, NEW c \in Reader, Hit(c) \/ ReaddirFails(c)
  PROVE  CacheInv'
  <1>1. Return(c) /\ UNCHANGED <<clock, stats, listings>>
    BY DEF Hit, ReaddirFails, Return, cache
  <1>2. ReadersOK'
    BY <1>1, ReturnTypes DEF CacheInv
  <1>3. StatsOK' /\ ListingsOK'
    BY <1>1, TypeParts DEF CacheInv, StatsOK, ListingsOK, Lifetime
  <1>4. TypeOK'
    BY <1>1, <1>2, <1>3 DEF CacheInv, TypeOK, StatsOK, ListingsOK, ReadersOK
  <1>5. AgeInv'
    <2>1. \A d \in Reader : \A q \in DOMAIN got'[d] : got'[d][q].until >= now'[d]
      BY <1>1, ReturnTypes DEF CacheInv, AgeInv
    <2> QED BY <1>1, <2>1 DEF CacheInv, AgeInv
  <1> QED BY <1>4, <1>5 DEF CacheInv

\* Steps of a call that do not touch the cache.
LEMMA CallStep ==
  ASSUME CacheInv, NEW c \in Reader,
         (\E o \in {"stat", "readdir"}, p \in Asked : Read(c, o, p)) \/ Miss(c) \/ Fetch(c)
  PROVE  CacheInv'
  <1> USE ConstantsType
  <1>1. clock \in 0..MaxTime /\ StatsOK /\ ListingsOK /\ ReadersOK /\ UNCHANGED <<clock, stats, listings>>
    BY TypeParts DEF CacheInv, Read, Miss, Fetch, cache
  <1>2. StatsOK' /\ ListingsOK'
    BY <1>1 DEF StatsOK, ListingsOK, Lifetime
  <1>3. /\ ReadersOK'
        /\ \A d \in Reader : \A q \in DOMAIN got'[d] : got'[d][q].until >= now'[d]
    <2>1. CASE \E o \in {"stat", "readdir"}, p \in Asked : Read(c, o, p)
      <3>1. got[c] \in [{} -> Copy]
        BY <1>1, <2>1 DEF Read, ReadersOK, Wanted
      <3>2. \A d \in Reader \ {c} : now'[d] = now[d]
        BY <1>1, <2>1 DEF Read, ReadersOK
      <3>3. \A d \in Reader : Wanted(d)' = Wanted(d)
        BY <1>1, <2>1 DEF Read, ReadersOK, Wanted
      <3>4. ReadersOK'
        BY <1>1, <2>1, <3>3 DEF Read, ReadersOK
      <3> QED BY <2>1, <3>1, <3>2, <3>4 DEF Read, CacheInv, AgeInv
    <2>2. CASE Miss(c)
      <3>1. \A d \in Reader : Wanted(d)' = Wanted(d)
        BY <1>1, <2>2 DEF Miss, ReadersOK, Wanted
      <3>2. ReadersOK'
        BY <1>1, <2>2, <3>1 DEF Miss, ReadersOK
      <3> QED BY <2>2, <3>2 DEF Miss, CacheInv, AgeInv
    <2>3. CASE Fetch(c)
      <3>1. \A d \in Reader \ {c} : Wanted(d)' = Wanted(d) /\ got'[d] = got[d]
        BY <1>1, <2>3 DEF Fetch, ReadersOK, Wanted
      <3>2. got'[c] = [q \in Wanted(c)' |-> Fresh]
        BY <1>1, <2>3 DEF Fetch, ReadersOK, Wanted
      <3>3. \A d \in Reader : got'[d] \in [Wanted(d)' -> Copy]
        BY <1>1, <3>1, <3>2 DEF ReadersOK
      <3>4. ReadersOK'
        BY <1>1, <2>3, <3>3 DEF Fetch, ReadersOK
      <3>5. now' = now /\ now[c] <= MaxTime /\ now[c] \in Nat
        BY <1>1, <2>3 DEF Fetch, ReadersOK
      <3> QED BY <3>1, <3>2, <3>4, <3>5 DEF CacheInv, AgeInv
    <2> QED BY <2>1, <2>2, <2>3
  <1>4. TypeOK'
    BY <1>1, <1>2, <1>3 DEF TypeOK, StatsOK, ListingsOK, ReadersOK
  <1> QED BY <1>1, <1>3, <1>4 DEF CacheInv, AgeInv

\* A store: the entry expires a TTL after the call began, when its copy was true.
LEMMA StatStoreStep ==
  ASSUME CacheInv, NEW c \in Reader, StatStore(c)
  PROVE  CacheInv'
  <1> USE ConstantsType
  <1>1. /\ clock \in 0..MaxTime /\ StatsOK /\ ListingsOK /\ ReadersOK
        /\ Return(c) /\ clock' = clock /\ listings' = listings
    BY TypeParts DEF CacheInv, StatStore, Return
  <1> DEFINE entry == [copy |-> got[c][arg[c]], expires |-> now[c] + TTL]
  <1>2. /\ arg[c] \in Path /\ now[c] \in 0..clock /\ got[c] \in [{arg[c]} -> Copy]
        /\ got[c][arg[c]].until >= now[c]
    BY <1>1 DEF StatStore, ReadersOK, Wanted, CacheInv, AgeInv
  <1>3. entry \in [copy : Copy, expires : Lifetime] /\ entry.copy.until >= entry.expires - TTL
    BY <1>1, <1>2 DEF Lifetime, Copy
  <1>4. stats' = [stats EXCEPT ![arg[c]] = entry]
    BY DEF StatStore
  <1> HIDE DEF entry
  <1>5. StatsOK' /\ ListingsOK'
    BY <1>1, <1>2, <1>3, <1>4 DEF StatsOK, ListingsOK, Lifetime
  <1>6. ReadersOK' /\ \A d \in Reader : \A q \in DOMAIN got'[d] : got'[d][q].until >= now'[d]
    BY <1>1, ReturnTypes DEF CacheInv, AgeInv
  <1>7. TypeOK'
    BY <1>1, <1>5, <1>6 DEF TypeOK, StatsOK, ListingsOK, ReadersOK
  <1>8. \A p \in Path : stats'[p].copy.until >= stats'[p].expires - TTL
    BY <1>1, <1>2, <1>3, <1>4 DEF StatsOK, CacheInv, AgeInv
  <1> QED BY <1>1, <1>6, <1>7, <1>8 DEF CacheInv, AgeInv

LEMMA ReaddirStoreStep ==
  ASSUME CacheInv, NEW c \in Reader, ReaddirStore(c)
  PROVE  CacheInv'
  <1> USE ConstantsType
  <1>1. /\ clock \in 0..MaxTime /\ StatsOK /\ ListingsOK /\ ReadersOK
        /\ Return(c) /\ clock' = clock
    BY TypeParts DEF CacheInv, ReaddirStore, Return
  <1> DEFINE seed(q) == [copy |-> got[c][q], expires |-> now[c] + TTL]
             listing == [row |-> got[c], expires |-> now[c] + TTL]
  <1>2. /\ arg[c] \in Path /\ now[c] \in 0..clock /\ got[c] \in [Listed(arg[c]) -> Copy]
        /\ \A q \in Listed(arg[c]) : got[c][q].until >= now[c]
    BY <1>1 DEF ReaddirStore, ReadersOK, Wanted, CacheInv, AgeInv
  <1>3. now[c] + TTL \in Lifetime
    BY <1>1, <1>2 DEF Lifetime
  <1>4. /\ listing \in [row : [Listed(arg[c]) -> Copy], expires : Lifetime]
        /\ \A q \in Listed(arg[c]) : listing.row[q].until >= listing.expires - TTL
    BY <1>2, <1>3 DEF Copy
  <1>5. \A q \in Listed(arg[c]) : /\ seed(q) \in [copy : Copy, expires : Lifetime]
                                    /\ seed(q).copy.until >= seed(q).expires - TTL
    BY <1>2, <1>3 DEF Copy
  <1>6. listings' = [listings EXCEPT ![arg[c]] = listing]
    BY DEF ReaddirStore
  <1>7. PICK present \in SUBSET Listed(arg[c]) :
          stats' = [p \in Path |-> IF File(p) \in present /\ p = Entry(arg[c], File(p))
                                   THEN seed(File(p)) ELSE stats[p]]
    BY DEF ReaddirStore
  <1> HIDE DEF seed, listing
  <1>8. /\ StatsOK'
        /\ \A p \in Path : stats'[p].copy.until >= stats'[p].expires - TTL
    BY <1>1, <1>5, <1>7 DEF StatsOK, Lifetime, CacheInv, AgeInv
  <1>9. /\ ListingsOK'
        /\ \A p \in Path : \A q \in Listed(p) :
             listings'[p].row[q].until >= listings'[p].expires - TTL
    <2>1. /\ DOMAIN listings' = Path /\ listings'[arg[c]] = listing
          /\ \A p \in Path \ {arg[c]} : listings'[p] = listings[p]
      BY <1>1, <1>2, <1>6 DEF ListingsOK
    <2>2. Lifetime' = Lifetime
      BY <1>1 DEF Lifetime
    <2> QED BY <1>1, <1>4, <2>1, <2>2 DEF ListingsOK, CacheInv, AgeInv
  <1>10. ReadersOK' /\ \A d \in Reader : \A q \in DOMAIN got'[d] : got'[d][q].until >= now'[d]
    BY <1>1, ReturnTypes DEF CacheInv, AgeInv
  <1>11. TypeOK'
    BY <1>1, <1>8, <1>9, <1>10 DEF TypeOK, StatsOK, ListingsOK, ReadersOK
  <1> QED BY <1>8, <1>9, <1>10, <1>11 DEF CacheInv, AgeInv

\* Entries are dropped: by invalidate, or because time has passed.
LEMMA DropStep ==
  ASSUME CacheInv, (\E w \in Writer : InvalidateStep(w)) \/ Tick
  PROVE  CacheInv'
  <1> USE ConstantsType
  <1>1. /\ clock \in 0..MaxTime /\ StatsOK /\ ListingsOK /\ ReadersOK
        /\ UNCHANGED readers /\ clock' \in 0..MaxTime /\ clock <= clock'
    BY TypeParts DEF CacheInv, InvalidateStep, Tick
  <1>2. /\ DOMAIN listings' = Path /\ stats' = [p \in Path |-> stats'[p]]
        /\ \A p \in Path : /\ stats'[p] \in {stats[p], Missing}
                           /\ listings'[p] \in {listings[p], NoListing(p)}
    <2>1. CASE \E w \in Writer : InvalidateStep(w)
      <3>1. PICK p : Forget(p)
        BY <2>1 DEF InvalidateStep
      <3> QED BY <1>1, <3>1 DEF Forget, StatsOK, ListingsOK
    <2>2. CASE Tick
      BY <2>2 DEF Tick
    <2> QED BY <2>1, <2>2
  <1>3. Lifetime \subseteq Lifetime' /\ 0..clock \subseteq 0..clock'
    <2>1. clock \in Int /\ clock' \in Int /\ clock <= clock' /\ TTL \in Int
      BY <1>1
    <2> QED BY <2>1, LongerRange DEF Lifetime
  <1>4. /\ StatsOK' /\ ListingsOK'
        /\ \A p \in Path : stats'[p].copy.until >= stats'[p].expires - TTL
        /\ \A p \in Path : \A q \in Listed(p) :
             listings'[p].row[q].until >= listings'[p].expires - TTL
    <2>1. ASSUME NEW p \in Path
          PROVE  /\ stats'[p] \in [copy : Copy, expires : Lifetime']
                 /\ stats'[p].copy.until >= stats'[p].expires - TTL
      <3>1. CASE stats'[p] = stats[p]
        BY <1>1, <1>3, <3>1 DEF StatsOK, CacheInv, AgeInv
      <3>2. CASE stats'[p] = Missing
        BY <1>1, <1>3, <3>2, MissingType
      <3> QED BY <1>2, <3>1, <3>2
    <2>2. ASSUME NEW p \in Path
          PROVE  /\ listings'[p] \in [row : [Listed(p) -> Copy], expires : Lifetime']
                 /\ \A q \in Listed(p) : listings'[p].row[q].until >= listings'[p].expires - TTL
      <3>1. CASE listings'[p] = listings[p]
        BY <1>1, <1>3, <3>1 DEF ListingsOK, CacheInv, AgeInv
      <3>2. CASE listings'[p] = NoListing(p)
        BY <1>1, <1>3, <3>2, MissingType
      <3> QED BY <1>2, <3>1, <3>2
    <2> QED BY <1>2, <2>1, <2>2 DEF StatsOK, ListingsOK
  <1>5. ReadersOK'
    BY <1>1, <1>3 DEF ReadersOK, readers, Wanted
  <1>6. TypeOK'
    BY <1>1, <1>4, <1>5 DEF TypeOK, StatsOK, ListingsOK, ReadersOK
  <1> QED BY <1>1, <1>4, <1>6 DEF CacheInv, AgeInv, readers

LEMMA NextCache == CacheInv /\ [Next]_vars => CacheInv'
  <1> SUFFICES ASSUME CacheInv, [Next]_vars PROVE CacheInv'
    OBVIOUS
  <1>1. CASE Tick
    BY <1>1, DropStep
  <1>2. CASE \E f \in Disk \ {Root} : LocalEdit(f)
    <2>1. PICK hit : Change(hit, {}) /\ UNCHANGED <<clock, op, arg, now>>
      BY <1>2 DEF LocalEdit
    <2> QED BY <2>1, ChangeStep
  <1>3. ASSUME NEW c \in Reader,
               \/ \E o \in {"stat", "readdir"}, p \in Asked : Read(c, o, p)
               \/ Hit(c) \/ Miss(c) \/ Fetch(c) \/ ReaddirFails(c)
               \/ StatStore(c) \/ ReaddirStore(c)
        PROVE  CacheInv'
    BY <1>3, ReturnStep, CallStep, StatStoreStep, ReaddirStoreStep
  <1>4. ASSUME NEW w \in Writer, \E steps : ChangingCall(w, steps)
        PROVE  CacheInv'
    BY <1>4 DEF ChangingCall, cache, readers, CacheInv, AgeInv, TypeOK, Lifetime, Wanted
  <1>5. ASSUME NEW w \in Writer, Perform(w)
        PROVE  CacheInv'
    <2>1. PICK hit, named : Change(hit, named) /\ UNCHANGED <<clock, op, arg, now>>
      BY <1>5 DEF Perform
    <2> QED BY <2>1, ChangeStep
  <1>6. ASSUME NEW w \in Writer, InvalidateStep(w)
        PROVE  CacheInv'
    BY <1>6, DropStep
  <1>7. CASE UNCHANGED vars
    BY <1>7 DEF vars, cache, readers, CacheInv, AgeInv, TypeOK, Lifetime, Wanted
  <1> QED BY <1>1, <1>2, <1>3, <1>4, <1>5, <1>6, <1>7 DEF Next

\* An entry that is hit has not expired, so its copy was true less than a TTL ago.
LEMMA CacheIsFresh == CacheInv => BoundedStaleness
  <1> SUFFICES ASSUME CacheInv, NEW c \in Reader, NEW p \in DOMAIN Answer(c)
               PROVE  Answer(c)[p].until > now[c] - TTL
    BY DEF BoundedStaleness
  <1> USE ConstantsType
  <1>1. StatsOK /\ ListingsOK /\ ReadersOK /\ arg[c] \in Path /\ now[c] \in Int
    BY TypeParts DEF CacheInv, ReadersOK
  <1>2. CASE StatHits(c)
    <2>1. p = arg[c] /\ Answer(c)[p] = stats[arg[c]].copy
      <3>1. ~ReaddirHits(c)
        BY <1>2 DEF StatHits, ReaddirHits
      <3> QED BY <1>2, <3>1 DEF Answer
    <2>2. stats[arg[c]].copy.until >= stats[arg[c]].expires - TTL /\ now[c] < stats[arg[c]].expires
      BY <1>1, <1>2 DEF StatHits, CacheInv, AgeInv
    <2>3. stats[arg[c]].copy.until \in Int /\ stats[arg[c]].expires \in Int
      BY <1>1 DEF StatsOK, Copy, Lifetime
    <2> QED BY <1>1, <2>1, <2>2, <2>3
  <1>3. CASE ~StatHits(c) /\ ReaddirHits(c)
    <2>1. Answer(c) = listings[arg[c]].row
      BY <1>3 DEF Answer
    <2>2. listings[arg[c]] \in [row : [Listed(arg[c]) -> Copy], expires : Lifetime]
      BY <1>1 DEF ListingsOK
    <2>3. /\ listings[arg[c]].row[p].until >= listings[arg[c]].expires - TTL
          /\ now[c] < listings[arg[c]].expires
      BY <1>1, <1>3, <2>1, <2>2 DEF ReaddirHits, CacheInv, AgeInv
    <2>4. listings[arg[c]].row[p].until \in Int /\ listings[arg[c]].expires \in Int
      BY <2>1, <2>2 DEF Copy, Lifetime
    <2> QED BY <1>1, <2>1, <2>3, <2>4
  <1>4. CASE ~StatHits(c) /\ ~ReaddirHits(c)
    <2>1. Answer(c) = got[c]
      BY <1>4 DEF Answer
    <2>2. got[c][p] \in Copy /\ got[c][p].until >= now[c]
      BY <1>1, <2>1 DEF ReadersOK, CacheInv, AgeInv
    <2>3. got[c][p].until \in Int
      BY <2>2 DEF Copy
    <2> QED BY <1>1, <2>1, <2>2, <2>3
  <1> QED BY <1>2, <1>3, <1>4

\* Types, and the bound on how long an entry may live (statCacheTTL).
THEOREM TypeCorrect == Spec => []TypeOK
  <1>1. Init => CacheInv
    BY InitCache
  <1>2. CacheInv /\ [Next]_vars => CacheInv'
    BY NextCache
  <1>3. CacheInv => TypeOK
    BY DEF CacheInv
  <1> QED BY <1>1, <1>2, <1>3, PTL DEF Spec

\* What Stat and Readdir answer was true less than statCacheTTL before the call.
THEOREM StalenessCorrect == Spec => []BoundedStaleness
  <1>1. Init => CacheInv
    BY InitCache
  <1>2. CacheInv /\ [Next]_vars => CacheInv'
    BY NextCache
  <1>3. CacheInv => BoundedStaleness
    BY CacheIsFresh
  <1> QED BY <1>1, <1>2, <1>3, PTL DEF Spec

-----------------------------------------------------------------------------
(* Changes show: what a changing call owes, the rest of its plan pays.     *)

Step == {Invalidate(p) : p \in Path}
        \cup [do : {"inner", "open"}, named : SUBSET Path, hit : SUBSET Path]

Opens(s) == \E i \in 1..Len(s) : s[i].do = "open"

\* A call of the file system comes before the invalidations of all the paths that
\* it names; a file is opened before anything else is asked of the file system.
WellOrdered(s) ==
  /\ s \in Seq(Step)
  /\ \A i \in 1..Len(s) : s[i].do # "invalidate" =>
       /\ \A x \in s[i].named : \E j \in (i + 1)..Len(s) : s[j] = Invalidate(x)
       /\ \A j \in (i + 1)..Len(s) : s[j].do # "open"

\* Some call that cannot be abandoned any more will invalidate x.
Due(x) == \E w \in Writer : /\ ~Opens(plan[w])
                            /\ \E i \in 1..Len(plan[w]) : plan[w][i] = Invalidate(x)

PlanInv == \A w \in Writer : w \in DOMAIN plan /\ WellOrdered(plan[w])

\* Who owes, by where the copy is.
StatsDue    == \A p \in Path : stats[p].copy.owed => \E x \in Path : p \in {x, Dir(x)} /\ Due(x)
ListingsDue == \A p \in Path : \A q \in Listed(p) : listings[p].row[q].owed => \E x \in Path : p = Dir(x) /\ Due(x)
NothingHeld == \A c \in Reader : \A q \in DOMAIN got[c] : ~got[c][q].owed

DueInv == PlanInv /\ StatsDue /\ ListingsDue /\ NothingHeld

LEMMA StepFacts ==
  /\ \A p \in Path : Invalidate(p) \in Step /\ Invalidate(p).do = "invalidate" /\ Invalidate(p).path = p
  /\ \A s \in Step : s.do \in {"inner", "open", "invalidate"}
  /\ \A s \in Step : s.do # "invalidate" => s.named \subseteq Path /\ s.hit \subseteq Path
  /\ \A s \in Step : s.do = "invalidate" => s.path \in Path /\ s = Invalidate(s.path)
  BY DEF Step, Invalidate

LEMMA StepsOfPlans ==
  ASSUME NEW p \in Path, NEW q \in Path
  PROVE  /\ Inner({p}, {File(p), Dir(File(p))}) \in Step /\ Inner({p}, {File(p)}) \in Step
         /\ OpenInner(p) \in Step
         /\ Inner({p}, Below(File(p)) \cup {Dir(File(p))}) \in Step
         /\ Inner({p, q}, Below(File(p)) \cup Below(File(q)) \cup {Dir(File(p)), Dir(File(q))}) \in Step
  <1>1. /\ File(p) \in Path /\ Dir(File(p)) \in Path
        /\ File(q) \in Path /\ Dir(File(q)) \in Path
        /\ \A f : Below(f) \subseteq Path
    BY DEF Below, Disk
  <1> QED BY <1>1 DEF Inner, OpenInner, Step

LEMMA PlansOrdered ==
  ASSUME NEW p \in Path, NEW steps \in Plans(p)
  PROVE  WellOrdered(steps)
  <1> USE StepFacts DEF WellOrdered
  <1>1. CASE \E h : steps = <<Inner({p}, h), Invalidate(p)>> /\ Inner({p}, h) \in Step
    <2>1. PICK h : steps = <<Inner({p}, h), Invalidate(p)>> /\ Inner({p}, h) \in Step
      BY <1>1
    <2>2. /\ Len(steps) = 2 /\ steps[1] = Inner({p}, h) /\ steps[2] = Invalidate(p)
          /\ steps \in Seq(Step)
      BY <2>1
    <2>3. Inner({p}, h).named = {p} /\ 1..2 = {1, 2} /\ 2 \in (1 + 1)..2 /\ (1 + 1)..2 = {2}
      BY DEF Inner
    <2>4. \A i \in 1..2 : steps[i].do # "invalidate" => i = 1
      BY <2>2
    <2>5. steps[2].do # "open" /\ \A x \in steps[1].named : steps[2] = Invalidate(x)
      BY <2>2, <2>3
    <2> QED BY <2>2, <2>3, <2>4, <2>5
  <1>2. CASE \E q \in Path : steps = RenamePlan(p, q)
    <2>1. PICK q \in Path : steps = RenamePlan(p, q)
      BY <1>2
    <2> DEFINE first == Inner({p, q}, Below(File(p)) \cup Below(File(q)) \cup {Dir(File(p)), Dir(File(q))})
    <2>2. first \in Step /\ first.named = {p, q}
      BY StepsOfPlans DEF Inner
    <2>3. steps = <<first, Invalidate(p), Invalidate(q)>>
      BY <2>1 DEF RenamePlan
    <2> HIDE DEF first
    <2>4. /\ Len(steps) = 3 /\ steps[1] = first /\ steps[2] = Invalidate(p) /\ steps[3] = Invalidate(q)
          /\ steps \in Seq(Step)
      BY <2>2, <2>3
    <2> QED BY <2>2, <2>4
  <1>3. CASE steps = PutPlan(p)
    <2>1. /\ OpenInner(p) \in Step /\ OpenInner(p).named = {p} /\ OpenInner(p).do = "open"
          /\ Inner({p}, {File(p)}) \in Step /\ Inner({p}, {File(p)}).named = {p} /\ Inner({p}, {File(p)}).do = "inner"
      BY StepsOfPlans DEF Inner, OpenInner
    <2>2. /\ Len(steps) = 4 /\ steps[1] = Invalidate(p) /\ steps[2] = OpenInner(p)
          /\ steps[3] = Inner({p}, {File(p)}) /\ steps[4] = Invalidate(p)
          /\ steps \in Seq(Step)
      BY <1>3, <2>1 DEF PutPlan
    <2>3. \A i \in 1..4 : steps[i].do # "invalidate" => i \in {2, 3} /\ steps[i].named = {p}
      <3>1. Invalidate(p).do = "invalidate" /\ 1..4 = {1, 2, 3, 4}
        OBVIOUS
      <3>2. steps[1].do = "invalidate" /\ steps[4].do = "invalidate"
        BY <2>2, <3>1
      <3>3. steps[2].named = {p} /\ steps[3].named = {p}
        BY <2>1, <2>2
      <3> QED BY <3>1, <3>2, <3>3
    <2>4. \A i \in {2, 3} : 4 \in (i + 1)..4 /\ \A j \in (i + 1)..4 : j \in {3, 4}
      OBVIOUS
    <2>5. \A j \in {3, 4} : steps[j].do # "open"
      BY <2>1, <2>2
    <2> QED BY <2>2, <2>3, <2>4, <2>5
  <1>4. steps \in {MkdirPlan(p), RemoveAllPlan(p), PutPlan(p)} \/ \E q \in Path : steps = RenamePlan(p, q)
    BY DEF Plans, Targets
  <1>5. steps \in {MkdirPlan(p), RemoveAllPlan(p)} =>
          \E h : steps = <<Inner({p}, h), Invalidate(p)>> /\ Inner({p}, h) \in Step
    <2>1. /\ Inner({p}, {File(p), Dir(File(p))}) \in Step
          /\ Inner({p}, Below(File(p)) \cup {Dir(File(p))}) \in Step
      BY StepsOfPlans
    <2> QED BY <2>1 DEF MkdirPlan, RemoveAllPlan
  <1> QED BY <1>1, <1>2, <1>3, <1>4, <1>5

\* A writer takes its next step: what is well ordered stays so, and only that
\* step is gone.
LEMMA TailOrdered ==
  ASSUME NEW s, WellOrdered(s), s # << >>
  PROVE  /\ Head(s) = s[1] /\ Head(s) \in Step /\ WellOrdered(Tail(s))
         /\ \A i \in 2..Len(s) : i - 1 \in 1..Len(Tail(s)) /\ Tail(s)[i - 1] = s[i]
         /\ Opens(Tail(s)) => Opens(s)
         /\ Head(s).do # "invalidate" =>
              /\ ~Opens(Tail(s))
              /\ \A x \in Head(s).named : \E i \in 1..Len(Tail(s)) : Tail(s)[i] = Invalidate(x)
  <1> DEFINE t == Tail(s)
  <1>1. /\ s \in Seq(Step) /\ Len(s) \in Nat /\ Len(s) > 0 /\ Head(s) = s[1] /\ s[1] \in Step
        /\ t \in Seq(Step) /\ Len(t) = Len(s) - 1
        /\ \A i \in 1..Len(t) : t[i] = s[i + 1]
    BY DEF WellOrdered
  <1>2. \A i \in 2..Len(s) : i - 1 \in 1..Len(t) /\ t[i - 1] = s[i]
    <2> SUFFICES ASSUME NEW i \in 2..Len(s) PROVE i - 1 \in 1..Len(t) /\ t[i - 1] = s[i]
      OBVIOUS
    <2>1. i - 1 \in 1..Len(t) /\ (i - 1) + 1 = i
      BY <1>1
    <2> QED BY <1>1, <2>1
  <1> HIDE DEF t
  <1>3. WellOrdered(t)
    <2> SUFFICES ASSUME NEW i \in 1..Len(t), t[i].do # "invalidate"
                 PROVE  /\ \A x \in t[i].named : \E j \in (i + 1)..Len(t) : t[j] = Invalidate(x)
                        /\ \A j \in (i + 1)..Len(t) : t[j].do # "open"
      BY <1>1 DEF WellOrdered
    <2>1. i + 1 \in 1..Len(s) /\ t[i] = s[i + 1] /\ i \in Int
      BY <1>1
    <2>2. \A x \in t[i].named : \E j \in (i + 1)..Len(t) : t[j] = Invalidate(x)
      <3> SUFFICES ASSUME NEW x \in t[i].named PROVE \E j \in (i + 1)..Len(t) : t[j] = Invalidate(x)
        OBVIOUS
      <3>1. PICK j \in (i + 2)..Len(s) : s[j] = Invalidate(x)
        BY <2>1 DEF WellOrdered
      <3>2. j \in 2..Len(s) /\ j - 1 \in (i + 1)..Len(t)
        BY <1>1, <2>1
      <3> QED BY <1>2, <3>1, <3>2
    <2>3. \A j \in (i + 1)..Len(t) : t[j].do # "open"
      <3> SUFFICES ASSUME NEW j \in (i + 1)..Len(t) PROVE t[j].do # "open"
        OBVIOUS
      <3>1. j \in 1..Len(t) /\ j + 1 \in ((i + 1) + 1)..Len(s)
        BY <1>1, <2>1
      <3>2. s[j + 1].do # "open"
        BY <2>1, <3>1 DEF WellOrdered
      <3> QED BY <1>1, <3>1, <3>2
    <2> QED BY <2>2, <2>3
  <1>4. Opens(t) => Opens(s)
    <2> SUFFICES ASSUME NEW i \in 1..Len(t), t[i].do = "open" PROVE Opens(s)
      BY DEF Opens
    <2>1. i + 1 \in 1..Len(s) /\ s[i + 1].do = "open"
      BY <1>1
    <2> QED BY <2>1 DEF Opens
  <1>5. ASSUME s[1].do # "invalidate"
        PROVE  /\ ~Opens(t)
               /\ \A x \in s[1].named : \E i \in 1..Len(t) : t[i] = Invalidate(x)
    <2>1. 1 \in 1..Len(s)
      BY <1>1
    <2>2. /\ \A x \in s[1].named : \E j \in 2..Len(s) : s[j] = Invalidate(x)
          /\ \A j \in 2..Len(s) : s[j].do # "open"
      BY <1>5, <2>1 DEF WellOrdered
    <2>3. \A x \in s[1].named : \E i \in 1..Len(t) : t[i] = Invalidate(x)
      BY <1>2, <2>2
    <2>4. ASSUME NEW i \in 1..Len(t) PROVE t[i].do # "open"
      <3>1. i + 1 \in 2..Len(s) /\ t[i] = s[i + 1]
        BY <1>1
      <3> QED BY <2>2, <3>1
    <2> QED BY <2>3, <2>4 DEF Opens
  <1> QED BY <1>1, <1>2, <1>3, <1>4, <1>5 DEF t

\* What a change of the tree marks as owed.
LEMMA ChangeOwes ==
  ASSUME CacheInv, DueInv, NEW hit, NEW named, named \subseteq Path, Change(hit, named)
  PROVE  /\ \A p \in Path : stats'[p].copy.owed =>
              \/ stats[p].copy.owed
              \/ File(p) \in hit /\ \E x \in named : p \in {x, Dir(x)}
         /\ \A p \in Path : \A q \in Listed(p) : listings'[p].row[q].owed =>
              \/ listings[p].row[q].owed
              \/ q \in hit /\ \E x \in named : p = Dir(x)
         /\ NothingHeld'
  <1>1. StatsOK /\ ListingsOK /\ ReadersOK
    BY TypeParts DEF CacheInv
  <1>2. \A copy, owed : Ended(copy, owed).owed <=> (copy.owed \/ owed)
    BY DEF Ended
  <1>3. ASSUME NEW p \in Path, stats'[p].copy.owed
        PROVE  \/ stats[p].copy.owed
               \/ File(p) \in hit /\ \E x \in named : p \in {x, Dir(x)}
    <2> DEFINE o == stats[p].expires > 0 /\ p \in (named \cup {Dir(x) : x \in named})
    <2>1. stats'[p] = IF File(p) \in hit THEN [stats[p] EXCEPT !.copy = Ended(@, o)] ELSE stats[p]
      BY DEF Change
    <2>2. File(p) \in hit => stats'[p].copy = Ended(stats[p].copy, o)
      BY <1>1, <2>1 DEF StatsOK
    <2>3. o => \E x \in named : p \in {x, Dir(x)}
      OBVIOUS
    <2> HIDE DEF o
    <2> QED BY <1>2, <1>3, <2>1, <2>2, <2>3
  <1>4. ASSUME NEW p \in Path, NEW q \in Listed(p), listings'[p].row[q].owed
        PROVE  listings[p].row[q].owed \/ (q \in hit /\ \E x \in named : p = Dir(x))
    <2> DEFINE o == listings[p].expires > 0 /\ \E x \in named : p = Dir(x) /\ q = File(x)
    <2> DEFINE row == [r \in Listed(p) |-> IF r \in hit
                 THEN Ended(listings[p].row[r], listings[p].expires > 0
                              /\ \E x \in named : p = Dir(x) /\ r = File(x))
                 ELSE listings[p].row[r]]
    <2>1. listings'[p] = [listings[p] EXCEPT !.row = row]
      BY DEF Change
    <2>2. listings'[p].row = row
      BY <1>1, <2>1 DEF ListingsOK
    <2>3. listings'[p].row[q] = IF q \in hit THEN Ended(listings[p].row[q], o) ELSE listings[p].row[q]
      BY <2>2
    <2>4. o => \E x \in named : p = Dir(x)
      OBVIOUS
    <2> HIDE DEF o, row
    <2> QED BY <1>2, <1>4, <2>3, <2>4
  <1>5. NothingHeld'
    <2> SUFFICES ASSUME NEW c \in Reader, NEW q \in DOMAIN got'[c] PROVE ~got'[c][q].owed
      BY DEF NothingHeld
    <2>1. /\ DOMAIN got'[c] = DOMAIN got[c]
          /\ got'[c][q] = IF File(q) \in hit THEN Ended(got[c][q], FALSE) ELSE got[c][q]
      BY DEF Change
    <2> QED BY <1>2, <2>1 DEF DueInv, NothingHeld
  <1> QED BY <1>3, <1>4, <1>5

\* A step of the file system on behalf of a changing call.
LEMMA PerformDue ==
  ASSUME CacheInv, DueInv, NEW w \in Writer, Perform(w)
  PROVE  DueInv'
  <1> DEFINE s == plan[w]
  <1>1. WellOrdered(s) /\ s # << >> /\ Head(s).do # "invalidate" /\ w \in DOMAIN plan
    BY DEF DueInv, PlanInv, Perform
  <1>2. PICK hit \in SUBSET Head(s).hit :
          /\ Change(hit, Head(s).named)
          /\ plan' = [plan EXCEPT ![w] = IF Head(@).do = "open" /\ hit = {} THEN << >> ELSE Tail(@)]
    BY DEF Perform
  <1>3. /\ plan'[w] = IF Head(s).do = "open" /\ hit = {} THEN << >> ELSE Tail(s)
        /\ DOMAIN plan' = DOMAIN plan /\ \A v \in Writer \ {w} : plan'[v] = plan[v]
    BY <1>1, <1>2 DEF DueInv, PlanInv
  <1> HIDE DEF s
  <1>4. /\ Head(s) = s[1] /\ Head(s) \in Step /\ Head(s).named \subseteq Path
        /\ Len(s) \in Nat /\ Len(s) > 0
    BY <1>1, TailOrdered, StepFacts DEF WellOrdered
  <1>5. PlanInv'
    <2>1. WellOrdered(<< >>)
      BY DEF WellOrdered
    <2>2. WellOrdered(plan'[w])
      BY <1>1, <1>3, <2>1, TailOrdered
    <2>3. ASSUME NEW v \in Writer PROVE v \in DOMAIN plan' /\ WellOrdered(plan'[v])
      BY <1>3, <2>2 DEF DueInv, PlanInv
    <2> QED BY <2>3 DEF PlanInv
  <1>6. ASSUME NEW x \in Path, Due(x) PROVE Due(x)'
    <2>1. PICK v \in Writer : ~Opens(plan[v]) /\ \E i \in 1..Len(plan[v]) : plan[v][i] = Invalidate(x)
      BY <1>6 DEF Due
    <2>2. CASE v # w
      BY <1>3, <2>1, <2>2 DEF Due
    <2>3. CASE v = w
      <3>1. PICK i \in 1..Len(s) : s[i] = Invalidate(x)
        BY <2>1, <2>3 DEF s
      <3>2. i # 1
        BY <1>1, <1>4, <3>1, StepFacts
      <3>3. i \in 2..Len(s) /\ 1 \in 1..Len(s)
        BY <1>4, <3>2
      <3>4. Head(s).do # "open"
        BY <1>4, <2>1, <2>3, <3>3 DEF Opens, s
      <3>5. i - 1 \in 1..Len(Tail(s)) /\ Tail(s)[i - 1] = Invalidate(x) /\ ~Opens(Tail(s))
        BY <1>1, <2>1, <2>3, <3>1, <3>3, TailOrdered DEF s
      <3> QED BY <1>3, <3>4, <3>5 DEF Due
    <2> QED BY <2>2, <2>3
  <1>7. ASSUME NEW x \in Head(s).named, hit # {} PROVE Due(x)'
    <2>1. plan'[w] = Tail(s) /\ ~Opens(Tail(s)) /\ \E i \in 1..Len(Tail(s)) : Tail(s)[i] = Invalidate(x)
      BY <1>1, <1>3, <1>7, TailOrdered
    <2> QED BY <2>1 DEF Due
  <1>8. /\ \A p \in Path : stats'[p].copy.owed =>
             stats[p].copy.owed \/ (File(p) \in hit /\ \E x \in Head(s).named : p \in {x, Dir(x)})
        /\ \A p \in Path : \A q \in Listed(p) : listings'[p].row[q].owed =>
             listings[p].row[q].owed \/ (q \in hit /\ \E x \in Head(s).named : p = Dir(x))
        /\ NothingHeld'
    BY <1>2, <1>4, ChangeOwes
  <1>9. StatsDue'
    BY <1>4, <1>6, <1>7, <1>8 DEF DueInv, StatsDue
  <1>10. ListingsDue'
    BY <1>4, <1>6, <1>7, <1>8 DEF DueInv, ListingsDue
  <1> QED BY <1>5, <1>8, <1>9, <1>10 DEF DueInv

\* invalidate pays for one path.
LEMMA InvalidateDue ==
  ASSUME CacheInv, DueInv, NEW w \in Writer, InvalidateStep(w)
  PROVE  DueInv'
  <1> DEFINE s == plan[w]  a == Head(s).path
  <1>1. /\ WellOrdered(s) /\ s # << >> /\ Head(s).do = "invalidate" /\ w \in DOMAIN plan
        /\ Forget(a) /\ plan' = [plan EXCEPT ![w] = Tail(@)] /\ got' = got
    BY DEF DueInv, PlanInv, InvalidateStep, readers
  <1>2. /\ plan'[w] = Tail(s) /\ DOMAIN plan' = DOMAIN plan
        /\ \A v \in Writer \ {w} : plan'[v] = plan[v]
    BY <1>1 DEF DueInv, PlanInv
  <1> HIDE DEF s
  <1>3. a \in Path /\ s[1] = Invalidate(a) /\ Len(s) \in Nat
    BY <1>1, TailOrdered, StepFacts DEF WellOrdered
  <1>4. PlanInv'
    BY <1>1, <1>2, TailOrdered DEF DueInv, PlanInv
  <1>5. ASSUME NEW x \in Path, x # a, Due(x) PROVE Due(x)'
    <2>1. PICK v \in Writer : ~Opens(plan[v]) /\ \E i \in 1..Len(plan[v]) : plan[v][i] = Invalidate(x)
      BY <1>5 DEF Due
    <2>2. CASE v # w
      BY <1>2, <2>1, <2>2 DEF Due
    <2>3. CASE v = w
      <3>1. PICK i \in 1..Len(s) : s[i] = Invalidate(x)
        BY <2>1, <2>3 DEF s
      <3>2. i # 1
        BY <1>3, <1>5, <3>1, StepFacts
      <3>3. i \in 2..Len(s)
        BY <1>3, <3>2
      <3>4. i - 1 \in 1..Len(Tail(s)) /\ Tail(s)[i - 1] = Invalidate(x) /\ ~Opens(Tail(s))
        BY <1>1, <2>1, <2>3, <3>1, <3>3, TailOrdered DEF s
      <3> QED BY <1>2, <3>4 DEF Due
    <2> QED BY <2>2, <2>3
  <1>6. /\ stats'[a].copy.owed = FALSE /\ stats'[Dir(a)].copy.owed = FALSE
        /\ \A p \in Path \ {a, Dir(a)} : stats'[p] = stats[p]
        /\ \A p \in Path \ {Dir(a)} : listings'[p] = listings[p]
        /\ \A q \in Listed(Dir(a)) : listings'[Dir(a)].row[q].owed = FALSE
    <2>1. StatsOK /\ ListingsOK /\ Dir(a) \in Path
      BY <1>3, TypeParts DEF CacheInv
    <2>2. Missing.copy.owed = FALSE
      BY DEF Missing, Fresh
    <2>3. \A p \in Path : \A q \in Listed(p) : NoListing(p).row[q].owed = FALSE
      BY DEF NoListing, Fresh
    <2>4. /\ stats'[a] = Missing /\ stats'[Dir(a)] = Missing
          /\ \A p \in Path \ {a, Dir(a)} : stats'[p] = stats[p]
      BY <1>1, <1>3, <2>1 DEF Forget, StatsOK
    <2>5. /\ listings'[Dir(a)] = NoListing(Dir(a))
          /\ \A p \in Path \ {Dir(a)} : listings'[p] = listings[p]
      BY <1>1, <2>1 DEF Forget, ListingsOK
    <2> QED BY <2>1, <2>2, <2>3, <2>4, <2>5
  <1> HIDE DEF a
  <1>7. StatsDue'
    <2> SUFFICES ASSUME NEW p \in Path, stats'[p].copy.owed
                 PROVE  \E x \in Path : p \in {x, Dir(x)} /\ Due(x)'
      BY DEF StatsDue
    <2>1. p \notin {a, Dir(a)} /\ stats[p].copy.owed
      BY <1>6
    <2>2. PICK x \in Path : p \in {x, Dir(x)} /\ Due(x)
      BY <2>1 DEF DueInv, StatsDue
    <2>3. x # a
      BY <2>1, <2>2
    <2> QED BY <1>5, <2>2, <2>3
  <1>8. ListingsDue'
    <2> SUFFICES ASSUME NEW p \in Path, NEW q \in Listed(p), listings'[p].row[q].owed
                 PROVE  \E x \in Path : p = Dir(x) /\ Due(x)'
      BY DEF ListingsDue
    <2>1. p # Dir(a) /\ listings[p].row[q].owed
      BY <1>6
    <2>2. PICK x \in Path : p = Dir(x) /\ Due(x)
      BY <2>1 DEF DueInv, ListingsDue
    <2>3. x # a
      BY <2>1, <2>2
    <2> QED BY <1>5, <2>2, <2>3
  <1>9. NothingHeld'
    BY <1>1 DEF DueInv, NothingHeld
  <1> QED BY <1>4, <1>7, <1>8, <1>9 DEF DueInv

\* Steps that start no debt: they leave every plan alone.
LEMMA QuietDue ==
  ASSUME DueInv, plan' = plan,
         \A p \in Path : stats'[p].copy.owed => stats[p].copy.owed,
         \A p \in Path : \A q \in Listed(p) :
           listings'[p].row[q].owed => listings[p].row[q].owed,
         NothingHeld'
  PROVE  DueInv'
  <1>1. \A x : Due(x) => Due(x)'
    BY DEF Due
  <1>2. PlanInv'
    BY DEF DueInv, PlanInv
  <1>3. StatsDue' /\ ListingsDue'
    BY <1>1 DEF DueInv, StatsDue, ListingsDue
  <1> QED BY <1>2, <1>3 DEF DueInv

\* Stat and Readdir store and return only copies that nobody owes anything for.
LEMMA ReaderDue ==
  ASSUME CacheInv, DueInv, NEW c \in Reader,
         \/ \E o \in {"stat", "readdir"}, p \in Asked : Read(c, o, p)
         \/ Hit(c) \/ Miss(c) \/ Fetch(c) \/ ReaddirFails(c)
         \/ StatStore(c) \/ ReaddirStore(c)
  PROVE  DueInv'
  <1>1. StatsOK /\ ListingsOK /\ ReadersOK /\ NothingHeld
    BY TypeParts DEF CacheInv, DueInv
  <1>2. plan' = plan
    BY DEF Read, Hit, Miss, Fetch, ReaddirFails, StatStore, ReaddirStore, Return
  <1>3. NothingHeld'
    <2>1. CASE Return(c)
      <3>1. DOMAIN << >> = {}
        OBVIOUS
      <3> QED BY <1>1, <2>1, <3>1 DEF Return, NothingHeld, ReadersOK
    <2>2. CASE Fetch(c)
      BY <1>1, <2>2 DEF Fetch, Fresh, NothingHeld, ReadersOK
    <2>3. CASE got' = got
      BY <1>1, <2>3 DEF NothingHeld
    <2> QED BY <2>1, <2>2, <2>3 DEF Read, Hit, Miss, ReaddirFails, StatStore, ReaddirStore
  <1>4. \A p \in Path : stats'[p].copy.owed => stats[p].copy.owed
    <2>1. CASE UNCHANGED stats
      BY <2>1
    <2>2. CASE StatStore(c)
      <3>1. arg[c] \in Path /\ ~got[c][arg[c]].owed
        BY <1>1, <2>2 DEF StatStore, ReadersOK, Wanted, NothingHeld
      <3> QED BY <1>1, <2>2, <3>1 DEF StatStore, StatsOK
    <2>3. CASE ReaddirStore(c)
      <3>1. \A q \in Listed(arg[c]) : ~got[c][q].owed
        BY <1>1, <2>3 DEF ReaddirStore, ReadersOK, Wanted, NothingHeld
      <3>2. PICK present \in SUBSET Listed(arg[c]) :
              stats' = [p \in Path |-> IF File(p) \in present /\ p = Entry(arg[c], File(p))
                                       THEN [copy |-> got[c][File(p)], expires |-> now[c] + TTL]
                                       ELSE stats[p]]
        BY <2>3 DEF ReaddirStore
      <3> QED BY <3>1, <3>2
    <2> QED BY <2>1, <2>2, <2>3 DEF Read, Hit, Miss, Fetch, ReaddirFails, cache
  <1>5. \A p \in Path : \A q \in Listed(p) :
          listings'[p].row[q].owed => listings[p].row[q].owed
    <2>1. CASE UNCHANGED listings
      BY <2>1
    <2>2. CASE ReaddirStore(c)
      <3>1. arg[c] \in Path /\ \A q \in Listed(arg[c]) : ~got[c][q].owed
        BY <1>1, <2>2 DEF ReaddirStore, ReadersOK, Wanted, NothingHeld
      <3> QED BY <1>1, <2>2, <3>1 DEF ReaddirStore, ListingsOK
    <2> QED BY <2>1, <2>2 DEF Read, Hit, Miss, Fetch, ReaddirFails, StatStore, cache
  <1> QED BY <1>2, <1>3, <1>4, <1>5, QuietDue DEF DueInv

LEMMA NextDue == CacheInv /\ DueInv /\ [Next]_vars => DueInv'
  <1> SUFFICES ASSUME CacheInv, DueInv, [Next]_vars PROVE DueInv'
    OBVIOUS
  <1>1. CASE Tick
    <2>1. \A p \in Path : stats'[p] \in {stats[p], Missing} /\ listings'[p] \in {listings[p], NoListing(p)}
      BY <1>1 DEF Tick
    <2>2. Missing.copy.owed = FALSE /\ \A p \in Path : \A q \in Listed(p) : NoListing(p).row[q].owed = FALSE
      BY DEF Missing, NoListing, Fresh
    <2>3. NothingHeld' /\ plan' = plan
      BY <1>1 DEF Tick, readers, DueInv, NothingHeld
    <2> QED BY <2>1, <2>2, <2>3, QuietDue
  <1>2. CASE \E f \in Disk \ {Root} : LocalEdit(f)
    <2>1. PICK hit : Change(hit, {}) /\ plan' = plan
      BY <1>2 DEF LocalEdit
    <2> QED BY <2>1, ChangeOwes, QuietDue
  <1>3. ASSUME NEW c \in Reader,
               \/ \E o \in {"stat", "readdir"}, p \in Asked : Read(c, o, p)
               \/ Hit(c) \/ Miss(c) \/ Fetch(c) \/ ReaddirFails(c)
               \/ StatStore(c) \/ ReaddirStore(c)
        PROVE  DueInv'
    BY <1>3, ReaderDue
  <1>4. ASSUME NEW w \in Writer, NEW p \in Path \ {Root}, NEW steps \in Plans(p), ChangingCall(w, steps)
        PROVE  DueInv'
    <2>1. /\ plan[w] = << >> /\ plan'[w] = steps /\ DOMAIN plan' = DOMAIN plan
          /\ \A v \in Writer \ {w} : plan'[v] = plan[v]
          /\ UNCHANGED <<stats, listings, got>>
      BY <1>4 DEF ChangingCall, cache, readers, DueInv, PlanInv
    <2>2. PlanInv'
      BY <2>1, PlansOrdered DEF DueInv, PlanInv
    <2>3. \A x : Due(x) => Due(x)'
      <3>1. Len(<< >>) = 0 /\ 1..0 = {}
        OBVIOUS
      <3> QED BY <2>1, <3>1 DEF Due
    <2> QED BY <2>1, <2>2, <2>3 DEF DueInv, StatsDue, ListingsDue, NothingHeld
  <1>5. ASSUME NEW w \in Writer, Perform(w) \/ InvalidateStep(w)
        PROVE  DueInv'
    BY <1>5, PerformDue, InvalidateDue
  <1>6. CASE UNCHANGED vars
    BY <1>6, QuietDue DEF vars, cache, readers, DueInv, NothingHeld
  <1> QED BY <1>1, <1>2, <1>3, <1>4, <1>5, <1>6 DEF Next

\* invalidate's promise: Mkdir, RemoveAll, Rename and a written file's Close get rid
\* of what a PROPFIND of the paths they name, or of their directories, spelled the
\* same way, would be answered from, if they made it stale where it lay: also if
\* they fail half way or their steps are mixed with those of other calls.  What
\* they leave behind besides is listed at PropfindSeesChange.
THEOREM ChangesCorrect == Spec => []PropfindSeesChange
  <1>1. Init => DueInv
    <2> SUFFICES ASSUME Init PROVE DueInv
      OBVIOUS
    <2>1. PlanInv
      BY DEF Init, PlanInv, WellOrdered
    <2>2. StatsDue /\ ListingsDue
      BY DEF Init, StatsDue, ListingsDue, Missing, NoListing, Fresh
    <2>3. NothingHeld
      <3>1. DOMAIN << >> = {}
        OBVIOUS
      <3> QED BY <3>1 DEF Init, NothingHeld
    <2> QED BY <2>1, <2>2, <2>3 DEF DueInv
  <1>2. DueInv => PropfindSeesChange
    <2>1. Len(<< >>) = 0 /\ 1..0 = {}
      OBVIOUS
    <2> SUFFICES ASSUME DueInv, \A w \in Writer : plan[w] = << >>
                 PROVE  \A p \in Path : /\ ~stats[p].copy.owed
                                        /\ \A q \in Listed(p) : ~listings[p].row[q].owed
      BY Zenon DEF PropfindSeesChange
    <2>2. ASSUME NEW x PROVE ~Due(x)
      BY <2>1 DEF Due
    <2> QED BY <2>2, Zenon DEF DueInv, StatsDue, ListingsDue
  <1> QED BY <1>1, <1>2, InitCache, NextCache, NextDue, PTL DEF Spec

=============================================================================
