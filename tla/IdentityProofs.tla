--------------------------- MODULE IdentityProofs ---------------------------
(***************************************************************************)
(* Proofs about Identity, for any number of processes, aliases and keys.   *)
(*                                                                         *)
(* SeedInv: while nobody raced, at most one process is creating the seed,  *)
(* and nobody has a key before it is on disk.  SaveInv: while nobody       *)
(* clashed, at most one process is saving, it has the temporary file to    *)
(* itself, and that file is not the keyring.  CountInv ties the history    *)
(* counters to the program.  CopyInv is why pins last: a process that      *)
(* opened the keyring after p saved has p's pin in its copy, unless a      *)
(* stale process had saved in between.                                     *)
(***************************************************************************)
EXTENDS Identity, TLAPS

Creating == {"create seed", "write seed"}

SeedInv ==
  ~raced =>
    /\ \A p \in Proc : myKey[p] # Null => seedFile = myKey[p]
    /\ \A p \in Proc : pc[p] = "create seed" => seedFile = Null
    /\ \A p \in Proc : pc[p] = "write seed" => seedFile = "torn"
    /\ \A p, q \in Proc : pc[p] \in Creating /\ pc[q] \in Creating => p = q

Fresh == {"new", "create seed", "write seed", "open keyring", "check", "open tmp"}

SaveInv ==
  /\ \A p \in Proc : pc[p] \in Fresh => p # tmpName /\ p # ringName
  /\ ~clashed =>
       /\ \A p, q \in Proc : pc[p] \in Saving /\ pc[q] \in Saving => p = q
       /\ \A p \in Proc : pc[p] \in Saving => tmpName # Null /\ fd[p] = tmpName
       /\ \A p \in Proc : pc[p] = "write tmp" => content[tmpName] = Empty
       /\ \A p \in Proc : pc[p] = "rename" => content[tmpName] = Whole(peers[p])
       /\ tmpName # Null => tmpName # ringName
       /\ ringName # Null => content[ringName].state = "whole"

CountInv ==
  /\ ringName = Null <=> saves = 0
  /\ \A p \in Proc :
       /\ opened[p] <= saves /\ saved[p] <= saves
       /\ pc[p] \in Fresh \cup Saving => saved[p] = 0
       /\ pc[p] \in Saving \cup {"open tmp"} \/ saved[p] > 0 =>
            /\ peer[p] \in [alias : Alias, key : Key]
            /\ peers[p][peer[p].alias] = peer[p].key
       /\ pc[p] \in {"new", "create seed", "write seed", "open keyring"} =>
            opened[p] = 0

HasPin(pins, p) == pins[peer[p].alias] = peer[p].key

CopyInv ==
  ~clashed => \A p \in Proc : saved[p] > 0 =>
    /\ HasPin(content[ringName].pins, p) \/ \E r \in Proc : Stale(r, p)
    /\ \A q \in Proc : opened[q] >= saved[p] =>
         HasPin(peers[q], p) \/ \E r \in Proc : Stale(r, p) /\ saved[r] <= opened[q]

Inv == TypeOK /\ SeedInv /\ SaveInv /\ CountInv /\ CopyInv

-----------------------------------------------------------------------------
(* Types.                                                                  *)

LEMMA FileFacts ==
  /\ NoPins \in Pins /\ Empty \in File /\ Torn \in File
  /\ \A f \in File : f.pins \in Pins /\ f.state \in {"empty", "torn", "whole"}
  /\ \A pins \in Pins : Whole(pins) \in File
  /\ \A pins : Whole(pins).state = "whole" /\ Whole(pins).pins = pins
  /\ Empty.state = "empty" /\ Torn.state = "torn"
  <1>1. NoPins \in Pins
    BY DEF Pins, NoPins
  <1>2. Empty \in File /\ Torn \in File /\ \A pins \in Pins : Whole(pins) \in File
    BY DEF File
  <1>3. \A pins : Whole(pins).state = "whole" /\ Whole(pins).pins = pins
    BY DEF Whole
  <1>4. /\ Empty.state = "empty" /\ Torn.state = "torn"
        /\ Empty.pins = NoPins /\ Torn.pins = NoPins
    BY DEF Empty, Torn
  <1>5. ASSUME NEW f \in File PROVE f.pins \in Pins /\ f.state \in {"empty", "torn", "whole"}
    <2>1. f = Empty \/ f = Torn \/ \E pins \in Pins : f = Whole(pins)
      BY DEF File
    <2> QED BY <2>1, <1>1, <1>3, <1>4
  <1> QED BY <1>1, <1>2, <1>3, <1>4, <1>5

LEMMA GotoFacts ==
  ASSUME TypeOK, NEW p \in Proc, NEW w \in Place, Goto(p, w)
  PROVE  /\ pc' \in [Proc -> Place]
         /\ pc'[p] = w /\ \A q \in Proc : q # p => pc'[q] = pc[q]
  BY DEF TypeOK, Goto

LEMMA TypeInit == Init => TypeOK
  <1> SUFFICES ASSUME Init PROVE TypeOK
    OBVIOUS
  <1>1. peers \in [Proc -> Pins] /\ content \in [Proc -> File]
    BY FileFacts DEF Init
  <1>2. /\ pc \in [Proc -> Place] /\ myKey \in [Proc -> Proc \cup {Null}]
        /\ fd \in [Proc -> Proc \cup {Null}]
        /\ peer \in [Proc -> [alias : Alias, key : Key] \cup {Null}]
        /\ opened \in [Proc -> Nat] /\ saved \in [Proc -> Nat]
    BY DEF Init, Place
  <1> QED BY <1>1, <1>2 DEF Init, TypeOK

LEMMA ReadSeedType ==
  ASSUME TypeOK, NEW p \in Proc, ReadSeed(p)
  PROVE  TypeOK'
  <1>1. pc' \in [Proc -> Place]
    BY DEF ReadSeed, Goto, TypeOK, Place
  <1>2. myKey' \in [Proc -> Proc \cup {Null}]
    BY DEF ReadSeed, TypeOK
  <1>3. raced' \in BOOLEAN
    <2>1. (raced \/ \E q \in Proc \ {p} : pc[q] \in {"create seed", "write seed"}) \in BOOLEAN
      OBVIOUS
    <2>2. raced \in BOOLEAN
      BY DEF TypeOK
    <2> QED BY <2>1, <2>2 DEF ReadSeed
  <1> QED BY <1>1, <1>2, <1>3 DEF TypeOK, ReadSeed, ringVars

LEMMA CreateSeedType ==
  ASSUME TypeOK, NEW p \in Proc, CreateSeed(p)
  PROVE  TypeOK'
  BY DEF CreateSeed, Goto, TypeOK, Place, ringVars

LEMMA WriteSeedType ==
  ASSUME TypeOK, NEW p \in Proc, WriteSeed(p)
  PROVE  TypeOK'
  BY DEF WriteSeed, Goto, TypeOK, Place, ringVars

LEMMA OpenKeyringType ==
  ASSUME TypeOK, NEW p \in Proc, OpenKeyring(p)
  PROVE  TypeOK'
  <1>1. pc' \in [Proc -> Place]
    BY DEF OpenKeyring, Goto, TypeOK, Place
  <1>2. opened' \in [Proc -> Nat]
    BY DEF OpenKeyring, TypeOK
  <1>3. peers' \in [Proc -> Pins]
    <2>1. ringName # Null => content[ringName].pins \in Pins
      BY FileFacts DEF TypeOK
    <2> QED BY <2>1 DEF OpenKeyring, TypeOK
  <1> QED BY <1>1, <1>2, <1>3 DEF TypeOK, OpenKeyring, seedVars

LEMMA CheckType ==
  ASSUME TypeOK, NEW p \in Proc, Check(p)
  PROVE  TypeOK'
  <1>1. PICK a \in Alias, k \in Key :
               /\ peers' = [peers EXCEPT ![p][a] = k]
               /\ peer' = [peer EXCEPT ![p] = [alias |-> a, key |-> k]]
    BY DEF Check
  <1>2. pc' \in [Proc -> Place]
    BY DEF Check, Goto, TypeOK, Place
  <1>3. peers' \in [Proc -> Pins]
    BY <1>1 DEF TypeOK, Pins
  <1>4. peer' \in [Proc -> [alias : Alias, key : Key] \cup {Null}]
    BY <1>1 DEF TypeOK
  <1> QED BY <1>2, <1>3, <1>4 DEF TypeOK, Check, seedVars

LEMMA UntrustedType ==
  ASSUME TypeOK, NEW p \in Proc, Untrusted(p)
  PROVE  TypeOK'
  BY DEF Untrusted, Goto, TypeOK, Place, seedVars, ringVars

LEMMA NotPinnedType ==
  ASSUME TypeOK, NEW p \in Proc, NotPinned(p)
  PROVE  TypeOK'
  BY DEF NotPinned, Goto, TypeOK, Place, seedVars, ringVars

LEMMA OpenTmpType ==
  ASSUME TypeOK, NEW p \in Proc, OpenTmp(p)
  PROVE  TypeOK'
  <1>1. pc' \in [Proc -> Place]
    BY DEF OpenTmp, Goto, TypeOK, Place, Saving
  <1>2. /\ tmpName' \in Proc \cup {Null} /\ fd' \in [Proc -> Proc \cup {Null}]
        /\ content' \in [Proc -> File]
    BY FileFacts DEF OpenTmp, TypeOK
  <1>3. clashed' \in BOOLEAN
    <2>1. (clashed \/ Clash(p)) \in BOOLEAN
      OBVIOUS
    <2> QED BY <2>1 DEF OpenTmp
  <1> QED BY <1>1, <1>2, <1>3 DEF TypeOK, OpenTmp, seedVars

LEMMA WriteTmpType ==
  ASSUME TypeOK, NEW p \in Proc, WriteTmp(p)
  PROVE  TypeOK'
  <1>1. pc' \in [Proc -> Place]
    BY DEF WriteTmp, Goto, TypeOK, Place, Saving
  <1>2. content' \in [Proc -> File]
    <2>1. Whole(peers[p]) \in File /\ Torn \in File
      BY FileFacts DEF TypeOK
    <2> QED BY <2>1 DEF WriteTmp, TypeOK
  <1> QED BY <1>1, <1>2 DEF TypeOK, WriteTmp, seedVars

LEMMA RenameType ==
  ASSUME TypeOK, NEW p \in Proc, Rename(p)
  PROVE  TypeOK'
  <1>1. pc' \in [Proc -> Place]
    BY DEF Rename, Goto, TypeOK, Place
  <1>2. saves' \in Nat /\ saved' \in [Proc -> Nat]
    BY DEF Rename, TypeOK
  <1> QED BY <1>1, <1>2 DEF TypeOK, Rename, seedVars

LEMMA CrashType ==
  ASSUME TypeOK, NEW p \in Proc, Crash(p)
  PROVE  TypeOK'
  <1>1. pc' \in [Proc -> Place]
    BY DEF Crash, Goto, TypeOK, Place
  <1>2. content' \in [Proc -> File]
    BY FileFacts DEF Crash, TypeOK
  <1> QED BY <1>1, <1>2 DEF TypeOK, Crash, seedVars

LEMMA TypeStep == TypeOK /\ [Next]_vars => TypeOK'
  <1> SUFFICES ASSUME TypeOK, [Next]_vars PROVE TypeOK'
    OBVIOUS
  <1>1. CASE UNCHANGED vars
    BY <1>1 DEF vars, TypeOK
  <1>2. CASE Next
    BY <1>2, ReadSeedType, CreateSeedType, WriteSeedType, OpenKeyringType, CheckType, UntrustedType,
       NotPinnedType, OpenTmpType, WriteTmpType, RenameType, CrashType DEF Next
  <1> QED BY <1>1, <1>2

THEOREM TypeCorrect == Spec => []TypeOK
  BY TypeInit, TypeStep, PTL DEF Spec

-----------------------------------------------------------------------------
(* The seed.                                                               *)

\* Steps after LoadOrCreate, and a process that ends.
LEMMA LaterSeed ==
  ASSUME SeedInv, UNCHANGED seedVars,
         \A q \in Proc : pc'[q] \in Creating => pc'[q] = pc[q]
  PROVE  SeedInv'
  BY DEF SeedInv, seedVars, Creating

LEMMA ReadSeedSeed ==
  ASSUME TypeOK, SeedInv, NEW p \in Proc, ReadSeed(p)
  PROVE  SeedInv'
  <1>0. "create seed" \in Place /\ "gone" \in Place /\ "open keyring" \in Place
    BY DEF Place
  <1>1. CASE seedFile = Null
    <2>1. UNCHANGED <<seedFile, myKey>> /\ Goto(p, "create seed")
      BY <1>1, NullAssumption, TornAssumption DEF ReadSeed
    <2>2. pc'[p] = "create seed" /\ \A q \in Proc : q # p => pc'[q] = pc[q]
      BY <1>0, <2>1, GotoFacts
    <2>3. ~raced' => ~raced /\ \A q \in Proc \ {p} : pc[q] \notin Creating
      BY <1>1, NullAssumption DEF ReadSeed, Creating
    <2> QED BY <1>1, <2>1, <2>2, <2>3 DEF SeedInv, Creating
  <1>2. CASE seedFile # Null
    <2>1. UNCHANGED <<seedFile, raced>> /\ pc' \in {[pc EXCEPT ![p] = "gone"], [pc EXCEPT ![p] = "open keyring"]}
          /\ myKey' \in {myKey, [myKey EXCEPT ![p] = seedFile]}
      BY <1>2 DEF ReadSeed, Goto
    <2>2. pc'[p] \notin Creating /\ \A q \in Proc : q # p => pc'[q] = pc[q]
      BY <2>1 DEF TypeOK, Creating
    <2>3. \A q \in Proc : myKey'[q] \in {myKey[q], seedFile}
      BY <2>1 DEF TypeOK
    <2>4. \A q \in Proc : pc'[q] \in Creating => pc'[q] = pc[q]
      BY <2>2
    <2> QED BY <2>1, <2>3, <2>4 DEF SeedInv, Creating
  <1> QED BY <1>1, <1>2

LEMMA CreateSeedSeed ==
  ASSUME TypeOK, SeedInv, NEW p \in Proc, CreateSeed(p)
  PROVE  SeedInv'
  <1>1. pc[p] = "create seed" /\ UNCHANGED <<myKey, raced>> /\ seedFile' = "torn"
        /\ pc'[p] = "write seed" /\ \A q \in Proc : q # p => pc'[q] = pc[q]
    BY GotoFacts DEF CreateSeed, Place
  <1> SUFFICES ASSUME ~raced PROVE SeedInv'
    BY <1>1 DEF SeedInv
  <1>2. \A q \in Proc : myKey[q] = Null
    BY <1>1 DEF SeedInv
  <1>3. \A q \in Proc : q # p => pc[q] \notin Creating
    BY <1>1 DEF SeedInv, Creating
  <1> QED BY <1>1, <1>2, <1>3 DEF SeedInv, Creating

LEMMA WriteSeedSeed ==
  ASSUME TypeOK, SeedInv, NEW p \in Proc, WriteSeed(p)
  PROVE  SeedInv'
  <1>1. pc[p] = "write seed" /\ UNCHANGED raced /\ seedFile' = p
        /\ pc'[p] = "open keyring" /\ (\A q \in Proc : q # p => pc'[q] = pc[q])
        /\ myKey'[p] = p /\ \A q \in Proc : q # p => myKey'[q] = myKey[q]
    BY GotoFacts DEF WriteSeed, Place, TypeOK
  <1> SUFFICES ASSUME ~raced PROVE SeedInv'
    BY <1>1 DEF SeedInv
  <1>2. \A q \in Proc : myKey[q] = Null
    <2>1. \A q \in Proc : myKey[q] # Null => myKey[q] = "torn"
      BY <1>1 DEF SeedInv
    <2> QED BY <2>1, TornAssumption DEF TypeOK
  <1>3. \A q \in Proc : q # p => pc[q] \notin Creating
    BY <1>1 DEF SeedInv, Creating
  <1>4. \A q \in Proc : pc'[q] \notin Creating
    BY <1>1, <1>3 DEF Creating
  <1> QED BY <1>1, <1>2, <1>4 DEF SeedInv, Creating

LEMMA SeedStep == TypeOK /\ SeedInv /\ [Next]_vars => SeedInv'
  <1> SUFFICES ASSUME TypeOK, SeedInv, [Next]_vars PROVE SeedInv'
    OBVIOUS
  <1>1. CASE UNCHANGED vars
    BY <1>1 DEF vars, seedVars, SeedInv, Creating
  <1>2. ASSUME NEW p \in Proc,
               \/ OpenKeyring(p) \/ Check(p) \/ Untrusted(p) \/ NotPinned(p)
               \/ OpenTmp(p) \/ WriteTmp(p) \/ Rename(p) \/ Crash(p)
        PROVE  SeedInv'
    <2>1. UNCHANGED seedVars
      BY <1>2 DEF OpenKeyring, Check, Untrusted, NotPinned, OpenTmp, WriteTmp, Rename, Crash
    <2>2. \E w \in Place \ Creating : Goto(p, w)
      BY <1>2 DEF OpenKeyring, Check, Untrusted, NotPinned, OpenTmp, WriteTmp, Rename, Crash,
                  Place, Creating, Saving
    <2>3. \A q \in Proc : pc'[q] \in Creating => pc'[q] = pc[q]
      BY <2>2 DEF Goto, TypeOK
    <2> QED BY <2>1, <2>3, LaterSeed
  <1> QED BY <1>1, <1>2, ReadSeedSeed, CreateSeedSeed, WriteSeedSeed DEF Next

\* Every process of the node loads the key that is on disk (package comment),
\* unless two first starts overlap.
THEOREM OneKeyCorrect == Spec => []OneKey
  <1>1. Init => SeedInv
    BY DEF Init, SeedInv, Creating
  <1>2. SeedInv => OneKey
    BY DEF SeedInv, OneKey
  <1> QED BY <1>1, <1>2, TypeInit, TypeStep, SeedStep, PTL DEF Spec

-----------------------------------------------------------------------------
(* The keyring file.                                                       *)

\* Steps that leave the files alone.
LEMMA QuietSave ==
  ASSUME SaveInv, UNCHANGED <<content, tmpName, ringName, fd, clashed>>,
         \A q \in Proc : pc'[q] \in Fresh => pc[q] \in Fresh,
         \A q \in Proc : pc'[q] \in Saving => pc'[q] = pc[q] /\ peers'[q] = peers[q]
  PROVE  SaveInv'
  <1>1. \A q \in Proc : /\ pc'[q] = "write tmp" => pc[q] = "write tmp"
                        /\ pc'[q] = "rename" => pc[q] = "rename" /\ peers'[q] = peers[q]
    BY DEF Saving
  <1>2. \A q \in Proc : pc'[q] \in Fresh => q # tmpName' /\ q # ringName'
    BY DEF SaveInv
  <1>3. ~clashed' =>
          /\ \A p, q \in Proc : pc'[p] \in Saving /\ pc'[q] \in Saving => p = q
          /\ \A p \in Proc : pc'[p] \in Saving => tmpName' # Null /\ fd'[p] = tmpName'
    BY DEF SaveInv
  <1>4. ~clashed' =>
          /\ \A p \in Proc : pc'[p] = "write tmp" => content'[tmpName'] = Empty
          /\ \A p \in Proc : pc'[p] = "rename" => content'[tmpName'] = Whole(peers'[p])
    BY <1>1 DEF SaveInv
  <1>5. ~clashed' =>
          /\ tmpName' # Null => tmpName' # ringName'
          /\ ringName' # Null => content'[ringName'].state = "whole"
    BY DEF SaveInv
  <1> QED BY <1>2, <1>3, <1>4, <1>5 DEF SaveInv

LEMMA OpenTmpSave ==
  ASSUME TypeOK, SaveInv, NEW p \in Proc, OpenTmp(p)
  PROVE  SaveInv'
  <1> DEFINE i == IF tmpName = Null THEN p ELSE tmpName
  <1>1. /\ pc[p] = "open tmp" /\ pc'[p] = "write tmp"
        /\ \A q \in Proc : q # p => pc'[q] = pc[q]
    BY GotoFacts DEF OpenTmp, Place, Saving
  <1>2. /\ i \in Proc /\ i # Null /\ tmpName' = i /\ UNCHANGED <<ringName, peers>>
        /\ fd'[p] = i /\ \A q \in Proc : q # p => fd'[q] = fd[q]
        /\ content'[i] = Empty /\ \A q \in Proc : q # i => content'[q] = content[q]
    BY NullAssumption DEF OpenTmp, TypeOK
  <1>3. ~clashed' => ~clashed /\ \A q \in Proc : q # p => pc[q] \notin Saving
    BY DEF OpenTmp, Clash
  <1>4. p # ringName /\ pc[p] \in Fresh
    BY <1>1 DEF SaveInv, Fresh
  <1>5. ~clashed => i # ringName
    BY <1>4 DEF SaveInv
  <1> HIDE DEF i
  <1>6. \A q \in Proc : pc'[q] \in Fresh => q # tmpName' /\ q # ringName'
    <2>1. i = p \/ i = tmpName
      BY DEF i
    <2>2. pc'[p] \notin Fresh
      BY <1>1 DEF Fresh
    <2> QED BY <1>1, <1>2, <2>1, <2>2 DEF SaveInv
  <1>7. ASSUME ~clashed'
        PROVE  \A q \in Proc : pc'[q] \in Saving => q = p
    BY <1>1, <1>3, <1>7
  <1>8. ASSUME ~clashed', ringName' # Null
        PROVE  content'[ringName'].state = "whole"
    BY <1>2, <1>3, <1>5, <1>8 DEF SaveInv, TypeOK
  <1>9. pc'[p] # "rename" /\ \A q \in Proc : pc'[q] = "write tmp" \/ pc'[q] = "rename" => pc'[q] \in Saving
    BY <1>1 DEF Saving
  <1> QED BY <1>2, <1>3, <1>5, <1>6, <1>7, <1>8, <1>9 DEF SaveInv

LEMMA WriteTmpSave ==
  ASSUME TypeOK, SaveInv, NEW p \in Proc, WriteTmp(p)
  PROVE  SaveInv'
  <1>1. /\ pc[p] = "write tmp" /\ pc'[p] = "rename"
        /\ \A q \in Proc : q # p => pc'[q] = pc[q]
    BY GotoFacts DEF WriteTmp, Place, Saving
  <1>2. UNCHANGED <<tmpName, ringName, fd, peers, clashed>>
    BY DEF WriteTmp
  <1>3. \A q \in Proc : pc'[q] \in Fresh => q # tmpName' /\ q # ringName'
    BY <1>1, <1>2 DEF SaveInv, Fresh
  <1>4. ASSUME ~clashed
        PROVE  /\ \A q \in Proc : pc'[q] \in Saving => q = p
               /\ tmpName # Null /\ fd[p] = tmpName /\ tmpName # ringName
               /\ content[tmpName] = Empty
               /\ ringName # Null => content[ringName].state = "whole"
    BY <1>1, <1>4 DEF SaveInv, Saving
  <1>5. ASSUME ~clashed
        PROVE  content'[tmpName] = Whole(peers[p]) /\ \A q \in Proc : q # tmpName => content'[q] = content[q]
    BY <1>4, <1>5, FileFacts DEF WriteTmp, TypeOK
  <1>6. ASSUME ~clashed, ringName # Null
        PROVE  content'[ringName].state = "whole"
    BY <1>4, <1>5, <1>6 DEF TypeOK
  <1>7. \A q \in Proc : pc'[q] = "write tmp" \/ pc'[q] = "rename" => pc'[q] \in Saving
    BY DEF Saving
  <1> QED BY <1>1, <1>2, <1>3, <1>4, <1>5, <1>6, <1>7 DEF SaveInv

LEMMA RenameSave ==
  ASSUME TypeOK, SaveInv, NEW p \in Proc, Rename(p)
  PROVE  SaveInv'
  <1>1. /\ pc[p] = "rename" /\ pc'[p] \in {"running", "gone"}
        /\ \A q \in Proc : q # p => pc'[q] = pc[q]
    BY GotoFacts DEF Rename, Place
  <1>2. UNCHANGED <<content, fd, peers, clashed>>
        /\ tmpName' = Null /\ ringName' \in {tmpName, ringName}
        /\ (tmpName # Null => ringName' = tmpName)
    BY DEF Rename
  <1>3. pc'[p] \notin Fresh /\ pc'[p] \notin Saving
    BY <1>1 DEF Fresh, Saving
  <1>4. \A q \in Proc : pc'[q] \in Fresh => q # tmpName' /\ q # ringName'
    BY <1>1, <1>2, <1>3, NullAssumption DEF SaveInv
  <1>5. ASSUME ~clashed
        PROVE  /\ \A q \in Proc : pc'[q] \notin Saving
               /\ tmpName # Null /\ content[tmpName] = Whole(peers[p])
    BY <1>1, <1>3, <1>5 DEF SaveInv, Saving
  <1>6. ASSUME ~clashed
        PROVE  content'[ringName'].state = "whole"
    BY <1>2, <1>5, <1>6, FileFacts
  <1>7. \A q \in Proc : pc'[q] = "write tmp" \/ pc'[q] = "rename" => pc'[q] \in Saving
    BY DEF Saving
  <1> QED BY <1>2, <1>4, <1>5, <1>6, <1>7 DEF SaveInv

LEMMA CrashSave ==
  ASSUME TypeOK, SaveInv, NEW p \in Proc, Crash(p)
  PROVE  SaveInv'
  <1>1. /\ pc'[p] = "gone" /\ UNCHANGED <<tmpName, ringName, fd, peers, clashed>>
        /\ \A q \in Proc : q # p => pc'[q] = pc[q]
    BY GotoFacts DEF Crash, Place
  <1>2. pc'[p] \notin Fresh /\ pc'[p] \notin Saving
    BY <1>1 DEF Fresh, Saving
  <1>3. CASE UNCHANGED content
    BY <1>1, <1>2, <1>3, QuietSave
  <1>4. CASE pc[p] = "write tmp" /\ content' = [content EXCEPT ![fd[p]] = Torn]
    <2>1. \A q \in Proc : pc'[q] \in Fresh => q # tmpName' /\ q # ringName'
      BY <1>1, <1>2 DEF SaveInv
    <2>2. ASSUME ~clashed
          PROVE  /\ \A q \in Proc : pc'[q] \notin Saving
                 /\ fd[p] = tmpName /\ tmpName # ringName
      BY <1>1, <1>2, <1>4, <2>2 DEF SaveInv, Saving
    <2>3. ASSUME ~clashed, ringName # Null
          PROVE  content'[ringName].state = "whole"
      BY <1>4, <2>2, <2>3 DEF SaveInv, TypeOK
    <2>4. \A q \in Proc : pc'[q] = "write tmp" \/ pc'[q] = "rename" => pc'[q] \in Saving
      BY DEF Saving
    <2> QED BY <1>1, <2>1, <2>2, <2>3, <2>4 DEF SaveInv
  <1> QED BY <1>3, <1>4 DEF Crash

LEMMA SaveStep == TypeOK /\ SaveInv /\ [Next]_vars => SaveInv'
  <1> SUFFICES ASSUME TypeOK, SaveInv, [Next]_vars PROVE SaveInv'
    OBVIOUS
  <1>1. CASE UNCHANGED vars
    <2>1. UNCHANGED <<content, tmpName, ringName, fd, clashed, pc, peers>>
      BY <1>1 DEF vars
    <2> QED BY <2>1, QuietSave
  <1>2. ASSUME NEW p \in Proc,
               \/ ReadSeed(p) \/ CreateSeed(p) \/ WriteSeed(p) \/ OpenKeyring(p)
               \/ Check(p) \/ Untrusted(p) \/ NotPinned(p)
        PROVE  SaveInv'
    <2>1. UNCHANGED <<content, tmpName, ringName, fd, clashed>>
      BY <1>2 DEF ReadSeed, CreateSeed, WriteSeed, OpenKeyring, Check, Untrusted, NotPinned, ringVars
    <2>2. pc[p] \in Fresh /\ \E w \in Place \ Saving : Goto(p, w)
      BY <1>2 DEF ReadSeed, CreateSeed, WriteSeed, OpenKeyring, Check, Untrusted, NotPinned,
                  Fresh, Place, Saving
    <2>3. pc'[p] \notin Saving /\ \A q \in Proc : q # p => pc'[q] = pc[q]
      BY <2>2 DEF Goto, TypeOK
    <2>4. \A q \in Proc : q # p => peers'[q] = peers[q]
      BY <1>2 DEF ReadSeed, CreateSeed, WriteSeed, OpenKeyring, Check, Untrusted, NotPinned,
                  ringVars, TypeOK
    <2>5. \A q \in Proc : pc'[q] \in Fresh => pc[q] \in Fresh
      BY <2>2, <2>3
    <2>6. \A q \in Proc : pc'[q] \in Saving => pc'[q] = pc[q] /\ peers'[q] = peers[q]
      BY <2>3, <2>4
    <2> QED BY <2>1, <2>5, <2>6, QuietSave
  <1> QED BY <1>1, <1>2, OpenTmpSave, WriteTmpSave, RenameSave, CrashSave DEF Next

LEMMA SaveInit == Init => SaveInv
  BY NullAssumption DEF Init, SaveInv, Saving, Fresh

\* No crash leaves a keyring that does not parse (Keyring's comment), as long as
\* two processes do not save at a time.
THEOREM FileReadableCorrect == Spec => []FileReadable
  <1>1. SaveInv => FileReadable
    BY DEF SaveInv, FileReadable
  <1> QED BY <1>1, TypeInit, TypeStep, SaveInit, SaveStep, PTL DEF Spec

-----------------------------------------------------------------------------
(* Pins.                                                                   *)

Early == {"new", "create seed", "write seed", "open keyring"}

LEMMA CountInit == Init => CountInv
  BY DEF Init, CountInv, Saving

LEMMA CountFacts ==
  ASSUME TypeOK, CountInv, NEW p \in Proc
  PROVE  /\ opened[p] \in Nat /\ saved[p] \in Nat /\ saves \in Nat
         /\ opened[p] <= saves /\ saved[p] <= saves
         /\ opened[p] < saves + 1 /\ saved[p] <= saves + 1 /\ opened[p] <= saves + 1
         /\ saved[p] > 0 => ringName # Null
         /\ pc[p] \in Fresh \cup Saving => saved[p] = 0
  <1>1. /\ opened[p] \in Nat /\ saved[p] \in Nat /\ saves \in Nat
        /\ opened[p] <= saves /\ saved[p] <= saves
    BY DEF TypeOK, CountInv
  <1>2. ringName = Null => saves = 0
    BY DEF CountInv
  <1>3. saved[p] > 0 => saves # 0
    BY <1>1
  <1>4. opened[p] < saves + 1 /\ saved[p] <= saves + 1 /\ opened[p] <= saves + 1
    BY <1>1
  <1>5. pc[p] \in Fresh \cup Saving => saved[p] = 0
    BY DEF CountInv
  <1> QED BY <1>1, <1>2, <1>3, <1>4, <1>5

\* Steps that change no counter, no copy and no name of a file.
LEMMA QuietCount ==
  ASSUME CountInv, UNCHANGED <<ringName, peers, peer, saves, opened, saved>>,
         \A q \in Proc : /\ pc'[q] \in Fresh \cup Saving => pc[q] \in Fresh \cup Saving
                         /\ pc'[q] \in Saving \cup {"open tmp"} => pc[q] \in Saving \cup {"open tmp"}
                         /\ pc'[q] \in Early => pc[q] \in Early
  PROVE  CountInv'
  BY DEF CountInv, Early

LEMMA OpenKeyringCount ==
  ASSUME TypeOK, CountInv, NEW p \in Proc, OpenKeyring(p)
  PROVE  CountInv'
  <1>1. /\ pc[p] = "open keyring" /\ pc'[p] \in {"check", "gone"}
        /\ \A q \in Proc : q # p => pc'[q] = pc[q]
    BY GotoFacts DEF OpenKeyring, Place
  <1>2. /\ UNCHANGED <<ringName, peer, saves, saved>>
        /\ opened'[p] = saves /\ saves \in Nat
        /\ \A q \in Proc : q # p => opened'[q] = opened[q] /\ peers'[q] = peers[q]
    BY DEF OpenKeyring, TypeOK
  <1>3. saved[p] = 0
    BY <1>1 DEF CountInv, Fresh
  <1>4. pc'[p] \notin Saving \cup {"open tmp"} \cup Early
    BY <1>1 DEF Saving, Early
  <1>5. saves <= saves /\ saved[p] <= saves
    BY CountFacts
  <1>6. ~(saved[p] > 0)
    BY <1>3
  <1> QED BY <1>1, <1>2, <1>3, <1>4, <1>5, <1>6 DEF CountInv, Early

LEMMA CheckFacts ==
  ASSUME TypeOK, NEW p \in Proc, Check(p)
  PROVE  /\ pc[p] = "check" /\ pc'[p] = "open tmp"
         /\ \A q \in Proc : q # p => /\ pc'[q] = pc[q] /\ peers'[q] = peers[q]
                                     /\ peer'[q] = peer[q]
         /\ UNCHANGED <<ringName, content, saves, opened, saved, clashed>>
         /\ \E a \in Alias, k \in Key :
              /\ peers[p][a] \in {Null, k} /\ peers'[p][a] = k
              /\ peer'[p] = [alias |-> a, key |-> k]
              /\ \A b \in Alias : b # a => peers'[p][b] = peers[p][b]
  <1>1. /\ pc[p] = "check" /\ pc'[p] = "open tmp"
        /\ \A q \in Proc : q # p => pc'[q] = pc[q]
    BY GotoFacts DEF Check, Place
  <1>2. UNCHANGED <<ringName, content, saves, opened, saved, clashed>>
    BY DEF Check
  <1>3. PICK a \in Alias, k \in Key :
          /\ peers[p][a] \in {Null, k}
          /\ peers' = [peers EXCEPT ![p][a] = k]
          /\ peer' = [peer EXCEPT ![p] = [alias |-> a, key |-> k]]
    BY DEF Check
  <1>4. \A q \in Proc : q # p => peers'[q] = peers[q] /\ peer'[q] = peer[q]
    BY <1>3 DEF TypeOK
  <1>5. /\ peers'[p][a] = k /\ peer'[p] = [alias |-> a, key |-> k]
        /\ \A b \in Alias : b # a => peers'[p][b] = peers[p][b]
    BY <1>3 DEF TypeOK, Pins
  <1> QED BY <1>1, <1>2, <1>3, <1>4, <1>5

LEMMA CheckCount ==
  ASSUME TypeOK, CountInv, NEW p \in Proc, Check(p)
  PROVE  CountInv'
  <1>0. /\ pc[p] = "check" /\ pc'[p] = "open tmp"
        /\ \A q \in Proc : q # p => /\ pc'[q] = pc[q] /\ peers'[q] = peers[q]
                                    /\ peer'[q] = peer[q]
        /\ UNCHANGED <<ringName, saves, opened, saved>>
    BY CheckFacts
  <1>1. PICK a \in Alias, k \in Key :
          peers'[p][a] = k /\ peer'[p] = [alias |-> a, key |-> k]
    <2>1. \E a \in Alias, k \in Key :
            /\ peers[p][a] \in {Null, k} /\ peers'[p][a] = k
            /\ peer'[p] = [alias |-> a, key |-> k]
            /\ \A b \in Alias : b # a => peers'[p][b] = peers[p][b]
      BY CheckFacts
    <2> QED BY <2>1
  <1>2. /\ peer'[p] \in [alias : Alias, key : Key]
        /\ peers'[p][peer'[p].alias] = peer'[p].key
    <2>1. peer'[p].alias = a /\ peer'[p].key = k
      BY <1>1
    <2>2. peer'[p] \in [alias : Alias, key : Key]
      BY <1>1
    <2> QED BY <1>1, <2>1, <2>2
  <1>3. saved[p] = 0 /\ pc'[p] \notin Early
    BY <1>0 DEF CountInv, Fresh, Early
  <1>4. ASSUME NEW q \in Proc
        PROVE  /\ opened'[q] <= saves' /\ saved'[q] <= saves'
               /\ pc'[q] \in Fresh \cup Saving => saved'[q] = 0
               /\ pc'[q] \in Saving \cup {"open tmp"} \/ saved'[q] > 0 =>
                    /\ peer'[q] \in [alias : Alias, key : Key]
                    /\ peers'[q][peer'[q].alias] = peer'[q].key
               /\ pc'[q] \in Early => opened'[q] = 0
    <2>1. CASE q = p
      BY <1>0, <1>2, <1>3, <2>1 DEF CountInv
    <2>2. CASE q # p
      BY <1>0, <2>2 DEF CountInv, Early
    <2> QED BY <2>1, <2>2
  <1> QED BY <1>0, <1>4 DEF CountInv, Early

LEMMA RenameCount ==
  ASSUME TypeOK, CountInv, NEW p \in Proc, Rename(p)
  PROVE  CountInv'
  <1>1. /\ pc[p] = "rename" /\ pc'[p] \in {"running", "gone"}
        /\ \A q \in Proc : q # p => pc'[q] = pc[q]
    BY GotoFacts DEF Rename, Place
  <1>2. pc'[p] \notin Fresh \cup Saving \cup {"open tmp"} \cup Early /\ pc[p] \in Saving
    BY <1>1 DEF Fresh, Saving, Early
  <1>3. CASE tmpName = Null
    <2>1. UNCHANGED <<ringName, peers, peer, saves, opened, saved>>
      BY <1>3 DEF Rename
    <2> QED BY <1>1, <1>2, <2>1, QuietCount
  <1>4. CASE tmpName # Null
    <2>1. /\ UNCHANGED <<peers, peer, opened>> /\ saves' = saves + 1 /\ saves \in Nat
          /\ ringName' # Null /\ saved'[p] = saves + 1
          /\ \A q \in Proc : /\ q # p => saved'[q] = saved[q]
                             /\ opened[q] \in Nat /\ saved[q] \in Nat
      BY <1>4 DEF Rename, TypeOK
    <2>2. saves' # 0 /\ \A q \in Proc : opened[q] <= saves' /\ saved'[q] <= saves'
      BY <2>1, CountFacts
    <2>3. /\ peer[p] \in [alias : Alias, key : Key]
          /\ peers[p][peer[p].alias] = peer[p].key
      BY <1>2 DEF CountInv
    <2> QED BY <1>1, <1>2, <2>1, <2>2, <2>3 DEF CountInv, Early
  <1> QED BY <1>3, <1>4

LEMMA CountStep == TypeOK /\ CountInv /\ [Next]_vars => CountInv'
  <1> SUFFICES ASSUME TypeOK, CountInv, [Next]_vars PROVE CountInv'
    OBVIOUS
  <1>1. CASE UNCHANGED vars
    BY <1>1 DEF vars, CountInv
  <1>2. ASSUME NEW p \in Proc,
               \/ ReadSeed(p) \/ CreateSeed(p) \/ WriteSeed(p) \/ Untrusted(p)
               \/ NotPinned(p) \/ OpenTmp(p) \/ WriteTmp(p) \/ Crash(p)
        PROVE  CountInv'
    <2>1. UNCHANGED <<ringName, peers, peer, saves, opened, saved>>
      BY <1>2 DEF ReadSeed, CreateSeed, WriteSeed, Untrusted, NotPinned, OpenTmp, WriteTmp, Crash,
                  ringVars
    <2>2. PICK w \in Place : Goto(p, w) /\
             \/ w \in {"running", "gone"}
             \/ w \in Early /\ pc[p] \in Early
             \/ w \in Saving /\ pc[p] \in Saving \cup {"open tmp"}
      BY <1>2 DEF ReadSeed, CreateSeed, WriteSeed, Untrusted, NotPinned, OpenTmp, WriteTmp, Crash,
                  Place, Early, Saving
    <2>3. pc'[p] = w /\ \A q \in Proc : q # p => pc'[q] = pc[q]
      BY <2>2, GotoFacts
    <2>4. /\ pc'[p] \in Fresh \cup Saving => pc[p] \in Fresh \cup Saving
          /\ pc'[p] \in Saving \cup {"open tmp"} => pc[p] \in Saving \cup {"open tmp"}
          /\ pc'[p] \in Early => pc[p] \in Early
      BY <2>2, <2>3 DEF Fresh, Saving, Early
    <2> QED BY <2>1, <2>3, <2>4, QuietCount
  <1> QED BY <1>1, <1>2, OpenKeyringCount, CheckCount, RenameCount DEF Next

\* Steps that leave the keyring, the copies and the counters alone.
LEMMA QuietCopy ==
  ASSUME TypeOK, CountInv, CopyInv, UNCHANGED <<ringName, peers, peer, opened, saved>>,
         ~clashed' => ~clashed /\ (ringName # Null => content'[ringName] = content[ringName])
  PROVE  CopyInv'
  <1> SUFFICES ASSUME ~clashed', NEW p \in Proc, saved[p] > 0
               PROVE  /\ HasPin(content'[ringName].pins, p) \/ \E r \in Proc : Stale(r, p)
                      /\ \A q \in Proc : opened[q] >= saved[p] =>
                           HasPin(peers[q], p) \/ \E r \in Proc : Stale(r, p) /\ saved[r] <= opened[q]
    BY DEF CopyInv, HasPin, Stale
  <1>1. ringName # Null
    BY CountFacts
  <1> QED BY <1>1 DEF CopyInv

LEMMA OpenKeyringCopy ==
  ASSUME TypeOK, SaveInv, CountInv, CopyInv, NEW o \in Proc, OpenKeyring(o)
  PROVE  CopyInv'
  <1>1. /\ UNCHANGED <<ringName, content, peer, saves, saved, clashed>>
        /\ opened'[o] = saves /\ saves \in Nat
        /\ \A q \in Proc : q # o => opened'[q] = opened[q] /\ peers'[q] = peers[q]
    BY DEF OpenKeyring, TypeOK
  <1>2. saved[o] = 0
    BY DEF OpenKeyring, CountInv, Fresh
  <1> SUFFICES ASSUME ~clashed, NEW p \in Proc, saved[p] > 0
               PROVE  /\ HasPin(content[ringName].pins, p) \/ \E r \in Proc : Stale(r, p)'
                      /\ \A q \in Proc : opened'[q] >= saved[p] =>
                           HasPin(peers'[q], p) \/ \E r \in Proc : Stale(r, p)' /\ saved[r] <= opened'[q]
    BY <1>1 DEF CopyInv, HasPin
  <1>3. \A r \in Proc : Stale(r, p) => Stale(r, p)' /\ saved[r] <= saves
    <2>1. ~Stale(o, p)
      BY <1>2 DEF Stale, TypeOK
    <2> QED BY <1>1, <2>1 DEF Stale, CountInv
  <1>4. HasPin(content[ringName].pins, p) \/ \E r \in Proc : Stale(r, p)' /\ saved[r] <= saves
    BY <1>3 DEF CopyInv
  <1>5. ringName # Null /\ content[ringName].state = "whole"
    BY CountFacts DEF SaveInv
  <1>6. peers'[o] = content[ringName].pins
    BY <1>5 DEF OpenKeyring, TypeOK
  <1>7. \A q \in Proc : q # o => (opened'[q] >= saved[p] =>
          HasPin(peers'[q], p) \/ \E r \in Proc : Stale(r, p)' /\ saved[r] <= opened'[q])
    BY <1>1, <1>3 DEF CopyInv
  <1> QED BY <1>1, <1>4, <1>6, <1>7

LEMMA CheckCopy ==
  ASSUME TypeOK, CountInv, CopyInv, NEW c \in Proc, Check(c)
  PROVE  CopyInv'
  <1>0. /\ pc[c] = "check"
        /\ \A q \in Proc : q # c => peers'[q] = peers[q] /\ peer'[q] = peer[q]
    BY CheckFacts
  <1>a. PICK a \in Alias, k \in Key :
          /\ peers[c][a] \in {Null, k} /\ peers'[c][a] = k
          /\ \A b \in Alias : b # a => peers'[c][b] = peers[c][b]
    BY CheckFacts
  <1>1. saved[c] = 0
    BY <1>0, CountFacts DEF Fresh
  <1>2. UNCHANGED <<ringName, content, opened, saved, clashed>>
    BY CheckFacts
  <1> SUFFICES ASSUME ~clashed, NEW p \in Proc, saved[p] > 0
               PROVE  /\ HasPin(content[ringName].pins, p)' \/ \E r \in Proc : Stale(r, p)'
                      /\ \A q \in Proc : opened[q] >= saved[p] =>
                           HasPin(peers[q], p)' \/ \E r \in Proc : Stale(r, p)' /\ saved[r] <= opened[q]
    BY <1>2 DEF CopyInv
  <1>3. p # c /\ peer'[p] = peer[p]
    BY <1>0, <1>1
  <1>4. peer[p] \in [alias : Alias, key : Key]
    BY DEF CountInv
  <1>5. \A r \in Proc : Stale(r, p)' <=> Stale(r, p)
    BY <1>2 DEF Stale
  <1>6. \A q \in Proc : HasPin(peers[q], p) => HasPin(peers[q], p)'
    <2>1. peer[p].alias \in Alias /\ peer[p].key \in Key /\ peer[p].key # Null
      BY <1>4, NullAssumption
    <2>2. HasPin(peers[c], p) => HasPin(peers[c], p)'
      BY <1>a, <1>3, <2>1 DEF HasPin
    <2>3. \A q \in Proc : q # c => (HasPin(peers[q], p) => HasPin(peers[q], p)')
      BY <1>0, <1>3 DEF HasPin
    <2> QED BY <2>2, <2>3
  <1>7. HasPin(content[ringName].pins, p) => HasPin(content[ringName].pins, p)'
    BY <1>2, <1>3 DEF HasPin
  <1> QED BY <1>5, <1>6, <1>7 DEF CopyInv

LEMMA RenameCopy ==
  ASSUME TypeOK, SaveInv, CountInv, CopyInv, NEW s \in Proc, Rename(s)
  PROVE  CopyInv'
  <1>1. UNCHANGED <<content, peers, peer, opened, clashed>>
    BY DEF Rename
  <1> SUFFICES ASSUME ~clashed PROVE CopyInv'
    BY <1>1 DEF CopyInv
  <1>2. tmpName # Null /\ content[tmpName].pins = peers[s] /\ saved[s] = 0
    BY FileFacts DEF Rename, SaveInv, CountInv, Saving
  <1>3. /\ ringName' = tmpName /\ saved'[s] = saves + 1 /\ saves \in Nat
        /\ \A q \in Proc : /\ q # s => saved'[q] = saved[q]
                           /\ saved[q] \in Nat /\ opened[q] \in Nat
    BY <1>2 DEF Rename, TypeOK
  <1>4. ASSUME NEW p \in Proc, saved'[p] > 0, p # s
        PROVE  /\ HasPin(peers[s], p) \/ \E r \in Proc : Stale(r, p)'
               /\ \A q \in Proc : opened[q] >= saved'[p] =>
                    HasPin(peers[q], p) \/ \E r \in Proc : Stale(r, p)' /\ saved'[r] <= opened[q]
    <2>1. saved'[p] = saved[p] /\ saved[p] > 0 /\ saved[p] <= saves
      BY <1>3, <1>4 DEF CountInv
    <2>2. \A r \in Proc : Stale(r, p) => Stale(r, p)' /\ saved'[r] = saved[r]
      <3>1. ~Stale(s, p)
        BY <1>2, <1>3, <2>1 DEF Stale
      <3> QED BY <1>1, <1>3, <2>1, <3>1 DEF Stale
    <2>3. \A q \in Proc : opened[q] >= saved'[p] =>
            HasPin(peers[q], p) \/ \E r \in Proc : Stale(r, p)' /\ saved'[r] <= opened[q]
      BY <2>1, <2>2 DEF CopyInv
    <2>4. CASE opened[s] >= saved[p]
      BY <2>1, <2>3, <2>4
    <2>5. CASE opened[s] < saved[p]
      <3>1. Stale(s, p)'
        BY <1>1, <1>3, <2>1, <2>5 DEF Stale
      <3> QED BY <2>3, <3>1
    <2> QED BY <1>3, <2>4, <2>5
  <1>5. HasPin(peers[s], s)
    BY DEF Rename, CountInv, HasPin, Saving
  <1>6. \A q \in Proc : ~(opened[q] >= saved'[s])
    BY <1>3, CountFacts
  <1>7. ASSUME NEW p \in Proc, saved'[p] > 0
        PROVE  /\ HasPin(peers[s], p) \/ \E r \in Proc : Stale(r, p)'
               /\ \A q \in Proc : opened[q] >= saved'[p] =>
                    HasPin(peers[q], p) \/ \E r \in Proc : Stale(r, p)' /\ saved'[r] <= opened[q]
    BY <1>4, <1>5, <1>6, <1>7
  <1> QED BY <1>1, <1>2, <1>3, <1>7 DEF CopyInv, HasPin

LEMMA CopyStep == TypeOK /\ SaveInv /\ CountInv /\ CopyInv /\ [Next]_vars => CopyInv'
  <1> SUFFICES ASSUME TypeOK, SaveInv, CountInv, CopyInv, [Next]_vars PROVE CopyInv'
    OBVIOUS
  <1>1. CASE UNCHANGED vars
    <2>1. UNCHANGED <<ringName, peers, peer, opened, saved, clashed, content>>
      BY <1>1 DEF vars
    <2> QED BY <2>1, QuietCopy
  <1>2. ASSUME NEW p \in Proc,
               ReadSeed(p) \/ CreateSeed(p) \/ WriteSeed(p) \/ Untrusted(p) \/ NotPinned(p)
        PROVE  CopyInv'
    <2>1. UNCHANGED <<ringName, peers, peer, opened, saved, clashed, content>>
      BY <1>2 DEF ReadSeed, CreateSeed, WriteSeed, Untrusted, NotPinned, ringVars
    <2> QED BY <2>1, QuietCopy
  <1>3. ASSUME NEW p \in Proc, OpenTmp(p)
        PROVE  CopyInv'
    <2>1. UNCHANGED <<ringName, peers, peer, opened, saved>> /\ (~clashed' => ~clashed)
      BY <1>3 DEF OpenTmp
    <2>2. ~clashed => ringName # (IF tmpName = Null THEN p ELSE tmpName)
      BY <1>3 DEF OpenTmp, SaveInv, Fresh
    <2>3. ~clashed /\ ringName # Null => content'[ringName] = content[ringName]
      BY <1>3, <2>2 DEF OpenTmp, TypeOK
    <2> QED BY <2>1, <2>3, QuietCopy
  <1>4. ASSUME NEW p \in Proc, WriteTmp(p) \/ Crash(p)
        PROVE  CopyInv'
    <2>1. UNCHANGED <<ringName, peers, peer, opened, saved, clashed>>
      BY <1>4 DEF WriteTmp, Crash
    <2>2. ~clashed /\ pc[p] = "write tmp" => ringName # fd[p]
      BY DEF SaveInv, Saving
    <2>3. ~clashed /\ ringName # Null => content'[ringName] = content[ringName]
      BY <1>4, <2>2 DEF WriteTmp, Crash, TypeOK
    <2> QED BY <2>1, <2>3, QuietCopy
  <1> QED BY <1>1, <1>2, <1>3, <1>4, OpenKeyringCopy, CheckCopy, RenameCopy DEF Next

LEMMA InvInit == Init => Inv
  BY TypeInit, SaveInit, CountInit DEF Init, Inv, SeedInv, CopyInv, Creating

LEMMA InvStep == Inv /\ [Next]_vars => Inv'
  BY TypeStep, SeedStep, SaveStep, CountStep, CopyStep DEF Inv

\* A saved pin stays in the keyring until a process with an older copy saves
\* (Check: "in all success cases the keyring is persisted").
THEOREM PinKeptCorrect == Spec => []PinKept
  <1>1. Inv => PinKept
    BY DEF Inv, CopyInv, PinKept, HasPin
  <1> QED BY <1>1, InvInit, InvStep, PTL DEF Spec

\* Trust on first use, across processes and restarts: two processes that saved a
\* pin for one alias, the second having opened the keyring after the first saved,
\* agree on the key unless a stale copy was saved in between.
THEOREM FirstUseCorrect == Spec => []FirstUseBinds
  <1>1. Inv => FirstUseBinds
    <2> SUFFICES ASSUME Inv, ~clashed, NEW p \in Proc, NEW q \in Proc,
                        saved[p] > 0, saved[q] > 0, opened[q] >= saved[p],
                        peer[q].alias = peer[p].alias
                 PROVE  \/ peer[q].key = peer[p].key
                        \/ \E r \in Proc : Stale(r, p) /\ saved[r] <= opened[q]
      BY DEF FirstUseBinds
    <2>1. peers[q][peer[q].alias] = peer[q].key
      BY DEF Inv, CountInv
    <2>2. HasPin(peers[q], p) \/ \E r \in Proc : Stale(r, p) /\ saved[r] <= opened[q]
      BY DEF Inv, CopyInv
    <2> QED BY <2>1, <2>2 DEF HasPin
  <1> QED BY <1>1, InvInit, InvStep, PTL DEF Spec

=============================================================================
