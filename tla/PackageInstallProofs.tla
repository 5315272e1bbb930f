------------------------ MODULE PackageInstallProofs ------------------------
(***************************************************************************)
(* Proofs about PackageInstall, for any number of threads, catalog entries *)
(* of the install id, calls, faults and writes of the user.                *)
(***************************************************************************)
EXTENDS PackageInstall, TLAPS

\* The calls between the acquired install lock and its release.
InLock(p) ==
  \/ pc[p] \in {"begin", "mkstage", "fetch", "build", "inspect", "look", "rename",
                "swap", "discard", "cleanup", "unlock"}
  \/ pc[p] \in {"stat", "status", "origin", "submodules"} /\ probe[p] # 1
HolderInside == \A p \in Proc : holder = p <=> InLock(p)

\* Between the look at the binary and the first look at the checkout the binary stays.
LookedFirst == \A p \in Proc : pc[p] = "status" => Runnable(dest)

\* An archive has no checkout to look at.
GitProbe == \A p \in Proc :
  pc[p] \in {"status", "origin", "submodules"} => want[p].source = "git"

\* t is a checkout of e, with its binary, by all that a user's write cannot change.
Of(e, t) == t.kind = "checkout" /\ t.ref = e.ref /\ t.bin

\* After `git status`: what it read is such a checkout, under the lock the path still
\* names it, and what it could not see was whole or is there to be looked at.
Seen(p) ==
  pc[p] \in {"origin", "submodules"} =>
    /\ Of(want[p], seen[p]) /\ "files" \notin seen[p].spoilt
    /\ probe[p] # 1 => Of(want[p], dest)
    /\ edits = 0 => /\ seen[p] = dest \/ (probe[p] = 1 /\ seen[p].spoilt = {})
                    /\ \/ pc[p] = "origin" \/ "origin" \notin seen[p].spoilt
SeenFirst == \A p \in Proc : Seen(p)

\* Past its look at the destination a call finds no user's work there but what was
\* written since.
CheckedClean == edits = 0 => \A p \in Proc : pc[p] \in PastCheck =>
                                dest.kind = "none" \/ dest.spoilt = {}

\* What a call under the lock found missing stays missing until it selects.
Missed == \A p \in Proc : pc[p] \in {"begin", "mkstage", "fetch", "build"}
                            => ~ReadyFor(want[p], dest)

\* t is e's source as its build left it: nothing tells of an archive's files.
BuiltFrom(e, t) == \E b \in BOOLEAN, d \in SUBSET Part :
                     /\ e.source = "archive" => d = {}
                     /\ t = [Fetched(e) EXCEPT !.bin = b, !.spoilt = d]

\* The stage of a call, from its source to the whole installation it selects.
Staged == \A p \in Proc :
  /\ pc[p] = "build" => stage[p] = Fetched(want[p])
  /\ pc[p] = "inspect" => BuiltFrom(want[p], stage[p])
  /\ pc[p] \in {"look", "rename", "swap"} => stage[p] = Installed(want[p])

\* A staging directory is there only from its mkdtemp to its rmtree.
StageOwned == \A p \in Proc :
  pc[p] \notin {"fetch", "build", "inspect", "look", "rename", "swap", "discard",
                "cleanup"} => stage[p] = NoTree
LitterIsFault == faults = 0 => ~litter

\* The inductive invariant: who is inside, what it saw, what it staged.
Inv == /\ TypeOK /\ HolderInside /\ LookedFirst /\ Missed /\ Staged
       /\ StageOwned /\ LitterIsFault /\ GitProbe /\ SeenFirst /\ CheckedClean
-----------------------------------------------------------------------------
(* The trees that occur, and what is seen of them.                         *)

\* The trees the model names are trees.
LEMMA Trees ==
  /\ NoTree \in Tree /\ Shell \in Tree /\ UserDir \in Tree
  /\ InitialTrees \subseteq Tree
  /\ \A e \in Entry : Fetched(e) \in Tree /\ Installed(e) \in Tree /\ AfterRename(e) \in Tree
<1>0. {"files"} \in SUBSET Part /\ \A d \in Part : {d} \in SUBSET Part
  BY DEF Part
<1>1. \A k \in {"none", "file", "plain", "initial", "checkout"} :
        /\ Bare(k) \in Tree
        /\ \A d \in SUBSET Part : [Bare(k) EXCEPT !.spoilt = d] \in Tree
  BY DEF Bare, Tree
<1>2. \A e \in Entry : e.ref \in Ref
  BY EntryAssumption
<1>3. \A e \in Entry : Fetched(e) \in Tree
  BY <1>2 DEF Fetched, Tree
<1>4. \A t \in Tree, b \in BOOLEAN, d \in SUBSET Part :
        /\ [t EXCEPT !.bin = b] \in Tree /\ [t EXCEPT !.spoilt = d] \in Tree
  BY DEF Tree
<1>5. \A e \in Entry : Installed(e) \in Tree
  BY <1>3, <1>4 DEF Installed
<1>6. InitialTrees \subseteq Tree
  <2>1. {NoTree, UserFile, UserDir, UserInit, Bare("initial")} \subseteq Tree
    BY <1>0, <1>1 DEF NoTree, UserFile, UserDir, UserInit
  <2>2. {Installed(e) : e \in Entry} \subseteq Tree
    BY <1>5
  <2>3. {[Installed(e) EXCEPT !.bin = FALSE] : e \in Entry} \subseteq Tree
    BY <1>4, <1>5
  <2>4. {[Installed(e) EXCEPT !.spoilt = {d}] : e \in Entry, d \in Part} \subseteq Tree
    <3>1. ASSUME NEW e \in Entry, NEW d \in Part
          PROVE  [Installed(e) EXCEPT !.spoilt = {d}] \in Tree
      <4>1. {d} \in SUBSET Part
        BY <1>0
      <4>. QED  BY <1>4, <1>5, <4>1
    <3>. QED  BY <3>1
  <2>. QED  BY <2>1, <2>2, <2>3, <2>4 DEF InitialTrees
<1>. QED
  BY <1>0, <1>1, <1>3, <1>4, <1>5, <1>6 DEF NoTree, Shell, UserDir, AfterRename

\* A build, and a user, change a tree in place.
LEMMA ChangedTrees ==
  /\ \A t \in Tree, b \in BOOLEAN, d \in SUBSET Part :
       [t EXCEPT !.bin = b, !.spoilt = d] \in Tree
  /\ \A t \in Tree, d \in Part : [t EXCEPT !.spoilt = {d}] \in Tree
  BY DEF Tree

\* What an installation is to the probes.
LEMMA InstalledTree ==
  ASSUME NEW e \in Entry
  PROVE  /\ Installed(e).bin /\ Runnable(Installed(e)) /\ ~UserWork(Installed(e))
         /\ Installed(e).kind # "none"
  BY DEF Installed, Fetched, Runnable, Directory, UserWork

\* Something is spoilt: a probe may miss for it what it found before.
LEMMA EditedTree ==
  ASSUME NEW t \in Tree, NEW d \in Part
  PROVE  /\ [t EXCEPT !.spoilt = {d}].kind = t.kind
         /\ [t EXCEPT !.spoilt = {d}].bin = t.bin
         /\ [t EXCEPT !.spoilt = {d}].ref = t.ref
         /\ [t EXCEPT !.spoilt = {d}].spoilt = {d}
         /\ t.kind # "none" => UserWork([t EXCEPT !.spoilt = {d}])
         /\ Runnable(t) => Runnable([t EXCEPT !.spoilt = {d}])
         /\ t.spoilt = {} => \A e \in Entry :
              ReadyFor(e, [t EXCEPT !.spoilt = {d}]) => ReadyFor(e, t)
<1>1. /\ [t EXCEPT !.spoilt = {d}].kind = t.kind
      /\ [t EXCEPT !.spoilt = {d}].bin = t.bin
      /\ [t EXCEPT !.spoilt = {d}].ref = t.ref
      /\ [t EXCEPT !.spoilt = {d}].spoilt = {d}
  BY DEF Tree
<1>. QED
  BY <1>1 DEF UserWork, Runnable, Directory, ReadyFor, Verified, AtCommit, OwnOrigin,
              OwnSubmodules

\* A directory the user makes is no installation, and no call replaces it.
LEMMA UserTree ==
  /\ UserDir.kind # "none" /\ UserWork(UserDir)
  /\ \A e \in Entry : ~ReadyFor(e, UserDir)
  BY DEF UserDir, Bare, UserWork, ReadyFor, Runnable

\* A tree of which nothing is spoilt, and which is otherwise e's, is e's installation.
LEMMA WholeInstalled ==
  ASSUME NEW t \in Tree, NEW e \in Entry, e.source = "git", Of(e, t), t.spoilt = {}
  PROVE  t = Installed(e)
<1>1. t.kind = "checkout" /\ t.ref = e.ref /\ t.spoilt = {} /\ t.bin = TRUE
  BY DEF Of, Tree
<1>2. /\ Installed(e).kind = "checkout" /\ Installed(e).ref = e.ref
      /\ Installed(e).spoilt = {} /\ Installed(e).bin = TRUE
  BY DEF Installed, Fetched
<1>3. Installed(e) \in Tree
  BY Trees
<1>. QED  BY <1>1, <1>2, <1>3 DEF Tree
-----------------------------------------------------------------------------
(* Type correctness.                                                       *)

\* The variables have their types before the first call,
LEMMA TypeOKInit == Init => TypeOK
<1>. SUFFICES ASSUME Init
              PROVE  TypeOK
  OBVIOUS
<1>1. dest \in Tree /\ stage \in [Proc -> Tree]
  BY Trees DEF Init
<1>2. want \in [Proc -> Entry]
  <2>1. (CHOOSE e \in Entry : TRUE) \in Entry
    BY EntryAssumption
  <2>. QED  BY <2>1 DEF Init
<1>3. Lock!TypeOK
  BY DEF Init, Lock!Init, Lock!TypeOK
<1>4. {litter} \subseteq BOOLEAN
  BY DEF Init
<1>. QED
  BY <1>1, <1>2, <1>3, <1>4, BoundAssumption DEF Init, TypeOK, Phase

\* and every step keeps them.
LEMMA TypeOKNext == TypeOK /\ [Next]_vars => TypeOK'
<1>. SUFFICES ASSUME TypeOK, [Next]_vars
              PROVE  TypeOK'
  OBVIOUS
<1>. USE BoundAssumption
     DEF TypeOK, Lock!TypeOK, Phase, Goto, Outcome, Raise, Fault
<1>1. ASSUME NEW p \in Proc, Begin(p) PROVE TypeOK'
  BY <1>1 DEF Begin
<1>2. ASSUME NEW p \in Proc, Ready(p)
      PROVE  TypeOK'
  <2>1. seen' \in [Proc -> Tree]
    BY <1>2, Trees DEF Ready, Stat, Status, Origin, Submodules
  <2>. QED  BY <1>2, <2>1 DEF Ready, Stat, Status, Origin, Submodules, Hit, Miss
<1>3. ASSUME NEW p \in Proc, Acquire(p) \/ AcquireFails(p) \/ Unlock(p) PROVE TypeOK'
  BY <1>3 DEF Acquire, AcquireFails, Unlock, Lock!Acquire, Lock!Release
<1>4. ASSUME NEW p \in Proc, CheckExisting(p) \/ Inspect(p) \/ Look(p) PROVE TypeOK'
  BY <1>4 DEF CheckExisting, Inspect, Look
<1>5. ASSUME NEW p \in Proc, MakeStage(p) \/ Fetch(p) PROVE TypeOK'
  <2>1. stage' \in [Proc -> Tree]
    BY <1>5, Trees DEF MakeStage, Fetch
  <2>. QED  BY <1>5, <2>1 DEF MakeStage, Fetch
<1>6. ASSUME NEW p \in Proc, Build(p) PROVE TypeOK'
  <2>1. \/ stage' = stage
        \/ \E b \in BOOLEAN, d \in SUBSET Part :
             stage' = [stage EXCEPT ![p] = [stage[p] EXCEPT !.bin = b, !.spoilt = d]]
    BY <1>6 DEF Build
  <2>2. \A b \in BOOLEAN, d \in SUBSET Part :
          [stage[p] EXCEPT !.bin = b, !.spoilt = d] \in Tree
    BY ChangedTrees
  <2>3. stage' \in [Proc -> Tree]
    <3>1. CASE stage' = stage
      BY <3>1
    <3>2. ASSUME NEW b \in BOOLEAN, NEW d \in SUBSET Part,
                 stage' = [stage EXCEPT ![p] = [stage[p] EXCEPT !.bin = b, !.spoilt = d]]
          PROVE  stage' \in [Proc -> Tree]
      <4>1. [stage[p] EXCEPT !.bin = b, !.spoilt = d] \in Tree
        BY <2>2
      <4>. QED  BY <3>2, <4>1
    <3>. QED  BY <2>1, <3>1, <3>2
  <2>. QED  BY <1>6, <2>3 DEF Build
<1>7. ASSUME NEW p \in Proc, Rename(p) \/ Swap(p) \/ Discard(p) PROVE TypeOK'
  <2>1. stage' \in [Proc -> Tree] /\ dest' \in Tree
    BY <1>7, Trees DEF Rename, Swap, Discard
  <2>. QED  BY <1>7, <2>1 DEF Rename, Swap, Discard
<1>8. ASSUME NEW p \in Proc, Cleanup(p) PROVE TypeOK'
  <2>1. litter' \in BOOLEAN
    BY <1>8 DEF Cleanup
  <2>2. stage' \in [Proc -> Tree]
    BY <1>8, Trees DEF Cleanup
  <2>. QED  BY <1>8, <2>1, <2>2 DEF Cleanup
<1>9. ASSUME NEW p \in Proc, Crash(p) PROVE TypeOK'
  <2>1. litter' \in BOOLEAN
    BY <1>9 DEF Crash
  <2>2. stage' \in [Proc -> Tree] /\ seen' \in [Proc -> Tree]
    BY <1>9, Trees DEF Crash
  <2>. QED  BY <1>9, <2>1, <2>2 DEF Crash
<1>10. CASE Edit
  <2>1. dest' \in Tree
    BY <1>10, Trees, ChangedTrees DEF Edit
  <2>. QED  BY <1>10, <2>1 DEF Edit
<1>11. CASE Finished \/ UNCHANGED vars
  BY <1>11 DEF Finished, vars
<1>. QED
  BY <1>1, <1>2, <1>3, <1>4, <1>5, <1>6, <1>7, <1>8, <1>9, <1>10, <1>11
     DEF Next, Continue

\* The variables of the package installer keep their types.
THEOREM TypeCorrect == Spec => []TypeOK
  BY TypeOKInit, TypeOKNext, PTL DEF Spec
-----------------------------------------------------------------------------
(* The invariant.                                                          *)

\* The invariant holds before the first call.
LEMMA InvInit == Init => Inv
<1>. SUFFICES ASSUME Init
              PROVE  Inv
  OBVIOUS
<1>1. TypeOK
  BY TypeOKInit
<1>2. HolderInside
  BY NullAssumption DEF Init, Lock!Init, HolderInside, InLock
<1>. QED
  BY <1>1, <1>2
     DEF Inv, Init, LookedFirst, Missed, Staged, StageOwned, LitterIsFault, GitProbe, SeenFirst,
         Seen, CheckedClean, PastCheck

\* The other calls stay where they are when p takes a step.
Others(p) == \A q \in Proc \ {p} :
  /\ pc'[q] = pc[q] /\ probe'[q] = probe[q] /\ want'[q] = want[q]
  /\ stage'[q] = stage[q] /\ seen'[q] = seen[q]

\* A call that moves leaves the other calls where they are, and the lock with
\* whoever holds it.
LEMMA OthersStay ==
  ASSUME TypeOK, NEW p \in Proc, Begin(p) \/ Continue(p) \/ AcquireFails(p) \/ Crash(p)
  PROVE  Others(p)
<1>. USE DEF TypeOK, Others, Goto, Outcome, Raise
<1>1. CASE Begin(p) \/ Ready(p) \/ Acquire(p) \/ AcquireFails(p) \/ CheckExisting(p)
  BY <1>1 DEF Begin, Ready, Stat, Status, Origin, Submodules, Hit, Miss, Acquire,
              AcquireFails, CheckExisting
<1>2. CASE MakeStage(p) \/ Fetch(p) \/ Inspect(p) \/ Look(p)
  BY <1>2 DEF MakeStage, Fetch, Inspect, Look
<1>3. CASE Build(p)
  BY <1>3 DEF Build
<1>4. CASE Rename(p) \/ Swap(p) \/ Discard(p)
  BY <1>4 DEF Rename, Swap, Discard
<1>5. CASE Cleanup(p) \/ Unlock(p) \/ Crash(p)
  BY <1>5 DEF Cleanup, Unlock, Crash
<1>. QED  BY <1>1, <1>2, <1>3, <1>4, <1>5 DEF Continue

\* The lock: inside are its holder's steps, and those of nobody else.
LEMMA HolderNext == TypeOK /\ HolderInside /\ [Next]_vars => HolderInside'
<1>. SUFFICES ASSUME TypeOK, HolderInside, [Next]_vars
              PROVE  HolderInside'
  OBVIOUS
<1>1. ASSUME NEW p \in Proc, Begin(p) \/ Continue(p) \/ AcquireFails(p) \/ Crash(p)
      PROVE  HolderInside'
  <2>1. Others(p)
    BY <1>1, OthersStay
  <2>2. holder' = p <=> InLock(p)'
    <3>. USE NullAssumption
         DEF TypeOK, Lock!TypeOK, HolderInside, InLock, Goto, Outcome, Raise
    <3>1. CASE Begin(p) \/ AcquireFails(p)
      BY <3>1 DEF Begin, AcquireFails
    <3>2. CASE Ready(p)
      BY <3>2 DEF Ready, Stat, Status, Origin, Submodules, Hit, Miss
    <3>3. CASE Acquire(p) \/ Unlock(p)
      BY <3>3 DEF Acquire, Unlock, Lock!Acquire, Lock!Release
    <3>4. CASE CheckExisting(p) \/ MakeStage(p) \/ Fetch(p) \/ Inspect(p) \/ Look(p)
      BY <3>4 DEF CheckExisting, MakeStage, Fetch, Inspect, Look
    <3>5. CASE Build(p)
      BY <3>5 DEF Build
    <3>6. CASE Rename(p) \/ Swap(p) \/ Discard(p)
      BY <3>6 DEF Rename, Swap, Discard
    <3>7. CASE Cleanup(p)
      BY <3>7 DEF Cleanup
    <3>8. CASE Crash(p)
      BY <3>8 DEF Crash
    <3>. QED
      BY <1>1, <3>1, <3>2, <3>3, <3>4, <3>5, <3>6, <3>7, <3>8 DEF Continue
  <2>3. \A q \in Proc \ {p} : holder' = q <=> holder = q
    <3>. USE NullAssumption DEF TypeOK, Lock!TypeOK
    <3>1. CASE UNCHANGED holder
      BY <3>1
    <3>2. CASE Acquire(p) \/ Unlock(p)
      BY <3>2 DEF Acquire, Unlock, Lock!Acquire, Lock!Release
    <3>3. CASE Crash(p)
      BY <3>3 DEF Crash
    <3>. QED
      BY <1>1, <3>1, <3>2, <3>3
         DEF Continue, Begin, Ready, Stat, Status, Origin, Submodules, AcquireFails,
             CheckExisting, MakeStage, Fetch,
             Build, Inspect, Look, Rename, Swap, Discard, Cleanup
  <2>4. \A q \in Proc \ {p} : InLock(q)' <=> InLock(q)
    BY <2>1 DEF Others, InLock
  <2>. QED  BY <2>2, <2>3, <2>4 DEF HolderInside
<1>2. CASE Edit \/ Finished \/ UNCHANGED vars
  BY <1>2 DEF Edit, Finished, vars, HolderInside, InLock
<1>. QED  BY <1>1, <1>2 DEF Next

\* What can happen to the tree at the content path: the holder of the lock
\* selects a whole installation of its entry, or the user writes.
Selects(p) == /\ holder = p /\ InLock(p) /\ pc[p] \in {"rename", "swap"}
              /\ dest' = Installed(want[p]) /\ edits' = edits
              /\ pc'[p] \in {"discard", "cleanup"}
UserWrites == /\ \/ /\ dest.kind # "none" /\ dest.spoilt = {}
                    /\ \E d \in Part : dest' = [dest EXCEPT !.spoilt = {d}]
                 \/ dest.kind = "none" /\ dest' = UserDir
              /\ edits' # edits /\ edits' # 0
              /\ UNCHANGED <<holder, stage, litter, want, pc, probe, seen, result, faults>>

\* The tree at the path is changed by a call at its selecting rename only.
LEMMA SelectSteps ==
  ASSUME Inv, NEW p \in Proc, Begin(p) \/ Continue(p) \/ AcquireFails(p) \/ Crash(p)
  PROVE  dest' = dest \/ Selects(p)
<1>1. CASE Rename(p) \/ Swap(p)
  <2>1. /\ pc[p] \in {"rename", "swap"} /\ edits' = edits
        /\ \/ dest' = dest
           \/ dest' = stage[p] /\ pc'[p] \in {"discard", "cleanup"}
    BY <1>1 DEF Rename, Swap, Goto, Inv, TypeOK
  <2>2. stage[p] = Installed(want[p]) /\ InLock(p) /\ holder = p
    BY <2>1 DEF Inv, Staged, HolderInside, InLock
  <2>. QED  BY <2>1, <2>2 DEF Selects
<1>2. CASE ~(Rename(p) \/ Swap(p))
  BY <1>2 DEF Continue, Begin, Ready, Stat, Status, Origin, Submodules, Acquire,
              AcquireFails, CheckExisting, MakeStage,
              Fetch, Build, Inspect, Look, Discard, Cleanup, Unlock, Crash
<1>. QED  BY <1>1, <1>2

\* The user's own steps.
LEMMA EditStep == TypeOK /\ Edit => UserWrites
  BY BoundAssumption DEF TypeOK, Edit, UserWrites

\* Nothing takes the binary away between the look at it and the look at the checkout.
LEMMA LookedFirstNext == Inv /\ [Next]_vars => LookedFirst'
<1>. SUFFICES ASSUME Inv, [Next]_vars, NEW q \in Proc, pc'[q] = "status"
              PROVE  Runnable(dest)'
  BY DEF LookedFirst
<1>0. TypeOK /\ LookedFirst
  BY DEF Inv
<1>1. ASSUME NEW p \in Proc, Begin(p) \/ Continue(p) \/ AcquireFails(p) \/ Crash(p)
      PROVE  Runnable(dest)'
  <2>1. CASE Selects(p)
    BY <1>0, <2>1, InstalledTree DEF Selects, TypeOK
  <2>2. CASE dest' = dest /\ q # p
    BY <1>0, <1>1, <2>2, OthersStay DEF LookedFirst, Others, Runnable, Directory
  <2>3. CASE dest' = dest /\ q = p
    <3>1. Runnable(dest)
      BY <1>0, <1>1, <2>3
         DEF TypeOK, Goto, Outcome, Raise, Continue, Begin, Ready, Stat, Status, Origin,
             Submodules, Hit, Miss, Acquire,
             AcquireFails, CheckExisting, MakeStage, Fetch, Build, Inspect, Look, Rename,
             Swap, Discard, Cleanup, Unlock, Crash
    <3>. QED  BY <2>3, <3>1 DEF Runnable, Directory
  <2>. QED  BY <1>1, <2>1, <2>2, <2>3, SelectSteps
<1>2. CASE Edit
  <2>1. UserWrites /\ Runnable(dest) /\ dest \in Tree
    BY <1>0, <1>2, EditStep DEF UserWrites, LookedFirst, TypeOK
  <2>2. \E d \in Part : dest' = [dest EXCEPT !.spoilt = {d}]
    BY <2>1 DEF UserWrites, Runnable, Directory
  <2>. QED  BY <2>1, <2>2, EditedTree
<1>3. CASE Finished \/ UNCHANGED vars
  BY <1>0, <1>3 DEF Finished, vars, LookedFirst, Runnable, Directory
<1>. QED  BY <1>1, <1>2, <1>3 DEF Next

\* A call that fetches and builds missed what it wants when it looked under the
\* lock, and nothing can have put it there since.
LEMMA MissedNext == Inv /\ [Next]_vars => Missed'
<1>. DEFINE Before == {"begin", "mkstage", "fetch", "build"}
<1>. SUFFICES ASSUME Inv, [Next]_vars, NEW q \in Proc, pc'[q] \in Before
              PROVE  ~ReadyFor(want[q], dest)'
  BY DEF Missed
<1>0. TypeOK /\ Missed /\ HolderInside /\ GitProbe
  BY DEF Inv
<1>1. ASSUME NEW p \in Proc, Begin(p) \/ Continue(p) \/ AcquireFails(p) \/ Crash(p)
      PROVE  ~ReadyFor(want[q], dest)'
  <2>1. CASE Selects(p)
    <3>1. q # p
      BY <2>1 DEF Selects
    <3>2. pc[q] \in Before
      BY <1>0, <1>1, <3>1, OthersStay DEF Others
    <3>3. holder = q
      BY <1>0, <3>2 DEF HolderInside, InLock
    <3>. QED  BY <2>1, <3>1, <3>3 DEF Selects
  <2>2. CASE dest' = dest /\ q # p
    <3>1. pc[q] \in Before /\ want'[q] = want[q]
      BY <1>0, <1>1, <2>2, OthersStay DEF Others
    <3>. QED  BY <1>0, <2>2, <3>1 DEF Missed
  <2>3. CASE dest' = dest /\ q = p
    <3>1. want'[p] = want[p] /\ (pc[p] \in Before \/ ~ReadyFor(want[p], dest))
      <4>. USE <1>0, <2>3 DEF TypeOK, Goto, Outcome, Raise
      <4>1. CASE Ready(p)
        <5>1. /\ want' = want /\ pc[p] \in {"stat", "status", "origin", "submodules"}
              /\ pc'[p] \in Before =>
                   \/ ~Runnable(dest)
                   \/ /\ pc[p] \in {"status", "origin", "submodules"}
                      /\ ~AtCommit(want[p], dest) \/ ~OwnOrigin(dest) \/ ~OwnSubmodules(dest)
          BY <4>1 DEF Ready, Stat, Status, Origin, Submodules, Hit, Miss
        <5>. QED  BY <5>1 DEF GitProbe, ReadyFor, Verified
      <4>2. CASE CheckExisting(p) \/ MakeStage(p) \/ Fetch(p) \/ Build(p)
        BY <4>2 DEF CheckExisting, MakeStage, Fetch, Build
      <4>3. CASE ~(\/ Ready(p) \/ CheckExisting(p) \/ MakeStage(p) \/ Fetch(p)
                   \/ Build(p))
        BY <1>1, <4>3
           DEF Continue, Begin, Acquire, AcquireFails, Inspect, Look, Rename, Swap, Discard,
               Cleanup, Unlock, Crash
      <4>. QED  BY <4>1, <4>2, <4>3
    <3>2. ~ReadyFor(want[p], dest)
      BY <1>0, <3>1 DEF Missed
    <3>. QED  BY <2>3, <3>1, <3>2 DEF ReadyFor, Runnable, Directory, Verified
  <2>. QED  BY <1>1, <2>1, <2>2, <2>3, SelectSteps
<1>2. CASE Edit
  <2>1. UserWrites /\ dest \in Tree
    BY <1>0, <1>2, EditStep DEF TypeOK
  <2>2. pc[q] \in Before /\ want'[q] = want[q] /\ want[q] \in Entry
    BY <1>0, <2>1 DEF UserWrites, TypeOK
  <2>3. ~ReadyFor(want[q], dest)
    BY <1>0, <2>2 DEF Missed
  <2>4. ~ReadyFor(want[q], dest')
    BY <2>1, <2>2, <2>3, EditedTree, UserTree DEF UserWrites
  <2>. QED  BY <2>2, <2>4 DEF ReadyFor, Runnable, Directory, Verified
<1>3. CASE Finished \/ UNCHANGED vars
  BY <1>0, <1>3 DEF Finished, vars, Missed, ReadyFor, Runnable, Directory, Verified
<1>. QED  BY <1>1, <1>2, <1>3 DEF Next

\* A source whose build left the binary and verifies is the whole installation.
LEMMA SameTree ==
  ASSUME NEW t \in Tree, NEW u \in Tree,
         t.kind = u.kind, t.ref = u.ref, t.spoilt = u.spoilt, t.bin = u.bin
  PROVE  t = u
  BY DEF Tree

\* A stage that was built from an entry and passed the readiness check is that
\* entry's installation.
LEMMA BuiltInstalled ==
  ASSUME NEW e \in Entry, NEW t, BuiltFrom(e, t), ReadyFor(e, t)
  PROVE  t = Installed(e)
<1>1. PICK b \in BOOLEAN, d \in SUBSET Part :
        (e.source = "archive" => d = {}) /\ t = [Fetched(e) EXCEPT !.bin = b, !.spoilt = d]
  BY DEF BuiltFrom
<1>2. /\ t.kind = Fetched(e).kind /\ t.ref = Fetched(e).ref /\ t.bin = b /\ t.spoilt = d
      /\ Installed(e).kind = Fetched(e).kind /\ Installed(e).ref = Fetched(e).ref
      /\ Installed(e).bin = TRUE /\ Installed(e).spoilt = {}
  BY <1>1 DEF Installed, Fetched
<1>3. b = TRUE /\ d = {}
  <2>1. b = TRUE
    BY <1>1, <1>2 DEF ReadyFor, Runnable
  <2>2. e.source = "git" => "files" \notin d /\ "origin" \notin d /\ "submodules" \notin d
    BY <1>2 DEF ReadyFor, Verified, AtCommit, OwnOrigin, OwnSubmodules
  <2>3. e.source = "git" => d = {}
    BY <2>2 DEF Part
  <2>. QED  BY <1>1, <2>1, <2>3, EntryAssumption
<1>4. t \in Tree /\ Installed(e) \in Tree
  BY <1>1, Trees, ChangedTrees
<1>. QED  BY <1>2, <1>3, <1>4, SameTree

\* StagedOf(p) and StageOf(p) are Staged and StageOwned of the one call p.
StagedOf(p) ==
  /\ pc[p] = "build" => stage[p] = Fetched(want[p])
  /\ pc[p] = "inspect" => BuiltFrom(want[p], stage[p])
  /\ pc[p] \in {"look", "rename", "swap"} => stage[p] = Installed(want[p])
StageOf(p) ==
  pc[p] \notin {"fetch", "build", "inspect", "look", "rename", "swap", "discard",
                "cleanup"} => stage[p] = NoTree

\* The stage of the call that moves goes from fetched to built to verified.
LEMMA StagedStep ==
  ASSUME TypeOK, NEW p \in Proc, StagedOf(p), StageOf(p),
         Begin(p) \/ Continue(p) \/ AcquireFails(p) \/ Crash(p)
  PROVE  StagedOf(p)' /\ StageOf(p)'
<1>. USE DEF TypeOK, Goto, Outcome, Raise
<1>1. CASE Begin(p) \/ Ready(p) \/ Acquire(p) \/ AcquireFails(p) \/ CheckExisting(p)
  <2>1. /\ pc'[p] \in {"out", "stat", "status", "origin", "submodules", "acquire", "begin",
                       "mkstage", "unlock"}
        /\ pc[p] \in {"out", "stat", "status", "origin", "submodules", "acquire", "begin"}
        /\ stage' = stage
    BY <1>1 DEF Begin, Ready, Stat, Status, Origin, Submodules, Hit, Miss, Acquire,
                AcquireFails, CheckExisting
  <2>. QED  BY <2>1 DEF StagedOf, StageOf
<1>2. CASE MakeStage(p)
  BY <1>2 DEF MakeStage, StagedOf, StageOf
<1>3. CASE Fetch(p)
  BY <1>3 DEF Fetch, StagedOf, StageOf, Fetched
<1>4. CASE Build(p)
  <2>1. CASE pc'[p] = "cleanup"
    BY <2>1 DEF StagedOf, StageOf
  <2>2. CASE pc'[p] = "inspect"
    <3>1. want' = want /\ stage[p] = Fetched(want[p])
      BY <1>4 DEF Build, StagedOf
    <3>2. PICK b \in BOOLEAN, d \in SUBSET Part :
            /\ want[p].source = "archive" => d = {}
            /\ stage' = [stage EXCEPT ![p] = [stage[p] EXCEPT !.bin = b, !.spoilt = d]]
      BY <1>4, <2>2 DEF Build
    <3>3. stage'[p] = [Fetched(want[p]) EXCEPT !.bin = b, !.spoilt = d]
      BY <3>1, <3>2
    <3>4. BuiltFrom(want[p], stage[p])'
      BY <3>1, <3>2, <3>3 DEF BuiltFrom, Fetched
    <3>. QED  BY <2>2, <3>4 DEF StagedOf, StageOf
  <2>. QED  BY <1>4, <2>1, <2>2 DEF Build
<1>5. CASE Inspect(p)
  <2>1. CASE ReadyFor(want[p], stage[p]) /\ pc'[p] = "look"
    <3>1. stage' = stage /\ want' = want /\ pc[p] = "inspect" /\ want[p] \in Entry
      BY <1>5 DEF Inspect
    <3>2. BuiltFrom(want[p], stage[p])
      BY <3>1 DEF StagedOf
    <3>3. stage[p] = Installed(want[p])
      BY <2>1, <3>1, <3>2, BuiltInstalled
    <3>. QED  BY <2>1, <3>1, <3>3 DEF StagedOf, StageOf, Installed, Fetched
  <2>2. CASE pc'[p] = "cleanup"
    BY <2>2 DEF StagedOf, StageOf
  <2>. QED  BY <1>5, <2>1, <2>2 DEF Inspect
<1>6. CASE Look(p) \/ Rename(p) \/ Swap(p)
  <2>1. /\ pc[p] \in {"look", "rename", "swap"} /\ want' = want
        /\ \/ pc'[p] \in {"rename", "swap"} /\ stage' = stage
           \/ pc'[p] \in {"discard", "cleanup"}
    BY <1>6 DEF Look, Rename, Swap
  <2>. QED  BY <2>1 DEF StagedOf, StageOf, Installed, Fetched
<1>7. CASE Discard(p)
  BY <1>7 DEF Discard, StagedOf, StageOf
<1>8. CASE Cleanup(p) \/ Crash(p)
  <2>1. stage'[p] = NoTree /\ pc'[p] \in {"unlock", "stat", "out"}
    BY <1>8 DEF Cleanup, Crash
  <2>. QED  BY <2>1 DEF StagedOf, StageOf, NoTree, Bare
<1>9. CASE Unlock(p)
  BY <1>9 DEF Unlock, StagedOf, StageOf
<1>. QED
  BY <1>1, <1>2, <1>3, <1>4, <1>5, <1>6, <1>7, <1>8, <1>9 DEF Continue

\* The stage of a call that does not move stays what it is.
LEMMA StagedSame ==
  ASSUME NEW q \in Proc, StagedOf(q), StageOf(q),
         pc'[q] = pc[q], want'[q] = want[q], stage'[q] = stage[q]
  PROVE  StagedOf(q)' /\ StageOf(q)'
<1>1. ASSUME pc'[q] = "inspect" PROVE BuiltFrom(want[q], stage[q])'
  <2>1. BuiltFrom(want[q], stage[q])
    BY <1>1 DEF StagedOf
  <2>. QED  BY <2>1
<1>2. StagedOf(q)'
  BY <1>1 DEF StagedOf, Fetched, Installed
<1>3. StageOf(q)'
  BY DEF StageOf, NoTree, Bare
<1>. QED  BY <1>2, <1>3

\* Every step keeps what is known of each call's stage.
LEMMA StagedNext == Inv /\ [Next]_vars => Staged' /\ StageOwned'
<1>. SUFFICES ASSUME Inv, [Next]_vars, NEW q \in Proc
              PROVE  StagedOf(q)' /\ StageOf(q)'
  BY DEF Staged, StageOwned, StagedOf, StageOf
<1>0. TypeOK /\ StagedOf(q) /\ StageOf(q)
  BY DEF Inv, Staged, StageOwned, StagedOf, StageOf
<1>1. ASSUME NEW p \in Proc, Begin(p) \/ Continue(p) \/ AcquireFails(p) \/ Crash(p)
      PROVE  StagedOf(q)' /\ StageOf(q)'
  <2>1. CASE q = p
    BY <1>0, <1>1, <2>1, StagedStep
  <2>2. CASE q # p
    <3>1. pc'[q] = pc[q] /\ want'[q] = want[q] /\ stage'[q] = stage[q]
      BY <1>0, <1>1, <2>2, OthersStay DEF Others
    <3>. QED  BY <1>0, <3>1, StagedSame
  <2>. QED  BY <2>1, <2>2
<1>2. CASE Edit \/ Finished \/ UNCHANGED vars
  <2>1. UNCHANGED <<pc, want, stage>>
    BY <1>2 DEF Edit, Finished, vars
  <2>. QED  BY <1>0, <2>1, StagedSame
<1>. QED  BY <1>1, <1>2 DEF Next

\* Only a Git entry's probe goes on after the binary.
LEMMA GitProbeNext == Inv /\ [Next]_vars => GitProbe'
<1>. SUFFICES ASSUME Inv, [Next]_vars, NEW q \in Proc,
                     pc'[q] \in {"status", "origin", "submodules"}
              PROVE  want'[q].source = "git"
  BY DEF GitProbe
<1>0. TypeOK /\ GitProbe
  BY DEF Inv
<1>1. ASSUME NEW p \in Proc, Begin(p) \/ Continue(p) \/ AcquireFails(p) \/ Crash(p)
      PROVE  want'[q].source = "git"
  <2>1. CASE q # p
    BY <1>0, <1>1, <2>1, OthersStay DEF Others, GitProbe
  <2>2. CASE q = p
    <3>. USE <1>0, <2>2 DEF TypeOK, Goto, Outcome, Raise
    <3>1. CASE Ready(p)
      BY <3>1 DEF Ready, Stat, Status, Origin, Submodules, Hit, Miss, GitProbe
    <3>2. CASE ~Ready(p)
      BY <1>1, <3>2
         DEF Continue, Begin, Acquire, AcquireFails, CheckExisting, MakeStage, Fetch, Build,
             Inspect, Look, Rename, Swap, Discard, Cleanup, Unlock, Crash
    <3>. QED  BY <3>1, <3>2
  <2>. QED  BY <2>1, <2>2
<1>2. CASE Edit \/ Finished \/ UNCHANGED vars
  BY <1>0, <1>2 DEF Edit, Finished, vars, GitProbe
<1>. QED  BY <1>1, <1>2 DEF Next

\* What a call that selects exchanges was found whole, but for a user's writes since.
LEMMA CheckedCleanNext == Inv /\ [Next]_vars => CheckedClean'
<1>. SUFFICES ASSUME Inv, [Next]_vars, edits' = 0, NEW q \in Proc, pc'[q] \in PastCheck
              PROVE  dest'.kind = "none" \/ dest'.spoilt = {}
  BY DEF CheckedClean
<1>0. TypeOK /\ CheckedClean
  BY DEF Inv
<1>1. ASSUME NEW p \in Proc, Begin(p) \/ Continue(p) \/ AcquireFails(p) \/ Crash(p)
      PROVE  dest'.kind = "none" \/ dest'.spoilt = {}
  <2>1. CASE Selects(p)
    BY <2>1 DEF Selects, Installed, Fetched
  <2>2. CASE dest' = dest
    <3>1. edits = 0
      BY <1>1 DEF Continue, Ready, Begin, Stat, Status, Origin, Submodules, Acquire,
                  AcquireFails, CheckExisting, MakeStage, Fetch, Build, Inspect, Look, Rename,
                  Swap, Discard, Cleanup, Unlock, Crash
    <3>2. pc[q] \in PastCheck \/ Replaceable(want[p], dest)
      <4>1. CASE q # p
        BY <1>0, <1>1, <4>1, OthersStay DEF Others
      <4>2. CASE q = p
        <5>. USE <1>0, <4>2 DEF TypeOK, Goto, Outcome, Raise, PastCheck
        <5>1. CASE Ready(p) \/ CheckExisting(p)
          BY <5>1 DEF Ready, Stat, Status, Origin, Submodules, Hit, Miss, CheckExisting
        <5>2. CASE \/ Begin(p) \/ Acquire(p) \/ AcquireFails(p) \/ Cleanup(p) \/ Unlock(p)
                   \/ Crash(p)
          BY <5>2 DEF Begin, Acquire, AcquireFails, Cleanup, Unlock, Crash
        <5>3. CASE \/ MakeStage(p) \/ Fetch(p) \/ Build(p) \/ Inspect(p) \/ Look(p)
                   \/ Rename(p) \/ Swap(p) \/ Discard(p)
          BY <5>3 DEF MakeStage, Fetch, Build, Inspect, Look, Rename, Swap, Discard
        <5>. QED  BY <1>1, <5>1, <5>2, <5>3 DEF Continue
      <4>. QED  BY <4>1, <4>2
    <3>3. Replaceable(want[p], dest) => dest.kind = "none" \/ dest.spoilt = {}
      BY DEF Replaceable
    <3>. QED  BY <1>0, <2>2, <3>1, <3>2, <3>3 DEF CheckedClean
  <2>. QED  BY <1>1, <2>1, <2>2, SelectSteps
<1>2. CASE Edit
  BY <1>0, <1>2, EditStep DEF UserWrites
<1>3. CASE Finished \/ UNCHANGED vars
  BY <1>0, <1>3 DEF Finished, vars, CheckedClean
<1>. QED  BY <1>1, <1>2, <1>3 DEF Next

\* What `git status` read stays what it is to the probe: the path may come to name
\* another tree, before the lock, but only after what the first one was is settled.
LEMMA SeenNext == Inv /\ [Next]_vars => SeenFirst'
<1>. SUFFICES ASSUME Inv, [Next]_vars, NEW q \in Proc
              PROVE  Seen(q)'
  BY DEF SeenFirst
<1>0. TypeOK /\ HolderInside /\ LookedFirst /\ CheckedClean /\ Seen(q)
  BY DEF Inv, SeenFirst
<1>1. ASSUME NEW p \in Proc, Begin(p) \/ Continue(p) \/ AcquireFails(p) \/ Crash(p)
      PROVE  Seen(q)'
  <2>0. edits' = edits
    BY <1>1 DEF Continue, Ready, Begin, Stat, Status, Origin, Submodules, Acquire,
                AcquireFails, CheckExisting, MakeStage, Fetch, Build, Inspect, Look, Rename,
                Swap, Discard, Cleanup, Unlock, Crash
  <2>1. CASE Selects(p)
    <3>1. CASE q = p
      BY <2>1, <3>1 DEF Selects, Seen
    <3>2. CASE q # p
      <4>1. UNCHANGED <<pc[q], probe[q], want[q], seen[q]>>
        BY <1>0, <1>1, <3>2, OthersStay DEF Others
      <4>2. pc[q] \in {"origin", "submodules"} => probe[q] = 1
        BY <1>0, <2>1, <3>2 DEF Selects, HolderInside, InLock
      <4>3. edits = 0 => dest.kind = "none" \/ dest.spoilt = {}
        BY <1>0, <2>1 DEF Selects, CheckedClean, PastCheck
      <4>4. pc[q] \in {"origin", "submodules"} /\ edits = 0 => seen[q].spoilt = {}
        BY <1>0, <4>3 DEF Seen, Of
      <4>. QED  BY <1>0, <2>0, <4>1, <4>2, <4>4 DEF Seen, Of
    <3>. QED  BY <3>1, <3>2
  <2>2. CASE dest' = dest /\ q # p
    <3>1. UNCHANGED <<pc[q], probe[q], want[q], seen[q]>>
      BY <1>0, <1>1, <2>2, OthersStay DEF Others
    <3>. QED  BY <1>0, <2>0, <2>2, <3>1 DEF Seen, Of
  <2>3. CASE dest' = dest /\ q = p
    <3>. USE <1>0, <2>0, <2>3 DEF TypeOK, Goto, Outcome, Raise
    <3>1. CASE Status(p)
      <4>1. pc'[p] = "origin" => AtCommit(want[p], dest) /\ dest.bin /\ seen'[p] = dest
        BY <3>1 DEF Status, Hit, Miss, LookedFirst, Runnable
      <4>2. want' = want /\ pc'[p] # "submodules"
        BY <3>1 DEF Status, Hit, Miss
      <4>. QED  BY <4>1, <4>2 DEF Seen, Of, AtCommit
    <3>2. CASE Origin(p)
      <4>1. pc'[p] = "submodules" => OwnOrigin(dest) /\ seen' = seen /\ pc[p] = "origin"
        BY <3>2 DEF Origin, Hit, Miss
      <4>2. want' = want /\ probe' = probe /\ pc'[p] # "origin"
        BY <3>2 DEF Origin, Hit, Miss
      <4>. QED  BY <4>1, <4>2 DEF Seen, Of, OwnOrigin
    <3>3. CASE ~Status(p) /\ ~Origin(p)
      <4>1. pc'[p] \notin {"origin", "submodules"}
        BY <1>1, <3>3
           DEF Continue, Ready, Begin, Stat, Submodules, Hit, Miss, Acquire, AcquireFails,
               CheckExisting, MakeStage, Fetch, Build, Inspect, Look, Rename, Swap, Discard,
               Cleanup, Unlock, Crash
      <4>. QED  BY <4>1 DEF Seen
    <3>. QED  BY <3>1, <3>2, <3>3
  <2>. QED  BY <1>1, <2>1, <2>2, <2>3, SelectSteps
<1>2. CASE Edit
  <2>1. UserWrites /\ dest \in Tree
    BY <1>0, <1>2, EditStep DEF TypeOK
  <2>2. Of(want[q], dest) => Of(want[q], dest')
    <3>1. dest.kind # "none" => \E d \in Part : dest' = [dest EXCEPT !.spoilt = {d}]
      BY <2>1 DEF UserWrites
    <3>. QED  BY <2>1, <3>1, EditedTree DEF Of
  <2>. QED  BY <1>0, <2>1, <2>2 DEF UserWrites, Seen
<1>3. CASE Finished \/ UNCHANGED vars
  BY <1>0, <1>3 DEF Finished, vars, Seen, Of
<1>. QED  BY <1>1, <1>2, <1>3 DEF Next

\* What is left behind was left by a fault.
LEMMA LitterNext == TypeOK /\ LitterIsFault /\ [Next]_vars => LitterIsFault'
<1>. SUFFICES ASSUME TypeOK, LitterIsFault, [Next]_vars
              PROVE  LitterIsFault'
  OBVIOUS
<1>. USE DEF LitterIsFault, TypeOK, Fault
<1>1. ASSUME NEW p \in Proc, Cleanup(p) \/ Crash(p) PROVE LitterIsFault'
  BY <1>1 DEF Cleanup, Crash
<1>2. ASSUME NEW p \in Proc, MakeStage(p) \/ Rename(p) \/ Swap(p) \/ Discard(p) \/ AcquireFails(p)
      PROVE  LitterIsFault'
  BY <1>2 DEF MakeStage, Rename, Swap, Discard, AcquireFails
<1>3. ASSUME NEW p \in Proc,
             \/ Begin(p) \/ Ready(p) \/ Acquire(p) \/ CheckExisting(p) \/ Fetch(p)
             \/ Build(p) \/ Inspect(p) \/ Look(p) \/ Unlock(p)
      PROVE  LitterIsFault'
  BY <1>3 DEF Begin, Ready, Stat, Status, Origin, Submodules, Acquire, CheckExisting, Fetch,
              Build, Inspect, Look, Unlock
<1>4. CASE Edit \/ Finished \/ UNCHANGED vars
  BY <1>4 DEF Edit, Finished, vars
<1>. QED  BY <1>1, <1>2, <1>3, <1>4 DEF Next, Continue

\* Every step preserves the invariant,
LEMMA InvNext == Inv /\ [Next]_vars => Inv'
  BY TypeOKNext, HolderNext, LookedFirstNext, MissedNext, StagedNext, LitterNext,
     GitProbeNext, SeenNext, CheckedCleanNext DEF Inv

\* which therefore always holds.
LEMMA Invariant == Spec => []Inv
  BY InvInit, InvNext, PTL DEF Spec
-----------------------------------------------------------------------------
(* What the invariant gives.                                               *)

\* Whoever waited for the lock adopts what the holder before it selected: no call
\* fetches or builds what is already ready for it.
THEOREM OneBuildSharedHolds == Spec => []OneBuildShared
<1>1. Inv => OneBuildShared
  BY DEF Inv, Missed, OneBuildShared
<1>. QED  BY <1>1, Invariant, PTL

\* Calls that ended left no lock, no stage and, without a fault, no litter: every
\* way out of ensure() passes the cleanup of its stage and the release.
THEOREM NothingLeftHolds == Spec => []NothingLeft
<1>1. Inv => NothingLeft
  BY NullAssumption
     DEF Inv, TypeOK, Lock!TypeOK, HolderInside, InLock, StageOwned, LitterIsFault, NothingLeft
<1>. QED  BY <1>1, Invariant, PTL

\* ensure() uses the install lock as Mutex describes it, which is what InstallLock
\* implements with files: each call acquires it free and releases only its own,
\* also when it is killed.
THEOREM LockInUse == Spec => Lock!Spec
<1>1. Init => Lock!Init
  BY DEF Init
<1>2. ASSUME Inv, [Next]_vars
      PROVE  [Lock!Next]_holder
  <2>1. ASSUME NEW p \in Proc, Acquire(p) PROVE Lock!Next
    BY <2>1 DEF Acquire, Lock!Next
  <2>2. ASSUME NEW p \in Proc, Unlock(p) PROVE Lock!Next
    BY <2>2 DEF Unlock, Lock!Next
  <2>3. ASSUME NEW p \in Proc, Crash(p) PROVE [Lock!Next]_holder
    BY <2>3 DEF Crash, Lock!Next, Lock!Release
  <2>4. ASSUME NEW p \in Proc,
               Begin(p) \/ Continue(p) \/ AcquireFails(p), ~Acquire(p), ~Unlock(p)
        PROVE  holder' = holder
    BY <2>4 DEF Begin, Continue, AcquireFails, Ready, Stat, Status, Origin, Submodules,
                CheckExisting, MakeStage,
                Fetch, Build, Inspect, Look, Rename, Swap, Discard, Cleanup
  <2>5. Edit \/ Finished \/ UNCHANGED vars => holder' = holder
    BY DEF Edit, Finished, vars
  <2>. QED  BY <1>2, <2>1, <2>2, <2>3, <2>4, <2>5 DEF Next
<1>. QED  BY <1>1, <1>2, Invariant, PTL DEF Spec, Lock!Spec

\* A step that changes the tree at the path and is not the user's is a selection.
LEMMA DestSteps ==
  Inv /\ [Next]_vars => dest' = dest \/ UserWrites \/ \E p \in Proc : Selects(p)
<1>. SUFFICES ASSUME Inv, [Next]_vars
              PROVE  dest' = dest \/ UserWrites \/ \E p \in Proc : Selects(p)
  OBVIOUS
<1>1. CASE Finished \/ UNCHANGED vars
  BY <1>1 DEF Finished, vars
<1>2. CASE Edit
  BY <1>2, EditStep DEF Inv
<1>3. CASE \E p \in Proc : Begin(p) \/ Continue(p) \/ AcquireFails(p) \/ Crash(p)
  BY <1>3, SelectSteps
<1>. QED  BY <1>1, <1>2, <1>3 DEF Next

\* What an installer makes the path name is the whole installation of the entry
\* that the holder of the install lock wants.
THEOREM SelectionCompleteHolds == Spec => SelectionComplete
<1>1. Inv /\ [Next]_vars
        => (dest' # dest /\ edits' = edits
              => \E p \in Proc : holder = p /\ dest' = Installed(want[p]))
  BY DestSteps DEF Selects, UserWrites
<1>. QED  BY <1>1, Invariant, PTL DEF Spec, SelectionComplete

\* The path never goes from something to nothing, not even during a replacement.
THEOREM NeverHiddenHolds == Spec => NeverHidden
<1>1. Inv /\ [Next]_vars => (dest.kind # "none" => dest'.kind # "none")
  <2>. SUFFICES ASSUME Inv, [Next]_vars, dest.kind # "none"
                PROVE  dest'.kind # "none"
    OBVIOUS
  <2>1. TypeOK
    BY DEF Inv
  <2>2. ASSUME NEW p \in Proc, Selects(p) PROVE dest'.kind # "none"
    BY <2>1, <2>2, InstalledTree DEF Selects, TypeOK
  <2>3. CASE UserWrites
    <3>1. \E d \in Part : dest' = [dest EXCEPT !.spoilt = {d}]
      BY <2>3 DEF UserWrites
    <3>. QED  BY <2>1, <3>1, EditedTree DEF TypeOK
  <2>. QED  BY <2>2, <2>3, DestSteps
<1>. QED  BY <1>1, Invariant, PTL DEF Spec, NeverHidden

\* User's work that is there while no call is past its look at the path is never
\* displaced, whatever the calls want that run or are still to come.
THEOREM UserWorkRefusedHolds == Spec => UserWorkRefused
<1>1. ASSUME Inv, [Next]_vars, Settled
      PROVE  Settled' /\ dest' = dest
  <2>1. dest' = dest
    <3>1. \A p \in Proc : ~Selects(p)
      BY <1>1 DEF Settled, PastCheck, Selects
    <3>2. ~UserWrites
      BY <1>1 DEF Settled, UserWork, UserWrites
    <3>. QED  BY <1>1, <3>1, <3>2, DestSteps
  <2>2. ASSUME NEW q \in Proc PROVE pc'[q] \notin PastCheck
    <3>. USE <1>1 DEF Inv
    <3>1. ASSUME NEW p \in Proc, Begin(p) \/ Continue(p) \/ AcquireFails(p) \/ Crash(p)
          PROVE  pc'[q] \notin PastCheck
      <4>1. CASE q # p
        BY <3>1, <4>1, OthersStay DEF Others, Settled
      <4>2. CASE q = p
        <5>. USE <4>2 DEF TypeOK, Goto, Outcome, Raise, Settled, PastCheck
        <5>1. CASE CheckExisting(p)
          BY <5>1 DEF CheckExisting, Replaceable, UserWork
        <5>2. CASE Ready(p)
          BY <5>2 DEF Ready, Stat, Status, Origin, Submodules, Hit, Miss
        <5>3. CASE Begin(p) \/ Acquire(p) \/ AcquireFails(p) \/ Cleanup(p) \/ Unlock(p) \/ Crash(p)
          BY <5>3 DEF Begin, Acquire, AcquireFails, Cleanup, Unlock, Crash
        <5>4. CASE \/ MakeStage(p) \/ Fetch(p) \/ Build(p) \/ Inspect(p) \/ Look(p)
                   \/ Rename(p) \/ Swap(p) \/ Discard(p)
          BY <5>4 DEF MakeStage, Fetch, Build, Inspect, Look, Rename, Swap, Discard
        <5>. QED  BY <3>1, <5>1, <5>2, <5>3, <5>4 DEF Continue
      <4>. QED  BY <4>1, <4>2
    <3>2. CASE Edit \/ Finished \/ UNCHANGED vars
      BY <3>2 DEF Edit, Finished, vars, Settled
    <3>. QED  BY <3>1, <3>2 DEF Next
  <2>. QED  BY <1>1, <2>1, <2>2 DEF Settled, UserWork
<1>2. Inv /\ [Next]_vars => (Settled => Settled' /\ dest' = dest)
  BY <1>1
<1>. QED  BY <1>2, Invariant, PTL DEF Spec, UserWorkRefused

\* A ready answer is true of the tree that `git status` read, and under the lock of
\* what the path holds now, though the looks are taken one after the other.
THEOREM ReadyIsTrueHolds == Spec => ReadyIsTrue
<1>1. ASSUME Inv, [Next]_vars, NEW q \in Proc, result[q] # "ready", result'[q] = "ready",
             want[q].source = "git"
      PROVE  Whole(want[q], seen[q]) /\ (probe[q] # 1 => Whole(want[q], dest))
  <2>. USE <1>1 DEF Inv, TypeOK, Goto, Outcome, Raise
  <2>1. CASE \E p \in Proc : Ready(p)
    <3>1. PICK p \in Proc : Ready(p)
      BY <2>1
    <3>2. q = p /\ pc[q] = "submodules" /\ OwnSubmodules(dest)
      BY <3>1 DEF Ready, Stat, Status, Origin, Submodules, Hit, Miss
    <3>3. Seen(q) /\ want[q] \in Entry /\ seen[q] \in Tree /\ dest \in Tree
      BY DEF SeenFirst
    <3>4. Of(want[q], seen[q]) /\ (probe[q] # 1 => Of(want[q], dest))
      BY <3>2, <3>3 DEF Seen
    <3>5. ASSUME edits = 0
          PROVE  seen[q].spoilt = {} /\ (probe[q] # 1 => dest = seen[q])
      <4>1. /\ seen[q] = dest \/ (probe[q] = 1 /\ seen[q].spoilt = {})
            /\ "files" \notin seen[q].spoilt /\ "origin" \notin seen[q].spoilt
        BY <3>2, <3>3, <3>5 DEF Seen
      <4>2. seen[q] = dest => seen[q].spoilt = {}
        <5>1. seen[q].spoilt \subseteq Part
          BY <3>3 DEF Tree
        <5>. QED  BY <3>2, <4>1, <5>1 DEF OwnSubmodules, Part
      <4>. QED  BY <4>1, <4>2
    <3>6. edits = 0 => seen[q] = Installed(want[q]) /\ (probe[q] # 1 => dest = Installed(want[q]))
      BY <3>3, <3>4, <3>5, WholeInstalled
    <3>. QED  BY <3>4, <3>6 DEF Whole, Of
  <2>2. ASSUME NEW p \in Proc,
               \/ Begin(p) \/ Acquire(p) \/ AcquireFails(p) \/ CheckExisting(p)
               \/ MakeStage(p) \/ Fetch(p) \/ Build(p) \/ Inspect(p)
        PROVE  FALSE
    BY <2>2 DEF Begin, Acquire, AcquireFails, CheckExisting, MakeStage, Fetch,
                Build, Inspect
  <2>3. ASSUME NEW p \in Proc,
               \/ Look(p) \/ Rename(p) \/ Swap(p) \/ Discard(p) \/ Cleanup(p) \/ Unlock(p)
               \/ Crash(p)
        PROVE  FALSE
    BY <2>3 DEF Look, Rename, Swap, Discard, Cleanup, Unlock, Crash
  <2>4. CASE Edit \/ Finished \/ UNCHANGED vars
    BY <2>4 DEF Edit, Finished, vars
  <2>. QED  BY <2>1, <2>2, <2>3, <2>4 DEF Next, Continue
<1>2. Inv /\ [Next]_vars
        => (\A p \in Proc : result[p] # "ready" /\ result'[p] = "ready" /\ want[p].source = "git"
              => /\ Whole(want[p], seen[p])
                 /\ probe[p] # 1 => Whole(want[p], dest))
  BY <1>1
<1>. QED  BY <1>2, Invariant, PTL DEF Spec, ReadyIsTrue
-----------------------------------------------------------------------------
(* What CallsEnd rests on: no call goes round in circles, and none waits   *)
(* for one that waits.                                                     *)

\* How much of ensure() a call in this phase, at this of its three probes, has
\* before it at most.
Remaining(c, k) ==
  CASE c = "out" -> 0
    [] c = "unlock" -> 1
    [] c = "submodules" -> IF k = 3 THEN 2 ELSE IF k = 2 THEN 16 ELSE 21
    [] c = "origin" -> IF k = 3 THEN 3 ELSE IF k = 2 THEN 17 ELSE 22
    [] c = "status" -> IF k = 3 THEN 4 ELSE IF k = 2 THEN 18 ELSE 23
    [] c = "stat" -> IF k = 3 THEN 5 ELSE IF k = 2 THEN 19 ELSE 24
    [] c = "cleanup" -> 6
    [] c = "discard" -> 7
    [] c = "swap" -> 8
    [] c = "rename" -> 9
    [] c = "look" -> 10
    [] c = "inspect" -> 11
    [] c = "build" -> 12
    [] c = "fetch" -> 13
    [] c = "mkstage" -> 14
    [] c = "begin" -> 15
    [] c = "acquire" -> 20
Ahead(p) == Remaining(pc[p], probe[p])

\* A call comes nearer to its end with each of its steps, and no other caller, no
\* mishap and no writing user sets it back: it takes at most 24 of them.
CallsAdvance ==
  [][\A p \in Proc : /\ Continue(p) => Ahead(p)' < Ahead(p)
                     /\ pc[p] # "out" => Ahead(p)' <= Ahead(p)]_vars

\* Whoever is kept waiting for the install lock is kept by a call that is inside
\* and not waiting itself, so that some call can always go on.
WaitsForRunner ==
  \A p \in Proc : pc[p] = "acquire" /\ holder # NoProc =>
    holder \in Proc \ {p} /\ pc[holder] \notin {"out", "acquire"}

\* Each step of a call, whatever it finds and whatever fails, leads onwards.
LEMMA StepsAhead ==
  ASSUME TypeOK, NEW p \in Proc, Continue(p)
  PROVE  /\ Ahead(p)' < Ahead(p)
         /\ \A q \in Proc \ {p} : pc'[q] = pc[q] /\ probe'[q] = probe[q]
<1>. USE DEF TypeOK, Ahead, Remaining, Goto, Raise, Outcome
<1>1. CASE Ready(p)
  BY <1>1 DEF Ready, Stat, Status, Origin, Submodules, Hit, Miss
<1>2. CASE Acquire(p)
  BY <1>2 DEF Acquire
<1>3. CASE CheckExisting(p) \/ MakeStage(p)
  BY <1>3 DEF CheckExisting, MakeStage
<1>4. CASE Fetch(p) \/ Build(p)
  <2>1. /\ pc[p] \in {"fetch", "build"} /\ UNCHANGED probe
        /\ \/ pc' = [pc EXCEPT ![p] = "cleanup"]
           \/ pc[p] = "fetch" /\ pc' = [pc EXCEPT ![p] = "build"]
           \/ pc[p] = "build" /\ pc' = [pc EXCEPT ![p] = "inspect"]
    BY <1>4 DEF Fetch, Build
  <2>. QED  BY <2>1
<1>5. CASE Inspect(p) \/ Look(p)
  BY <1>5 DEF Inspect, Look
<1>6. CASE Rename(p)
  BY <1>6 DEF Rename
<1>7. CASE Swap(p) \/ Discard(p)
  BY <1>7 DEF Swap, Discard
<1>8. CASE Cleanup(p) \/ Unlock(p)
  BY <1>8 DEF Cleanup, Unlock
<1>. QED
  BY <1>1, <1>2, <1>3, <1>4, <1>5, <1>6, <1>7, <1>8 DEF Continue

\* A call of ensure() takes a bounded number of steps, whoever runs beside it.
THEOREM CallsAdvanceHolds == Spec => CallsAdvance
<1>1. ASSUME TypeOK, [Next]_vars, NEW p \in Proc
      PROVE  /\ Continue(p) => Ahead(p)' < Ahead(p)
             /\ pc[p] # "out" => Ahead(p)' <= Ahead(p)
  <2>1. \A c \in Phase, k \in 1..3 : Remaining(c, k) \in Nat /\ Remaining("out", k) = 0
    BY DEF Phase, Remaining
  <2>2. Ahead(p) \in Nat /\ Ahead(p)' \in Nat
    BY <1>1, <2>1, TypeOKNext DEF TypeOK, Ahead
  <2>3. CASE Continue(p)
    <3>1. Ahead(p)' < Ahead(p)
      BY <1>1, <2>3, StepsAhead
    <3>. QED  BY <2>2, <3>1
  <2>4. CASE ~Continue(p)
    <3>1. ASSUME NEW q \in Proc, Continue(q)
          PROVE  pc'[p] = pc[p] /\ probe'[p] = probe[p]
      BY <1>1, <2>4, <3>1, StepsAhead
    <3>2. ASSUME NEW q \in Proc, Begin(q) \/ AcquireFails(q) \/ Crash(q)
          PROVE  \/ pc'[p] = pc[p] /\ probe'[p] = probe[p]
                 \/ pc[p] = "out"
                 \/ pc'[p] = "out"
      BY <1>1, <3>2 DEF Begin, AcquireFails, Crash, Goto, Raise, TypeOK
    <3>3. ASSUME Edit \/ Finished \/ UNCHANGED vars
          PROVE  pc'[p] = pc[p] /\ probe'[p] = probe[p]
      <4>1. CASE Edit
        BY <4>1 DEF Edit
      <4>2. CASE Finished
        BY <4>2 DEF Finished, vars
      <4>3. CASE UNCHANGED vars
        BY <4>3 DEF vars
      <4>. QED  BY <3>3, <4>1, <4>2, <4>3
    <3>4. \/ pc'[p] = pc[p] /\ probe'[p] = probe[p]
          \/ pc[p] = "out"
          \/ pc'[p] = "out"
      BY <1>1, <3>1, <3>2, <3>3 DEF Next
    <3>5. CASE pc'[p] = pc[p] /\ probe'[p] = probe[p]
      BY <2>2, <2>4, <3>5 DEF Ahead
    <3>6. CASE pc[p] = "out" \/ pc'[p] = "out"
      <4>1. CASE pc'[p] = "out"
        <5>1. Ahead(p)' = 0
          BY <1>1, <2>1, <4>1, TypeOKNext DEF Ahead, TypeOK
        <5>. QED  BY <2>2, <2>4, <5>1
      <4>2. CASE pc[p] = "out"
        BY <2>4, <4>2
      <4>. QED  BY <3>6, <4>1, <4>2
    <3>. QED  BY <3>4, <3>5, <3>6
  <2>. QED  BY <2>3, <2>4
<1>2. TypeOK /\ [Next]_vars
        => \A p \in Proc : /\ Continue(p) => Ahead(p)' < Ahead(p)
                           /\ pc[p] # "out" => Ahead(p)' <= Ahead(p)
  BY <1>1
<1>. QED  BY <1>2, TypeCorrect, PTL DEF Spec, CallsAdvance

\* Callers of one install id never wait for each other in a circle.
THEOREM WaitsForRunnerHolds == Spec => []WaitsForRunner
<1>1. Inv => WaitsForRunner
  BY DEF Inv, TypeOK, Lock!TypeOK, HolderInside, InLock, WaitsForRunner
<1>. QED  BY <1>1, Invariant, PTL
=============================================================================
