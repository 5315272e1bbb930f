------------------------------- MODULE FirstUse -------------------------------
(***************************************************************************)
(* One user's calls of kilix_content/first_use.py and what they reach: the *)
(* catalog entry, the question whether a receipt covers it, the screen,    *)
(* the agreement, the receipt, and _select_asset with what fills its stage *)
(* (_populate_upstream_asset in its four source modes, resolve_converter,  *)
(* _populate_supplied_asset), while files are replaced, downloads fail and *)
(* the process is killed.  Concurrent calls are AssetInstall's subject,    *)
(* fetch_exact is FetchExact's, ensure(tool) PackageInstall's and          *)
(* ReceiptStore.write ReceiptStore's: each is one step here.               *)
(***************************************************************************)
EXTENDS SuppliedFile, PackagedCatalog

CONSTANTS Lists,      \* [Version -> the files it lists for the asset]
          Binds,      \* [Version -> what a receipt for it is written for: its
                      \* licence record and its files]
          MaxCalls,   \* bound: calls of the user, before all is calm
          MaxFaults   \* bound: mishaps

Listings == {Lists[v] : v \in Version}
Bindings == {Binds[v] : v \in Version}

ASSUME ListingAssumption == {"none", "foreign"} \intersect Listings = {}
ASSUME BoundAssumption == {MaxCalls, MaxFaults} \subseteq Nat

VARIABLES way,      \* how the stage is filled
          archive,  \* what the pinned archive holds
          plain,    \* the supplied path holds no terminal control
          tmp,      \* the temporary of the asset's owner file exists
          tool,     \* where the converter is to be had
          receipt,  \* [Bindings -> the asset's receipt file for that binding]
          spec,     \* the catalog version the call's AssetSpec came from
          at,       \* the step of the plan the call is at
          tree,     \* what is staged so far is what this call's spec lists
          dest,     \* what is at the asset's path: the files of some version, or other
          pc,       \* where the call is
          result,   \* how the last call ended
          calls, faults,
          calm      \* mishaps are over and the user goes on

scene == <<way, archive, plain>>
world == <<scene, tmp>>
staged == <<at, tree>>
bounds == <<calls, faults, calm>>
callVars == <<spec, staged, dest, pc, result>>
vars == <<fileVars, catalogVars, world, tool, receipt, callVars, bounds>>

\* What _populate_*_asset does, in order, for each way of filling the stage.
Plan == [archive  |-> <<"fetch", "extract", "strip", "notices">>,
         files    |-> <<"fetch", "fetch", "notices">>,
         convert  |-> <<"resolve", "fetch", "fetch", "convert", "notices">>,
         registry |-> <<"fetch", "fetch", "notices">>,
         supplied |-> <<"supply", "notices">>]

TypeOK == /\ FileTypeOK
          /\ CatalogTypeOK
          /\ way \in DOMAIN Plan
          /\ archive \in {"fits", "unsafe", "rooted", "notice", "other"}
          /\ plain \in BOOLEAN
          /\ tmp \in BOOLEAN
          /\ tool \in {"path", "catalog", "external"}
          /\ receipt \in [Bindings -> {"none", "torn", "whole"}]
          /\ spec \in Version \union {NoVersion}
          /\ at \in 1..Len(Plan[way]) + 1
          /\ tree \in BOOLEAN
          /\ dest \in {"none", "foreign"} \union Listings
          /\ pc \in {"idle", "load", "ask", "screen", "answer", "record", "gate",
                     "own", "name", "under", "fill", "resolving", "tool", "inspect", "select"}
          /\ pc \notin {"idle", "load"} => spec # NoVersion
          /\ result \in {"none", "path", "declined", "error", "prerequisite"}
          /\ calls \in 0..MaxCalls
          /\ faults \in 0..MaxFaults
          /\ calm \in BOOLEAN

\* The ways of filling under which the catalog is seen to be replaced: `archive` and
\* Pinned tell of one version only, and "registry" fills as "files" does.
Upgradable == way \in {"files", "convert"}

\* Only one way of filling needs each part of the world; elsewhere it is fixed.
\* Receipts and files of other versions are left by calls.
Init == /\ FileInit /\ CatalogInit
        /\ way \in DOMAIN Plan
        /\ archive \in {"fits", "unsafe", "rooted", "notice", "other"}
        /\ plain \in BOOLEAN
        /\ tool \in {"path", "catalog", "external"}
        /\ tmp = FALSE
        /\ way # "archive" => archive = "fits"
        /\ way # "convert" => tool = "path"
        /\ way # "supplied" => plain
        /\ way # "supplied" \/ ~plain => name = Odd /\ \A i \in Inode : data[i] = Pinned
        /\ ~Upgradable => file = Release
        /\ receipt \in [Bindings -> {"none", "torn", "whole"}]
        /\ \A b \in Bindings \ {Binds[Release]} : receipt[b] = "none"
        /\ spec = NoVersion
        /\ at = 1
        /\ tree = FALSE
        /\ dest \in {"none", "foreign"}
        /\ way # "files" => dest = "none"
        /\ pc = "idle"
        /\ result = "none"
        /\ calls = 0
        /\ faults = 0
        /\ calm = FALSE
-----------------------------------------------------------------------------
Goto(c) == pc' = c /\ UNCHANGED result
End(r) == pc' = "idle" /\ result' = r
Move(from, to) == pc = from /\ Goto(to)

\* A consumer takes the asset from the verified catalog or from the other.
Begin ==
  /\ pc = "idle"
  /\ \/ calm /\ UNCHANGED calls
     \/ ~calm /\ calls < MaxCalls /\ calls' = calls + 1
  /\ result' = "none"
  /\ at' = 1
  /\ tree' = FALSE
  /\ \/ pc' = "load" /\ load' = "schema" /\ UNCHANGED <<cache, spec>>
     \/ ~calm /\ pc' = "ask" /\ spec' = Cached /\ cache' = Cached /\ UNCHANGED load
  /\ UNCHANGED <<fileVars, file, frozen, payload, parsed, world, tool, receipt,
                 dest, faults, calm>>

Loading == /\ pc \in {"load", "resolving"}
           /\ Verify
           /\ UNCHANGED <<fileVars, world, tool, receipt, callVars, bounds>>

Loaded ==
  /\ pc = "load"
  /\ \/ load = "given" /\ spec' = parsed /\ Goto("ask")
     \/ load = "refused" /\ End("error") /\ UNCHANGED spec
  /\ load' = "idle"
  /\ UNCHANGED <<fileVars, file, frozen, cache, payload, parsed, world, tool,
                 receipt, staged, dest, bounds>>
-----------------------------------------------------------------------------
(* first_use                                                               *)

\* coverage.require: the receipt for what this call's spec binds; a file that
\* cannot be read as a receipt covers nothing.
Covered == receipt[Binds[spec]] = "whole"

\* Mutant: a malformed receipt raises out of needs_agreement().
MutAsk ==
  /\ pc = "ask"
  /\ \/ Covered /\ Goto("gate")
     \/ receipt[Binds[spec]] = "none" /\ Goto("screen")
     \/ receipt[Binds[spec]] = "torn" /\ End("error")
  /\ UNCHANGED <<fileVars, catalogVars, world, tool, receipt, spec, staged, dest, bounds>>

\* needs_agreement; a caller may go to the screen without asking.
Ask ==
  /\ pc = "ask"
  /\ Goto("screen") \/ (Covered /\ Goto("gate"))
  /\ UNCHANGED <<fileVars, catalogVars, world, tool, receipt, spec, staged, dest, bounds>>

\* present_asset: a path that could repaint the screen is refused before it.
Screen ==
  /\ pc = "screen"
  /\ \/ way = "supplied" /\ ~plain /\ End("error")
     \/ (way # "supplied" \/ plain) /\ Goto("answer")
  /\ UNCHANGED <<fileVars, catalogVars, world, tool, receipt, spec, staged, dest, bounds>>

\* decline, or capture_agreement of what was typed, which may not do.
Answer ==
  /\ pc = "answer"
  /\ \/ Goto("record")
     \/ ~calm /\ End("declined")
     \/ ~calm /\ End("error")
  /\ UNCHANGED <<fileVars, catalogVars, world, tool, receipt, spec, staged, dest, bounds>>

\* store.write of the receipt.
Record ==
  /\ pc = "record"
  /\ \/ receipt' = [receipt EXCEPT ![Binds[spec]] = "whole"] /\ Goto("gate")
     \/ ~calm /\ UNCHANGED receipt /\ End("error")
  /\ UNCHANGED <<fileVars, catalogVars, world, tool, spec, staged, dest, bounds>>
-----------------------------------------------------------------------------
(* _select_asset                                                           *)

\* _asset_integrity_ready: the path holds the files this call's spec lists.
IntegrityReady == dest = Lists[spec]

\* require, then require_license and _asset_integrity_ready of _select_asset.
Gate ==
  /\ pc = "gate"
  /\ \/ ~Covered /\ End("error")
     \/ Covered /\ IntegrityReady /\ End("path")
     \/ Covered /\ ~IntegrityReady /\ Goto("own")
  /\ UNCHANGED <<fileVars, catalogVars, world, tool, receipt, spec, staged, dest, bounds>>

\* _asset_lock: the owner file's temporary is made, and must not be there,
WriteOwner ==
  /\ pc = "own"
  /\ \/ ~tmp /\ tmp' = TRUE /\ Goto("name")
     \/ tmp /\ UNCHANGED tmp /\ End("error")
  /\ UNCHANGED <<fileVars, catalogVars, scene, tool, receipt, spec, staged, dest, bounds>>

\* and becomes the owner file, unless it cannot be written.
NameOwner ==
  /\ pc = "name"
  /\ \/ tmp' = FALSE /\ Goto("under")
     \/ ~calm /\ UNCHANGED tmp /\ End("error")
  /\ UNCHANGED <<fileVars, catalogVars, scene, tool, receipt, spec, staged, dest, bounds>>

\* Under the lock both are asked again; what is at the path and is not what the
\* spec lists is refused, another version's files too.
Under ==
  /\ pc = "under"
  /\ \/ ~Covered /\ End("error")
     \/ Covered /\ IntegrityReady /\ End("path")
     \/ Covered /\ ~IntegrityReady /\ dest # "none" /\ End("error")
     \/ Covered /\ dest = "none" /\ Goto("fill")
  /\ UNCHANGED <<fileVars, catalogVars, world, tool, receipt, spec, staged, dest, bounds>>

Doing(kind) == pc = "fill" /\ at <= Len(Plan[way]) /\ Plan[way][at] = kind
Done == at' = at + 1 /\ Goto("fill")
Fail == End("error") /\ UNCHANGED at

\* fetch_exact: the pinned bytes, or an error.
Fetch ==
  /\ Doing("fetch")
  /\ Done \/ (~calm /\ Fail)
  /\ tree' = TRUE
  /\ UNCHANGED <<fileVars, catalogVars, world, tool, receipt, spec, dest, bounds>>

\* safe_extract_zip or safe_extract_tar, _strip_archive_root, _write_notices.
Extract ==
  /\ Doing("extract")
  /\ IF archive = "unsafe" THEN Fail ELSE Done
  /\ tree' = (archive # "other")
  /\ UNCHANGED <<fileVars, catalogVars, world, tool, receipt, spec, dest, bounds>>

StripRoot ==
  /\ Doing("strip")
  /\ IF archive = "rooted" THEN Fail ELSE Done
  /\ UNCHANGED <<fileVars, catalogVars, world, tool, receipt, spec, tree, dest, bounds>>

WriteNotices ==
  /\ Doing("notices")
  /\ IF archive = "notice" THEN Fail ELSE Done
  /\ UNCHANGED <<fileVars, catalogVars, world, tool, receipt, spec, tree, dest, bounds>>

\* The converter's command ends well, fails, or leaves another tree.
Convert ==
  /\ Doing("convert")
  /\ Done \/ (~calm /\ Fail)
  /\ tree' \in {TRUE, calm}
  /\ UNCHANGED <<fileVars, catalogVars, world, tool, receipt, spec, dest, bounds>>

\* resolve_converter: the converter is on PATH, or the catalog is consulted.
Resolve ==
  /\ Doing("resolve")
  /\ \/ tool = "path" /\ Done /\ UNCHANGED load
     \/ tool # "path" /\ load' = "schema" /\ Goto("resolving") /\ UNCHANGED at
  /\ UNCHANGED <<fileVars, file, frozen, cache, payload, parsed, world, tool,
                 receipt, spec, tree, dest, bounds>>

\* The asset must be the verified catalog's own.
Consult ==
  /\ pc = "resolving"
  /\ \/ load = "refused" /\ End("error")
     \/ load = "given" /\ spec # parsed /\ End("error")
     \/ load = "given" /\ spec = parsed /\ tool = "external" /\ End("prerequisite")
     \/ load = "given" /\ spec = parsed /\ tool # "external" /\ Goto("tool")
  /\ load' = "idle"
  /\ UNCHANGED <<fileVars, file, frozen, cache, payload, parsed, world, tool,
                 receipt, spec, staged, dest, bounds>>

\* ensure(tool).
EnsureTool ==
  /\ pc = "tool"
  /\ Done \/ (~calm /\ Fail)
  /\ UNCHANGED <<fileVars, catalogVars, world, tool, receipt, spec, tree, dest, bounds>>

\* _populate_supplied_asset, for the one file it is given.
Supply ==
  /\ Doing("supply")
  /\ \/ Handle /\ UNCHANGED <<staged, pc, result>>
     \/ step = "bad" /\ Close /\ Fail /\ UNCHANGED tree
     \/ step = "good" /\ Close /\ Done /\ tree' = (copy = Pinned)
  /\ UNCHANGED <<catalogVars, world, tool, receipt, spec, dest, bounds>>

Filled == /\ Move("fill", "inspect")
          /\ at > Len(Plan[way])
          /\ UNCHANGED <<fileVars, catalogVars, world, tool, receipt, spec,
                         staged, dest, bounds>>

\* The staged tree is checked and the receipt required for the third time.
Inspect ==
  /\ pc = "inspect"
  /\ \/ tree /\ Covered /\ Goto("select")
     \/ ~(tree /\ Covered) /\ End("error")
  /\ UNCHANGED <<fileVars, catalogVars, world, tool, receipt, spec, staged, dest, bounds>>

Select == /\ pc = "select"
          /\ dest' = IF tree THEN Lists[spec] ELSE "foreign"
          /\ End("path")
          /\ UNCHANGED <<fileVars, catalogVars, world, tool, receipt, spec,
                         staged, bounds>>

Continue == \/ Loading \/ Loaded \/ Ask \/ Screen \/ Answer \/ Record \/ Gate
            \/ WriteOwner \/ NameOwner \/ Under \/ Fetch \/ Extract \/ StripRoot
            \/ WriteNotices \/ Convert \/ Resolve \/ Consult \/ EnsureTool
            \/ Supply \/ Filled \/ Inspect \/ Select
-----------------------------------------------------------------------------
Fault == ~calm /\ faults < MaxFaults /\ faults' = faults + 1 /\ UNCHANGED <<calls, calm>>

\* The process is killed: its descriptors, its variables and its cache go.
Kill ==
  /\ pc # "idle"
  /\ Fault
  /\ End("error")
  /\ Close
  /\ cache' = NoVersion /\ payload' = NoVersion /\ parsed' = NoVersion /\ load' = "idle"
  /\ UNCHANGED <<file, frozen, world, tool, receipt, spec, staged, dest>>

\* A receipt is deleted, or half of a backup put in its place; of other versions,
\* one that a call wrote.
LoseReceipt ==
  /\ Fault
  /\ \E b \in Bindings, r \in {"none", "torn"} :
       /\ b = Binds[Release] \/ receipt[b] # "none"
       /\ r # receipt[b] /\ receipt' = [receipt EXCEPT ![b] = r]
  /\ UNCHANGED <<fileVars, catalogVars, world, tool, callVars>>

Upgrade == /\ Upgradable
           /\ Fault
           /\ ReplaceFile
           /\ UNCHANGED <<fileVars, world, tool, receipt, callVars>>

\* Others change the supplied directory.
Meddle == /\ way = "supplied" /\ plain /\ ~calm
          /\ Disturb
          /\ UNCHANGED <<catalogVars, world, tool, receipt, callVars, bounds>>

\* The user installs the package ConverterPrerequisiteError names.
InstallPrerequisite ==
  /\ tool = "external" /\ tool' = "path"
  /\ UNCHANGED <<fileVars, catalogVars, world, receipt, callVars, bounds>>

\* From here on nothing fails, in a world that has what the asset needs; the
\* bounds on calls and mishaps are used up.
Settle ==
  /\ ~calm /\ calm' = TRUE /\ calls' = MaxCalls /\ faults' = MaxFaults
  /\ file = Release /\ frozen
  /\ archive = "fits" /\ plain /\ tool # "external"
  /\ way = "supplied" => name \in Inode /\ data[name] = Pinned
  /\ UNCHANGED <<fileVars, catalogVars, world, tool, receipt, callVars>>

\* The user gives up.
Finished == pc = "idle" /\ calls = MaxCalls /\ UNCHANGED vars

Next == \/ Begin \/ Continue
        \/ Kill \/ LoseReceipt \/ Upgrade \/ Meddle \/ InstallPrerequisite \/ Settle
        \/ Finished

Spec == Init /\ [][Next]_vars

\* A call keeps running; once all is calm the user tries again.
FairSpec == Spec /\ WF_vars(Continue) /\ WF_vars(calm /\ Begin)
-----------------------------------------------------------------------------
\* Whatever replaces the catalog and whenever, a verified catalog is the
\* release's, and only its own asset borrows a tool from it or asks the user to
\* install one ("Only the exact verified packaged asset may borrow a Content
\* tool or request an external prerequisite").
ActsOnPinnedOnly ==
  /\ parsed \in {NoVersion, Release}
  /\ pc = "tool" \/ result = "prerequisite" => spec = Release

\* Two things lock the release's asset out for good: the temporary of a call that
\* ended between making the owner file and renaming it,
LockedOut == tmp /\ pc # "name"

\* and anything else at the asset's path, the files another version lists among
\* them ("refusing to replace an unverified asset selection").
Taken == dest \notin {"none", Lists[Release]}

\* A user who agrees and tries again gets the release's asset, whatever receipt was
\* torn, whichever call was killed and whichever catalog came between, unless one
\* of the two is in the way.
AgreeingInstalls == calm ~> dest = Lists[Release] \/ LockedOut \/ Taken
=============================================================================
