# Verification of kilix-content

TLA+ specifications of `kilix-content`: the file lock that serialises installs,
the staged install of a package, the gated install of a licensed asset, the
resumable exact download, the runner of build commands, the store of licence
receipts, the flow of first use with the file a user supplies, and the rules by
which catalogs, asset records and archives are accepted. Each is model-checked
with TLC, and every safety property that a passing run checks is also proved, by
machine, for every value of the constants. Paths below are relative to the
repository, with `install.py`, `fetch.py`, `model.py` and `first_use.py` short for
the files of that name in `src/kilix_content/`.

## 1. The system

### Components

| component | state it keeps | operations | where |
|---|---|---|---|
| install lock | lock files `.<install id>.lock`, descriptors and flocks, a per-thread table of held keys | acquire, re-enter, release | `install.py` 233-267, 890-919 |
| package installer | the tree at each content path, staging directories | `ready`, `ensure`, `_ensure_git`, `_ensure_archive`, `_build`, `_replace_stage` | `install.py` 778-1175 |
| asset installer | the tree at each asset path, stage, asset lock file, owner file | `ensure_supplied_asset`, `ensure_upstream_asset`, `_select_asset`, `_asset_lock`, `_withdraw_selection` | `install.py` 1512-1798 |
| exact download | partial file, sidecar, sidecar temporary, destination | `fetch_exact`, `_fetch_one` | `fetch.py` |
| build command runner | a child process group, a pipe, a deadline | `_run_with_tail`, `_kill_process_group` | `install.py` 468-548 |
| archive download and extraction | a temporary archive, member and byte budgets | `download`, `safe_extract_tar`, `safe_extract_zip` | `install.py` 307-446 |
| supplied files | one descriptor, a recorded size, identity and digest | `SuppliedFile.open_beneath`, `revalidate`, `copy_to` | `install.py` 67-230 |
| asset population | files of the stage, notices, converter output | `_populate_supplied_asset`, `_populate_upstream_asset`, `resolve_converter` | `install.py` 1224-1509 |
| content catalog | immutable indexes of packages, contents and assets; the packaged files and a cache | `Catalog.load`, `require`, `provided_by`, `AssetSpec.from_mapping`, `verified_packaged_catalog` | `model.py`, `src/kilix_content/__init__.py` |
| first use | none of its own | `needs_agreement`, `present_asset`, `install_with_agreement` | `first_use.py` |
| receipt store | one file per receipt, a store lock, temporaries | `write`, `lookup`, `for_record` | vendored `kilix_license/store.py`, `receipts.py` |
| coverage and agreement | none | `coverage.require`, `capture_agreement` | vendored `kilix_license` |
| licence texts, screens, generators, tools | none while the program runs | pure functions and offline generators | vendored `kilix_license`, `tools/` |

### How they interact

`ensure()` probes a content path without a lock, takes the **install lock** of
the install id, probes again, stages a source (git commands, or a download and an
extraction), builds it through the **command runner**, verifies the stage, and
exchanges it with the content path. The **asset installer** asks **coverage**
about a **receipt** three times (before its lock, under it, and after the stage is
filled), polls a lock of its own, fills a stage from **supplied files** or from
**exact downloads**, selects it with the same rename-or-exchange, verifies it once
more at its final path and withdraws it if that fails. A conversion recipe calls
`ensure()` of a converter package while it holds the asset lock. **First use**
puts the licence screen, the receipt and the asset install into one flow.

All of it runs as threads of any number of unprivileged processes that share the
content root and nothing else. Coordination is by file locks, renames and
exclusive creation only; there is no server and no journal, so whatever a killed
process leaves is found by the next call.

### What is hard

* *Interleaving.* A lock file that is unlinked when released names one inode
  after another. The two locks treat that differently: the install lock compares
  inodes after its flock, the asset lock does not.
* *Old looks.* A destination is looked at before a fetch and a build that may
  take an hour, and exchanged after it. A receipt may be deleted meanwhile. The
  first readiness probe is a look and three git commands without any lock, each of
  which may find another holder's tree.
* *Failure and kill.* Every system call may fail, every process may be killed
  between two of them, and what stays behind must neither be selected nor block
  later calls.
* *Untrusted time.* Build commands, their background children and upstreams may
  stall for ever; calls are to end by deadline.
* *Resuming.* A download is put together from several calls, responses, mirrors
  and versions of the file, and only its digest says whether it is right.
* *Files of others.* What is verified may be rewritten or replaced before it is
  used: the supplied file between its passes, the catalog between two reads.
* *Rules that must agree.* What one module accepts, another one fetches, stages
  and looks up; a record no rule refuses and no install can satisfy is an error
  the user meets long after.

### What makes each component correct

* install lock: mutual exclusion; a holder unlinks only its own file; a waiter
  gets through, and nothing is left behind.
* package installer: only complete trees are selected; the path is never hidden;
  user's work is refused, not replaced; one build is shared; every call ends.
* asset installer: only matching trees are selected, a refusal leaves nothing, a
  revoked receipt selects nothing, a call withdraws only its own selection.
* exact download: only the pinned bytes; the upstream is blamed only when it was
  wrong; an interruption can be resumed; calling again succeeds; closed failures.
* command runner: output is complete; only its own group is signalled; a held
  pipe, a wedged command or a chatty child does not keep the caller.
* receipt store: a receipt that `write()` returned survives a crash; a torn one
  covers nothing.
* first use: a user who agrees and tries again gets the release's asset, unless
  a killed call's owner file or other files are in the way; only the release's
  catalog is acted on.
* supplied files: the bytes that were hashed are the bytes that are copied.
* catalog: the entries that share an installation agree on what it is; an asset
  record that is accepted is staged as it lists, but for two kinds that section 2
  names.
* archives: members and bytes stay within the budget, up to its very limits.

## 2. The modules and the code

A module has one action per step of the code between two points where another
thread, the kernel or a crash can intervene. Trees, files and versions are small
records or model values; wording, permissions and layout are left out. Mutated
forms of single definitions, named `Mut...`, stand before the definition they
mutate; each breaks one property, which shows that the property depends on that
piece of code. No specification uses them.

**`Mutex`** is what `_install_lock` promises: one holder at a time, freed by
release or death. **`InstallLock`** is how it is kept. `path` is the inode the
lock file names, `fd` and `flock` the descriptors and their locks; `Open`,
`Grant`, `Confirm`/`Orphaned`, `Unlink`, `Close` are the system calls of
`_acquire_install_lock` and of the `with` block's exit in their order, `Reenter`
and `Leave` the thread's table `held`, `AcquireFails` the error path and `Crash` a
killed process. An inode with neither name nor descriptor may be allocated again.
`ImplementsMutex` maps `holder` to the thread inside the block.

**`PackageInstall`** is `Installer.ensure` for one install id, on the lock of
`Mutex` (`Lock!Acquire`, `Lock!Release`). Callers may hold different catalog
entries for the id: another commit, or an archive instead of a checkout. A tree
is what the code looks at: its kind, its commit, which of its tracked files, origin
and submodules are not as pinned (`spoilt`), and its binary (`bin`). A readiness
probe is `Stat`, the look at the binary, and then the three git commands of
`verify_git_checkout`, `Status`, `Origin` and `Submodules`, each of which reads what
the path names by then; `probe` says which of the three probes it is, and `seen`,
which no step of the code reads, keeps the tree that `git status` looked at.
`CheckExisting`, `MakeStage`, `Fetch`, `Build`, `Inspect`,
`Look`, `Rename`/`Swap`, `Discard`, `Cleanup`, `Unlock` are the rest in the order of the
code, with their error paths through the `finally` clauses. `Edit` is a
user writing below the content root.

**`AssetInstall`** is `_select_asset` with `_asset_lock` for one asset: the gate
(`Gate`) outside and inside the lock, the polled lock, the owner file through its
temporary, the stage, the check of the filled stage, selection, the closing
verification (`Final`) and `Withdraw`. It has its own inodes because its lock does
not compare them. `Revoke` deletes the receipt and `Tamper` changes a tree between
its check and the closing verification, which is what that verification is for.

**`FetchExact`** is `fetch_exact` with a partial directory. A file is a sequence
of the versions its blocks came from; `part`, `side` and `tmp` are what survives a
call. One action each for the start of the call, the choice of a candidate, the
request and its response, the file it opens and what it hashes first, each read,
the end of the body, verification and the sidecar. `owed`, which no step of the
code reads, is the length of what a call interrupted at the first candidate left,
until the next request asks past it or the partial is deleted for cause. The
upstream may ignore ranges,
send no validator, fail, stall, cut short, and replace the file behind a URL.

**`CommandRunner`** is `_run_with_tail` against the kernel's pipe, the command,
its children and the clock. `Loop`, `SelectReady`, `SelectQuiet`, `Poll`, `Drain`,
`Wait` and `Kill` are its steps. Children may stay in the group or leave the
session, hold the pipe, write, and exit.

**`ReceiptRegister`** is what the receipt store promises for one record and
manifest: a register whose readers find the old receipt or the new one, and whose
value after a power loss is one that was put since it last settled.
**`ReceiptStore`** is `write()`: the flock of a lock file that is never unlinked,
the sweep of leftovers one unlink at a time, the exclusive temporary, write, sync,
rename and the sync of the directory, each of which may fail. `dest` is what the
running system has under the name and `disk` the versions a power loss may leave
there; a file carries how much of its data is written and synced. `Crash` kills
one process, `PowerLoss` all of them. Readers take no lock and are one look at
`dest` (`ReceiptIn`).

**`FirstUse`** is one user's calls of `first_use.py` and of what they reach, in the
order of the code: `Begin` and `Loading` obtain the asset from the verified catalog or
from the cached one; `Ask`, `Screen`, `Answer`, `Record` are `needs_agreement`,
`present_asset`, `decline` or `capture_agreement`, and `store.write`; `Gate`,
`WriteOwner`, `NameOwner`, `Under` the way into `_select_asset`; then the steps of
`Plan`, one list for each way of filling a stage (`Fetch`, `Extract`, `StripRoot`,
`WriteNotices`, `Convert`, `Resolve` with `Consult` and `EnsureTool`, `Supply`); then
`Inspect` and `Select`. `way`, `archive`, `plain` and `tool` say what asset and what
world it is. What the versions of the catalog differ in is `Lists`, the files a
version lists for the asset, and `Binds`, what a receipt for it is written for (its
licence record and its files): there is one `receipt` for each binding, which may be
torn, and `dest` is the files of some version, or others. A call compares `dest` with
what its own `spec` lists (`IntegrityReady`), and anything else that is there is
refused in `Under`. `Upgradable` says for which ways of filling versions are told
apart. Around the calls, `Kill`, `LoseReceipt`, `Upgrade` (of the packaged files) and
`Meddle` (with the supplied directory) happen, until `Settle`. It is composed of two
modules with variables of their own:

* **`SuppliedFile`**: the walk and the one descriptor (`OpenBeneath`), the three
  passes over it (`Hash`, `Copy`, and `Recheck` with `HashAgain`), block by block,
  against `WriteFile`, a change in place, and `Swap`, another thing at the path.
  `touched` counts the changes to the held file since it was opened.
* **`PackagedCatalog`**: `verified_packaged_catalog`, which reads the schema and the
  catalog and parses the bytes it verified, and the cache of `default_catalog`.

Concurrent calls are `AssetInstall`'s subject and the store's steps
`ReceiptStore`'s; here `fetch_exact`, `store.write` and `ensure(tool)` are one step
that succeeds or fails.

**`ContentRules`** looks at inputs on their own, with three modules:

* **`CatalogBuild`**: `Catalog.__init__` and `from_mapping`; packages, assets and
  entries are added or refused one by one (`AddPackage`, `AddAsset`, `AddEntry`,
  `ReadEntry` for an entry read from a file, which takes its package's fields), and
  `Load` ends it. `OneIdentity` is what `ready_provided` compares; it may still
  raise for another reason, such as a spec whose id is no path component.
* **`AssetRecord`**: `AssetSpec.from_mapping` as a predicate over raw records
  (`Accepted`) with what it makes of them (`Parsed`), beside what
  `_populate_upstream_asset` fetches for the result and where to (`Fetches`), where
  the converter writes (`Output`), where files are put (`Places`) and what
  `source_objects_sha256` names (`SourceObjects`). Paths are names with a
  normalisation and a relation `Beneath`: a file cannot be put where another one
  needs a directory (`Blocks`). `StagesItsFiles` says that the one is right for the
  other. Two kinds of accepted records need not be stageable, and
  `AcceptedAssetIsUsable` excepts them by name: a record that lists a path and a file
  beneath it (`Nested`), and a conversion without inputs or a main path whose
  listed files are fetched (`InPlace`), where the converter's output is the directory
  that holds them.
* **`ArchiveExtract`**: the budget and the member checks of `safe_extract_tar` and
  `safe_extract_zip`, against what extraction would write.

The `...Proofs` modules hold the theorems of the module they are named after;
`FirstUseProofs` also those of `SuppliedFile`, `ContentRulesProofs` those of
`CatalogBuild` and `AssetRecord`, as the compositions rest on them. The `MC_...`
modules give the configurations their constants and symmetry.

## 3. The runs

| run | instance | what it shows |
|---|---|---|
| `install_lock` | 3 threads, 3 inodes, nesting 1, 4 calls, 2 faults | mutual exclusion, ownership of the path, refinement of `Mutex`, waiters get through and nothing is left |
| `package_install` | 2 threads, 2 commits and an archive, 3 calls, 1 fault, 1 edit | complete selections, path never hidden, settled user's work refused, a shared build, a ready answer true of the tree that was looked at (and, under the lock, of the path), every call ends and leaves nothing |
| `package_install_edit` | the same, 2 calls, no fault, 1 edit | *violation* of `UserWorkKept` |
| `asset_install` | 2 threads, 3 inodes, 3 calls, 1 fault, 1 tampered tree, revocable receipt | only matching trees selected, refusals leave nothing, revocation holds, every call ends and leaves nothing |
| `asset_install_own` | the same, no fault, no tampering | *violation* of `SelectionIsOwn` |
| `fetch_exact` | 2 mirrors, 3 reads, 3 troubles, 1 fault | pinned bytes only, fair blame, what the first mirror's interruption left is resumed by later calls, calling again succeeds |
| `fetch_exact_closed` | the same, 2 troubles | *violation* of `FailuresAreClosed` |
| `command_runner` | 2 children, a pipe of 2 blocks, 3 + 3 blocks of output, 1 failed `killpg` | complete output, own group only, exit and deadline end the run |
| `receipt_store` | 2 writers, 2 receipts, 3 writes, 2 faults | refinement of `ReceiptRegister`, returned receipts durable, leftovers swept, errors only by faults, every write ends |
| `command_runner_chatty` | 1 child that may write for ever | *violation* of `TimeoutEnds` |
| `first_use` | 2 calls, 2 mishaps, 2 supplied files of 2 blocks, 2 changes, 3 catalog versions (the release's, one with another licence record, one with other files), all ways of filling | rewritten files detected, only the release's catalog acted on, agreeing installs the release's asset unless one of two things is in the way |
| `content_rules` | catalogs over 2 ids, 2 sources, 2 builds and schema versions 1, 3, 4; records over 2 files, a directory's name and a file beneath it, a notice and a path outside; up to 4 members of sizes -1 to 2 with a budget of 3 | one owner per installation, accepted records are usable, extraction within budget |

**Why these bounds.** The lock's hazard needs a holder that unlinks, a waiter on
the orphan and a third caller on a new file: three threads. Three inodes give
each its own and, with four calls, force reuse; two faults let a kill coincide
with a failed call. In the installers the lock is what serialises, so two
threads show every pairwise interleaving; the third call lets one come back to
what the other two left. The asset lock's defect already needs both threads
inside at once, on two inodes, with a third call or thread to recreate the file.
A file of three reads has a first, a middle and a last block, so a partial may
end in each place; two mirrors with a version each may mix; three troubles let a
download be interrupted, resumed and interrupted again while the upstream
changes. Two writers and two faults let one die, or lose power, in any phase of
the other's write; the third write is the one that meets what both left. A pipe
of two blocks is full before three blocks are written, and two children may be
one in the group and one outside it. In first use a fault may fall into the
first call and another into the second, before all is calm; the packaged files may
be replaced before a call and put back after it, by a catalog that only asks for
another receipt or by one that installs other files; two changes to a
supplied file are the least that can cancel out, and two different blocks the
least whose order matters. Of the schema versions, 1 has no packages, 3 has no
assets and 4 has both. Two files and a notice let two inputs collide, one be
listed and not fetched and one be fetched and not listed; a directory and a file
beneath it let the one be in the other's way. Three members of
budget, one more than allowed and sizes below zero, at and above the limit reach
each side of every comparison. The bounds (`Max...`) appear as guards of the
environment's actions and of the beginning of a call (or a nested one) only; no
step of a call under way is refused by one. Where a bound ends the behaviour, an
explicit `Finished` step stutters, so deadlock is checked in every run but
`content_rules`, where reading one input is all there is to do. `SYMMETRY` is
declared only in `asset_install_own`, which has no temporal property.

**Fairness.** A thread that can run takes its next step (weak fairness of the
code's own steps). In `InstallLock` the holder's unlink is strongly fair,
because nested entries disable it and enable it again; the kernel grants a free
flock, but to no thread in particular, and `WaiterGetsThrough` rests on the
bounded number of calls: with unboundedly many callers a flock promises nothing
to one of them. In `PackageInstall` and `AssetInstall` every step between entry
and return is fair: commands are bounded by `command_timeout` (which
`CommandRunner` examines), and downloads by the time limits of the socket.
`FetchExact` assumes a user who calls again until the file is there and nothing
of the upstream, except where `CallingAgainSucceeds` asks for one that serves
the pinned file from some time on. `ReceiptStore` assumes that a writer keeps
running and, its writes being bounded, that a free lock goes to one of its
waiters. `CommandRunner` assumes that the runner runs and that time passes; the
command and its children promise nothing. In `FirstUse` a call keeps running;
once all is calm (`Settle`: nothing fails any more, the packaged files are the
release's, the supplied path holds the listed file, a converter is to be had)
the user tries again and agrees. Faults, kills, edits, cancellations and the
coming of the calm are never fair.

### What the violations say

Four statements of the repository are not kept by the code. The counterexamples:

* `UserWorkKept`: a tracked file is edited, or a directory is made, while an
  `ensure()` builds; the exchange at the end displaces it and `rmtree` removes it.
  `UserWorkRefused`, which holds, is what the code does guarantee: work that is
  there while nobody is between its look and its exchange stays.
* `SelectionIsOwn`: a waiter is granted the flock of the asset lock file that its
  holder then unlinks, a third call creates a new one, and both install at once;
  one verifies, and may withdraw, the other's tree. `OnlyMatchingSelected` and
  `RefusalLeavesNothing` hold nevertheless.
* `FailuresAreClosed`: a process killed while it writes the sidecar leaves its
  temporary file; a later cancelled call meets `O_EXCL` and raises
  `FileExistsError` in place of a `DownloadError`.
* `TimeoutEnds` with an endless writer: once the command has exited, the drain
  loop follows a child that left the session and never looks at the deadline. With
  a finite output (`command_runner`) the property holds.

## 4. What is proved

For every set of threads and inodes, every nesting and every number of calls and
faults, from `NullAssumption` and `BoundAssumption` alone
(`InstallLockProofs`):

* `TypeCorrect`, `MutualExclusionHolds`, `HolderOwnsPathHolds`, `NoResidueHolds`,
  `WaitsForRunnerHolds`, and `Refinement` (`Spec => ImplementsMutex`).

The inductive invariant is `IInv == TypeOK /\ FlockOwned /\ DescriptorOpen /\
HolderOwnsPath`. Mutual exclusion is not inductive: nothing in it speaks of the
thread that is about to compare inodes. `HolderOwnsPath` is the reason it holds,
since two holders would both have flocked the inode the path names
(`HoldersShareInode`); it is kept because a path is moved only by its holder's
unlink and by an open that found no name, and because an inode in use is not
allocated again. `DescriptorOpen` and `FlockOwned` tie a flock to the descriptor
that took it, so that closing one thread's descriptor frees no other's. `IInvClose`
is the step all the closing paths share. The refinement follows from the fact that
at most one thread is ever `held` (`OneHolder`, `NobodyHolds`, `SameHolder`).
`NoResidue` follows from `PathKept`: without a fault, some call that is waiting or
inside has the path's inode open. `WaitsForRunner` is what `WaiterGetsThrough` needs
besides fairness: who is kept in `flock()` is kept by another thread that is past it.

For every set of threads and catalog entries of the install id, and every number of
calls, faults and edits, from `NullAssumption`, `EntryAssumption` and
`BoundAssumption` (`PackageInstallProofs`):

* `TypeCorrect`, `OneBuildSharedHolds`, `NothingLeftHolds`, `SelectionCompleteHolds`,
  `NeverHiddenHolds`, `UserWorkRefusedHolds`, `ReadyIsTrueHolds`.
* `CallsAdvanceHolds` and `WaitsForRunnerHolds`, which is what `CallsEnd` needs besides
  fairness.
* `LockInUse` (`Spec => Lock!Spec`): the calls use the lock as `Mutex` describes it,
  which `InstallLockProofs` shows the file lock to implement.

The inductive invariant `Inv` says where the lock's holder is (`HolderInside`), what
it saw there and what it has staged. `OneBuildShared` is not inductive: that nobody
makes ready what the holder found missing needs `HolderInside`, since only a holder
selects, and `Missed`, since a user's edit makes nothing ready. `Staged` follows the
stage from the fetched source through the build, which may have rewritten it or made
no binary (`BuiltFrom`), to the check in `Inspect`, which lets only the whole
installation pass (`BuiltInstalled`); so `SelectionComplete` holds at the rename.
The four looks of a readiness probe are apart, and others may select between them.
`LookedFirst` carries the binary to `git status`: what others put there is runnable
too. `SeenFirst` carries what `git status` read, in `seen`, past the origin to the
submodules: under the lock it still is what the path holds; without the lock the
path may have been given another tree, of the same commit or another, but then
the one that was read was an installer's, whole but for what a user writes
(`CheckedClean`: who is past its look at the destination displaces no tree that is
spoilt). So `ReadyIsTrue` says of a ready answer that it is true of the tree `git
status` read, and of the path only if it was given under the lock.
`CallsAdvance` gives a call a number of remaining steps from its phase and the probe
it is at, 24 at most; each of its own steps lowers it, the fallbacks of
`_replace_stage` included, and no other step raises it. `WaitsForRunner` is
`HolderInside` once more: the lock's holder is never itself at the lock.

For every set of threads and inodes and every number of calls, faults and tampered
trees, from `NullAssumption` and `BoundAssumption` (`AssetInstallProofs`):

* `TypeCorrect`, `OnlyMatchingSelectedHolds`, `RefusalLeavesNothingHolds`,
  `RevocationHoldsAlways`, `NothingLeftHolds`, `HoldersHarmlessHolds`.

There is no mutual exclusion to rest on, as `SelectionIsOwn` shows, so the invariants
speak of each call on its own. `TreeInv`: a call past its check staged a matching
tree, unless somebody tampered (`StageChecked`), and without a fault, while a tree of
an installer that does not match is at the path, some call is on its way to verify and
withdraw it (`BadIsWithdrawn`), which may be another one than put it there. `FileInv`:
a flock belongs to the descriptor that took it, and while the path names a lock file
some call has that very inode open and not yet unlinked (`PathKept`); the last to
close it unlinks the path. The same with the owner file and its temporary (`TmpKept`,
`OwnerKept`), hence `NothingLeft`. `HoldersHarmless` says what holds in place of
`SelectionIsOwn`: without tampering, two holders take no matching tree away from each
other, and whoever passed the checks returns the path unless a system call fails. By
`Agreed`, a call that found nothing at the path later finds nothing or a checked tree
of another holder there (a tree that does not match and is no installer's is refused
before), so that its exchange brings back a matching tree and its closing verification
passes, whoever's tree it looks at.

For every list of candidate URLs, length of the file and number of troubles and
faults, from `FileAssumption`, `ListAssumption` (`fetch_exact` refuses an empty list),
`DistinctAssumption`, `NoFileAssumption` and `BoundAssumption` (`FetchExactProofs`):

* `TypeCorrect`, `OnlyPinnedBytesHolds`, `BlameIsUpstreamsHolds`,
  `InterruptionIsResumedHolds`.

`OnlyPinnedBytes` is the smaller part: what is renamed was hashed, and `Hashed` and
`Whole` say that the digest covered the file and nothing else. `BlameIsUpstreams` asks
that the mixing of old and new bytes never fails a digest by itself. `already` is
measured once, before the first candidate, and used by each of them: `Measured` says
that the first finds the partial still that long and that a later one finds, if
anything, a sidecar of a candidate before it, so that it starts anew (`SideTried`
carries this, and needs `DistinctAssumption`); `Resuming` takes the offset through the
response to the opening of the file. Then all blocks come from the upstream, and a
bad one among them means that it served one (`BadIsTainted`).
`InterruptionIsResumed` speaks of two calls and whatever other ones end between
them: what an interruption at the first candidate left is `owed`, and the next
request to it asks for the rest of exactly that. `Owing` carries it through the end
of the call, its kill or that of the next ones, and the choice of a candidate, with
the sidecar that names that candidate; `Keeping` says that what is kept is shorter
than the file.

For every number of children, pipe size and amount of output, from
`BoundAssumption` (`CommandRunnerProofs`):

* `TypeCorrect`, `OutputCompleteHolds` and `KillsItsOwnHolds`, by an `IInv` that adds:
  an exited command holds no end of the pipe (`Silent`); it is reaped only on the way
  to the drain or the end (`ReapedLate`); and the last read happens when the command
  can write no more (`ReadOut`). The drain after `poll()` is what makes `ReadOut`
  true.

For every set of threads and receipts and every number of writes and faults, from
`NullAssumption` and `BoundAssumption` (`ReceiptStoreProofs`):

* `TypeCorrect`, `Refinement` (`Spec => ImplementsRegister`),
  `ReturnedIsDurableHolds`, `LeftoversSweptHolds` and `ErrorsAreFaultsHolds`. The
  inductive invariant says who is under way (`LockOwned`), that nothing was published
  before it was synced (`DiskWhole`), and for each phase of a write what its
  temporary, the name and the disk hold (`Stages`). `DiskWhole` is why a power loss
  can only lose what was put since the last sync of the directory (`PowerLossLoses`);
  `Stages` is why the rename always finds its temporary.

For every set of files, every listed content and every number of changes, from
`OddAssumption`, `PinnedAssumption` and `ChangeAssumption` (`FirstUseProofs`):

* `RewriteDetectedHolds` and `FileTypeCorrect`. The inductive invariant `Passes`
  says, for each pass, what is known if the file was written to at most once since
  it was opened: before a write, what was read is a beginning of the file
  (`PrefixGrows`), and at its end all of it (`PrefixWhole`); a write always changes
  the file, so after the one write it differs from the listed content, and the last
  pass, which begins and ends after it, sees the difference. With two writes the
  statement would be wrong, see section 5.

For every set of ids, sources, builds and schema versions, from `IdAssumption`
alone (`ContentRulesProofs`):

* `OneOwnerHolds`, and through `CatalogInUse` `OneOwnerInUse`, from `Supplied` (an
  entry of a package has that package's source and build), `Owned` (an entry with a
  package's id is that package's) and `EntriesLast` (no package comes after the first
  entry, which is why `Owned` is kept). `Owned` is what excludes the mixed case of an
  entry of its own beside entries of a package.

For every set of paths, URLs and pins, whatever the normalisation of paths, and
records with any number of files, fetches and inputs, from `PathAssumption`,
`PinAssumption` and `RecordAssumption`, which only says what fields a record has
(`ContentRulesProofs`):

* `AcceptedAssetIsUsableHolds`. The invariant says that the record in hand is
  `Coherent`: paths are listed once, and what its mode fetches is what it lists, or it
  is one of the three layouts of a conversion. `AcceptedIsCoherent` shows this of what
  `from_mapping` returns; a lemma for each mode shows that it is enough
  (`ArchiveUsable`, `FilesUsable`, `RegistryUsable`, `ConvertUsable`). They share that
  a listed path is found with its one pin (`FoundOnce`), that the files fetched one by
  one are the listed ones (`OneByOneFetches`), and that lists of fetches with partial
  directories of their own can be put together (`Joined`). That no file is in another
  one's way uses the exception `Nested` for the listed ones (`Unblocked`) and, for the
  converter's inputs, that their names have no directory part (`BeneathAssumption`);
  `PlacesClear` puts the two together for each mode.

For archives of any number of members, of any stated sizes, from `LimitAssumption`
and `MemberAssumption`, which says what fields a member has (`ContentRulesProofs`):

* `ExtractsWithinBudgetHolds`. What the check has added up after so many members
  (`Totals`) and what has been written by then (`Written`) are recursive functions; by
  `Compare` the first is the limit exceeded, or it is the second. The proof
  (`BudgetIsWhatIsWritten`) is an induction over the number of members. `NumberInduction`
  gets it from the theorem that a set of numbers that is not empty has a least one, for
  a set and not for an operator, and `RunExists` shows that the recursive functions exist,
  and with it that they satisfy their equations.

For first use with any number of calls, mishaps and catalog versions
(`FirstUseProofs`):

* `SuppliedFileInUse` (`Spec => FileSpec`): the composition uses the supplied file
  as the module alone describes it, from which `RewriteDetectedInUse` follows.
* `ActsOnPinnedOnlyHolds`: only verified bytes are parsed (`Verified`), a call under
  way has no result yet (`Underway`), and one that went on to the converter compared
  its asset with the verified catalog (`Own`).
* `TypeCorrect`, with the fact that a call that looks for a converter is at a step
  of its plan (`AtStep`).
* `InstalledOnceHolds`: only a checked tree is ever selected (`Selected`), and once one
  is, whichever version's, nothing takes it away.
* `LockedOutForGoodHolds` and `LockedOutByMishapHolds`: an owner file's temporary that
  a call left behind stays, and keeps every later call from selecting; only a kill or
  a failed write between its making and its renaming leaves one (`Renamed`).
* `CalmCallGoesWellHolds` and `CalmCallAdvancesHolds`, on which `AgreeingInstalls`
  rests. `Promising` says for every phase that nothing has gone wrong: the catalog is
  still accepted, the receipt is whole once it is written, the passes over the supplied
  file found a beginning of the listed content (`PassesAgree`) and what is staged is
  what is listed (`Whereabouts`). A call that begins in the calm is `Promising`, and
  each step keeps it so, unless the release's asset is there, a temporary was left
  behind or other files are at the path (`Taken`). It needs that the
  world stays calm (`StaysCalm`), that the file is open in one step of one plan only
  (`OpenWhileFilling`), and the invariants above. `Ahead` numbers the steps such a call
  has before it, with three passes over a supplied file of any length; each step lowers
  it. The rest of `AgreeingInstalls` is TLC's: that some step is possible and taken, that
  the call which is under way when the calm comes ends, and that the user tries again.

## 5. What is only model-checked, and what is left out

Checked by TLC only, on the instances of section 3:

* Liveness, with its fairness: `WaiterGetsThrough`, `CallsEnd` of both installers,
  `CallingAgainSucceeds`, `ExitEndsRun`, `TimeoutEnds`, `WritesEnd` and
  `AgreeingInstalls`. The provers have no rules for fairness and `ENABLED`. Of some,
  section 4 proves the part that speaks of single steps.

All other properties of the passing runs are theorems.

Left out of the models, on purpose:

* An asynchronous exception such as `KeyboardInterrupt`, which may strike between
  any two bytecodes: `_acquire_install_lock` closes its descriptor on `OSError`
  only, so one raised inside `flock()` would leak it. System-call failures and
  kills are modelled.
* A git probe that fails spuriously or hangs: the `status`, `remote` and
  `submodule` probes have no timeout; `CallsEnd` assumes they end.
* Empty directories a user made, which the code may replace: a `UserDir` is not
  empty. Permission hardening and the per-build cache.
* For `FetchExact`, a file below the resume threshold or a call without a partial
  directory, which never resumes; a URL listed twice (`DistinctAssumption`; every
  caller passes one URL); power loss that loses a renamed file.
* Two installs that share one partial directory because the asset lock let both
  in; each of the two is modelled, their product is planned.
* `download()`, which fetches a package's archive: a step of `PackageInstall` that
  succeeds or fails. It tries one mirror after the other, each with a temporary of
  its own, and bounds each socket read but not the whole.
* In `FirstUse`, the asset lock around the converter's `ensure()`, one step here: the
  install lock's holders never ask for an asset lock, so the two cannot wait for
  each other in a circle.
* In `AssetRecord` and `CatalogBuild`, fields that are checked one by one and bear on
  nothing else: labels, actions, lifecycle, licence rows, declared sizes.
* The tail of the output that is kept, and its decoding.
* In the receipt store, a short `os.write`, whose result the code does not look
  at: a receipt is below one page.

Not modelled at all: licence texts, screen layout and path policy (pure functions
of one thread), the offline generators, packaging and benchmarks.

### Observed while modelling

Short of a statement that a run could refute, or too small for one:

* The comment at `install.py:1504` says of `revalidate()` "this proves the file was
  not rewritten underneath the copy". Two writes that cancel out, one before a block
  is copied and one after, pass it with a wrong copy, which is why
  `RewriteDetected` speaks of one; the check of the staged tree refuses the copy.
* An owner file's temporary that a kill or a failed write leaves behind makes every
  later install of the asset fail at `O_EXCL`. `LockedOut` names this case, one of the
  two exceptions of `AgreeingInstalls`; `LockedOutForGood` proves that it never ends.
* The other exception, `Taken`, has a legal course too: after an upgrade that changes
  an asset's files, what the version before selected is at the path, does not match
  and is refused for good (`install.py:1641-1642`, "refusing to replace an unverified
  asset selection"), since the path is by the asset's id alone. The user has to remove
  the old selection.
* The first readiness probe of `ensure()` holds no lock and looks four times. It may
  answer ready for a commit the path no longer holds: `git status` reads the pinned
  commit, another holder exchanges the tree for another commit, and `git config` and
  `git submodule status` find nothing to object to in that one. TLC finds this as soon
  as `ReadyIsTrue` asks the first probe's answer to be true of the path; no statement
  of the repository promises it.
* `fetch_exact` interrupted at a later mirror does not resume: the next call's first
  candidate finds another URL in the sidecar and deletes the partial
  (`fetch.py:300-303`), although the remedies say "download resumes" and "re-run to
  resume" (`fetch.py:24-31`). Every caller in the repository passes one URL, so
  `InterruptionIsResumed` speaks of the first.
* The blobs of a registry record have no host check against the provenance, and
  their digests are not in what `source_objects_sha256` digests (their URLs are).
* A record may list a path both as a file and as the directory of another one
  (`Nested`); it is accepted and can never be staged (`install.py:1331`). A conversion
  without inputs or a main path writes into the directory that holds the files it
  fetched (`InPlace`, `install.py:1400`).
* A record may list one file to be fetched twice (from one pin, so with one outcome).
  A content entry may be called `assets`, the name of the directory assets are
  installed in, and the ids of packages and assets are not compared.

## 6. Plan

Modelled first was what several processes share and a test hardly reaches, then
the flow around it and the rules for its inputs. What is left:

1. `download()` inside `PackageInstall`, with its mirrors and temporaries.
2. A product of two holders of one asset's lock and the partial file they share.
3. Proofs about these two, and the measures that would do for `FetchExact` and
   `ReceiptStore` what `CallsAdvance` does for `PackageInstall`.

No module of a component has a `RECURSIVE` operator, constants carry named
assumptions, and invariants are conjunctions of named parts, so that proofs can
follow each extension.

## 7. Running

`tlc -config MC_InstallLock.cfg MC_InstallLock.tla` checks a run,
`tlapm InstallLockProofs.tla` a module of proofs. `PROJECT.json` lists the runs,
the mutants, the source lines of every definition, the hazards with the properties
that cover them, the findings and the theorems.
