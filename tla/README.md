# A verification development of mythical-ctl

mythical-ctl installs and runs a family of products as Docker containers on one
host. It keeps one durable record, the *ledger*, and one shared resource it does
not own, the Docker daemon. Almost everything that can go wrong lies between the
two: a process that dies between a ledger write and a daemon call, a call whose
answer is lost, an operator who acts on the daemon directly, a verb that is run
again after one that did not finish.

This directory holds TLA+ models of those parts, the TLC configurations that check
them, and TLAPS proofs. `PROJECT.json` maps every definition to the source lines it
models and lists runs, mutants, findings, hazards and theorems.

## Inventory

| component | state it keeps | operations | with whom it interacts |
|---|---|---|---|
| verbs (`internal/verbs`) | the session: lock, a copy of the ledger | install, start, stop, restart, recreate, uninstall, `uninstall --family`, migrate-storage, net rebind, state repair, backup, restore | all of the below |
| bring-up (`bringup`) | none of its own | Create, verify, discard, confirm, start, VerifyLive, Reconcile | intent, prov, state, probe, daemon |
| desired state (`state`) | desired state, outstanding checks, the resume attempt | Commit, Forget, OutstandingClear, PlanFor | ledger |
| intents (`intent`) | open creation intents | Open, Confirm, Drop, Reconcile, Abandon, the unaccounted gate | ledger, daemon |
| provenance (`prov`) | records and tombstones | record, Tombstone, Authority | ledger, daemon labels |
| storage migration (`migrate`) | one record per role, a staging directory, a bind key | the nine phases, resume | verbs, bring-up, conf, copy helper |
| network reference (`netref`) | the reference, one migration record | Target, the six phases of Rebind, resume | verbs, state, probe, daemon networks |
| configuration (`conf`) | `mythical.conf`, one `<product>.conf` each | load, ProductEnsure, ProductAdd, FamilyAdd, FamilyCAS | verbs, migrate, the product's settings screen, the operator's editor |
| ledger, family lock (`ledger`, `famlock`) | the file, a flock | Read, Write, Clone, Adopt; Acquire, Release | every session |
| trust (`trust`) | a version floor per document, an anchor | AcceptIndex, AcceptPolicy, AcceptManifest, FloorSet | ledger **file** |
| copy helper (`copyfill`) | none; helper containers | Preflight, Run, Verify, AccessCheck | migrate, backup, daemon |
| probe (`probe`) | a probe intent while one runs | SelfCheck, Resolve, Egress, Cleanup | ledger **file**, daemon |
| backup and restore (`backup`) | a staging ledger, a restore intent, an archive | Run, Restore, Activate, Abandon | ledger, volumes |
| state repair (`verbs/repair.go`) | none of its own | rebuild, repairNetref, AbandonIntent | ledger, daemon |
| parsers and host checks (`manifest`, `policy`, `docfmt`, `preflight`, `detect`, `layout`, `volatile`) | none | pure functions and reads | verbs |
| command line, output, tools | none | | |

**What is hard.** There is one session at a time (the lock), so the concurrency is
mostly not between verbs. It is between one verb and

- *the daemon*, which may refuse a call, carry it out and lose the answer, or carry
  a create out long after the verb that asked has given up;
- *the operator and other installations*, who stop, remove, detach and create
  containers, networks and volumes, copy labels, edit the settings files, move
  directories, damage the ledger;
- *the product*, which writes to its data whenever it runs, and its settings screen,
  which writes `<product>.conf` under no lock;
- *a helper container*, whose transcript is all the host learns of a copied tree;
- *itself, earlier*: a crash after any step leaves a prefix of its writes, and the
  next verb has to make sense of them.

**What makes each part correct.**

- Lifecycle verbs: every container of ours is described by the ledger; a record is
  dropped only for what is gone; a container that was started and not verified owes
  its check; only what is wanted is started; a success is a verified one; somebody
  else's container is not touched; every verb ends.
- Storage migration: no copy of a running product; the bind names only a whole
  verified copy that nothing written since is missing from; no tree is destroyed; the
  product is without a container only where a retry rebuilds it; a retry finishes.
- Network rebind: the whole family always shares a network; nothing is detached
  before it is proven on the target; no check is stranded; a re-run finishes.
- Intents: every object of ours that stands or may yet be created is on record; a
  network is not created twice; nothing is recorded that never stood with our nonce;
  an intent is given up only for what is absent; every intent is settled.
- Backup and restore: what becomes active is whole and of one backup; nothing of
  anybody else's is filled or removed; floors and corrupt evidence are kept; an
  operator can always start over.
- State repair: a repair that reports success has recorded every object of the identity
  and the state of every container; no ledger claims a check that nobody made; the anchor survives; the recorded reference holds the fleet;
  a re-run recovers.
- Copy helper: an accepted copy is whole and no link of it leaves the tree, though one
  helper is broken; a healthy copy is accepted.
- Settings files: a file that loads is whole and has kept what was saved; what the
  installer reports as set is set; what it opens is the family's.

## Modules

| module | models |
|---|---|
| `Lifecycle` | the seven lifecycle verbs, with bring-up, state, intents and provenance |
| `StorageMove` | abstract: one role's data changes holder once, losing no version |
| `StorageMigrate` | migrate-storage in its nine phases; implements `StorageMove` |
| `FamilyNetwork` | abstract: the family always shares a network |
| `NetRebind` | net rebind in its six phases; implements `FamilyNetwork` |
| `Intents` | the write-ahead intents of the network, a volume and the probes; reconciliation and abandonment |
| `BackupRestore` | backup, restore, activation and abandonment |
| `Repair` | `state repair`, with the install and the resumed rebind that act on what it leaves |
| `CopyFill` | one migration's copy through four helper runs, and the judgement of their transcripts |
| `ConfFiles` | the writers of `<product>.conf` and `mythical.conf`, and the family lock |
| `Lifecycle_proofs`, `Intents_proofs`, `NetRebind_proofs`, `StorageMigrate_proofs`, `BackupRestore_proofs`, `ConfFiles_proofs`, `Repair_proofs`, `CopyFill_proofs` | the TLAPS proofs about each component |
| `MC…` | the TLC instances: verb sets, model values, symmetry |

Definitions whose comment begins with "Mutant" are plausible bugs of the definition
below them. They are used by no action; each, substituted for it, makes the property
`PROJECT.json` pairs it with fail.

Where two modules meet, one stands in the other as a single step: `NetRebind` runs to
its end inside `Repair`'s `MigResume`; `StorageMigrate` takes the copy of `CopyFill` as
a start and an end and the write of `ConfFiles` as one; `Lifecycle` sees the network
of `Intents` as given.

### Lifecycle

*State.* The ledger on disk, per product: `intent`, `prov`, `tomb` (the nonces the
rows carry), `desired`, `owed` (the alias check), `resumed`, `member`, and `ident`.
The daemon: `box`, the container standing at each derived name with its label,
nonce and topology, and `inflight`, the creates the daemon may still carry out. The
session: `sess` (verb, product, place), `out`, its exit code.

*Actions.* One per daemon call or ledger write of the verbs; `sess.pc` names the
step. `Begin` is `openSession`; `GateRefuses`/`GatePasses` the unaccounted-object
gate; `VerbAuthority`, `StateIntent`, `Halt`, `Reconcile`, `Start`, `VerifyLive`
are start, stop and restart; `ReplaceAuthority`, `ReplaceRemove`, `Restore`,
`OpenIntent`, `Launch…`, `VerifyAttach`, `Discard…`, `Confirm` are
`replaceContainer` and `bringup.Run`; `Uninstall…`, `Forgotten`, `Family…`,
`LedgerReset` are the two uninstalls. `Abort` is a death or an error at any step.
`VerifyUnsaved` is a verification whose result did not reach the disk.

A daemon call has three outcomes: done, done with the answer lost, refused; the
code cannot tell the last two apart. The code edits a ledger in memory and writes
it, in one atomic rename, before the next daemon call that depends on it, so an edit
and its write are one step.

*Abstractions.* A container's networks and alias are one flag, "exactly what the
product needs". Nonces are numbers. Manifests, volumes, images and prompts are left
out. `unproved` and `lost` are ghosts.

### StorageMigrate

*State.* `rec`, the migration record (phase, staging nonce, staging identity, prior
bind, write attempt, desired state); `dirs`, what stands at the destination and at
each staging name (its witness and the version of its data); `vol`, the version of
the volume; `conf`, the bind key; `box`, `desired`, `proven`; `proc`, the verb.

*Actions.* `Phase1`…`Settle` are the phases, split wherever the code touches the
disk, the daemon or the ledger; `Begin` enters at the recorded phase
(`ResumePhase`); `Refused` collects the refusals; `Dies` is a death, and also a call
that fails and changes nothing. `VerbStop`, `VerbStart` and `VerbRecreate` run
between two attempts; `ProductWrites`, `Exits`, `Plant`, `Take` and `EditConf` run at
any moment.

*Abstractions.* A tree is one version number or one of the marks empty, partial,
foreign; the copy is a start and an end. `FamilyCAS` is one step with its prior
check. Directory witnesses are fresh numbers.

### NetRebind

*State.* Three ledgers, `disk`, `mem` (the session's copy) and `stage` (phase 3's
clone), because the code keeps them apart: phases 2 and 4 write their marker before
they act, phases 1, 3, 5 and 6 edit the copy only, every probe writes the *file* and
has the copy read back, and `finishMigration` writes the copy on both outcomes. A
ledger holds the migration record, the reference, provenance, desired states, the
networks on which each container owes a check, and the trust floor of the index.
`box` is each container's state and networks; `gone`, `conf`, `index` the outside.

*Actions.* `BeginFresh`, `BeginEmpty` are `Rebind`, `BeginResumed` is `MigResume`;
`Mark2`/`Connect`, `Clone`/`Check3`/`Checked3`, `Mark4`/`Detach`, `Check56`/
`Checked5`, `Commit` are the phases; `Save` is `finishMigration`. `Fails` is a call
that fails where the code looks, `DetachFails` the one failure it ignores, `Dies` a
death. `VerbInstall`, `VerbStart`, `VerbStop`, `VerbUninstall` are the other verbs
as far as they meet a rebind, each one step since they hold the same lock.

*Abstractions.* Aliases are attachments; the installer's own network is treated as
a reference.

### Intents

*State.* `disk` and `mem`, the ledger file and the session's copy: a record and an open
intent for the network and the volume, a set of probe intents. The daemon: `net`, how
many networks carry each nonce (networks share a name), `vol`, the one volume at our
name, `probes`, and `flight`, creates it may still carry out. `old` are the intents
past the grace period; `given`, `stood` are ghosts.

*Actions.* One `install`: `InstallBegin`, `Cleanup` (`probe.Cleanup`), `Gate`;
`AdoptNetwork`, `OpenNetwork`, `NetworkCreate`, `ConfirmNetwork`, `ReconcileNetwork`
(`netref.OwnedEnsure`); `KeepVolume`, `OpenVolume`, `ReconcileVolume`, `VolumeCreate`,
`ConfirmVolume` (`ensureVolume`); `OpenProbe`, `HelperRun`, `Reap`, `AdoptDisk`
(`probe.run` and the reload after it); `AbandonBegin`, `Abandon` (`intent abandon`, judged
again after the prompt). `AnswerLost`, `HelperLost`, `ReapFails` and `Dies` are the
failures, `Lands` a late create, `Ages` the passing of time, `HandRemoves` and `Copies`
the others, `Copies` being a network that bears the labels it saw on ours.

*Abstractions.* Container intents are `Lifecycle`'s. An intent is old enough or not; the
clock may say so at any moment. A volume lost and found is told by owner and nonce.

### BackupRestore

*State.* `live` and `staging`, the nodes at the two ledger paths (kind, recorded
volumes, rollback floor, restore intent); `aside`, the corrupt ones preserved; `vol`, each
volume's label, nonce and data; `dir`, each backup's ledger, manifests and copies; `proc`,
the verb. `made` and `touched` are ghosts: what this restore created, what others changed.

*Actions.* `BackupBegin`, `CaptureLedger`, `WriteManifest`, `CopyBegins`, `CopyEnds` are
`Run`; `RestoreFresh`, `RestoreResumed`, `RestoreReady` and `MeetsCorrupt` the four states
in which a restore finds its staging ledger; `Create`, `InspectVolume`, `CountEntries`,
`FillBegins`, `FillEnds`, `VerifyVolume`, `Phase5`, `Activate` its phases; `Judge`,
`CannotJudge`, `Remove`, `RemoveFails`, `Abandoned` are `Abandon`; `Preserve` is
`preserveCorrupt`, which may be asked about a path that changed meanwhile. `ProductWrites`,
`Relaunch`, `ContainerGone`, `Lose`, `FirstUse`, `Rival`, `HandRemoves`, `Damage`,
`HandStages` and `HandInstalls` are the rest of the world.

*Abstractions.* A volume's content is one version, empty or partial; the tree of plain
files goes with the ledger; unlabelled volumes are "other". A manifest and the copy
beside it may come from different moments while a product writes: such a backup is
made without complaint and every restore of it refuses.

### Repair

*State.* `file`, what stands at the ledger's path (good, absent, corrupt, newer) with its
identity, anchor, records, desired states, owed checks, reference and migration; `obj` and
`nets`, the labelled objects and the attachments of each container; `conf`, what
MYTHICAL_NET resolves to; `s`, the session and its own copy of the ledger. `proven` and
`stirred` are ghosts.

*Actions.* `RepairBegin` the operator's choice; `Reset`, `WriteEmpty`, `KeepAnchor`,
`Identify`, `RebuildOne`, `RecoverState`, `NextClass`, `RepairNetref`, `VerifyRunning`,
`RepairEnds` the command. A container is put on record (`RebuildOne`) before its state is
asked for (`RecoverState`), as in the code; `s.half` is the one in between. `Unanswered`
stops the command where the code writes what it has so far, which may be such a record
without its state; `Dies`. `Install` and `MigResume` act on what it leaves. `HandRemoves`,
`Appears`, `HandMoves`, `HandFlips`, `Repoints`, `Damages` are the operator's.

*Abstractions.* One object stands for each product's container and volume. Its label and
nonce are read in one step, and so are a container's state and attachments. The votes of
the fleet are asked at one moment. The operator never chooses an identity that belongs to
somebody else. A failed write of the ledger is a death.

### CopyFill

*State.* `src` and `dst`, the entry at each path of the two trees (file, newer file, link
with its target as steps up and down or an absolute one, special); the helper: `box`, `todo`, `out` (its
transcript, a bag of records), `code`; the host: `pc`, `call` (the call of `HelperRun` in
flight), `expect`. `bent` is the one helper that is a regressed one; `seen` a ghost.

*Actions.* `CreateBox`, `StartBox`, `Reads` and their failures are `engine.HelperRun`;
`Preflight`, `Copy`, `Verify`, `AccessCheck`, `HostWalk` the host's judgement of each
transcript; `CopyEntry`, `VerifyEntry`, `…Done` an honest helper, `…Regressed` and `Silent`
one that leaves out, repeats, misspells or does not disclose what it met. `SourceWritten`
and `StagingWritten` write to the trees, `Cleared` removes what the gate named.

*Abstractions.* `CopyOK`, `VerifyOK`, `PreflightOK`, `AccessOK` are the code's grammar and
cross-checks over records, not over text. The escape rule is lexical, as in the code,
and checked against a definition of its own (`Outside`); its arm for a link that is not
below the root it was handed (`transcript.go:277-279`) is left out, since every path of the
model is below the root: the host's walk starts there, and a transcript that enumerates a
path elsewhere is refused by that arm. The helper's behaviour is that
of the test double (`enginetest/helperimg.go`), the only account in the repository.

### ConfFiles

*State.* `path` the inode `<product>.conf` names, `inode` the text in each, `perm` its group
and mode, `view` the inode the running container has mounted; `family`, the settings of
`mythical.conf`; `lock`; `v`, the step, the snapshot and the open file of each verb; `ui`,
what the settings screen is writing. `last` and `late` are ghosts.

*Actions.* One system call each. `Acquire` and `Release` the family lock; `Snapshot`,
`Compare`, `Create`, `Truncate`, `Write`, `WriteCut`, `Chown`, `Fallback`, `Chmod` are
`ProductEnsure` and `ProductAdd`; `HostRead`, `Again`, `HostCompare`, `Replace` are
`FamilyAdd`; `MoveGet`, `MoveReread`, `Replace` are `FamilyCAS`. `ScreenOpens`, `ScreenWrites`
and `EditorSaves` write the same file under no lock, `HostSaves` the other.

*Abstractions.* A text is its settings and whether its digest matches them. A write to an
open file goes to the inode, whatever the path names by then; `chown` and `chmod` go to
the path. The schema of a product has the same keys for every verb that adds; the one
`ProductEnsure` passes has none, so that it refuses a file with settings that appeared
since it looked. A core key and the storage key stand for the two kinds `FamilyAdd`
accepts. The checks that a path is a regular file of ours are left out, and so are the
modes of `mythical.conf` and of the lock. Only `ProductEnsure` and `FamilyCAS` have callers
in a verb today (`verbs.go:733`, `migrate.go:1047`); the other two are exported operations
of the package.

## Runs

| run | instance | what it shows |
|---|---|---|
| `lifecycle` | 1 product, 3 nonces, all verbs, rivals at any moment | six properties of the verbs against crashes, lost and late creates and outside actors |
| `family` | 2 products, 2 nonces, rivals between verbs | the loop of `uninstall --family` and the verbs before it touch no stranger |
| `storage` | 2 deaths, 2 writes, stop and start between attempts | no live copy, a bind over the whole copy only, the refinement of `StorageMove`, and that retries finish |
| `storage_hands` | 1 death, 2 acts of the operator, recreate between attempts | no tree of anybody's is destroyed |
| `storage_stale` | 1 death, recreate | a violation, see Findings |
| `net` | 2 containers, 2 networks, 2 failures or deaths | proven before detached, no stranded check, the refinement of `FamilyNetwork`, and that re-runs finish |
| `net_hands` | 1 failure, 1 act of the operator, uninstall, MYTHICAL_NET changed midway | the reference follows the fleet; no step takes a container's last network |
| `intents` | 4 nonces, 2 failures, 2 acts of others | the record precedes the object, once, truthfully, and is settled in the end |
| `restore` | 2 volumes, 1 backup, 1 loss of the home, 2 failures, 1 act of others | whole or not at all, rivals, floors and evidence kept, abandonment ends |
| `repair` | 2 containers, 1 volume, 3 networks, 2 identities, 1 failure, 1 act | what a repair reports complete is, no check is claimed that was not made; re-runs recover |
| `copy` | 2 paths of different depth, 2 targets, 2 failures or a regressed helper, 1 write by others | an accepted copy is whole and contained, a healthy one is accepted |
| `conf` | 2 verbs, 2 keys, 2 files at the path, 1 failure, 2 saves by others | files that load are whole and hold what was saved; what the installer reports holds |

**Bounds.** `lifecycle`: verbs on two products interact only through the gate, the
family loop and the reset, which `family` covers with two; a third nonce lets one
container be recorded, a second be in flight and a third be attempted. `storage`: a
death, a retry that dies, and a retry that finishes; `MaxNonce = MaxFaults + 1`
staging names are all that any run can use up; two writes put one before and one
after a copy. `net`: two containers make "some but not all", two networks are a
source and a target (a third could only be a second target, and a recorded
migration fixes its own); two faults allow a death in a re-run. `intents`: one nonce each
for a network, a volume and a probe and one for a second attempt; two lost answers put a
late create behind a re-run. `restore`: two volumes make "some but not all" and a second
volume after one that failed; two failures are a damaged staging ledger and a death, or
a death in a resumed restore or a repeated abandonment. `repair`: two containers can be
split between networks, three networks are the configured one, another and the
installer's own; two identities are the old one and one minted by mistake. `copy`: an entry
at the root and one a directory down are the two sides of the escape rule: "up, down"
leaves from the root only, and the other target is absolute. `conf`: a
file, and the one an editor replaces it by; the second save is the one that lands
between a comparison and a write.

`CHECK_DEADLOCK FALSE` stands where the bounds on faults, hands, nonces and saves stop
the system, never for a session: that sessions go on is `VerbEnds` of `Lifecycle` and
the liveness property of each other run. In `ConfFiles`, whose verbs do not loop or wait,
no liveness is stated.

**Fairness.** `Lifecycle`: a session that runs goes on, weakly fair; no verb is ever
forced to be run and no outside actor to act. The other modules add the operator who does
what the refusals tell them, since only then is anything promised: `StorageMigrate` and
`NetRebind` that a recorded migration is run again (weak fairness; `docs/RECOVERY.md`, "A
storage migration stuck at a phase", "A network migration stuck at a phase");
`StorageMigrate` also that a replacement which is created, verified and discarded again and
again verifies in the end (strong fairness of `ConfirmNew`: the product's image works, and
the discard is for one that does not attach);
`BackupRestore` that the abandonment is run again, `Repair` that `state repair` is,
`Intents` that the install is and that an offered abandonment is accepted (strong fairness,
because a verb can be started only between others); `CopyFill` that what the gate names is
removed. `Intents` also lets time pass. Failures are bounded in number, so "again" means
after the last failure. `RetriesFinish`, `RerunFinishes`, `AbandonEnds`, `RerunRecovers`,
`IntentSettles` and `HealthyIsCopied` depend on this; each names the states
(`Orphaned`, `Wedged`, a volume in use, a newer ledger, an object without a nonce, `Stopped`)
in which the code refuses every re-run and sends the operator elsewhere. `RetriesFinish`
accepts `Orphaned` only as what a failure left and what then stays so for ever: phase 7
passes through the same state each time it succeeds.

**Names acted on after a check.** The code inspects an object, then acts on its
name. An outside actor can change what stands there in between and the daemon has no
compare-and-act, so a property that forbids the result cannot hold in general.
`RivalRaces` therefore says whether rivals act during a verb: `lifecycle` allows
it, `RivalsUntouched` is checked without it. `Races` of `BackupRestore` is FALSE for the
same reason: others act at any moment except on the very volume a step has just judged.
In `NetRebind` the inspection and the disconnect of phase 4 are one step, and so is
phase 6's check with the write. In `ConfFiles` the window is in the model, and the
properties except a save that fell into it (`late`). In `CopyFill` others stay away while
the *copier* is the regressed helper: no later check can answer for an entry that it did
not enumerate and that the source no longer has.

**Definitions no run spends its time on.** `TypeOK` of every module, the inductive
invariants, `FreshAttempt` (`Lifecycle`), `Attributable`, `BareOnlyInReplacement` and
`OwnWriteRecognised` (`StorageMigrate`), `DeferredTogether` (`NetRebind`),
`PartialsRecorded` (`BackupRestore`) and `NewerUntouched` (`Repair`) are proved (see
Proofs); `VerbEnds` (`Lifecycle`) holds in the instances above. To have TLC look at one,
add its name to the cfg of the module's run.

## Proofs

Each `…_proofs` module proves, for its component, `Invariance`: `Spec => []IInv`. `IInv`
is defined at the end of the component's module; it is the type invariant, the safety
invariants the run checks, and what has to be known besides for every step to keep them.
The others follow: a safety invariant because `IInv` contains or implies it, an action
property because each step that starts in `IInv` has it, a refinement because each step
that starts in `IInv` is a step of the abstract module or a stutter. The proofs hold for
every value of the constants that satisfies the module's named assumption; none uses a
bound other than as a natural number. Every `IInv` was first checked by TLC on the
instances of the runs; no run repeats it, since the theorem says more.

In every module one lemma per action (`…Keeps`) shows that the action keeps `IInv`, with
one step per conjunct the action disturbs. Above them stand the lemmas about the updates of
a record (what `[l EXCEPT …]` still is), and those that several actions share, such as
`Follows` in `Lifecycle` or the steps that only move the session on.

Two restrictions of the provers shape the text. SMT translates no CASE expression, so
the operators that use one (`StorageMigrate`, `Repair`, `CopyFill`, `ConfFiles`) are
restated as lemmas by cases. And no induction theorem with an operator parameter can be
instantiated. `CopyFill_proofs` gets its induction from sets instead (`SetInduction`: the
numbers outside the set would have a least member, by `WFMin` on the relation `Below`),
which takes no operator.

### What `IInv` adds, and why

| module | the safety invariants alone are not inductive because | `IInv` adds |
|---|---|---|
| `Lifecycle` | a confirmed container survives `Forget` only if it is gone by then; a tombstone is true only if nonces are never shared | `SessionInv`, what the session has established by each step; `ClearedInv`, what the family loop has cleared; `NonceInv`, each nonce minted once |
| `Intents` | `disk` describes what stands only if the next write, made from `mem`, does | `SessionInv`, that `mem` is `disk` wherever it is written next and the intent acted under was never asked for; `NonceInv`, a nonce names one object that stands or is to come; `VolumeInv`; `EitherInv`, recorded or expected, never both |
| `NetRebind` | three ledgers may differ, and phase 3 adopts one of them | `SessionInv`, which of the three agree at each step; `MoveInv`, a recorded move leaves the network the ledger names; `ProvenInv`, how far the clone has come; `SteadyInv`, on which networks a check may be owed; `HomeInv`, where the containers are by phase |
| `StorageMigrate` | that the bind names the copy depends on which of two paths has the recorded identity | `StampInv`, no witness twice; `PhaseInv`; `StoppedInv`, where the product is held stopped; `BareInv`; `WriteInv`, the key changes under an announced write only; `MoveInv`, where the copy is and what names it by phase; `DataInv`, how old it is |
| `BackupRestore` | activation is right only if each volume the loop has left is still what it was | `SessionInv`; `SourceInv`, no backup holds another restore's intent; `StagedInv`, a staging ledger comes of one backup; `LoopInv`, the volumes done with and the one in hand; `JudgedInv`; `UsedInv` |
| `Repair` | the session writes its copy of the ledger, which must be sound before it is on disk | `LedgerInv`, both ledgers sound; `SessionInv`; `RebuildInv`, what the loop has been through is recorded |
| `CopyFill` | a count agrees with a tree only through what the transcript enumerated | `CallInv`; `TreesInv`, what the trees may hold by which helper is regressed; `CopyInv` and `VerifyInv`, what a transcript says of the paths gone through; `AcceptInv`, what stands once the verifier is believed |
| `ConfFiles` | what loads is whole only if what is about to be written was read whole | `LockInv`; `FileInv`; `ProductInv` and `HostInv`, what each open file and snapshot is by step |

### What is proved

Every safety property of the passing runs, with its theorem in `PROJECT.json`:

- `Lifecycle_proofs`: `OwnAccounted`, `TombstoneIsTrue`, `StartedIsOwed`,
  `ConfirmedIsWanted`, `StartsOnlyWanted`, `SuccessIsVerified`, and `RivalsUntouched` where
  `~RivalRaces`. For the last, `JudgedInv` says that beyond the authority check, until the
  session goes on to another product, what stands at the name is ours or nothing.
- `Intents_proofs`: `WrittenAhead`, `RecordedStood`, `NetworkOnce`, `GivenUpAbsent`.
- `NetRebind_proofs`: `ProvenBeforeDetached`, `NoStrandedCheck` (where `~MidEdits`),
  `AtHome`, `NeverBare`, and that `NetRebind` implements `FamilyNetwork` (`SharesOne`, where
  `Untouched`).
- `StorageMigrate_proofs`: `NoLiveCopy` and `BindNamesTheCopy` (without recreate),
  `TreesKept`, and that `StorageMigrate` implements `StorageMove` (`MovesOnce`, where
  `Undisturbed`).
- `BackupRestore_proofs`: `RestoredWhole`, `EvidenceKept`, `FloorsKept`, and `RivalsKept`
  (where `~Races`).
- `Repair_proofs`: `NothingAssumedProven`, `RebuildComplete`, `AnchorSurvives`,
  `ReferenceHoldsFleet`.
- `CopyFill_proofs`: `AcceptedIsWhole`, `AcceptedIsContained`, for every finite set of
  paths. `EscapeRuleIsExact`: the loop of `linkEscapes`, a counter of the depth, leaves the
  tree for exactly the targets that `Outside` says lead outside, whatever their length.
- `ConfFiles_proofs`: `AcceptedIsWhole`, `ToldIsSet`, `AddsOnly`, `SharedWithFamily`. The
  last two hold up to what others do in the window of a verb: a save since its comparison
  (`late`), another file at the path between `chown` and `chmod`.

Proved besides, and run no more: the type invariants (part of each `IInv`), `FreshAttempt`,
`Attributable`, `OwnWriteRecognised`, `BareOnlyInReplacement`, `DeferredTogether`,
`NewerUntouched`, and `PartialsRecorded` until a hand acts.

### Assumptions

Seven theorems have an ASSUME of their own:

- `RivalsAreUntouched` (`~RivalRaces`) and `RivalsAreKept` (`~Races`): see "Names acted on
  after a check". The daemon has no compare-and-act; without the assumption both fail.
- `NoCheckIsStranded` (`~MidEdits`): with MYTHICAL_NET changed while a move is recorded, a
  start may leave a check owed on the network that is then left (see Findings).
- `NothingIsCopiedLive`, `WhatIsNamedIsTheCopy` (`"recreate" \notin Verbs`): a recreate
  between two attempts starts the product on the volume again; `storage_stale` shows it.
- `RebindKeepsTheFamilyTogether` (`Untouched`) and `MigrationMovesOnce` (`Undisturbed`): an
  operator who detaches a container, or an uninstall that takes one out of the family,
  changes by hand what the abstract module lets only the rebind change, and no code
  forbids it. Faults, deaths and re-runs are all inside both refinements.

The assumptions on the constants are: bounds are natural numbers, a mark such as `NoNet`,
`None` or "nobody" is not one of the values it stands beside, the kinds of objects are
disjoint, the verbs are among those that exist, and `Keys`, `OpNets` and `Paths` are finite,
as every file, host and tree is. Finiteness is used where the code counts or goes through a
set to its end.

### What the proofs found in the models

Two definitions were wrong where the runs did not show it.

- `BackupRestore`: the ghost `made` kept a volume the product had written to since; what
  the installation's own containers write is no longer what the restore made.
- `CopyFill`: an entry of the verifier's listing that had vanished by the time it was
  compared was passed over. The verifier is external to the repository; that it reports
  such an entry is now an assumption about its contract, stated at `VerifyEntry`, without
  which `AcceptedIsWhole` fails with three acts of others, one more than the run allows.

And one property holds only in part: `PartialsRecorded` of `BackupRestore` (a volume a
restore created is described by the staging ledger or by one preserved) fails once a hand
puts another backup's ledger in the place of the staged one, a loss no instance with one
act and one backup has. `PartialsAreRecorded` proves it until a hand acts, from `MadeInv`.

### What is only model-checked

The liveness properties `RetriesFinish`, `RerunFinishes`, `AbandonEnds`, `RerunRecovers`,
`IntentSettles`, `HealthyIsCopied` and `VerbEnds`: liveness under fairness, and ENABLED, are
out of the provers' reach. The findings are counterexamples, and TLC's by nature.

## Findings

One has a run of its own, `storage_stale`: a recreate between a death in phase 5 and the
retry lets the product write to the volume whose older copy the retry commits.

The others are definitions at the end of the modules, below "what the comments say".
To see one fail, put it into the named cfg as the only property.

| definition | cfg | what happens |
|---|---|---|
| `ResetStrandsNothing` (PROPERTY) | `MCLifecycle.cfg` | `uninstall --family` writes an empty ledger (`uninstall.go:503`) while a container that only an open intent describes still stands |
| `RecreateKeepsStopped` (PROPERTY) | `MCLifecycle.cfg` | `recreate` of a stopped product starts it when the removal of the old container fails (`verbs.go:954`) |
| `NoLiveCopy` (INVARIANT) | `MCStorageHands.cfg` | entered again at phase 3, a migration copies the volume of a running product, if the leftover was removed and the product recreated in between |
| `FloorKept` (PROPERTY) | `MCNetHands.cfg` | phase 3 adopts a clone older than the trust floor its own probe raised; the marker of phase 4 puts the older floor back on disk |
| `StartDischarges` (INVARIANT) | `MCNet.cfg` | phase 3 tells the operator to start a container, and start refuses for as long as MYTHICAL_NET names what the migration needs |
| `ReadyIsWhole` (PROPERTY) | `MCRestore.cfg` | `Abandon` accepts a staging ledger without an intent, removes some of its volumes, then fails or dies and keeps the ledger (`restore.go:822`); a later restore finds "every volume already verified" (`firstuse.go:334`) and activates over the missing ones |
| `AbandonRemovesOnlyItsOwn` (PROPERTY) | `MCRestore.cfg` | a volume that survived the loss of the home has the identity and nonce the backup records; the restore keeps it, and an abandonment removes it, though it "removes the volumes THIS restore created" (`restore.go:697`) |
| `NoVerbSplits` (PROPERTY) | `MCRepair.cfg` | a repair stopped before `repairNetref` leaves no reference; the next install records the configured network without looking at the fleet (`netref.go:498-539`) and puts one product elsewhere |
| `OneIdentity` (PROPERTY) | `MCRepair.cfg` | a death between the empty ledger of `resetLedger` and the write of the identity leaves a valid ledger without one, which the gate takes for first use (`unaccounted.go:140`); an install mints a second identity beside the first one's objects |
| `EveryRecoveredOwes` (INVARIANT) | `MCRepair.cfg` | "outstanding checks are initialized to {alias} for every recovered container" (`repair.go:705-708`): the record enters the session's ledger first (`repair.go:626`), and when the state or the attachments of the container cannot be read, `repairStop` (`repair.go:637-640`, `696`) writes the record with no desired state and no check. The repair reports failure and a second one completes the ledger (`RebuildComplete`, `RerunRecovers`); until then nothing says that a check is owed |
| `HelpersAccounted` (INVARIANT) | `MCCopyFill.cfg` | the copy helper has no intent (`client.go:900-906`, `copyfill.go:202`): a killed verb, a failed removal or a late create leaves a container nothing records, and the gate stops every verb until it is removed |

Other things the models show:

- A re-run of an interrupted install replaces the open intent (`intent.Open` is a
  put by name); a container the first create still builds is then described by
  nothing, and the gate stops every verb until it is removed. `bringup.go:251-255`
  acknowledges it; `OwnAccounted` is stated with that exception.
- `start` over an open intent exits 0 with nothing running (the plan is
  "suspended"). `restart` of a container that is gone ends in a rebuild plan that
  restart refuses. A container that was started by the undo of a failed replacement
  owes no check.
- A crash after recreate has built the new container leaves it with a nonce its
  record does not carry; every verb refuses until `state repair`.
- `bringup.Recover`, and `PlanExited` as an answer, cannot be reached from a verb.
- migrate-storage: Precheck skips its bind and mount checks for a recorded
  destination; phase 9 restores the desired state of phase 1 over a stop issued
  since (deliberate, see `migrate.go:1168`); a death between the replacement's
  creation and its confirmation is refused by every retry until `state repair`,
  which `RetriesFinish` excludes (`Orphaned`).
- net rebind: a member uninstalled while a migration is recorded, or an
  unconfirmed container swept into the fleet (net rebind runs no gate), makes every
  re-run refuse until `state repair` (`Wedged`). With MYTHICAL_NET changed back
  after a death in phase 4, start may leave a check owed on the network that is
  then left; `NoStrandedCheck` is checked with MYTHICAL_NET unchanged while a
  migration is recorded. `RefVerify` advises net rebind to return to the
  installer's own network, which net rebind refuses when MYTHICAL_NET is unset.
- intents: a probe whose create answer is lost and that lands after the reap is a
  container of ours nothing records (`given` in `WrittenAhead`); the gate stops every
  verb until it is removed. The fresh path of `ensureVolume` compares the nonce only,
  the reconciler the installation label as well.
- backup: a product that runs writes between a manifest and its copy, so the backup
  succeeds and its restore refuses.
- copy: a file that appears while the copy runs is missed only by a verifier that passes
  it by. An empty volume has no entries, and an enumeration without any is refused. The
  three checks of the access entries back each other up: no single one can be dropped to
  any effect.
- settings: a save that lands between the comparison and the write is lost, and an in-place
  write that fails or dies leaves a file that does not load, with whatever was saved in it
  before; the code documents both. `AddsOnly` therefore says that a file which *loads* has
  lost nothing and that only that write takes a file away. The list of outcomes of
  `ProductAdd` ("any other error: refused, file untouched", `product.go:150`) is wrong of
  one of them: a write that fails after it emptied the file (`product.go:267`). The policy accepts a family gid up to 4294967295 (`policy.go:51`), which
  `chown` takes for "no change"; `ProductAdd` refuses it. "Run the same command again"
  (`product.go:148-150`, `CONFIG-FORMAT.md:398`) re-applies mode and group through
  `ProductAdd`; `ProductEnsure` leaves an existing file as it is, also the empty one a crash
  between its creation and its write leaves behind.

## Not modelled

Image objects; the purge of volumes; `HostAccessCheck`; the migration of a ledger of an
older schema during a repair; the parsing and verification of documents, manifests and
policies; the grammar of the settings files; the format and the atomic write of the
ledger; the transport to the daemon; prompts, wording and exit-code mapping;
preflight and detection; `status`; a `docker start` by hand during the copy of a storage
migration; corrective edits of ledger rows by hand (an empty staging identity in
phases 4 and 5); removal of the lock file by hand; the audit and release tools. Parsers and
reads of the host are sequential and keep no state, and `status` and the tools change
none: their tests reach what a model of them would.

## Plan

Done: `Lifecycle`; the two long-running protocols, `StorageMigrate` and `NetRebind`; the
recovery paths `Intents`, `BackupRestore`, `Repair`; the two components they rest on,
`CopyFill` and `ConfFiles`; and the proofs of their safety properties and of both
refinements. Next:

1. The theorems without their assumption, restated so that they hold with it removed:
   `NoStrandedCheck` under changes of MYTHICAL_NET in every phase but the fourth,
   `NoLiveCopy` up to the first recreate, `MovesOnce` up to the first act of a hand.
2. The safety half of the liveness properties: that each step of a verb has a successor
   (no session is stuck), as an invariant over the guards.
3. The purge of volumes and the acceptance of documents under a floor, as sessions that
   hold a copy of the ledger while acceptors write the file.
