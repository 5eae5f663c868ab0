---------------------------- MODULE BackupRestore ----------------------------
(***************************************************************************)
(* internal/backup: a backup captures the ledger, the tree and every named *)
(* volume with its per-entry manifest; a restore rebuilds a machine whose  *)
(* ledger is lost, through a staging ledger that carries the restore's own *)
(* intent until every volume verifies; an abandonment removes what the     *)
(* restore made, and then the staging ledger.  A process may die, or a     *)
(* call fail, at any step; products write while a backup runs; the home    *)
(* and any volumes may be lost; other installations and the operator's     *)
(* hand act on the same names.                                             *)
(***************************************************************************)
EXTENDS Integers, FiniteSets

CONSTANTS
    Volumes,    \* the volumes the installation's ledger records
    Dirs,       \* directories an operator names for a backup
    None,       \* no directory, no volume
    MaxFloor,   \* rollback floors an authenticated document may raise
    MaxWrites,  \* versions the products write
    MaxFaults,  \* deaths of a process, failures of a call
    MaxLosses,  \* losses of the home
    MaxHands,   \* acts of others on the names this code uses
    Races       \* others may take a name between its judgement and its use

ASSUME RestoreConstants ==
    /\ None \notin Volumes \cup Dirs
    /\ MaxFloor \in Nat /\ MaxWrites \in Nat /\ MaxFaults \in Nat
    /\ MaxLosses \in Nat /\ MaxHands \in Nat /\ Races \in BOOLEAN

VARIABLES
    live,     \* what stands at .state/ledger
    staging,  \* what stands at .state/ledger.staging
    aside,    \* corrupt staging ledgers preserved beside it
    vol,      \* the named volumes of the container runtime
    dir,      \* the backup directories
    proc,     \* the verb that holds the family lock
    made,     \* volumes the restore in progress created, that still stand and
              \* no product has written since
    touched,  \* volumes others, or an abandonment, changed since it was staged
    faults, losses, hands   \* bounded counters

vars == <<live, staging, aside, vol, dir, proc, made, touched,
          faults, losses, hands>>
counters == <<faults, losses, hands>>
ghosts   == <<made, touched>>
ledgers  == <<live, staging, aside>>

-----------------------------------------------------------------------------
(* Data.                                                                    *)

Missing  == -3
Partial  == -2
Empty    == -1
Versions == 0 .. MaxWrites
Floors   == 0 .. MaxFloor

\* A node at a ledger's path.  vols are the volumes its object records
\* describe; src is the restore intent's source, None when it has no intent.
Nodes  == [kind : {"none", "other", "corrupt", "newer", "ledger"},
           vols : SUBSET Volumes, floor : Floors, src : Dirs \cup {None}]
NoNode == [kind |-> "none", vols |-> {}, floor |-> 0, src |-> None]
Node(kind) == [NoNode EXCEPT !.kind = kind]

\* owner is the volume's installation label seen from the backed-up ledger,
\* "other" when it is another installation's or there is none; marked, that
\* it carries the nonce the ledger records; used, that a container stands
\* over it.
Vols   == [owner : {"nobody", "us", "other"}, marked : BOOLEAN,
           data : Versions \cup {Empty, Partial}, used : BOOLEAN]
Absent == [owner |-> "nobody", marked |-> FALSE, data |-> Empty, used |-> FALSE]
Fresh  == [owner |-> "us", marked |-> TRUE, data |-> Empty, used |-> FALSE]

\* man is the version each volume's per-entry manifest enumerates, data the
\* contents beside it.
Backups  == [ledger : Nodes, man : [Volumes -> Versions \cup {Missing}],
             data : [Volumes -> Versions \cup {Missing, Partial}], made : BOOLEAN]
NoBackup == [ledger |-> NoNode, man |-> [v \in Volumes |-> Missing],
             data |-> [v \in Volumes |-> Missing], made |-> FALSE]

PCs == {"idle", "ledger", "manifest", "copy", "copying", "preserve",
        "create", "inspect", "count", "fill", "filling", "verify", "phase5",
        "activate", "judge", "remove", "abandoned"}
Procs == [pc : PCs, dir : Dirs \cup {None}, todo : SUBSET Volumes,
          cur : Volumes \cup {None}, failed : BOOLEAN]
Idle  == [pc |-> "idle", dir |-> None, todo |-> {}, cur |-> None, failed |-> FALSE]

At(pc)   == proc.pc = pc
Goto(pc) == proc' = [proc EXCEPT !.pc = pc]
End      == proc' = Idle
Cur      == proc.cur
Stands(v) == vol[v].owner # "nobody"
OursAt(v) == vol[v].owner = "us" /\ vol[v].marked

\* The loop over the ledger's volume records, in any order: the next volume,
\* or the step after the loop.
NextVolume(rest, first, after) ==
    IF rest = {} THEN proc' = [Idle EXCEPT !.pc = after, !.failed = proc.failed]
    ELSE \E v \in rest : proc' = [proc EXCEPT !.pc = first, !.todo = rest, !.cur = v]

\* A move made by linking, whose unlink may fail: a copy stays behind.
Moved ==
    \/ staging' = NoNode /\ UNCHANGED faults
    \/ staging' = staging /\ faults < MaxFaults /\ faults' = faults + 1

\* runtimeUID and acceptIndex: the authenticated chain, which may record a
\* higher floor in the ledger it measures against.
Accepted(l) == {[l EXCEPT !.floor = f] : f \in l.floor .. MaxFloor}

Init ==
    /\ live = [Node("ledger") EXCEPT !.vols = Volumes]
    /\ staging = NoNode /\ aside = 0
    /\ vol = [v \in Volumes |-> [Fresh EXCEPT !.data = 0, !.used = TRUE]]
    /\ dir = [d \in Dirs |-> NoBackup]
    /\ proc = Idle
    /\ made = {} /\ touched = {}
    /\ faults = 0 /\ losses = 0 /\ hands = 0

-----------------------------------------------------------------------------
(* backup.                                                                  *)

\* Run: a ledger that reads, its volume records judged whole, and a directory
\* nothing was written to before.
BackupBegin(d) ==
    /\ At("idle")
    /\ live.kind = "ledger" /\ ~dir[d].made
    /\ dir' = [dir EXCEPT ![d].made = TRUE]
    /\ proc' = [Idle EXCEPT !.pc = "ledger", !.dir = d]
    /\ UNCHANGED <<ledgers, vol, ghosts, counters>>

\* The ledger and the tree, before any volume is looked at.
CaptureLedger ==
    /\ At("ledger")
    /\ dir' = [dir EXCEPT ![proc.dir].ledger = live]
    /\ NextVolume(live.vols, "manifest", "idle")
    /\ UNCHANGED <<ledgers, vol, ghosts, counters>>

\* runtimeUID and ManifestWrite: the volume as it is at this moment.
WriteManifest ==
    /\ At("manifest")
    /\ live' \in Accepted(live)
    /\ IF vol[Cur].data \in Versions
       THEN /\ dir' = [dir EXCEPT ![proc.dir].man[Cur] = vol[Cur].data]
            /\ Goto("copy")
       ELSE End /\ UNCHANGED dir
    /\ UNCHANGED <<staging, aside, vol, ghosts, counters>>

\* Copier.Run: the contents, while the product goes on writing.
CopyBegins ==
    /\ At("copy")
    /\ dir' = [dir EXCEPT ![proc.dir].data[Cur] = Partial]
    /\ Goto("copying")
    /\ UNCHANGED <<ledgers, vol, ghosts, counters>>

CopyEnds ==
    /\ At("copying")
    /\ IF vol[Cur].data \in Versions
       THEN /\ dir' = [dir EXCEPT ![proc.dir].data[Cur] = vol[Cur].data]
            /\ NextVolume(proc.todo \ {Cur}, "manifest", "idle")
       ELSE End /\ UNCHANGED dir
    /\ UNCHANGED <<ledgers, vol, ghosts, counters>>

-----------------------------------------------------------------------------
(* restore.                                                                 *)

\* CurrentState: nothing active, and a staging ledger this build can judge.
InRestore == live.kind = "none" /\ staging.kind \in {"corrupt", "ledger"}

\* Restore, StateNone: the backup's ledger with the intent already in it, in
\* one write.
RestoreFresh(d) ==
    /\ At("idle")
    /\ live.kind = "none" /\ staging.kind = "none"
    /\ dir[d].ledger.kind = "ledger"
    /\ staging' = [dir[d].ledger EXCEPT !.src = d]
    /\ touched' = {}
    /\ NextVolume(staging'.vols, "create", "phase5")
    /\ UNCHANGED <<live, aside, vol, dir, made, counters>>

\* Mutant: a resumption trusts that the volumes of the attempt are done.
RestoreResumedTrusting ==
    /\ At("idle")
    /\ InRestore /\ staging.kind = "ledger" /\ staging.src # None
    /\ proc' = [Idle EXCEPT !.pc = "phase5"]
    /\ UNCHANGED <<ledgers, vol, dir, ghosts, counters>>

\* StateWithIntent: from the top, out of the directory the intent records.
RestoreResumed ==
    /\ At("idle")
    /\ InRestore /\ staging.kind = "ledger" /\ staging.src # None
    /\ NextVolume(staging.vols, "create", "phase5")
    /\ UNCHANGED <<ledgers, vol, dir, ghosts, counters>>

\* StateNoIntent: phase 5 completed, only the activation is left.
RestoreReady ==
    /\ At("idle")
    /\ InRestore /\ staging.kind = "ledger" /\ staging.src = None
    /\ proc' = [Idle EXCEPT !.pc = "activate"]
    /\ UNCHANGED <<ledgers, vol, dir, ghosts, counters>>

\* StateCorrupt, met by either verb: classified here, judged again there.
MeetsCorrupt ==
    /\ At("idle")
    /\ InRestore /\ staging.kind = "corrupt"
    /\ proc' = [Idle EXCEPT !.pc = "preserve"]
    /\ UNCHANGED <<ledgers, vol, dir, ghosts, counters>>

\* Mutant: what stands at the path is moved on the earlier verdict.
PreserveUnjudged ==
    /\ At("preserve")
    /\ aside' = aside + 1 /\ Moved
    /\ End
    /\ UNCHANGED <<live, vol, dir, ghosts, losses, hands>>

\* preserveCorrupt: only bytes that are corrupt at this moment are moved, to a
\* name nothing occupies.
Preserve ==
    /\ At("preserve")
    /\ IF staging.kind = "corrupt"
       THEN aside' = aside + 1 /\ Moved
       ELSE UNCHANGED <<staging, aside, faults>>
    /\ End
    /\ UNCHANGED <<live, vol, dir, ghosts, losses, hands>>

\* restoreVolume, phase 2: contents and manifest are there, the chain accepts
\* the product's manifest, and VolumeCreate succeeds over a standing volume
\* without labelling it.
Create ==
    /\ At("create")
    /\ staging' \in Accepted(staging)
    /\ LET from == dir[staging.src]
       IN IF from.data[Cur] = Missing \/ from.man[Cur] = Missing
          THEN End /\ UNCHANGED <<vol, made>>
          ELSE /\ Goto("inspect")
               /\ IF Stands(Cur) THEN UNCHANGED <<vol, made>>
                  ELSE /\ vol' = [vol EXCEPT ![Cur] = Fresh]
                       /\ made' = made \cup {Cur}
    /\ UNCHANGED <<live, aside, dir, touched, counters>>

\* Mutant: the nonce alone says whose the volume is.
InspectNonceOnly ==
    /\ At("inspect")
    /\ IF vol[Cur].marked THEN Goto("count") ELSE End
    /\ UNCHANGED <<ledgers, vol, dir, ghosts, counters>>

\* ownedByThisRestore, then the recorded nonce.
InspectVolume ==
    /\ At("inspect")
    /\ IF OursAt(Cur) THEN Goto("count") ELSE End
    /\ UNCHANGED <<ledgers, vol, dir, ghosts, counters>>

\* volumeEmpty: an empty volume is filled, any other one is only verified.
CountEntries ==
    /\ At("count")
    /\ Goto(IF vol[Cur].data = Empty THEN "fill" ELSE "verify")
    /\ UNCHANGED <<ledgers, vol, dir, ghosts, counters>>

FillBegins ==
    /\ At("fill")
    /\ vol' = [vol EXCEPT ![Cur].data = Partial]
    /\ Goto("filling")
    /\ UNCHANGED <<ledgers, dir, ghosts, counters>>

FillEnds ==
    /\ At("filling")
    /\ vol' = [vol EXCEPT ![Cur].data = dir[staging.src].data[Cur]]
    /\ Goto("verify")
    /\ UNCHANGED <<ledgers, dir, ghosts, counters>>

\* verify: against the manifest the backup carries.
VerifyVolume ==
    /\ At("verify")
    /\ IF vol[Cur].data = dir[staging.src].man[Cur]
       THEN NextVolume(proc.todo \ {Cur}, "create", "phase5")
       ELSE End
    /\ UNCHANGED <<ledgers, vol, dir, ghosts, counters>>

\* Mutant: the ledger read before the loop over the volumes is written back.
Phase5Stale ==
    /\ At("phase5")
    /\ IF staging.kind = "ledger" /\ staging.src # None
       THEN staging' = dir[staging.src].ledger /\ Goto("activate")
       ELSE End /\ UNCHANGED staging
    /\ UNCHANGED <<live, aside, vol, dir, ghosts, counters>>

\* Phase 5: the staging ledger, read again, without the intent.
Phase5 ==
    /\ At("phase5")
    /\ IF staging.kind = "ledger" /\ staging.src # None
       THEN staging' = [staging EXCEPT !.src = None] /\ Goto("activate")
       ELSE End /\ UNCHANGED staging
    /\ UNCHANGED <<live, aside, vol, dir, ghosts, counters>>

\* Activate: an intent-free ledger, moved only onto a name nothing occupies.
Activate ==
    /\ At("activate")
    /\ IF staging.kind = "ledger" /\ staging.src = None /\ live.kind = "none"
       THEN /\ live' = staging
            /\ Moved
            /\ made' = {}
            /\ touched' = IF staging'.kind = "none" THEN touched ELSE Volumes
       ELSE UNCHANGED <<live, staging, ghosts, faults>>
    /\ End
    /\ UNCHANGED <<aside, vol, dir, losses, hands>>

-----------------------------------------------------------------------------
(* restore --abandon.                                                       *)

AbandonBegin ==
    /\ At("idle")
    /\ InRestore /\ staging.kind = "ledger"
    /\ NextVolume(staging.vols, "judge", "abandoned")
    /\ UNCHANGED <<ledgers, vol, dir, ghosts, counters>>

\* Nothing was established, or the removal failed: the record is kept.
KeepsRecord ==
    LET rest == proc.todo \ {Cur}
    IN IF rest = {} THEN proc' = [proc EXCEPT !.pc = "abandoned", !.todo = {},
                                              !.cur = None, !.failed = TRUE]
       ELSE \E v \in rest : proc' = [proc EXCEPT !.pc = "judge", !.todo = rest,
                                                 !.cur = v, !.failed = TRUE]

\* Mutant: a volume that is not there reads as one that could not be judged.
JudgeGoneUnknown ==
    /\ At("judge")
    /\ IF ~Stands(Cur) THEN KeepsRecord
       ELSE IF OursAt(Cur) THEN Goto("remove")
       ELSE NextVolume(proc.todo \ {Cur}, "judge", "abandoned")
    /\ UNCHANGED <<ledgers, vol, dir, ghosts, counters>>

\* prov.Authority on the staged record: gone, not ours, or this very volume.
Judge ==
    /\ At("judge")
    /\ IF OursAt(Cur) THEN Goto("remove")
       ELSE NextVolume(proc.todo \ {Cur}, "judge", "abandoned")
    /\ UNCHANGED <<ledgers, vol, dir, ghosts, counters>>

CannotJudge ==
    /\ At("judge") /\ faults < MaxFaults
    /\ faults' = faults + 1
    /\ KeepsRecord
    /\ UNCHANGED <<ledgers, vol, dir, ghosts, losses, hands>>

\* VolumeRemove, by name: whatever stands there now.
Remove ==
    /\ At("remove") /\ ~vol[Cur].used
    /\ vol' = [vol EXCEPT ![Cur] = Absent]
    /\ made' = made \ {Cur} /\ touched' = touched \cup {Cur}
    /\ NextVolume(proc.todo \ {Cur}, "judge", "abandoned")
    /\ UNCHANGED <<ledgers, dir, counters>>

\* A container stands over it, or the runtime did not do it.
RemoveFails ==
    /\ At("remove")
    /\ \/ vol[Cur].used /\ UNCHANGED faults
       \/ faults < MaxFaults /\ faults' = faults + 1
    /\ KeepsRecord
    /\ UNCHANGED <<ledgers, vol, dir, ghosts, losses, hands>>

Abandoned ==
    /\ At("abandoned")
    /\ staging' = IF proc.failed THEN staging ELSE NoNode
    /\ End
    /\ UNCHANGED <<live, aside, vol, dir, ghosts, counters>>

-----------------------------------------------------------------------------
(* A death, or a call that fails and changes nothing, ends any verb.        *)

Dies ==
    /\ ~At("idle") /\ faults < MaxFaults
    /\ faults' = faults + 1
    /\ End
    /\ UNCHANGED <<ledgers, vol, dir, ghosts, losses, hands>>

-----------------------------------------------------------------------------
(* Everybody else.                                                          *)

ProductWrites(v) ==
    /\ OursAt(v) /\ vol[v].used /\ vol[v].data \in 0 .. MaxWrites - 1
    /\ vol' = [vol EXCEPT ![v].data = @ + 1]
    /\ made' = made \ {v}
    /\ UNCHANGED <<ledgers, dir, proc, touched, counters>>

\* An ordinary verb launches the product again over its volume.
Relaunch(v) ==
    /\ At("idle")
    /\ live.kind = "ledger" /\ v \in live.vols /\ OursAt(v) /\ ~vol[v].used
    /\ vol' = [vol EXCEPT ![v].used = TRUE]
    /\ UNCHANGED <<ledgers, dir, proc, ghosts, counters>>

\* A container that outlived the home is taken away.
ContainerGone(v) ==
    /\ live.kind # "ledger" /\ vol[v].used
    /\ vol' = [vol EXCEPT ![v].used = FALSE]
    /\ UNCHANGED <<ledgers, dir, proc, ghosts, counters>>

\* The home is lost, with or without a copy of its staging ledger, and any
\* volumes with it.
Lose(gone) ==
    /\ At("idle") /\ losses < MaxLosses
    /\ losses' = losses + 1
    /\ live' = NoNode
    /\ \/ staging' = NoNode /\ aside' = 0 /\ made' = {}
       \/ staging.kind # "none" /\ made' = made \ gone /\ UNCHANGED <<staging, aside>>
    /\ vol' = [v \in Volumes |-> IF v \in gone THEN Absent ELSE vol[v]]
    /\ touched' = touched \cup gone
    /\ UNCHANGED <<dir, proc, faults, hands>>

\* The runtime answered that no name of the family's shape stands.
NothingOfOurs == \A v \in Volumes : ~Stands(v)

\* prov.FirstUse: a machine that holds no ledger and no object of the family
\* is a first install.
FirstUse ==
    /\ At("idle")
    /\ live.kind = "none" /\ staging.kind = "none"
    /\ NothingOfOurs
    /\ live' = Node("ledger")
    /\ UNCHANGED <<staging, aside, vol, dir, proc, ghosts, counters>>

Hand == hands < MaxHands /\ hands' = hands + 1
Takes(v) == Hand /\ (Races \/ Cur # v)

\* Another installation's, an unlabelled one, or a later volume of this one.
Rival(v) ==
    /\ Takes(v) /\ ~Stands(v)
    /\ \E o \in {"us", "other"}, m \in BOOLEAN, x \in {Empty, 0} :
         /\ <<o, m>> # <<"us", TRUE>>
         /\ vol' = [vol EXCEPT ![v] = [owner |-> o, marked |-> m, data |-> x, used |-> FALSE]]
    /\ touched' = touched \cup {v}
    /\ UNCHANGED <<ledgers, dir, proc, made, faults, losses>>

\* A volume removed by hand, with the container that stands over it.
HandRemoves(v) ==
    /\ Takes(v) /\ Stands(v)
    /\ vol' = [vol EXCEPT ![v] = Absent]
    /\ made' = made \ {v} /\ touched' = touched \cup {v}
    /\ UNCHANGED <<ledgers, dir, proc, faults, losses>>

\* A staging ledger damaged in place.
Damage ==
    /\ At("idle") /\ staging.kind = "ledger" /\ faults < MaxFaults
    /\ faults' = faults + 1
    /\ staging' = [staging EXCEPT !.kind = "corrupt"]
    /\ UNCHANGED <<live, aside, vol, dir, proc, ghosts, losses, hands>>

\* One put there by a person or a newer build; a node or a ledger put at the
\* active name.  Only the steps that judge a path again are raced here.
HandStages(n) ==
    /\ Hand /\ proc.pc \in {"idle", "preserve"}
    /\ staging' = n
    /\ touched' = Volumes
    /\ UNCHANGED <<live, aside, vol, dir, proc, made, faults, losses>>

HandInstalls(n) ==
    /\ Hand /\ live.kind = "none" /\ proc.pc \in {"idle", "activate"}
    /\ live' = n
    /\ UNCHANGED <<staging, aside, vol, dir, proc, ghosts, faults, losses>>

-----------------------------------------------------------------------------
RestoreSteps ==
    \/ Preserve \/ Create \/ InspectVolume \/ CountEntries \/ FillBegins
    \/ FillEnds \/ VerifyVolume \/ Phase5 \/ Activate
AbandonSteps == Judge \/ CannotJudge \/ Remove \/ RemoveFails \/ Abandoned
Steps == CaptureLedger \/ WriteManifest \/ CopyBegins \/ CopyEnds
            \/ RestoreSteps \/ AbandonSteps

Verbs ==
    \/ \E d \in Dirs : BackupBegin(d) \/ RestoreFresh(d)
    \/ RestoreResumed \/ RestoreReady \/ MeetsCorrupt \/ AbandonBegin

Others ==
    \/ \E v \in Volumes : ProductWrites(v) \/ Relaunch(v) \/ ContainerGone(v)
                             \/ Rival(v) \/ HandRemoves(v)
    \/ \E gone \in SUBSET Volumes : Lose(gone)
    \/ FirstUse \/ Damage
    \/ \E n \in {Node("other"), Node("newer")} \cup {dir[d].ledger : d \in Dirs} :
         n.kind # "none" /\ (HandStages(n) \/ HandInstalls(n))

Next == Verbs \/ Steps \/ Dies \/ Others

Spec == Init /\ [][Next]_vars

\* A verb that runs goes on until it ends; an operator who gives a restore up
\* runs the abandonment again until it completes, as its refusal tells them.
FairSpec == Spec /\ WF_vars(Steps) /\ SF_vars(AbandonBegin \/ MeetsCorrupt)

-----------------------------------------------------------------------------
\* Every variable keeps its type.
TypeOK ==
    /\ live \in Nodes /\ staging \in Nodes /\ aside \in Nat
    /\ vol \in [Volumes -> Vols] /\ dir \in [Dirs -> Backups] /\ proc \in Procs
    /\ made \subseteq Volumes /\ touched \subseteq Volumes
    /\ faults \in 0 .. MaxFaults /\ losses \in 0 .. MaxLosses
    /\ hands \in 0 .. MaxHands

\* Abandon: a volume a restore created is always described by a record that
\* can remove it, or that was preserved as evidence: "a wedge built from two
\* correct rules" needs the record to go first.
PartialsRecorded == made # {} => staging.kind # "none" \/ aside > 0

\* Activate: whatever deaths, resumptions and survivors came before, a ledger
\* becomes active only over volumes that are this installation's own, and
\* those the restore created hold what the manifests of one backup name.
Tools     == ~At("idle") /\ hands' = hands /\ losses' = losses
Activates == Tools /\ At("activate") /\ live.kind = "none" /\ live'.kind = "ledger"
WholeFrom(b, ledger) ==
    /\ b.ledger.vols = ledger.vols
    /\ \A v \in ledger.vols \ touched :
         OursAt(v) /\ (v \in made => vol[v].data = b.man[v])
RestoredWhole == [][Activates => \E d \in Dirs : WholeFrom(dir[d], live')]_vars

\* ownedByThisRestore and prov.Authority: no step of a verb fills or removes
\* a volume that is another installation's, unlabelled or of another nonce.
RivalsKept ==
    [][ \A v \in Volumes :
          Stands(v) /\ ~OursAt(v) /\ Tools => vol'[v] = vol[v] ]_vars

\* Restore, phase 5: a rollback floor that a document raised while the restore
\* ran is in the ledger that becomes active.
FloorsKept ==
    [][ /\ staging.kind = "ledger" /\ staging'.kind = "ledger" /\ hands' = hands
            => staging'.floor >= staging.floor
        /\ Activates => live'.floor = staging.floor ]_vars

\* preserveCorrupt: the only staging ledger ever moved aside is a corrupt one,
\* and a corrupt one never disappears by another way.
EvidenceKept ==
    [][ Tools => /\ aside' # aside => staging.kind = "corrupt"
                 /\ staging.kind = "corrupt" /\ staging' # staging => aside' = aside + 1
                 /\ staging.kind \in {"newer", "other"} => staging' = staging ]_vars

\* Abandon: an operator who keeps abandoning gets back to a machine that can
\* start over, unless a surviving container holds one of the volumes.
AbandonEnds ==
    InRestore ~> (~InRestore \/ \E v \in Volumes : vol[v].used)

-----------------------------------------------------------------------------
(* What the documentation says and the code does not do.                    *)

\* prov.FirstUse, of a staging ledger without an intent: "every volume already
\* verified, so this installs the restored ledger and nothing else."
ReadyIsWhole == [][Activates => \A v \in live'.vols : OursAt(v)]_vars

\* Abandon: "removes the volumes THIS restore created and then the staging
\* ledger."
AbandonRemovesOnlyItsOwn ==
    [][ \A v \in Volumes : At("remove") /\ Stands(v) /\ vol'[v] = Absent
            /\ hands' = hands => v \in made ]_vars

-----------------------------------------------------------------------------
(* The inductive invariant behind the safety properties above.              *)

BackupPCs  == {"ledger", "manifest", "copy", "copying"}
LoopPCs    == {"create", "inspect", "count", "fill", "filling", "verify"}
AbandonPCs == {"judge", "remove", "abandoned"}

\* What a running verb has read of the staging ledger still holds of it.
SessionInv ==
    /\ proc.pc \in BackupPCs => proc.dir \in Dirs /\ dir[proc.dir].made
    /\ proc.pc \in {"manifest", "copy", "copying", "judge", "remove"} => Cur \in Volumes
    /\ proc.pc \in LoopPCs => Cur \in proc.todo /\ proc.todo \subseteq staging.vols
    /\ proc.pc \in LoopPCs \cup {"phase5"} => staging.kind = "ledger" /\ staging.src # None
    /\ At("phase5") => proc.todo = {}
    /\ At("activate") => staging.kind = "ledger" /\ staging.src = None
    /\ proc.pc \in AbandonPCs => staging.kind = "ledger"

\* No backup is of a ledger with a restore's intent in it, and a directory
\* that was never used holds none.
SourceInv ==
    /\ live.src = None
    /\ \A d \in Dirs : dir[d].ledger.src = None
    /\ \A d \in Dirs : ~dir[d].made => dir[d].ledger.kind = "none"

\* A backup that holds a ledger, and that nothing writes any more.
Settled(d) ==
    d \in Dirs /\ dir[d].ledger.kind # "none" /\ ~(proc.pc \in BackupPCs /\ proc.dir = d)

\* A staging ledger comes out of such a backup; without an intent, its volumes
\* are as that backup has them.
StagedInv ==
    /\ staging.kind = "ledger" /\ staging.src # None =>
          Settled(staging.src) /\ dir[staging.src].ledger.vols = staging.vols
    /\ staging.kind = "ledger" /\ staging.src = None =>
          \E d \in Dirs : Settled(d) /\ WholeFrom(dir[d], staging)

\* The volumes the loop is done with are as the intent's backup has them, and
\* the one it is at is ours since it was inspected.
Done(v) == OursAt(v) /\ (v \in made => vol[v].data = dir[staging.src].man[v])
LoopInv ==
    /\ proc.pc \in LoopPCs \cup {"phase5"} =>
          \A v \in staging.vols : v \notin proc.todo /\ v \notin touched => Done(v)
    /\ proc.pc \in {"count", "fill", "filling", "verify"} => OursAt(Cur) \/ Cur \in touched
    /\ proc.pc \in LoopPCs /\ ~At("create") => dir[staging.src].data[Cur] # Missing
JudgedInv ==
    ~Races /\ proc.pc \in {"count", "fill", "filling", "verify", "remove"} => OursAt(Cur)

\* The installation's containers stand over its own volumes alone.
UsedInv == \A v \in Volumes : vol[v].used => OursAt(v)

IInv ==
    /\ TypeOK /\ SessionInv /\ SourceInv /\ StagedInv /\ LoopInv /\ JudgedInv
    /\ UsedInv
=============================================================================
