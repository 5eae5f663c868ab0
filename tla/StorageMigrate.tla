--------------------------- MODULE StorageMigrate ----------------------------
(***************************************************************************)
(* internal/migrate: moving one role of an installed product from its      *)
(* named volume to a host directory, in nine phases recorded ahead of what *)
(* they do.  The process may die at any step (a call that fails and        *)
(* changes nothing leaves the same state behind), the operator runs the    *)
(* verb again, and in between other verbs, the product and the operator's  *)
(* own hand act on the container, the data, the paths and mythical.conf.   *)
(***************************************************************************)
EXTENDS Integers, FiniteSets

CONSTANTS
    Verbs,      \* verbs run while no migration holds the family lock
    MaxNonce,   \* staging names minted
    MaxWrites,  \* versions the product writes
    MaxFaults,  \* deaths of a process
    MaxHands    \* the operator's own changes to the paths and to mythical.conf

ASSUME BoundsAreNaturals ==
    /\ Verbs \subseteq {"start", "stop", "recreate"}
    /\ MaxNonce \in Nat \ {0} /\ MaxWrites \in Nat
    /\ MaxFaults \in Nat /\ MaxHands \in Nat

VARIABLES
    rec,      \* the "storagemig" ledger record, or NoRec
    desired,  \* the recorded desired state of the container
    proven,   \* the ledger's provenance record is the standing container's
    box,      \* the product's container
    vol,      \* version of the data in the named volume
    dirs,     \* what stands at the destination (0) and at each staging name
    conf,     \* the role's bind key in mythical.conf
    proc,     \* the verb's process
    nonces, tokens, faults, hands   \* bounded counters

vars == <<rec, desired, proven, box, vol, dirs, conf, proc,
          nonces, tokens, faults, hands>>
world == <<desired, proven, box, vol, conf>>
counters == <<nonces, tokens, faults, hands>>

-----------------------------------------------------------------------------
(* Data.  A directory's witness is 0 until one is stamped on it; its data   *)
(* is a version, or one of three marks.                                     *)

Empty   == -1
Partial == -2
Foreign == -3
Versions == 0 .. MaxWrites
NoDir    == [there |-> FALSE, id |-> 0, data |-> Empty]
Stamp    == Nat
Dirs     == [there : BOOLEAN, id : Stamp, data : Versions \cup {Empty, Partial, Foreign}]
Dest     == 0
Places   == 0 .. MaxNonce

Wants   == {"running", "stopped"}
NoRec   == [phase |-> 0, nonce |-> 0, stageid |-> 0, prior |-> "unset",
            attempt |-> "none", desired |-> "running"]
Records == [phase : {0, 1, 2, 3, 5, 6, 7}, nonce : Places, stageid : Stamp,
            prior : {"unset", "dest", "other"}, attempt : {"none", "started"},
            desired : Wants]

\* on is the place the container's role mount was created over.
Boxes == [st : {"absent", "stopped", "running"}, on : {"volume", "bind", "other"}]
Mounted(key) == [unset |-> "volume", dest |-> "bind", other |-> "other"][key]

PCs == {"idle", "open", "enter2", "stop", "stage", "establish", "enter3",
        "preflight", "copying", "verify", "enter5", "resolve", "clear",
        "rename", "enter6", "cas", "enter7", "prepare", "remove", "tombstone",
        "create", "confirm", "start", "inspect", "restore", "delete", "settle"}
Procs == [pc : PCs, sid : Stamp, entries : BOOLEAN, attempt : {"none", "started"},
          key : {"unset", "dest", "other"}]
Idle  == [pc |-> "idle", sid |-> 0, entries |-> FALSE, attempt |-> "none",
          key |-> "unset"]

At(pc)   == proc.pc = pc
Goto(pc) == proc' = [proc EXCEPT !.pc = pc]
Refuse   == proc' = Idle
Staging  == rec.nonce
InFlight == rec.phase # 0
Stands   == box.st # "absent"

\* prov.Authority, for this product's container.
Authority == IF ~Stands THEN "gone" ELSE IF proven THEN "ours" ELSE "refused"

\* migrate.Identity: an identity stands at a path only on a stamped directory.
Carries(place, id) == dirs[place].there /\ id # 0 /\ dirs[place].id = id

\* migrate.ResumePhase: a phase past the rename is believed only of a
\* destination that carries the recorded identity.
ResumePhase(r) == IF r.phase <= 5 \/ Carries(Dest, r.stageid) THEN r.phase ELSE 5
EntryOf(phase) ==
    IF phase = 0 THEN "open"
    ELSE <<"open", "enter2", "stage", "enter5", "enter5", "enter6", "enter7">>[phase]

\* state.PlanFor and bringup.Reconcile: a recorded migration suspends both.
Reconciled(b, want) ==
    IF InFlight \/ b.st = "absent" THEN b ELSE [b EXCEPT !.st = want]

Init ==
    /\ rec = NoRec
    /\ desired \in Wants
    /\ proven = TRUE
    /\ box = [st |-> desired, on |-> "volume"]
    /\ vol = 0
    /\ dirs \in [Places -> {NoDir}] \cup
                {[p \in Places |-> IF p = Dest THEN [NoDir EXCEPT !.there = TRUE] ELSE NoDir]}
    /\ conf = "unset"
    /\ proc = Idle
    /\ nonces = 0 /\ tokens = 0 /\ faults = 0 /\ hands = 0

-----------------------------------------------------------------------------
(* The verb.                                                                *)

\* Precheck of a role no migration is recorded for.
MayMigrate ==
    /\ conf = "unset"
    /\ Stands /\ box.on = "volume"
    /\ dirs[Dest].there => dirs[Dest].data = Empty

\* MigrateStorage: precheck, a confirmation, and the phase to enter at.
Begin ==
    /\ At("idle")
    /\ InFlight \/ MayMigrate
    /\ Goto(EntryOf(ResumePhase(rec)))
    /\ UNCHANGED <<rec, world, dirs, counters>>

\* Phase 1: the intent, under a fresh staging name.
Phase1 ==
    /\ At("open")
    /\ nonces < MaxNonce
    /\ nonces' = nonces + 1
    /\ rec' = [NoRec EXCEPT !.phase = 1, !.nonce = nonces', !.prior = conf,
                            !.desired = desired]
    /\ Goto("enter2")
    /\ UNCHANGED <<desired, proven, box, vol, dirs, conf, tokens, faults, hands>>

\* The record that precedes a phase's own action.
Enter(pc, phase, next) ==
    /\ At(pc)
    /\ rec' = [rec EXCEPT !.phase = phase]
    /\ Goto(next)
    /\ UNCHANGED <<world, dirs, counters>>

Phase2 == Enter("enter2", 2, "stop")

\* Mutant: the writer is left running.
StopWriterIgnored ==
    /\ At("stop")
    /\ Goto("stage")
    /\ UNCHANGED <<rec, world, dirs, counters>>

\* A stop that errs is believed only when the container is seen not to run.
StopWriter ==
    /\ At("stop")
    /\ \/ box.st = "running" /\ box' = [box EXCEPT !.st = "stopped"]
       \/ box.st # "running" /\ box' = box
    /\ Goto("stage")
    /\ UNCHANGED <<rec, desired, proven, vol, dirs, conf, counters>>

\* Phase 3: a directory is created at the staging name, never adopted there.
Stage ==
    /\ At("stage")
    /\ ~dirs[Staging].there
    /\ dirs' = [dirs EXCEPT ![Staging] = [NoDir EXCEPT !.there = TRUE]]
    /\ Goto("establish")
    /\ UNCHANGED <<rec, world, counters>>

\* Mutant: the refusal keeps the name that is taken.
StageTakenKept ==
    /\ At("stage")
    /\ dirs[Staging].there
    /\ Refuse
    /\ UNCHANGED <<rec, world, dirs, counters>>

\* A leftover is stepped around: back to phase 1, its name forgotten.
StageTaken ==
    /\ At("stage")
    /\ dirs[Staging].there
    /\ rec' = [rec EXCEPT !.phase = 1, !.nonce = 0, !.stageid = 0]
    /\ Refuse
    /\ UNCHANGED <<world, dirs, counters>>

\* EstablishIdentity stamps what stands at the name it has just created.
Establish ==
    /\ At("establish")
    /\ IF dirs[Staging].there
       THEN /\ tokens' = tokens + 1
            /\ dirs' = [dirs EXCEPT ![Staging].id = tokens']
            /\ proc' = [proc EXCEPT !.pc = "enter3", !.sid = tokens']
       ELSE Refuse /\ UNCHANGED <<dirs, tokens>>
    /\ UNCHANGED <<rec, world, nonces, faults, hands>>

RecordStage ==
    /\ At("enter3")
    /\ rec' = [rec EXCEPT !.phase = 3, !.stageid = proc.sid]
    /\ Goto("preflight")
    /\ UNCHANGED <<world, dirs, counters>>

\* Identity, preflight, identity again; then the helper starts to write.
CopyStarts ==
    /\ At("preflight")
    /\ IF Carries(Staging, proc.sid)
       THEN /\ dirs' = [dirs EXCEPT ![Staging].data = Partial]
            /\ Goto("copying")
       ELSE Refuse /\ UNCHANGED dirs
    /\ UNCHANGED <<rec, world, counters>>

\* The copy ends: into the directory it began in, if that is still there.
CopyEnds ==
    /\ At("copying")
    /\ dirs' = IF Carries(Staging, proc.sid)
               THEN [dirs EXCEPT ![Staging].data = vol] ELSE dirs
    /\ proc' = [proc EXCEPT !.pc = "verify", !.entries = TRUE]
    /\ UNCHANGED <<rec, world, counters>>

\* Phase 4: nothing to verify, or the identified copy matches the volume.
Verified ==
    /\ At("verify")
    /\ \/ ~dirs[Staging].there
       \/ /\ proc.entries
          /\ Carries(Staging, rec.stageid) /\ dirs[Staging].data = vol
    /\ Goto("enter5")
    /\ UNCHANGED <<rec, world, dirs, counters>>

Phase5 == Enter("enter5", 5, "resolve")

\* Mutant: the identity at either path counts as the rename done.
ResolveEither ==
    /\ At("resolve")
    /\ Carries(Dest, rec.stageid) \/ Carries(Staging, rec.stageid)
    /\ Goto("enter6")
    /\ UNCHANGED <<rec, world, dirs, counters>>

\* ResolvePhase5: which path carries the recorded identity, if either does.
Resolve ==
    /\ At("resolve")
    /\ \/ Carries(Dest, rec.stageid) /\ Goto("enter6")
       \/ ~Carries(Dest, rec.stageid) /\ Carries(Staging, rec.stageid) /\ Goto("clear")
    /\ UNCHANGED <<rec, world, dirs, counters>>

\* Mutant: the destination is removed whatever it holds.
ClearAll ==
    /\ At("clear")
    /\ dirs' = [dirs EXCEPT ![Dest] = NoDir]
    /\ Goto("rename")
    /\ UNCHANGED <<rec, world, counters>>

\* rmdir of an empty destination; anything else there stops the commit.
Clear ==
    /\ At("clear")
    /\ dirs[Dest].there => dirs[Dest].data = Empty
    /\ dirs' = [dirs EXCEPT ![Dest] = NoDir]
    /\ Goto("rename")
    /\ UNCHANGED <<rec, world, counters>>

\* rename(2) replaces nothing but an empty directory.
Renamed ==
    [dirs EXCEPT ![Dest] = dirs[Staging], ![Staging] = NoDir]
Rename ==
    /\ At("rename")
    /\ dirs[Staging].there
    /\ dirs[Dest].there => dirs[Dest].data = Empty
    /\ dirs' = Renamed
    /\ IF Renamed[Dest].id = rec.stageid THEN Goto("enter6") ELSE Refuse
    /\ UNCHANGED <<rec, world, counters>>

\* Phase 6: a write in progress is recorded; the attempt judged is the one
\* the record held before.
Phase6 ==
    /\ At("enter6")
    /\ rec' = [rec EXCEPT !.phase = 6, !.attempt = "started"]
    /\ proc' = [proc EXCEPT !.pc = "cas", !.attempt = rec.attempt]
    /\ UNCHANGED <<world, dirs, counters>>

\* conf.FamilyCAS: a first write needs the prior value; a resumed one finds
\* its own value, or asks.
ClearedToWrite == proc.attempt = "none" => conf = rec.prior
WriteBind ==
    /\ At("cas")
    /\ ClearedToWrite
    /\ conf' = "dest"
    /\ Goto("enter7")
    /\ UNCHANGED <<rec, desired, proven, box, vol, dirs, counters>>

\* Phase 7: the destination is identified again, then all that can fail is
\* done before the old container is touched.
Phase7 == Enter("enter7", 7, "prepare")

Prepare ==
    /\ At("prepare")
    /\ IF Carries(Dest, rec.stageid)
       THEN proc' = [proc EXCEPT !.pc = "remove", !.key = conf]
       ELSE Refuse
    /\ UNCHANGED <<rec, world, dirs, counters>>

RemoveOld ==
    /\ At("remove")
    /\ \/ Authority = "gone" /\ UNCHANGED box
       \/ Authority = "ours" /\ box' = [box EXCEPT !.st = "absent"]
    /\ Goto("tombstone")
    /\ UNCHANGED <<rec, desired, proven, vol, dirs, conf, counters>>

Tombstone ==
    /\ At("tombstone")
    /\ proven' = FALSE
    /\ Goto("create")
    /\ UNCHANGED <<rec, desired, box, vol, dirs, conf, counters>>

\* bringup.Run: created and attached, confirmed with its provenance, started
\* if the product is wanted running.
CreateNew ==
    /\ At("create")
    /\ ~Stands
    /\ box' = [st |-> "stopped", on |-> Mounted(proc.key)]
    /\ Goto("confirm")
    /\ UNCHANGED <<rec, desired, proven, vol, dirs, conf, counters>>

\* An attachment that does not verify: the new container is removed again.
Discard ==
    /\ At("confirm")
    /\ box' = [box EXCEPT !.st = "absent"]
    /\ Refuse
    /\ UNCHANGED <<rec, desired, proven, vol, dirs, conf, counters>>

ConfirmNew ==
    /\ At("confirm")
    /\ proven' = TRUE
    /\ Goto("start")
    /\ UNCHANGED <<rec, desired, box, vol, dirs, conf, counters>>

\* The start may be refused, or its verification fail: the phase stands.
StartNew ==
    /\ At("start")
    /\ \/ desired = "running" /\ box' = [box EXCEPT !.st = "running"]
       \/ desired = "stopped" /\ box' = box
    /\ Goto("inspect")
    /\ UNCHANGED <<rec, desired, proven, vol, dirs, conf, counters>>

\* Phase 8, not recorded: the mount is seen by inspection.
Inspect ==
    /\ At("inspect")
    /\ IF Stands /\ box.on = "bind" THEN Goto("restore") ELSE Refuse
    /\ UNCHANGED <<rec, world, dirs, counters>>

\* Phase 9, not recorded: the desired state of phase 1, then no record, then
\* reconciliation, whose failure does not fail the migration.
RestoreDesired ==
    /\ At("restore")
    /\ desired' = rec.desired
    /\ Goto("delete")
    /\ UNCHANGED <<rec, proven, box, vol, dirs, conf, counters>>

ClearIntent ==
    /\ At("delete")
    /\ rec' = NoRec
    /\ Goto("settle")
    /\ UNCHANGED <<world, dirs, counters>>

Settle ==
    /\ At("settle")
    /\ box' = Reconciled(box, desired)
    /\ Refuse
    /\ UNCHANGED <<rec, desired, proven, vol, dirs, conf, counters>>

\* A refusal of the steps whose guards have no other outcome.
Stuck ==
    \/ At("open") /\ nonces = MaxNonce
    \/ /\ At("verify") /\ dirs[Staging].there
       /\ ~Carries(Staging, rec.stageid) \/ dirs[Staging].data # vol
    \/ At("resolve") /\ ~Carries(Dest, rec.stageid) /\ ~Carries(Staging, rec.stageid)
    \/ At("clear") /\ dirs[Dest].there /\ dirs[Dest].data # Empty
    \/ /\ At("rename")
       /\ ~dirs[Staging].there \/ (dirs[Dest].there /\ dirs[Dest].data # Empty)
    \/ At("cas") /\ ~ClearedToWrite
    \/ At("remove") /\ Authority = "refused"
    \/ At("create") /\ Stands
Refused == Stuck /\ Refuse /\ UNCHANGED <<rec, world, dirs, counters>>

\* The process dies, or a call it makes fails and changes nothing: the lock
\* is released and nothing it held in memory remains.
Dies ==
    /\ ~At("idle")
    /\ faults < MaxFaults
    /\ faults' = faults + 1
    /\ Refuse
    /\ UNCHANGED <<rec, world, dirs, nonces, tokens, hands>>

-----------------------------------------------------------------------------
(* Everyone else.                                                           *)

\* The other verbs take the same lock, so they run between two attempts.
Verb(name) == At("idle") /\ name \in Verbs /\ Authority # "refused"

VerbStop ==
    /\ Verb("stop")
    /\ desired' = "stopped"
    /\ box' = IF box.st = "running" THEN [box EXCEPT !.st = "stopped"] ELSE box
    /\ UNCHANGED <<rec, proven, vol, dirs, conf, proc, counters>>

VerbStart ==
    /\ Verb("start")
    /\ desired' = "running"
    /\ box' = Reconciled(box, "running")
    /\ UNCHANGED <<rec, proven, vol, dirs, conf, proc, counters>>

\* recreate rebuilds from mythical.conf and starts without asking PlanFor.
VerbRecreate ==
    /\ Verb("recreate")
    /\ conf = "dest" => dirs[Dest].there
    /\ box' = [st |-> desired, on |-> Mounted(conf)]
    /\ proven' = TRUE
    /\ UNCHANGED <<rec, desired, vol, dirs, conf, proc, counters>>

ProductWrites ==
    /\ box.st = "running"
    /\ \/ /\ box.on = "volume" /\ vol < MaxWrites
          /\ vol' = vol + 1 /\ UNCHANGED dirs
       \/ /\ box.on = "bind" /\ dirs[Dest].there
          /\ dirs[Dest].data \in 0 .. MaxWrites - 1
          /\ dirs' = [dirs EXCEPT ![Dest].data = @ + 1] /\ UNCHANGED vol
    /\ UNCHANGED <<rec, desired, proven, box, conf, proc, counters>>

Exits ==
    /\ box.st = "running"
    /\ box' = [box EXCEPT !.st = "stopped"]
    /\ UNCHANGED <<rec, desired, proven, vol, dirs, conf, proc, counters>>

\* The operator's hand: a tree of their own where there was no data, a
\* directory taken away, the key edited.
Hand == hands < MaxHands /\ hands' = hands + 1

Plant(p) ==
    /\ Hand
    /\ ~dirs[p].there \/ (dirs[p].data = Empty /\ dirs[p].id = 0)
    /\ dirs' = [dirs EXCEPT ![p] = [there |-> TRUE, id |-> 0, data |-> Foreign]]
    /\ UNCHANGED <<rec, world, proc, nonces, tokens, faults>>

Take(p) ==
    /\ Hand
    /\ dirs[p].there /\ dirs[p].data # Foreign
    /\ dirs' = [dirs EXCEPT ![p] = NoDir]
    /\ UNCHANGED <<rec, world, proc, nonces, tokens, faults>>

EditConf(v) ==
    /\ Hand
    /\ conf # v /\ conf' = v
    /\ UNCHANGED <<rec, desired, proven, box, vol, dirs, proc, nonces, tokens, faults>>

-----------------------------------------------------------------------------
Steps ==
    \/ Phase1 \/ Phase2 \/ StopWriter \/ Stage \/ StageTaken \/ Establish
    \/ RecordStage \/ CopyStarts \/ CopyEnds \/ Verified \/ Phase5 \/ Resolve
    \/ Clear \/ Rename \/ Phase6 \/ WriteBind
    \/ Phase7 \/ Prepare \/ RemoveOld \/ Tombstone \/ CreateNew \/ Discard
    \/ ConfirmNew \/ StartNew \/ Inspect \/ RestoreDesired \/ ClearIntent
    \/ Settle \/ Refused

Others ==
    \/ VerbStop \/ VerbStart \/ VerbRecreate \/ ProductWrites \/ Exits
    \/ \E p \in Places : Plant(p) \/ Take(p)
    \/ \E v \in {"unset", "other"} : EditConf(v)

Next == Begin \/ Steps \/ Dies \/ Others

Spec == Init /\ [][Next]_vars

\* A verb that runs goes on until it ends; an operator runs it again for as
\* long as the migration is recorded, as docs/RECOVERY.md tells them to; and an
\* attachment that is verified again and again verifies once.
Retried  == Begin /\ InFlight
FairSpec == Spec /\ WF_vars(Steps) /\ WF_vars(Retried) /\ SF_vars(ConfirmNew)

-----------------------------------------------------------------------------
\* Every variable keeps its type; phases 4, 8 and 9 are never recorded.
TypeOK ==
    /\ rec \in Records /\ desired \in Wants /\ proven \in BOOLEAN
    /\ box \in Boxes /\ vol \in Versions /\ dirs \in [Places -> Dirs]
    /\ conf \in {"unset", "dest", "other"} /\ proc \in Procs
    /\ nonces \in Places /\ tokens \in Stamp
    /\ faults \in 0 .. MaxFaults /\ hands \in 0 .. MaxHands

\* runPhase2: the volume is never copied or verified while the product runs,
\* at whatever phase an interrupted migration is entered again.
NoLiveCopy == proc.pc \in {"copying", "verify"} => box.st # "running"

\* ResolvePhase5: unless somebody else moved a directory, the recorded
\* identity is always found, at the destination alone once phase 6 is recorded.
Attributable ==
    rec.phase >= 5 /\ hands = 0 =>
        /\ Carries(Dest, rec.stageid) \/ Carries(Staging, rec.stageid)
        /\ rec.phase >= 6 => Carries(Dest, rec.stageid)

\* runPhase6 and runPhase7: mythical.conf and the container name the
\* destination only once the whole, verified copy stands there.
BindNamesTheCopy ==
    (conf = "dest" \/ (Stands /\ box.on = "bind")) /\ hands = 0 =>
        dirs[Dest].there /\ dirs[Dest].data >= vol

\* conf.FamilyCAS: a value the migration itself landed is recorded as a write
\* in progress, so no crash turns it into a mismatch that refuses every retry.
OwnWriteRecognised ==
    InFlight /\ conf = "dest" =>
        rec.phase >= 5 /\ rec.attempt = "started"

\* runPhase7: a product has no container only in a migration recorded past
\* its copy, which a retry resumes towards the replacement.
BareOnlyInReplacement == ~Stands => rec.phase >= 5

\* The package's rule that nothing is removed on the strength of a name: no
\* step but the operator's own makes a tree disappear.
Trees == {p \in Places : dirs[p].there /\ dirs[p].data # Empty}
TreesKept == [][hands' = hands => Cardinality(Trees') >= Cardinality(Trees)]_vars

\* The move the product sees: mythical.conf changes hands once, over a
\* destination as new as the volume, and no version is lost on the way.
Holder == IF conf = "dest" THEN "directory" ELSE "volume"
Latest == IF conf = "dest" THEN dirs[Dest].data ELSE vol
Kept == INSTANCE StorageMove WITH holder <- Holder, latest <- Latest
MovesOnce == Kept!Spec

\* An interrupted migration that is run again finishes, its record cleared,
\* unless a death or a failed call leaves the replacement created and not
\* confirmed: then every later retry refuses it, for good.
Orphaned == rec.phase = 7 /\ Stands /\ ~proven
RetriesFinish == InFlight ~> (~InFlight \/ (faults > 0 /\ []Orphaned))

-----------------------------------------------------------------------------
(* What the documentation says and the code does not do.                    *)

\* migrate.ResumePhase: "The source volume is untouched throughout, so
\* redoing this tail is always well-defined."
SourceUntouched == rec.phase = 5 /\ Carries(Staging, rec.stageid) =>
                       dirs[Staging].data = vol

-----------------------------------------------------------------------------
(* The inductive invariant behind the safety properties above.              *)

\* No witness is stamped twice.
StampInv ==
    /\ \A p \in Places : dirs[p].id <= tokens
    /\ \A p, q \in Places : p # q /\ dirs[p].id # 0 => dirs[q].id # dirs[p].id

\* Which phase is recorded at each step of the verb, and that a migration has
\* a staging name by the time it uses it.
PhaseInv ==
    /\ rec.phase \notin {0, 1} \/ At("enter2") => Staging # Dest
    /\ At("open") => rec.phase \in {0, 1}
    /\ At("enter2") => rec.phase \in {1, 2}
    /\ At("stop") => rec.phase = 2
    /\ proc.pc \in {"stage", "establish", "enter3"} => rec.phase \in {2, 3}
    /\ proc.pc \in {"preflight", "copying", "verify"} => rec.phase = 3
    /\ At("enter5") => rec.phase \in {3, 5, 6, 7}
    /\ proc.pc \in {"resolve", "clear", "rename"} => rec.phase = 5
    /\ At("enter6") => rec.phase \in {5, 6}
    /\ At("cas") => rec.phase = 6
    /\ At("enter7") => rec.phase \in {6, 7}
    /\ proc.pc \in {"prepare", "remove", "tombstone", "create", "confirm", "start",
                    "inspect", "restore", "delete"} => rec.phase = 7
    /\ At("settle") => rec.phase = 0

\* The product does not run from the stop on, until its container is replaced:
\* what is recorded holds a start back, but not a recreate.
MustBeStopped ==
    \/ rec.phase = 3
    \/ proc.pc \in {"stage", "establish", "enter3", "preflight", "copying", "verify"}
StoppedInv == "recreate" \notin Verbs /\ MustBeStopped => box.st # "running"

\* A product has no container only where phase 7 is, or was, recorded.
BareInv ==
    /\ BareOnlyInReplacement
    /\ proc.pc \in {"restore", "delete"} => Stands

\* mythical.conf names the destination only by a write the record announces.
WriteInv ==
    /\ OwnWriteRecognised
    /\ At("open") => conf # "dest"
    /\ At("cas") => rec.attempt = "started"

\* The move, where nobody else touched a path or the key: the recorded copy
\* stands at one of its two paths, and what names it follows the phase.
MoveInv ==
    hands = 0 =>
        /\ conf \in {"unset", "dest"}
        /\ proc.pc \in {"establish", "enter3", "preflight", "copying", "verify"} =>
              dirs[Staging].there
        /\ rec.phase >= 5 \/ At("enter5") =>
              Carries(Dest, rec.stageid) \/ Carries(Staging, rec.stageid)
        /\ rec.phase >= 5 \/ At("enter5") =>
              \A p \in {Dest, Staging} : Carries(p, rec.stageid) => dirs[p].data >= 0
        /\ rec.phase >= 6 \/ At("enter6") => Carries(Dest, rec.stageid)
        /\ At("enter5") => rec.phase \in {3, 5}
        /\ conf = "dest" => rec.phase \in {0, 6, 7}
        /\ conf = "dest" /\ rec.phase = 0 => box.on = "bind"
        /\ rec.phase = 7 \/ proc.pc \in {"enter7", "settle"} => conf = "dest"
        /\ proc.pc \in {"remove", "tombstone", "create"} => proc.key = "dest"
        /\ proc.pc \in {"confirm", "start", "restore", "delete", "settle"} =>
              box.on = "bind"
        /\ Stands /\ box.on = "bind" => conf = "dest"

\* And its data, where no recreate started the product on the volume again: the
\* copy is as new as the volume, and no newer before mythical.conf names it.
DataInv ==
    hands = 0 /\ "recreate" \notin Verbs =>
        /\ rec.phase >= 5 \/ At("enter5") =>
              \A p \in {Dest, Staging} : Carries(p, rec.stageid) => dirs[p].data >= vol
        /\ conf = "unset" /\ (rec.phase >= 5 \/ At("enter5")) =>
              \A p \in {Dest, Staging} : Carries(p, rec.stageid) => dirs[p].data = vol
        /\ conf = "dest" => dirs[Dest].there /\ dirs[Dest].data >= vol
        /\ box.st = "running" /\ (conf = "dest" \/ rec.phase >= 3) => box.on = "bind"

IInv ==
    /\ TypeOK /\ StampInv /\ PhaseInv /\ StoppedInv /\ BareInv /\ WriteInv
    /\ MoveInv /\ DataInv
=============================================================================
