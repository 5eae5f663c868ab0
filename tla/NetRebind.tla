------------------------------ MODULE NetRebind -------------------------------
(***************************************************************************)
(* internal/netref: moving the whole family of containers from the network *)
(* the ledger names to the one MYTHICAL_NET names, in six phases.  Two of  *)
(* the phases record their marker on disk before they act, the others only *)
(* in the session's copy of the ledger; a refusal writes that copy out, a  *)
(* death loses it.  Every probe writes the ledger FILE, so the copy is     *)
(* read back from disk after it; phase 3 works on a clone of its own.      *)
(***************************************************************************)
EXTENDS Naturals, FiniteSets

CONSTANTS
    Containers, \* the product containers the family may have
    Nets,       \* the networks an operator may name
    NoNet,      \* the network of a migration that is not recorded
    Verbs,      \* the other verbs of this instance
    MaxFaults,  \* bound: calls that fail and processes that die
    MaxHands,   \* bound: the operator's own acts on the daemon and the documents
    MidEdits    \* may MYTHICAL_NET change while a migration is recorded?

ASSUME NetsAssumption  == NoNet \notin Nets
ASSUME VerbsAssumption == Verbs \subseteq {"install", "start", "stop", "uninstall"}
ASSUME BoundsAssumption ==
    MaxFaults \in Nat /\ MaxHands \in Nat /\ MidEdits \in BOOLEAN

VARIABLES
    disk,   \* the ledger on disk
    mem,    \* the session's copy of it
    stage,  \* the clone phase 3 edits
    box,    \* the containers that carry this installation's label
    gone,   \* networks that were removed
    conf,   \* the network MYTHICAL_NET resolves to
    index,  \* version of the family index at hand
    proc,   \* the session
    seen,   \* ghost: networks on which a container's alias was seen to resolve
    faults, hands

ledgers == <<disk, mem, stage>>
outside == <<gone, conf, index, hands>>
vars == <<disk, mem, stage, box, gone, conf, index, proc, seen, faults, hands>>

Wants   == {"none", "running", "stopped"}
Indexes == 0 .. MaxHands

\* What the ledger says: the recorded migration (phase 0: none), the network
\* reference, and for each container its provenance, desired state and the
\* networks on which it still owes an alias check; and the index's trust floor.
Ledgers == [phase   : 0 .. 5,
            source  : Nets \cup {NoNet},
            target  : Nets \cup {NoNet},
            fleet   : SUBSET Containers,
            ref     : Nets,
            proven  : SUBSET Containers,
            desired : [Containers -> Wants],
            owed    : [Containers -> SUBSET Nets],
            floor   : Indexes]

\* What a session's copy is while no session holds one.
Blank == [phase |-> 0, source |-> NoNet, target |-> NoNet, fleet |-> {},
          ref |-> CHOOSE n \in Nets : TRUE, proven |-> {},
          desired |-> [c \in Containers |-> "none"],
          owed |-> [c \in Containers |-> {}], floor |-> 0]

Boxes  == [st : {"absent", "stopped", "running"}, on : SUBSET Nets]
NoBox  == [st |-> "absent", on |-> {}]
Stands(c) == box[c].st # "absent"
Fleet     == {c \in Containers : Stands(c)}

PCs == {"idle", "mark2", "connect", "clone3", "check3", "mark4", "detach",
        "check5", "check6", "save"}
Procs == [pc : PCs, todo : SUBSET Containers]
Idle  == [pc |-> "idle", todo |-> {}]

At(pc)         == proc.pc = pc
Goto(pc, todo) == proc' = [pc |-> pc, todo |-> todo]
Refuse         == Goto("save", {})
Ends           == proc' = Idle /\ mem' = Blank /\ stage' = Blank
InFlight       == disk.phase # 0

\* The pair the session works on.
Source == mem.source
Target == mem.target

\* A family of some containers, installed and verified.
Init ==
    /\ \E net \in Nets, S \in (SUBSET Containers) \ {{}} :
          /\ disk = [Blank EXCEPT !.ref = net, !.proven = S,
                        !.desired = [c \in Containers |-> IF c \in S THEN "running" ELSE "none"]]
          /\ box = [c \in Containers |->
                        IF c \in S THEN [st |-> "running", on |-> {net}] ELSE NoBox]
          /\ seen = [c \in Containers |-> IF c \in S THEN {net} ELSE {}]
          /\ conf = net
    /\ mem = Blank /\ stage = Blank
    /\ gone = {}
    /\ index = 0
    /\ proc = Idle
    /\ faults = 0 /\ hands = 0

-----------------------------------------------------------------------------
(* The verb, one action per step.                                           *)

\* Rebind with no containers: the new reference is all there is to record.
BeginEmpty ==
    /\ At("idle") /\ ~InFlight
    /\ Fleet = {}
    /\ conf \notin gone
    /\ mem' = [disk EXCEPT !.ref = conf]
    /\ Goto("save", {})
    /\ UNCHANGED <<disk, stage, box, seen, faults, outside>>

\* Rebind, phase 1: the intent, for now in the session's copy only.
BeginFresh ==
    /\ At("idle") /\ ~InFlight
    /\ Fleet # {}
    /\ conf # disk.ref /\ conf \notin gone
    /\ mem' = [disk EXCEPT !.phase = 1, !.source = disk.ref, !.target = conf,
                           !.fleet = Fleet]
    /\ Goto("mark2", {})
    /\ UNCHANGED <<disk, stage, box, seen, faults, outside>>

\* MigResume: the recorded phase is entered again.
Entries == <<"mark2", "mark2", "clone3", "mark4", "check5">>
BeginResumed ==
    /\ At("idle") /\ InFlight
    /\ mem' = disk
    /\ Goto(Entries[disk.phase], disk.fleet)
    /\ UNCHANGED <<disk, stage, box, seen, faults, outside>>

\* staged: a phase's marker is on disk before the phase acts.
Mark(pc, phase, next) ==
    /\ At(pc)
    /\ mem' = [mem EXCEPT !.phase = phase]
    /\ disk' = mem'
    /\ Goto(next, mem.fleet)
    /\ UNCHANGED <<stage, box, seen, faults, outside>>

Mark2 == Mark("mark2", 2, "connect")

\* aliasFor: the ledger has a record that describes this container.
Recorded(c) == c \in mem.proven
OnTarget(c) == Target \in box[c].on

\* Mutant: a container leaves the source as it joins the target.
ConnectMoves(c) ==
    /\ At("connect") /\ c \in proc.todo
    /\ IF Recorded(c) /\ Stands(c) /\ Target \notin gone
       THEN /\ box' = [box EXCEPT ![c].on = {Target}]
            /\ Goto("connect", proc.todo \ {c})
       ELSE Refuse /\ box' = box
    /\ UNCHANGED <<ledgers, seen, faults, outside>>

\* Phase 2: every recorded container is connected to the target.
Connect(c) ==
    /\ At("connect") /\ c \in proc.todo
    /\ IF Recorded(c) /\ Stands(c) /\ Target \notin gone
       THEN /\ box' = [box EXCEPT ![c].on = @ \cup {Target}]
            /\ Goto("connect", proc.todo \ {c})
       ELSE Refuse /\ box' = box
    /\ UNCHANGED <<ledgers, seen, faults, outside>>

Connected ==
    /\ At("connect") /\ proc.todo = {}
    /\ Goto("clone3", {})
    /\ UNCHANGED <<ledgers, box, seen, faults, outside>>

\* sessionProber: a probe accepts the index, which raises the floor on disk,
\* and the session's copy, whatever it held, is read back from there.
Probed == disk' = [disk EXCEPT !.floor = index] /\ mem' = disk'

\* Phase 3 opens a clone, then asks the probe whether it works at all: the
\* clone is older than what the probe leaves on disk.
Clone ==
    /\ At("clone3")
    /\ stage' = mem
    /\ Probed
    /\ IF Target \in gone THEN Refuse ELSE Goto("check3", mem.fleet)
    /\ UNCHANGED <<box, seen, faults, outside>>

\* The networks a container must be on in phase 3, exactly.
Both == IF Source \in gone THEN {Target} ELSE {Source, Target}

\* Mutant: an alias check owed on the source goes unnoticed.
Verify3BlindToOwed(c) ==
    /\ Recorded(c) /\ Stands(c)
    /\ box[c].on = Both
    /\ box[c].st = "stopped" => mem.desired[c] # "none"

\* What phase 3 asks of a container before anything is detached.
Verify3(c) ==
    /\ Recorded(c) /\ Stands(c)
    /\ Source \notin stage.owed[c]
    /\ box[c].on = Both
    /\ box[c].st = "stopped" => mem.desired[c] # "none"

\* Mutant: the check of a stopped container is skipped instead of deferred.
NotDeferred(c) == stage

\* The check of a stopped container is deferred, on the target.
Deferred(c) ==
    IF box[c].st = "running" THEN stage ELSE [stage EXCEPT !.owed[c] = @ \cup {Target}]

Check3(c) ==
    /\ At("check3") /\ c \in proc.todo
    /\ IF Verify3(c)
       THEN stage' = Deferred(c) /\ Goto("check3", proc.todo \ {c})
       ELSE Refuse /\ UNCHANGED stage
    /\ IF Verify3(c) /\ box[c].st = "running"
       THEN Probed /\ seen' = [seen EXCEPT ![c] = @ \cup {Target}]
       ELSE UNCHANGED <<disk, mem, seen>>
    /\ UNCHANGED <<box, faults, outside>>

\* The whole fleet has passed, and egress works on the source while it is
\* there: the clone becomes the session's copy.
Checked3 ==
    /\ At("check3") /\ proc.todo = {}
    /\ disk' = IF Source \in gone THEN disk ELSE [disk EXCEPT !.floor = index]
    /\ mem' = [stage EXCEPT !.phase = 3]
    /\ Goto("mark4", {})
    /\ UNCHANGED <<stage, box, seen, faults, outside>>

\* Mutant: the marker of the phase that detaches is kept in memory.
Mark4Volatile ==
    /\ At("mark4")
    /\ mem' = [mem EXCEPT !.phase = 4]
    /\ Goto("detach", mem.fleet)
    /\ UNCHANGED <<disk, stage, box, seen, faults, outside>>

Mark4 == Mark("mark4", 4, "detach")

\* Mutant: phase 3's verification is taken for a fact about the present.
DetachBlind(c) ==
    /\ At("detach") /\ c \in proc.todo
    /\ IF Stands(c)
       THEN /\ box' = [box EXCEPT ![c].on = @ \ {Source}]
            /\ Goto("detach", proc.todo \ {c})
       ELSE Refuse /\ box' = box
    /\ UNCHANGED <<ledgers, seen, faults, outside>>

\* Phase 4: a container is seen on the target, then detached from the source.
Detach(c) ==
    /\ At("detach") /\ c \in proc.todo
    /\ IF Stands(c) /\ OnTarget(c)
       THEN /\ box' = [box EXCEPT ![c].on = @ \ {Source}]
            /\ Goto("detach", proc.todo \ {c})
       ELSE Refuse /\ box' = box
    /\ UNCHANGED <<ledgers, seen, faults, outside>>

\* A detach whose failure nobody looks at.
DetachFails(c) ==
    /\ At("detach") /\ c \in proc.todo
    /\ Stands(c) /\ OnTarget(c)
    /\ faults < MaxFaults /\ faults' = faults + 1
    /\ Goto("detach", proc.todo \ {c})
    /\ UNCHANGED <<ledgers, box, seen, outside>>

Detached ==
    /\ At("detach") /\ proc.todo = {}
    /\ Goto("check5", mem.fleet)
    /\ UNCHANGED <<ledgers, box, seen, faults, outside>>

\* targetOnlyOK: on the target alone.
TargetOnly(c) ==
    /\ Recorded(c) /\ Stands(c)
    /\ box[c].on = {Target}

\* Phases 5 and 6 ask it of every container; of one that runs with a probe,
\* after which the session's copy is read back from disk.
Check56(pc, c) ==
    /\ At(pc) /\ c \in proc.todo
    /\ IF TargetOnly(c) THEN Goto(pc, proc.todo \ {c}) ELSE Refuse
    /\ IF TargetOnly(c) /\ box[c].st = "running"
       THEN Probed /\ seen' = [seen EXCEPT ![c] = @ \cup {Target}]
       ELSE UNCHANGED <<disk, mem, seen>>
    /\ UNCHANGED <<stage, box, faults, outside>>

\* Egress works on the target: phase 5 is recorded, in memory.
Checked5 ==
    /\ At("check5") /\ proc.todo = {}
    /\ disk' = [disk EXCEPT !.floor = index]
    /\ mem' = [disk' EXCEPT !.phase = 5]
    /\ Goto("check6", mem.fleet)
    /\ UNCHANGED <<stage, box, seen, faults, outside>>

Cleared(l) == [l EXCEPT !.phase = 0, !.source = NoNet, !.target = NoNet, !.fleet = {}]

\* Mutant: the reference follows the configuration, wherever the fleet is.
CommitConfigured ==
    /\ At("check6") /\ proc.todo = {}
    /\ mem' = [Cleared(mem) EXCEPT !.ref = conf]
    /\ Goto("save", {})
    /\ UNCHANGED <<disk, stage, box, seen, faults, outside>>

\* Phase 6: the reference is recorded, if MYTHICAL_NET still names the target.
Commit ==
    /\ At("check6") /\ proc.todo = {}
    /\ mem' = IF conf = Target /\ conf \notin gone THEN [Cleared(mem) EXCEPT !.ref = conf] ELSE mem
    /\ Goto("save", {})
    /\ UNCHANGED <<disk, stage, box, seen, faults, outside>>

\* finishMigration: the session's copy is written on both outcomes.
Save ==
    /\ At("save")
    /\ disk' = mem
    /\ Ends
    /\ UNCHANGED <<box, seen, faults, outside>>

\* A call fails where the code looks: nothing more is done, and what the
\* session knows is written.  A connect that was carried out with its answer
\* lost is Connect followed by this.
Fails ==
    /\ proc.pc \notin {"idle", "save"}
    /\ faults < MaxFaults /\ faults' = faults + 1
    /\ Refuse
    /\ UNCHANGED <<ledgers, box, seen, outside>>

Dies ==
    /\ ~At("idle")
    /\ faults < MaxFaults /\ faults' = faults + 1
    /\ Ends
    /\ UNCHANGED <<disk, box, seen, outside>>

-----------------------------------------------------------------------------
(* The other verbs, each under the lock and so between two sessions.        *)

Verb(name) == At("idle") /\ name \in Verbs

\* netref.Target: only the network the ledger names, and only while
\* MYTHICAL_NET names it too.
NetTarget == conf = disk.ref /\ conf \notin gone

\* bringup.permittedNets: a recorded migration asks for both networks.
Permitted == IF InFlight THEN {disk.source, disk.target} ELSE {disk.ref}

\* A live verification asks for exactly the permitted networks, and may fail
\* or not run; the check is owed before it and retired by it.
Verification(c, ok, on) ==
    /\ ok => on = Permitted
    /\ disk' = [disk EXCEPT !.proven = @ \cup {c}, !.desired[c] = "running",
                            !.owed[c] = IF ok THEN @ \ {conf} ELSE @ \cup {conf}]
    /\ seen' = IF ok THEN [seen EXCEPT ![c] = @ \cup {conf}] ELSE seen

\* install: the old container is removed, and the new one, attached to one
\* network, is removed too unless that is exactly what is permitted.
VerbInstall(c, ok) ==
    /\ Verb("install")
    /\ NetTarget
    /\ Stands(c) => c \in disk.proven
    /\ IF Permitted = {conf}
       THEN /\ box' = [box EXCEPT ![c] = [st |-> "running", on |-> {conf}]]
            /\ Verification(c, ok, {conf})
       ELSE /\ box' = [box EXCEPT ![c] = NoBox]
            /\ UNCHANGED <<disk, seen>>
    /\ UNCHANGED <<mem, stage, proc, faults, outside>>

VerbStart(c, ok) ==
    /\ Verb("start")
    /\ NetTarget
    /\ Stands(c) /\ c \in disk.proven
    /\ box' = [box EXCEPT ![c].st = "running"]
    /\ Verification(c, ok, box[c].on)
    /\ UNCHANGED <<mem, stage, proc, faults, outside>>

VerbStop(c) ==
    /\ Verb("stop")
    /\ Stands(c) /\ c \in disk.proven
    /\ box' = [box EXCEPT ![c].st = "stopped"]
    /\ disk' = [disk EXCEPT !.desired[c] = "stopped"]
    /\ UNCHANGED <<mem, stage, proc, seen, faults, outside>>

VerbUninstall(c) ==
    /\ Verb("uninstall")
    /\ Stands(c) => c \in disk.proven
    /\ box' = [box EXCEPT ![c] = NoBox]
    /\ disk' = [disk EXCEPT !.proven = @ \ {c}, !.desired[c] = "none", !.owed[c] = {}]
    /\ UNCHANGED <<mem, stage, proc, seen, faults, outside>>

\* An install that dies between the create and the confirmation.
InstallDies(c) ==
    /\ Verb("install")
    /\ NetTarget /\ ~InFlight
    /\ ~Stands(c)
    /\ faults < MaxFaults /\ faults' = faults + 1
    /\ box' = [box EXCEPT ![c] = [st |-> "stopped", on |-> {conf}]]
    /\ UNCHANGED <<ledgers, proc, seen, outside>>

-----------------------------------------------------------------------------
(* Everyone else.                                                           *)

Exits(c) ==
    /\ box[c].st = "running"
    /\ box' = [box EXCEPT ![c].st = "stopped"]
    /\ UNCHANGED <<ledgers, proc, seen, faults, outside>>

EditConf(n) ==
    /\ InFlight => MidEdits
    /\ At("idle") \/ MidEdits
    /\ n # conf /\ conf' = n
    /\ UNCHANGED <<ledgers, box, gone, index, proc, seen, faults, hands>>

Hand == hands < MaxHands /\ hands' = hands + 1

\* A container is attached or detached with the runtime directly.
Plug(c, n) ==
    /\ Hand
    /\ Stands(c) /\ n \notin gone
    /\ box' = [box EXCEPT ![c].on = IF n \in @ THEN @ \ {n} ELSE @ \cup {n}]
    /\ UNCHANGED <<ledgers, gone, conf, index, proc, seen, faults>>

\* A network is removed, after everything was disconnected from it.
NetRemoved(n) ==
    /\ Hand
    /\ n \notin gone
    /\ gone' = gone \cup {n}
    /\ box' = [c \in Containers |-> [box[c] EXCEPT !.on = @ \ {n}]]
    /\ UNCHANGED <<ledgers, conf, index, proc, seen, faults>>

\* A newer family index is put in place.
NewIndex ==
    /\ Hand
    /\ index' = index + 1
    /\ UNCHANGED <<ledgers, box, gone, conf, proc, seen, faults>>

-----------------------------------------------------------------------------
Begin == BeginEmpty \/ BeginFresh \/ BeginResumed

Steps ==
    \/ Mark2 \/ Connected \/ Clone \/ Checked3 \/ Mark4 \/ Detached
    \/ Checked5 \/ Commit \/ Save
    \/ \E c \in Containers :
          Connect(c) \/ Check3(c) \/ Detach(c) \/ Check56("check5", c) \/ Check56("check6", c)

Others ==
    \/ \E c \in Containers :
          \/ \E ok \in BOOLEAN : VerbInstall(c, ok) \/ VerbStart(c, ok)
          \/ VerbStop(c) \/ VerbUninstall(c)
          \/ InstallDies(c) \/ Exits(c)
          \/ \E n \in Nets : Plug(c, n)
    \/ \E n \in Nets : EditConf(n) \/ NetRemoved(n)
    \/ NewIndex

Next == Begin \/ Steps \/ Fails \/ Dies \/ Others \/ \E c \in Containers : DetachFails(c)

Spec == Init /\ [][Next]_vars

\* A session that runs goes on until it ends; and the operator runs net rebind
\* again for as long as a migration is recorded, as docs/RECOVERY.md tells them.
FairSpec == Spec /\ WF_vars(Steps) /\ WF_vars(BeginResumed)

-----------------------------------------------------------------------------
\* Every variable keeps its type; phase 6 is never recorded.
TypeOK ==
    /\ disk \in Ledgers /\ mem \in Ledgers /\ stage \in Ledgers
    /\ box \in [Containers -> Boxes]
    /\ gone \subseteq Nets /\ conf \in Nets /\ index \in 0 .. hands
    /\ proc \in Procs
    /\ seen \in [Containers -> SUBSET Nets]
    /\ faults \in 0 .. MaxFaults /\ hands \in 0 .. MaxHands

\* docs/RECOVERY.md: once the phase that detaches is recorded, every container
\* of the recorded set has been proven on the target, by a live verification
\* or, if it was stopped, by a check it owes there.
ProvenBeforeDetached ==
    disk.phase >= 4 =>
        \A c \in disk.fleet \cap disk.proven :
            disk.target \in seen[c] \cup disk.owed[c]

\* bringup.permittedNets: while no move is recorded, the ledger names the one
\* network every container is on, with no attachment left over.
AtHome ==
    ~InFlight /\ hands = 0 => \A c \in Fleet : box[c].on = {disk.ref}

\* migPhase3: no move ends with a container owing a check on a network the
\* family has left, which nothing could ever satisfy.
NoStrandedCheck ==
    ~InFlight => \A c \in Containers : disk.owed[c] \subseteq {disk.ref}

\* Phase 4 looks before it detaches: no step of the tool takes a container's
\* last network away.
NeverBare ==
    [][hands' = hands =>
         \A c \in Containers :
            Stands(c) /\ box'[c].st # "absent" /\ box[c].on # {} => box'[c].on # {}]_vars

\* A refusal in phase 3 leaves what the ledger owes as it was: the deferred
\* checks of a fleet reach the disk together, with the record of phase 3.
DeferredTogether ==
    [][~At("idle") /\ disk'.owed # disk.owed => disk'.phase \in {3, 4}]_vars

\* There is always a network the whole family shares, and no move recorded
\* means the network named is one.
Kept == INSTANCE FamilyNetwork WITH
            shared <- {n \in Nets : \A c \in Fleet : n \in box[c].on},
            named  <- disk.ref,
            moving <- InFlight
SharesOne == Kept!Spec

\* docs/RECOVERY.md: an interrupted rebind that is run again finishes, unless a
\* container of the recorded set is one it cannot name or verify.
Wedged ==
    \E c \in disk.fleet :
        ~Stands(c) \/ c \notin disk.proven \/ disk.source \in disk.owed[c]
RerunFinishes == InFlight ~> (~InFlight \/ Wedged)

-----------------------------------------------------------------------------
(* What comments, messages and docs say, and the code does not do.          *)

\* internal/verbs, reload: persisting a stale copy "would silently erase the
\* floor"; so a trust floor on disk never goes down.
FloorKept == [][disk'.floor >= disk.floor]_vars

\* migPhase3's refusal: start the container that owes a check on the source,
\* "then re-run the migration".
StartDischarges ==
    At("idle") /\ InFlight /\ (\E c \in disk.fleet : disk.source \in disk.owed[c])
        => NetTarget

-----------------------------------------------------------------------------
(* The inductive invariant behind the safety properties above.              *)

SamePair(l, m) == l.source = m.source /\ l.target = m.target /\ l.fleet = m.fleet

\* How far the disk is, and what the session's copy is to it, at each step:
\* the same, except for the intent before it is marked, the clone of phase 3
\* before it is marked, and the record of phase 5.
SessionInv ==
    /\ At("idle") => mem.phase = 0 /\ mem.owed = Blank.owed
    /\ At("mark2") => mem.phase \in {1, 2} /\ (disk.phase = 0 \/ mem = disk)
    /\ proc.pc \in {"connect", "clone3", "check3"} => disk.phase \in {2, 3}
    /\ proc.pc \in {"detach", "check5", "check6"} => disk.phase \in {4, 5}
    /\ proc.pc \in {"connect", "clone3", "check3", "detach", "check5"} => mem = disk
    /\ At("check3") => SamePair(stage, disk) /\ stage.ref = disk.ref /\ stage.proven = disk.proven
    /\ At("mark4") => /\ mem.phase \in {3, 4} /\ disk.phase \in {2, 3, 4} /\ SamePair(mem, disk)
                      /\ disk.phase = 4 <=> mem.phase = 4
    /\ At("check6") => /\ mem.phase \in {4, 5} /\ SamePair(mem, disk) /\ mem.ref = disk.ref
                       /\ mem.proven = disk.proven
    /\ ~At("idle") => mem.owed = disk.owed \/ (proc.pc \in {"mark4", "save"} /\ mem.phase = 3)
    /\ ~At("idle") /\ mem.phase # 0 => mem.ref = disk.ref

\* A recorded move leads from the network the ledger names to another, and
\* only containers of its fleet stand.
MoveInv(l) ==
    IF l.phase = 0 THEN l.source = NoNet /\ l.target = NoNet /\ l.fleet = {}
    ELSE /\ l.source \in Nets /\ l.target \in Nets /\ l.source # l.target
         /\ l.ref = l.source /\ Fleet \subseteq l.fleet

\* Proven on the target, or owing the proof there.
ProvenOn(l, c) == c \in l.proven => l.target \in seen[c] \cup l.owed[c]
ProvenInv ==
    /\ \A l \in {disk, mem} : l.phase >= 4 => \A c \in l.fleet : ProvenOn(l, c)
    /\ At("mark4") => \A c \in mem.fleet : ProvenOn(mem, c)
    /\ At("check3") => \A c \in stage.fleet \ proc.todo : ProvenOn(stage, c)

\* Unless MYTHICAL_NET changes under a recorded move, it names the target of
\* it, what is owed is owed on a network of the move, and from phase 3 on it
\* is not the source.
OwedInv(l) ==
    /\ \A c \in Containers : l.owed[c] \subseteq
          IF l.phase = 0 THEN {l.ref} ELSE {l.source, l.target}
    /\ \A c \in Containers : ~Stands(c) => l.owed[c] = {}
    /\ l.phase >= 3 => \A c \in Containers : l.source \notin l.owed[c]
    /\ l.phase # 0 => conf = l.target
DeferInv ==
    At("check3") =>
        /\ \A c \in Containers : stage.owed[c] \subseteq {disk.source, disk.target}
        /\ \A c \in Containers : ~Stands(c) => stage.owed[c] = {}
        /\ \A c \in disk.fleet \ proc.todo : disk.source \notin stage.owed[c]
SteadyInv == ~MidEdits => OwedInv(disk) /\ OwedInv(mem) /\ DeferInv

\* While nobody touched the daemon: where the containers are, by how far the
\* recorded move has come, and what phase 3 and phase 6 have seen of it.
HomeAt(l) ==
    \A c \in Fleet :
        IF l.phase = 0 THEN box[c].on = {l.ref}
        ELSE /\ box[c].on \subseteq {l.source, l.target}
             /\ IF l.phase >= 4 THEN l.target \in box[c].on ELSE l.source \in box[c].on
HomeInv ==
    hands = 0 =>
        /\ gone = {}
        /\ HomeAt(disk)
        /\ ~At("idle") => HomeAt(mem)
        /\ At("check3") => \A c \in Fleet \ proc.todo : disk.target \in box[c].on
        /\ At("mark4") => \A c \in Fleet : mem.target \in box[c].on
        /\ At("check6") => \A c \in Fleet \ proc.todo : box[c].on = {mem.target}

IInv ==
    /\ TypeOK /\ SessionInv /\ MoveInv(disk) /\ MoveInv(mem)
    /\ ProvenInv /\ SteadyInv /\ HomeInv
=============================================================================
