------------------------------- MODULE Intents --------------------------------
(***************************************************************************)
(* The write-ahead intents of the family network, a product volume and the *)
(* probe containers (internal/intent, netref.OwnedEnsure,                  *)
(* verbs.ensureVolume, probe.run): an object is recorded as about to be    *)
(* created before it is asked for, confirmed once the runtime proves it,   *)
(* reconciled by a later run when it was not, and given up only after a    *)
(* grace period.  The runtime may lose its answer and carry the create out *)
(* later; others hold the same names and copy labels; the process dies at  *)
(* any step.                                                               *)
(***************************************************************************)
EXTENDS Integers, FiniteSets

CONSTANTS
    MaxNonce,   \* nonces drawn
    MaxFaults,  \* deaths, lost answers and questions that are not answered
    MaxHands    \* acts of others on the runtime

ASSUME IntentConstants == MaxNonce \in Nat /\ MaxFaults \in Nat /\ MaxHands \in Nat

VARIABLES
    disk,    \* the ledger file
    mem,     \* the session's copy
    net,     \* how many networks at our name carry our label and each nonce
    vol,     \* the volume at our name
    probes,  \* the nonces of our probe containers that stand
    copied,  \* the nonce another installation's network copied, None when none did
    flight,  \* creates the runtime accepted and has not carried out
    s,       \* the verb that holds the family lock
    drawn,   \* the last nonce drawn
    stood,   \* objects of ours that have stood
    given,   \* objects whose intent was given up
    old,     \* the open intents that have outlived the grace period
    faults, hands

vars == <<disk, mem, net, vol, probes, copied, flight, s, drawn, stood, given,
          old, faults, hands>>
runtime == <<net, vol, probes, copied, flight, stood>>

-----------------------------------------------------------------------------
(* Data.                                                                    *)

Nonces == 1 .. MaxNonce
None   == 0
Kinds  == {"network", "volume"}        \* recorded, and known by one name
Object == {"network", "volume", "probe"} \X Nonces

Ledgers == [rec : [Kinds -> Nonces \cup {None}], open : [Kinds -> Nonces \cup {None}], probe : SUBSET Nonces]
Blank   == [rec |-> [k \in Kinds |-> None], open |-> [k \in Kinds |-> None], probe |-> {}]

Vols   == [owner : {"nobody", "us", "other"}, nonce : Nonces \cup {None}]
NoVol  == [owner |-> "nobody", nonce |-> None]
Bare   == [owner |-> "other", nonce |-> None]
Ours(n) == [owner |-> "us", nonce |-> n]

PCs == {"idle", "cleanup", "gate", "network", "netcreate", "netask", "volume",
        "volcreate", "volask", "probe", "run", "reap", "adopt", "finish", "abandon"}
Sessions == [pc : PCs, again : BOOLEAN, kind : Kinds \cup {"probe"},
             nonce : Nonces \cup {None}, todo : SUBSET Nonces]
Idle   == [pc |-> "idle", again |-> FALSE, kind |-> "network", nonce |-> None, todo |-> {}]
At(pc) == s.pc = pc
Goto(pc) == s' = [Idle EXCEPT !.pc = pc]
End    == s' = Idle

Standing == {<<"network", n>> : n \in {m \in Nonces : net[m] > 0}}
            \cup {<<"probe", n>> : n \in probes}
            \cup (IF vol.owner = "us" THEN {<<"volume", vol.nonce>>} ELSE {})

Describes(l, o) == IF o[1] = "probe" THEN o[2] \in l.probe
                   ELSE o[2] \in {l.rec[o[1]], l.open[o[1]]}

\* UnaccountedScan, of an installation that has its identity.  A probe is a
\* container there, and no record of that class is ever about one.
Unaccounted(l) == {o \in Standing : o[1] = "probe" \/ ~Describes(l, o)}

Opened(l, kind, n)    == [l EXCEPT !.open[kind] = n]
Dropped(l, kind)      == [l EXCEPT !.open[kind] = None]
Confirmed(l, kind, n) == [Dropped(l, kind) EXCEPT !.rec[kind] = n]

Fault == faults < MaxFaults /\ faults' = faults + 1
Draw(n) == n = drawn + 1 /\ n \in Nonces /\ drawn' = n
Nothing == UNCHANGED <<drawn, given, old, faults, hands>>

Init ==
    /\ disk = Blank /\ mem = Blank
    /\ net = [n \in Nonces |-> 0] /\ vol \in {NoVol, Bare}
    /\ probes = {} /\ copied = None /\ flight = {}
    /\ s = Idle /\ drawn = None /\ stood = {} /\ given = {} /\ old = {}
    /\ faults = 0 /\ hands = 0

-----------------------------------------------------------------------------
(* A verb opens: the ledger is read, left-over probes are reaped, and every *)
(* object must be accounted for.                                            *)

InstallBegin ==
    /\ At("idle")
    /\ mem' = disk
    /\ s' = [Idle EXCEPT !.pc = "cleanup", !.todo = disk.probe]
    /\ UNCHANGED <<disk, runtime>> /\ Nothing

\* probe.Cleanup: each recorded probe is asked for and removed, and its intent
\* dropped once nothing of ours stands there.
Cleanup(n) ==
    /\ At("cleanup") /\ n \in s.todo
    /\ s' = [s EXCEPT !.todo = @ \ {n}]
    /\ probes' = probes \ {n}
    /\ disk' = [disk EXCEPT !.probe = @ \ {n}]
    /\ given' = given \cup ({<<"probe", n>>} \cap flight)
    /\ UNCHANGED <<mem, net, vol, copied, flight, stood, drawn, faults, hands, old>>

\* The session reads the ledger again and asks the gate.
Gate ==
    /\ At("cleanup") /\ s.todo = {}
    /\ mem' = disk
    /\ IF Unaccounted(disk) = {} THEN Goto("network") ELSE End
    /\ UNCHANGED <<disk, runtime>> /\ Nothing

-----------------------------------------------------------------------------
(* The family network: OwnedEnsure.                                         *)

\* Recorded: adopted by its id, or refused when it no longer stands.
AdoptNetwork ==
    /\ At("network") /\ mem.rec["network"] # None
    /\ IF net[mem.rec["network"]] > 0 THEN Goto("volume") ELSE End
    /\ UNCHANGED <<disk, mem, runtime>> /\ Nothing

\* The intent is durable before the network is asked for.
OpenNetwork ==
    /\ At("network") /\ mem.rec["network"] = None /\ mem.open["network"] = None
    /\ \E n \in Nonces :
        /\ Draw(n)
        /\ mem' = Opened(mem, "network", n) /\ disk' = mem'
        /\ s' = [Idle EXCEPT !.pc = "netcreate", !.nonce = n]
    /\ old' = old \ {"network"}
    /\ UNCHANGED <<runtime, given, faults, hands>>

NetworkCreate ==
    /\ At("netcreate")
    /\ net' = [net EXCEPT ![s.nonce] = @ + 1]
    /\ stood' = stood \cup {<<"network", s.nonce>>}
    /\ s' = [s EXCEPT !.pc = "netask"]
    /\ UNCHANGED <<disk, mem, vol, probes, copied, flight>> /\ Nothing

\* A duplicate is ruled out by asking which networks carry our identity.
ConfirmNetwork ==
    /\ At("netask")
    /\ IF Cardinality({o \in Standing : o[1] = "network"}) > 1
       THEN End /\ UNCHANGED <<disk, mem>>
       ELSE /\ mem' = Confirmed(mem, "network", s.nonce) /\ disk' = mem'
            /\ Goto("volume")
    /\ UNCHANGED runtime /\ Nothing

\* Mutant: a network nothing carries the nonce of is created again.
ReconcileNetworkReissues ==
    /\ At("network") /\ mem.open["network"] # None
    /\ LET n == mem.open["network"] IN
       /\ net' = IF net[n] = 0 THEN [net EXCEPT ![n] = 1] ELSE net
       /\ stood' = stood \cup {<<"network", n>>}
       /\ mem' = Confirmed(mem, "network", n) /\ disk' = mem'
    /\ Goto("volume")
    /\ UNCHANGED <<vol, probes, copied, flight>> /\ Nothing

\* Reconcile, for a network: adopted when it alone carries the nonce and is
\* ours; never created again.
ReconcileNetwork ==
    /\ At("network") /\ mem.open["network"] # None
    /\ LET n == mem.open["network"] IN
       IF net[n] = 1 /\ copied # n
       THEN mem' = Confirmed(mem, "network", n) /\ disk' = mem' /\ Goto("volume")
       ELSE End /\ UNCHANGED <<disk, mem>>
    /\ UNCHANGED runtime /\ Nothing

-----------------------------------------------------------------------------
(* The volume: ensureVolume.                                                *)

\* Recorded: it exists, and nothing is asked.
KeepVolume ==
    /\ At("volume") /\ mem.rec["volume"] # None
    /\ Goto("probe")
    /\ UNCHANGED <<disk, mem, runtime>> /\ Nothing

OpenVolume ==
    /\ At("volume") /\ mem.rec["volume"] = None /\ mem.open["volume"] = None
    /\ \E n \in Nonces :
        /\ Draw(n)
        /\ mem' = Opened(mem, "volume", n) /\ disk' = mem'
        /\ s' = [Idle EXCEPT !.pc = "volcreate", !.kind = "volume", !.nonce = n]
    /\ old' = old \ {"volume"}
    /\ UNCHANGED <<runtime, given, faults, hands>>

\* Reconcile, for a volume: the one that carries the nonce is adopted, and none
\* is created again under the same nonce.
ReconcileVolume ==
    /\ At("volume") /\ mem.rec["volume"] = None /\ mem.open["volume"] # None
    /\ LET n == mem.open["volume"] IN
       IF vol = Ours(n)
       THEN mem' = Confirmed(mem, "volume", n) /\ disk' = mem' /\ Goto("probe")
       ELSE /\ s' = [Idle EXCEPT !.pc = "volcreate", !.kind = "volume",
                                 !.nonce = n, !.again = TRUE]
            /\ UNCHANGED <<disk, mem>>
    /\ UNCHANGED runtime /\ Nothing

\* A create against a name that is held succeeds and applies no label.
VolumeCreate ==
    /\ At("volcreate")
    /\ IF vol = NoVol
       THEN vol' = Ours(s.nonce) /\ stood' = stood \cup {<<"volume", s.nonce>>}
       ELSE UNCHANGED <<vol, stood>>
    /\ s' = [s EXCEPT !.pc = "volask"]
    /\ UNCHANGED <<disk, mem, net, probes, copied, flight>> /\ Nothing

\* Mutant: the create is taken for the proof.
ConfirmVolumeCreated ==
    /\ At("volask")
    /\ mem' = Confirmed(mem, "volume", s.nonce) /\ disk' = mem' /\ Goto("probe")
    /\ UNCHANGED runtime /\ Nothing

\* The nonce the volume carries, asked after the create.
ConfirmVolume ==
    /\ At("volask")
    /\ IF vol.nonce = s.nonce /\ (s.again => vol.owner = "us")
       THEN mem' = Confirmed(mem, "volume", s.nonce) /\ disk' = mem' /\ Goto("probe")
       ELSE End /\ UNCHANGED <<disk, mem>>
    /\ UNCHANGED runtime /\ Nothing

-----------------------------------------------------------------------------
(* The probe of the bring-up, which writes the ledger file itself.          *)

OpenProbe ==
    /\ At("probe")
    /\ \E n \in Nonces :
        /\ Draw(n)
        /\ disk' = [disk EXCEPT !.probe = @ \cup {n}]
        /\ s' = [Idle EXCEPT !.pc = "run", !.kind = "probe", !.nonce = n]
    /\ UNCHANGED <<mem, runtime, given, faults, hands, old>>

HelperRun ==
    /\ At("run")
    /\ probes' = probes \cup {s.nonce} /\ stood' = stood \cup {<<"probe", s.nonce>>}
    /\ s' = [s EXCEPT !.pc = "reap"]
    /\ UNCHANGED <<disk, mem, net, vol, copied, flight>> /\ Nothing

\* The container's answer is lost: the reap that follows is what judges it.
HelperLost ==
    /\ At("run") /\ Fault
    /\ \/ flight' = flight \cup {<<"probe", s.nonce>>}
       \/ UNCHANGED flight
    /\ s' = [s EXCEPT !.pc = "reap"]
    /\ UNCHANGED <<disk, mem, net, vol, probes, copied, stood, drawn, given, hands, old>>

\* reap and DropProbe: gone, or ours and removed by its id.
Reap ==
    /\ At("reap")
    /\ probes' = probes \ {s.nonce}
    /\ disk' = [disk EXCEPT !.probe = @ \ {s.nonce}]
    /\ given' = given \cup ({<<"probe", s.nonce>>} \cap flight)
    /\ Goto("adopt")
    /\ UNCHANGED <<mem, net, vol, copied, flight, stood, drawn, faults, hands, old>>

\* The question, or the removal, fails: the intent is kept.
ReapFails ==
    /\ At("reap") /\ Fault
    /\ Goto("adopt")
    /\ UNCHANGED <<disk, mem, runtime, drawn, given, hands, old>>

\* Mutant: the session's copy is not read back.
AdoptNothing ==
    /\ At("adopt")
    /\ Goto("finish")
    /\ UNCHANGED <<disk, mem, runtime>> /\ Nothing

\* adoptDisk, whatever the probe answered.
AdoptDisk ==
    /\ At("adopt")
    /\ mem' = disk
    /\ Goto("finish")
    /\ UNCHANGED <<disk, runtime>> /\ Nothing

\* The session's own write after the probe: the checks it owes or cleared.
Finish ==
    /\ At("finish")
    /\ disk' = mem /\ End
    /\ UNCHANGED <<mem, runtime>> /\ Nothing

\* The bound on the nonces: a verb that needs one more ends.
Exhausted ==
    /\ drawn = MaxNonce /\ End
    /\ \/ At("probe")
       \/ \E kind \in Kinds : At(kind) /\ mem.rec[kind] = None /\ mem.open[kind] = None
    /\ UNCHANGED <<disk, mem, runtime>> /\ Nothing

-----------------------------------------------------------------------------
(* state abandon-intent.                                                    *)

\* Mutant: whatever holds the name keeps the intent.
AbandonableByName(l, kind) ==
    /\ l.open[kind] # None /\ kind \in old
    /\ IF kind = "volume" THEN vol = NoVol ELSE <<kind, l.open[kind]>> \notin Standing

\* Abandonable: past the grace period, and no object of ours carries the nonce.
Abandonable(l, kind) ==
    /\ l.open[kind] # None /\ kind \in old
    /\ <<kind, l.open[kind]>> \notin Standing

AbandonBegin(kind) ==
    /\ At("idle") /\ Abandonable(disk, kind)
    /\ mem' = disk
    /\ s' = [Idle EXCEPT !.pc = "abandon", !.kind = kind]
    /\ UNCHANGED <<disk, runtime>> /\ Nothing

\* Mutant: what was judged before the operator was asked is not judged again.
AbandonUnasked ==
    /\ At("abandon")
    /\ mem' = Dropped(mem, s.kind) /\ disk' = mem'
    /\ given' = given \cup {<<s.kind, mem.open[s.kind]>>}
    /\ End
    /\ UNCHANGED <<runtime, drawn, faults, hands, old>>

\* Abandon, after the operator confirmed: judged again, and dropped.
Abandon ==
    /\ At("abandon")
    /\ IF Abandonable(mem, s.kind)
       THEN /\ mem' = Dropped(mem, s.kind) /\ disk' = mem'
            /\ given' = given \cup {<<s.kind, mem.open[s.kind]>>}
       ELSE UNCHANGED <<disk, mem, given>>
    /\ End
    /\ UNCHANGED <<runtime, drawn, faults, hands, old>>

-----------------------------------------------------------------------------
(* Failure, and the others.                                                 *)

\* A create whose answer is lost: it was refused, it is carried out later, or
\* it was carried out.
AnswerLost ==
    /\ Fault
    /\ \/ /\ At("netcreate") \/ At("volcreate")
          /\ \/ flight' = flight \cup {<<s.kind, s.nonce>>}
             \/ UNCHANGED flight
          /\ UNCHANGED <<net, vol, stood>>
       \/ /\ At("netcreate")
          /\ net' = [net EXCEPT ![s.nonce] = @ + 1]
          /\ stood' = stood \cup {<<"network", s.nonce>>}
          /\ UNCHANGED <<vol, flight>>
    /\ End
    /\ UNCHANGED <<disk, mem, probes, copied, drawn, given, hands, old>>

\* The process dies, or a question it asks is not answered and the verb ends.
Dies ==
    /\ ~At("idle") /\ Fault /\ End
    /\ UNCHANGED <<disk, mem, runtime, drawn, given, hands, old>>

\* The runtime carries out a create nobody waits for any more.
Lands(o) ==
    /\ o \in flight
    /\ flight' = flight \ {o}
    /\ net' = IF o[1] = "network" THEN [net EXCEPT ![o[2]] = @ + 1] ELSE net
    /\ vol' = IF o[1] = "volume" /\ vol = NoVol THEN Ours(o[2]) ELSE vol
    /\ probes' = IF o[1] = "probe" THEN probes \cup {o[2]} ELSE probes
    /\ stood' = IF o[1] = "volume" /\ vol # NoVol THEN stood ELSE stood \cup {o}
    /\ UNCHANGED <<disk, mem, copied, s>> /\ Nothing

\* Time passes.
Ages(kind) ==
    /\ disk.open[kind] # None /\ kind \notin old
    /\ old' = old \cup {kind}
    /\ UNCHANGED <<disk, mem, runtime, s, drawn, given, faults, hands>>

Hand == hands < MaxHands /\ hands' = hands + 1 /\ UNCHANGED <<disk, mem, s, drawn, given, old, faults>>

\* The operator removes an object, or another holds the volume's name first.
HandRemoves ==
    /\ Hand
    /\ \/ \E n \in Nonces : net[n] > 0 /\ net' = [net EXCEPT ![n] = @ - 1] /\ UNCHANGED <<vol, probes>>
       \/ vol # NoVol /\ vol' = NoVol /\ UNCHANGED <<net, probes>>
       \/ vol = NoVol /\ vol' = Bare /\ UNCHANGED <<net, probes>>
       \/ \E n \in probes : probes' = probes \ {n} /\ UNCHANGED <<net, vol>>
    /\ UNCHANGED <<copied, flight, stood>>

\* Another installation's network carries the labels it saw on ours.
Copies ==
    /\ Hand
    /\ \/ copied' = None /\ copied # None
       \/ \E n \in Nonces : net[n] > 0 /\ copied' = n /\ copied # n
    /\ UNCHANGED <<net, vol, probes, flight, stood>>

-----------------------------------------------------------------------------
(* The specification.                                                       *)

VerbStep ==
    \/ \E n \in Nonces : Cleanup(n)
    \/ Gate
    \/ AdoptNetwork \/ OpenNetwork \/ NetworkCreate \/ ConfirmNetwork \/ ReconcileNetwork
    \/ KeepVolume \/ OpenVolume \/ ReconcileVolume \/ VolumeCreate \/ ConfirmVolume
    \/ OpenProbe \/ HelperRun \/ Reap \/ AdoptDisk \/ Finish
    \/ Exhausted \/ Abandon

World ==
    \/ \E o \in Object : Lands(o)
    \/ \E kind \in Kinds : Ages(kind)
    \/ HandRemoves \/ Copies

Next ==
    \/ InstallBegin
    \/ \E kind \in Kinds : AbandonBegin(kind)
    \/ VerbStep
    \/ HelperLost \/ ReapFails \/ AnswerLost \/ Dies
    \/ World

Spec == Init /\ [][Next]_vars

\* A verb that runs goes on, time passes, and the operator re-runs the install
\* and, where it is offered, gives the intent up.
FairSpec ==
    /\ Spec /\ WF_vars(VerbStep) /\ SF_vars(InstallBegin)
    /\ \A kind \in Kinds : WF_vars(Ages(kind)) /\ SF_vars(AbandonBegin(kind))

-----------------------------------------------------------------------------
(* Properties.                                                              *)

TypeOK ==
    /\ disk \in Ledgers /\ mem \in Ledgers /\ s \in Sessions
    /\ net \in [Nonces -> 0 .. 1] /\ vol \in Vols /\ probes \subseteq Nonces
    /\ copied \in Nonces \cup {None} /\ flight \subseteq Object /\ drawn \in Nonces \cup {None}
    /\ stood \subseteq Object /\ given \subseteq Object /\ old \subseteq Kinds
    /\ faults \in 0 .. MaxFaults /\ hands \in 0 .. MaxHands

\* Every object of ours that stands, or that the runtime may yet create, is
\* described by the ledger file, by its record or by an open intent, unless
\* its intent was given up before it stood: whatever died in between, and
\* though the session and the probe write the same file.
WrittenAhead ==
    \A o \in Standing \cup flight :
        Describes(disk, o) \/ o \in given

\* A network is never created twice under one intent, however often its answer
\* is lost and the verb is run again.
NetworkOnce ==
    \A n \in Nonces :
        net[n] + Cardinality({<<"network", n>>} \cap flight) <= 1

\* What the ledger records as ours has stood with our label and that nonce: a
\* name another holds is never recorded, though the create of it succeeds.
RecordedStood ==
    \A kind \in Kinds : disk.rec[kind] # None => <<kind, disk.rec[kind]>> \in stood

\* An intent is given up only while nothing of ours carries its nonce, and
\* never for an object that already stood when the operator confirmed.
GivenUpAbsent ==
    [][\A o \in given' \ given : o \notin Standing]_vars

\* Every open intent is settled, confirmed or given up, unless the verbs stop
\* and send the operator elsewhere: an object of ours nothing accounts for, a
\* recorded network that is gone, another's copy of the nonce.
Stopped ==
    \/ Unaccounted(disk) # {} \/ copied # None
    \/ disk.rec["network"] # None /\ net[disk.rec["network"]] = 0
IntentSettles ==
    \A kind \in Kinds :
        disk.open[kind] # None ~> disk.open[kind] = None \/ Stopped

-----------------------------------------------------------------------------
(* The inductive invariant behind the safety properties above.              *)

\* What a verb has established by the time it stands at a step: its copy is
\* the file wherever it writes the file next, the intent it acts under is the
\* open one, and what it is about to create has never been asked for.
SessionInv ==
    /\ s.pc \in {"network", "netcreate", "netask", "volume", "volcreate", "volask",
                 "probe", "finish", "abandon"} => mem = disk
    /\ s.pc \in {"netcreate", "netask"} => s.kind = "network"
    /\ s.pc \in {"volcreate", "volask"} => s.kind = "volume"
    /\ s.pc \in {"netcreate", "netask", "volcreate", "volask"}
          => s.nonce # None /\ s.nonce = disk.open[s.kind]
    /\ At("netcreate") => /\ s.nonce <= drawn /\ net[s.nonce] = 0
                          /\ <<"network", s.nonce>> \notin flight
    /\ At("netask") => <<"network", s.nonce>> \in stood
    /\ At("run") => /\ s.nonce \in disk.probe /\ s.nonce <= drawn
                    /\ s.nonce \notin probes /\ <<"probe", s.nonce>> \notin flight
    /\ At("reap") => s.nonce # None
    /\ At("abandon") => s.kind \in Kinds

\* A nonce that was not drawn names nothing; one that was names one network or
\* one probe, that stands or is still to come.
NonceInv ==
    /\ \A n \in Nonces : n > drawn => net[n] = 0 /\ n \notin probes
    /\ \A n \in Nonces : n > drawn => <<"network", n>> \notin flight /\ <<"probe", n>> \notin flight
    /\ \A n \in Nonces : <<"network", n>> \in flight => net[n] = 0
    /\ \A n \in Nonces : <<"probe", n>> \in flight => n \notin probes
    /\ \A n \in Nonces : net[n] > 0 => <<"network", n>> \in stood

\* Only a volume of ours carries a nonce, and it has stood.
VolumeInv ==
    IF vol.owner = "us" THEN vol.nonce # None /\ <<"volume", vol.nonce>> \in stood
                        ELSE vol.nonce = None

\* An object is recorded or expected, never both.
EitherInv == \A kind \in Kinds : disk.rec[kind] = None \/ disk.open[kind] = None

IInv ==
    /\ TypeOK /\ SessionInv /\ NonceInv /\ VolumeInv /\ EitherInv
    /\ WrittenAhead /\ RecordedStood
=============================================================================
