-------------------------------- MODULE Repair --------------------------------
(***************************************************************************)
(* 'state repair' (internal/verbs/repair.go): a ledger is emptied and      *)
(* rebuilt from what the container runtime holds under one installation    *)
(* label, one question at a time, beside the two verbs that act on what it *)
(* leaves: an install, behind the unaccounted-object gate, and the resumed *)
(* network migration.  Any question may go unanswered, the process may die *)
(* at any step, and the operator's hand removes, moves and relabels        *)
(* objects, edits the configuration and damages the file meanwhile.        *)
(***************************************************************************)
EXTENDS Integers, FiniteSets

CONSTANTS
    Containers,  \* the product containers
    Volumes,     \* the product volumes
    OpNets,      \* networks of the operator
    Own,         \* the installer's own network
    NoNet,
    MaxIdents,   \* installation identities minted, the first one included
    MaxFaults,   \* deaths, and questions the runtime does not answer
    MaxHands     \* acts of the operator's hand

ASSUME RepairConstants ==
    /\ NoNet \notin OpNets \cup {Own} /\ Own \notin OpNets
    /\ Own \notin Volumes \cup Containers /\ Volumes \cap Containers = {}
    /\ IsFiniteSet(OpNets)
    /\ MaxIdents \in Nat \ {0} /\ MaxFaults \in Nat /\ MaxHands \in Nat

VARIABLES
    file,     \* what stands at .state/ledger
    obj,      \* the labelled objects of the container runtime
    nets,     \* the networks each container is attached to
    running,  \* the containers that run
    conf,     \* the network MYTHICAL_NET resolves to, NoNet when it is unset
    minted,   \* the last identity minted
    s,        \* the repair session
    proven,   \* containers whose alias was verified live since the last reset
    stirred,  \* objects the hand touched since the last repair began
    faults, hands

vars == <<file, obj, nets, running, conf, minted, s, proven, stirred, faults, hands>>
world    == <<obj, nets, running, conf>>
counters == <<faults, hands>>

-----------------------------------------------------------------------------
(* Data.                                                                    *)

NoIdent == 0
Rival   == -1
Idents  == 1 .. MaxIdents
NetIds  == OpNets \cup {Own}
Objects == {Own} \cup Volumes \cup Containers
NoNonce == 0
Nonces  == 1 .. 2
NoMig   == [src |-> NoNet, tgt |-> NoNet, who |-> {}]

Labels == [id : Idents \cup {Rival, NoIdent}, nonce : Nonces \cup {NoNonce}]
Gone   == [id |-> NoIdent, nonce |-> NoNonce]
Stands(o)   == obj[o] # Gone
Labelled(i) == {o \in Objects : obj[o].id = i}

\* anchor: the trust-anchor rows; only a single one is usable.
Ledgers == [ident : Idents \cup {NoIdent}, anchor : {"none", "one", "many"},
            rec : [Objects -> Nonces \cup {NoNonce}],
            want : [Containers -> {"unset", "running", "stopped"}],
            owes : [Containers -> NetIds \cup {NoNet}],
            ref : NetIds \cup {NoNet},
            mig : [src : NetIds \cup {NoNet}, tgt : NetIds \cup {NoNet},
                   who : SUBSET Containers]]
Blank == [ident |-> NoIdent, anchor |-> "none", rec |-> [o \in Objects |-> NoNonce],
          want |-> [c \in Containers |-> "unset"], owes |-> [c \in Containers |-> NoNet],
          ref |-> NoNet, mig |-> NoMig]

\* A newer ledger's checksum may disagree as well: an operator who arrives
\* here has usually disturbed the file.
Files     == [form : {"good", "absent", "corrupt", "newer"}, led : Ledgers]
Good(l)   == [form |-> "good", led |-> l]
Bad(form) == [form |-> form, led |-> Blank]

\* choice is NoIdent for --reinitialize; half is the container whose record the
\* session holds and whose state is still to be asked for.
Sessions == [pc : {"idle", "reset", "write", "anchor", "identify", "rebuild",
                   "netref", "verify"},
             choice : Idents \cup {NoIdent}, class : 0 .. 3,
             todo : SUBSET Objects, half : SUBSET Containers, kept : {"none", "one"},
             led : Ledgers]
Idle  == [pc |-> "idle", choice |-> NoIdent, class |-> 0, todo |-> {}, half |-> {},
          kept |-> "none", led |-> Blank]
At(pc) == s.pc = pc
End    == s' = Idle

\* Networks, then volumes, then containers.
ClassOf == <<{Own}, Volumes, Containers>>

\* UnaccountedScan: every object of this identity is recorded by its nonce.  A
\* ledger that carries no identity is first use, and nothing is looked at.
Accounted(l) == l.ident # NoIdent => \A o \in Labelled(l.ident) : l.rec[o] = obj[o].nonce

Complete(i) == [Blank EXCEPT !.ident = i, !.anchor = "one",
                             !.rec = [o \in Objects |-> obj[o].nonce],
                             !.want = [c \in Containers |-> "running"]]

\* An installation whose fleet is on one network, its own or the operator's,
\* where the ledger may since have been damaged and MYTHICAL_NET edited.
Init ==
    \E home \in NetIds, anchor \in {"one", "many"}, up \in SUBSET Containers :
        /\ obj = [o \in Objects |-> IF o = Own /\ home # Own THEN Gone
                                    ELSE [id |-> 1, nonce |-> 1]]
        /\ nets = [c \in Containers |-> {home}]
        /\ running = up
        /\ conf \in OpNets \cup {NoNet}
        /\ file \in {Bad(form) : form \in {"absent", "corrupt", "newer"}} \cup
              {Good([Complete(1) EXCEPT
                 !.anchor = anchor,
                 !.want = [c \in Containers |-> IF c \in up THEN "running" ELSE "stopped"],
                 !.ref = IF home = Own THEN NoNet ELSE home])}
        /\ minted = 1 /\ s = Idle
        /\ proven = Containers /\ stirred = {}
        /\ faults = 0 /\ hands = 0

-----------------------------------------------------------------------------
(* state repair.                                                            *)

Candidates == {obj[o].id : o \in Objects} \ {NoIdent}

\* The identities found, the operator's choice and the confirmation.  The
\* operator never chooses another user's identity.
RepairBegin(i) ==
    /\ At("idle")
    /\ IF i = NoIdent THEN Candidates = {} /\ minted < MaxIdents ELSE i \in Candidates
    /\ s' = [Idle EXCEPT !.pc = "reset", !.choice = i]
    /\ stirred' = {}
    /\ UNCHANGED <<file, world, minted, proven, counters>>

\* Mutant: corrupt content is not told from a read that failed.
ResetTimid ==
    /\ At("reset")
    /\ proven' = IF file.form = "good" THEN {} ELSE proven
    /\ \/ file.form \in {"newer", "corrupt"} /\ UNCHANGED file /\ End
       \/ /\ file.form \in {"good", "absent"}
          /\ file' = Good(Blank)
          /\ s' = [s EXCEPT !.pc = "anchor",
                            !.kept = IF file.led.anchor = "one" THEN "one" ELSE "none"]
    /\ UNCHANGED <<world, minted, stirred, counters>>

\* resetLedger: a newer ledger refuses, a corrupt one is renamed aside, and one
\* that reads is replaced by an empty one, its single usable anchor in hand.
Reset ==
    /\ At("reset")
    /\ proven' = IF file.form = "newer" THEN proven ELSE {}
    /\ \/ file.form = "newer" /\ UNCHANGED file /\ End
       \/ /\ file.form = "corrupt"
          /\ file' = Bad("absent")
          /\ s' = [s EXCEPT !.pc = "write"]
       \/ /\ file.form \in {"good", "absent"}
          /\ file' = Good(Blank)
          /\ s' = [s EXCEPT !.pc = "anchor",
                            !.kept = IF file.led.anchor = "one" THEN "one" ELSE "none"]
    /\ UNCHANGED <<world, minted, stirred, counters>>

\* The empty ledger in the place of the corrupt one.
WriteEmpty ==
    /\ At("write")
    /\ file' = Good(Blank)
    /\ s' = [s EXCEPT !.pc = "identify"]
    /\ UNCHANGED <<world, minted, proven, stirred, counters>>

\* Mutant: the session is not read again after the anchor's own writer.
KeepAnchorUnread ==
    /\ At("anchor")
    /\ file' = Good([file.led EXCEPT !.anchor = s.kept])
    /\ s' = [s EXCEPT !.pc = "identify"]
    /\ UNCHANGED <<world, minted, proven, stirred, counters>>

\* trust.AnchorSet, a write of its own, and the session's copy read back.
KeepAnchor ==
    /\ At("anchor")
    /\ file' = Good([file.led EXCEPT !.anchor = s.kept])
    /\ s' = [s EXCEPT !.pc = "identify", !.led = file'.led]
    /\ UNCHANGED <<world, minted, proven, stirred, counters>>

\* The identity chosen, or minted, is durable before any object is looked at.
Identify ==
    /\ At("identify")
    /\ LET i == IF s.choice = NoIdent THEN minted + 1 ELSE s.choice
           l == [s.led EXCEPT !.ident = i]
       IN  /\ file' = Good(l)
           /\ IF s.choice = NoIdent
              THEN minted' = i /\ End
              ELSE /\ s' = [s EXCEPT !.pc = "rebuild", !.class = 1, !.led = l,
                                     !.todo = {o \in ClassOf[1] : Stands(o)}]
                   /\ UNCHANGED minted
    /\ UNCHANGED <<world, proven, stirred, counters>>

\* repairStop: what was established so far is written, and the verb fails.
RepairStop == file' = Good(s.led) /\ End

\* Mutant: an unread attachment is taken for none.
RecoveredUnread(l, c) ==
    {[l EXCEPT !.want[c] = IF c \in running THEN "running" ELSE "stopped", !.owes[c] = n] :
        n \in nets[c] \cup {NoNet}}

\* recoverContainerState: desired from what is observed, and the alias owed on
\* the attachment the runtime lists first.
Recovered(l, c) ==
    LET wants == [l EXCEPT !.want[c] = IF c \in running THEN "running" ELSE "stopped"]
    IN  IF nets[c] = {} THEN {wants} ELSE {[wants EXCEPT !.owes[c] = n] : n \in nets[c]}

\* One object of the listing: gone or another identity's is passed over, one
\* without a nonce stops the repair, and the record of any other is in the
\* session's copy before a container's state is asked for.
RebuildOne(o) ==
    /\ At("rebuild") /\ o \in s.todo /\ s.half = {}
    /\ \/ /\ obj[o].id # s.choice
          /\ s' = [s EXCEPT !.todo = @ \ {o}]
          /\ UNCHANGED file
       \/ obj[o].id = s.choice /\ obj[o].nonce = NoNonce /\ RepairStop
       \/ /\ obj[o].id = s.choice /\ obj[o].nonce # NoNonce
          /\ s' = [s EXCEPT !.todo = @ \ {o}, !.led.rec[o] = obj[o].nonce,
                            !.half = {o} \cap Containers]
          /\ UNCHANGED file
    /\ UNCHANGED <<world, minted, proven, stirred, counters>>

\* The state of the container just recorded; one that is gone by now keeps its
\* record and has none.
RecoverState(c) ==
    /\ At("rebuild") /\ c \in s.half
    /\ \E l \in IF Stands(c) THEN Recovered(s.led, c) ELSE {s.led} :
          s' = [s EXCEPT !.half = @ \ {c}, !.led = l]
    /\ UNCHANGED <<file, world, minted, proven, stirred, counters>>

\* The listing of the next class, or the network reference.
NextClass ==
    /\ At("rebuild") /\ s.todo = {} /\ s.half = {}
    /\ s' = IF s.class = 3 THEN [s EXCEPT !.pc = "netref", !.class = 0]
            ELSE [s EXCEPT !.class = @ + 1,
                           !.todo = {o \in ClassOf[s.class + 1] : Stands(o)}]
    /\ UNCHANGED <<file, world, minted, proven, stirred, counters>>

\* Mutant: only the attachment the runtime lists first is looked at.
VotesFirst(c) == IF conf \in nets[c] THEN {} ELSE nets[c]

\* The networks a container is on besides the one that is configured.
Votes(c) == nets[c] \ {conf}

\* The fleet's answer to where it is: "split", "nowhere", "empty" or a network.
Fleet   == {c \in Containers : obj[c].id = s.choice}
Sources == UNION {Votes(c) : c \in Fleet}
Split   == Cardinality(Sources) > 1
Home    == \E c \in Fleet : nets[c] # {} /\ Votes(c) = {}

\* Mutant: the rebuild is left in memory until the verification is done.
RepairNetrefUnwritten(yes) ==
    /\ At("netref")
    /\ s' = [s EXCEPT !.pc = "verify", !.todo = {c \in Containers : s.led.rec[c] # NoNonce}]
    /\ UNCHANGED <<file, world, minted, proven, stirred, counters>>

\* repairNetref and the write that follows it, or the refusal.
RepairNetref(yes) ==
    /\ At("netref")
    /\ LET refuses == conf # NoNet /\ \/ Split
                                      \/ Sources = {} /\ ~Home /\ Fleet # {}
                                      \/ Sources # {} /\ ~yes
           l == IF conf = NoNet THEN s.led
                ELSE IF Sources = {} THEN [s.led EXCEPT !.ref = conf]
                ELSE LET src == CHOOSE n \in Sources : TRUE
                     IN  [s.led EXCEPT !.ref = src,
                                       !.mig = [src |-> src, tgt |-> conf, who |-> Fleet]]
       IN  \/ refuses /\ RepairStop
           \/ /\ ~refuses
              /\ file' = Good(l)
              /\ s' = [s EXCEPT !.pc = "verify", !.led = l,
                                !.todo = {c \in Containers : l.rec[c] # NoNonce}]
    /\ UNCHANGED <<world, minted, proven, stirred, counters>>

\* A question of the rebuild, or of the reference, that is not answered: what
\* is written may hold a container's record without its state.
Unanswered ==
    /\ At("rebuild") \/ At("netref")
    /\ faults < MaxFaults /\ faults' = faults + 1
    /\ RepairStop
    /\ UNCHANGED <<world, minted, proven, stirred, hands>>

\* A running container that owes its alias: the probe writes the ledger file
\* and the session adopts it; the check is cleared when the alias answers.
VerifyRunning(c) ==
    /\ At("verify") /\ c \in s.todo
    /\ \/ /\ c \in running /\ obj[c].id = s.choice
          /\ s.led.owes[c] \in nets[c]
          /\ LET l == [file.led EXCEPT !.owes[c] = NoNet]
             IN  file' = Good(l) /\ s' = [s EXCEPT !.todo = @ \ {c}, !.led = l]
          /\ proven' = proven \cup {c}
       \/ /\ s' = [s EXCEPT !.todo = @ \ {c}, !.led = file.led]
          /\ UNCHANGED <<file, proven>>
    /\ UNCHANGED <<world, minted, stirred, counters>>

RepairEnds ==
    /\ At("verify") /\ s.todo = {}
    /\ End
    /\ UNCHANGED <<file, world, minted, proven, stirred, counters>>

\* The process dies, or a write of the ledger fails and the verb with it.
Dies ==
    /\ ~At("idle") /\ faults < MaxFaults
    /\ faults' = faults + 1 /\ End
    /\ UNCHANGED <<file, world, minted, proven, stirred, hands>>

-----------------------------------------------------------------------------
(* The verbs that act on the ledger a repair left.                          *)

\* prov.FirstUse and the gate: a ledger that reads and accounts for every
\* object of its identity, or none beside no object at all.
Admitted == \/ file.form = "good" /\ Accounted(file.led)
            \/ file.form = "absent" /\ Candidates = {}

\* productCtx: the identity, minted when the ledger carries none.
Identity(i) == IF file.led.ident # NoIdent THEN i = file.led.ident
               ELSE i = minted + 1 /\ i <= MaxIdents

\* netref.Target: the network the family joins.
Joins(l, n, l2, own) ==
    \/ /\ conf = NoNet /\ l.ref = NoNet /\ n = Own
       /\ \/ l.rec[Own] # NoNonce /\ l2 = l /\ own = obj[Own]
             /\ own = [id |-> l.ident, nonce |-> l.rec[Own]]
          \/ l.rec[Own] = NoNonce /\ obj[Own] = Gone
             /\ l2 = [l EXCEPT !.rec[Own] = 1] /\ own = [id |-> l.ident, nonce |-> 1]
    \/ /\ conf # NoNet /\ n = conf /\ own = obj[Own]
       /\ \/ l.ref = conf /\ l2 = l
          \/ l.ref = NoNet /\ l.rec[Own] = NoNonce /\ l2 = [l EXCEPT !.ref = conf]

\* install: the identity is written, then the network, then the container is
\* created or replaced and verified; it may fail after either write.
Install(c) ==
    /\ At("idle") /\ Admitted
    /\ \E i \in Idents :
        LET l == [file.led EXCEPT !.ident = i] IN
        /\ Identity(i) /\ minted' = IF i > minted THEN i ELSE minted
        /\ \/ file' = Good(l) /\ UNCHANGED <<obj, nets, running, proven>>
           \/ \E n \in NetIds, own \in Labels :
              \E l2 \in {l, [l EXCEPT !.rec[Own] = 1], [l EXCEPT !.ref = conf]} :
                /\ Joins(l, n, l2, own)
                /\ \/ /\ file' = Good(l2) /\ obj' = [obj EXCEPT ![Own] = own]
                      /\ UNCHANGED <<nets, running, proven>>
                   \/ /\ obj[c] \in {Gone, [id |-> i, nonce |-> l2.rec[c]]}
                      /\ LET k == IF obj[c].nonce = 1 THEN 2 ELSE 1 IN
                         /\ obj' = [obj EXCEPT ![Own] = own, ![c] = [id |-> i, nonce |-> k]]
                         /\ file' = Good([l2 EXCEPT !.rec[c] = k, !.want[c] = "running",
                                                    !.owes[c] = NoNet])
                      /\ nets' = [nets EXCEPT ![c] = {n}]
                      /\ running' = running \cup {c} /\ proven' = proven \cup {c}
    /\ UNCHANGED <<conf, s, stirred, counters>>

\* netref.MigResume run to its end (NetRebind has its phases): every member is
\* proved on the target, and none owes a check on the source.
MigResume ==
    /\ At("idle") /\ file.form = "good" /\ file.led.mig # NoMig
    /\ LET m == file.led.mig IN
        /\ conf = m.tgt
        /\ \A c \in m.who : /\ file.led.rec[c] = obj[c].nonce /\ Stands(c)
                            /\ file.led.owes[c] # m.src
        /\ nets' = [c \in Containers |-> IF c \in m.who THEN {m.tgt} ELSE nets[c]]
        /\ file' = Good([file.led EXCEPT
              !.mig = NoMig, !.ref = m.tgt,
              !.owes = [c \in Containers |->
                           IF c \notin m.who THEN @[c]
                           ELSE IF c \in running THEN NoNet ELSE m.tgt]])
        /\ proven' = proven \cup (m.who \cap running)
    /\ UNCHANGED <<obj, running, conf, minted, s, stirred, counters>>

-----------------------------------------------------------------------------
(* The operator's hand and the world.                                       *)

Hand(o) == hands < MaxHands /\ hands' = hands + 1 /\ stirred' = stirred \cup o

HandRemoves(o) ==
    /\ Stands(o) /\ Hand({o})
    /\ o = Own => \A c \in Containers : Own \notin nets[c]
    /\ obj' = [obj EXCEPT ![o] = Gone]
    /\ IF o \in Containers THEN nets' = [nets EXCEPT ![o] = {}] /\ running' = running \ {o}
                           ELSE UNCHANGED <<nets, running>>
    /\ UNCHANGED <<file, conf, minted, s, proven, faults>>

\* An object appears: another user's, or one of ours nobody recorded, with its
\* nonce or without.
Appears(o, i) ==
    /\ ~Stands(o) /\ Hand({o})
    /\ \E k \in Nonces \cup {NoNonce} : obj' = [obj EXCEPT ![o] = [id |-> i, nonce |-> k]]
    /\ UNCHANGED <<file, nets, running, conf, minted, s, proven, faults>>

\* Connected or disconnected by hand; a check of the new place is the hand's.
HandMoves(c) ==
    /\ Stands(c) /\ Hand({c})
    /\ \E ns \in SUBSET NetIds : ns # nets[c] /\ nets' = [nets EXCEPT ![c] = ns]
    /\ proven' = proven \cup {c}
    /\ UNCHANGED <<file, obj, running, conf, minted, s, faults>>

HandFlips(c) ==
    /\ Stands(c) /\ Hand({c})
    /\ running' = IF c \in running THEN running \ {c} ELSE running \cup {c}
    /\ UNCHANGED <<file, obj, nets, conf, minted, s, proven, faults>>

\* The operator edits MYTHICAL_NET, or replaces the network behind its name.
Repoints ==
    /\ Hand({})
    /\ \E n \in OpNets \cup {NoNet} : n # conf /\ conf' = n
    /\ UNCHANGED <<file, obj, nets, running, minted, s, proven, faults>>

\* The file is lost, damaged, or replaced by one of a newer build.
Damages ==
    /\ At("idle") /\ file.form = "good" /\ Hand({})
    /\ \E form \in {"absent", "corrupt", "newer"} : file' = Bad(form)
    /\ UNCHANGED <<world, minted, s, proven, faults>>

-----------------------------------------------------------------------------
(* The specification.                                                       *)

SessionStep ==
    \/ Reset \/ WriteEmpty \/ KeepAnchor \/ Identify \/ NextClass
    \/ \E o \in Objects : RebuildOne(o)
    \/ \E c \in Containers : RecoverState(c)
    \/ RepairNetref(TRUE)
    \/ \E c \in Containers : VerifyRunning(c)
    \/ RepairEnds

Hands ==
    \/ \E o \in Objects : HandRemoves(o)
    \/ \E o \in Objects, i \in {1, Rival} : Appears(o, i)
    \/ \E c \in Containers : HandMoves(c) \/ HandFlips(c)
    \/ Repoints \/ Damages

Next ==
    \/ \E i \in Idents \cup {NoIdent} : RepairBegin(i)
    \/ SessionStep
    \/ RepairNetref(FALSE)
    \/ Unanswered \/ Dies
    \/ \E c \in Containers : Install(c)
    \/ MigResume
    \/ Hands

Spec == Init /\ [][Next]_vars

\* A command that runs goes on; the operator re-runs 'state repair <identity>'
\* as every refusal of it says.
FairSpec == Spec /\ WF_vars(SessionStep) /\ SF_vars(RepairBegin(1))

-----------------------------------------------------------------------------
(* Properties.                                                              *)

TypeOK ==
    /\ file \in Files /\ s \in Sessions
    /\ obj \in [Objects -> Labels] /\ nets \in [Containers -> SUBSET NetIds]
    /\ running \subseteq Containers /\ conf \in OpNets \cup {NoNet}
    /\ minted \in Idents /\ proven \subseteq Containers /\ stirred \subseteq Objects
    /\ faults \in 0 .. MaxFaults /\ hands \in 0 .. MaxHands

\* A ledger never records the desired state of an attached container without
\* the alias check that goes with it, unless the alias was verified live since
\* the ledger was last emptied: not though the attachments go unread, the
\* repair stops between a record and its state, or the verification is cut off.
NothingAssumedProven ==
    file.form = "good" =>
        \A c \in Containers :
            file.led.want[c] # "unset" /\ file.led.owes[c] = NoNet /\ nets[c] # {}
                => c \in proven

\* A repair that reports success left a record, with the right nonce, of every
\* object of the chosen identity that nobody touched meanwhile, and a desired
\* state for each container among them: the verification writes and adopts the
\* ledger file as it goes, and no record is left whose state was not read.
RebuildComplete ==
    [][RepairEnds =>
          \A o \in Labelled(s.choice) \ stirred :
             /\ file.led.rec[o] = obj[o].nonce
             /\ o \in Containers => file.led.want[o] # "unset"]_vars

\* What the comment on recoverContainerState says: every recovered container
\* owes its check.  The code does not keep it: a repair that stops on the state
\* of the container it has just recorded writes the record alone (repairStop).
EveryRecoveredOwes ==
    file.form = "good" =>
        \A c \in Containers :
            file.led.rec[c] # NoNonce /\ file.led.owes[c] = NoNet /\ nets[c] # {}
                => c \in proven

\* A newer build's ledger is never moved or replaced, though its checksum may
\* disagree, and a ledger goes missing at its path only as a corrupt one.
NewerUntouched ==
    [][~Hands => /\ file.form = "newer" => file' = file
                 /\ file'.form = "absent" => file.form \in {"absent", "corrupt"}]_vars

\* A repair that ends leaves the single usable trust anchor it found, though
\* another writer puts it back between two writes of the session's own copy.
AnchorSurvives ==
    [][RepairEnds /\ s.kept = "one" => file.led.anchor = "one"]_vars

\* The reference a repair records holds the fleet: clean, every attached
\* container is on that network alone; with a migration, every container of
\* the identity is a member, and on no network but the two it names.
ReferenceHoldsFleet ==
    [][At("netref") /\ s'.pc = "verify" /\ conf # NoNet =>
          LET l == file'.led IN
          \A c \in Labelled(s.choice) \cap Containers :
             IF l.mig = NoMig THEN nets[c] \subseteq {l.ref}
             ELSE c \in l.mig.who /\ nets[c] \subseteq {l.mig.src, l.mig.tgt}]_vars

\* An operator who re-runs the repair gets a ledger that accounts for every
\* object of the installation, and for the state of every container, whatever
\* was lost, damaged or left half done, unless the ledger is a newer build's, an
\* object carries no nonce, none carries the identity, or another was minted.
Whole(l)      == \A c \in Labelled(l.ident) \cap Containers : l.want[c] # "unset"
RerunRecovers ==
    TRUE ~> \/ file.form = "good" /\ file.led.ident = 1 /\ Accounted(file.led) /\ Whole(file.led)
            \/ file.form = "newer" \/ minted > 1 \/ Labelled(1) = {}
            \/ \E o \in Objects : obj[o] = [id |-> 1, nonce |-> NoNonce]

\* A ledger without an identity is first use, and nothing of this machine's can
\* exist: no install mints an identity while objects of an earlier one stand.
OneIdentity ==
    [][minted' > minted => \A i \in 1 .. minted : Labelled(i) = {}]_vars

\* The attached containers of the installation share a network, and no verb
\* puts one of them elsewhere: only a hand does.
Together == LET fleet == {c \in Containers : obj[c].id = 1 /\ nets[c] # {}}
            IN  \E n \in NetIds : \A c \in fleet : n \in nets[c]
NoVerbSplits == [][Together /\ hands' = hands => Together']_vars

-----------------------------------------------------------------------------
(* The inductive invariant behind the four safety properties.               *)

\* What a ledger, on disk or in the session, asserts of the checks and of a
\* move that is recorded.
Owed(l) ==
    \A c \in Containers :
        l.want[c] # "unset" /\ l.owes[c] = NoNet /\ nets[c] # {} => c \in proven
Sound(l) == Owed(l) /\ (l.mig # NoMig => l.mig.tgt # NoNet)

LedgerInv ==
    /\ Sound(file.led) /\ Sound(s.led)
    /\ file.form # "good" => file.led = Blank

\* What the session knows by its place.
Chosen == {"rebuild", "netref", "verify"}
SessionInv ==
    /\ s.pc \in Chosen => s.choice # NoIdent
    /\ s.pc \notin Chosen \cup {"idle"} /\ s.choice = NoIdent => minted < MaxIdents
    /\ ~At("verify") => s.led.mig = NoMig
    /\ s.pc \in {"idle", "reset", "write", "anchor"} => s.led = Blank
    /\ At("write") => file.form = "absent"
    /\ s.pc \in Chosen \cup {"anchor", "identify"} => file.form = "good"
    /\ At("anchor") => file.led = Blank
    /\ s.pc \in {"reset", "write"} => s.kept = "none"
    /\ s.pc \in Chosen \cup {"identify"} /\ s.kept = "one" => s.led.anchor = "one"
    /\ At("rebuild") => s.class \in 1 .. 3
    /\ s.half # {} => At("rebuild")
    /\ At("verify") => file.led = s.led

\* What the rebuild has been through is recorded, and a container's state with
\* it but for the one in hand, unless the operator's hand was there.
Rebuilt(o) ==
    o \notin stirred /\ obj[o].id = s.choice =>
        /\ s.led.rec[o] = obj[o].nonce
        /\ o \in Containers \ s.half => s.led.want[o] # "unset"
RebuildInv ==
    /\ At("rebuild") =>
         \A k \in 1 .. s.class : \A o \in ClassOf[k] :
            k < s.class \/ o \notin s.todo => Rebuilt(o)
    /\ \A c \in s.half : Rebuilt(c)
    /\ s.pc \in {"netref", "verify"} => \A o \in Objects : Rebuilt(o)

IInv == TypeOK /\ LedgerInv /\ SessionInv /\ RebuildInv
=============================================================================
