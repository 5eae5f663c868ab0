------------------------------ MODULE Lifecycle ------------------------------
(***************************************************************************)
(* The container lifecycle verbs of mythical-ctl: install, start, stop,    *)
(* restart, recreate, uninstall and uninstall --family.                    *)
(*                                                                         *)
(* Every verb runs as one SESSION under the family lock (verbs/ctx.go), so *)
(* there is one session variable.  A session is a sequence of daemon calls *)
(* and ledger writes; each is one step here, and between any two of them   *)
(* the process may die or give up (Abort), an outside actor may act on the *)
(* daemon, and a create whose answer was lost may still materialise.       *)
(*                                                                         *)
(* The ledger variables are the ledger ON DISK.  The code edits a ledger   *)
(* in memory and writes it in one atomic rename before the next daemon     *)
(* call that depends on the edit; an edit and its write are one step here. *)
(***************************************************************************)
EXTENDS Naturals, FiniteSets

CONSTANTS
    Products,       \* the products of the family
    NoProduct,      \* the product of a session that has none
    Verbs,          \* the verbs the operator may run in this instance
    MaxNonce,       \* bound: how many creation nonces are ever minted
    RivalRaces      \* may an outside actor take a derived name DURING a verb?

AllVerbs == {"install", "start", "stop", "restart", "recreate",
             "uninstall", "family"}
Creators == {"install", "recreate"}     \* the verbs that reach bringup.Run

ASSUME ProductsAssumption == NoProduct \notin Products
ASSUME VerbsAssumption    == Verbs \subseteq AllVerbs
ASSUME MaxNonceAssumption == MaxNonce \in Nat
ASSUME RivalAssumption    == RivalRaces \in BOOLEAN

Nonces  == 1 .. MaxNonce
NoNonce == 0

VARIABLES
    \* --- the ledger ---------------------------------------------------------
    ident,      \* is an installation identity recorded?
    intent,     \* nonce of the open creation intent of each product's container
    prov,       \* nonce of its provenance record
    tomb,       \* nonce its tombstone carries
    desired,    \* its desired state: "none" when nothing is recorded
    owed,       \* is the alias check outstanding?
    resumed,    \* is a resume attempt recorded?
    member,     \* the initialized-product set
    \* --- the daemon ---------------------------------------------------------
    box,        \* the container standing at each product's derived name
    inflight,   \* creates the daemon may still carry out: <<product, nonce>>
    \* --- the session --------------------------------------------------------
    sess,       \* the running verb and where it is
    out,        \* the exit code of the last verb: "none" while one runs
    nonces,     \* how many nonces were minted
    \* --- ghost: not in the code ----------------------------------------------
    lost        \* nonces whose intent a later intent replaced

ledgerVars == <<ident, intent, prov, tomb, desired, owed, resumed, member>>
daemonVars == <<box, inflight>>
vars == <<ledgerVars, daemonVars, sess, out, nonces, lost>>

(***************************************************************************)
(* A container at a derived name.  label is the installation label: "ours" *)
(* carries this installation's identity, "other" another's, "bare" none.   *)
(* net says its network set and alias are exactly what the product needs.  *)
(* unproved is a ghost: it was started by this tool and no live            *)
(* verification has succeeded since ("bringup": on a path that states an   *)
(* intent; "restore": by the undo of a failed replacement).                *)
(***************************************************************************)
NoBox == [st |-> "absent", label |-> "bare", nonce |-> NoNonce,
          net |-> FALSE, unproved |-> "no"]
Boxes == [st       : {"absent", "stopped", "running"},
          label    : {"ours", "other", "bare"},
          nonce    : Nonces \cup {NoNonce},
          net      : BOOLEAN,
          unproved : {"no", "bringup", "restore"}]
Built(n, net) == [st |-> "stopped", label |-> "ours", nonce |-> n,
                  net |-> net, unproved |-> "no"]
Rival(label)  == [NoBox EXCEPT !.st = "stopped", !.label = label]

Stands(p) == box[p].st # "absent"
Own(p)    == Stands(p) /\ box[p].label = "ours"

PCs == {"idle", "gate", "authority", "commit", "halt", "plan", "start",
        "verify", "member", "remove", "restore", "open", "create", "attach",
        "discard", "confirm", "forget", "family", "reset"}

Idle == [pc |-> "idle", verb |-> "none", p |-> NoProduct, nonce |-> NoNonce,
         todo |-> {}, done |-> {}, kept |-> FALSE]
Sessions == [pc : PCs, verb : AllVerbs \cup {"none"},
             p : Products \cup {NoProduct}, nonce : Nonces \cup {NoNonce},
             todo : SUBSET Products, done : SUBSET Products, kept : BOOLEAN]

At(pc)    == sess.pc = pc
Goto(pc)  == sess' = [sess EXCEPT !.pc = pc] /\ out' = out
Finish(o) == sess' = Idle /\ out' = o

-----------------------------------------------------------------------------
(* A daemon call is answered ("ok"), carried out with its answer lost, or    *)
(* refused.  The code cannot tell the last two apart.                       *)

Calls   == {"ok", "lost", "refused"}
Done(r) == r # "refused"

AfterStop(b, done) ==
    IF done /\ b.st = "running" THEN [b EXCEPT !.st = "stopped"] ELSE b

AfterStart(b, done, why) ==
    IF done /\ b.st = "stopped" THEN [b EXCEPT !.st = "running", !.unproved = why]
                                ELSE b

\* A stop whose status is ignored, then a forced removal.
AfterRemove(b, halted, done) == IF done THEN NoBox ELSE AfterStop(b, halted)

-----------------------------------------------------------------------------
(* Questions the verbs ask of the ledger and the daemon.                    *)

\* prov.Authority: may this installation act on what stands at the name?
Authority(p) ==
    IF ~Stands(p) THEN "gone"
    ELSE IF Own(p) /\ prov[p] # NoNonce /\ box[p].nonce = prov[p] THEN "ours"
    ELSE "refused"

\* bringup.provenOurs: is it the container THIS bring-up created?
ProvenOurs(p, n) == Own(p) /\ box[p].nonce = n

\* Did a removal that was answered r leave the name free for certain?
Gone(r) == r = "ok" \/ ~Stands(sess.p)

\* intent.classify: the two findings that stop a verb.
Unrecorded(p) == Own(p) /\ box[p].nonce \notin {prov[p], intent[p]}
Colliding(p)  == Stands(p) /\ box[p].label = "bare"
GateStops     == ident /\ \E p \in Products : Unrecorded(p) \/ Colliding(p)

\* state.PlanFor, for a container no storage migration governs: the verdict for
\* each desired state and each state the container is found in.
Verdicts(p) ==
    [none    |-> [absent |-> "none", stopped |-> "none", running |-> "none"],
     running |-> [absent  |-> "rebuild",
                  stopped |-> IF resumed[p] THEN "exited" ELSE "start-verify",
                  running |-> IF owed[p] THEN "verify" ELSE "none"],
     stopped |-> [absent  |-> "none",
                  stopped |-> IF owed[p] THEN "defer" ELSE "none",
                  running |-> "stop"]]
PlanFor(p) ==
    IF intent[p] # NoNonce THEN "suspended" ELSE Verdicts(p)[desired[p]][box[p].st]

\* state.Commit: record the intent, add the checks it owes, drop the attempt.
Commit(p, want, checks) ==
    /\ desired' = [desired EXCEPT ![p] = want]
    /\ owed'    = [owed EXCEPT ![p] = @ \/ checks]
    /\ resumed' = [resumed EXCEPT ![p] = FALSE]

\* state.Forget, over a set of products.
Forget(S) ==
    /\ desired' = [p \in Products |-> IF p \in S THEN "none" ELSE desired[p]]
    /\ owed'    = [p \in Products |-> owed[p] /\ p \notin S]
    /\ resumed' = [p \in Products |-> resumed[p] /\ p \notin S]

-----------------------------------------------------------------------------
Init ==
    /\ ident = FALSE
    /\ intent = [p \in Products |-> NoNonce]
    /\ prov = [p \in Products |-> NoNonce]
    /\ tomb = [p \in Products |-> NoNonce]
    /\ desired = [p \in Products |-> "none"]
    /\ owed = [p \in Products |-> FALSE]
    /\ resumed = [p \in Products |-> FALSE]
    /\ member = {}
    /\ box = [p \in Products |-> NoBox]
    /\ inflight = {}
    /\ sess = Idle
    /\ out = "none"
    /\ nonces = 0
    /\ lost = {}

-----------------------------------------------------------------------------
(* The session: one action per step of a verb.                              *)

\* The operator runs a verb: the lock is taken and the ledger read.
Begin(v, p) ==
    /\ At("idle")
    /\ v \in Creators => nonces < MaxNonce
    /\ sess' = [Idle EXCEPT !.pc = "gate", !.verb = v, !.p = p]
    /\ out' = "none"
    /\ UNCHANGED <<ledgerVars, daemonVars, nonces, lost>>

\* What each verb needs the ledger to say before it goes on.
Recorded(v, p) ==
    /\ v # "install" => ident
    /\ v \in {"start", "stop"} => prov[p] # NoNonce
    /\ v \in {"restart", "recreate"} => desired[p] # "none"

\* The unaccounted-object gate, or a verb that finds nothing installed.
GateRefuses ==
    /\ At("gate")
    /\ GateStops \/ ~Recorded(sess.verb, sess.p)
    /\ Finish("fail")
    /\ UNCHANGED <<ledgerVars, daemonVars, nonces, lost>>

\* install establishes the identity as soon as the gate lets it pass.
GatePasses ==
    /\ At("gate")
    /\ sess.verb # "family"
    /\ ~GateStops
    /\ Recorded(sess.verb, sess.p)
    /\ ident' = (ident \/ sess.verb = "install")
    /\ Goto("authority")
    /\ UNCHANGED <<intent, prov, tomb, desired, owed, resumed, member,
                   daemonVars, nonces, lost>>

\* uninstall --family lists the containers that have a provenance record.
FamilyListed ==
    /\ At("gate")
    /\ sess.verb = "family"
    /\ ~GateStops
    /\ Recorded(sess.verb, sess.p)
    /\ sess' = [sess EXCEPT !.pc = "family",
                            !.todo = {p \in Products : prov[p] # NoNonce}]
    /\ UNCHANGED <<ledgerVars, daemonVars, out, nonces, lost>>

\* start, stop and restart act on a container of ours or on none at all;
\* restart refuses a product the operator stopped.
VerbAuthority ==
    /\ At("authority")
    /\ sess.verb \in {"start", "stop", "restart"}
    /\ IF \/ Authority(sess.p) = "refused"
          \/ sess.verb = "restart" /\ desired[sess.p] = "stopped"
       THEN Finish("fail")
       ELSE Goto("commit")
    /\ UNCHANGED <<ledgerVars, daemonVars, nonces, lost>>

\* The intent is durable before the daemon is asked for anything.
StateIntent ==
    /\ At("commit")
    /\ IF sess.verb = "stop" THEN Commit(sess.p, "stopped", FALSE)
                             ELSE Commit(sess.p, "running", TRUE)
    /\ Goto(IF sess.verb = "start" THEN "plan" ELSE "halt")
    /\ UNCHANGED <<ident, intent, prov, tomb, member, daemonVars, nonces, lost>>

\* stop and restart stop the container; one that is not there is stopped.
Halt ==
    /\ At("halt")
    /\ \E r \in Calls :
          /\ box' = [box EXCEPT ![sess.p] = AfterStop(@, Done(r))]
          /\ IF r # "ok" /\ Stands(sess.p) THEN Finish("fail")
             ELSE IF sess.verb = "restart" THEN Goto("plan") ELSE Finish("ok")
    /\ UNCHANGED <<ledgerVars, inflight, nonces, lost>>

\* bringup.Reconcile acts on the plan.  start and restart have just recorded
\* "running", so the verdicts that serve a stopped product do not arise; and a
\* resume attempt is recorded before it is made.
Reconcile ==
    /\ At("plan")
    /\ LET plan == PlanFor(sess.p)
       IN \/ plan \in {"none", "suspended"} /\ Finish("ok") /\ resumed' = resumed
          \/ plan \in {"rebuild", "exited"} /\ Finish("fail") /\ resumed' = resumed
          \/ plan = "verify" /\ Goto("verify") /\ resumed' = resumed
          \/ plan = "start-verify" /\ Goto("start")
                                   /\ resumed' = [resumed EXCEPT ![sess.p] = TRUE]
    /\ UNCHANGED <<ident, intent, prov, tomb, desired, owed, member,
                   daemonVars, nonces, lost>>

\* Mutant of Start: a start the daemon accepted is success enough.
StartIsEvidence ==
    /\ At("start")
    /\ \E r \in Calls :
          /\ box' = [box EXCEPT ![sess.p] = AfterStart(@, Done(r), "bringup")]
          /\ Finish(IF r = "ok" /\ Stands(sess.p) THEN "ok" ELSE "fail")
    /\ UNCHANGED <<ledgerVars, inflight, nonces, lost>>

\* ContainerStart, on the path that resumes and on the path that creates.
Start ==
    /\ At("start")
    /\ \E r \in Calls :
          /\ box' = [box EXCEPT ![sess.p] = AfterStart(@, Done(r), "bringup")]
          /\ IF r = "ok" /\ Stands(sess.p) THEN Goto("verify") ELSE Finish("fail")
    /\ UNCHANGED <<ledgerVars, inflight, nonces, lost>>

\* Mutant of VerifyLive: a probe that did not run retires the check.
VerifyLiveFoldsVerdicts ==
    /\ At("verify")
    /\ owed' = [owed EXCEPT ![sess.p] = FALSE]
    /\ resumed' = [resumed EXCEPT ![sess.p] = FALSE]
    /\ Finish("fail")
    /\ UNCHANGED <<ident, intent, prov, tomb, desired, member, daemonVars, nonces, lost>>

\* VerifyLive: the exact network set, an address, the probe's self-check and
\* the alias resolving to that address.  The probe may find the alias broken
\* or not run at all; either way the check stays outstanding.
VerifyLive ==
    /\ At("verify")
    /\ LET p == sess.p
       IN \/ /\ box[p].st = "running" /\ box[p].net
             /\ box' = [box EXCEPT ![p].unproved = "no"]
             /\ owed' = [owed EXCEPT ![p] = FALSE]
             /\ resumed' = [resumed EXCEPT ![p] = FALSE]
             /\ IF sess.verb = "install" THEN Goto("member") ELSE Finish("ok")
          \/ Finish("fail") /\ UNCHANGED <<box, owed, resumed>>
    /\ UNCHANGED <<ident, intent, prov, tomb, desired, member, inflight, nonces, lost>>

\* It verified, and the process died or the write failed before that was durable.
VerifyUnsaved ==
    /\ At("verify")
    /\ box[sess.p].st = "running" /\ box[sess.p].net
    /\ box' = [box EXCEPT ![sess.p].unproved = "no"]
    /\ Finish("fail")
    /\ UNCHANGED <<ledgerVars, inflight, nonces, lost>>

\* install records the membership last, after the bring-up was persisted.
RecordMember ==
    /\ At("member")
    /\ member' = member \cup {sess.p}
    /\ Finish("ok")
    /\ UNCHANGED <<ident, intent, prov, tomb, desired, owed, resumed,
                   daemonVars, nonces, lost>>

-----------------------------------------------------------------------------
(* install and recreate: replace the container, then bring one up.          *)

\* Mutant of ReplaceAuthority: "about to replace it" is taken as an exemption.
ReplaceUnproven ==
    /\ At("authority")
    /\ sess.verb \in Creators
    /\ Goto(IF Stands(sess.p) THEN "remove" ELSE "open")
    /\ UNCHANGED <<ledgerVars, daemonVars, nonces, lost>>

\* replaceContainer: only a container proven ours is removed; nothing on
\* record, or nothing standing, leaves the name to the create.
ReplaceAuthority ==
    /\ At("authority")
    /\ sess.verb \in Creators
    /\ \/ (prov[sess.p] = NoNonce \/ Authority(sess.p) = "gone") /\ Goto("open")
       \/ prov[sess.p] # NoNonce /\ Authority(sess.p) = "ours" /\ Goto("remove")
       \/ prov[sess.p] # NoNonce /\ Authority(sess.p) = "refused" /\ Finish("fail")
    /\ UNCHANGED <<ledgerVars, daemonVars, nonces, lost>>

ReplaceRemove ==
    /\ At("remove")
    /\ sess.verb \in Creators
    /\ \E halted \in BOOLEAN, r \in Calls :
          /\ box' = [box EXCEPT ![sess.p] = AfterRemove(@, halted, Done(r))]
          /\ Goto(IF Gone(r) THEN "open" ELSE "restore")
    /\ UNCHANGED <<ledgerVars, inflight, nonces, lost>>

\* The removal failed: the container is started again, best effort.
Restore ==
    /\ At("restore")
    /\ \E r \in Calls :
          box' = [box EXCEPT ![sess.p] = AfterStart(@, Done(r), "restore")]
    /\ Finish("fail")
    /\ UNCHANGED <<ledgerVars, inflight, nonces, lost>>

\* bringup.Create: the intent, under a fresh nonce, before the container.  The
\* put is keyed by the name, so an intent still open there is replaced.
OpenIntent ==
    /\ At("open")
    /\ nonces' = nonces + 1
    /\ intent' = [intent EXCEPT ![sess.p] = nonces']
    /\ lost' = lost \cup ({intent[sess.p]} \ {NoNonce})
    /\ sess' = [sess EXCEPT !.pc = "create", !.nonce = nonces']
    /\ UNCHANGED <<ident, prov, tomb, desired, owed, resumed, member,
                   daemonVars, out>>

\* The daemon refuses an occupied name.  Otherwise it builds the container,
\* refuses, or its answer is lost and it may build the container later.
LaunchAnswered(net) ==
    /\ At("create")
    /\ ~Stands(sess.p)
    /\ box' = [box EXCEPT ![sess.p] = Built(sess.nonce, net)]
    /\ Goto("attach")
    /\ UNCHANGED <<ledgerVars, inflight, nonces, lost>>

LaunchRefused ==
    /\ At("create")
    /\ Finish("fail")
    /\ UNCHANGED <<ledgerVars, daemonVars, nonces, lost>>

LaunchLost ==
    /\ At("create")
    /\ inflight' = inflight \cup {<<sess.p, sess.nonce>>}
    /\ Finish("fail")
    /\ UNCHANGED <<ledgerVars, box, nonces, lost>>

\* VerifyAttach: a container that does not verify, or cannot be asked, goes.
VerifyAttach ==
    /\ At("attach")
    /\ \/ Stands(sess.p) /\ box[sess.p].net /\ Goto("confirm")
       \/ Goto("discard")
    /\ UNCHANGED <<ledgerVars, daemonVars, nonces, lost>>

\* Mutant of DiscardRemoved: the intent is dropped whatever the removal says.
DiscardForgets ==
    /\ At("discard")
    /\ ProvenOurs(sess.p, sess.nonce)
    /\ \E r \in Calls : box' = [box EXCEPT ![sess.p] = AfterRemove(@, FALSE, Done(r))]
    /\ intent' = [intent EXCEPT ![sess.p] = NoNonce]
    /\ Finish("fail")
    /\ UNCHANGED <<ident, prov, tomb, desired, owed, resumed, member, inflight, nonces, lost>>

\* It is removed only if it is proven to be what this bring-up created, and the
\* intent is kept whatever the removal answers.
DiscardLeft ==
    /\ At("discard")
    /\ ~ProvenOurs(sess.p, sess.nonce)
    /\ Finish("fail")
    /\ UNCHANGED <<ledgerVars, daemonVars, nonces, lost>>

DiscardRemoved ==
    /\ At("discard")
    /\ ProvenOurs(sess.p, sess.nonce)
    /\ \E r \in Calls : box' = [box EXCEPT ![sess.p] = AfterRemove(@, FALSE, Done(r))]
    /\ Finish("fail")
    /\ UNCHANGED <<ledgerVars, inflight, nonces, lost>>

ConfirmRefused ==
    /\ At("confirm")
    /\ ~ProvenOurs(sess.p, sess.nonce)
    /\ Finish("fail")
    /\ UNCHANGED <<ledgerVars, daemonVars, nonces, lost>>

\* Mutant of Confirm: every bring-up goes on to start, a stopped one too.
ConfirmStartsAll ==
    /\ At("confirm")
    /\ ProvenOurs(sess.p, sess.nonce)
    /\ Commit(sess.p, IF sess.verb = "install" THEN "running" ELSE desired[sess.p], TRUE)
    /\ Goto("start")
    /\ prov' = [prov EXCEPT ![sess.p] = sess.nonce]
    /\ tomb' = [tomb EXCEPT ![sess.p] = NoNonce]
    /\ intent' = [intent EXCEPT ![sess.p] = NoNonce]
    /\ UNCHANGED <<ident, member, daemonVars, nonces, lost>>

\* The desired state and the provenance record are one transaction: Commit and
\* intent.Confirm on one clone.  recreate preserves the recorded desired state.
Confirm ==
    /\ At("confirm")
    /\ ProvenOurs(sess.p, sess.nonce)
    /\ intent[sess.p] = sess.nonce
    /\ LET want == IF sess.verb = "install" THEN "running" ELSE desired[sess.p]
       IN /\ Commit(sess.p, want, TRUE)
          /\ IF want = "running" THEN Goto("start") ELSE Finish("ok")
    /\ prov' = [prov EXCEPT ![sess.p] = sess.nonce]
    /\ tomb' = [tomb EXCEPT ![sess.p] = NoNonce]
    /\ intent' = [intent EXCEPT ![sess.p] = NoNonce]
    /\ UNCHANGED <<ident, member, daemonVars, nonces, lost>>

-----------------------------------------------------------------------------
(* uninstall, of one product and of the family.                             *)

\* A container not proven ours is preserved, and the verb reports a failure.
UninstallAuthority ==
    /\ At("authority")
    /\ sess.verb = "uninstall"
    /\ \/ Authority(sess.p) = "ours" /\ Goto("remove")
       \/ Authority(sess.p) = "gone" /\ Goto("forget")
       \/ Authority(sess.p) = "refused" /\ Finish("fail")
    /\ UNCHANGED <<ledgerVars, daemonVars, nonces, lost>>

\* Mutant of UninstallRemove: the removal's answer is discarded.
UninstallUnchecked ==
    /\ At("remove")
    /\ sess.verb = "uninstall"
    /\ \E halted \in BOOLEAN, r \in Calls :
          box' = [box EXCEPT ![sess.p] = AfterRemove(@, halted, Done(r))]
    /\ Goto("forget")
    /\ UNCHANGED <<ledgerVars, inflight, nonces, lost>>

UninstallRemove ==
    /\ At("remove")
    /\ sess.verb = "uninstall"
    /\ \E halted \in BOOLEAN, r \in Calls :
          /\ box' = [box EXCEPT ![sess.p] = AfterRemove(@, halted, Done(r))]
          /\ IF Gone(r) THEN Goto("forget") ELSE Finish("fail")
    /\ UNCHANGED <<ledgerVars, inflight, nonces, lost>>

\* The record becomes a tombstone and the state is forgotten, written after the
\* volumes were seen to: one of those may have failed.
Forgotten ==
    /\ At("forget")
    /\ tomb' = [tomb EXCEPT ![sess.p] = IF prov[sess.p] # NoNonce THEN prov[sess.p] ELSE @]
    /\ prov' = [prov EXCEPT ![sess.p] = NoNonce]
    /\ Forget({sess.p})
    /\ \E o \in {"ok", "fail"} : Finish(o)
    /\ UNCHANGED <<ident, intent, member, daemonVars, nonces, lost>>

\* The family loop takes the next recorded container.
FamilyNext(p) ==
    /\ At("family")
    /\ p \in sess.todo
    /\ sess' = [sess EXCEPT !.pc = "authority", !.p = p, !.todo = @ \ {p}]
    /\ UNCHANGED <<ledgerVars, daemonVars, out, nonces, lost>>

FamilyAuthority ==
    /\ At("authority")
    /\ sess.verb = "family"
    /\ \/ /\ Authority(sess.p) = "ours"
          /\ sess' = [sess EXCEPT !.pc = "remove"]
       \/ /\ Authority(sess.p) = "gone"
          /\ sess' = [sess EXCEPT !.pc = "family", !.done = @ \cup {sess.p}]
       \/ /\ Authority(sess.p) = "refused"
          /\ sess' = [sess EXCEPT !.pc = "family", !.kept = TRUE]
    /\ UNCHANGED <<ledgerVars, daemonVars, out, nonces, lost>>

\* Mutant of FamilyRemove: state is forgotten for a container that was preserved.
FamilyForgetsKept ==
    /\ At("remove")
    /\ sess.verb = "family"
    /\ \E halted \in BOOLEAN, r \in Calls :
          /\ box' = [box EXCEPT ![sess.p] = AfterRemove(@, halted, Done(r))]
          /\ sess' = [sess EXCEPT !.pc = "family", !.done = @ \cup {sess.p},
                                  !.kept = @ \/ ~Gone(r)]
    /\ UNCHANGED <<ledgerVars, inflight, out, nonces, lost>>

FamilyRemove ==
    /\ At("remove")
    /\ sess.verb = "family"
    /\ \E halted \in BOOLEAN, r \in Calls :
          /\ box' = [box EXCEPT ![sess.p] = AfterRemove(@, halted, Done(r))]
          /\ sess' = IF Gone(r)
                     THEN [sess EXCEPT !.pc = "family", !.done = @ \cup {sess.p}]
                     ELSE [sess EXCEPT !.pc = "family", !.kept = TRUE]
    /\ UNCHANGED <<ledgerVars, inflight, out, nonces, lost>>

\* The loop ends: what was forgotten is written, and the ledger is reset only
\* if nothing was preserved, a volume or a network included.
FamilyWritten ==
    /\ At("family")
    /\ sess.todo = {}
    /\ Forget(sess.done)
    /\ \/ ~sess.kept /\ Goto("reset")
       \/ Finish("fail")
    /\ UNCHANGED <<ident, intent, prov, tomb, member, daemonVars, nonces, lost>>

\* An empty ledger is written.  The next identity derives other names, so what
\* still stands at the old ones is no longer at any name of ours.
LedgerReset ==
    /\ At("reset")
    /\ ident' = FALSE
    /\ intent' = [p \in Products |-> NoNonce]
    /\ prov' = [p \in Products |-> NoNonce]
    /\ tomb' = [p \in Products |-> NoNonce]
    /\ Forget(Products)
    /\ member' = {}
    /\ box' = [p \in Products |-> NoBox]
    /\ inflight' = {}
    /\ Finish("ok")
    /\ UNCHANGED <<nonces, lost>>

\* The process dies, or a step that changed nothing reports an error: the lock
\* goes with the process and whatever was done so far stands.
Abort ==
    /\ ~At("idle")
    /\ Finish("fail")
    /\ UNCHANGED <<ledgerVars, daemonVars, nonces, lost>>

-----------------------------------------------------------------------------
(* Everyone else.  None of these steps changes the session.                 *)

\* A create whose answer was lost is carried out after all, or never was.
Materialise(p, n, net) ==
    /\ <<p, n>> \in inflight
    /\ ~Stands(p)
    /\ box' = [box EXCEPT ![p] = Built(n, net)]
    /\ inflight' = inflight \ {<<p, n>>}
    /\ UNCHANGED <<ledgerVars, sess, out, nonces, lost>>

NeverReached(p, n) ==
    /\ <<p, n>> \in inflight
    /\ inflight' = inflight \ {<<p, n>>}
    /\ UNCHANGED <<ledgerVars, box, sess, out, nonces, lost>>

Becomes(p, b) ==
    /\ box' = [box EXCEPT ![p] = b]
    /\ UNCHANGED <<ledgerVars, inflight, sess, out, nonces, lost>>

\* The container exits, or is stopped behind the tool's back.
Exits(p) == box[p].st = "running" /\ Becomes(p, [box[p] EXCEPT !.st = "stopped"])

\* It loses its alias, or a network is added to it or taken away.
Detached(p) == Stands(p) /\ box[p].net /\ Becomes(p, [box[p] EXCEPT !.net = FALSE])

\* It is removed with the runtime directly, as the gate's messages advise.
Removed(p) == Stands(p) /\ Becomes(p, NoBox)

\* Another installation or an unlabelled container takes the name.
Taken(p, label) ==
    /\ ident
    /\ RivalRaces \/ At("idle")
    /\ ~Stands(p)
    /\ Becomes(p, Rival(label))

-----------------------------------------------------------------------------
SessionStep ==
    \/ GateRefuses \/ GatePasses \/ FamilyListed
    \/ VerbAuthority \/ StateIntent \/ Halt \/ Reconcile \/ Start
    \/ VerifyLive \/ VerifyUnsaved \/ RecordMember
    \/ ReplaceAuthority \/ ReplaceRemove \/ Restore \/ OpenIntent
    \/ (\E net \in BOOLEAN : LaunchAnswered(net)) \/ LaunchRefused \/ LaunchLost
    \/ VerifyAttach \/ DiscardLeft \/ DiscardRemoved \/ ConfirmRefused \/ Confirm
    \/ UninstallAuthority \/ UninstallRemove \/ Forgotten
    \/ (\E p \in Products : FamilyNext(p)) \/ FamilyAuthority \/ FamilyRemove
    \/ FamilyWritten \/ LedgerReset

Operator == \E v \in Verbs, p \in Products : Begin(v, p)

Outside ==
    \E p \in Products :
        \/ \E n \in Nonces, net \in BOOLEAN : Materialise(p, n, net)
        \/ \E n \in Nonces : NeverReached(p, n)
        \/ Exits(p) \/ Detached(p) \/ Removed(p)
        \/ \E label \in {"other", "bare"} : Taken(p, label)

Next == SessionStep \/ Operator \/ Abort \/ Outside

\* A verb that is running goes on running: the only fairness a single process
\* gives.  Nobody has to run a verb, and no outside actor has to act.
Spec == Init /\ [][Next]_vars /\ WF_vars(SessionStep)

-----------------------------------------------------------------------------
TypeOK ==
    /\ ident \in BOOLEAN
    /\ intent \in [Products -> Nonces \cup {NoNonce}]
    /\ prov \in [Products -> Nonces \cup {NoNonce}]
    /\ tomb \in [Products -> Nonces \cup {NoNonce}]
    /\ desired \in [Products -> {"none", "running", "stopped"}]
    /\ owed \in [Products -> BOOLEAN]
    /\ resumed \in [Products -> BOOLEAN]
    /\ member \subseteq Products
    /\ box \in [Products -> Boxes]
    /\ inflight \subseteq Products \X Nonces
    /\ sess \in Sessions
    /\ out \in {"none", "ok", "fail"}
    /\ nonces \in 0 .. MaxNonce
    /\ lost \subseteq Nonces

\* A container carrying this installation's label is described by its record or
\* by the open intent; the one way out of both is an intent that a later
\* bring-up replaced while its create was still unaccounted for
\* (bringup.go:251-255).  No confirm, uninstall or removal loses one.
OwnAccounted ==
    \A p \in Products :
        Own(p) => box[p].nonce \in {prov[p], intent[p]} \cup lost

\* A tombstone never names a container that still stands: nothing is tombstoned
\* for a removal that did not happen (verbs/uninstall.go:274-283).
TombstoneIsTrue ==
    \A p \in Products : tomb[p] # NoNonce => ~(Own(p) /\ box[p].nonce = tomb[p])

\* A container this tool started on an intent's behalf and has not verified
\* since still owes its check, whatever crashed in between (state.go:161-165).
StartedIsOwed ==
    \A p \in Products : box[p].unproved = "bringup" => owed[p]

\* A confirmed container always has a desired state: the commit and the
\* confirmation are one transaction (bringup.go:616-622), and forgetting the
\* state comes only after the container is gone.
ConfirmedIsWanted ==
    \A p \in Products :
        Own(p) /\ prov[p] # NoNonce /\ box[p].nonce = prov[p] => desired[p] # "none"

\* A verb the operator runs is never answered "already resumed once": stating
\* the intent again grants a fresh attempt (bringup.go:843-847), also after any
\* number of failed or interrupted starts.
FreshAttempt == At("plan") => PlanFor(sess.p) # "exited"

\* No step of a session touches a container that is not labelled ours.
RivalsUntouched ==
    [][sess' # sess /\ ident' =>
         \A p \in Products : Stands(p) /\ box[p].label # "ours" => box'[p] = box[p]]_vars

\* Outside the undo of a failed replacement, a session starts a container only
\* when the durable desired state is "running".
StartsOnlyWanted ==
    [][sess' # sess /\ sess.pc # "restore" =>
         \A p \in Products :
            box[p].st = "stopped" /\ box'[p].st = "running" => desired[p] = "running"]_vars

\* install, start and restart succeed only with nothing left to verify, unless
\* an open intent suspends the product.
SuccessIsVerified ==
    [][out' = "ok" /\ sess.verb \in {"install", "start", "restart"} /\ sess' # sess
         => ~owed'[sess.p] \/ intent[sess.p] # NoNonce]_vars

\* Every verb ends and releases the lock (the family loop included).
VerbEnds == sess.pc # "idle" ~> sess.pc = "idle"

-----------------------------------------------------------------------------
(* The inductive invariant behind the safety properties above.              *)

\* What a session has established by the time it stands at a step.
SessionInv ==
    /\ ~At("idle") => sess.p \in Products /\ sess.verb \in AllVerbs
    /\ sess.pc \in {"gate", "authority", "remove", "open"} /\ sess.verb \in Creators
          => nonces < MaxNonce
    /\ sess.pc \in {"open", "create", "attach", "discard", "confirm"}
          => sess.verb \in Creators
    /\ At("commit") => sess.verb \in {"start", "stop", "restart"}
    /\ sess.pc \in {"plan", "start", "verify"} => sess.verb # "family"
    /\ sess.verb # "family" => sess.done = {}
    /\ sess.pc \in {"family", "reset"} => sess.verb = "family"
    /\ At("forget") => sess.verb = "uninstall"
    /\ ~At("idle") => out = "none"
    /\ At("halt") => sess.verb \in {"stop", "restart"}
    /\ sess.pc \in {"authority", "remove", "restore", "open", "create",
                    "attach", "discard", "confirm"} /\ sess.verb = "recreate"
          => desired[sess.p] # "none"
    /\ sess.pc \in {"create", "attach", "discard", "confirm"}
          => /\ sess.nonce = intent[sess.p]
             /\ sess.nonce # NoNonce
             /\ <<sess.p, sess.nonce>> \notin inflight
    /\ At("create") => ~(Own(sess.p) /\ box[sess.p].nonce = sess.nonce)
    /\ sess.pc \in {"plan", "start", "verify"} \/ (At("halt") /\ sess.verb = "restart")
          => owed[sess.p] /\ (At("verify") \/ desired[sess.p] = "running")
    /\ At("member") => ~owed[sess.p]
    /\ sess.pc \in {"plan", "halt"} => ~resumed[sess.p]

\* Nothing this installation recorded or started stands at p any more.
Cleared(p) ==
    /\ Own(p) => prov[p] = NoNonce \/ box[p].nonce # prov[p]
    /\ box[p].unproved # "bringup"

ClearedInv ==
    /\ At("forget") => Cleared(sess.p)
    /\ \A p \in sess.done : Cleared(p)

\* A nonce is minted once, so two records of one name never share one.
NonceInv ==
    /\ \A p \in Products :
          /\ intent[p] <= nonces /\ prov[p] <= nonces /\ tomb[p] <= nonces
          /\ box[p].nonce <= nonces
          /\ Own(p) => box[p].nonce # NoNonce
          /\ ~Stands(p) => box[p] = NoBox
          /\ prov[p] # NoNonce => prov[p] # intent[p]
          /\ tomb[p] # NoNonce => tomb[p] # intent[p]
    /\ \A p \in Products, n \in Nonces : <<p, n>> \in inflight =>
          /\ n <= nonces
          /\ n = intent[p] \/ n \in lost
          /\ n # prov[p] /\ n # tomb[p]

IInv ==
    /\ TypeOK
    /\ SessionInv
    /\ ClearedInv
    /\ NonceInv
    /\ OwnAccounted
    /\ TombstoneIsTrue
    /\ StartedIsOwed
    /\ ConfirmedIsWanted

-----------------------------------------------------------------------------
(* What the comments say of these verbs, and the code does not do.          *)

\* The ledger is never wiped while a container it describes, by a record or by
\* an open intent, still stands (verbs/uninstall.go:471-474).
ResetStrandsNothing ==
    [][ident /\ ~ident' =>
         \A p \in Products :
            Own(p) => box[p].nonce \notin {prov[p], intent[p]} \ {NoNonce}]_vars

\* recreate leaves a stopped product stopped (verbs/verbs.go:406-407).
RecreateKeepsStopped ==
    [][sess' # sess /\ sess.verb = "recreate" =>
         \A p \in Products :
            desired[p] = "stopped" /\ box[p].st = "stopped" => box'[p].st # "running"]_vars

=============================================================================
