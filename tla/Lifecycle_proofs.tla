-------------------------- MODULE Lifecycle_proofs --------------------------
(***************************************************************************)
(* Proofs about Lifecycle, for every set of products, every set of verbs   *)
(* and every bound on the nonces: IInv is an inductive invariant, and each *)
(* safety invariant of the module is one of its conjuncts.                 *)
(***************************************************************************)
EXTENDS Lifecycle, TLAPS

USE ProductsAssumption, VerbsAssumption, MaxNonceAssumption DEF NoNonce, Nonces

-----------------------------------------------------------------------------
(* What the helpers of the model do to a session and to a container.        *)

\* A session that ends establishes everything the invariant says of sessions.
LEMMA FinishInv ==
    ASSUME NEW o \in {"ok", "fail"}, Finish(o)
    PROVE  /\ sess' \in Sessions /\ out' \in {"none", "ok", "fail"}
           /\ SessionInv' /\ ClearedInv'
BY DEF Finish, Idle, Sessions, PCs, SessionInv, ClearedInv, At

\* A session that moves on keeps everything but its place.
LEMMA GotoKeeps ==
    ASSUME sess \in Sessions, NEW pc \in PCs, Goto(pc)
    PROVE  /\ sess' \in Sessions /\ out' = out
           /\ sess'.pc = pc /\ sess'.verb = sess.verb /\ sess'.p = sess.p
           /\ sess'.nonce = sess.nonce /\ sess'.todo = sess.todo
           /\ sess'.done = sess.done /\ sess'.kept = sess.kept
BY DEF Goto, Sessions

\* b is what a call that builds nothing may leave of the container c.
Follows(b, c) ==
    \/ b = NoBox \/ b = c
    \/ /\ b.st # "absent" /\ c.st # "absent"
       /\ b.label = c.label /\ b.nonce = c.nonce

\* The three calls that do not create leave a container that follows the old.
LEMMA CallsFollow ==
    ASSUME NEW c \in Boxes, NEW d \in BOOLEAN, NEW h \in BOOLEAN,
           NEW why \in {"bringup", "restore"}
    PROVE  /\ AfterStop(c, d) \in Boxes /\ Follows(AfterStop(c, d), c)
           /\ AfterStop(c, d).unproved = c.unproved
           /\ AfterStart(c, d, why) \in Boxes /\ Follows(AfterStart(c, d, why), c)
           /\ AfterStart(c, d, why).unproved \in {c.unproved, why}
           /\ AfterRemove(c, h, d) \in Boxes /\ Follows(AfterRemove(c, h, d), c)
           /\ AfterRemove(c, h, d).unproved \in {c.unproved, "no"}
<1>1. AfterStop(c, d) \in Boxes /\ Follows(AfterStop(c, d), c)
      /\ AfterStop(c, d).unproved = c.unproved
  BY DEF AfterStop, Boxes, Follows
<1>2. AfterStart(c, d, why) \in Boxes /\ Follows(AfterStart(c, d, why), c)
      /\ AfterStart(c, d, why).unproved \in {c.unproved, why}
  BY DEF AfterStart, Boxes, Follows
<1>3. NoBox \in Boxes /\ Follows(NoBox, c) /\ NoBox.unproved = "no"
  BY DEF NoBox, Boxes, Follows
<1>4. AfterStop(c, h) \in Boxes /\ Follows(AfterStop(c, h), c)
      /\ AfterStop(c, h).unproved = c.unproved
  BY DEF AfterStop, Boxes, Follows
<1>5. AfterRemove(c, h, d) \in Boxes /\ Follows(AfterRemove(c, h, d), c)
      /\ AfterRemove(c, h, d).unproved \in {c.unproved, "no"}
  BY <1>3, <1>4 DEF AfterRemove
<1> QED BY <1>1, <1>2, <1>5

\* Steps that record nothing and replace one container by one that follows it
\* keep what the invariant says of records and nonces.
LEMMA BoxStep ==
    ASSUME IInv, NEW q \in Products, NEW b \in Boxes, Follows(b, box[q]),
           box' = [box EXCEPT ![q] = b],
           UNCHANGED <<intent, prov, tomb, desired, inflight, nonces, lost>>
    PROVE  /\ box' \in [Products -> Boxes]
           /\ NonceInv' /\ OwnAccounted' /\ TombstoneIsTrue' /\ ConfirmedIsWanted'
<1>1. box' \in [Products -> Boxes]
  BY DEF IInv, TypeOK
<1>2. \A p \in Products :
         /\ Own(p)' => Own(p) /\ box'[p].nonce = box[p].nonce
         /\ box'[p].nonce \in {box[p].nonce, 0}
         /\ ~Stands(p)' => box'[p] = NoBox
  <2>1. NoBox.st = "absent" /\ NoBox.nonce = 0
    BY DEF NoBox
  <2>2. \A p \in Products : ~Stands(p) => box[p] = NoBox
    BY DEF IInv, NonceInv
  <2>3. \A p \in Products : box'[p] = IF p = q THEN b ELSE box[p]
    BY DEF IInv, TypeOK
  <2> QED BY <2>1, <2>2, <2>3 DEF Follows, Own, Stands
<1>3. NonceInv'
  BY <1>1, <1>2 DEF IInv, TypeOK, NonceInv
<1>4. OwnAccounted' /\ TombstoneIsTrue' /\ ConfirmedIsWanted'
  BY <1>1, <1>2 DEF IInv, OwnAccounted, TombstoneIsTrue, ConfirmedIsWanted
<1> QED BY <1>1, <1>3, <1>4

\* A name at which nothing stands is cleared.
LEMMA AbsentIsCleared ==
    ASSUME IInv, NEW p \in Products, ~Stands(p)
    PROVE  Cleared(p)
<1>1. box[p] = NoBox
  BY DEF IInv, NonceInv
<1> QED BY <1>1 DEF Cleared, Own, NoBox

\* Steps of the session that change no record of a container and none of them.
LEMMA SessionOnly ==
    ASSUME IInv,
           UNCHANGED <<intent, prov, tomb, desired, owed, daemonVars, nonces, lost>>,
           ident' \in BOOLEAN, resumed' \in [Products -> BOOLEAN], member' \subseteq Products,
           sess' \in Sessions, out' \in {"none", "ok", "fail"},
           SessionInv', ClearedInv'
    PROVE  IInv'
BY DEF IInv, TypeOK, NonceInv, OwnAccounted, TombstoneIsTrue, StartedIsOwed,
       ConfirmedIsWanted, Own, Stands, daemonVars

LEMMA FinishOnly ==
    ASSUME IInv, UNCHANGED <<ledgerVars, daemonVars, nonces, lost>>,
           NEW o \in {"ok", "fail"}, Finish(o)
    PROVE  IInv'
<1>1. /\ ident' \in BOOLEAN /\ resumed' \in [Products -> BOOLEAN] /\ member' \subseteq Products
      /\ UNCHANGED <<intent, prov, tomb, desired, owed, daemonVars, nonces, lost>>
  BY DEF IInv, TypeOK, ledgerVars
<1> QED BY <1>1, FinishInv, SessionOnly

\* A cleared name stays cleared when its container is followed by another.
LEMMA Clearing ==
    ASSUME NEW p \in Products, NEW b \in Boxes, Follows(b, box[p]), box'[p] = b,
           b.unproved # "bringup", prov' = prov, Cleared(p)
    PROVE  Cleared(p)'
BY DEF Cleared, Follows, Own, Stands, NoBox

-----------------------------------------------------------------------------
(* The initial state.                                                       *)

LEMMA InitIInv == Init => IInv
<1> SUFFICES ASSUME Init PROVE IInv
  OBVIOUS
<1> USE DEF Init
<1>1. TypeOK
  <2>1. Idle \in Sessions
    BY DEF Idle, Sessions, PCs
  <2>2. NoBox \in Boxes
    BY DEF NoBox, Boxes
  <2>3. box \in [Products -> Boxes] /\ sess \in Sessions
    BY <2>1, <2>2
  <2>4. /\ intent \in [Products -> Nonces \cup {NoNonce}] /\ prov \in [Products -> Nonces \cup {NoNonce}]
        /\ tomb \in [Products -> Nonces \cup {NoNonce}]
    OBVIOUS
  <2>5. /\ desired \in [Products -> {"none", "running", "stopped"}]
        /\ owed \in [Products -> BOOLEAN] /\ resumed \in [Products -> BOOLEAN]
    OBVIOUS
  <2>6. nonces \in 0 .. MaxNonce
    OBVIOUS
  <2> QED BY <2>3, <2>4, <2>5, <2>6 DEF TypeOK
<1>2. SessionInv /\ ClearedInv
  BY DEF SessionInv, ClearedInv, Idle, At
<1>3. NonceInv
  BY DEF NonceInv, NoBox, Own, Stands
<1>4. OwnAccounted /\ TombstoneIsTrue /\ StartedIsOwed /\ ConfirmedIsWanted
  BY DEF OwnAccounted, TombstoneIsTrue, StartedIsOwed, ConfirmedIsWanted, NoBox, Own, Stands
<1> QED BY <1>1, <1>2, <1>3, <1>4 DEF IInv

-----------------------------------------------------------------------------
(* The steps of a session that change nothing else.                         *)
LEMMA GateRefusesKeeps == IInv /\ GateRefuses => IInv'
BY FinishOnly DEF GateRefuses

LEMMA LaunchRefusedKeeps == IInv /\ LaunchRefused => IInv'
BY FinishOnly DEF LaunchRefused

LEMMA DiscardLeftKeeps == IInv /\ DiscardLeft => IInv'
BY FinishOnly DEF DiscardLeft

LEMMA ConfirmRefusedKeeps == IInv /\ ConfirmRefused => IInv'
BY FinishOnly DEF ConfirmRefused

LEMMA AbortKeeps == IInv /\ Abort => IInv'
BY FinishOnly DEF Abort

LEMMA VerbAuthorityKeeps == IInv /\ VerbAuthority => IInv'
<1> SUFFICES ASSUME IInv, VerbAuthority PROVE IInv'
  OBVIOUS
<1>1. sess \in Sessions /\ UNCHANGED <<ledgerVars, daemonVars, nonces, lost>>
  BY DEF IInv, TypeOK, VerbAuthority
<1>2. Finish("fail") \/ Goto("commit")
  BY DEF VerbAuthority
<1>3. CASE Finish("fail")
  BY <1>1, <1>3, FinishOnly
<1>4. CASE Goto("commit")
  <2>1. /\ sess' \in Sessions /\ out' = out /\ sess'.pc = "commit" /\ sess'.verb = sess.verb
        /\ sess'.p = sess.p /\ sess'.nonce = sess.nonce /\ sess'.done = sess.done
    BY <1>1, <1>4, GotoKeeps DEF PCs
  <2>2. SessionInv'
    BY <1>1, <2>1 DEF IInv, SessionInv, At, VerbAuthority, Creators, Stands, Own, ledgerVars, daemonVars
  <2>3. ClearedInv'
    BY <1>1, <2>1 DEF IInv, ClearedInv, Cleared, At, VerbAuthority, Stands, Own, ledgerVars, daemonVars
  <2> QED BY <1>1, <2>1, <2>2, <2>3, SessionOnly DEF IInv, TypeOK, ledgerVars
<1> QED BY <1>2, <1>3, <1>4

LEMMA ReplaceAuthorityKeeps == IInv /\ ReplaceAuthority => IInv'
<1> SUFFICES ASSUME IInv, ReplaceAuthority PROVE IInv'
  OBVIOUS
<1>1. sess \in Sessions /\ UNCHANGED <<ledgerVars, daemonVars, nonces, lost>>
  BY DEF IInv, TypeOK, ReplaceAuthority
<1>2. Finish("fail") \/ Goto("open") \/ Goto("remove")
  BY DEF ReplaceAuthority
<1>3. CASE Finish("fail")
  BY <1>1, <1>3, FinishOnly
<1>4. CASE Goto("open")
  <2>1. /\ sess' \in Sessions /\ out' = out /\ sess'.pc = "open" /\ sess'.verb = sess.verb
        /\ sess'.p = sess.p /\ sess'.nonce = sess.nonce /\ sess'.done = sess.done
    BY <1>1, <1>4, GotoKeeps DEF PCs
  <2>2. SessionInv'
    BY <1>1, <2>1 DEF IInv, SessionInv, At, ReplaceAuthority, Creators, Stands, Own, ledgerVars, daemonVars
  <2>3. ClearedInv'
    BY <1>1, <2>1 DEF IInv, ClearedInv, Cleared, At, ReplaceAuthority, Stands, Own, ledgerVars, daemonVars
  <2> QED BY <1>1, <2>1, <2>2, <2>3, SessionOnly DEF IInv, TypeOK, ledgerVars
<1>5. CASE Goto("remove")
  <2>1. /\ sess' \in Sessions /\ out' = out /\ sess'.pc = "remove" /\ sess'.verb = sess.verb
        /\ sess'.p = sess.p /\ sess'.nonce = sess.nonce /\ sess'.done = sess.done
    BY <1>1, <1>5, GotoKeeps DEF PCs
  <2>2. SessionInv'
    BY <1>1, <2>1 DEF IInv, SessionInv, At, ReplaceAuthority, Creators, Stands, Own, ledgerVars, daemonVars
  <2>3. ClearedInv'
    BY <1>1, <2>1 DEF IInv, ClearedInv, Cleared, At, ReplaceAuthority, Stands, Own, ledgerVars, daemonVars
  <2> QED BY <1>1, <2>1, <2>2, <2>3, SessionOnly DEF IInv, TypeOK, ledgerVars
<1> QED BY <1>2, <1>3, <1>4, <1>5

LEMMA VerifyAttachKeeps == IInv /\ VerifyAttach => IInv'
<1> SUFFICES ASSUME IInv, VerifyAttach PROVE IInv'
  OBVIOUS
<1>1. sess \in Sessions /\ UNCHANGED <<ledgerVars, daemonVars, nonces, lost>>
  BY DEF IInv, TypeOK, VerifyAttach
<1>2. Goto("confirm") \/ Goto("discard")
  BY DEF VerifyAttach
<1>3. CASE Goto("confirm")
  <2>1. /\ sess' \in Sessions /\ out' = out /\ sess'.pc = "confirm" /\ sess'.verb = sess.verb
        /\ sess'.p = sess.p /\ sess'.nonce = sess.nonce /\ sess'.done = sess.done
    BY <1>1, <1>3, GotoKeeps DEF PCs
  <2>2. SessionInv'
    BY <1>1, <2>1 DEF IInv, SessionInv, At, VerifyAttach, Creators, Stands, Own, ledgerVars, daemonVars
  <2>3. ClearedInv'
    BY <1>1, <2>1 DEF IInv, ClearedInv, Cleared, At, VerifyAttach, Stands, Own, ledgerVars, daemonVars
  <2> QED BY <1>1, <2>1, <2>2, <2>3, SessionOnly DEF IInv, TypeOK, ledgerVars
<1>4. CASE Goto("discard")
  <2>1. /\ sess' \in Sessions /\ out' = out /\ sess'.pc = "discard" /\ sess'.verb = sess.verb
        /\ sess'.p = sess.p /\ sess'.nonce = sess.nonce /\ sess'.done = sess.done
    BY <1>1, <1>4, GotoKeeps DEF PCs
  <2>2. SessionInv'
    BY <1>1, <2>1 DEF IInv, SessionInv, At, VerifyAttach, Creators, Stands, Own, ledgerVars, daemonVars
  <2>3. ClearedInv'
    BY <1>1, <2>1 DEF IInv, ClearedInv, Cleared, At, VerifyAttach, Stands, Own, ledgerVars, daemonVars
  <2> QED BY <1>1, <2>1, <2>2, <2>3, SessionOnly DEF IInv, TypeOK, ledgerVars
<1> QED BY <1>2, <1>3, <1>4

LEMMA UninstallAuthorityKeeps == IInv /\ UninstallAuthority => IInv'
<1> SUFFICES ASSUME IInv, UninstallAuthority PROVE IInv'
  OBVIOUS
<1>1. sess \in Sessions /\ UNCHANGED <<ledgerVars, daemonVars, nonces, lost>>
  BY DEF IInv, TypeOK, UninstallAuthority
<1>2. Finish("fail") \/ Goto("remove") \/ (~Stands(sess.p) /\ Goto("forget"))
  <2>1. Authority(sess.p) = "gone" => ~Stands(sess.p)
    BY DEF Authority
  <2> QED BY <2>1 DEF UninstallAuthority
<1>3. CASE Finish("fail")
  BY <1>1, <1>3, FinishOnly
<1>4. CASE Goto("remove")
  <2>1. /\ sess' \in Sessions /\ out' = out /\ sess'.pc = "remove" /\ sess'.verb = sess.verb
        /\ sess'.p = sess.p /\ sess'.nonce = sess.nonce /\ sess'.done = sess.done
    BY <1>1, <1>4, GotoKeeps DEF PCs
  <2>2. SessionInv'
    BY <1>1, <2>1 DEF IInv, SessionInv, At, UninstallAuthority, Creators, Authority, Stands, Own, ledgerVars, daemonVars
  <2>3. ClearedInv'
    BY <1>1, <2>1 DEF IInv, ClearedInv, Cleared, At, UninstallAuthority, Authority, Stands, Own, ledgerVars, daemonVars
  <2> QED BY <1>1, <2>1, <2>2, <2>3, SessionOnly DEF IInv, TypeOK, ledgerVars
<1>5. CASE ~Stands(sess.p) /\ Goto("forget")
  <2>1. /\ sess' \in Sessions /\ out' = out /\ sess'.pc = "forget" /\ sess'.verb = sess.verb
        /\ sess'.p = sess.p /\ sess'.nonce = sess.nonce /\ sess'.done = sess.done
    BY <1>1, <1>5, GotoKeeps DEF PCs
  <2>2. SessionInv'
    BY <1>1, <2>1 DEF IInv, SessionInv, At, UninstallAuthority, Creators, Authority, Stands, Own, ledgerVars, daemonVars
  <2>3. ClearedInv'
    BY <1>1, <2>1, <1>5, AbsentIsCleared DEF IInv, ClearedInv, Cleared, At, UninstallAuthority, Authority, Stands, Own, ledgerVars, daemonVars, SessionInv
  <2> QED BY <1>1, <2>1, <2>2, <2>3, SessionOnly DEF IInv, TypeOK, ledgerVars
<1> QED BY <1>2, <1>3, <1>4, <1>5

LEMMA BeginKeeps ==
    ASSUME IInv, NEW v \in Verbs, NEW p \in Products, Begin(v, p)
    PROVE  IInv'
<1>1. /\ sess' \in Sessions /\ out' \in {"none", "ok", "fail"} /\ sess'.pc = "gate"
      /\ sess'.p = p /\ sess'.verb = v /\ sess'.done = {}
  BY DEF Begin, Idle, Sessions, PCs
<1>2. SessionInv'
  BY <1>1 DEF Begin, SessionInv, At
<1>3. ClearedInv'
  BY <1>1 DEF ClearedInv, At
<1> QED BY <1>1, <1>2, <1>3, SessionOnly DEF Begin, IInv, TypeOK, ledgerVars

LEMMA GatePassesKeeps == IInv /\ GatePasses => IInv'
<1> SUFFICES ASSUME IInv, GatePasses PROVE IInv'
  OBVIOUS
<1>1. sess \in Sessions /\ Goto("authority")
  BY DEF IInv, TypeOK, GatePasses
<1>2. /\ sess' \in Sessions /\ out' = out /\ sess'.pc = "authority" /\ sess'.verb = sess.verb
      /\ sess'.p = sess.p /\ sess'.done = sess.done
  BY <1>1, GotoKeeps DEF PCs
<1>3. SessionInv'
  BY <1>2 DEF IInv, SessionInv, At, GatePasses, Recorded, Creators
<1>4. ClearedInv'
  BY <1>2 DEF IInv, ClearedInv, Cleared, At, GatePasses, daemonVars, Own, Stands
<1> QED BY <1>2, <1>3, <1>4, SessionOnly DEF GatePasses, IInv, TypeOK

LEMMA FamilyListedKeeps == IInv /\ FamilyListed => IInv'
<1> SUFFICES ASSUME IInv, FamilyListed PROVE IInv'
  OBVIOUS
<1>1. /\ sess' \in Sessions /\ sess'.pc = "family" /\ sess'.verb = sess.verb
      /\ sess'.p = sess.p /\ sess'.done = sess.done
  BY DEF IInv, TypeOK, FamilyListed, Sessions, PCs
<1>2. SessionInv'
  BY <1>1 DEF IInv, SessionInv, At, FamilyListed
<1>3. ClearedInv'
  BY <1>1 DEF IInv, ClearedInv, Cleared, At, FamilyListed, ledgerVars, daemonVars, Own, Stands
<1> QED BY <1>1, <1>2, <1>3, SessionOnly DEF FamilyListed, IInv, TypeOK, ledgerVars

LEMMA FamilyNextKeeps ==
    ASSUME IInv, NEW p \in Products, FamilyNext(p)
    PROVE  IInv'
<1>1. /\ sess' \in Sessions /\ sess'.pc = "authority" /\ sess'.verb = sess.verb
      /\ sess'.p = p /\ sess'.done = sess.done
  BY DEF IInv, TypeOK, FamilyNext, Sessions, PCs
<1>2. sess.verb = "family"
  BY DEF IInv, SessionInv, FamilyNext, At
<1>3. SessionInv'
  BY <1>1, <1>2 DEF IInv, SessionInv, At, Creators, AllVerbs, FamilyNext
<1>4. ClearedInv'
  BY <1>1 DEF IInv, ClearedInv, Cleared, At, FamilyNext, ledgerVars, daemonVars, Own, Stands
<1> QED BY <1>1, <1>3, <1>4, SessionOnly DEF FamilyNext, IInv, TypeOK, ledgerVars

LEMMA FamilyAuthorityKeeps == IInv /\ FamilyAuthority => IInv'
<1> SUFFICES ASSUME IInv, FamilyAuthority PROVE IInv'
  OBVIOUS
<1>1. sess \in Sessions /\ sess.p \in Products
  BY DEF IInv, TypeOK, SessionInv, FamilyAuthority, At
<1>2. /\ sess' \in Sessions /\ sess'.pc \in {"remove", "family"}
      /\ sess'.verb = sess.verb /\ sess'.p = sess.p
  <2>1. CASE sess' = [sess EXCEPT !.pc = "remove"]
    BY <1>1, <2>1 DEF Sessions, PCs
  <2>2. CASE sess' = [sess EXCEPT !.pc = "family", !.done = @ \cup {sess.p}]
    BY <1>1, <2>2 DEF Sessions, PCs
  <2>3. CASE sess' = [sess EXCEPT !.pc = "family", !.kept = TRUE]
    BY <1>1, <2>3 DEF Sessions, PCs
  <2> QED BY <2>1, <2>2, <2>3 DEF FamilyAuthority
<1>3. sess'.done = sess.done \/ (~Stands(sess.p) /\ sess'.done = sess.done \cup {sess.p})
  BY <1>1 DEF FamilyAuthority, Authority, Sessions
<1>4. SessionInv'
  BY <1>2 DEF IInv, SessionInv, At, FamilyAuthority, Creators
<1>5. ~Stands(sess.p) => Cleared(sess.p)
  BY <1>1, AbsentIsCleared
<1>6. ClearedInv'
  BY <1>2, <1>3, <1>5 DEF IInv, ClearedInv, Cleared, At, FamilyAuthority, ledgerVars, daemonVars, Own, Stands
<1> QED BY <1>2, <1>4, <1>6, SessionOnly DEF FamilyAuthority, IInv, TypeOK, ledgerVars

LEMMA ReconcileKeeps == IInv /\ Reconcile => IInv'
<1> SUFFICES ASSUME IInv, Reconcile PROVE IInv'
  OBVIOUS
<1>1. sess \in Sessions /\ resumed' \in [Products -> BOOLEAN]
  BY DEF IInv, TypeOK, Reconcile
<1>2. \/ Finish("ok") \/ Finish("fail") \/ Goto("verify")
      \/ Goto("start")
  BY DEF Reconcile
<1>3. CASE Finish("ok") \/ Finish("fail")
  BY <1>1, <1>3, FinishInv, SessionOnly DEF Reconcile, IInv, TypeOK
<1>4. ASSUME NEW pc \in {"verify", "start"}, Goto(pc) PROVE IInv'
  <2>1. /\ sess' \in Sessions /\ out' = out /\ sess'.pc = pc /\ sess'.verb = sess.verb
        /\ sess'.p = sess.p /\ sess'.done = sess.done
    BY <1>1, <1>4, GotoKeeps DEF PCs
  <2>2. SessionInv'
    BY <1>4, <2>1 DEF IInv, SessionInv, At, Reconcile, Creators
  <2>3. ClearedInv'
    BY <1>4, <2>1 DEF IInv, ClearedInv, Cleared, At, Reconcile, daemonVars, Own, Stands
  <2> QED BY <1>1, <2>1, <2>2, <2>3, SessionOnly DEF Reconcile, IInv, TypeOK
<1> QED BY <1>2, <1>3, <1>4

LEMMA RecordMemberKeeps == IInv /\ RecordMember => IInv'
<1> SUFFICES ASSUME IInv, RecordMember PROVE IInv'
  OBVIOUS
<1>1. member' \subseteq Products /\ sess.p \in Products
  BY DEF IInv, TypeOK, SessionInv, RecordMember, At
<1>2. Finish("ok") \/ Finish("fail")
  BY DEF RecordMember
<1> QED BY <1>1, <1>2, FinishInv, SessionOnly DEF RecordMember, IInv, TypeOK

-----------------------------------------------------------------------------
(* The daemon calls that build nothing.                                     *)

LEMMA HaltKeeps == IInv /\ Halt => IInv'
<1> SUFFICES ASSUME IInv, Halt PROVE IInv'
  OBVIOUS
<1>1. sess \in Sessions /\ sess.p \in Products /\ box[sess.p] \in Boxes
  BY DEF IInv, TypeOK, SessionInv, Halt, At
<1>2. PICK r \in Calls :
        /\ box' = [box EXCEPT ![sess.p] = AfterStop(@, Done(r))]
        /\ IF r # "ok" /\ Stands(sess.p) THEN Finish("fail")
           ELSE IF sess.verb = "restart" THEN Goto("plan") ELSE Finish("ok")
  BY DEF Halt
<1> DEFINE b == AfterStop(box[sess.p], Done(r))
<1>3. /\ b \in Boxes /\ Follows(b, box[sess.p])
      /\ b.unproved = box[sess.p].unproved
  BY <1>1, CallsFollow DEF Done, Calls
<1> HIDE DEF b
<1>4. /\ box' \in [Products -> Boxes]
      /\ NonceInv' /\ OwnAccounted' /\ TombstoneIsTrue' /\ ConfirmedIsWanted'
  BY <1>1, <1>2, <1>3, BoxStep DEF Halt, ledgerVars, b
<1>5. \A p \in Products : box'[p] = IF p = sess.p THEN b ELSE box[p]
  BY <1>1, <1>2 DEF IInv, TypeOK, b
<1>6. StartedIsOwed'
  BY <1>1, <1>3, <1>5 DEF IInv, StartedIsOwed, Halt, ledgerVars
<1>7. sess' \in Sessions /\ out' \in {"none", "ok", "fail"} /\ SessionInv' /\ ClearedInv'
  <2>1. CASE sess.verb = "restart" /\ Goto("plan")
    <3>1. /\ sess' \in Sessions /\ out' = out /\ sess'.pc = "plan" /\ sess'.verb = sess.verb
          /\ sess'.p = sess.p /\ sess'.nonce = sess.nonce /\ sess'.done = sess.done
      BY <1>1, <2>1, GotoKeeps DEF PCs
    <3>2. SessionInv'
      BY <1>1, <2>1, <3>1 DEF IInv, SessionInv, At, Halt, Creators, ledgerVars
    <3>3. ClearedInv'
      BY <1>1, <1>3, <1>5, <2>1, <3>1, Clearing DEF IInv, ClearedInv, SessionInv, At, Halt, ledgerVars
    <3> QED BY <3>1, <3>2, <3>3 DEF IInv, TypeOK
  <2>2. CASE Finish("ok") \/ Finish("fail")
    BY <2>2, FinishInv
  <2> QED BY <1>2, <2>1, <2>2 DEF Halt
<1> QED BY <1>4, <1>6, <1>7 DEF IInv, TypeOK, Halt, ledgerVars

LEMMA StartKeeps == IInv /\ Start => IInv'
<1> SUFFICES ASSUME IInv, Start PROVE IInv'
  OBVIOUS
<1>1. sess \in Sessions /\ sess.p \in Products /\ box[sess.p] \in Boxes
  BY DEF IInv, TypeOK, SessionInv, Start, At
<1>2. PICK r \in Calls :
        /\ box' = [box EXCEPT ![sess.p] = AfterStart(@, Done(r), "bringup")]
        /\ IF r = "ok" /\ Stands(sess.p) THEN Goto("verify") ELSE Finish("fail")
  BY DEF Start
<1> DEFINE b == AfterStart(box[sess.p], Done(r), "bringup")
<1>3. /\ b \in Boxes /\ Follows(b, box[sess.p])
      /\ b.unproved \in {box[sess.p].unproved, "bringup"}
  BY <1>1, CallsFollow DEF Done, Calls
<1> HIDE DEF b
<1>4. /\ box' \in [Products -> Boxes]
      /\ NonceInv' /\ OwnAccounted' /\ TombstoneIsTrue' /\ ConfirmedIsWanted'
  BY <1>1, <1>2, <1>3, BoxStep DEF Start, ledgerVars, b
<1>5. \A p \in Products : box'[p] = IF p = sess.p THEN b ELSE box[p]
  BY <1>1, <1>2 DEF IInv, TypeOK, b
<1>6. StartedIsOwed'
  BY <1>1, <1>3, <1>5 DEF IInv, StartedIsOwed, Start, ledgerVars, SessionInv, At
<1>7. sess' \in Sessions /\ out' \in {"none", "ok", "fail"} /\ SessionInv' /\ ClearedInv'
  <2>1. CASE Goto("verify")
    <3>1. /\ sess' \in Sessions /\ out' = out /\ sess'.pc = "verify" /\ sess'.verb = sess.verb
          /\ sess'.p = sess.p /\ sess'.nonce = sess.nonce /\ sess'.done = sess.done
      BY <1>1, <2>1, GotoKeeps DEF PCs
    <3>2. SessionInv'
      BY <1>1, <3>1 DEF IInv, SessionInv, At, Start, Creators, ledgerVars
    <3>3. ClearedInv'
      BY <1>1, <1>3, <1>5, <2>1, <3>1, Clearing DEF IInv, ClearedInv, SessionInv, At, Start, ledgerVars
    <3> QED BY <3>1, <3>2, <3>3 DEF IInv, TypeOK
  <2>2. CASE Finish("fail")
    BY <2>2, FinishInv
  <2> QED BY <1>2, <2>1, <2>2 DEF Start
<1> QED BY <1>4, <1>6, <1>7 DEF IInv, TypeOK, Start, ledgerVars

LEMMA ReplaceRemoveKeeps == IInv /\ ReplaceRemove => IInv'
<1> SUFFICES ASSUME IInv, ReplaceRemove PROVE IInv'
  OBVIOUS
<1>1. sess \in Sessions /\ sess.p \in Products /\ box[sess.p] \in Boxes
  BY DEF IInv, TypeOK, SessionInv, ReplaceRemove, At
<1>2. PICK halted \in BOOLEAN, r \in Calls :
        /\ box' = [box EXCEPT ![sess.p] = AfterRemove(@, halted, Done(r))]
        /\ Goto(IF Gone(r) THEN "open" ELSE "restore")
  BY DEF ReplaceRemove
<1> DEFINE b == AfterRemove(box[sess.p], halted, Done(r))
<1>3. /\ b \in Boxes /\ Follows(b, box[sess.p])
      /\ b.unproved \in {box[sess.p].unproved, "no"}
  BY <1>1, CallsFollow DEF Done, Calls
<1> HIDE DEF b
<1>4. /\ box' \in [Products -> Boxes]
      /\ NonceInv' /\ OwnAccounted' /\ TombstoneIsTrue' /\ ConfirmedIsWanted'
  BY <1>1, <1>2, <1>3, BoxStep DEF ReplaceRemove, ledgerVars, b
<1>5. \A p \in Products : box'[p] = IF p = sess.p THEN b ELSE box[p]
  BY <1>1, <1>2 DEF IInv, TypeOK, b
<1>6. StartedIsOwed'
  BY <1>1, <1>3, <1>5 DEF IInv, StartedIsOwed, ReplaceRemove, ledgerVars
<1>7. sess' \in Sessions /\ out' \in {"none", "ok", "fail"} /\ SessionInv' /\ ClearedInv'
  <2>1. CASE Goto("open")
    <3>1. /\ sess' \in Sessions /\ out' = out /\ sess'.pc = "open" /\ sess'.verb = sess.verb
          /\ sess'.p = sess.p /\ sess'.nonce = sess.nonce /\ sess'.done = sess.done
      BY <1>1, <2>1, GotoKeeps DEF PCs
    <3>2. SessionInv'
      BY <1>1, <3>1 DEF IInv, SessionInv, At, ReplaceRemove, Creators, ledgerVars
    <3>3. ClearedInv'
      BY <1>1, <1>3, <1>5, <2>1, <3>1, Clearing DEF IInv, ClearedInv, SessionInv, At, ReplaceRemove, Creators, ledgerVars
    <3> QED BY <3>1, <3>2, <3>3 DEF IInv, TypeOK
  <2>2. CASE Goto("restore")
    <3>1. /\ sess' \in Sessions /\ out' = out /\ sess'.pc = "restore" /\ sess'.verb = sess.verb
          /\ sess'.p = sess.p /\ sess'.nonce = sess.nonce /\ sess'.done = sess.done
      BY <1>1, <2>2, GotoKeeps DEF PCs
    <3>2. SessionInv'
      BY <1>1, <3>1 DEF IInv, SessionInv, At, ReplaceRemove, Creators, ledgerVars
    <3>3. ClearedInv'
      BY <1>1, <1>3, <1>5, <2>2, <3>1, Clearing DEF IInv, ClearedInv, SessionInv, At, ReplaceRemove, Creators, ledgerVars
    <3> QED BY <3>1, <3>2, <3>3 DEF IInv, TypeOK
  <2>3. CASE Finish("ok") \/ Finish("fail")
    BY <2>3, FinishInv
  <2> QED BY <1>2, <2>1, <2>2, <2>3 DEF ReplaceRemove
<1> QED BY <1>4, <1>6, <1>7 DEF IInv, TypeOK, ReplaceRemove, ledgerVars

LEMMA RestoreKeeps == IInv /\ Restore => IInv'
<1> SUFFICES ASSUME IInv, Restore PROVE IInv'
  OBVIOUS
<1>1. sess \in Sessions /\ sess.p \in Products /\ box[sess.p] \in Boxes
  BY DEF IInv, TypeOK, SessionInv, Restore, At
<1>2. PICK r \in Calls :
        box' = [box EXCEPT ![sess.p] = AfterStart(@, Done(r), "restore")]
  BY DEF Restore
<1> DEFINE b == AfterStart(box[sess.p], Done(r), "restore")
<1>3. /\ b \in Boxes /\ Follows(b, box[sess.p])
      /\ b.unproved \in {box[sess.p].unproved, "restore"}
  BY <1>1, CallsFollow DEF Done, Calls
<1> HIDE DEF b
<1>4. /\ box' \in [Products -> Boxes]
      /\ NonceInv' /\ OwnAccounted' /\ TombstoneIsTrue' /\ ConfirmedIsWanted'
  BY <1>1, <1>2, <1>3, BoxStep DEF Restore, ledgerVars, b
<1>5. \A p \in Products : box'[p] = IF p = sess.p THEN b ELSE box[p]
  BY <1>1, <1>2 DEF IInv, TypeOK, b
<1>6. StartedIsOwed'
  BY <1>1, <1>3, <1>5 DEF IInv, StartedIsOwed, Restore, ledgerVars
<1>7. sess' \in Sessions /\ out' \in {"none", "ok", "fail"} /\ SessionInv' /\ ClearedInv'
  BY <1>2, FinishInv DEF Restore
<1> QED BY <1>4, <1>6, <1>7 DEF IInv, TypeOK, Restore, ledgerVars

LEMMA DiscardRemovedKeeps == IInv /\ DiscardRemoved => IInv'
<1> SUFFICES ASSUME IInv, DiscardRemoved PROVE IInv'
  OBVIOUS
<1>1. sess \in Sessions /\ sess.p \in Products /\ box[sess.p] \in Boxes
  BY DEF IInv, TypeOK, SessionInv, DiscardRemoved, At
<1>2. PICK r \in Calls :
        box' = [box EXCEPT ![sess.p] = AfterRemove(@, FALSE, Done(r))]
  BY DEF DiscardRemoved
<1> DEFINE b == AfterRemove(box[sess.p], FALSE, Done(r))
<1>3. /\ b \in Boxes /\ Follows(b, box[sess.p])
      /\ b.unproved \in {box[sess.p].unproved, "no"}
  BY <1>1, CallsFollow DEF Done, Calls
<1> HIDE DEF b
<1>4. /\ box' \in [Products -> Boxes]
      /\ NonceInv' /\ OwnAccounted' /\ TombstoneIsTrue' /\ ConfirmedIsWanted'
  BY <1>1, <1>2, <1>3, BoxStep DEF DiscardRemoved, ledgerVars, b
<1>5. \A p \in Products : box'[p] = IF p = sess.p THEN b ELSE box[p]
  BY <1>1, <1>2 DEF IInv, TypeOK, b
<1>6. StartedIsOwed'
  BY <1>1, <1>3, <1>5 DEF IInv, StartedIsOwed, DiscardRemoved, ledgerVars
<1>7. sess' \in Sessions /\ out' \in {"none", "ok", "fail"} /\ SessionInv' /\ ClearedInv'
  BY <1>2, FinishInv DEF DiscardRemoved
<1> QED BY <1>4, <1>6, <1>7 DEF IInv, TypeOK, DiscardRemoved, ledgerVars

LEMMA UninstallRemoveKeeps == IInv /\ UninstallRemove => IInv'
<1> SUFFICES ASSUME IInv, UninstallRemove PROVE IInv'
  OBVIOUS
<1>1. sess \in Sessions /\ sess.p \in Products /\ box[sess.p] \in Boxes
  BY DEF IInv, TypeOK, SessionInv, UninstallRemove, At
<1>2. PICK halted \in BOOLEAN, r \in Calls :
        /\ box' = [box EXCEPT ![sess.p] = AfterRemove(@, halted, Done(r))]
        /\ IF Gone(r) THEN Goto("forget") ELSE Finish("fail")
  BY DEF UninstallRemove
<1> DEFINE b == AfterRemove(box[sess.p], halted, Done(r))
<1>3. /\ b \in Boxes /\ Follows(b, box[sess.p])
      /\ b.unproved \in {box[sess.p].unproved, "no"}
  BY <1>1, CallsFollow DEF Done, Calls
<1> HIDE DEF b
<1>4. /\ box' \in [Products -> Boxes]
      /\ NonceInv' /\ OwnAccounted' /\ TombstoneIsTrue' /\ ConfirmedIsWanted'
  BY <1>1, <1>2, <1>3, BoxStep DEF UninstallRemove, ledgerVars, b
<1>5. \A p \in Products : box'[p] = IF p = sess.p THEN b ELSE box[p]
  BY <1>1, <1>2 DEF IInv, TypeOK, b
<1>6. StartedIsOwed'
  BY <1>1, <1>3, <1>5 DEF IInv, StartedIsOwed, UninstallRemove, ledgerVars
<1>7. sess' \in Sessions /\ out' \in {"none", "ok", "fail"} /\ SessionInv' /\ ClearedInv'
  <2>1. Gone(r) => b = NoBox
    <3>1. ~Stands(sess.p) => box[sess.p] = NoBox
      BY <1>1 DEF IInv, NonceInv
    <3> QED BY <1>2, <3>1 DEF Gone, Done, Calls, AfterRemove, AfterStop, NoBox, b
  <2>2. CASE b = NoBox /\ Goto("forget")
    <3>1. /\ sess' \in Sessions /\ out' = out /\ sess'.pc = "forget" /\ sess'.verb = sess.verb
          /\ sess'.p = sess.p /\ sess'.nonce = sess.nonce /\ sess'.done = sess.done
      BY <1>1, <2>2, GotoKeeps DEF PCs
    <3>2. SessionInv'
      BY <1>1, <3>1 DEF IInv, SessionInv, At, UninstallRemove, Creators, ledgerVars
    <3>3. box'[sess'.p] = NoBox /\ sess'.done = {}
      BY <1>1, <1>5, <2>2, <3>1 DEF IInv, SessionInv, UninstallRemove
    <3>4. ClearedInv'
      BY <3>1, <3>3 DEF ClearedInv, Cleared, At, Own, Stands, NoBox
    <3> QED BY <3>1, <3>2, <3>4 DEF IInv, TypeOK
  <2>3. CASE Finish("fail")
    BY <2>3, FinishInv
  <2> QED BY <1>2, <2>1, <2>2, <2>3
<1> QED BY <1>4, <1>6, <1>7 DEF IInv, TypeOK, UninstallRemove, ledgerVars

LEMMA FamilyRemoveKeeps == IInv /\ FamilyRemove => IInv'
<1> SUFFICES ASSUME IInv, FamilyRemove PROVE IInv'
  OBVIOUS
<1>1. /\ sess \in Sessions /\ sess.p \in Products /\ box[sess.p] \in Boxes
      /\ sess.verb = "family"
  BY DEF IInv, TypeOK, SessionInv, FamilyRemove, At
<1>2. PICK halted \in BOOLEAN, r \in Calls :
        /\ box' = [box EXCEPT ![sess.p] = AfterRemove(@, halted, Done(r))]
        /\ sess' = IF Gone(r)
                   THEN [sess EXCEPT !.pc = "family", !.done = @ \cup {sess.p}]
                   ELSE [sess EXCEPT !.pc = "family", !.kept = TRUE]
  BY DEF FamilyRemove
<1> DEFINE b == AfterRemove(box[sess.p], halted, Done(r))
<1>3. /\ b \in Boxes /\ Follows(b, box[sess.p])
      /\ b.unproved \in {box[sess.p].unproved, "no"}
  BY <1>1, CallsFollow DEF Done, Calls
<1>4. Gone(r) => b = NoBox
  <2>1. ~Stands(sess.p) => box[sess.p] = NoBox
    BY <1>1 DEF IInv, NonceInv
  <2> QED BY <1>2, <2>1 DEF Gone, Done, Calls, AfterRemove, AfterStop, NoBox
<1> HIDE DEF b
<1>5. /\ box' \in [Products -> Boxes]
      /\ NonceInv' /\ OwnAccounted' /\ TombstoneIsTrue' /\ ConfirmedIsWanted'
  BY <1>1, <1>2, <1>3, BoxStep DEF FamilyRemove, ledgerVars, b
<1>6. \A p \in Products : box'[p] = IF p = sess.p THEN b ELSE box[p]
  BY <1>1, <1>2 DEF IInv, TypeOK, b
<1>7. StartedIsOwed'
  BY <1>1, <1>3, <1>6 DEF IInv, StartedIsOwed, FamilyRemove, ledgerVars
<1>8. /\ sess' \in Sessions /\ sess'.pc = "family" /\ sess'.verb = "family" /\ sess'.p = sess.p
      /\ sess'.done = IF Gone(r) THEN sess.done \cup {sess.p} ELSE sess.done
  <2>1. CASE Gone(r)
    BY <1>1, <1>2, <2>1 DEF Sessions, PCs
  <2>2. CASE ~Gone(r)
    BY <1>1, <1>2, <2>2 DEF Sessions, PCs
  <2> QED BY <2>1, <2>2
<1>9. SessionInv'
  BY <1>1, <1>8 DEF IInv, SessionInv, At, Creators, AllVerbs, FamilyRemove
<1>10. ClearedInv'
  <2>1. ASSUME NEW p \in Products, p \in sess.done PROVE Cleared(p)'
    <3>1. Cleared(p)
      BY <2>1 DEF IInv, ClearedInv
    <3>2. CASE p # sess.p
      BY <1>6, <3>1, <3>2 DEF Cleared, Own, Stands, FamilyRemove, ledgerVars
    <3>3. CASE p = sess.p
      BY <1>1, <1>3, <1>6, <3>1, <3>3, Clearing DEF Cleared, FamilyRemove, ledgerVars
    <3> QED BY <3>2, <3>3
  <2>2. ASSUME NEW p \in Products, p = sess.p, Gone(r) PROVE Cleared(p)'
    BY <1>4, <1>6, <2>2 DEF Cleared, Own, Stands, NoBox
  <2>3. sess.done \subseteq Products
    BY <1>1 DEF Sessions
  <2> QED BY <1>1, <1>8, <2>1, <2>2, <2>3 DEF ClearedInv, At
<1> QED BY <1>5, <1>7, <1>8, <1>9, <1>10 DEF IInv, TypeOK, FamilyRemove, ledgerVars

LEMMA VerifyLiveKeeps == IInv /\ VerifyLive => IInv'
<1> SUFFICES ASSUME IInv, VerifyLive PROVE IInv'
  OBVIOUS
<1>1. sess \in Sessions /\ sess.p \in Products /\ box[sess.p] \in Boxes
  BY DEF IInv, TypeOK, SessionInv, VerifyLive, At
<1>2. CASE Finish("fail") /\ UNCHANGED <<box, owed, resumed>>
  BY <1>2, FinishOnly DEF VerifyLive, ledgerVars, daemonVars
<1>3. CASE /\ box[sess.p].st = "running" /\ box[sess.p].net
           /\ box' = [box EXCEPT ![sess.p].unproved = "no"]
           /\ owed' = [owed EXCEPT ![sess.p] = FALSE]
           /\ resumed' = [resumed EXCEPT ![sess.p] = FALSE]
           /\ IF sess.verb = "install" THEN Goto("member") ELSE Finish("ok")
  <2> DEFINE b == [box[sess.p] EXCEPT !.unproved = "no"]
  <2>1. b \in Boxes /\ Follows(b, box[sess.p]) /\ b.unproved = "no"
    BY <1>1, <1>3 DEF Boxes, Follows
  <2> HIDE DEF b
  <2>2. /\ box' \in [Products -> Boxes]
        /\ NonceInv' /\ OwnAccounted' /\ TombstoneIsTrue' /\ ConfirmedIsWanted'
    BY <1>1, <1>3, <2>1, BoxStep DEF VerifyLive, b
  <2>3. \A p \in Products : box'[p] = IF p = sess.p THEN b ELSE box[p]
    BY <1>1, <1>3 DEF IInv, TypeOK, b
  <2>4. StartedIsOwed'
    BY <1>1, <1>3, <2>1, <2>3 DEF IInv, TypeOK, StartedIsOwed
  <2>5. sess' \in Sessions /\ out' \in {"none", "ok", "fail"} /\ SessionInv' /\ ClearedInv'
    <3>1. CASE Finish("ok")
      BY <3>1, FinishInv
    <3>2. CASE Goto("member")
      <4>1. /\ sess' \in Sessions /\ out' = out /\ sess'.pc = "member"
            /\ sess'.verb = sess.verb /\ sess'.p = sess.p /\ sess'.done = sess.done
        BY <1>1, <3>2, GotoKeeps DEF PCs
      <4>2. SessionInv'
        BY <1>1, <1>3, <4>1 DEF IInv, TypeOK, SessionInv, At, VerifyLive
      <4>3. ClearedInv'
        BY <4>1 DEF IInv, ClearedInv, SessionInv, At, VerifyLive
      <4> QED BY <4>1, <4>2, <4>3 DEF IInv, TypeOK
    <3> QED BY <1>3, <3>1, <3>2
  <2>6. owed' \in [Products -> BOOLEAN] /\ resumed' \in [Products -> BOOLEAN]
    BY <1>3 DEF IInv, TypeOK
  <2> QED BY <2>2, <2>4, <2>5, <2>6 DEF IInv, TypeOK, VerifyLive
<1> QED BY <1>2, <1>3 DEF VerifyLive

LEMMA VerifyUnsavedKeeps == IInv /\ VerifyUnsaved => IInv'
<1> SUFFICES ASSUME IInv, VerifyUnsaved PROVE IInv'
  OBVIOUS
<1>1. sess \in Sessions /\ sess.p \in Products /\ box[sess.p] \in Boxes
  BY DEF IInv, TypeOK, SessionInv, VerifyUnsaved, At
<1> DEFINE b == [box[sess.p] EXCEPT !.unproved = "no"]
<1>2. b \in Boxes /\ Follows(b, box[sess.p]) /\ b.unproved = "no"
  BY <1>1 DEF Boxes, Follows, VerifyUnsaved
<1> HIDE DEF b
<1>3. /\ box' \in [Products -> Boxes]
      /\ NonceInv' /\ OwnAccounted' /\ TombstoneIsTrue' /\ ConfirmedIsWanted'
  BY <1>1, <1>2, BoxStep DEF VerifyUnsaved, ledgerVars, b
<1>4. \A p \in Products : box'[p] = IF p = sess.p THEN b ELSE box[p]
  BY <1>1 DEF IInv, TypeOK, VerifyUnsaved, b
<1>5. StartedIsOwed'
  BY <1>1, <1>2, <1>4 DEF IInv, StartedIsOwed, VerifyUnsaved, ledgerVars
<1>6. sess' \in Sessions /\ out' \in {"none", "ok", "fail"} /\ SessionInv' /\ ClearedInv'
  BY FinishInv DEF VerifyUnsaved
<1> QED BY <1>3, <1>5, <1>6 DEF IInv, TypeOK, VerifyUnsaved, ledgerVars

-----------------------------------------------------------------------------
(* The steps that write a record, or create.                                *)

LEMMA StateIntentKeeps == IInv /\ StateIntent => IInv'
<1> SUFFICES ASSUME IInv, StateIntent PROVE IInv'
  OBVIOUS
<1> DEFINE p == sess.p
<1>1. sess \in Sessions /\ p \in Products /\ sess.verb \in {"start", "stop", "restart"}
  BY DEF IInv, TypeOK, SessionInv, StateIntent, At
<1>2. PICK pc \in {"plan", "halt"} : Goto(pc) /\ (pc = "plan" <=> sess.verb = "start")
  BY DEF StateIntent
<1>3. /\ sess' \in Sessions /\ out' = out /\ sess'.pc = pc /\ sess'.verb = sess.verb
      /\ sess'.p = p /\ sess'.done = sess.done
  BY <1>1, <1>2, GotoKeeps DEF PCs
<1>4. /\ desired' \in [Products -> {"none", "running", "stopped"}]
      /\ owed' \in [Products -> BOOLEAN] /\ resumed' \in [Products -> BOOLEAN]
  BY DEF IInv, TypeOK, StateIntent, Commit
<1>5. /\ \A q \in Products : desired[q] # "none" => desired'[q] # "none"
      /\ \A q \in Products : owed[q] => owed'[q]
      /\ (sess.verb # "stop" => owed'[p] /\ desired'[p] = "running") /\ ~resumed'[p]
  BY <1>1 DEF IInv, TypeOK, StateIntent, Commit
<1>6. SessionInv'
  BY <1>1, <1>2, <1>3, <1>5 DEF SessionInv, At, AllVerbs, Creators, IInv, StateIntent
<1>7. ClearedInv'
  BY <1>1, <1>2, <1>3 DEF ClearedInv, At, IInv, SessionInv
<1>8. NonceInv' /\ OwnAccounted' /\ TombstoneIsTrue'
  BY DEF IInv, NonceInv, OwnAccounted, TombstoneIsTrue, StateIntent, Own, Stands, daemonVars
<1>9. StartedIsOwed' /\ ConfirmedIsWanted'
  BY <1>5 DEF IInv, StartedIsOwed, ConfirmedIsWanted, StateIntent, Own, Stands, daemonVars
<1> QED BY <1>3, <1>4, <1>6, <1>7, <1>8, <1>9 DEF IInv, TypeOK, StateIntent, daemonVars

LEMMA OpenIntentKeeps == IInv /\ OpenIntent => IInv'
<1> SUFFICES ASSUME IInv, OpenIntent PROVE IInv'
  OBVIOUS
<1>1. /\ sess \in Sessions /\ sess.p \in Products /\ sess.verb \in Creators
      /\ nonces \in Nat /\ nonces < MaxNonce /\ nonces' = nonces + 1 /\ nonces' \in Nonces
  BY DEF IInv, TypeOK, SessionInv, OpenIntent, At
<1>2. /\ \A q \in Products : intent'[q] = IF q = sess.p THEN nonces' ELSE intent[q]
      /\ intent' \in [Products -> Nonces \cup {NoNonce}]
      /\ lost \subseteq lost' /\ (intent[sess.p] # NoNonce => intent[sess.p] \in lost')
      /\ lost' \subseteq Nonces
  BY <1>1 DEF IInv, TypeOK, OpenIntent
<1>3. /\ sess' \in Sessions /\ sess'.pc = "create" /\ sess'.verb = sess.verb
      /\ sess'.p = sess.p /\ sess'.nonce = nonces' /\ sess'.done = sess.done
  BY <1>1 DEF OpenIntent, Sessions, PCs
<1>4. UNCHANGED <<ident, prov, tomb, desired, owed, resumed, member, box, inflight, out>>
  BY DEF OpenIntent, daemonVars
<1>5. /\ \A q \in Products : /\ prov[q] <= nonces /\ tomb[q] <= nonces /\ box[q].nonce <= nonces
                             /\ prov[q] \in Nat /\ tomb[q] \in Nat /\ box[q].nonce \in Nat
                             /\ intent[q] <= nonces /\ intent[q] \in Nat
      /\ \A q \in Products, n \in Nonces : <<q, n>> \in inflight => n <= nonces
  BY DEF IInv, TypeOK, NonceInv, Boxes
<1>6. SessionInv'
  <2>1. <<sess'.p, sess'.nonce>> \notin inflight'
    BY <1>1, <1>3, <1>4, <1>5
  <2>2. box'[sess'.p].nonce # sess'.nonce
    BY <1>1, <1>3, <1>4, <1>5
  <2>3. (sess.verb = "recreate" => desired[sess.p] # "none") /\ out = "none"
    BY DEF IInv, SessionInv, OpenIntent, At
  <2> QED BY <1>1, <1>2, <1>3, <1>4, <2>1, <2>2, <2>3
          DEF IInv, SessionInv, At, Creators, AllVerbs
<1>7. ClearedInv'
  BY <1>1, <1>3 DEF IInv, SessionInv, ClearedInv, At, Creators
<1>8. NonceInv'
  <2>1. ASSUME NEW q \in Products
        PROVE  /\ intent'[q] <= nonces' /\ prov'[q] <= nonces' /\ tomb'[q] <= nonces'
               /\ box'[q].nonce <= nonces'
               /\ prov'[q] # NoNonce => prov'[q] # intent'[q]
               /\ tomb'[q] # NoNonce => tomb'[q] # intent'[q]
    BY <1>1, <1>2, <1>4, <1>5 DEF IInv, NonceInv
  <2>2. ASSUME NEW q \in Products
        PROVE  (Own(q) => box[q].nonce # NoNonce) /\ (~Stands(q) => box[q] = NoBox)
    BY DEF IInv, NonceInv
  <2>3. ASSUME NEW q \in Products, NEW n \in Nonces, <<q, n>> \in inflight
        PROVE  /\ n <= nonces' /\ (n = intent'[q] \/ n \in lost')
               /\ n # prov[q] /\ n # tomb[q]
    BY <1>1, <1>2, <1>5, <2>3 DEF IInv, NonceInv
  <2> QED BY <1>4, <2>1, <2>2, <2>3 DEF NonceInv, Own, Stands
<1>9. OwnAccounted'
  <2>1. ASSUME NEW q \in Products, Own(q)
        PROVE  box[q].nonce \in {prov[q], intent'[q]} \cup lost'
    <3>1. box[q].nonce \in {prov[q], intent[q]} \cup lost /\ box[q].nonce # NoNonce
      BY <2>1 DEF IInv, OwnAccounted, NonceInv
    <3> QED BY <1>2, <3>1
  <2> QED BY <1>4, <2>1 DEF OwnAccounted, Own, Stands
<1>10. TombstoneIsTrue' /\ StartedIsOwed' /\ ConfirmedIsWanted'
  BY <1>4 DEF IInv, TombstoneIsTrue, StartedIsOwed, ConfirmedIsWanted, Own, Stands
<1> QED BY <1>1, <1>2, <1>3, <1>4, <1>6, <1>7, <1>8, <1>9, <1>10 DEF IInv, TypeOK

\* A create that is carried out puts down a container its intent, or a lost
\* intent, accounts for, and that no other record names.
LEMMA BuiltStep ==
    ASSUME IInv, NEW q \in Products, NEW n \in Nonces, NEW net \in BOOLEAN,
           n <= nonces, n = intent[q] \/ n \in lost, n # prov[q], n # tomb[q],
           box' = [box EXCEPT ![q] = Built(n, net)],
           UNCHANGED <<intent, prov, tomb, desired, owed, nonces, lost>>,
           inflight' \subseteq inflight
    PROVE  /\ box' \in [Products -> Boxes]
           /\ NonceInv' /\ OwnAccounted' /\ TombstoneIsTrue' /\ StartedIsOwed' /\ ConfirmedIsWanted'
<1>1. /\ Built(n, net) \in Boxes /\ Built(n, net).st = "stopped"
      /\ Built(n, net).label = "ours" /\ Built(n, net).nonce = n
      /\ Built(n, net).unproved = "no"
  BY DEF Built, Boxes
<1>2. /\ box' \in [Products -> Boxes]
      /\ \A p \in Products : box'[p] = IF p = q THEN Built(n, net) ELSE box[p]
  BY <1>1 DEF IInv, TypeOK
<1>3. NonceInv'
  BY <1>1, <1>2 DEF IInv, NonceInv, Own, Stands
<1>4. OwnAccounted' /\ TombstoneIsTrue'
  BY <1>1, <1>2 DEF IInv, OwnAccounted, TombstoneIsTrue, Own, Stands
<1>5. StartedIsOwed' /\ ConfirmedIsWanted'
  BY <1>1, <1>2 DEF IInv, StartedIsOwed, ConfirmedIsWanted, Own, Stands
<1> QED BY <1>2, <1>3, <1>4, <1>5

LEMMA LaunchAnsweredKeeps ==
    ASSUME IInv, NEW net \in BOOLEAN, LaunchAnswered(net)
    PROVE  IInv'
<1>1. /\ sess \in Sessions /\ sess.p \in Products /\ sess.nonce \in Nonces
      /\ sess.nonce = intent[sess.p]
  BY DEF IInv, TypeOK, SessionInv, LaunchAnswered, At, Sessions
<1>2. /\ sess.nonce <= nonces /\ sess.nonce # prov[sess.p] /\ sess.nonce # tomb[sess.p]
  BY <1>1 DEF IInv, NonceInv
<1>3. /\ box' \in [Products -> Boxes]
      /\ NonceInv' /\ OwnAccounted' /\ TombstoneIsTrue' /\ StartedIsOwed' /\ ConfirmedIsWanted'
  BY <1>1, <1>2, BuiltStep DEF LaunchAnswered, ledgerVars
<1>4. /\ sess' \in Sessions /\ out' = out /\ sess'.pc = "attach" /\ sess'.verb = sess.verb
      /\ sess'.p = sess.p /\ sess'.nonce = sess.nonce /\ sess'.done = sess.done
  BY <1>1, GotoKeeps DEF LaunchAnswered, PCs
<1>5. SessionInv'
  BY <1>4 DEF IInv, SessionInv, At, LaunchAnswered, ledgerVars
<1>6. ClearedInv'
  BY <1>4 DEF IInv, SessionInv, ClearedInv, At, LaunchAnswered, Creators
<1> QED BY <1>3, <1>4, <1>5, <1>6 DEF IInv, TypeOK, LaunchAnswered, ledgerVars

LEMMA LaunchLostKeeps == IInv /\ LaunchLost => IInv'
<1> SUFFICES ASSUME IInv, LaunchLost PROVE IInv'
  OBVIOUS
<1>1. /\ sess.p \in Products /\ sess.nonce \in Nonces /\ sess.nonce = intent[sess.p]
      /\ sess.nonce <= nonces /\ sess.nonce # prov[sess.p] /\ sess.nonce # tomb[sess.p]
  BY DEF IInv, TypeOK, SessionInv, NonceInv, LaunchLost, At, Sessions
<1>2. sess' \in Sessions /\ out' \in {"none", "ok", "fail"} /\ SessionInv' /\ ClearedInv'
  BY FinishInv DEF LaunchLost
<1>3. NonceInv'
  BY <1>1 DEF IInv, NonceInv, LaunchLost, ledgerVars, Own, Stands
<1>4. OwnAccounted' /\ TombstoneIsTrue' /\ StartedIsOwed' /\ ConfirmedIsWanted'
  BY DEF IInv, OwnAccounted, TombstoneIsTrue, StartedIsOwed, ConfirmedIsWanted,
         LaunchLost, ledgerVars, Own, Stands
<1> QED BY <1>1, <1>2, <1>3, <1>4 DEF IInv, TypeOK, LaunchLost, ledgerVars

LEMMA ConfirmKeeps == IInv /\ Confirm => IInv'
<1> SUFFICES ASSUME IInv, Confirm PROVE IInv'
  OBVIOUS
<1>1. /\ sess \in Sessions /\ sess.p \in Products /\ sess.verb \in Creators
      /\ sess.nonce \in Nonces /\ sess.nonce = intent[sess.p]
      /\ <<sess.p, sess.nonce>> \notin inflight
      /\ sess.verb = "recreate" => desired[sess.p] # "none"
  BY DEF IInv, TypeOK, SessionInv, Confirm, At, Sessions
<1>2. PICK want \in {"running", "stopped"} :
        /\ Commit(sess.p, want, TRUE)
        /\ IF want = "running" THEN Goto("start") ELSE Finish("ok")
  BY <1>1 DEF Confirm, Creators, IInv, TypeOK
<1>3. /\ desired' \in [Products -> {"none", "running", "stopped"}]
      /\ owed' \in [Products -> BOOLEAN] /\ resumed' \in [Products -> BOOLEAN]
      /\ prov' \in [Products -> Nonces \cup {NoNonce}]
      /\ tomb' \in [Products -> Nonces \cup {NoNonce}]
      /\ intent' \in [Products -> Nonces \cup {NoNonce}]
  BY <1>1, <1>2 DEF Commit, IInv, TypeOK, Confirm
<1>4. \A q \in Products :
        /\ desired'[q] = IF q = sess.p THEN want ELSE desired[q]
        /\ owed'[q] = IF q = sess.p THEN TRUE ELSE owed[q]
        /\ prov'[q] = IF q = sess.p THEN sess.nonce ELSE prov[q]
        /\ tomb'[q] = IF q = sess.p THEN NoNonce ELSE tomb[q]
        /\ intent'[q] = IF q = sess.p THEN NoNonce ELSE intent[q]
  BY <1>1, <1>2 DEF Commit, IInv, TypeOK, Confirm
<1>5. UNCHANGED <<ident, member, box, inflight, nonces, lost>> /\ box[sess.p].nonce = sess.nonce
  BY DEF Confirm, daemonVars, ProvenOurs
<1>6. sess' \in Sessions /\ out' \in {"none", "ok", "fail"} /\ SessionInv' /\ ClearedInv'
  <2>1. CASE Finish("ok")
    BY <2>1, FinishInv
  <2>2. CASE want = "running" /\ Goto("start")
    <3>1. /\ sess' \in Sessions /\ out' = out /\ sess'.pc = "start"
          /\ sess'.verb = sess.verb /\ sess'.p = sess.p /\ sess'.done = sess.done
      BY <1>1, <2>2, GotoKeeps DEF PCs
    <3>2. owed'[sess.p] /\ desired'[sess.p] = "running"
      BY <1>1, <1>4, <2>2
    <3>3. sess.verb # "family" /\ sess.done = {} /\ out = "none" /\ sess.verb \in AllVerbs
      BY <1>1 DEF IInv, SessionInv, Confirm, At, Creators, AllVerbs
    <3>4. SessionInv'
      BY <1>1, <3>1, <3>2, <3>3 DEF SessionInv, At
    <3>5. ClearedInv'
      BY <1>1, <3>1, <3>3 DEF ClearedInv, At
    <3> QED BY <3>1, <3>4, <3>5 DEF IInv, TypeOK
  <2> QED BY <1>2, <2>1, <2>2
<1>7. NonceInv'
  <2>1. ASSUME NEW q \in Products
        PROVE  /\ intent'[q] <= nonces' /\ prov'[q] <= nonces' /\ tomb'[q] <= nonces'
               /\ box'[q].nonce <= nonces'
               /\ prov'[q] # NoNonce => prov'[q] # intent'[q]
               /\ tomb'[q] # NoNonce => tomb'[q] # intent'[q]
    <3>1. /\ intent[q] <= nonces /\ prov[q] <= nonces /\ tomb[q] <= nonces
          /\ box[q].nonce <= nonces /\ sess.nonce <= nonces /\ 0 <= nonces
          /\ prov[q] # NoNonce => prov[q] # intent[q]
          /\ tomb[q] # NoNonce => tomb[q] # intent[q]
      BY <1>1 DEF IInv, TypeOK, NonceInv
    <3>2. CASE q = sess.p
      BY <1>1, <1>4, <1>5, <3>1, <3>2
    <3>3. CASE q # sess.p
      BY <1>4, <1>5, <3>1, <3>3
    <3> QED BY <3>2, <3>3
  <2>2. ASSUME NEW q \in Products
        PROVE  (Own(q) => box[q].nonce # NoNonce) /\ (~Stands(q) => box[q] = NoBox)
    BY DEF IInv, NonceInv
  <2>3. ASSUME NEW q \in Products, NEW n \in Nonces, <<q, n>> \in inflight
        PROVE  /\ n <= nonces /\ (n = intent'[q] \/ n \in lost)
               /\ n # prov'[q] /\ n # tomb'[q]
    <3>1. /\ n <= nonces /\ (n = intent[q] \/ n \in lost)
          /\ n # prov[q] /\ n # tomb[q] /\ n # 0
      BY <2>3 DEF IInv, NonceInv
    <3>2. q = sess.p => n # sess.nonce
      BY <1>1, <2>3
    <3> QED BY <1>1, <1>4, <3>1, <3>2
  <2> QED BY <1>5, <2>1, <2>2, <2>3 DEF NonceInv, Own, Stands
<1>8. OwnAccounted' /\ TombstoneIsTrue'
  <2>1. Own(sess.p) => box[sess.p].nonce \in {prov'[sess.p], intent'[sess.p]}
    BY <1>1, <1>4, <1>5
  <2>2. ASSUME NEW q \in Products, Own(q) PROVE box[q].nonce \in {prov'[q], intent'[q]} \cup lost
    <3>1. CASE q = sess.p
      BY <2>1, <2>2, <3>1
    <3>2. CASE q # sess.p
      BY <1>4, <2>2, <3>2 DEF IInv, OwnAccounted
    <3> QED BY <3>1, <3>2
  <2>3. ASSUME NEW q \in Products, tomb'[q] # NoNonce PROVE ~(Own(q) /\ box[q].nonce = tomb'[q])
    <3>1. q # sess.p /\ tomb'[q] = tomb[q]
      BY <1>4, <2>3
    <3> QED BY <2>3, <3>1 DEF IInv, TombstoneIsTrue
  <2> QED BY <1>5, <2>2, <2>3 DEF OwnAccounted, TombstoneIsTrue, Own, Stands
<1>9. StartedIsOwed'
  <2>1. ASSUME NEW q \in Products, box[q].unproved = "bringup" PROVE owed'[q]
    <3>1. owed[q]
      BY <2>1 DEF IInv, StartedIsOwed
    <3>2. CASE q = sess.p
      BY <1>4, <3>2
    <3>3. CASE q # sess.p
      BY <1>4, <3>1, <3>3
    <3> QED BY <3>2, <3>3
  <2> QED BY <1>5, <2>1 DEF StartedIsOwed
<1>10. ConfirmedIsWanted'
  <2>1. ASSUME NEW q \in Products, Own(q), prov'[q] # NoNonce, box[q].nonce = prov'[q]
        PROVE desired'[q] # "none"
    <3>1. CASE q = sess.p
      BY <1>2, <1>4, <3>1
    <3>2. CASE q # sess.p
      <4>1. prov'[q] = prov[q] /\ desired'[q] = desired[q]
        BY <1>4, <3>2
      <4> QED BY <2>1, <4>1 DEF IInv, ConfirmedIsWanted
    <3> QED BY <3>1, <3>2
  <2> QED BY <1>5, <2>1 DEF ConfirmedIsWanted, Own, Stands
<1> QED BY <1>3, <1>5, <1>6, <1>7, <1>8, <1>9, <1>10 DEF IInv, TypeOK

LEMMA ForgottenKeeps == IInv /\ Forgotten => IInv'
<1> SUFFICES ASSUME IInv, Forgotten PROVE IInv'
  OBVIOUS
<1>1. sess.p \in Products /\ Cleared(sess.p)
  BY DEF IInv, SessionInv, ClearedInv, Forgotten, At
<1>2. sess' \in Sessions /\ out' \in {"none", "ok", "fail"} /\ SessionInv' /\ ClearedInv'
  BY FinishInv DEF Forgotten
<1>3. /\ tomb' \in [Products -> Nonces \cup {NoNonce}]
      /\ prov' \in [Products -> Nonces \cup {NoNonce}]
      /\ desired' \in [Products -> {"none", "running", "stopped"}]
      /\ owed' \in [Products -> BOOLEAN] /\ resumed' \in [Products -> BOOLEAN]
  BY DEF Forgotten, Forget, IInv, TypeOK
<1>4. \A q \in Products :
        /\ desired'[q] = IF q = sess.p THEN "none" ELSE desired[q]
        /\ q # sess.p => (owed'[q] <=> owed[q])
        /\ prov'[q] = IF q = sess.p THEN NoNonce ELSE prov[q]
        /\ tomb'[q] = IF q = sess.p /\ prov[q] # NoNonce THEN prov[q] ELSE tomb[q]
  BY DEF Forgotten, Forget, IInv, TypeOK
<1>5. UNCHANGED <<ident, intent, member, box, inflight, nonces, lost>>
  BY DEF Forgotten, daemonVars
<1>6. NonceInv'
  <2>1. \A q \in Products :
          /\ intent[q] <= nonces /\ prov'[q] <= nonces /\ tomb'[q] <= nonces
          /\ prov'[q] # NoNonce => prov'[q] # intent[q]
          /\ tomb'[q] # NoNonce => tomb'[q] # intent[q]
    BY <1>4 DEF IInv, TypeOK, NonceInv
  <2>2. \A q \in Products, n \in Nonces : <<q, n>> \in inflight => n # prov'[q] /\ n # tomb'[q]
    BY <1>4 DEF IInv, NonceInv
  <2> QED BY <1>5, <2>1, <2>2 DEF IInv, NonceInv, Own, Stands
<1>7. OwnAccounted' /\ TombstoneIsTrue'
  BY <1>1, <1>4, <1>5 DEF IInv, NonceInv, OwnAccounted, TombstoneIsTrue, Cleared, Own, Stands
<1>8. StartedIsOwed' /\ ConfirmedIsWanted'
  BY <1>1, <1>4, <1>5 DEF IInv, StartedIsOwed, ConfirmedIsWanted, Cleared, Own, Stands
<1> QED BY <1>2, <1>3, <1>5, <1>6, <1>7, <1>8 DEF IInv, TypeOK

LEMMA FamilyWrittenKeeps == IInv /\ FamilyWritten => IInv'
<1> SUFFICES ASSUME IInv, FamilyWritten PROVE IInv'
  OBVIOUS
<1>1. /\ sess \in Sessions /\ sess.p \in Products /\ sess.verb = "family"
      /\ \A q \in sess.done : Cleared(q)
  BY DEF IInv, TypeOK, SessionInv, ClearedInv, FamilyWritten, At
<1>2. /\ desired' \in [Products -> {"none", "running", "stopped"}]
      /\ owed' \in [Products -> BOOLEAN] /\ resumed' \in [Products -> BOOLEAN]
  BY DEF FamilyWritten, Forget, IInv, TypeOK
<1>3. \A q \in Products : q \notin sess.done => desired'[q] = desired[q] /\ (owed'[q] <=> owed[q])
  BY DEF FamilyWritten, Forget, IInv, TypeOK
<1>4. UNCHANGED <<ident, intent, prov, tomb, member, box, inflight, nonces, lost>>
  BY DEF FamilyWritten, daemonVars
<1>5. sess' \in Sessions /\ out' \in {"none", "ok", "fail"} /\ SessionInv' /\ ClearedInv'
  <2>1. CASE Finish("fail")
    BY <2>1, FinishInv
  <2>2. CASE Goto("reset")
    <3>1. /\ sess' \in Sessions /\ out' = out /\ sess'.pc = "reset"
          /\ sess'.verb = sess.verb /\ sess'.p = sess.p /\ sess'.done = sess.done
      BY <1>1, <2>2, GotoKeeps DEF PCs
    <3>2. SessionInv'
      BY <1>1, <3>1 DEF IInv, SessionInv, At, Creators, AllVerbs, FamilyWritten
    <3>3. ClearedInv'
      BY <1>1, <1>4, <3>1 DEF ClearedInv, Cleared, At, Own, Stands
    <3> QED BY <3>1, <3>2, <3>3 DEF IInv, TypeOK
  <2> QED BY <2>1, <2>2 DEF FamilyWritten
<1>6. NonceInv' /\ OwnAccounted' /\ TombstoneIsTrue'
  BY <1>4 DEF IInv, NonceInv, OwnAccounted, TombstoneIsTrue, Own, Stands
<1>7. StartedIsOwed' /\ ConfirmedIsWanted'
  BY <1>1, <1>3, <1>4 DEF IInv, StartedIsOwed, ConfirmedIsWanted, Cleared, Own, Stands
<1> QED BY <1>2, <1>4, <1>5, <1>6, <1>7 DEF IInv, TypeOK

LEMMA LedgerResetKeeps == IInv /\ LedgerReset => IInv'
<1> SUFFICES ASSUME IInv, LedgerReset PROVE IInv'
  OBVIOUS
<1>1. sess' \in Sessions /\ out' \in {"none", "ok", "fail"} /\ SessionInv' /\ ClearedInv'
  BY FinishInv DEF LedgerReset
<1>2. /\ NoBox \in Boxes /\ NoBox.st = "absent" /\ NoBox.nonce = 0 /\ NoBox.unproved = "no"
  BY DEF NoBox, Boxes
<1>3. /\ \A q \in Products : /\ intent'[q] = 0 /\ prov'[q] = 0 /\ tomb'[q] = 0 /\ box'[q] = NoBox
      /\ inflight' = {} /\ nonces' = nonces
  BY DEF LedgerReset
<1>4. /\ desired' \in [Products -> {"none", "running", "stopped"}]
      /\ owed' \in [Products -> BOOLEAN] /\ resumed' \in [Products -> BOOLEAN]
  BY DEF LedgerReset, Forget, IInv, TypeOK
<1>5. TypeOK'
  <2>1. /\ intent' \in [Products -> Nonces \cup {NoNonce}]
        /\ prov' \in [Products -> Nonces \cup {NoNonce}]
        /\ tomb' \in [Products -> Nonces \cup {NoNonce}]
        /\ box' \in [Products -> Boxes]
    BY <1>2 DEF LedgerReset
  <2> QED BY <1>1, <1>4, <2>1 DEF LedgerReset, IInv, TypeOK
<1>6. NonceInv'
  BY <1>2, <1>3 DEF NonceInv, Own, Stands, IInv, TypeOK
<1>7. OwnAccounted' /\ TombstoneIsTrue' /\ StartedIsOwed' /\ ConfirmedIsWanted'
  BY <1>2, <1>3 DEF OwnAccounted, TombstoneIsTrue, StartedIsOwed, ConfirmedIsWanted, Own, Stands
<1> QED BY <1>1, <1>5, <1>6, <1>7 DEF IInv

-----------------------------------------------------------------------------
(* The daemon and the outside actors.                                       *)

\* A step that leaves the session and the ledger alone keeps the parts of the
\* invariant that speak of the session: what it makes ours was in flight.
LEMMA OutsideSession ==
    ASSUME IInv, UNCHANGED <<ledgerVars, sess, out, nonces>>, inflight' \subseteq inflight,
           \A p \in Products :
              /\ Own(p)' => \/ Own(p) /\ box'[p].nonce = box[p].nonce
                            \/ /\ box'[p].nonce \in Nonces
                               /\ <<p, box'[p].nonce>> \in inflight
              /\ box'[p].unproved = "bringup" => box[p].unproved = "bringup"
    PROVE  SessionInv' /\ ClearedInv'
<1>1. SessionInv'
  <2>1. At("create") => ~(Own(sess.p)' /\ box'[sess.p].nonce = sess.nonce)
    BY DEF IInv, SessionInv, At
  <2> QED BY <2>1 DEF IInv, SessionInv, At, ledgerVars, Own, Stands
<1>2. ASSUME NEW p \in Products, Cleared(p) PROVE Cleared(p)'
  BY <1>2 DEF IInv, NonceInv, Cleared, ledgerVars
<1>3. ClearedInv'
  <2>1. sess.done \subseteq Products /\ (At("forget") => sess.p \in Products)
    BY DEF IInv, TypeOK, SessionInv, Sessions, At
  <2>2. sess' = sess
    OBVIOUS
  <2>3. ASSUME At("forget") PROVE Cleared(sess.p)'
    <3>1. PICK p \in Products : p = sess.p
      BY <2>1, <2>3
    <3>2. Cleared(p)'
      BY <1>2, <2>3, <3>1 DEF IInv, ClearedInv
    <3> QED BY <2>2, <3>1, <3>2 DEF Cleared, Own, Stands
  <2> QED BY <1>2, <2>1, <2>2, <2>3 DEF IInv, ClearedInv, At
<1> QED BY <1>1, <1>3

LEMMA MaterialiseKeeps ==
    ASSUME IInv, NEW p \in Products, NEW n \in Nonces, NEW net \in BOOLEAN,
           Materialise(p, n, net)
    PROVE  IInv'
<1>1. /\ n <= nonces /\ (n = intent[p] \/ n \in lost) /\ n # prov[p] /\ n # tomb[p]
  BY DEF IInv, NonceInv, Materialise
<1>2. /\ box' \in [Products -> Boxes]
      /\ NonceInv' /\ OwnAccounted' /\ TombstoneIsTrue' /\ StartedIsOwed' /\ ConfirmedIsWanted'
  BY <1>1, BuiltStep DEF Materialise, ledgerVars
<1>3. \A q \in Products : box'[q] = IF q = p THEN Built(n, net) ELSE box[q]
  BY DEF IInv, TypeOK, Materialise
<1>4. SessionInv' /\ ClearedInv'
  BY <1>3, OutsideSession DEF Materialise, Own, Stands, Built
<1> QED BY <1>2, <1>4 DEF IInv, TypeOK, Materialise, ledgerVars

LEMMA NeverReachedKeeps ==
    ASSUME IInv, NEW p \in Products, NEW n \in Nonces, NeverReached(p, n)
    PROVE  IInv'
<1>1. SessionInv' /\ ClearedInv'
  BY OutsideSession DEF NeverReached, Own, Stands
<1>2. NonceInv' /\ OwnAccounted' /\ TombstoneIsTrue' /\ StartedIsOwed' /\ ConfirmedIsWanted'
  BY DEF IInv, NonceInv, OwnAccounted, TombstoneIsTrue, StartedIsOwed, ConfirmedIsWanted,
         NeverReached, ledgerVars, Own, Stands
<1> QED BY <1>1, <1>2 DEF IInv, TypeOK, NeverReached, ledgerVars

\* A container becomes another that follows it and owes nothing new.
LEMMA BecomesKeeps ==
    ASSUME IInv, NEW p \in Products, NEW b \in Boxes, Follows(b, box[p]),
           b.unproved \in {box[p].unproved, "no"}, Becomes(p, b)
    PROVE  IInv'
<1>1. /\ box' \in [Products -> Boxes]
      /\ NonceInv' /\ OwnAccounted' /\ TombstoneIsTrue' /\ ConfirmedIsWanted'
  BY BoxStep DEF Becomes, ledgerVars
<1>2. \A q \in Products : box'[q] = IF q = p THEN b ELSE box[q]
  BY DEF IInv, TypeOK, Becomes
<1>3. StartedIsOwed'
  BY <1>2 DEF IInv, StartedIsOwed, Becomes, ledgerVars
<1>4. NoBox.st = "absent"
  BY DEF NoBox
<1>5. SessionInv' /\ ClearedInv'
  BY <1>2, <1>4, OutsideSession DEF Becomes, Own, Stands, Follows
<1> QED BY <1>1, <1>3, <1>5 DEF IInv, TypeOK, Becomes, ledgerVars

LEMMA BehindTheBackKeeps ==
    ASSUME IInv, NEW p \in Products, Exits(p) \/ Detached(p) \/ Removed(p)
    PROVE  IInv'
<1>1. box[p] \in Boxes
  BY DEF IInv, TypeOK
<1>2. CASE Exits(p)
  <2>1. /\ [box[p] EXCEPT !.st = "stopped"] \in Boxes
        /\ Follows([box[p] EXCEPT !.st = "stopped"], box[p])
        /\ [box[p] EXCEPT !.st = "stopped"].unproved = box[p].unproved
    BY <1>1, <1>2 DEF Boxes, Follows, Exits
  <2> QED BY <1>2, <2>1, BecomesKeeps DEF Exits
<1>3. CASE Detached(p)
  <2>1. /\ [box[p] EXCEPT !.net = FALSE] \in Boxes
        /\ Follows([box[p] EXCEPT !.net = FALSE], box[p])
        /\ [box[p] EXCEPT !.net = FALSE].unproved = box[p].unproved
    BY <1>1, <1>3 DEF Boxes, Follows, Detached, Stands
  <2> QED BY <1>3, <2>1, BecomesKeeps DEF Detached
<1>4. CASE Removed(p)
  <2>1. NoBox \in Boxes /\ Follows(NoBox, box[p]) /\ NoBox.unproved = "no"
    BY DEF NoBox, Boxes, Follows
  <2> QED BY <1>4, <2>1, BecomesKeeps DEF Removed
<1> QED BY <1>2, <1>3, <1>4

\* A container that is not ours takes a free name: nothing of ours was there.
LEMMA TakenKeeps ==
    ASSUME IInv, NEW p \in Products, NEW label \in {"other", "bare"}, Taken(p, label)
    PROVE  IInv'
<1>1. /\ Rival(label) \in Boxes /\ Rival(label).st = "stopped" /\ Rival(label).nonce = 0
      /\ Rival(label).label # "ours" /\ Rival(label).unproved = "no"
  BY DEF Rival, NoBox, Boxes
<1>2. /\ box' \in [Products -> Boxes]
      /\ \A q \in Products : box'[q] = IF q = p THEN Rival(label) ELSE box[q]
  BY <1>1 DEF IInv, TypeOK, Taken, Becomes
<1>3. \A q \in Products : /\ Own(q)' => Own(q) /\ box'[q] = box[q]
                          /\ box'[q].unproved = "bringup" => box[q].unproved = "bringup"
                          /\ ~Stands(q)' => box'[q] = box[q] /\ ~Stands(q)
                          /\ box'[q].nonce \in {box[q].nonce, 0}
  BY <1>1, <1>2 DEF Own, Stands
<1>4. UNCHANGED <<ledgerVars, inflight, sess, out, nonces, lost>>
  BY DEF Taken, Becomes
<1>5. SessionInv' /\ ClearedInv'
  BY <1>3, <1>4, OutsideSession
<1>6. NonceInv'
  BY <1>3, <1>4 DEF IInv, TypeOK, NonceInv, ledgerVars
<1>7. OwnAccounted' /\ TombstoneIsTrue' /\ StartedIsOwed' /\ ConfirmedIsWanted'
  BY <1>3, <1>4 DEF IInv, OwnAccounted, TombstoneIsTrue, StartedIsOwed, ConfirmedIsWanted, ledgerVars
<1> QED BY <1>2, <1>4, <1>5, <1>6, <1>7 DEF IInv, TypeOK, ledgerVars

-----------------------------------------------------------------------------
(* The invariant, and what follows from it.                                 *)

LEMMA StutterKeeps == IInv /\ UNCHANGED vars => IInv'
<1> SUFFICES ASSUME IInv, UNCHANGED vars PROVE IInv'
  OBVIOUS
<1>1. UNCHANGED <<ident, intent, prov, tomb, desired, owed, resumed, member, box, inflight,
                  sess, out, nonces, lost>>
  BY DEF vars, ledgerVars, daemonVars
<1>2. SessionInv'
  BY <1>1 DEF IInv, SessionInv, At, Stands, Own
<1>3. ClearedInv'
  BY <1>1 DEF IInv, ClearedInv, Cleared, Own, Stands, At
<1>4. /\ ident' \in BOOLEAN /\ resumed' \in [Products -> BOOLEAN] /\ member' \subseteq Products
      /\ sess' \in Sessions /\ out' \in {"none", "ok", "fail"}
  BY <1>1 DEF IInv, TypeOK
<1> QED BY <1>1, <1>2, <1>3, <1>4, SessionOnly DEF daemonVars

LEMMA NextKeeps == IInv /\ [Next]_vars => IInv'
<1> SUFFICES ASSUME IInv, [Next]_vars PROVE IInv'
  OBVIOUS
<1>1. CASE SessionStep
  BY <1>1, GateRefusesKeeps, GatePassesKeeps, FamilyListedKeeps, VerbAuthorityKeeps,
     StateIntentKeeps, HaltKeeps, ReconcileKeeps, StartKeeps, VerifyLiveKeeps, VerifyUnsavedKeeps,
     RecordMemberKeeps, ReplaceAuthorityKeeps, ReplaceRemoveKeeps, RestoreKeeps,
     OpenIntentKeeps, LaunchAnsweredKeeps, LaunchRefusedKeeps, LaunchLostKeeps,
     VerifyAttachKeeps, DiscardLeftKeeps, DiscardRemovedKeeps, ConfirmRefusedKeeps,
     ConfirmKeeps, UninstallAuthorityKeeps, UninstallRemoveKeeps, ForgottenKeeps,
     FamilyNextKeeps, FamilyAuthorityKeeps, FamilyRemoveKeeps, FamilyWrittenKeeps,
     LedgerResetKeeps DEF SessionStep
<1>2. CASE Operator
  BY <1>2, BeginKeeps DEF Operator
<1>3. CASE Abort
  BY <1>3, AbortKeeps
<1>4. CASE Outside
  BY <1>4, MaterialiseKeeps, NeverReachedKeeps, BehindTheBackKeeps, TakenKeeps DEF Outside
<1>5. CASE UNCHANGED vars
  BY <1>5, StutterKeeps
<1> QED BY <1>1, <1>2, <1>3, <1>4, <1>5 DEF Next

\* IInv is inductive: it holds in every reachable state.
THEOREM Invariance == Spec => []IInv
BY InitIInv, NextKeeps, PTL DEF Spec

\* Every variable keeps its type.
THEOREM TypeCorrect == Spec => []TypeOK
<1>1. IInv => TypeOK
  BY DEF IInv
<1> QED BY <1>1, Invariance, PTL

\* A container carrying this installation's label is always described by its
\* record, by the open intent, or by an intent that was later replaced.
THEOREM OwnIsAccounted == Spec => []OwnAccounted
<1>1. IInv => OwnAccounted
  BY DEF IInv
<1> QED BY <1>1, Invariance, PTL

\* A tombstone never names a container that still stands.
THEOREM TombstonesAreTrue == Spec => []TombstoneIsTrue
<1>1. IInv => TombstoneIsTrue
  BY DEF IInv
<1> QED BY <1>1, Invariance, PTL

\* A container started on an intent's behalf and not verified since owes its
\* check, across every crash.
THEOREM StartedAreOwed == Spec => []StartedIsOwed
<1>1. IInv => StartedIsOwed
  BY DEF IInv
<1> QED BY <1>1, Invariance, PTL

\* A confirmed container always has a desired state.
THEOREM ConfirmedAreWanted == Spec => []ConfirmedIsWanted
<1>1. IInv => ConfirmedIsWanted
  BY DEF IInv
<1> QED BY <1>1, Invariance, PTL

\* No verb the operator runs is answered "already resumed once".
THEOREM FreshAttempts == Spec => []FreshAttempt
<1>1. ASSUME IInv, At("plan") PROVE PlanFor(sess.p) # "exited"
  <2> DEFINE p == sess.p
  <2>1. /\ p \in Products /\ ~resumed[p]
        /\ desired[p] \in {"none", "running", "stopped"}
        /\ box[p].st \in {"absent", "stopped", "running"}
    BY <1>1 DEF IInv, TypeOK, SessionInv, Boxes, At
  <2>2. Verdicts(p)[desired[p]][box[p].st] # "exited"
    BY <2>1 DEF Verdicts
  <2> QED BY <2>2 DEF PlanFor
<1>2. IInv => FreshAttempt
  BY <1>1 DEF FreshAttempt
<1> QED BY <1>2, Invariance, PTL

-----------------------------------------------------------------------------
(* What no step of a session does.                                          *)

Quiet == \A p \in Products : box[p].st = "stopped" => box'[p].st # "running"

\* Of the daemon calls, only a start brings a container up.
LEMMA OnlyStartsStart ==
    ASSUME IInv, SessionStep, ~Start, ~Restore
    PROVE  Quiet
<1>1. box \in [Products -> Boxes]
  BY DEF IInv, TypeOK
<1>2. UNCHANGED box => Quiet
  BY DEF Quiet
<1>3. CASE Halt
  BY <1>1, <1>3 DEF Halt, AfterStop, Quiet, Boxes
<1>4. CASE VerifyLive \/ VerifyUnsaved
  BY <1>1, <1>4 DEF VerifyLive, VerifyUnsaved, Quiet, Boxes
<1>5. CASE ReplaceRemove \/ UninstallRemove \/ FamilyRemove \/ DiscardRemoved
  BY <1>1, <1>5 DEF ReplaceRemove, UninstallRemove, FamilyRemove, DiscardRemoved,
                    AfterRemove, AfterStop, NoBox, Quiet, Boxes
<1>6. ASSUME NEW net \in BOOLEAN, LaunchAnswered(net) PROVE Quiet
  BY <1>1, <1>6 DEF LaunchAnswered, Built, Quiet
<1>7. CASE LedgerReset
  BY <1>7 DEF LedgerReset, NoBox, Quiet
<1>8. CASE \/ GateRefuses \/ GatePasses \/ FamilyListed \/ VerbAuthority \/ StateIntent
           \/ Reconcile \/ RecordMember \/ ReplaceAuthority \/ OpenIntent
  BY <1>2, <1>8 DEF GateRefuses, GatePasses, FamilyListed, VerbAuthority, StateIntent,
                    Reconcile, RecordMember, ReplaceAuthority, OpenIntent, daemonVars
<1>9. CASE \/ LaunchRefused \/ LaunchLost \/ VerifyAttach \/ DiscardLeft \/ ConfirmRefused
           \/ Confirm \/ UninstallAuthority \/ Forgotten \/ FamilyAuthority \/ FamilyWritten
           \/ \E p \in Products : FamilyNext(p)
  BY <1>2, <1>9 DEF LaunchRefused, LaunchLost, VerifyAttach, DiscardLeft, ConfirmRefused,
                    Confirm, UninstallAuthority, Forgotten, FamilyAuthority, FamilyWritten,
                    FamilyNext, daemonVars
<1> QED BY <1>3, <1>4, <1>5, <1>6, <1>7, <1>8, <1>9 DEF SessionStep

\* A session starts a container only when the durable desired state is
\* "running", except to undo a failed replacement.
THEOREM StartsAreWanted == Spec => StartsOnlyWanted
<1> DEFINE Wanted == sess' # sess /\ sess.pc # "restore" =>
              \A p \in Products :
                 box[p].st = "stopped" /\ box'[p].st = "running" => desired[p] = "running"
<1>1. IInv /\ [Next]_vars => [Wanted]_vars
  <2> SUFFICES ASSUME IInv, Next, sess' # sess, sess.pc # "restore", NEW p \in Products,
                      box[p].st = "stopped", box'[p].st = "running"
               PROVE  desired[p] = "running"
    OBVIOUS
  <2>1. CASE Start
    <3>1. p = sess.p
      BY <2>1 DEF Start, IInv, TypeOK
    <3> QED BY <2>1, <3>1 DEF IInv, SessionInv, Start, At
  <2>2. CASE SessionStep /\ ~Start
    <3>1. ~Restore
      BY DEF Restore, At
    <3> QED BY <2>2, <3>1, OnlyStartsStart DEF Quiet
  <2>3. CASE Operator \/ Abort
    BY <2>3 DEF Operator, Begin, Abort, daemonVars
  <2>4. CASE Outside
    BY <2>4 DEF Outside, Materialise, NeverReached, Exits, Detached, Removed, Taken, Becomes
  <2> QED BY <2>1, <2>2, <2>3, <2>4 DEF Next
<1> QED BY <1>1, Invariance, PTL DEF Spec, StartsOnlyWanted

\* install, start and restart succeed only with nothing left to verify, unless
\* an open intent suspends the product.
THEOREM SuccessesAreVerified == Spec => SuccessIsVerified
<1> DEFINE Verified == out' = "ok" /\ sess.verb \in {"install", "start", "restart"} /\ sess' # sess
                          => ~owed'[sess.p] \/ intent[sess.p] # NoNonce
<1>1. IInv /\ [Next]_vars => [Verified]_vars
  <2> SUFFICES ASSUME IInv, Next, out' = "ok", sess' # sess,
                      sess.verb \in {"install", "start", "restart"}, intent[sess.p] = NoNonce
               PROVE  ~owed'[sess.p]
    OBVIOUS
  <2>1. \A o : Finish(o) => out' = o
    BY DEF Finish
  <2>2. \A pc : Goto(pc) => out' = out
    BY DEF Goto
  <2>3. SessionStep
    BY DEF Next, Operator, Begin, Abort, Finish, Outside, Materialise, NeverReached,
           Exits, Detached, Removed, Taken, Becomes
  <2>4. ~At("idle") => sess.p \in Products /\ out = "none"
    BY DEF IInv, SessionInv
  <2>5. CASE Reconcile
    <3>1. /\ sess.p \in Products /\ owed[sess.p] /\ desired[sess.p] = "running"
          /\ box[sess.p].st \in {"absent", "stopped", "running"}
      BY <2>5 DEF IInv, TypeOK, SessionInv, Reconcile, At, Boxes
    <3>2. PlanFor(sess.p) \notin {"none", "suspended"}
      BY <3>1 DEF PlanFor, Verdicts
    <3> QED BY <2>1, <2>2, <2>4, <2>5, <3>2 DEF Reconcile, At
  <2>6. CASE VerifyLive
    BY <2>1, <2>2, <2>4, <2>6 DEF VerifyLive, IInv, TypeOK, At
  <2>7. CASE RecordMember
    BY <2>7 DEF RecordMember, IInv, SessionInv, At
  <2>8. CASE Halt
    BY <2>1, <2>2, <2>4, <2>8 DEF Halt, IInv, SessionInv, At
  <2>9. CASE Confirm
    BY <2>1, <2>2, <2>4, <2>9 DEF Confirm, IInv, SessionInv, At, Creators
  <2>10. CASE Forgotten \/ LedgerReset
    BY <2>10 DEF Forgotten, LedgerReset, IInv, SessionInv, At
  <2>11. CASE \/ GateRefuses \/ GatePasses \/ FamilyListed \/ VerbAuthority \/ StateIntent
              \/ VerifyUnsaved \/ Start \/ ReplaceAuthority \/ ReplaceRemove \/ Restore \/ OpenIntent
    BY <2>1, <2>2, <2>4, <2>11
       DEF GateRefuses, GatePasses, FamilyListed, VerbAuthority, StateIntent, VerifyUnsaved, Start,
           ReplaceAuthority, ReplaceRemove, Restore, OpenIntent, At
  <2>12. CASE \/ (\E net \in BOOLEAN : LaunchAnswered(net)) \/ LaunchRefused \/ LaunchLost
              \/ VerifyAttach \/ DiscardLeft \/ DiscardRemoved \/ ConfirmRefused
    BY <2>1, <2>2, <2>4, <2>12
       DEF LaunchAnswered, LaunchRefused, LaunchLost, VerifyAttach, DiscardLeft,
           DiscardRemoved, ConfirmRefused, At
  <2>13. CASE \/ UninstallAuthority \/ UninstallRemove \/ FamilyAuthority \/ FamilyRemove
              \/ FamilyWritten \/ \E p \in Products : FamilyNext(p)
    BY <2>1, <2>2, <2>4, <2>13
       DEF UninstallAuthority, UninstallRemove, FamilyAuthority, FamilyRemove, FamilyWritten,
           FamilyNext, At
  <2> QED BY <2>3, <2>5, <2>6, <2>7, <2>8, <2>9, <2>10, <2>11, <2>12, <2>13 DEF SessionStep
<1> QED BY <1>1, Invariance, PTL DEF Spec, SuccessIsVerified

-----------------------------------------------------------------------------
(* Where nobody takes a name during a verb, a rival's container is safe.    *)

\* The places a session reaches only after it asked whose the container is, or
\* built it itself: what stands at the name then is this installation's.
Judged == {"commit", "halt", "plan", "start", "verify", "member", "remove",
           "restore", "attach", "discard", "confirm"}
Rightful   == Stands(sess.p) => Own(sess.p)
JudgedInv  == sess.pc \in Judged => Rightful

\* A container that follows one of ours is ours, or is gone.
LEMMA FollowsRightful ==
    ASSUME IInv, NEW p \in Products, NEW b \in Boxes, Follows(b, box[p]), box'[p] = b,
           Stands(p) => Own(p)
    PROVE  Stands(p)' => Own(p)'
BY DEF Follows, Stands, Own, NoBox

\* A step of a session whose box, if any changes, is that of its product.
Untouched == \A p \in Products : Stands(p) /\ box[p].label # "ours" => box'[p] = box[p]

\* The steps that call the runtime for a container that has been judged.
LEMMA CallsAreRightful ==
    ASSUME IInv, JudgedInv, NEW p \in Products, p = sess.p,
           \/ Halt \/ Start \/ ReplaceRemove \/ Restore \/ DiscardRemoved
           \/ UninstallRemove \/ FamilyRemove \/ VerifyLive \/ VerifyUnsaved
    PROVE  (Stands(p)' => Own(p)') /\ Untouched
<1>1. box \in [Products -> Boxes] /\ box[p] \in Boxes
  BY DEF IInv, TypeOK
<1>2. Rightful
  BY DEF JudgedInv, Judged, At, Halt, Start, ReplaceRemove, Restore, DiscardRemoved,
         UninstallRemove, FamilyRemove, VerifyLive, VerifyUnsaved
<1>3. PICK b \in Boxes : Follows(b, box[p]) /\ box' = [box EXCEPT ![p] = b]
  <2>1. CASE Halt
    <3>1. PICK r \in Calls : box' = [box EXCEPT ![p] = AfterStop(@, Done(r))]
      BY <2>1 DEF Halt
    <3> QED BY <1>1, <3>1, CallsFollow DEF Done
  <2>2. CASE Start \/ Restore
    <3>1. PICK r \in Calls, why \in {"bringup", "restore"} :
             box' = [box EXCEPT ![p] = AfterStart(@, Done(r), why)]
      BY <2>2 DEF Start, Restore
    <3> QED BY <1>1, <3>1, CallsFollow DEF Done
  <2>3. CASE ReplaceRemove \/ DiscardRemoved \/ UninstallRemove \/ FamilyRemove
    <3>1. PICK halted \in BOOLEAN, r \in Calls :
             box' = [box EXCEPT ![p] = AfterRemove(@, halted, Done(r))]
      BY <2>3 DEF ReplaceRemove, DiscardRemoved, UninstallRemove, FamilyRemove
    <3> QED BY <1>1, <3>1, CallsFollow DEF Done
  <2>4. CASE VerifyLive \/ VerifyUnsaved
    <3>1. \/ box' = box
          \/ box[p].st = "running" /\ box' = [box EXCEPT ![p].unproved = "no"]
      BY <2>4 DEF VerifyLive, VerifyUnsaved
    <3>2. CASE box' = box
      BY <1>1, <3>2 DEF Follows
    <3>3. CASE box[p].st = "running" /\ box' = [box EXCEPT ![p].unproved = "no"]
      <4> DEFINE b == [box[p] EXCEPT !.unproved = "no"]
      <4>1. b \in Boxes /\ Follows(b, box[p])
        BY <1>1, <3>3 DEF Boxes, Follows
      <4> QED BY <3>3, <4>1
    <3> QED BY <3>1, <3>2, <3>3
  <2> QED BY <2>1, <2>2, <2>3, <2>4
<1>4. box'[p] = b
  BY <1>1, <1>3
<1>5. Stands(p)' => Own(p)'
  BY <1>2, <1>3, <1>4, FollowsRightful DEF Rightful
<1>6. Untouched
  BY <1>1, <1>2, <1>3 DEF Untouched, Rightful, Own, Stands
<1> QED BY <1>5, <1>6

\* Every other step of a session leaves the containers as they are, or builds
\* one where nothing stood, or leaves the installation.
LEMMA OthersAreUntouched ==
    ASSUME IInv, SessionStep,
           ~(\/ Halt \/ Start \/ ReplaceRemove \/ Restore \/ DiscardRemoved
             \/ UninstallRemove \/ FamilyRemove \/ VerifyLive \/ VerifyUnsaved),
           ~LedgerReset
    PROVE  JudgedInv => JudgedInv' /\ Untouched
<1> SUFFICES ASSUME JudgedInv PROVE JudgedInv' /\ Untouched
  OBVIOUS
<1>1. box \in [Products -> Boxes] /\ sess \in Sessions
  BY DEF IInv, TypeOK
<1>2. \A o : Finish(o) => JudgedInv'
  BY DEF Finish, Idle, JudgedInv, Judged
<1>3. UNCHANGED box => Untouched
  BY DEF Untouched
<1>4. ~At("idle") => sess.p \in Products
  BY DEF IInv, SessionInv
<1> DEFINE Moved(pc) == sess'.pc = pc /\ sess'.p = sess.p
           Ended     == sess'.pc = "idle"
<1>5. \A pc \in PCs : Goto(pc) => Moved(pc)
  BY <1>1, GotoKeeps
<1>6. \A o : Finish(o) => Ended
  BY DEF Finish, Idle
<1>7. {"idle", "authority", "family", "create", "open", "forget", "reset"} \cap Judged = {}
  BY DEF Judged
<1>8. CASE GateRefuses \/ LaunchRefused \/ LaunchLost \/ DiscardLeft \/ ConfirmRefused \/ Forgotten \/ RecordMember
  BY <1>2, <1>3, <1>8 DEF GateRefuses, LaunchRefused, LaunchLost, DiscardLeft, ConfirmRefused,
                          Forgotten, RecordMember, daemonVars
<1>9. CASE GatePasses \/ FamilyListed \/ OpenIntent \/ (\E p \in Products : FamilyNext(p))
  <2>1. sess'.pc \in {"authority", "family", "create"}
    <3>1. CASE GatePasses
      BY <1>5, <3>1 DEF GatePasses, PCs
    <3>2. CASE FamilyListed \/ OpenIntent \/ \E p \in Products : FamilyNext(p)
      BY <1>1, <3>2 DEF FamilyListed, OpenIntent, FamilyNext, Sessions
    <3> QED BY <1>9, <3>1, <3>2
  <2>2. UNCHANGED box
    BY <1>9 DEF GatePasses, FamilyListed, OpenIntent, FamilyNext, daemonVars
  <2> QED BY <1>3, <1>7, <2>1, <2>2 DEF JudgedInv
<1>10. CASE VerbAuthority \/ ReplaceAuthority \/ UninstallAuthority \/ FamilyAuthority
  <2>1. UNCHANGED box
    BY <1>10 DEF VerbAuthority, ReplaceAuthority, UninstallAuthority, FamilyAuthority, daemonVars
  <2>2. sess'.pc \in Judged => sess'.p = sess.p /\ Authority(sess.p) # "refused"
    <3>1. CASE VerbAuthority
      BY <1>5, <1>6, <1>7, <3>1 DEF VerbAuthority, PCs
    <3>2. CASE ReplaceAuthority
      BY <1>5, <1>6, <1>7, <3>2 DEF ReplaceAuthority, PCs
    <3>3. CASE UninstallAuthority
      BY <1>5, <1>6, <1>7, <3>3 DEF UninstallAuthority, PCs
    <3>4. CASE FamilyAuthority
      BY <1>1, <1>7, <3>4 DEF FamilyAuthority, Sessions
    <3> QED BY <1>10, <3>1, <3>2, <3>3, <3>4
  <2>3. Authority(sess.p) # "refused" => Rightful
    BY DEF Authority, Rightful
  <2>4. JudgedInv'
    BY <2>1, <2>2, <2>3 DEF JudgedInv, Rightful, Stands, Own
  <2> QED BY <1>3, <2>1, <2>4
<1>11. CASE StateIntent \/ Reconcile \/ VerifyAttach \/ Confirm
  <2>1. UNCHANGED box
    BY <1>11 DEF StateIntent, Reconcile, VerifyAttach, Confirm, daemonVars
  <2>2. sess'.pc \in Judged => sess'.p = sess.p /\ sess.pc \in Judged
    <3>1. CASE StateIntent \/ VerifyAttach \/ Confirm
      BY <1>5, <1>6, <1>7, <3>1 DEF StateIntent, VerifyAttach, Confirm, At, PCs, Judged
    <3>2. CASE Reconcile
      BY <1>5, <1>6, <1>7, <3>2 DEF Reconcile, At, PCs, Judged
    <3> QED BY <1>11, <3>1, <3>2
  <2>3. JudgedInv'
    BY <2>1, <2>2 DEF JudgedInv, Rightful, Stands, Own
  <2> QED BY <1>3, <2>1, <2>3
<1>12. ASSUME NEW net \in BOOLEAN, LaunchAnswered(net) PROVE JudgedInv' /\ Untouched
  <2>1. sess.p \in Products /\ ~Stands(sess.p) /\ box' = [box EXCEPT ![sess.p] = Built(sess.nonce, net)]
    BY <1>4, <1>12 DEF LaunchAnswered, At
  <2>2. Untouched
    BY <1>1, <2>1 DEF Untouched, Stands
  <2>3. sess'.p = sess.p
    BY <1>1, <1>12 DEF LaunchAnswered, Goto, Sessions
  <2>4. box'[sess.p].label = "ours"
    BY <1>1, <2>1 DEF Built
  <2> QED BY <2>2, <2>3, <2>4 DEF JudgedInv, Rightful, Own
<1>13. CASE FamilyWritten
  <2>1. UNCHANGED box /\ sess'.pc \notin Judged
    BY <1>1, <1>13 DEF FamilyWritten, daemonVars, Goto, Finish, Idle, Sessions, Judged
  <2> QED BY <1>3, <2>1 DEF JudgedInv
<1> QED BY <1>8, <1>9, <1>10, <1>11, <1>12, <1>13 DEF SessionStep

LEMMA JudgedStep ==
    ASSUME IInv, JudgedInv, [Next]_vars, ~RivalRaces
    PROVE  JudgedInv' /\ (sess' # sess /\ ident' => Untouched)
<1>1. box \in [Products -> Boxes] /\ sess \in Sessions
  BY DEF IInv, TypeOK
<1>2. \A o : Finish(o) => JudgedInv'
  BY DEF Finish, Idle, JudgedInv, Judged
<1>3. CASE \/ Halt \/ Start \/ ReplaceRemove \/ Restore \/ DiscardRemoved
           \/ UninstallRemove \/ FamilyRemove \/ VerifyLive \/ VerifyUnsaved
  <2>1. sess.p \in Products
    BY <1>3 DEF IInv, SessionInv, At, Halt, Start, ReplaceRemove, Restore, DiscardRemoved,
                UninstallRemove, FamilyRemove, VerifyLive, VerifyUnsaved
  <2>2. PICK p \in Products : p = sess.p
    BY <2>1
  <2>3. (Stands(p)' => Own(p)') /\ Untouched
    BY <1>3, <2>2, CallsAreRightful
  <2>4. sess'.p = p \/ sess' = Idle
    BY <1>1, <1>3, <2>2 DEF Halt, Start, ReplaceRemove, Restore, DiscardRemoved,
                UninstallRemove, FamilyRemove, VerifyLive, VerifyUnsaved, Goto, Finish, Sessions
  <2>5. JudgedInv'
    <3>1. CASE sess'.p = p
      BY <2>3, <3>1 DEF JudgedInv, Rightful, Stands, Own
    <3>2. CASE sess' = Idle
      BY <3>2 DEF JudgedInv, Judged, Idle
    <3> QED BY <2>4, <3>1, <3>2
  <2> QED BY <2>3, <2>5
<1>4. CASE LedgerReset
  BY <1>2, <1>4 DEF LedgerReset
<1>5. CASE /\ SessionStep /\ ~LedgerReset
           /\ ~(\/ Halt \/ Start \/ ReplaceRemove \/ Restore \/ DiscardRemoved
                \/ UninstallRemove \/ FamilyRemove \/ VerifyLive \/ VerifyUnsaved)
  BY <1>5, OthersAreUntouched
<1>6. CASE Operator \/ Abort \/ UNCHANGED vars
  <2>1. UNCHANGED box
    BY <1>6 DEF Operator, Begin, Abort, vars, daemonVars
  <2>2. \/ sess'.pc \notin Judged
        \/ sess' = sess
    <3>1. CASE Operator
      BY <3>1 DEF Operator, Begin, Idle, Judged
    <3>2. CASE Abort
      BY <3>2 DEF Abort, Finish, Idle, Judged
    <3>3. CASE UNCHANGED vars
      BY <3>3 DEF vars
    <3> QED BY <1>6, <3>1, <3>2, <3>3
  <2>3. Untouched
    BY <2>1 DEF Untouched
  <2> QED BY <2>1, <2>2, <2>3 DEF JudgedInv, Rightful, Stands, Own
<1>7. CASE Outside
  <2>1. sess' = sess
    BY <1>7 DEF Outside, Materialise, NeverReached, Exits, Detached, Removed, Taken, Becomes
  <2> SUFFICES ASSUME sess.pc \in Judged PROVE Rightful'
    BY <2>1 DEF JudgedInv
  <2>2. sess.p \in Products /\ ~At("idle") /\ Rightful
    BY DEF Judged, IInv, SessionInv, At, JudgedInv
  <2>3. PICK q \in Products :
           \/ \E n \in Nonces, net \in BOOLEAN : Materialise(q, n, net)
           \/ \E n \in Nonces : NeverReached(q, n)
           \/ Exits(q) \/ Detached(q) \/ Removed(q)
           \/ \E label \in {"other", "bare"} : Taken(q, label)
    BY <1>7 DEF Outside
  <2>4. CASE \E n \in Nonces, net \in BOOLEAN : Materialise(q, n, net)
    BY <1>1, <2>1, <2>2, <2>4 DEF Materialise, Built, Rightful, Stands, Own
  <2>5. CASE \E n \in Nonces : NeverReached(q, n)
    BY <2>1, <2>2, <2>5 DEF NeverReached, Rightful, Stands, Own
  <2>6. CASE Exits(q) \/ Detached(q)
    BY <1>1, <2>1, <2>2, <2>6 DEF Exits, Detached, Becomes, Rightful, Stands, Own, Boxes
  <2>7. CASE Removed(q)
    BY <1>1, <2>1, <2>2, <2>7 DEF Removed, Becomes, NoBox, Rightful, Stands, Own
  <2>8. CASE \E label \in {"other", "bare"} : Taken(q, label)
    BY <2>2, <2>8 DEF Taken
  <2> QED BY <2>3, <2>4, <2>5, <2>6, <2>7, <2>8
<1> QED BY <1>3, <1>4, <1>5, <1>6, <1>7 DEF Next

\* Where no other actor takes a derived name during a verb, no step of a
\* session touches a container that is not this installation's.
THEOREM RivalsAreUntouched == ASSUME ~RivalRaces PROVE Spec => RivalsUntouched
<1> DEFINE A == sess' # sess /\ ident' =>
              \A p \in Products : Stands(p) /\ box[p].label # "ours" => box'[p] = box[p]
<1>1. Init => JudgedInv
  BY DEF Init, Idle, JudgedInv, Judged
<1>2. IInv /\ JudgedInv /\ [Next]_vars => JudgedInv' /\ [A]_vars
  BY JudgedStep DEF Untouched
<1> QED BY <1>1, <1>2, Invariance, PTL DEF Spec, RivalsUntouched

=============================================================================
