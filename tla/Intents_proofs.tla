--------------------------- MODULE Intents_proofs ---------------------------
(***************************************************************************)
(* Proofs about Intents, for every bound on the nonces, the faults and the *)
(* acts of others: IInv is an inductive invariant, and the safety          *)
(* properties of the module follow from it.                                *)
(***************************************************************************)
EXTENDS Intents, FiniteSetTheorems, TLAPS

USE IntentConstants DEF Nonces, None, Kinds

-----------------------------------------------------------------------------
(* What the operators on ledgers and sessions do.                           *)

LEMMA BlankTyped == Blank \in Ledgers
BY DEF Blank, Ledgers

LEMMA OpenedIs ==
    ASSUME NEW l \in Ledgers, NEW kind \in Kinds, NEW n \in Nonces
    PROVE  /\ Opened(l, kind, n) \in Ledgers
           /\ Opened(l, kind, n).rec = l.rec /\ Opened(l, kind, n).probe = l.probe
           /\ \A k \in Kinds : Opened(l, kind, n).open[k] = IF k = kind THEN n ELSE l.open[k]
BY DEF Opened, Ledgers

LEMMA DroppedIs ==
    ASSUME NEW l \in Ledgers, NEW kind \in Kinds
    PROVE  /\ Dropped(l, kind) \in Ledgers
           /\ Dropped(l, kind).rec = l.rec /\ Dropped(l, kind).probe = l.probe
           /\ \A k \in Kinds : Dropped(l, kind).open[k] = IF k = kind THEN None ELSE l.open[k]
BY DEF Dropped, Ledgers

LEMMA ConfirmedIs ==
    ASSUME NEW l \in Ledgers, NEW kind \in Kinds, NEW n \in Nonces
    PROVE  /\ Confirmed(l, kind, n) \in Ledgers
           /\ Confirmed(l, kind, n).probe = l.probe
           /\ \A k \in Kinds : Confirmed(l, kind, n).rec[k] = IF k = kind THEN n ELSE l.rec[k]
           /\ \A k \in Kinds : Confirmed(l, kind, n).open[k] = IF k = kind THEN None ELSE l.open[k]
<1> DEFINE d == Dropped(l, kind)
<1>1. d \in Ledgers /\ d.rec = l.rec /\ d.probe = l.probe
      /\ \A k \in Kinds : d.open[k] = IF k = kind THEN None ELSE l.open[k]
  BY DroppedIs
<1>2. Confirmed(l, kind, n) = [d EXCEPT !.rec[kind] = n]
  BY DEF Confirmed
<1> HIDE DEF d
<1>3. QED BY <1>1, <1>2 DEF Ledgers

LEMMA ProbesIs ==
    ASSUME NEW l \in Ledgers, NEW P \in SUBSET Nonces
    PROVE  /\ [l EXCEPT !.probe = P] \in Ledgers
           /\ [l EXCEPT !.probe = P].rec = l.rec /\ [l EXCEPT !.probe = P].open = l.open
           /\ [l EXCEPT !.probe = P].probe = P
BY DEF Ledgers

\* A verb that ends owes nothing to the steps it left.
LEMMA EndInv == ASSUME End PROVE s' \in Sessions /\ SessionInv'
BY DEF End, Idle, Sessions, PCs, SessionInv, At

\* A verb that goes on stands at the new step, with the rest of a fresh one.
LEMMA GotoIs ==
    ASSUME NEW pc \in PCs, Goto(pc)
    PROVE  s' \in Sessions /\ s'.pc = pc
BY DEF Goto, Idle, Sessions

LEMMA GotoInv ==
    ASSUME NEW pc \in {"network", "volume", "probe", "finish", "adopt"}, Goto(pc),
           pc # "adopt" => mem' = disk'
    PROVE  s' \in Sessions /\ SessionInv'
BY DEF Goto, Idle, Sessions, PCs, SessionInv, At

LEMMA Drawing == ASSUME NEW n, Draw(n) PROVE n = drawn + 1 /\ n \in Nonces /\ drawn' = n
BY DEF Draw

-----------------------------------------------------------------------------
(* The runtime and the file, apart from the verb.                           *)

\* WrittenAhead, one kind of object at a time.
Told(kind, n) == n \in {disk.rec[kind], disk.open[kind]} \/ <<kind, n>> \in given
ToldOf ==
    /\ \A n \in Nonces : net[n] > 0 \/ <<"network", n>> \in flight => Told("network", n)
    /\ \A n \in Nonces : vol = Ours(n) \/ <<"volume", n>> \in flight => Told("volume", n)
    /\ \A n \in Nonces : n \in probes \/ <<"probe", n>> \in flight =>
           n \in disk.probe \/ <<"probe", n>> \in given

LEMMA AheadIsTold == TypeOK /\ VolumeInv => (WrittenAhead <=> ToldOf)
<1> SUFFICES ASSUME TypeOK, VolumeInv PROVE WrittenAhead <=> ToldOf
  OBVIOUS
<1>1. vol.owner = "us" <=> \E n \in Nonces : vol = Ours(n)
  BY DEF TypeOK, VolumeInv, Vols, Ours
<1>2. ASSUME WrittenAhead PROVE ToldOf
  BY <1>2, <1>1 DEF WrittenAhead, ToldOf, Told, Standing, Describes, TypeOK, Ours
<1>3. ASSUME ToldOf, NEW o \in Standing \cup flight PROVE Describes(disk, o) \/ o \in given
  <2>1. CASE o[1] = "network"
    BY <1>3, <2>1, <1>1 DEF ToldOf, Told, Standing, Describes, TypeOK, Object, Ours
  <2>2. CASE o[1] = "volume"
    BY <1>3, <2>2, <1>1 DEF ToldOf, Told, Standing, Describes, TypeOK, Object, Ours
  <2>3. CASE o[1] = "probe"
    BY <1>3, <2>3, <1>1 DEF ToldOf, Told, Standing, Describes, TypeOK, Object, Ours
  <2> QED BY <2>1, <2>2, <2>3 DEF Standing, TypeOK, Object
<1> QED BY <1>2, <1>3 DEF WrittenAhead

LEMMA AheadIsToldNext == TypeOK' /\ VolumeInv' => (WrittenAhead' <=> ToldOf')
BY AheadIsTold, PTL

\* The invariant in the form the steps are shown to keep.
LEMMA IInvIs == IInv <=> TypeOK /\ SessionInv /\ NonceInv /\ VolumeInv /\ EitherInv /\ ToldOf /\ RecordedStood
BY AheadIsTold DEF IInv

LEMMA IInvIsNext ==
    IInv' <=> /\ TypeOK' /\ SessionInv' /\ NonceInv' /\ VolumeInv' /\ EitherInv'
              /\ ToldOf' /\ RecordedStood'
BY IInvIs, PTL

\* Nothing an intent is about changes.
LEMMA WorldStays ==
    ASSUME IInv, UNCHANGED <<disk, net, vol, probes, flight, stood, drawn, given>>
    PROVE  NonceInv' /\ VolumeInv' /\ EitherInv' /\ ToldOf' /\ RecordedStood'
BY IInvIs DEF NonceInv, VolumeInv, EitherInv, ToldOf, Told, RecordedStood


-----------------------------------------------------------------------------
(* Steps that leave the file and the runtime alone.                         *)

LEMMA QuietKeeps ==
    IInv /\ (\/ InstallBegin \/ Gate \/ AdoptNetwork \/ KeepVolume \/ ReapFails \/ AdoptDisk
             \/ Exhausted \/ Dies \/ \E kind \in Kinds : AbandonBegin(kind) \/ Ages(kind))
       => IInv'
<1> SUFFICES ASSUME IInv,
                    \/ InstallBegin \/ Gate \/ AdoptNetwork \/ KeepVolume \/ ReapFails
                    \/ AdoptDisk \/ Exhausted \/ Dies
                    \/ \E kind \in Kinds : AbandonBegin(kind) \/ Ages(kind)
             PROVE  IInv'
  OBVIOUS
<1>1. UNCHANGED <<disk, net, vol, probes, copied, flight, stood, drawn, given>>
      /\ (mem' = mem \/ mem' = disk)
  BY DEF InstallBegin, Gate, AdoptNetwork, KeepVolume, ReapFails, AdoptDisk, Exhausted, Dies,
         AbandonBegin, Ages, runtime, Nothing
<1>2. NonceInv' /\ VolumeInv' /\ EitherInv' /\ ToldOf' /\ RecordedStood'
  BY <1>1, WorldStays
<1>3. faults' \in 0 .. MaxFaults /\ hands' \in 0 .. MaxHands /\ old' \subseteq Kinds
  BY DEF InstallBegin, Gate, AdoptNetwork, KeepVolume, ReapFails, AdoptDisk, Exhausted, Dies,
         AbandonBegin, Ages, Nothing, Fault, IInv, TypeOK
<1>4. s' \in Sessions /\ SessionInv'
  <2>1. CASE InstallBegin
    BY <2>1 DEF InstallBegin, Idle, Sessions, PCs, SessionInv, At, IInv, TypeOK, Ledgers
  <2>2. CASE Gate
    BY <2>2, EndInv, GotoInv DEF Gate
  <2>3. CASE AdoptNetwork \/ KeepVolume
    BY <2>3, EndInv, GotoInv DEF AdoptNetwork, KeepVolume, IInv, SessionInv, At
  <2>4. CASE ReapFails
    BY <2>4, GotoInv DEF ReapFails
  <2>5. CASE AdoptDisk
    BY <2>5, GotoInv DEF AdoptDisk
  <2>6. CASE Exhausted \/ Dies
    BY <2>6, EndInv DEF Exhausted, Dies
  <2>7. ASSUME NEW kind \in Kinds, AbandonBegin(kind) PROVE s' \in Sessions /\ SessionInv'
    BY <2>7 DEF AbandonBegin, Idle, Sessions, PCs, SessionInv, At, IInv, TypeOK
  <2>8. ASSUME NEW kind \in Kinds, Ages(kind) PROVE s' \in Sessions /\ SessionInv'
    BY <1>1, <2>8 DEF Ages, SessionInv, At, IInv, TypeOK
  <2> QED BY <2>1, <2>2, <2>3, <2>4, <2>5, <2>6, <2>7, <2>8
<1> QED BY <1>1, <1>2, <1>3, <1>4, IInvIsNext DEF IInv, TypeOK

\* The left-over probes are reaped one by one.
LEMMA CleanupKeeps == ASSUME IInv, NEW n \in Nonces, Cleanup(n) PROVE IInv'
<1>1. /\ disk' \in Ledgers /\ disk'.rec = disk.rec /\ disk'.open = disk.open
      /\ disk'.probe = disk.probe \ {n}
  <2>1. disk \in Ledgers /\ disk.probe \ {n} \in SUBSET Nonces
    BY DEF IInv, TypeOK, Ledgers
  <2> QED BY <2>1, ProbesIs DEF Cleanup
<1>2. TypeOK'
  BY <1>1 DEF Cleanup, IInv, TypeOK, Sessions, Object
<1>3. SessionInv'
  BY DEF Cleanup, SessionInv, At, IInv, TypeOK, Sessions
<1>4. NonceInv' /\ VolumeInv'
  BY DEF Cleanup, IInv, NonceInv, VolumeInv
<1>5. EitherInv' /\ RecordedStood'
  BY <1>1 DEF Cleanup, IInv, EitherInv, RecordedStood
<1>6. ToldOf'
  BY <1>1, IInvIs DEF Cleanup, ToldOf, Told
<1> QED BY <1>2, <1>3, <1>4, <1>5, <1>6, IInvIsNext

-----------------------------------------------------------------------------
(* Steps that write the file.                                               *)

\* An intent is opened under a fresh nonce.
LEMMA OpenKeeps ==
    ASSUME IInv, NEW kind \in Kinds, NEW n \in Nonces, NEW pc \in {"netcreate", "volcreate"},
           At(kind), kind = "network" <=> pc = "netcreate",
           mem.rec[kind] = None, mem.open[kind] = None,
           Draw(n), mem' = Opened(mem, kind, n), disk' = mem',
           s' \in Sessions, s'.pc = pc, s'.kind = kind, s'.nonce = n,
           old' = old \ {kind}, UNCHANGED <<runtime, given, faults, hands>>
    PROVE  IInv'
<1>1. mem = disk /\ disk \in Ledgers
  BY DEF IInv, SessionInv, TypeOK, At
<1>2. /\ disk' \in Ledgers /\ disk'.rec = disk.rec /\ disk'.probe = disk.probe
      /\ \A k \in Kinds : disk'.open[k] = IF k = kind THEN n ELSE disk.open[k]
  BY <1>1, OpenedIs
<1>3. n = drawn + 1 /\ drawn' = n
  BY Drawing
<1>4. TypeOK'
  BY <1>2, <1>3 DEF IInv, TypeOK, runtime
<1>5. SessionInv'
  BY <1>2, <1>3 DEF IInv, TypeOK, SessionInv, NonceInv, At, runtime
<1>6. NonceInv' /\ VolumeInv'
  BY <1>3 DEF IInv, TypeOK, NonceInv, VolumeInv, runtime
<1>7. EitherInv' /\ RecordedStood'
  BY <1>1, <1>2 DEF IInv, EitherInv, RecordedStood, runtime
<1>8. ToldOf'
  BY <1>1, <1>2, IInvIs DEF ToldOf, Told, runtime
<1> QED BY <1>4, <1>5, <1>6, <1>7, <1>8, IInvIsNext

LEMMA OpenNetworkKeeps == IInv /\ OpenNetwork => IInv'
<1> SUFFICES ASSUME IInv, OpenNetwork PROVE IInv'
  OBVIOUS
<1>1. PICK n \in Nonces :
        /\ Draw(n) /\ mem' = Opened(mem, "network", n) /\ disk' = mem'
        /\ s' = [Idle EXCEPT !.pc = "netcreate", !.nonce = n]
  BY DEF OpenNetwork
<1>2. s' \in Sessions /\ s'.pc = "netcreate" /\ s'.kind = "network" /\ s'.nonce = n
  BY <1>1 DEF Idle, Sessions, PCs
<1> QED BY <1>1, <1>2, OpenKeeps DEF OpenNetwork

LEMMA OpenVolumeKeeps == IInv /\ OpenVolume => IInv'
<1> SUFFICES ASSUME IInv, OpenVolume PROVE IInv'
  OBVIOUS
<1>1. PICK n \in Nonces :
        /\ Draw(n) /\ mem' = Opened(mem, "volume", n) /\ disk' = mem'
        /\ s' = [Idle EXCEPT !.pc = "volcreate", !.kind = "volume", !.nonce = n]
  BY DEF OpenVolume
<1>2. s' \in Sessions /\ s'.pc = "volcreate" /\ s'.kind = "volume" /\ s'.nonce = n
  BY <1>1 DEF Idle, Sessions, PCs
<1> QED BY <1>1, <1>2, OpenKeeps DEF OpenVolume

LEMMA ConfirmedNext ==
    ASSUME disk \in Ledgers, NEW kind \in Kinds, NEW n \in Nonces,
           disk' = Confirmed(disk, kind, n)
    PROVE  /\ disk' \in Ledgers /\ disk'.probe = disk.probe
           /\ \A k \in Kinds : disk'.rec[k] = IF k = kind THEN n ELSE disk.rec[k]
           /\ \A k \in Kinds : disk'.open[k] = IF k = kind THEN None ELSE disk.open[k]
BY ConfirmedIs

\* An open intent becomes the record of an object that has stood.
LEMMA ConfirmKeeps ==
    ASSUME IInv, NEW kind \in Kinds, NEW n \in Nonces, NEW pc \in {"volume", "probe"},
           mem = disk, n = disk.open[kind], <<kind, n>> \in stood,
           mem' = Confirmed(mem, kind, n), disk' = mem', Goto(pc),
           UNCHANGED runtime, Nothing
    PROVE  IInv'
<1>1. disk \in Ledgers /\ disk.rec[kind] = None
  BY DEF IInv, EitherInv, TypeOK
<1>2. /\ disk' \in Ledgers /\ disk'.probe = disk.probe
      /\ \A k \in Kinds : disk'.rec[k] = IF k = kind THEN n ELSE disk.rec[k]
      /\ \A k \in Kinds : disk'.open[k] = IF k = kind THEN None ELSE disk.open[k]
  <2>1. disk' = Confirmed(disk, kind, n)
    OBVIOUS
  <2> QED BY <1>1, <2>1, ConfirmedNext
<1>3. s' \in Sessions /\ SessionInv'
  BY GotoInv
<1>4. TypeOK'
  BY <1>2, <1>3 DEF IInv, TypeOK, runtime, Nothing
<1>5. NonceInv' /\ VolumeInv'
  BY DEF IInv, NonceInv, VolumeInv, runtime, Nothing
<1>6. EitherInv' /\ RecordedStood'
  BY <1>1, <1>2 DEF IInv, EitherInv, RecordedStood, runtime
<1>7. ToldOf'
  BY <1>1, <1>2, IInvIs DEF ToldOf, Told, runtime, Nothing
<1> QED BY <1>3, <1>4, <1>5, <1>6, <1>7, IInvIsNext

\* A step that ends the verb and leaves everything an intent is about.
LEMMA RefusalKeeps ==
    ASSUME IInv, End, UNCHANGED <<disk, mem>>, UNCHANGED runtime, Nothing
    PROVE  IInv'
<1>1. s' \in Sessions /\ SessionInv'
  BY EndInv
<1>2. NonceInv' /\ VolumeInv' /\ EitherInv' /\ ToldOf' /\ RecordedStood'
  BY WorldStays DEF runtime, Nothing
<1> QED BY <1>1, <1>2, IInvIsNext DEF IInv, TypeOK, runtime, Nothing

LEMMA ConfirmNetworkKeeps == IInv /\ ConfirmNetwork => IInv'
<1> SUFFICES ASSUME IInv, ConfirmNetwork PROVE IInv'
  OBVIOUS
<1>1. /\ mem = disk /\ s.nonce \in Nonces /\ s.nonce = disk.open["network"]
      /\ <<"network", s.nonce>> \in stood
  BY DEF IInv, TypeOK, Sessions, SessionInv, ConfirmNetwork, At
<1> QED BY <1>1, ConfirmKeeps, RefusalKeeps DEF ConfirmNetwork

LEMMA ReconcileNetworkKeeps == IInv /\ ReconcileNetwork => IInv'
<1> SUFFICES ASSUME IInv, ReconcileNetwork PROVE IInv'
  OBVIOUS
<1> DEFINE n == mem.open["network"]
<1>1. mem = disk /\ n \in Nonces
  BY DEF IInv, TypeOK, Ledgers, SessionInv, ReconcileNetwork, At
<1> HIDE DEF n
<1>2. net[n] = 1 => <<"network", n>> \in stood
  BY <1>1 DEF IInv, NonceInv
<1> USE DEF n
<1> QED BY <1>1, <1>2, ConfirmKeeps, RefusalKeeps DEF ReconcileNetwork

LEMMA ReconcileVolumeKeeps == IInv /\ ReconcileVolume => IInv'
<1> SUFFICES ASSUME IInv, ReconcileVolume PROVE IInv'
  OBVIOUS
<1> DEFINE n == mem.open["volume"]
<1>1. mem = disk /\ n \in Nonces
  BY DEF IInv, TypeOK, Ledgers, SessionInv, ReconcileVolume, At
<1>2. CASE vol = Ours(n)
  <2>1. <<"volume", n>> \in stood
    BY <1>1, <1>2 DEF IInv, VolumeInv, Ours
  <2> QED BY <1>1, <1>2, <2>1, ConfirmKeeps DEF ReconcileVolume
<1>3. CASE vol # Ours(n)
  <2>1. /\ s' = [Idle EXCEPT !.pc = "volcreate", !.kind = "volume", !.nonce = n, !.again = TRUE]
        /\ UNCHANGED <<disk, mem>> /\ UNCHANGED runtime /\ Nothing
    BY <1>3 DEF ReconcileVolume
  <2>2. s' \in Sessions /\ s'.pc = "volcreate" /\ s'.kind = "volume" /\ s'.nonce = n
    BY <1>1, <2>1 DEF Sessions, PCs, Idle
  <2>3. TypeOK' /\ SessionInv'
    BY <1>1, <2>1, <2>2 DEF IInv, TypeOK, SessionInv, At, ReconcileVolume, runtime, Nothing
  <2>4. NonceInv' /\ VolumeInv' /\ EitherInv' /\ ToldOf' /\ RecordedStood'
    BY <2>1, WorldStays DEF runtime, Nothing
  <2> QED BY <2>3, <2>4, IInvIsNext
<1> QED BY <1>2, <1>3

LEMMA ConfirmVolumeKeeps == IInv /\ ConfirmVolume => IInv'
<1> SUFFICES ASSUME IInv, ConfirmVolume PROVE IInv'
  OBVIOUS
<1>1. mem = disk /\ s.nonce \in Nonces /\ s.nonce = disk.open["volume"]
  BY DEF IInv, TypeOK, Sessions, SessionInv, ConfirmVolume, At
<1>2. vol.nonce = s.nonce => <<"volume", s.nonce>> \in stood
  BY <1>1 DEF IInv, VolumeInv
<1> QED BY <1>1, <1>2, ConfirmKeeps, RefusalKeeps DEF ConfirmVolume

\* A probe's intent is in the file before its container is asked for.
LEMMA OpenProbeKeeps == IInv /\ OpenProbe => IInv'
<1> SUFFICES ASSUME IInv, OpenProbe PROVE IInv'
  OBVIOUS
<1>1. PICK n \in Nonces :
        /\ Draw(n)
        /\ disk' = [disk EXCEPT !.probe = @ \cup {n}]
        /\ s' = [Idle EXCEPT !.pc = "run", !.kind = "probe", !.nonce = n]
  BY DEF OpenProbe
<1>2. n = drawn + 1 /\ drawn' = n
  BY <1>1, Drawing
<1>3. /\ disk' \in Ledgers /\ disk'.rec = disk.rec /\ disk'.open = disk.open
      /\ disk'.probe = disk.probe \cup {n}
  <2>1. disk \in Ledgers /\ disk.probe \cup {n} \in SUBSET Nonces
    BY DEF IInv, TypeOK, Ledgers
  <2> QED BY <1>1, <2>1, ProbesIs
<1>4. UNCHANGED <<mem, net, vol, probes, copied, flight, stood, given, faults, hands, old>>
  BY DEF OpenProbe, runtime
<1>5. s' \in Sessions /\ s'.pc = "run" /\ s'.nonce = n
  BY <1>1 DEF Sessions, PCs, Idle
<1>6. TypeOK' /\ SessionInv'
  <2>1. n \notin probes /\ <<"probe", n>> \notin flight
    <3>1. n > drawn
      BY <1>2 DEF IInv, TypeOK
    <3> QED BY <3>1 DEF IInv, NonceInv
  <2>2. TypeOK'
    BY <1>2, <1>3, <1>4, <1>5 DEF IInv, TypeOK
  <2> QED BY <1>2, <1>3, <1>4, <1>5, <2>1, <2>2 DEF SessionInv, At
<1>7. NonceInv' /\ VolumeInv'
  BY <1>2, <1>4 DEF IInv, TypeOK, NonceInv, VolumeInv
<1>8. EitherInv' /\ RecordedStood'
  BY <1>3, <1>4 DEF IInv, EitherInv, RecordedStood
<1>9. ToldOf'
  BY <1>3, <1>4, IInvIs DEF ToldOf, Told
<1> QED BY <1>5, <1>6, <1>7, <1>8, <1>9, IInvIsNext

\* The intent of a probe is dropped once nothing of ours stands there.
LEMMA ReapKeeps == IInv /\ Reap => IInv'
<1> SUFFICES ASSUME IInv, Reap PROVE IInv'
  OBVIOUS
<1>1. /\ disk' \in Ledgers /\ disk'.rec = disk.rec /\ disk'.open = disk.open
      /\ disk'.probe = disk.probe \ {s.nonce}
  <2>1. disk \in Ledgers /\ disk.probe \ {s.nonce} \in SUBSET Nonces
    BY DEF IInv, TypeOK, Ledgers
  <2> QED BY <2>1, ProbesIs DEF Reap
<1>2. s' \in Sessions /\ SessionInv'
  BY GotoInv DEF Reap
<1>3. TypeOK'
  BY <1>1, <1>2 DEF Reap, IInv, TypeOK, Object
<1>4. NonceInv' /\ VolumeInv'
  BY DEF Reap, IInv, NonceInv, VolumeInv
<1>5. EitherInv' /\ RecordedStood'
  BY <1>1 DEF Reap, IInv, EitherInv, RecordedStood
<1>6. ToldOf'
  BY <1>1, IInvIs DEF Reap, ToldOf, Told
<1> QED BY <1>2, <1>3, <1>4, <1>5, <1>6, IInvIsNext

\* The session's own write after a probe changes nothing: it was read back.
LEMMA FinishKeeps == IInv /\ Finish => IInv'
<1> SUFFICES ASSUME IInv, Finish PROVE IInv'
  OBVIOUS
<1>1. disk' = disk /\ mem' = mem /\ End
  BY DEF Finish, IInv, SessionInv, At
<1> QED BY <1>1, RefusalKeeps DEF Finish

\* What an intent given up was about goes on being accounted for.
LEMMA AbandonKeeps == IInv /\ Abandon => IInv'
<1> SUFFICES ASSUME IInv, Abandon PROVE IInv'
  OBVIOUS
<1>1. mem = disk /\ s.kind \in Kinds /\ disk \in Ledgers
  BY DEF IInv, TypeOK, SessionInv, Abandon, At
<1>2. s' \in Sessions /\ SessionInv'
  BY EndInv DEF Abandon
<1>3. UNCHANGED <<net, vol, probes, copied, flight, stood, drawn, faults, hands, old>>
  BY DEF Abandon, runtime
<1>4. NonceInv' /\ VolumeInv'
  BY <1>3 DEF IInv, NonceInv, VolumeInv
<1>5. CASE Abandonable(mem, s.kind)
  <2> DEFINE n == disk.open[s.kind]
  <2>1. n \in Nonces
    BY <1>1, <1>5 DEF Abandonable, Ledgers
  <2>2. disk' = Dropped(disk, s.kind) /\ mem' = disk' /\ given' = given \cup {<<s.kind, n>>}
    BY <1>1, <1>5 DEF Abandon
  <2>3. /\ disk' \in Ledgers /\ disk'.rec = disk.rec /\ disk'.probe = disk.probe
        /\ \A k \in Kinds : disk'.open[k] = IF k = s.kind THEN None ELSE disk.open[k]
    BY <1>1, <2>2, DroppedIs
  <2>4. TypeOK'
    BY <1>1, <1>2, <1>3, <2>1, <2>2, <2>3 DEF IInv, TypeOK, Object
  <2>5. EitherInv' /\ RecordedStood'
    BY <1>3, <2>3 DEF IInv, EitherInv, RecordedStood
  <2>6. ToldOf'
    BY <1>1, <1>3, <2>2, <2>3, IInvIs DEF ToldOf, Told
  <2> QED BY <1>2, <1>4, <2>4, <2>5, <2>6, IInvIsNext
<1>6. CASE ~Abandonable(mem, s.kind)
  <2>1. UNCHANGED <<disk, mem, given>>
    BY <1>6 DEF Abandon
  <2>2. EitherInv' /\ ToldOf' /\ RecordedStood'
    BY <1>3, <2>1, WorldStays
  <2> QED BY <1>2, <1>3, <1>4, <2>1, <2>2, IInvIsNext DEF IInv, TypeOK
<1> QED BY <1>5, <1>6

-----------------------------------------------------------------------------
(* Steps of the runtime.                                                    *)

\* Nothing but what stands, or may come to stand, changes.
LEMMA NetworkCreateKeeps == IInv /\ NetworkCreate => IInv'
<1> SUFFICES ASSUME IInv, NetworkCreate PROVE IInv'
  OBVIOUS
<1>1. /\ s.nonce \in Nonces /\ s.nonce = disk.open["network"] /\ s.kind = "network"
      /\ s.nonce <= drawn /\ net[s.nonce] = 0 /\ <<"network", s.nonce>> \notin flight
      /\ mem = disk
  BY DEF IInv, TypeOK, Sessions, SessionInv, NetworkCreate, At
<1>2. /\ s' \in Sessions /\ s'.pc = "netask" /\ s'.kind = s.kind /\ s'.nonce = s.nonce
      /\ net' \in [Nonces -> 0 .. 1]
      /\ \A n \in Nonces : net'[n] = IF n = s.nonce THEN 1 ELSE net[n]
      /\ stood' = stood \cup {<<"network", s.nonce>>}
  <2>1. s' \in Sessions /\ s'.pc = "netask" /\ s'.kind = s.kind /\ s'.nonce = s.nonce
    BY DEF NetworkCreate, IInv, TypeOK, Sessions, PCs
  <2>2. /\ net' \in [Nonces -> 0 .. 1]
        /\ \A n \in Nonces : net'[n] = IF n = s.nonce THEN 1 ELSE net[n]
    BY <1>1 DEF NetworkCreate, IInv, TypeOK
  <2> QED BY <2>1, <2>2 DEF NetworkCreate
<1>3. UNCHANGED <<disk, mem, vol, probes, copied, flight, drawn, given, old, faults, hands>>
  BY DEF NetworkCreate, Nothing
<1>4. TypeOK'
  BY <1>1, <1>2, <1>3 DEF IInv, TypeOK, Object
<1>5. SessionInv'
  BY <1>1, <1>2, <1>3 DEF SessionInv, At
<1>6. NonceInv'
  BY <1>1, <1>2, <1>3 DEF IInv, TypeOK, NonceInv
<1>7. VolumeInv' /\ EitherInv' /\ RecordedStood'
  BY <1>2, <1>3 DEF IInv, VolumeInv, EitherInv, RecordedStood
<1>8. ToldOf'
  BY <1>1, <1>2, <1>3, IInvIs DEF ToldOf, Told
<1> QED BY <1>4, <1>5, <1>6, <1>7, <1>8, IInvIsNext

LEMMA VolumeCreateKeeps == IInv /\ VolumeCreate => IInv'
<1> SUFFICES ASSUME IInv, VolumeCreate PROVE IInv'
  OBVIOUS
<1>1. /\ s.nonce \in Nonces /\ s.nonce = disk.open["volume"] /\ s.kind = "volume" /\ mem = disk
  BY DEF IInv, TypeOK, Sessions, SessionInv, VolumeCreate, At
<1>2. /\ s' \in Sessions /\ s'.pc = "volask" /\ s'.kind = s.kind /\ s'.nonce = s.nonce
  BY <1>1 DEF VolumeCreate, IInv, TypeOK, Sessions, PCs
<1>3. UNCHANGED <<disk, mem, net, probes, copied, flight, drawn, given, old, faults, hands>>
  BY DEF VolumeCreate, Nothing
<1>4. \/ vol' = vol /\ stood' = stood
      \/ vol' = Ours(s.nonce) /\ stood' = stood \cup {<<"volume", s.nonce>>}
  BY DEF VolumeCreate
<1>5. TypeOK'
  BY <1>1, <1>2, <1>3, <1>4 DEF IInv, TypeOK, Object, Vols, Ours
<1>6. SessionInv'
  BY <1>1, <1>2, <1>3 DEF SessionInv, At
<1>7. NonceInv' /\ VolumeInv'
  BY <1>1, <1>3, <1>4 DEF IInv, NonceInv, VolumeInv, Ours
<1>8. EitherInv' /\ RecordedStood'
  BY <1>3, <1>4 DEF IInv, EitherInv, RecordedStood
<1>9. ToldOf'
  BY <1>1, <1>3, <1>4, IInvIs DEF ToldOf, Told, Ours
<1> QED BY <1>5, <1>6, <1>7, <1>8, <1>9, IInvIsNext

LEMMA HelperKeeps == IInv /\ (HelperRun \/ HelperLost) => IInv'
<1> SUFFICES ASSUME IInv, HelperRun \/ HelperLost PROVE IInv'
  OBVIOUS
<1>1. /\ s.nonce \in disk.probe /\ s.nonce \in Nonces /\ s.nonce <= drawn
      /\ s.nonce \notin probes /\ <<"probe", s.nonce>> \notin flight
  BY DEF IInv, TypeOK, Ledgers, SessionInv, HelperRun, HelperLost, At
<1>2. s' \in Sessions /\ s'.pc = "reap" /\ s'.nonce = s.nonce
  BY DEF HelperRun, HelperLost, IInv, TypeOK, Sessions, PCs
<1>3. UNCHANGED <<disk, mem, net, vol, copied, drawn, given, old, hands>>
  BY DEF HelperRun, HelperLost, Nothing
<1>4. \/ UNCHANGED <<probes, flight, stood>>
      \/ /\ probes' = probes \cup {s.nonce} /\ stood' = stood \cup {<<"probe", s.nonce>>}
         /\ UNCHANGED flight
      \/ flight' = flight \cup {<<"probe", s.nonce>>} /\ UNCHANGED <<probes, stood>>
  BY DEF HelperRun, HelperLost, Nothing
<1>5. faults' \in 0 .. MaxFaults
  BY DEF HelperRun, HelperLost, Nothing, Fault, IInv, TypeOK
<1>6. TypeOK'
  <2>1. probes' \subseteq Nonces /\ flight' \subseteq Object /\ stood' \subseteq Object
    <3>1. /\ probes \subseteq Nonces /\ flight \subseteq Object /\ stood \subseteq Object
          /\ <<"probe", s.nonce>> \in Object
      BY <1>1 DEF IInv, TypeOK, Object
    <3> QED BY <1>1, <1>4, <3>1
  <2>2. old' = old
    BY DEF HelperRun, HelperLost, Nothing
  <2> QED BY <1>2, <1>3, <1>5, <2>1, <2>2 DEF IInv, TypeOK
<1>7. SessionInv'
  BY <1>1, <1>2 DEF SessionInv, At
<1>8. NonceInv'
  <2>1. drawn \in Int /\ probes' \subseteq probes \cup {s.nonce} /\ stood \subseteq stood'
        /\ flight' \subseteq flight \cup {<<"probe", s.nonce>>}
    BY <1>4 DEF IInv, TypeOK
  <2>2. \A n \in Nonces : <<"probe", n>> \in flight' => n \notin probes'
    BY <1>1, <1>4 DEF IInv, NonceInv
  <2> QED BY <1>1, <1>3, <2>1, <2>2 DEF IInv, NonceInv
<1>9. VolumeInv' /\ EitherInv' /\ RecordedStood'
  BY <1>3, <1>4 DEF IInv, VolumeInv, EitherInv, RecordedStood
<1>10. ToldOf'
  BY <1>1, <1>3, <1>4, IInvIs DEF ToldOf, Told
<1> QED BY <1>6, <1>7, <1>8, <1>9, <1>10, IInvIsNext

LEMMA AnswerLostKeeps == IInv /\ AnswerLost => IInv'
<1> SUFFICES ASSUME IInv, AnswerLost PROVE IInv'
  OBVIOUS
<1>1. /\ s.nonce \in Nonces /\ s.kind \in Kinds /\ s.nonce = disk.open[s.kind]
      /\ At("netcreate") => /\ s.kind = "network" /\ s.nonce <= drawn /\ net[s.nonce] = 0
                            /\ <<"network", s.nonce>> \notin flight
      /\ At("volcreate") => s.kind = "volume"
      /\ At("netcreate") \/ At("volcreate")
  BY DEF IInv, TypeOK, Sessions, SessionInv, AnswerLost, At
<1>2. s' \in Sessions /\ SessionInv'
  BY EndInv DEF AnswerLost
<1>3. UNCHANGED <<disk, mem, vol, probes, copied, drawn, given, old, hands>>
      /\ faults' \in 0 .. MaxFaults
  BY DEF AnswerLost, Fault, IInv, TypeOK
<1>4. CASE UNCHANGED <<net, flight, stood>>
  <2>1. NonceInv' /\ VolumeInv' /\ EitherInv' /\ ToldOf' /\ RecordedStood'
    BY <1>3, <1>4, WorldStays
  <2> QED BY <1>2, <1>3, <1>4, <2>1, IInvIsNext DEF IInv, TypeOK
<1>5. CASE flight' = flight \cup {<<s.kind, s.nonce>>} /\ UNCHANGED <<net, stood>>
  <2>1. TypeOK'
    BY <1>1, <1>2, <1>3, <1>5 DEF IInv, TypeOK, Object
  <2>2. NonceInv'
    BY <1>1, <1>3, <1>5 DEF IInv, TypeOK, NonceInv
  <2>3. VolumeInv' /\ EitherInv' /\ RecordedStood'
    BY <1>3, <1>5 DEF IInv, VolumeInv, EitherInv, RecordedStood
  <2>4. ToldOf'
    BY <1>1, <1>3, <1>5, IInvIs DEF ToldOf, Told
  <2> QED BY <1>2, <2>1, <2>2, <2>3, <2>4, IInvIsNext
<1>6. CASE /\ At("netcreate") /\ net' = [net EXCEPT ![s.nonce] = @ + 1]
           /\ stood' = stood \cup {<<"network", s.nonce>>} /\ UNCHANGED flight
  <2>1. /\ net' \in [Nonces -> 0 .. 1]
        /\ \A n \in Nonces : net'[n] = IF n = s.nonce THEN 1 ELSE net[n]
    BY <1>1, <1>6 DEF IInv, TypeOK
  <2>2. TypeOK'
    BY <1>1, <1>2, <1>3, <1>6, <2>1 DEF IInv, TypeOK, Object
  <2>3. NonceInv'
    <3>1. \A n \in Nonces : net'[n] > 0 => <<"network", n>> \in stood'
      BY <1>6, <2>1 DEF IInv, NonceInv
    <3> QED BY <1>1, <1>3, <1>6, <2>1, <3>1 DEF IInv, TypeOK, NonceInv
  <2>4. VolumeInv' /\ EitherInv' /\ RecordedStood'
    BY <1>3, <1>6 DEF IInv, VolumeInv, EitherInv, RecordedStood
  <2>5. ToldOf'
    BY <1>1, <1>3, <1>6, <2>1, IInvIs DEF ToldOf, Told
  <2> QED BY <1>2, <2>2, <2>3, <2>4, <2>5, IInvIsNext
<1> QED BY <1>4, <1>5, <1>6 DEF AnswerLost

\* A create that lands was accounted for when it was asked for.
LEMMA LandsKeeps == ASSUME IInv, NEW o \in Object, Lands(o) PROVE IInv'
<1>1. PICK n \in Nonces : o[2] = n /\ o = <<o[1], n>> /\ o[1] \in {"network", "volume", "probe"}
  BY DEF Object
<1>2. o \in flight /\ flight' = flight \ {o}
      /\ UNCHANGED <<disk, mem, copied, s, drawn, given, old, faults, hands>>
  BY DEF Lands, Nothing
<1>3. /\ net' \in [Nonces -> 0 .. 1]
      /\ \A m \in Nonces : net'[m] = IF o = <<"network", m>> THEN 1 ELSE net[m]
  BY <1>1, <1>2 DEF Lands, IInv, TypeOK, NonceInv
<1>4. probes' = IF o[1] = "probe" THEN probes \cup {n} ELSE probes
  BY <1>1 DEF Lands
<1>5. vol' = vol \/ (o[1] = "volume" /\ vol' = Ours(n) /\ o \in stood')
  BY <1>1 DEF Lands
<1>6. /\ stood \subseteq stood' /\ stood' \subseteq stood \cup {o}
      /\ o[1] # "volume" => o \in stood'
  BY DEF Lands
<1>7. TypeOK'
  BY <1>1, <1>2, <1>3, <1>4, <1>5, <1>6 DEF IInv, TypeOK, Vols, Ours
<1>8. SessionInv'
  <2>1. At("netcreate") => net'[s.nonce] = 0
    BY <1>2, <1>3 DEF IInv, TypeOK, Sessions, SessionInv, At
  <2>2. At("run") => s.nonce \notin probes'
    BY <1>1, <1>2, <1>4 DEF IInv, SessionInv, At
  <2> QED BY <1>2, <1>6, <2>1, <2>2 DEF IInv, SessionInv, At
<1>9. NonceInv'
  <2>1. \A m \in Nonces : m > drawn => net'[m] = 0 /\ m \notin probes'
    <3>1. o[1] # "volume" => ~(n > drawn)
      BY <1>1, <1>2 DEF IInv, NonceInv
    <3>2. \A m \in Nonces : m > drawn => net[m] = 0 /\ m \notin probes
      BY DEF IInv, NonceInv
    <3>3. ASSUME NEW m \in Nonces, m > drawn PROVE net'[m] = 0
      BY <1>1, <1>3, <3>1, <3>2, <3>3
    <3>4. ASSUME NEW m \in Nonces, m > drawn PROVE m \notin probes'
      BY <1>1, <1>4, <3>1, <3>2, <3>4
    <3> QED BY <1>2, <3>3, <3>4
  <2>2. \A m \in Nonces : <<"network", m>> \in flight' => net'[m] = 0
    BY <1>1, <1>2, <1>3 DEF IInv, NonceInv
  <2>3. \A m \in Nonces : <<"probe", m>> \in flight' => m \notin probes'
    BY <1>1, <1>2, <1>4 DEF IInv, NonceInv
  <2>4. \A m \in Nonces : net'[m] > 0 => <<"network", m>> \in stood'
    BY <1>1, <1>3, <1>6 DEF IInv, NonceInv
  <2> QED BY <1>2, <2>1, <2>2, <2>3, <2>4 DEF IInv, NonceInv
<1>10. VolumeInv' /\ EitherInv' /\ RecordedStood'
  BY <1>1, <1>2, <1>5, <1>6 DEF IInv, VolumeInv, EitherInv, RecordedStood, Ours
<1>11. ToldOf'
  BY <1>1, <1>2, <1>3, <1>4, <1>5, IInvIs DEF ToldOf, Told, Ours
<1> QED BY <1>7, <1>8, <1>9, <1>10, <1>11, IInvIsNext

\* Others remove what stands, hold the volume's name, or copy a label.
LEMMA OthersKeep == IInv /\ (HandRemoves \/ Copies) => IInv'
<1> SUFFICES ASSUME IInv, HandRemoves \/ Copies PROVE IInv'
  OBVIOUS
<1>1. UNCHANGED <<disk, mem, s, drawn, given, old, faults, flight, stood>>
      /\ hands' \in 0 .. MaxHands
  BY DEF HandRemoves, Copies, Hand, IInv, TypeOK
<1>2. /\ net' \in [Nonces -> 0 .. 1] /\ \A n \in Nonces : net'[n] <= net[n]
      /\ probes' \subseteq probes /\ vol' \in {vol, NoVol, Bare}
      /\ copied' \in Nonces \cup {None}
  BY DEF HandRemoves, Copies, Hand, IInv, TypeOK
<1>3. TypeOK'
  BY <1>1, <1>2 DEF IInv, TypeOK, Vols, NoVol, Bare
<1>4. SessionInv'
  <2>1. At("netcreate") => s.nonce \in Nonces /\ net'[s.nonce] = 0
    BY <1>2 DEF IInv, TypeOK, Sessions, SessionInv, At
  <2> QED BY <1>1, <1>2, <2>1 DEF IInv, SessionInv, At
<1>5. NonceInv'
  BY <1>1, <1>2 DEF IInv, TypeOK, NonceInv
<1>6. VolumeInv' /\ EitherInv' /\ RecordedStood'
  <2>1. VolumeInv'
    BY <1>1, <1>2 DEF IInv, VolumeInv, NoVol, Bare
  <2> QED BY <1>1, <2>1 DEF IInv, EitherInv, RecordedStood
<1>7. ToldOf'
  BY <1>1, <1>2, IInvIs DEF IInv, TypeOK, ToldOf, Told, NoVol, Bare, Ours
<1> QED BY <1>3, <1>4, <1>5, <1>6, <1>7, IInvIsNext

-----------------------------------------------------------------------------
(* The invariant, and what follows from it.                                 *)

LEMMA InitIInv == Init => IInv
<1> SUFFICES ASSUME Init PROVE IInv
  OBVIOUS
<1>1. TypeOK
  BY BlankTyped DEF Init, TypeOK, Idle, Sessions, PCs, NoVol, Bare, Vols, Object
<1>2. SessionInv /\ NonceInv /\ VolumeInv
  BY DEF Init, SessionInv, At, Idle, NonceInv, VolumeInv, NoVol, Bare
<1>3. EitherInv /\ RecordedStood /\ ToldOf
  BY DEF Init, Blank, EitherInv, RecordedStood, ToldOf, Told, NoVol, Bare, Ours
<1> QED BY <1>1, <1>2, <1>3, IInvIs

LEMMA NextKeeps == IInv /\ [Next]_vars => IInv'
<1> SUFFICES ASSUME IInv, [Next]_vars PROVE IInv'
  OBVIOUS
<1>1. CASE UNCHANGED vars
  BY <1>1 DEF vars, IInv, TypeOK, SessionInv, At, NonceInv, VolumeInv, EitherInv, WrittenAhead,
              RecordedStood, Standing, Describes
<1>2. CASE VerbStep
  BY <1>2, QuietKeeps, CleanupKeeps, OpenNetworkKeeps, NetworkCreateKeeps, ConfirmNetworkKeeps,
     ReconcileNetworkKeeps, OpenVolumeKeeps, ReconcileVolumeKeeps, VolumeCreateKeeps,
     ConfirmVolumeKeeps, OpenProbeKeeps, HelperKeeps, ReapKeeps, FinishKeeps, AbandonKeeps
     DEF VerbStep
<1>3. CASE World
  BY <1>3, LandsKeeps, QuietKeeps, OthersKeep DEF World
<1>4. CASE InstallBegin \/ (\E kind \in Kinds : AbandonBegin(kind)) \/ ReapFails \/ Dies
  BY <1>4, QuietKeeps
<1>5. CASE HelperLost \/ AnswerLost
  BY <1>5, HelperKeeps, AnswerLostKeeps
<1> QED BY <1>1, <1>2, <1>3, <1>4, <1>5 DEF Next

\* Every state of a verb, of its failures and of the others satisfies the
\* inductive invariant, and so each of its conjuncts.
THEOREM Invariance == Spec => []IInv
BY InitIInv, NextKeeps, PTL DEF Spec

\* Every object of ours that stands, or that the runtime may yet create, is
\* described by the ledger file, unless its intent was given up before.
THEOREM IsWrittenAhead == Spec => []WrittenAhead
<1>1. IInv => WrittenAhead
  BY DEF IInv
<1> QED BY <1>1, Invariance, PTL

\* What the ledger records as ours has stood with our label and that nonce.
THEOREM RecordedHasStood == Spec => []RecordedStood
<1>1. IInv => RecordedStood
  BY DEF IInv
<1> QED BY <1>1, Invariance, PTL

\* A network is never created twice under one intent.
THEOREM NetworkIsOnce == Spec => []NetworkOnce
<1>1. IInv => NetworkOnce
  <2> SUFFICES ASSUME IInv, NEW n \in Nonces
               PROVE  net[n] + Cardinality({<<"network", n>>} \cap flight) <= 1
    BY DEF NetworkOnce
  <2>1. net[n] \in 0 .. 1
    BY DEF IInv, TypeOK
  <2>2. CASE <<"network", n>> \in flight
    <3>1. {<<"network", n>>} \cap flight = {<<"network", n>>} /\ net[n] = 0
      BY <2>2 DEF IInv, NonceInv
    <3>2. Cardinality({<<"network", n>>}) = 1
      BY FS_Singleton
    <3> QED BY <3>1, <3>2
  <2>3. CASE <<"network", n>> \notin flight
    <3>1. {<<"network", n>>} \cap flight = {}
      BY <2>3
    <3>2. Cardinality({}) = 0
      BY FS_EmptySet
    <3> QED BY <2>1, <3>1, <3>2
  <2> QED BY <2>2, <2>3
<1> QED BY <1>1, Invariance, PTL

\* An intent is given up only for what does not stand.
THEOREM GivenUpIsAbsent == Spec => GivenUpAbsent
<1> DEFINE Absent == \A o \in given' \ given : o \notin Standing
<1>1. IInv /\ [Next]_vars => [Absent]_vars
  <2> SUFFICES ASSUME IInv, Next, NEW o \in given' \ given PROVE o \notin Standing
    OBVIOUS
  <2>1. ASSUME NEW n \in Nonces, Cleanup(n) \/ (Reap /\ n = s.nonce) PROVE o \notin Standing
    <3>1. o = <<"probe", n>> /\ o \in flight
      BY <2>1 DEF Cleanup, Reap
    <3>2. n \notin probes
      BY <3>1 DEF IInv, NonceInv
    <3> QED BY <3>1, <3>2 DEF Standing
  <2>2. CASE Reap
    <3>1. s.nonce \in Nonces
      BY <2>2 DEF Reap, IInv, TypeOK, Sessions, SessionInv, At
    <3> QED BY <2>1, <2>2, <3>1
  <2>3. CASE Abandon
    <3>1. mem = disk /\ Abandonable(mem, s.kind) /\ o = <<s.kind, mem.open[s.kind]>>
      BY <2>3 DEF Abandon, IInv, SessionInv, At
    <3> QED BY <3>1 DEF Abandonable
  <2>4. CASE ~Reap /\ ~Abandon /\ ~\E n \in Nonces : Cleanup(n)
    <3>1. given' = given
      BY <2>4 DEF Next, VerbStep, World, InstallBegin, AbandonBegin, HelperLost, ReapFails,
        AnswerLost, Dies, Gate, AdoptNetwork, OpenNetwork, NetworkCreate, ConfirmNetwork,
        ReconcileNetwork, KeepVolume, OpenVolume, ReconcileVolume, VolumeCreate, ConfirmVolume,
        OpenProbe, HelperRun, AdoptDisk, Finish, Exhausted, Lands, Ages, HandRemoves, Copies,
        Hand, Nothing
    <3> QED BY <3>1
  <2> QED BY <2>1, <2>2, <2>3, <2>4
<1> QED BY <1>1, Invariance, PTL DEF Spec, GivenUpAbsent
=============================================================================
