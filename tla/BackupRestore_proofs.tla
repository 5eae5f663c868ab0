------------------------- MODULE BackupRestore_proofs --------------------------
(***************************************************************************)
(* Proofs about BackupRestore, for every set of volumes and of backup      *)
(* directories and every bound on the faults, the losses and the acts of   *)
(* others.                                                                 *)
(***************************************************************************)
EXTENDS BackupRestore, TLAPS

USE RestoreConstants

-----------------------------------------------------------------------------
(* What the updates of the records do.                                      *)

LEMMA GotoIs ==
    ASSUME TypeOK, NEW pc \in PCs, Goto(pc)
    PROVE  /\ proc' \in Procs /\ proc'.pc = pc /\ proc'.dir = proc.dir
           /\ proc'.todo = proc.todo /\ proc'.cur = proc.cur
BY DEF TypeOK, Goto, Procs

LEMMA IdleIs == Idle \in Procs /\ Idle.pc = "idle" /\ Idle.todo = {}
BY DEF Idle, Procs, PCs

LEMMA EndIs == End => proc' \in Procs /\ proc'.pc = "idle"
BY IdleIs DEF End

LEMMA NextIs ==
    ASSUME TypeOK, NEW rest \in SUBSET Volumes, NEW first \in PCs, NEW after \in PCs,
           NextVolume(rest, first, after)
    PROVE  /\ proc' \in Procs
           /\ rest = {} => proc'.pc = after /\ proc'.todo = {}
           /\ rest # {} => /\ proc'.pc = first /\ proc'.todo = rest /\ proc'.cur \in rest
                           /\ proc'.dir = proc.dir
<1>1. proc \in Procs
  BY DEF TypeOK
<1>2. CASE rest = {}
  BY <1>1, <1>2 DEF NextVolume, Idle, Procs
<1>3. CASE rest # {}
  <2>1. PICK v \in rest : proc' = [proc EXCEPT !.pc = first, !.todo = rest, !.cur = v]
    BY <1>3 DEF NextVolume
  <2>2. [proc EXCEPT !.pc = first, !.todo = rest, !.cur = v] \in Procs
    BY <1>1 DEF Procs
  <2> QED BY <1>1, <1>3, <2>1, <2>2 DEF Procs
<1> QED BY <1>2, <1>3

LEMMA KeepsIs ==
    ASSUME TypeOK, KeepsRecord
    PROVE  /\ proc' \in Procs /\ proc'.pc \in {"abandoned", "judge"}
           /\ proc'.pc = "judge" => proc'.cur \in Volumes
<1> DEFINE rest == proc.todo \ {Cur}
<1>1. proc \in Procs /\ rest \in SUBSET Volumes
  BY DEF TypeOK, Procs
<1>2. CASE rest = {}
  <2>1. proc' = [proc EXCEPT !.pc = "abandoned", !.todo = {}, !.cur = None, !.failed = TRUE]
    BY <1>2 DEF KeepsRecord
  <2> QED BY <1>1, <2>1 DEF Procs, PCs
<1>3. CASE rest # {}
  <2>1. PICK v \in rest :
           proc' = [proc EXCEPT !.pc = "judge", !.todo = rest, !.cur = v, !.failed = TRUE]
    BY <1>3 DEF KeepsRecord
  <2> HIDE DEF rest
  <2>2. v \in Volumes
    BY <1>1
  <2> QED BY <1>1, <2>1, <2>2 DEF Procs, PCs
<1> QED BY <1>2, <1>3

LEMMA NodesAre ==
    /\ NoNode \in Nodes /\ NoNode.kind = "none" /\ NoNode.src = None
    /\ \A k \in {"other", "newer", "ledger"} :
          Node(k) \in Nodes /\ Node(k).kind = k /\ Node(k).src = None
BY DEF NoNode, Node, Nodes, Floors

LEMMA AcceptedIs ==
    ASSUME NEW l \in Nodes, NEW m \in Accepted(l)
    PROVE  /\ m \in Nodes /\ m.kind = l.kind /\ m.vols = l.vols /\ m.src = l.src
           /\ m.floor >= l.floor
<1>1. PICK f \in l.floor .. MaxFloor : m = [l EXCEPT !.floor = f]
  BY DEF Accepted
<1>2. l.floor \in Nat /\ f \in Floors /\ f >= l.floor
  BY DEF Nodes, Floors
<1> QED BY <1>1, <1>2 DEF Nodes

LEMMA SourceIs ==
    ASSUME NEW l \in Nodes, NEW d \in Dirs \cup {None}
    PROVE  LET m == [l EXCEPT !.src = d] IN
           /\ m \in Nodes /\ m.kind = l.kind /\ m.vols = l.vols /\ m.src = d /\ m.floor = l.floor
BY DEF Nodes

LEMMA VolsAre ==
    /\ Absent \in Vols /\ Absent.owner = "nobody" /\ Absent.used = FALSE
    /\ Fresh \in Vols /\ Fresh.owner = "us" /\ Fresh.marked /\ Fresh.used = FALSE
BY DEF Absent, Fresh, Vols

LEMMA VolIs ==
    ASSUME vol \in [Volumes -> Vols], NEW v \in Volumes, NEW x \in Vols, vol' = [vol EXCEPT ![v] = x]
    PROVE  /\ vol' \in [Volumes -> Vols]
           /\ \A u \in Volumes : vol'[u] = IF u = v THEN x ELSE vol[u]
OBVIOUS

LEMMA DirIs ==
    ASSUME dir \in [Dirs -> Backups], NEW d \in Dirs, NEW b \in Backups, dir' = [dir EXCEPT ![d] = b]
    PROVE  /\ dir' \in [Dirs -> Backups]
           /\ \A e \in Dirs : dir'[e] = IF e = d THEN b ELSE dir[e]
OBVIOUS

\* A counted event stays within its bound.
LEMMA CountIs ==
    ASSUME NEW m \in Nat, NEW n \in 0 .. m, n < m
    PROVE  n + 1 \in 0 .. m
OBVIOUS

LEMMA MovedIs ==
    ASSUME TypeOK, Moved
    PROVE  /\ staging' = NoNode \/ staging' = staging
           /\ faults' \in 0 .. MaxFaults
BY DEF TypeOK, Moved

-----------------------------------------------------------------------------
(* What a step has to leave alone for a staged ledger to stay good.         *)

VolumesKept ==
    \A v \in Volumes : v \notin touched' =>
        /\ v \notin touched
        /\ OursAt(v) => OursAt(v)'
        /\ v \in made' => v \in made /\ vol'[v].data = vol[v].data
DirsKept    == \A d \in Dirs : Settled(d) => Settled(d)' /\ dir'[d] = dir[d]
StagingKept ==
    staging'.kind = "ledger" =>
        /\ staging.kind = "ledger" /\ staging'.vols = staging.vols
        /\ staging'.src = staging.src

LEMMA StagedKept ==
    ASSUME TypeOK, StagedInv, DirsKept, StagingKept, VolumesKept \/ staging.src # None
    PROVE  StagedInv'
<1>1. CASE staging'.kind = "ledger" /\ staging'.src # None
  <2>1. PICK d \in Dirs : d = staging.src /\ Settled(d) /\ dir[d].ledger.vols = staging.vols
    BY <1>1 DEF StagedInv, StagingKept, Settled
  <2>2. dir'[d] = dir[d] /\ Settled(d)'
    BY <2>1 DEF DirsKept
  <2>3. d = staging'.src /\ staging'.vols = staging.vols
    BY <1>1, <2>1 DEF StagingKept
  <2> QED BY <1>1, <2>1, <2>2, <2>3 DEF StagedInv, Settled
<1>2. CASE staging'.kind = "ledger" /\ staging'.src = None
  <2>1. staging.kind = "ledger" /\ staging.src = None /\ staging'.vols = staging.vols /\ VolumesKept
    BY <1>2 DEF StagingKept
  <2>2. PICK d \in Dirs : Settled(d) /\ WholeFrom(dir[d], staging)
    BY <2>1 DEF StagedInv
  <2>3. Settled(d)' /\ dir'[d] = dir[d]
    BY <2>2 DEF DirsKept
  <2>4. staging.vols \subseteq Volumes
    BY DEF TypeOK, Nodes
  <2>5. WholeFrom(dir[d], staging)'
    BY <2>1, <2>2, <2>3, <2>4 DEF WholeFrom, VolumesKept
  <2> QED BY <1>2, <2>3, <2>5 DEF StagedInv
<1> QED BY <1>1, <1>2 DEF StagedInv

-----------------------------------------------------------------------------
(* What each step leaves of the invariant.                                  *)

\* backup.
LEMMA BackupBeginKeeps ==
    ASSUME IInv, NEW d \in Dirs, BackupBegin(d)
    PROVE  IInv'
<1>1. /\ UNCHANGED <<live, staging, aside, vol, made, touched, faults, losses, hands>>
      /\ At("idle") /\ live.kind = "ledger" /\ ~dir[d].made
  BY DEF BackupBegin, ledgers, ghosts, counters, At
<1>2. proc' \in Procs /\ proc'.pc = "ledger" /\ proc'.dir = d
  BY DEF BackupBegin, Idle, Procs, PCs
<1>3. PICK b \in Backups : /\ b.made /\ b.ledger = dir[d].ledger
                            /\ dir' = [dir EXCEPT ![d] = b]
  <2>1. dir[d] \in Backups
    BY DEF IInv, TypeOK
  <2>2. /\ [dir[d] EXCEPT !.made = TRUE] \in Backups
        /\ [dir[d] EXCEPT !.made = TRUE].made
        /\ [dir[d] EXCEPT !.made = TRUE].ledger = dir[d].ledger
    BY <2>1 DEF Backups
  <2>3. dir' = [dir EXCEPT ![d] = [dir[d] EXCEPT !.made = TRUE]]
    BY DEF BackupBegin
  <2> QED BY <2>2, <2>3
<1>4. /\ dir' \in [Dirs -> Backups]
      /\ \A e \in Dirs : dir'[e] = IF e = d THEN b ELSE dir[e]
  BY <1>3, DirIs DEF IInv, TypeOK
<1>5. DirsKept
  BY <1>1, <1>2, <1>4 DEF DirsKept, Settled, BackupPCs, At, IInv, SourceInv
<1>6. StagingKept
  BY <1>1 DEF StagingKept
<1>7. VolumesKept
  BY <1>1 DEF VolumesKept, OursAt
<1>8. TypeOK'
  BY <1>1, <1>2, <1>3, <1>4, <1>5, <1>6, <1>7 DEF IInv, TypeOK
<1>9. SessionInv'
  BY <1>1, <1>2, <1>3, <1>4, <1>5, <1>6, <1>7 DEF IInv, TypeOK, SessionInv, At, Cur, BackupPCs, LoopPCs, AbandonPCs
<1>10. SourceInv'
  BY <1>1, <1>2, <1>3, <1>4, <1>5, <1>6, <1>7 DEF IInv, TypeOK, SourceInv
<1>11. StagedInv'
  BY <1>1, <1>2, <1>3, <1>4, <1>5, <1>6, <1>7, StagedKept DEF IInv
<1>12. LoopInv'
  BY <1>1, <1>2, <1>3, <1>4, <1>5, <1>6, <1>7 DEF IInv, TypeOK, LoopInv, Done, OursAt, Cur, At, LoopPCs
<1>13. JudgedInv'
  BY <1>1, <1>2, <1>3, <1>4, <1>5, <1>6, <1>7 DEF IInv, TypeOK, JudgedInv, OursAt, Cur, At
<1>14. UsedInv'
  BY <1>1, <1>2, <1>3, <1>4, <1>5, <1>6, <1>7 DEF IInv, TypeOK, UsedInv, OursAt
<1> QED BY <1>8, <1>9, <1>10, <1>11, <1>12, <1>13, <1>14 DEF IInv

LEMMA CaptureLedgerKeeps == IInv /\ CaptureLedger => IInv'
<1> SUFFICES ASSUME IInv, CaptureLedger PROVE IInv'
  OBVIOUS
<1>1. /\ UNCHANGED <<live, staging, aside, vol, made, touched, faults, losses, hands>>
      /\ At("ledger")
  BY DEF CaptureLedger, ledgers, ghosts, counters, At
<1>2. proc.dir \in Dirs
  BY <1>1 DEF IInv, SessionInv, At, BackupPCs
<1>3. /\ proc' \in Procs /\ proc'.pc \in {"idle", "manifest"}
      /\ proc'.pc = "manifest" => proc'.cur \in Volumes /\ proc'.dir = proc.dir
  <2>1. PICK rest \in SUBSET Volumes : rest = live.vols
    BY DEF IInv, TypeOK, Nodes
  <2>2. NextVolume(rest, "manifest", "idle")
    BY <2>1 DEF CaptureLedger
  <2>3. TypeOK /\ "manifest" \in PCs /\ "idle" \in PCs
    BY DEF IInv, PCs
  <2>4. /\ proc' \in Procs
        /\ rest = {} => proc'.pc = "idle" /\ proc'.todo = {}
        /\ rest # {} => /\ proc'.pc = "manifest" /\ proc'.todo = rest /\ proc'.cur \in rest
                        /\ proc'.dir = proc.dir
    BY <2>2, <2>3, NextIs
  <2> QED BY <2>1, <2>4
<1>4. PICK b \in Backups : /\ b.made = dir[proc.dir].made /\ b.ledger = live
                            /\ dir' = [dir EXCEPT ![proc.dir] = b]
  <2>1. [dir[proc.dir] EXCEPT !.ledger = live] \in Backups /\ dir[proc.dir] \in Backups
    BY <1>2 DEF IInv, TypeOK, Backups
  <2>2. dir' = [dir EXCEPT ![proc.dir] = [dir[proc.dir] EXCEPT !.ledger = live]]
    BY DEF CaptureLedger
  <2> QED BY <2>1, <2>2 DEF Backups
<1>5. /\ dir' \in [Dirs -> Backups]
      /\ \A e \in Dirs : dir'[e] = IF e = proc.dir THEN b ELSE dir[e]
  BY <1>2, <1>4, DirIs DEF IInv, TypeOK
<1>6. DirsKept
  BY <1>1, <1>2, <1>3, <1>5 DEF DirsKept, Settled, BackupPCs, At
<1>7. StagingKept
  BY <1>1 DEF StagingKept
<1>8. VolumesKept
  BY <1>1 DEF VolumesKept, OursAt
<1>9. dir[proc.dir].made
  BY <1>1 DEF IInv, SessionInv, At, BackupPCs
<1>10. TypeOK'
  BY <1>1, <1>2, <1>3, <1>4, <1>5, <1>6, <1>7, <1>8, <1>9 DEF IInv, TypeOK
<1>11. SessionInv'
  BY <1>1, <1>2, <1>3, <1>4, <1>5, <1>6, <1>7, <1>8, <1>9 DEF IInv, TypeOK, SessionInv, At, Cur, BackupPCs, LoopPCs, AbandonPCs
<1>12. SourceInv'
  BY <1>1, <1>2, <1>3, <1>4, <1>5, <1>6, <1>7, <1>8, <1>9 DEF IInv, TypeOK, SourceInv
<1>13. StagedInv'
  BY <1>1, <1>2, <1>3, <1>4, <1>5, <1>6, <1>7, <1>8, <1>9, StagedKept DEF IInv
<1>14. LoopInv'
  BY <1>1, <1>2, <1>3, <1>4, <1>5, <1>6, <1>7, <1>8, <1>9 DEF IInv, TypeOK, LoopInv, Done, OursAt, Cur, At, LoopPCs
<1>15. JudgedInv'
  BY <1>1, <1>2, <1>3, <1>4, <1>5, <1>6, <1>7, <1>8, <1>9 DEF IInv, TypeOK, JudgedInv, OursAt, Cur, At
<1>16. UsedInv'
  BY <1>1, <1>2, <1>3, <1>4, <1>5, <1>6, <1>7, <1>8, <1>9 DEF IInv, TypeOK, UsedInv, OursAt
<1> QED BY <1>10, <1>11, <1>12, <1>13, <1>14, <1>15, <1>16 DEF IInv

LEMMA WriteManifestKeeps == IInv /\ WriteManifest => IInv'
<1> SUFFICES ASSUME IInv, WriteManifest PROVE IInv'
  OBVIOUS
<1>1. /\ UNCHANGED <<staging, aside, vol, made, touched, faults, losses, hands>>
      /\ At("manifest")
  BY DEF WriteManifest, ledgers, ghosts, counters, At
<1>2. proc.dir \in Dirs /\ Cur \in Volumes
  BY <1>1 DEF IInv, SessionInv, At, BackupPCs
<1>3. /\ proc' \in Procs /\ proc'.pc \in {"idle", "copy"}
      /\ proc'.pc = "copy" => proc'.cur = proc.cur /\ proc'.dir = proc.dir
  BY EndIs, GotoIs DEF WriteManifest, IInv, PCs
<1>4. PICK b \in Backups : /\ b.made = dir[proc.dir].made /\ b.ledger = dir[proc.dir].ledger
                            /\ dir' = [dir EXCEPT ![proc.dir] = b]
  <2>1. dir[proc.dir] \in Backups
    BY <1>2 DEF IInv, TypeOK
  <2>2. ASSUME NEW x \in Versions \cup {Partial}, x # Partial \/ "man" = "data",
               dir' = [dir EXCEPT ![proc.dir].man[Cur] = x]
        PROVE  \E b \in Backups : /\ b.made = dir[proc.dir].made /\ b.ledger = dir[proc.dir].ledger
                                  /\ dir' = [dir EXCEPT ![proc.dir] = b]
    <3> DEFINE b == [dir[proc.dir] EXCEPT !.man[Cur] = x]
    <3>1. b \in Backups /\ b.made = dir[proc.dir].made /\ b.ledger = dir[proc.dir].ledger
      BY <1>2, <2>1, <2>2 DEF Backups
    <3>2. dir' = [dir EXCEPT ![proc.dir] = b]
      BY <1>2, <2>2 DEF IInv, TypeOK
    <3> QED BY <3>1, <3>2
  <2>3. dir' = dir => dir' = [dir EXCEPT ![proc.dir] = dir[proc.dir]]
    BY <1>2 DEF IInv, TypeOK
  <2>4. dir' = dir \/ \E x \in Versions \cup {Partial} :
            (x # Partial \/ "man" = "data") /\ dir' = [dir EXCEPT ![proc.dir].man[Cur] = x]
    BY DEF WriteManifest, Versions, Partial
  <2> QED BY <2>1, <2>2, <2>3, <2>4
<1>5. /\ dir' \in [Dirs -> Backups]
      /\ \A e \in Dirs : dir'[e] = IF e = proc.dir THEN b ELSE dir[e]
  BY <1>2, <1>4, DirIs DEF IInv, TypeOK
<1>6. DirsKept
  BY <1>1, <1>2, <1>3, <1>5 DEF DirsKept, Settled, BackupPCs, At
<1>7. StagingKept
  BY <1>1 DEF StagingKept
<1>8. VolumesKept
  BY <1>1 DEF VolumesKept, OursAt
<1>9. live' \in Nodes /\ live'.src = live.src
  BY AcceptedIs DEF WriteManifest, IInv, TypeOK
<1>10. TypeOK'
  BY <1>1, <1>2, <1>3, <1>4, <1>5, <1>6, <1>7, <1>8, <1>9 DEF IInv, TypeOK
<1>11. SessionInv'
  BY <1>1, <1>2, <1>3, <1>4, <1>5, <1>6, <1>7, <1>8, <1>9 DEF IInv, TypeOK, SessionInv, At, Cur, BackupPCs, LoopPCs, AbandonPCs
<1>12. SourceInv'
  BY <1>1, <1>2, <1>3, <1>4, <1>5, <1>6, <1>7, <1>8, <1>9 DEF IInv, TypeOK, SourceInv
<1>13. StagedInv'
  BY <1>1, <1>2, <1>3, <1>4, <1>5, <1>6, <1>7, <1>8, <1>9, StagedKept DEF IInv
<1>14. LoopInv'
  BY <1>1, <1>2, <1>3, <1>4, <1>5, <1>6, <1>7, <1>8, <1>9 DEF IInv, TypeOK, LoopInv, Done, OursAt, Cur, At, LoopPCs
<1>15. JudgedInv'
  BY <1>1, <1>2, <1>3, <1>4, <1>5, <1>6, <1>7, <1>8, <1>9 DEF IInv, TypeOK, JudgedInv, OursAt, Cur, At
<1>16. UsedInv'
  BY <1>1, <1>2, <1>3, <1>4, <1>5, <1>6, <1>7, <1>8, <1>9 DEF IInv, TypeOK, UsedInv, OursAt
<1> QED BY <1>10, <1>11, <1>12, <1>13, <1>14, <1>15, <1>16 DEF IInv

LEMMA CopyBeginsKeeps == IInv /\ CopyBegins => IInv'
<1> SUFFICES ASSUME IInv, CopyBegins PROVE IInv'
  OBVIOUS
<1>1. /\ UNCHANGED <<live, staging, aside, vol, made, touched, faults, losses, hands>>
      /\ At("copy")
  BY DEF CopyBegins, ledgers, ghosts, counters, At
<1>2. proc.dir \in Dirs /\ Cur \in Volumes
  BY <1>1 DEF IInv, SessionInv, At, BackupPCs
<1>3. proc' \in Procs /\ proc'.pc = "copying" /\ proc'.dir = proc.dir /\ proc'.todo = proc.todo /\ proc'.cur = proc.cur
  BY GotoIs DEF CopyBegins, IInv, PCs
<1>4. PICK b \in Backups : /\ b.made = dir[proc.dir].made /\ b.ledger = dir[proc.dir].ledger
                            /\ dir' = [dir EXCEPT ![proc.dir] = b]
  <2>1. dir[proc.dir] \in Backups
    BY <1>2 DEF IInv, TypeOK
  <2>2. ASSUME NEW x \in Versions \cup {Partial}, x # Partial \/ "data" = "data",
               dir' = [dir EXCEPT ![proc.dir].data[Cur] = x]
        PROVE  \E b \in Backups : /\ b.made = dir[proc.dir].made /\ b.ledger = dir[proc.dir].ledger
                                  /\ dir' = [dir EXCEPT ![proc.dir] = b]
    <3> DEFINE b == [dir[proc.dir] EXCEPT !.data[Cur] = x]
    <3>1. b \in Backups /\ b.made = dir[proc.dir].made /\ b.ledger = dir[proc.dir].ledger
      BY <1>2, <2>1, <2>2 DEF Backups
    <3>2. dir' = [dir EXCEPT ![proc.dir] = b]
      BY <1>2, <2>2 DEF IInv, TypeOK
    <3> QED BY <3>1, <3>2
  <2>3. dir' = dir => dir' = [dir EXCEPT ![proc.dir] = dir[proc.dir]]
    BY <1>2 DEF IInv, TypeOK
  <2>4. dir' = dir \/ \E x \in Versions \cup {Partial} :
            (x # Partial \/ "data" = "data") /\ dir' = [dir EXCEPT ![proc.dir].data[Cur] = x]
    BY DEF CopyBegins, Versions, Partial
  <2> QED BY <2>1, <2>2, <2>3, <2>4
<1>5. /\ dir' \in [Dirs -> Backups]
      /\ \A e \in Dirs : dir'[e] = IF e = proc.dir THEN b ELSE dir[e]
  BY <1>2, <1>4, DirIs DEF IInv, TypeOK
<1>6. DirsKept
  BY <1>1, <1>2, <1>3, <1>5 DEF DirsKept, Settled, BackupPCs, At
<1>7. StagingKept
  BY <1>1 DEF StagingKept
<1>8. VolumesKept
  BY <1>1 DEF VolumesKept, OursAt
<1>9. TypeOK'
  BY <1>1, <1>2, <1>3, <1>4, <1>5, <1>6, <1>7, <1>8 DEF IInv, TypeOK
<1>10. SessionInv'
  BY <1>1, <1>2, <1>3, <1>4, <1>5, <1>6, <1>7, <1>8 DEF IInv, TypeOK, SessionInv, At, Cur, BackupPCs, LoopPCs, AbandonPCs
<1>11. SourceInv'
  BY <1>1, <1>2, <1>3, <1>4, <1>5, <1>6, <1>7, <1>8 DEF IInv, TypeOK, SourceInv
<1>12. StagedInv'
  BY <1>1, <1>2, <1>3, <1>4, <1>5, <1>6, <1>7, <1>8, StagedKept DEF IInv
<1>13. LoopInv'
  BY <1>1, <1>2, <1>3, <1>4, <1>5, <1>6, <1>7, <1>8 DEF IInv, TypeOK, LoopInv, Done, OursAt, Cur, At, LoopPCs
<1>14. JudgedInv'
  BY <1>1, <1>2, <1>3, <1>4, <1>5, <1>6, <1>7, <1>8 DEF IInv, TypeOK, JudgedInv, OursAt, Cur, At
<1>15. UsedInv'
  BY <1>1, <1>2, <1>3, <1>4, <1>5, <1>6, <1>7, <1>8 DEF IInv, TypeOK, UsedInv, OursAt
<1> QED BY <1>9, <1>10, <1>11, <1>12, <1>13, <1>14, <1>15 DEF IInv

LEMMA CopyEndsKeeps == IInv /\ CopyEnds => IInv'
<1> SUFFICES ASSUME IInv, CopyEnds PROVE IInv'
  OBVIOUS
<1>1. /\ UNCHANGED <<live, staging, aside, vol, made, touched, faults, losses, hands>>
      /\ At("copying")
  BY DEF CopyEnds, ledgers, ghosts, counters, At
<1>2. proc.dir \in Dirs /\ Cur \in Volumes
  BY <1>1 DEF IInv, SessionInv, At, BackupPCs
<1>3. /\ proc' \in Procs /\ proc'.pc \in {"idle", "manifest"}
      /\ proc'.pc = "manifest" => proc'.cur \in Volumes /\ proc'.dir = proc.dir
  <2>5. CASE End
    BY <2>5, EndIs
  <2>6. CASE NextVolume(proc.todo \ {Cur}, "manifest", "idle")
    <3>1. PICK rest \in SUBSET Volumes : rest = proc.todo \ {Cur}
      BY DEF IInv, TypeOK, Procs
    <3>2. NextVolume(rest, "manifest", "idle")
      BY <3>1, <2>6
    <3>3. TypeOK /\ "manifest" \in PCs /\ "idle" \in PCs
      BY DEF IInv, PCs
    <3>4. /\ proc' \in Procs
          /\ rest = {} => proc'.pc = "idle" /\ proc'.todo = {}
          /\ rest # {} => /\ proc'.pc = "manifest" /\ proc'.todo = rest /\ proc'.cur \in rest
                          /\ proc'.dir = proc.dir
      BY <3>2, <3>3, NextIs
    <3> QED BY <3>1, <3>4
  <2> QED BY <2>5, <2>6 DEF CopyEnds
<1>4. PICK b \in Backups : /\ b.made = dir[proc.dir].made /\ b.ledger = dir[proc.dir].ledger
                            /\ dir' = [dir EXCEPT ![proc.dir] = b]
  <2>1. dir[proc.dir] \in Backups
    BY <1>2 DEF IInv, TypeOK
  <2>2. ASSUME NEW x \in Versions \cup {Partial}, x # Partial \/ "data" = "data",
               dir' = [dir EXCEPT ![proc.dir].data[Cur] = x]
        PROVE  \E b \in Backups : /\ b.made = dir[proc.dir].made /\ b.ledger = dir[proc.dir].ledger
                                  /\ dir' = [dir EXCEPT ![proc.dir] = b]
    <3> DEFINE b == [dir[proc.dir] EXCEPT !.data[Cur] = x]
    <3>1. b \in Backups /\ b.made = dir[proc.dir].made /\ b.ledger = dir[proc.dir].ledger
      BY <1>2, <2>1, <2>2 DEF Backups
    <3>2. dir' = [dir EXCEPT ![proc.dir] = b]
      BY <1>2, <2>2 DEF IInv, TypeOK
    <3> QED BY <3>1, <3>2
  <2>3. dir' = dir => dir' = [dir EXCEPT ![proc.dir] = dir[proc.dir]]
    BY <1>2 DEF IInv, TypeOK
  <2>4. dir' = dir \/ \E x \in Versions \cup {Partial} :
            (x # Partial \/ "data" = "data") /\ dir' = [dir EXCEPT ![proc.dir].data[Cur] = x]
    BY DEF CopyEnds, Versions, Partial
  <2> QED BY <2>1, <2>2, <2>3, <2>4
<1>5. /\ dir' \in [Dirs -> Backups]
      /\ \A e \in Dirs : dir'[e] = IF e = proc.dir THEN b ELSE dir[e]
  BY <1>2, <1>4, DirIs DEF IInv, TypeOK
<1>6. DirsKept
  BY <1>1, <1>2, <1>3, <1>5 DEF DirsKept, Settled, BackupPCs, At
<1>7. StagingKept
  BY <1>1 DEF StagingKept
<1>8. VolumesKept
  BY <1>1 DEF VolumesKept, OursAt
<1>9. TypeOK'
  BY <1>1, <1>2, <1>3, <1>4, <1>5, <1>6, <1>7, <1>8 DEF IInv, TypeOK
<1>10. SessionInv'
  BY <1>1, <1>2, <1>3, <1>4, <1>5, <1>6, <1>7, <1>8 DEF IInv, TypeOK, SessionInv, At, Cur, BackupPCs, LoopPCs, AbandonPCs
<1>11. SourceInv'
  BY <1>1, <1>2, <1>3, <1>4, <1>5, <1>6, <1>7, <1>8 DEF IInv, TypeOK, SourceInv
<1>12. StagedInv'
  BY <1>1, <1>2, <1>3, <1>4, <1>5, <1>6, <1>7, <1>8, StagedKept DEF IInv
<1>13. LoopInv'
  BY <1>1, <1>2, <1>3, <1>4, <1>5, <1>6, <1>7, <1>8 DEF IInv, TypeOK, LoopInv, Done, OursAt, Cur, At, LoopPCs
<1>14. JudgedInv'
  BY <1>1, <1>2, <1>3, <1>4, <1>5, <1>6, <1>7, <1>8 DEF IInv, TypeOK, JudgedInv, OursAt, Cur, At
<1>15. UsedInv'
  BY <1>1, <1>2, <1>3, <1>4, <1>5, <1>6, <1>7, <1>8 DEF IInv, TypeOK, UsedInv, OursAt
<1> QED BY <1>9, <1>10, <1>11, <1>12, <1>13, <1>14, <1>15 DEF IInv

\* restore.
LEMMA RestoreFreshKeeps ==
    ASSUME IInv, NEW d \in Dirs, RestoreFresh(d)
    PROVE  IInv'
<1>1. /\ UNCHANGED <<live, aside, vol, dir, made, faults, losses, hands>>
      /\ At("idle") /\ staging.kind = "none" /\ dir[d].ledger.kind = "ledger"
      /\ touched' = {}
  BY DEF RestoreFresh, ledgers, ghosts, counters, At
<1>2. /\ staging' \in Nodes /\ staging'.src = d /\ staging'.kind = "ledger"
      /\ staging'.vols = dir[d].ledger.vols
  <2>1. dir[d].ledger \in Nodes
    BY DEF IInv, TypeOK, Backups
  <2> QED BY <1>1, <2>1, SourceIs DEF RestoreFresh
<1>3. /\ proc' \in Procs /\ proc'.pc \in {"create", "phase5"}
      /\ proc'.pc = "create" => proc'.cur \in proc'.todo /\ proc'.todo = staging'.vols
      /\ proc'.pc = "phase5" => staging'.vols = {} /\ proc'.todo = {}
  <2>1. PICK rest \in SUBSET Volumes : rest = staging'.vols
    BY <1>2 DEF Nodes
  <2>2. NextVolume(rest, "create", "phase5")
    BY <2>1 DEF RestoreFresh
  <2>3. TypeOK /\ "create" \in PCs /\ "phase5" \in PCs
    BY DEF IInv, PCs
  <2>4. /\ proc' \in Procs
        /\ rest = {} => proc'.pc = "phase5" /\ proc'.todo = {}
        /\ rest # {} => /\ proc'.pc = "create" /\ proc'.todo = rest /\ proc'.cur \in rest
                        /\ proc'.dir = proc.dir
    BY <2>2, <2>3, NextIs
  <2> QED BY <2>1, <2>4
<1>4. Settled(d)'
  BY <1>1, <1>3 DEF Settled, BackupPCs
<1>5. TypeOK'
  BY <1>1, <1>2, <1>3, <1>4 DEF IInv, TypeOK
<1>6. SessionInv'
  BY <1>1, <1>2, <1>3, <1>4 DEF IInv, TypeOK, SessionInv, At, Cur, BackupPCs, LoopPCs, AbandonPCs
<1>7. SourceInv'
  BY <1>1, <1>2, <1>3, <1>4 DEF IInv, TypeOK, SourceInv
<1>8. StagedInv'
  BY <1>1, <1>2, <1>4 DEF StagedInv, Settled, IInv, RestoreConstants
<1>9. LoopInv'
  BY <1>1, <1>2, <1>3, <1>4 DEF IInv, TypeOK, LoopInv, Done, OursAt, Cur, At, LoopPCs
<1>10. JudgedInv'
  BY <1>1, <1>2, <1>3, <1>4 DEF IInv, TypeOK, JudgedInv, OursAt, Cur, At
<1>11. UsedInv'
  BY <1>1, <1>2, <1>3, <1>4 DEF IInv, TypeOK, UsedInv, OursAt
<1> QED BY <1>5, <1>6, <1>7, <1>8, <1>9, <1>10, <1>11 DEF IInv

LEMMA RestoreResumedKeeps == IInv /\ RestoreResumed => IInv'
<1> SUFFICES ASSUME IInv, RestoreResumed PROVE IInv'
  OBVIOUS
<1>1. /\ UNCHANGED <<live, staging, aside, vol, dir, made, touched, faults, losses, hands>>
      /\ At("idle") /\ staging.kind = "ledger" /\ staging.src # None
  BY DEF RestoreResumed, ledgers, ghosts, counters, At
<1>2. staging.vols \in SUBSET Volumes
  BY DEF IInv, TypeOK, Nodes
<1>3. /\ proc' \in Procs /\ proc'.pc \in {"create", "phase5"}
      /\ proc'.pc = "create" => proc'.cur \in proc'.todo /\ proc'.todo = staging.vols
      /\ proc'.pc = "phase5" => staging.vols = {} /\ proc'.todo = {}
  <2>1. PICK rest \in SUBSET Volumes : rest = staging.vols
    BY <1>2
  <2>2. NextVolume(rest, "create", "phase5")
    BY <2>1 DEF RestoreResumed
  <2>3. TypeOK /\ "create" \in PCs /\ "phase5" \in PCs
    BY DEF IInv, PCs
  <2>4. /\ proc' \in Procs
        /\ rest = {} => proc'.pc = "phase5" /\ proc'.todo = {}
        /\ rest # {} => /\ proc'.pc = "create" /\ proc'.todo = rest /\ proc'.cur \in rest
                        /\ proc'.dir = proc.dir
    BY <2>2, <2>3, NextIs
  <2> QED BY <2>1, <2>4
<1>4. DirsKept
  BY <1>1, <1>3 DEF DirsKept, Settled, BackupPCs, At
<1>5. StagingKept
  BY <1>1 DEF StagingKept
<1>6. VolumesKept
  BY <1>1 DEF VolumesKept, OursAt
<1>7. TypeOK'
  BY <1>1, <1>2, <1>3, <1>4, <1>5, <1>6 DEF IInv, TypeOK
<1>8. SessionInv'
  BY <1>1, <1>2, <1>3, <1>4, <1>5, <1>6 DEF IInv, TypeOK, SessionInv, At, Cur, BackupPCs, LoopPCs, AbandonPCs
<1>9. SourceInv'
  BY <1>1, <1>2, <1>3, <1>4, <1>5, <1>6 DEF IInv, TypeOK, SourceInv
<1>10. StagedInv'
  BY <1>1, <1>2, <1>3, <1>4, <1>5, <1>6, StagedKept DEF IInv
<1>11. LoopInv'
  BY <1>1, <1>2, <1>3, <1>4, <1>5, <1>6 DEF IInv, TypeOK, LoopInv, Done, OursAt, Cur, At, LoopPCs
<1>12. JudgedInv'
  BY <1>1, <1>2, <1>3, <1>4, <1>5, <1>6 DEF IInv, TypeOK, JudgedInv, OursAt, Cur, At
<1>13. UsedInv'
  BY <1>1, <1>2, <1>3, <1>4, <1>5, <1>6 DEF IInv, TypeOK, UsedInv, OursAt
<1> QED BY <1>7, <1>8, <1>9, <1>10, <1>11, <1>12, <1>13 DEF IInv

LEMMA RestoreReadyKeeps == IInv /\ RestoreReady => IInv'
<1> SUFFICES ASSUME IInv, RestoreReady PROVE IInv'
  OBVIOUS
<1>1. /\ UNCHANGED <<live, staging, aside, vol, dir, made, touched, faults, losses, hands>>
      /\ At("idle") /\ staging.kind = "ledger" /\ staging.src = None
  BY DEF RestoreReady, ledgers, ghosts, counters, At
<1>2. proc' \in Procs /\ proc'.pc = "activate"
  BY DEF RestoreReady, Idle, Procs, PCs
<1>3. DirsKept
  BY <1>1, <1>2 DEF DirsKept, Settled, BackupPCs, At
<1>4. StagingKept
  BY <1>1 DEF StagingKept
<1>5. VolumesKept
  BY <1>1 DEF VolumesKept, OursAt
<1>6. TypeOK'
  BY <1>1, <1>2, <1>3, <1>4, <1>5 DEF IInv, TypeOK
<1>7. SessionInv'
  BY <1>1, <1>2, <1>3, <1>4, <1>5 DEF IInv, TypeOK, SessionInv, At, Cur, BackupPCs, LoopPCs, AbandonPCs
<1>8. SourceInv'
  BY <1>1, <1>2, <1>3, <1>4, <1>5 DEF IInv, TypeOK, SourceInv
<1>9. StagedInv'
  BY <1>1, <1>2, <1>3, <1>4, <1>5, StagedKept DEF IInv
<1>10. LoopInv'
  BY <1>1, <1>2, <1>3, <1>4, <1>5 DEF IInv, TypeOK, LoopInv, Done, OursAt, Cur, At, LoopPCs
<1>11. JudgedInv'
  BY <1>1, <1>2, <1>3, <1>4, <1>5 DEF IInv, TypeOK, JudgedInv, OursAt, Cur, At
<1>12. UsedInv'
  BY <1>1, <1>2, <1>3, <1>4, <1>5 DEF IInv, TypeOK, UsedInv, OursAt
<1> QED BY <1>6, <1>7, <1>8, <1>9, <1>10, <1>11, <1>12 DEF IInv

LEMMA MeetsCorruptKeeps == IInv /\ MeetsCorrupt => IInv'
<1> SUFFICES ASSUME IInv, MeetsCorrupt PROVE IInv'
  OBVIOUS
<1>1. /\ UNCHANGED <<live, staging, aside, vol, dir, made, touched, faults, losses, hands>>
      /\ At("idle")
  BY DEF MeetsCorrupt, ledgers, ghosts, counters, At
<1>2. proc' \in Procs /\ proc'.pc = "preserve"
  BY DEF MeetsCorrupt, Idle, Procs, PCs
<1>3. DirsKept
  BY <1>1, <1>2 DEF DirsKept, Settled, BackupPCs, At
<1>4. StagingKept
  BY <1>1 DEF StagingKept
<1>5. VolumesKept
  BY <1>1 DEF VolumesKept, OursAt
<1>6. TypeOK'
  BY <1>1, <1>2, <1>3, <1>4, <1>5 DEF IInv, TypeOK
<1>7. SessionInv'
  BY <1>1, <1>2, <1>3, <1>4, <1>5 DEF IInv, TypeOK, SessionInv, At, Cur, BackupPCs, LoopPCs, AbandonPCs
<1>8. SourceInv'
  BY <1>1, <1>2, <1>3, <1>4, <1>5 DEF IInv, TypeOK, SourceInv
<1>9. StagedInv'
  BY <1>1, <1>2, <1>3, <1>4, <1>5, StagedKept DEF IInv
<1>10. LoopInv'
  BY <1>1, <1>2, <1>3, <1>4, <1>5 DEF IInv, TypeOK, LoopInv, Done, OursAt, Cur, At, LoopPCs
<1>11. JudgedInv'
  BY <1>1, <1>2, <1>3, <1>4, <1>5 DEF IInv, TypeOK, JudgedInv, OursAt, Cur, At
<1>12. UsedInv'
  BY <1>1, <1>2, <1>3, <1>4, <1>5 DEF IInv, TypeOK, UsedInv, OursAt
<1> QED BY <1>6, <1>7, <1>8, <1>9, <1>10, <1>11, <1>12 DEF IInv

LEMMA PreserveKeeps == IInv /\ Preserve => IInv'
<1> SUFFICES ASSUME IInv, Preserve PROVE IInv'
  OBVIOUS
<1>1. /\ UNCHANGED <<live, vol, dir, made, touched, losses, hands>>
      /\ At("preserve")
  BY DEF Preserve, ledgers, ghosts, counters, At
<1>2. proc' \in Procs /\ proc'.pc = "idle"
  BY EndIs DEF Preserve
<1>3. /\ staging' = staging \/ staging' = NoNode
      /\ faults' \in 0 .. MaxFaults /\ aside' \in Nat
  BY MovedIs DEF Preserve, IInv, TypeOK
<1>4. staging' \in Nodes
  BY <1>3, NodesAre DEF IInv, TypeOK
<1>5. DirsKept
  BY <1>1, <1>2 DEF DirsKept, Settled, BackupPCs, At
<1>6. StagingKept
  BY <1>3, NodesAre DEF StagingKept
<1>7. VolumesKept
  BY <1>1 DEF VolumesKept, OursAt
<1>8. TypeOK'
  BY <1>1, <1>2, <1>3, <1>4, <1>5, <1>6, <1>7 DEF IInv, TypeOK
<1>9. SessionInv'
  BY <1>1, <1>2, <1>3, <1>4, <1>5, <1>6, <1>7 DEF IInv, TypeOK, SessionInv, At, Cur, BackupPCs, LoopPCs, AbandonPCs
<1>10. SourceInv'
  BY <1>1, <1>2, <1>3, <1>4, <1>5, <1>6, <1>7 DEF IInv, TypeOK, SourceInv
<1>11. StagedInv'
  BY <1>1, <1>2, <1>3, <1>4, <1>5, <1>6, <1>7, StagedKept DEF IInv
<1>12. LoopInv'
  BY <1>1, <1>2, <1>3, <1>4, <1>5, <1>6, <1>7 DEF IInv, TypeOK, LoopInv, Done, OursAt, Cur, At, LoopPCs
<1>13. JudgedInv'
  BY <1>1, <1>2, <1>3, <1>4, <1>5, <1>6, <1>7 DEF IInv, TypeOK, JudgedInv, OursAt, Cur, At
<1>14. UsedInv'
  BY <1>1, <1>2, <1>3, <1>4, <1>5, <1>6, <1>7 DEF IInv, TypeOK, UsedInv, OursAt
<1> QED BY <1>8, <1>9, <1>10, <1>11, <1>12, <1>13, <1>14 DEF IInv

LEMMA CreateKeeps == IInv /\ Create => IInv'
<1> SUFFICES ASSUME IInv, Create PROVE IInv'
  OBVIOUS
<1>1. /\ UNCHANGED <<live, aside, dir, touched, faults, losses, hands>>
      /\ At("create")
  BY DEF Create, ledgers, ghosts, counters, At
<1>2. Cur \in Volumes /\ staging.kind = "ledger" /\ staging.src # None /\ Cur \in proc.todo
  BY <1>1 DEF IInv, TypeOK, Procs, Nodes, SessionInv, At, LoopPCs, Cur
<1>3. /\ proc' \in Procs
      /\ \/ proc'.pc = "idle"
         \/ /\ proc'.pc = "inspect" /\ proc'.cur = proc.cur /\ proc'.todo = proc.todo
            /\ dir[staging.src].data[Cur] # Missing
  BY EndIs, GotoIs DEF Create, IInv, PCs
<1>4. staging' \in Nodes /\ staging'.kind = staging.kind /\ staging'.vols = staging.vols /\ staging'.src = staging.src
  BY AcceptedIs DEF Create, IInv, TypeOK
<1>5. PICK x \in Vols : (x.used => vol[Cur].used /\ x = vol[Cur]) /\ vol' = [vol EXCEPT ![Cur] = x]
  <2>1. vol' = vol => vol' = [vol EXCEPT ![Cur] = vol[Cur]] /\ vol[Cur] \in Vols
    BY <1>2 DEF IInv, TypeOK
  <2> QED BY <2>1, VolsAre DEF Create
<1>6. /\ vol' \in [Volumes -> Vols]
      /\ \A v \in Volumes : vol'[v] = IF v = Cur THEN x ELSE vol[v]
  BY <1>2, <1>5, VolIs DEF IInv, TypeOK
<1>7. made' \subseteq Volumes /\ \A v \in Volumes : v # Cur /\ v \in made' => v \in made
  BY <1>2 DEF Create, IInv, TypeOK
<1>8. DirsKept
  BY <1>1, <1>3 DEF DirsKept, Settled, BackupPCs, At
<1>9. StagingKept
  BY <1>4 DEF StagingKept
<1>10. TypeOK'
  BY <1>1, <1>2, <1>3, <1>4, <1>5, <1>6, <1>7, <1>8, <1>9 DEF IInv, TypeOK
<1>11. SessionInv'
  BY <1>1, <1>2, <1>3, <1>4, <1>5, <1>6, <1>7, <1>8, <1>9 DEF IInv, TypeOK, SessionInv, At, Cur, BackupPCs, LoopPCs, AbandonPCs
<1>12. SourceInv'
  BY <1>1, <1>2, <1>3, <1>4, <1>5, <1>6, <1>7, <1>8, <1>9 DEF IInv, TypeOK, SourceInv
<1>13. StagedInv'
  BY <1>1, <1>2, <1>3, <1>4, <1>5, <1>6, <1>7, <1>8, <1>9, StagedKept DEF IInv
<1>14. LoopInv'
  BY <1>1, <1>2, <1>3, <1>4, <1>5, <1>6, <1>7, <1>8, <1>9 DEF IInv, TypeOK, LoopInv, Done, OursAt, Cur, At, LoopPCs
<1>15. JudgedInv'
  BY <1>1, <1>2, <1>3, <1>4, <1>5, <1>6, <1>7, <1>8, <1>9 DEF IInv, TypeOK, JudgedInv, OursAt, Cur, At
<1>16. UsedInv'
  BY <1>1, <1>2, <1>3, <1>4, <1>5, <1>6, <1>7, <1>8, <1>9 DEF IInv, TypeOK, UsedInv, OursAt
<1> QED BY <1>10, <1>11, <1>12, <1>13, <1>14, <1>15, <1>16 DEF IInv

LEMMA InspectVolumeKeeps == IInv /\ InspectVolume => IInv'
<1> SUFFICES ASSUME IInv, InspectVolume PROVE IInv'
  OBVIOUS
<1>1. /\ UNCHANGED <<live, staging, aside, vol, dir, made, touched, faults, losses, hands>>
      /\ At("inspect")
  BY DEF InspectVolume, ledgers, ghosts, counters, At
<1>2. Cur \in Volumes /\ staging.kind = "ledger" /\ staging.src # None /\ Cur \in proc.todo
  BY <1>1 DEF IInv, TypeOK, Procs, Nodes, SessionInv, At, LoopPCs, Cur
<1>3. /\ proc' \in Procs
      /\ \/ proc'.pc = "idle"
         \/ proc'.pc = "count" /\ proc'.cur = proc.cur /\ proc'.todo = proc.todo /\ OursAt(Cur)
  BY EndIs, GotoIs DEF InspectVolume, IInv, PCs
<1>4. DirsKept
  BY <1>1, <1>3 DEF DirsKept, Settled, BackupPCs, At
<1>5. StagingKept
  BY <1>1 DEF StagingKept
<1>6. TypeOK'
  BY <1>1, <1>2, <1>3, <1>4, <1>5 DEF IInv, TypeOK
<1>7. SessionInv'
  BY <1>1, <1>2, <1>3, <1>4, <1>5 DEF IInv, TypeOK, SessionInv, At, Cur, BackupPCs, LoopPCs, AbandonPCs
<1>8. SourceInv'
  BY <1>1, <1>2, <1>3, <1>4, <1>5 DEF IInv, TypeOK, SourceInv
<1>9. StagedInv'
  BY <1>1, <1>2, <1>3, <1>4, <1>5, StagedKept DEF IInv
<1>10. LoopInv'
  BY <1>1, <1>2, <1>3, <1>4, <1>5 DEF IInv, TypeOK, LoopInv, Done, OursAt, Cur, At, LoopPCs
<1>11. JudgedInv'
  BY <1>1, <1>2, <1>3, <1>4, <1>5 DEF IInv, TypeOK, JudgedInv, OursAt, Cur, At
<1>12. UsedInv'
  BY <1>1, <1>2, <1>3, <1>4, <1>5 DEF IInv, TypeOK, UsedInv, OursAt
<1> QED BY <1>6, <1>7, <1>8, <1>9, <1>10, <1>11, <1>12 DEF IInv

LEMMA CountEntriesKeeps == IInv /\ CountEntries => IInv'
<1> SUFFICES ASSUME IInv, CountEntries PROVE IInv'
  OBVIOUS
<1>1. /\ UNCHANGED <<live, staging, aside, vol, dir, made, touched, faults, losses, hands>>
      /\ At("count")
  BY DEF CountEntries, ledgers, ghosts, counters, At
<1>2. Cur \in Volumes /\ staging.kind = "ledger" /\ staging.src # None /\ Cur \in proc.todo
  BY <1>1 DEF IInv, TypeOK, Procs, Nodes, SessionInv, At, LoopPCs, Cur
<1>3. /\ proc' \in Procs /\ proc'.pc \in {"fill", "verify"}
      /\ proc'.cur = proc.cur /\ proc'.todo = proc.todo
  <2>1. PICK pc \in {"fill", "verify"} : Goto(pc)
    BY DEF CountEntries
  <2> QED BY <2>1, GotoIs DEF IInv, PCs
<1>4. DirsKept
  BY <1>1, <1>3 DEF DirsKept, Settled, BackupPCs, At
<1>5. StagingKept
  BY <1>1 DEF StagingKept
<1>6. TypeOK'
  BY <1>1, <1>2, <1>3, <1>4, <1>5 DEF IInv, TypeOK
<1>7. SessionInv'
  BY <1>1, <1>2, <1>3, <1>4, <1>5 DEF IInv, TypeOK, SessionInv, At, Cur, BackupPCs, LoopPCs, AbandonPCs
<1>8. SourceInv'
  BY <1>1, <1>2, <1>3, <1>4, <1>5 DEF IInv, TypeOK, SourceInv
<1>9. StagedInv'
  BY <1>1, <1>2, <1>3, <1>4, <1>5, StagedKept DEF IInv
<1>10. LoopInv'
  BY <1>1, <1>2, <1>3, <1>4, <1>5 DEF IInv, TypeOK, LoopInv, Done, OursAt, Cur, At, LoopPCs
<1>11. JudgedInv'
  BY <1>1, <1>2, <1>3, <1>4, <1>5 DEF IInv, TypeOK, JudgedInv, OursAt, Cur, At
<1>12. UsedInv'
  BY <1>1, <1>2, <1>3, <1>4, <1>5 DEF IInv, TypeOK, UsedInv, OursAt
<1> QED BY <1>6, <1>7, <1>8, <1>9, <1>10, <1>11, <1>12 DEF IInv

LEMMA FillBeginsKeeps == IInv /\ FillBegins => IInv'
<1> SUFFICES ASSUME IInv, FillBegins PROVE IInv'
  OBVIOUS
<1>1. /\ UNCHANGED <<live, staging, aside, dir, made, touched, faults, losses, hands>>
      /\ At("fill")
  BY DEF FillBegins, ledgers, ghosts, counters, At
<1>2. Cur \in Volumes /\ staging.kind = "ledger" /\ staging.src # None /\ Cur \in proc.todo
  BY <1>1 DEF IInv, TypeOK, Procs, Nodes, SessionInv, At, LoopPCs, Cur
<1>3. proc' \in Procs /\ proc'.pc = "filling" /\ proc'.dir = proc.dir /\ proc'.todo = proc.todo /\ proc'.cur = proc.cur
  BY GotoIs DEF FillBegins, IInv, PCs
<1>4. PICK y \in Versions \cup {Empty, Partial} : vol' = [vol EXCEPT ![Cur].data = y]
  BY DEF FillBegins
<1>5. PICK x \in Vols : /\ x.owner = vol[Cur].owner /\ x.marked = vol[Cur].marked
                         /\ x.used = vol[Cur].used
                         /\ vol' = [vol EXCEPT ![Cur] = x]
  <2>1. vol[Cur] \in Vols
    BY <1>2 DEF IInv, TypeOK
  <2>2. [vol[Cur] EXCEPT !.data = y] \in Vols
    BY <2>1 DEF Vols
  <2>3. vol' = [vol EXCEPT ![Cur] = [vol[Cur] EXCEPT !.data = y]]
    BY <1>2, <1>4 DEF IInv, TypeOK
  <2> QED BY <2>1, <2>2, <2>3 DEF Vols
<1>6. /\ vol' \in [Volumes -> Vols]
      /\ \A v \in Volumes : vol'[v] = IF v = Cur THEN x ELSE vol[v]
  BY <1>2, <1>5, VolIs DEF IInv, TypeOK
<1>7. DirsKept
  BY <1>1, <1>3 DEF DirsKept, Settled, BackupPCs, At
<1>8. StagingKept
  BY <1>1 DEF StagingKept
<1>9. TypeOK'
  BY <1>1, <1>2, <1>3, <1>4, <1>5, <1>6, <1>7, <1>8 DEF IInv, TypeOK
<1>10. SessionInv'
  BY <1>1, <1>2, <1>3, <1>4, <1>5, <1>6, <1>7, <1>8 DEF IInv, TypeOK, SessionInv, At, Cur, BackupPCs, LoopPCs, AbandonPCs
<1>11. SourceInv'
  BY <1>1, <1>2, <1>3, <1>4, <1>5, <1>6, <1>7, <1>8 DEF IInv, TypeOK, SourceInv
<1>12. StagedInv'
  BY <1>1, <1>2, <1>3, <1>4, <1>5, <1>6, <1>7, <1>8, StagedKept DEF IInv
<1>13. LoopInv'
  BY <1>1, <1>2, <1>3, <1>4, <1>5, <1>6, <1>7, <1>8 DEF IInv, TypeOK, LoopInv, Done, OursAt, Cur, At, LoopPCs
<1>14. JudgedInv'
  BY <1>1, <1>2, <1>3, <1>4, <1>5, <1>6, <1>7, <1>8 DEF IInv, TypeOK, JudgedInv, OursAt, Cur, At
<1>15. UsedInv'
  BY <1>1, <1>2, <1>3, <1>4, <1>5, <1>6, <1>7, <1>8 DEF IInv, TypeOK, UsedInv, OursAt
<1> QED BY <1>9, <1>10, <1>11, <1>12, <1>13, <1>14, <1>15 DEF IInv

LEMMA FillEndsKeeps == IInv /\ FillEnds => IInv'
<1> SUFFICES ASSUME IInv, FillEnds PROVE IInv'
  OBVIOUS
<1>1. /\ UNCHANGED <<live, staging, aside, dir, made, touched, faults, losses, hands>>
      /\ At("filling")
  BY DEF FillEnds, ledgers, ghosts, counters, At
<1>2. Cur \in Volumes /\ staging.kind = "ledger" /\ staging.src # None /\ Cur \in proc.todo
  BY <1>1 DEF IInv, TypeOK, Procs, Nodes, SessionInv, At, LoopPCs, Cur
<1>3. proc' \in Procs /\ proc'.pc = "verify" /\ proc'.dir = proc.dir /\ proc'.todo = proc.todo /\ proc'.cur = proc.cur
  BY GotoIs DEF FillEnds, IInv, PCs
<1>4. PICK y \in Versions \cup {Empty, Partial} : vol' = [vol EXCEPT ![Cur].data = y]
  <2>1. dir[staging.src].data[Cur] \in Versions \cup {Missing, Partial}
    BY <1>2 DEF IInv, TypeOK, Nodes, Backups
  <2>2. dir[staging.src].data[Cur] # Missing
    BY <1>1 DEF IInv, LoopInv, LoopPCs, At
  <2> QED BY <2>1, <2>2 DEF FillEnds
<1>5. PICK x \in Vols : /\ x.owner = vol[Cur].owner /\ x.marked = vol[Cur].marked
                         /\ x.used = vol[Cur].used
                         /\ vol' = [vol EXCEPT ![Cur] = x]
  <2>1. vol[Cur] \in Vols
    BY <1>2 DEF IInv, TypeOK
  <2>2. [vol[Cur] EXCEPT !.data = y] \in Vols
    BY <2>1 DEF Vols
  <2>3. vol' = [vol EXCEPT ![Cur] = [vol[Cur] EXCEPT !.data = y]]
    BY <1>2, <1>4 DEF IInv, TypeOK
  <2> QED BY <2>1, <2>2, <2>3 DEF Vols
<1>6. /\ vol' \in [Volumes -> Vols]
      /\ \A v \in Volumes : vol'[v] = IF v = Cur THEN x ELSE vol[v]
  BY <1>2, <1>5, VolIs DEF IInv, TypeOK
<1>7. DirsKept
  BY <1>1, <1>3 DEF DirsKept, Settled, BackupPCs, At
<1>8. StagingKept
  BY <1>1 DEF StagingKept
<1>9. TypeOK'
  BY <1>1, <1>2, <1>3, <1>4, <1>5, <1>6, <1>7, <1>8 DEF IInv, TypeOK
<1>10. SessionInv'
  BY <1>1, <1>2, <1>3, <1>4, <1>5, <1>6, <1>7, <1>8 DEF IInv, TypeOK, SessionInv, At, Cur, BackupPCs, LoopPCs, AbandonPCs
<1>11. SourceInv'
  BY <1>1, <1>2, <1>3, <1>4, <1>5, <1>6, <1>7, <1>8 DEF IInv, TypeOK, SourceInv
<1>12. StagedInv'
  BY <1>1, <1>2, <1>3, <1>4, <1>5, <1>6, <1>7, <1>8, StagedKept DEF IInv
<1>13. LoopInv'
  BY <1>1, <1>2, <1>3, <1>4, <1>5, <1>6, <1>7, <1>8 DEF IInv, TypeOK, LoopInv, Done, OursAt, Cur, At, LoopPCs
<1>14. JudgedInv'
  BY <1>1, <1>2, <1>3, <1>4, <1>5, <1>6, <1>7, <1>8 DEF IInv, TypeOK, JudgedInv, OursAt, Cur, At
<1>15. UsedInv'
  BY <1>1, <1>2, <1>3, <1>4, <1>5, <1>6, <1>7, <1>8 DEF IInv, TypeOK, UsedInv, OursAt
<1> QED BY <1>9, <1>10, <1>11, <1>12, <1>13, <1>14, <1>15 DEF IInv

LEMMA VerifyVolumeKeeps == IInv /\ VerifyVolume => IInv'
<1> SUFFICES ASSUME IInv, VerifyVolume PROVE IInv'
  OBVIOUS
<1>1. /\ UNCHANGED <<live, staging, aside, vol, dir, made, touched, faults, losses, hands>>
      /\ At("verify")
  BY DEF VerifyVolume, ledgers, ghosts, counters, At
<1>2. Cur \in Volumes /\ staging.kind = "ledger" /\ staging.src # None /\ Cur \in proc.todo
  BY <1>1 DEF IInv, TypeOK, Procs, Nodes, SessionInv, At, LoopPCs, Cur
<1>3. /\ proc' \in Procs /\ proc'.pc \in {"idle", "create", "phase5"}
      /\ proc'.pc # "idle" => /\ proc'.todo = proc.todo \ {Cur}
                               /\ vol[Cur].data = dir[staging.src].man[Cur]
      /\ proc'.pc = "create" => proc'.cur \in proc'.todo
      /\ proc'.pc = "phase5" => proc'.todo = {}
  <2>1. PICK rest \in SUBSET Volumes : rest = proc.todo \ {Cur}
    BY DEF IInv, TypeOK, Procs
  <2>2. CASE NextVolume(rest, "create", "phase5") /\ vol[Cur].data = dir[staging.src].man[Cur]
    <3>1. TypeOK /\ "create" \in PCs /\ "phase5" \in PCs
      BY DEF IInv, PCs
    <3>2. /\ proc' \in Procs
          /\ rest = {} => proc'.pc = "phase5" /\ proc'.todo = {}
          /\ rest # {} => /\ proc'.pc = "create" /\ proc'.todo = rest /\ proc'.cur \in rest
                          /\ proc'.dir = proc.dir
      BY <2>2, <3>1, NextIs
    <3> QED BY <2>1, <2>2, <3>2
  <2>3. CASE End
    BY <2>3, EndIs
  <2> QED BY <2>1, <2>2, <2>3 DEF VerifyVolume
<1>4. DirsKept
  BY <1>1, <1>3 DEF DirsKept, Settled, BackupPCs, At
<1>5. StagingKept
  BY <1>1 DEF StagingKept
<1>6. TypeOK'
  BY <1>1, <1>2, <1>3, <1>4, <1>5 DEF IInv, TypeOK
<1>7. SessionInv'
  BY <1>1, <1>2, <1>3, <1>4, <1>5 DEF IInv, TypeOK, SessionInv, At, Cur, BackupPCs, LoopPCs, AbandonPCs
<1>8. SourceInv'
  BY <1>1, <1>2, <1>3, <1>4, <1>5 DEF IInv, TypeOK, SourceInv
<1>9. StagedInv'
  BY <1>1, <1>2, <1>3, <1>4, <1>5, StagedKept DEF IInv
<1>10. LoopInv'
  BY <1>1, <1>2, <1>3, <1>4, <1>5 DEF IInv, TypeOK, LoopInv, Done, OursAt, Cur, At, LoopPCs
<1>11. JudgedInv'
  BY <1>1, <1>2, <1>3, <1>4, <1>5 DEF IInv, TypeOK, JudgedInv, OursAt, Cur, At
<1>12. UsedInv'
  BY <1>1, <1>2, <1>3, <1>4, <1>5 DEF IInv, TypeOK, UsedInv, OursAt
<1> QED BY <1>6, <1>7, <1>8, <1>9, <1>10, <1>11, <1>12 DEF IInv

LEMMA Phase5Keeps == IInv /\ Phase5 => IInv'
<1> SUFFICES ASSUME IInv, Phase5 PROVE IInv'
  OBVIOUS
<1>1. /\ UNCHANGED <<live, aside, vol, dir, made, touched, faults, losses, hands>>
      /\ At("phase5")
  BY DEF Phase5, ledgers, ghosts, counters, At
<1>2. staging.kind = "ledger" /\ staging.src # None /\ proc.todo = {}
  BY <1>1 DEF IInv, SessionInv, At
<1>3. proc' \in Procs /\ proc'.pc = "activate"
  BY <1>2, GotoIs DEF Phase5, IInv, PCs
<1>4. staging' \in Nodes /\ staging'.kind = "ledger" /\ staging'.src = None /\ staging'.vols = staging.vols
  <2>1. staging' = [staging EXCEPT !.src = None] /\ staging \in Nodes
    BY <1>2 DEF Phase5, IInv, TypeOK
  <2> QED BY <1>2, <2>1, SourceIs
<1>5. PICK d \in Dirs : d = staging.src /\ Settled(d) /\ dir[d].ledger.vols = staging.vols
  BY <1>2 DEF IInv, StagedInv, Settled
<1>6. WholeFrom(dir[d], staging)'
  BY <1>1, <1>2, <1>4, <1>5 DEF IInv, LoopInv, Done, WholeFrom, OursAt, At
<1>7. Settled(d)'
  BY <1>1, <1>3, <1>5 DEF Settled, BackupPCs
<1>8. TypeOK'
  BY <1>1, <1>2, <1>3, <1>4, <1>5, <1>6, <1>7 DEF IInv, TypeOK
<1>9. SessionInv'
  BY <1>1, <1>2, <1>3, <1>4, <1>5, <1>6, <1>7 DEF IInv, TypeOK, SessionInv, At, Cur, BackupPCs, LoopPCs, AbandonPCs
<1>10. SourceInv'
  BY <1>1, <1>2, <1>3, <1>4, <1>5, <1>6, <1>7 DEF IInv, TypeOK, SourceInv
<1>11. StagedInv'
  BY <1>1, <1>4, <1>6, <1>7 DEF StagedInv
<1>12. LoopInv'
  BY <1>1, <1>2, <1>3, <1>4, <1>5, <1>6, <1>7 DEF IInv, TypeOK, LoopInv, Done, OursAt, Cur, At, LoopPCs
<1>13. JudgedInv'
  BY <1>1, <1>2, <1>3, <1>4, <1>5, <1>6, <1>7 DEF IInv, TypeOK, JudgedInv, OursAt, Cur, At
<1>14. UsedInv'
  BY <1>1, <1>2, <1>3, <1>4, <1>5, <1>6, <1>7 DEF IInv, TypeOK, UsedInv, OursAt
<1> QED BY <1>8, <1>9, <1>10, <1>11, <1>12, <1>13, <1>14 DEF IInv

LEMMA ActivateKeeps == IInv /\ Activate => IInv'
<1> SUFFICES ASSUME IInv, Activate PROVE IInv'
  OBVIOUS
<1>1. /\ UNCHANGED <<aside, vol, dir, losses, hands>>
      /\ At("activate")
  BY DEF Activate, ledgers, ghosts, counters, At
<1>2. staging.kind = "ledger" /\ staging.src = None /\ staging \in Nodes
  BY <1>1 DEF IInv, SessionInv, At, TypeOK
<1>3. proc' \in Procs /\ proc'.pc = "idle"
  BY EndIs DEF Activate
<1>4. /\ staging' = staging \/ staging' = NoNode
      /\ faults' \in 0 .. MaxFaults
  BY MovedIs DEF Activate, IInv, TypeOK
<1>5. live' = live \/ live' = staging
  BY DEF Activate
<1>6. staging' \in Nodes /\ (staging' = staging \/ staging'.kind = "none")
  BY <1>2, <1>4, NodesAre
<1>7. /\ made' = {} \/ made' = made
      /\ touched' = touched \/ touched' = Volumes
  BY DEF Activate, ghosts
<1>8. DirsKept
  BY <1>1, <1>3 DEF DirsKept, Settled, BackupPCs, At
<1>9. StagingKept
  BY <1>6 DEF StagingKept
<1>10. VolumesKept
  BY <1>1, <1>7 DEF VolumesKept, OursAt
<1>11. TypeOK'
  BY <1>1, <1>2, <1>3, <1>4, <1>5, <1>6, <1>7, <1>8, <1>9, <1>10 DEF IInv, TypeOK
<1>12. SessionInv'
  BY <1>1, <1>2, <1>3, <1>4, <1>5, <1>6, <1>7, <1>8, <1>9, <1>10 DEF IInv, TypeOK, SessionInv, At, Cur, BackupPCs, LoopPCs, AbandonPCs
<1>13. SourceInv'
  BY <1>1, <1>2, <1>3, <1>4, <1>5, <1>6, <1>7, <1>8, <1>9, <1>10 DEF IInv, TypeOK, SourceInv
<1>14. StagedInv'
  BY <1>1, <1>2, <1>3, <1>4, <1>5, <1>6, <1>7, <1>8, <1>9, <1>10, StagedKept DEF IInv
<1>15. LoopInv'
  BY <1>1, <1>2, <1>3, <1>4, <1>5, <1>6, <1>7, <1>8, <1>9, <1>10 DEF IInv, TypeOK, LoopInv, Done, OursAt, Cur, At, LoopPCs
<1>16. JudgedInv'
  BY <1>1, <1>2, <1>3, <1>4, <1>5, <1>6, <1>7, <1>8, <1>9, <1>10 DEF IInv, TypeOK, JudgedInv, OursAt, Cur, At
<1>17. UsedInv'
  BY <1>1, <1>2, <1>3, <1>4, <1>5, <1>6, <1>7, <1>8, <1>9, <1>10 DEF IInv, TypeOK, UsedInv, OursAt
<1> QED BY <1>11, <1>12, <1>13, <1>14, <1>15, <1>16, <1>17 DEF IInv

\* restore --abandon.
LEMMA AbandonBeginKeeps == IInv /\ AbandonBegin => IInv'
<1> SUFFICES ASSUME IInv, AbandonBegin PROVE IInv'
  OBVIOUS
<1>1. /\ UNCHANGED <<live, staging, aside, vol, dir, made, touched, faults, losses, hands>>
      /\ At("idle") /\ staging.kind = "ledger"
  BY DEF AbandonBegin, ledgers, ghosts, counters, At
<1>2. staging.vols \in SUBSET Volumes
  BY DEF IInv, TypeOK, Nodes
<1>3. /\ proc' \in Procs /\ proc'.pc \in {"judge", "abandoned"}
      /\ proc'.pc = "judge" => proc'.cur \in proc'.todo /\ proc'.todo = staging.vols
      /\ proc'.pc = "abandoned" => staging.vols = {} /\ proc'.todo = {}
  <2>1. PICK rest \in SUBSET Volumes : rest = staging.vols
    BY <1>2
  <2>2. NextVolume(rest, "judge", "abandoned")
    BY <2>1 DEF AbandonBegin
  <2>3. TypeOK /\ "judge" \in PCs /\ "abandoned" \in PCs
    BY DEF IInv, PCs
  <2>4. /\ proc' \in Procs
        /\ rest = {} => proc'.pc = "abandoned" /\ proc'.todo = {}
        /\ rest # {} => /\ proc'.pc = "judge" /\ proc'.todo = rest /\ proc'.cur \in rest
                        /\ proc'.dir = proc.dir
    BY <2>2, <2>3, NextIs
  <2> QED BY <2>1, <2>4
<1>4. proc'.pc = "judge" => proc'.cur \in Volumes
  BY <1>2, <1>3
<1>5. DirsKept
  BY <1>1, <1>3 DEF DirsKept, Settled, BackupPCs, At
<1>6. StagingKept
  BY <1>1 DEF StagingKept
<1>7. VolumesKept
  BY <1>1 DEF VolumesKept, OursAt
<1>8. TypeOK'
  BY <1>1, <1>2, <1>3, <1>4, <1>5, <1>6, <1>7 DEF IInv, TypeOK
<1>9. SessionInv'
  BY <1>1, <1>2, <1>3, <1>4, <1>5, <1>6, <1>7 DEF IInv, TypeOK, SessionInv, At, Cur, BackupPCs, LoopPCs, AbandonPCs
<1>10. SourceInv'
  BY <1>1, <1>2, <1>3, <1>4, <1>5, <1>6, <1>7 DEF IInv, TypeOK, SourceInv
<1>11. StagedInv'
  BY <1>1, <1>2, <1>3, <1>4, <1>5, <1>6, <1>7, StagedKept DEF IInv
<1>12. LoopInv'
  BY <1>1, <1>2, <1>3, <1>4, <1>5, <1>6, <1>7 DEF IInv, TypeOK, LoopInv, Done, OursAt, Cur, At, LoopPCs
<1>13. JudgedInv'
  BY <1>1, <1>2, <1>3, <1>4, <1>5, <1>6, <1>7 DEF IInv, TypeOK, JudgedInv, OursAt, Cur, At
<1>14. UsedInv'
  BY <1>1, <1>2, <1>3, <1>4, <1>5, <1>6, <1>7 DEF IInv, TypeOK, UsedInv, OursAt
<1> QED BY <1>8, <1>9, <1>10, <1>11, <1>12, <1>13, <1>14 DEF IInv

LEMMA JudgeKeeps == IInv /\ Judge => IInv'
<1> SUFFICES ASSUME IInv, Judge PROVE IInv'
  OBVIOUS
<1>1. /\ UNCHANGED <<live, staging, aside, vol, dir, made, touched, faults, losses, hands>>
      /\ At("judge")
  BY DEF Judge, ledgers, ghosts, counters, At
<1>2. staging.kind = "ledger" /\ Cur \in Volumes
  BY <1>1 DEF IInv, SessionInv, AbandonPCs, At
<1>3. /\ proc' \in Procs /\ proc'.pc \in {"judge", "remove", "abandoned"}
      /\ proc'.pc \in {"judge", "remove"} => proc'.cur \in Volumes
      /\ proc'.pc = "remove" => OursAt(Cur) /\ proc'.cur = proc.cur
  <2>1. PICK rest \in SUBSET Volumes : rest = proc.todo \ {Cur}
    BY DEF IInv, TypeOK, Procs
  <2>2. CASE NextVolume(rest, "judge", "abandoned")
    <3>1. TypeOK /\ "judge" \in PCs /\ "abandoned" \in PCs
      BY DEF IInv, PCs
    <3>2. /\ proc' \in Procs
          /\ rest = {} => proc'.pc = "abandoned" /\ proc'.todo = {}
          /\ rest # {} => /\ proc'.pc = "judge" /\ proc'.todo = rest /\ proc'.cur \in rest
                          /\ proc'.dir = proc.dir
      BY <2>2, <3>1, NextIs
    <3> QED BY <2>1, <2>2, <3>2
  <2>3. CASE Goto("remove") /\ OursAt(Cur)
    BY <1>2, <2>3, GotoIs DEF IInv, PCs, Cur
  <2> QED BY <2>1, <2>2, <2>3 DEF Judge
<1>4. DirsKept
  BY <1>1, <1>3 DEF DirsKept, Settled, BackupPCs, At
<1>5. StagingKept
  BY <1>1 DEF StagingKept
<1>6. VolumesKept
  BY <1>1 DEF VolumesKept, OursAt
<1>7. TypeOK'
  BY <1>1, <1>2, <1>3, <1>4, <1>5, <1>6 DEF IInv, TypeOK
<1>8. SessionInv'
  BY <1>1, <1>2, <1>3, <1>4, <1>5, <1>6 DEF IInv, TypeOK, SessionInv, At, Cur, BackupPCs, LoopPCs, AbandonPCs
<1>9. SourceInv'
  BY <1>1, <1>2, <1>3, <1>4, <1>5, <1>6 DEF IInv, TypeOK, SourceInv
<1>10. StagedInv'
  BY <1>1, <1>2, <1>3, <1>4, <1>5, <1>6, StagedKept DEF IInv
<1>11. LoopInv'
  BY <1>1, <1>2, <1>3, <1>4, <1>5, <1>6 DEF IInv, TypeOK, LoopInv, Done, OursAt, Cur, At, LoopPCs
<1>12. JudgedInv'
  BY <1>1, <1>2, <1>3, <1>4, <1>5, <1>6 DEF IInv, TypeOK, JudgedInv, OursAt, Cur, At
<1>13. UsedInv'
  BY <1>1, <1>2, <1>3, <1>4, <1>5, <1>6 DEF IInv, TypeOK, UsedInv, OursAt
<1> QED BY <1>7, <1>8, <1>9, <1>10, <1>11, <1>12, <1>13 DEF IInv

LEMMA CannotJudgeKeeps == IInv /\ CannotJudge => IInv'
<1> SUFFICES ASSUME IInv, CannotJudge PROVE IInv'
  OBVIOUS
<1>1. /\ UNCHANGED <<live, staging, aside, vol, dir, made, touched, losses, hands>>
      /\ At("judge")
  BY DEF CannotJudge, ledgers, ghosts, counters, At
<1>2. staging.kind = "ledger" /\ Cur \in Volumes
  BY <1>1 DEF IInv, SessionInv, AbandonPCs, At
<1>3. /\ proc' \in Procs /\ proc'.pc \in {"abandoned", "judge"}
      /\ proc'.pc = "judge" => proc'.cur \in Volumes
  BY KeepsIs DEF CannotJudge, IInv
<1>4. faults' \in 0 .. MaxFaults
  BY CountIs DEF CannotJudge, IInv, TypeOK
<1>5. DirsKept
  BY <1>1, <1>3 DEF DirsKept, Settled, BackupPCs, At
<1>6. StagingKept
  BY <1>1 DEF StagingKept
<1>7. VolumesKept
  BY <1>1 DEF VolumesKept, OursAt
<1>8. TypeOK'
  BY <1>1, <1>2, <1>3, <1>4, <1>5, <1>6, <1>7 DEF IInv, TypeOK
<1>9. SessionInv'
  BY <1>1, <1>2, <1>3, <1>4, <1>5, <1>6, <1>7 DEF IInv, TypeOK, SessionInv, At, Cur, BackupPCs, LoopPCs, AbandonPCs
<1>10. SourceInv'
  BY <1>1, <1>2, <1>3, <1>4, <1>5, <1>6, <1>7 DEF IInv, TypeOK, SourceInv
<1>11. StagedInv'
  BY <1>1, <1>2, <1>3, <1>4, <1>5, <1>6, <1>7, StagedKept DEF IInv
<1>12. LoopInv'
  BY <1>1, <1>2, <1>3, <1>4, <1>5, <1>6, <1>7 DEF IInv, TypeOK, LoopInv, Done, OursAt, Cur, At, LoopPCs
<1>13. JudgedInv'
  BY <1>1, <1>2, <1>3, <1>4, <1>5, <1>6, <1>7 DEF IInv, TypeOK, JudgedInv, OursAt, Cur, At
<1>14. UsedInv'
  BY <1>1, <1>2, <1>3, <1>4, <1>5, <1>6, <1>7 DEF IInv, TypeOK, UsedInv, OursAt
<1> QED BY <1>8, <1>9, <1>10, <1>11, <1>12, <1>13, <1>14 DEF IInv

LEMMA RemoveKeeps == IInv /\ Remove => IInv'
<1> SUFFICES ASSUME IInv, Remove PROVE IInv'
  OBVIOUS
<1>1. /\ UNCHANGED <<live, staging, aside, dir, faults, losses, hands>>
      /\ At("remove")
  BY DEF Remove, ledgers, ghosts, counters, At
<1>2. staging.kind = "ledger" /\ Cur \in Volumes
  BY <1>1 DEF IInv, SessionInv, AbandonPCs, At
<1>3. /\ proc' \in Procs /\ proc'.pc \in {"abandoned", "judge"}
      /\ proc'.pc = "judge" => proc'.cur \in Volumes
  <2>1. PICK rest \in SUBSET Volumes : rest = proc.todo \ {Cur}
    BY DEF IInv, TypeOK, Procs
  <2>2. NextVolume(rest, "judge", "abandoned")
    BY <2>1 DEF Remove
  <2>3. TypeOK /\ "judge" \in PCs /\ "abandoned" \in PCs
    BY DEF IInv, PCs
  <2>4. /\ proc' \in Procs
        /\ rest = {} => proc'.pc = "abandoned" /\ proc'.todo = {}
        /\ rest # {} => /\ proc'.pc = "judge" /\ proc'.todo = rest /\ proc'.cur \in rest
                        /\ proc'.dir = proc.dir
    BY <2>2, <2>3, NextIs
  <2> QED BY <2>1, <2>4
<1>4. /\ vol' \in [Volumes -> Vols]
      /\ \A v \in Volumes : vol'[v] = IF v = Cur THEN Absent ELSE vol[v]
  BY <1>2, VolIs, VolsAre DEF Remove, IInv, TypeOK
<1>5. made' = made \ {Cur} /\ touched' = touched \cup {Cur} /\ Absent.used = FALSE
  BY VolsAre DEF Remove
<1>6. DirsKept
  BY <1>1, <1>3 DEF DirsKept, Settled, BackupPCs, At
<1>7. StagingKept
  BY <1>1 DEF StagingKept
<1>8. VolumesKept
  BY <1>1, <1>2, <1>4, <1>5 DEF VolumesKept, OursAt
<1>9. TypeOK'
  BY <1>1, <1>2, <1>3, <1>4, <1>5, <1>6, <1>7, <1>8 DEF IInv, TypeOK
<1>10. SessionInv'
  BY <1>1, <1>2, <1>3, <1>4, <1>5, <1>6, <1>7, <1>8 DEF IInv, TypeOK, SessionInv, At, Cur, BackupPCs, LoopPCs, AbandonPCs
<1>11. SourceInv'
  BY <1>1, <1>2, <1>3, <1>4, <1>5, <1>6, <1>7, <1>8 DEF IInv, TypeOK, SourceInv
<1>12. StagedInv'
  BY <1>1, <1>2, <1>3, <1>4, <1>5, <1>6, <1>7, <1>8, StagedKept DEF IInv
<1>13. LoopInv'
  BY <1>1, <1>2, <1>3, <1>4, <1>5, <1>6, <1>7, <1>8 DEF IInv, TypeOK, LoopInv, Done, OursAt, Cur, At, LoopPCs
<1>14. JudgedInv'
  BY <1>1, <1>2, <1>3, <1>4, <1>5, <1>6, <1>7, <1>8 DEF IInv, TypeOK, JudgedInv, OursAt, Cur, At
<1>15. UsedInv'
  BY <1>1, <1>2, <1>3, <1>4, <1>5, <1>6, <1>7, <1>8 DEF IInv, TypeOK, UsedInv, OursAt
<1> QED BY <1>9, <1>10, <1>11, <1>12, <1>13, <1>14, <1>15 DEF IInv

LEMMA RemoveFailsKeeps == IInv /\ RemoveFails => IInv'
<1> SUFFICES ASSUME IInv, RemoveFails PROVE IInv'
  OBVIOUS
<1>1. /\ UNCHANGED <<live, staging, aside, vol, dir, made, touched, losses, hands>>
      /\ At("remove")
  BY DEF RemoveFails, ledgers, ghosts, counters, At
<1>2. staging.kind = "ledger" /\ Cur \in Volumes
  BY <1>1 DEF IInv, SessionInv, AbandonPCs, At
<1>3. /\ proc' \in Procs /\ proc'.pc \in {"abandoned", "judge"}
      /\ proc'.pc = "judge" => proc'.cur \in Volumes
  BY KeepsIs DEF RemoveFails, IInv
<1>4. faults' \in 0 .. MaxFaults
  BY CountIs DEF RemoveFails, IInv, TypeOK
<1>5. DirsKept
  BY <1>1, <1>3 DEF DirsKept, Settled, BackupPCs, At
<1>6. StagingKept
  BY <1>1 DEF StagingKept
<1>7. VolumesKept
  BY <1>1 DEF VolumesKept, OursAt
<1>8. TypeOK'
  BY <1>1, <1>2, <1>3, <1>4, <1>5, <1>6, <1>7 DEF IInv, TypeOK
<1>9. SessionInv'
  BY <1>1, <1>2, <1>3, <1>4, <1>5, <1>6, <1>7 DEF IInv, TypeOK, SessionInv, At, Cur, BackupPCs, LoopPCs, AbandonPCs
<1>10. SourceInv'
  BY <1>1, <1>2, <1>3, <1>4, <1>5, <1>6, <1>7 DEF IInv, TypeOK, SourceInv
<1>11. StagedInv'
  BY <1>1, <1>2, <1>3, <1>4, <1>5, <1>6, <1>7, StagedKept DEF IInv
<1>12. LoopInv'
  BY <1>1, <1>2, <1>3, <1>4, <1>5, <1>6, <1>7 DEF IInv, TypeOK, LoopInv, Done, OursAt, Cur, At, LoopPCs
<1>13. JudgedInv'
  BY <1>1, <1>2, <1>3, <1>4, <1>5, <1>6, <1>7 DEF IInv, TypeOK, JudgedInv, OursAt, Cur, At
<1>14. UsedInv'
  BY <1>1, <1>2, <1>3, <1>4, <1>5, <1>6, <1>7 DEF IInv, TypeOK, UsedInv, OursAt
<1> QED BY <1>8, <1>9, <1>10, <1>11, <1>12, <1>13, <1>14 DEF IInv

LEMMA AbandonedKeeps == IInv /\ Abandoned => IInv'
<1> SUFFICES ASSUME IInv, Abandoned PROVE IInv'
  OBVIOUS
<1>1. /\ UNCHANGED <<live, aside, vol, dir, made, touched, faults, losses, hands>>
      /\ At("abandoned")
  BY DEF Abandoned, ledgers, ghosts, counters, At
<1>2. proc' \in Procs /\ proc'.pc = "idle"
  BY EndIs DEF Abandoned
<1>3. staging' \in Nodes /\ (staging' = staging \/ staging'.kind = "none")
  BY NodesAre DEF Abandoned, IInv, TypeOK
<1>4. DirsKept
  BY <1>1, <1>2 DEF DirsKept, Settled, BackupPCs, At
<1>5. StagingKept
  BY <1>3 DEF StagingKept
<1>6. VolumesKept
  BY <1>1 DEF VolumesKept, OursAt
<1>7. TypeOK'
  BY <1>1, <1>2, <1>3, <1>4, <1>5, <1>6 DEF IInv, TypeOK
<1>8. SessionInv'
  BY <1>1, <1>2, <1>3, <1>4, <1>5, <1>6 DEF IInv, TypeOK, SessionInv, At, Cur, BackupPCs, LoopPCs, AbandonPCs
<1>9. SourceInv'
  BY <1>1, <1>2, <1>3, <1>4, <1>5, <1>6 DEF IInv, TypeOK, SourceInv
<1>10. StagedInv'
  BY <1>1, <1>2, <1>3, <1>4, <1>5, <1>6, StagedKept DEF IInv
<1>11. LoopInv'
  BY <1>1, <1>2, <1>3, <1>4, <1>5, <1>6 DEF IInv, TypeOK, LoopInv, Done, OursAt, Cur, At, LoopPCs
<1>12. JudgedInv'
  BY <1>1, <1>2, <1>3, <1>4, <1>5, <1>6 DEF IInv, TypeOK, JudgedInv, OursAt, Cur, At
<1>13. UsedInv'
  BY <1>1, <1>2, <1>3, <1>4, <1>5, <1>6 DEF IInv, TypeOK, UsedInv, OursAt
<1> QED BY <1>7, <1>8, <1>9, <1>10, <1>11, <1>12, <1>13 DEF IInv

\* Deaths, and everybody else.
LEMMA DiesKeeps == IInv /\ Dies => IInv'
<1> SUFFICES ASSUME IInv, Dies PROVE IInv'
  OBVIOUS
<1>1. UNCHANGED <<live, staging, aside, vol, dir, made, touched, losses, hands>>
  BY DEF Dies, ledgers, ghosts, counters, At
<1>2. proc' \in Procs /\ proc'.pc = "idle"
  BY EndIs DEF Dies
<1>3. faults' \in 0 .. MaxFaults
  BY CountIs DEF Dies, IInv, TypeOK
<1>4. DirsKept
  BY <1>1, <1>2 DEF DirsKept, Settled, BackupPCs, At
<1>5. StagingKept
  BY <1>1 DEF StagingKept
<1>6. VolumesKept
  BY <1>1 DEF VolumesKept, OursAt
<1>7. TypeOK'
  BY <1>1, <1>2, <1>3, <1>4, <1>5, <1>6 DEF IInv, TypeOK
<1>8. SessionInv'
  BY <1>1, <1>2, <1>3, <1>4, <1>5, <1>6 DEF IInv, TypeOK, SessionInv, At, Cur, BackupPCs, LoopPCs, AbandonPCs
<1>9. SourceInv'
  BY <1>1, <1>2, <1>3, <1>4, <1>5, <1>6 DEF IInv, TypeOK, SourceInv
<1>10. StagedInv'
  BY <1>1, <1>2, <1>3, <1>4, <1>5, <1>6, StagedKept DEF IInv
<1>11. LoopInv'
  BY <1>1, <1>2, <1>3, <1>4, <1>5, <1>6 DEF IInv, TypeOK, LoopInv, Done, OursAt, Cur, At, LoopPCs
<1>12. JudgedInv'
  BY <1>1, <1>2, <1>3, <1>4, <1>5, <1>6 DEF IInv, TypeOK, JudgedInv, OursAt, Cur, At
<1>13. UsedInv'
  BY <1>1, <1>2, <1>3, <1>4, <1>5, <1>6 DEF IInv, TypeOK, UsedInv, OursAt
<1> QED BY <1>7, <1>8, <1>9, <1>10, <1>11, <1>12, <1>13 DEF IInv

LEMMA ProductWritesKeeps ==
    ASSUME IInv, NEW u \in Volumes, ProductWrites(u)
    PROVE  IInv'
<1>1. /\ UNCHANGED <<live, staging, aside, dir, touched, faults, losses, hands>>
      /\ proc' = proc
  BY DEF ProductWrites, Hand, Takes, ledgers, ghosts, counters
<1>2. made' = made \ {u}
  BY DEF ProductWrites
<1>3. PICK x \in Vols : /\ x.owner = vol[u].owner /\ x.marked = vol[u].marked /\ x.used = vol[u].used
                         /\ vol' = [vol EXCEPT ![u] = x]
  <2>1. vol[u] \in Vols /\ vol[u].data + 1 \in Versions
    BY DEF ProductWrites, IInv, TypeOK, Versions
  <2>2. [vol[u] EXCEPT !.data = vol[u].data + 1] \in Vols
    BY <2>1 DEF Vols
  <2>3. vol' = [vol EXCEPT ![u] = [vol[u] EXCEPT !.data = vol[u].data + 1]]
    BY DEF ProductWrites, IInv, TypeOK
  <2> QED BY <2>1, <2>2, <2>3 DEF Vols
<1>4. /\ vol' \in [Volumes -> Vols]
      /\ \A v \in Volumes : vol'[v] = IF v = u THEN x ELSE vol[v]
  BY <1>3, VolIs DEF IInv, TypeOK
<1>5. DirsKept
  BY <1>1 DEF DirsKept, Settled
<1>6. StagingKept
  BY <1>1 DEF StagingKept
<1>7. VolumesKept
  BY <1>1, <1>2, <1>3, <1>4 DEF VolumesKept, OursAt
<1>8. TypeOK'
  BY <1>1, <1>2, <1>3, <1>4, <1>5, <1>6, <1>7 DEF IInv, TypeOK
<1>9. SessionInv'
  BY <1>1, <1>2, <1>3, <1>4, <1>5, <1>6, <1>7 DEF IInv, TypeOK, SessionInv, At, Cur, BackupPCs, LoopPCs, AbandonPCs
<1>10. SourceInv'
  BY <1>1, <1>2, <1>3, <1>4, <1>5, <1>6, <1>7 DEF IInv, TypeOK, SourceInv
<1>11. StagedInv'
  BY <1>1, <1>2, <1>3, <1>4, <1>5, <1>6, <1>7, StagedKept DEF IInv
<1>12. LoopInv'
  BY <1>1, <1>2, <1>3, <1>4, <1>5, <1>6, <1>7 DEF IInv, TypeOK, LoopInv, Done, OursAt, Cur, At, LoopPCs
<1>13. JudgedInv'
  BY <1>1, <1>2, <1>3, <1>4, <1>5, <1>6, <1>7 DEF IInv, TypeOK, JudgedInv, OursAt, Cur, At
<1>14. UsedInv'
  BY <1>1, <1>2, <1>3, <1>4, <1>5, <1>6, <1>7 DEF IInv, TypeOK, UsedInv, OursAt
<1> QED BY <1>8, <1>9, <1>10, <1>11, <1>12, <1>13, <1>14 DEF IInv

LEMMA RelaunchKeeps ==
    ASSUME IInv, NEW u \in Volumes, Relaunch(u)
    PROVE  IInv'
<1>1. /\ UNCHANGED <<live, staging, aside, dir, made, touched, faults, losses, hands>>
      /\ proc' = proc
  BY DEF Relaunch, Hand, Takes, ledgers, ghosts, counters
<1>2. At("idle") /\ OursAt(u)
  BY DEF Relaunch
<1>3. PICK x \in Vols : /\ x.owner = vol[u].owner /\ x.marked = vol[u].marked /\ x.data = vol[u].data
                         /\ vol' = [vol EXCEPT ![u] = x]
  <2>1. vol[u] \in Vols
    BY DEF Relaunch, IInv, TypeOK, Versions
  <2>2. [vol[u] EXCEPT !.used = TRUE] \in Vols
    BY <2>1 DEF Vols
  <2>3. vol' = [vol EXCEPT ![u] = [vol[u] EXCEPT !.used = TRUE]]
    BY DEF Relaunch, IInv, TypeOK
  <2> QED BY <2>1, <2>2, <2>3 DEF Vols
<1>4. /\ vol' \in [Volumes -> Vols]
      /\ \A v \in Volumes : vol'[v] = IF v = u THEN x ELSE vol[v]
  BY <1>3, VolIs DEF IInv, TypeOK
<1>5. DirsKept
  BY <1>1 DEF DirsKept, Settled
<1>6. StagingKept
  BY <1>1 DEF StagingKept
<1>7. VolumesKept
  BY <1>1, <1>3, <1>4 DEF VolumesKept, OursAt
<1>8. TypeOK'
  BY <1>1, <1>2, <1>3, <1>4, <1>5, <1>6, <1>7 DEF IInv, TypeOK
<1>9. SessionInv'
  BY <1>1, <1>2, <1>3, <1>4, <1>5, <1>6, <1>7 DEF IInv, TypeOK, SessionInv, At, Cur, BackupPCs, LoopPCs, AbandonPCs
<1>10. SourceInv'
  BY <1>1, <1>2, <1>3, <1>4, <1>5, <1>6, <1>7 DEF IInv, TypeOK, SourceInv
<1>11. StagedInv'
  BY <1>1, <1>2, <1>3, <1>4, <1>5, <1>6, <1>7, StagedKept DEF IInv
<1>12. LoopInv'
  BY <1>1, <1>2, <1>3, <1>4, <1>5, <1>6, <1>7 DEF IInv, TypeOK, LoopInv, Done, OursAt, Cur, At, LoopPCs
<1>13. JudgedInv'
  BY <1>1, <1>2, <1>3, <1>4, <1>5, <1>6, <1>7 DEF IInv, TypeOK, JudgedInv, OursAt, Cur, At
<1>14. UsedInv'
  BY <1>1, <1>2, <1>3, <1>4, <1>5, <1>6, <1>7 DEF IInv, TypeOK, UsedInv, OursAt
<1> QED BY <1>8, <1>9, <1>10, <1>11, <1>12, <1>13, <1>14 DEF IInv

LEMMA ContainerGoneKeeps ==
    ASSUME IInv, NEW u \in Volumes, ContainerGone(u)
    PROVE  IInv'
<1>1. /\ UNCHANGED <<live, staging, aside, dir, made, touched, faults, losses, hands>>
      /\ proc' = proc
  BY DEF ContainerGone, Hand, Takes, ledgers, ghosts, counters
<1>2. PICK x \in Vols : /\ x.owner = vol[u].owner /\ x.marked = vol[u].marked /\ x.data = vol[u].data /\ x.used = FALSE
                         /\ vol' = [vol EXCEPT ![u] = x]
  <2>1. vol[u] \in Vols
    BY DEF ContainerGone, IInv, TypeOK, Versions
  <2>2. [vol[u] EXCEPT !.used = FALSE] \in Vols
    BY <2>1 DEF Vols
  <2>3. vol' = [vol EXCEPT ![u] = [vol[u] EXCEPT !.used = FALSE]]
    BY DEF ContainerGone, IInv, TypeOK
  <2> QED BY <2>1, <2>2, <2>3 DEF Vols
<1>3. /\ vol' \in [Volumes -> Vols]
      /\ \A v \in Volumes : vol'[v] = IF v = u THEN x ELSE vol[v]
  BY <1>2, VolIs DEF IInv, TypeOK
<1>4. DirsKept
  BY <1>1 DEF DirsKept, Settled
<1>5. StagingKept
  BY <1>1 DEF StagingKept
<1>6. VolumesKept
  BY <1>1, <1>2, <1>3 DEF VolumesKept, OursAt
<1>7. TypeOK'
  BY <1>1, <1>2, <1>3, <1>4, <1>5, <1>6 DEF IInv, TypeOK
<1>8. SessionInv'
  BY <1>1, <1>2, <1>3, <1>4, <1>5, <1>6 DEF IInv, TypeOK, SessionInv, At, Cur, BackupPCs, LoopPCs, AbandonPCs
<1>9. SourceInv'
  BY <1>1, <1>2, <1>3, <1>4, <1>5, <1>6 DEF IInv, TypeOK, SourceInv
<1>10. StagedInv'
  BY <1>1, <1>2, <1>3, <1>4, <1>5, <1>6, StagedKept DEF IInv
<1>11. LoopInv'
  BY <1>1, <1>2, <1>3, <1>4, <1>5, <1>6 DEF IInv, TypeOK, LoopInv, Done, OursAt, Cur, At, LoopPCs
<1>12. JudgedInv'
  BY <1>1, <1>2, <1>3, <1>4, <1>5, <1>6 DEF IInv, TypeOK, JudgedInv, OursAt, Cur, At
<1>13. UsedInv'
  BY <1>1, <1>2, <1>3, <1>4, <1>5, <1>6 DEF IInv, TypeOK, UsedInv, OursAt
<1> QED BY <1>7, <1>8, <1>9, <1>10, <1>11, <1>12, <1>13 DEF IInv

LEMMA RivalKeeps ==
    ASSUME IInv, NEW u \in Volumes, Rival(u)
    PROVE  IInv'
<1>1. /\ UNCHANGED <<live, staging, aside, dir, made, faults, losses>>
      /\ proc' = proc
  BY DEF Rival, Hand, Takes, ledgers, ghosts, counters
<1>2. hands' \in 0 .. MaxHands
  BY CountIs DEF Rival, Takes, Hand, IInv, TypeOK
<1>3. touched' = touched \cup {u} /\ (Races \/ Cur # u)
  BY DEF Rival, Takes
<1>4. PICK x \in Vols : /\ x.used = FALSE
                         /\ vol' = [vol EXCEPT ![u] = x]
  <2>1. ASSUME NEW o \in {"us", "other"}, NEW m \in BOOLEAN, NEW y \in {Empty, 0}
        PROVE  [owner |-> o, marked |-> m, data |-> y, used |-> FALSE] \in Vols
    BY DEF Vols, Versions
  <2> QED BY <2>1 DEF Rival
<1>5. /\ vol' \in [Volumes -> Vols]
      /\ \A v \in Volumes : vol'[v] = IF v = u THEN x ELSE vol[v]
  BY <1>4, VolIs DEF IInv, TypeOK
<1>6. DirsKept
  BY <1>1 DEF DirsKept, Settled
<1>7. StagingKept
  BY <1>1 DEF StagingKept
<1>8. VolumesKept
  BY <1>1, <1>3, <1>5 DEF VolumesKept, OursAt
<1>9. TypeOK'
  BY <1>1, <1>2, <1>3, <1>4, <1>5, <1>6, <1>7, <1>8 DEF IInv, TypeOK
<1>10. SessionInv'
  BY <1>1, <1>2, <1>3, <1>4, <1>5, <1>6, <1>7, <1>8 DEF IInv, TypeOK, SessionInv, At, Cur, BackupPCs, LoopPCs, AbandonPCs
<1>11. SourceInv'
  BY <1>1, <1>2, <1>3, <1>4, <1>5, <1>6, <1>7, <1>8 DEF IInv, TypeOK, SourceInv
<1>12. StagedInv'
  BY <1>1, <1>2, <1>3, <1>4, <1>5, <1>6, <1>7, <1>8, StagedKept DEF IInv
<1>13. LoopInv'
  BY <1>1, <1>2, <1>3, <1>4, <1>5, <1>6, <1>7, <1>8 DEF IInv, TypeOK, LoopInv, Done, OursAt, Cur, At, LoopPCs
<1>14. JudgedInv'
  BY <1>1, <1>2, <1>3, <1>4, <1>5, <1>6, <1>7, <1>8 DEF IInv, TypeOK, JudgedInv, OursAt, Cur, At
<1>15. UsedInv'
  BY <1>1, <1>2, <1>3, <1>4, <1>5, <1>6, <1>7, <1>8 DEF IInv, TypeOK, UsedInv, OursAt
<1> QED BY <1>9, <1>10, <1>11, <1>12, <1>13, <1>14, <1>15 DEF IInv

LEMMA HandRemovesKeeps ==
    ASSUME IInv, NEW u \in Volumes, HandRemoves(u)
    PROVE  IInv'
<1>1. /\ UNCHANGED <<live, staging, aside, dir, faults, losses>>
      /\ proc' = proc
  BY DEF HandRemoves, Hand, Takes, ledgers, ghosts, counters
<1>2. hands' \in 0 .. MaxHands
  BY CountIs DEF HandRemoves, Takes, Hand, IInv, TypeOK
<1>3. made' = made \ {u} /\ touched' = touched \cup {u} /\ (Races \/ Cur # u)
  BY DEF HandRemoves, Takes
<1>4. PICK x \in Vols : /\ x.owner = "nobody" /\ x.used = FALSE
                         /\ vol' = [vol EXCEPT ![u] = x]
  BY VolsAre DEF HandRemoves
<1>5. /\ vol' \in [Volumes -> Vols]
      /\ \A v \in Volumes : vol'[v] = IF v = u THEN x ELSE vol[v]
  BY <1>4, VolIs DEF IInv, TypeOK
<1>6. DirsKept
  BY <1>1 DEF DirsKept, Settled
<1>7. StagingKept
  BY <1>1 DEF StagingKept
<1>8. VolumesKept
  BY <1>1, <1>3, <1>5 DEF VolumesKept, OursAt
<1>9. TypeOK'
  BY <1>1, <1>2, <1>3, <1>4, <1>5, <1>6, <1>7, <1>8 DEF IInv, TypeOK
<1>10. SessionInv'
  BY <1>1, <1>2, <1>3, <1>4, <1>5, <1>6, <1>7, <1>8 DEF IInv, TypeOK, SessionInv, At, Cur, BackupPCs, LoopPCs, AbandonPCs
<1>11. SourceInv'
  BY <1>1, <1>2, <1>3, <1>4, <1>5, <1>6, <1>7, <1>8 DEF IInv, TypeOK, SourceInv
<1>12. StagedInv'
  BY <1>1, <1>2, <1>3, <1>4, <1>5, <1>6, <1>7, <1>8, StagedKept DEF IInv
<1>13. LoopInv'
  BY <1>1, <1>2, <1>3, <1>4, <1>5, <1>6, <1>7, <1>8 DEF IInv, TypeOK, LoopInv, Done, OursAt, Cur, At, LoopPCs
<1>14. JudgedInv'
  BY <1>1, <1>2, <1>3, <1>4, <1>5, <1>6, <1>7, <1>8 DEF IInv, TypeOK, JudgedInv, OursAt, Cur, At
<1>15. UsedInv'
  BY <1>1, <1>2, <1>3, <1>4, <1>5, <1>6, <1>7, <1>8 DEF IInv, TypeOK, UsedInv, OursAt
<1> QED BY <1>9, <1>10, <1>11, <1>12, <1>13, <1>14, <1>15 DEF IInv

LEMMA LoseKeeps ==
    ASSUME IInv, NEW gone \in SUBSET Volumes, Lose(gone)
    PROVE  IInv'
<1>1. /\ UNCHANGED <<dir, faults, hands>>
      /\ proc' = proc
  BY DEF Lose, Hand, Takes, ledgers, ghosts, counters
<1>2. /\ At("idle") /\ live' = NoNode /\ live' \in Nodes /\ live'.src = None
      /\ losses' \in 0 .. MaxLosses /\ aside' \in Nat
  BY NodesAre, CountIs DEF Lose, IInv, TypeOK
<1>3. staging' \in Nodes /\ (staging' = staging \/ staging'.kind = "none")
  BY NodesAre DEF Lose, IInv, TypeOK
<1>4. /\ vol' \in [Volumes -> Vols]
      /\ \A v \in Volumes : vol'[v] = IF v \in gone THEN Absent ELSE vol[v]
  BY VolsAre DEF Lose, IInv, TypeOK
<1>5. made' \subseteq made /\ touched' = touched \cup gone
  BY DEF Lose
<1>6. DirsKept
  BY <1>1 DEF DirsKept, Settled
<1>7. StagingKept
  BY <1>3 DEF StagingKept
<1>8. Absent.used = FALSE
  BY VolsAre
<1>9. VolumesKept
  BY <1>4, <1>5 DEF VolumesKept, OursAt
<1>10. TypeOK'
  BY <1>1, <1>2, <1>3, <1>4, <1>5, <1>6, <1>7, <1>8, <1>9 DEF IInv, TypeOK
<1>11. SessionInv'
  BY <1>1, <1>2, <1>3, <1>4, <1>5, <1>6, <1>7, <1>8, <1>9 DEF IInv, TypeOK, SessionInv, At, Cur, BackupPCs, LoopPCs, AbandonPCs
<1>12. SourceInv'
  BY <1>1, <1>2, <1>3, <1>4, <1>5, <1>6, <1>7, <1>8, <1>9 DEF IInv, TypeOK, SourceInv
<1>13. StagedInv'
  BY <1>1, <1>2, <1>3, <1>4, <1>5, <1>6, <1>7, <1>8, <1>9, StagedKept DEF IInv
<1>14. LoopInv'
  BY <1>1, <1>2, <1>3, <1>4, <1>5, <1>6, <1>7, <1>8, <1>9 DEF IInv, TypeOK, LoopInv, Done, OursAt, Cur, At, LoopPCs
<1>15. JudgedInv'
  BY <1>1, <1>2, <1>3, <1>4, <1>5, <1>6, <1>7, <1>8, <1>9 DEF IInv, TypeOK, JudgedInv, OursAt, Cur, At
<1>16. UsedInv'
  BY <1>1, <1>2, <1>3, <1>4, <1>5, <1>6, <1>7, <1>8, <1>9 DEF IInv, TypeOK, UsedInv, OursAt
<1> QED BY <1>10, <1>11, <1>12, <1>13, <1>14, <1>15, <1>16 DEF IInv

LEMMA FirstUseKeeps == IInv /\ FirstUse => IInv'
<1> SUFFICES ASSUME IInv, FirstUse PROVE IInv'
  OBVIOUS
<1>1. /\ UNCHANGED <<staging, aside, vol, dir, made, touched, faults, losses, hands>>
      /\ proc' = proc
  BY DEF FirstUse, Hand, Takes, ledgers, ghosts, counters
<1>2. At("idle") /\ live' \in Nodes /\ live'.src = None
  BY NodesAre DEF FirstUse
<1>3. DirsKept
  BY <1>1 DEF DirsKept, Settled
<1>4. StagingKept
  BY <1>1 DEF StagingKept
<1>5. VolumesKept
  BY <1>1 DEF VolumesKept, OursAt
<1>6. TypeOK'
  BY <1>1, <1>2, <1>3, <1>4, <1>5 DEF IInv, TypeOK
<1>7. SessionInv'
  BY <1>1, <1>2, <1>3, <1>4, <1>5 DEF IInv, TypeOK, SessionInv, At, Cur, BackupPCs, LoopPCs, AbandonPCs
<1>8. SourceInv'
  BY <1>1, <1>2, <1>3, <1>4, <1>5 DEF IInv, TypeOK, SourceInv
<1>9. StagedInv'
  BY <1>1, <1>2, <1>3, <1>4, <1>5, StagedKept DEF IInv
<1>10. LoopInv'
  BY <1>1, <1>2, <1>3, <1>4, <1>5 DEF IInv, TypeOK, LoopInv, Done, OursAt, Cur, At, LoopPCs
<1>11. JudgedInv'
  BY <1>1, <1>2, <1>3, <1>4, <1>5 DEF IInv, TypeOK, JudgedInv, OursAt, Cur, At
<1>12. UsedInv'
  BY <1>1, <1>2, <1>3, <1>4, <1>5 DEF IInv, TypeOK, UsedInv, OursAt
<1> QED BY <1>6, <1>7, <1>8, <1>9, <1>10, <1>11, <1>12 DEF IInv

LEMMA DamageKeeps == IInv /\ Damage => IInv'
<1> SUFFICES ASSUME IInv, Damage PROVE IInv'
  OBVIOUS
<1>1. /\ UNCHANGED <<live, aside, vol, dir, made, touched, losses, hands>>
      /\ proc' = proc
  BY DEF Damage, Hand, Takes, ledgers, ghosts, counters
<1>2. faults' \in 0 .. MaxFaults
  BY CountIs DEF Damage, IInv, TypeOK
<1>3. At("idle") /\ staging' \in Nodes /\ staging'.kind = "corrupt"
  BY DEF Damage, IInv, TypeOK, Nodes
<1>4. DirsKept
  BY <1>1 DEF DirsKept, Settled
<1>5. StagingKept
  BY <1>3 DEF StagingKept
<1>6. VolumesKept
  BY <1>1 DEF VolumesKept, OursAt
<1>7. TypeOK'
  BY <1>1, <1>2, <1>3, <1>4, <1>5, <1>6 DEF IInv, TypeOK
<1>8. SessionInv'
  BY <1>1, <1>2, <1>3, <1>4, <1>5, <1>6 DEF IInv, TypeOK, SessionInv, At, Cur, BackupPCs, LoopPCs, AbandonPCs
<1>9. SourceInv'
  BY <1>1, <1>2, <1>3, <1>4, <1>5, <1>6 DEF IInv, TypeOK, SourceInv
<1>10. StagedInv'
  BY <1>1, <1>2, <1>3, <1>4, <1>5, <1>6, StagedKept DEF IInv
<1>11. LoopInv'
  BY <1>1, <1>2, <1>3, <1>4, <1>5, <1>6 DEF IInv, TypeOK, LoopInv, Done, OursAt, Cur, At, LoopPCs
<1>12. JudgedInv'
  BY <1>1, <1>2, <1>3, <1>4, <1>5, <1>6 DEF IInv, TypeOK, JudgedInv, OursAt, Cur, At
<1>13. UsedInv'
  BY <1>1, <1>2, <1>3, <1>4, <1>5, <1>6 DEF IInv, TypeOK, UsedInv, OursAt
<1> QED BY <1>7, <1>8, <1>9, <1>10, <1>11, <1>12, <1>13 DEF IInv

LEMMA HandStagesKeeps ==
    ASSUME IInv, NEW n \in {Node("other"), Node("newer")} \cup {dir[d].ledger : d \in Dirs}, n.kind # "none", HandStages(n)
    PROVE  IInv'
<1>1. /\ UNCHANGED <<live, aside, vol, dir, made, faults, losses>>
      /\ proc' = proc
  BY DEF HandStages, Hand, Takes, ledgers, ghosts, counters
<1>2. hands' \in 0 .. MaxHands
  BY CountIs DEF HandStages, Takes, Hand, IInv, TypeOK
<1>3. /\ n \in Nodes /\ n.src = None
      /\ n.kind = "ledger" => \E d \in Dirs : n = dir[d].ledger
  <2>1. CASE n \in {Node("other"), Node("newer")}
    BY <2>1, NodesAre
  <2>2. CASE \E d \in Dirs : n = dir[d].ledger
    BY <2>2 DEF IInv, TypeOK, Backups, SourceInv
  <2> QED BY <2>1, <2>2
<1>4. staging' = n /\ touched' = Volumes /\ proc.pc \in {"idle", "preserve"}
  BY DEF HandStages
<1>5. TypeOK'
  BY <1>1, <1>2, <1>3, <1>4 DEF IInv, TypeOK
<1>6. SessionInv'
  BY <1>1, <1>2, <1>3, <1>4 DEF IInv, TypeOK, SessionInv, At, Cur, BackupPCs, LoopPCs, AbandonPCs
<1>7. SourceInv'
  BY <1>1, <1>2, <1>3, <1>4 DEF IInv, TypeOK, SourceInv
<1>8. StagedInv'
  <2>1. CASE n.kind = "ledger"
    <3>1. PICK d \in Dirs : n = dir[d].ledger
      BY <1>3, <2>1
    <3>2. Settled(d)'
      BY <1>1, <1>4, <2>1, <3>1 DEF Settled, BackupPCs
    <3>3. WholeFrom(dir[d], staging)'
      BY <1>1, <1>3, <1>4, <3>1 DEF WholeFrom, Nodes
    <3> QED BY <1>3, <1>4, <3>2, <3>3 DEF StagedInv
  <2>2. CASE n.kind # "ledger"
    BY <1>4, <2>2 DEF StagedInv
  <2> QED BY <2>1, <2>2
<1>9. LoopInv'
  BY <1>1, <1>2, <1>3, <1>4 DEF IInv, TypeOK, LoopInv, Done, OursAt, Cur, At, LoopPCs
<1>10. JudgedInv'
  BY <1>1, <1>2, <1>3, <1>4 DEF IInv, TypeOK, JudgedInv, OursAt, Cur, At
<1>11. UsedInv'
  BY <1>1, <1>2, <1>3, <1>4 DEF IInv, TypeOK, UsedInv, OursAt
<1> QED BY <1>5, <1>6, <1>7, <1>8, <1>9, <1>10, <1>11 DEF IInv

LEMMA HandInstallsKeeps ==
    ASSUME IInv, NEW n \in {Node("other"), Node("newer")} \cup {dir[d].ledger : d \in Dirs}, n.kind # "none", HandInstalls(n)
    PROVE  IInv'
<1>1. /\ UNCHANGED <<staging, aside, vol, dir, made, touched, faults, losses>>
      /\ proc' = proc
  BY DEF HandInstalls, Hand, Takes, ledgers, ghosts, counters
<1>2. hands' \in 0 .. MaxHands
  BY CountIs DEF HandInstalls, Takes, Hand, IInv, TypeOK
<1>3. /\ n \in Nodes /\ n.src = None
      /\ n.kind = "ledger" => \E d \in Dirs : n = dir[d].ledger
  <2>1. CASE n \in {Node("other"), Node("newer")}
    BY <2>1, NodesAre
  <2>2. CASE \E d \in Dirs : n = dir[d].ledger
    BY <2>2 DEF IInv, TypeOK, Backups, SourceInv
  <2> QED BY <2>1, <2>2
<1>4. live' = n
  BY DEF HandInstalls
<1>5. DirsKept
  BY <1>1 DEF DirsKept, Settled
<1>6. StagingKept
  BY <1>1 DEF StagingKept
<1>7. VolumesKept
  BY <1>1 DEF VolumesKept, OursAt
<1>8. TypeOK'
  BY <1>1, <1>2, <1>3, <1>4, <1>5, <1>6, <1>7 DEF IInv, TypeOK
<1>9. SessionInv'
  BY <1>1, <1>2, <1>3, <1>4, <1>5, <1>6, <1>7 DEF IInv, TypeOK, SessionInv, At, Cur, BackupPCs, LoopPCs, AbandonPCs
<1>10. SourceInv'
  BY <1>1, <1>2, <1>3, <1>4, <1>5, <1>6, <1>7 DEF IInv, TypeOK, SourceInv
<1>11. StagedInv'
  BY <1>1, <1>2, <1>3, <1>4, <1>5, <1>6, <1>7, StagedKept DEF IInv
<1>12. LoopInv'
  BY <1>1, <1>2, <1>3, <1>4, <1>5, <1>6, <1>7 DEF IInv, TypeOK, LoopInv, Done, OursAt, Cur, At, LoopPCs
<1>13. JudgedInv'
  BY <1>1, <1>2, <1>3, <1>4, <1>5, <1>6, <1>7 DEF IInv, TypeOK, JudgedInv, OursAt, Cur, At
<1>14. UsedInv'
  BY <1>1, <1>2, <1>3, <1>4, <1>5, <1>6, <1>7 DEF IInv, TypeOK, UsedInv, OursAt
<1> QED BY <1>8, <1>9, <1>10, <1>11, <1>12, <1>13, <1>14 DEF IInv

-----------------------------------------------------------------------------
(* The invariant, and the properties it yields.                             *)

LEMMA InitHolds == Init => IInv
<1> SUFFICES ASSUME Init PROVE IInv
  OBVIOUS
<1>1. /\ live \in Nodes /\ live.src = None /\ staging = NoNode /\ staging \in Nodes
      /\ staging.kind = "none"
  <2>1. [Node("ledger") EXCEPT !.vols = Volumes] \in Nodes
    BY NodesAre DEF Nodes
  <2>2. [Node("ledger") EXCEPT !.vols = Volumes].src = None
    BY NodesAre DEF Nodes
  <2> QED BY <2>1, <2>2, NodesAre DEF Init
<1>2. vol \in [Volumes -> Vols]
  <2>1. ASSUME NEW x \in Versions, NEW b \in BOOLEAN PROVE [Fresh EXCEPT !.data = x, !.used = b] \in Vols
    BY DEF Fresh, Vols
  <2>2. 0 \in Versions
    BY DEF Versions
  <2> QED BY <2>1, <2>2 DEF Init
<1>3. /\ dir \in [Dirs -> Backups]
      /\ \A d \in Dirs : dir[d].ledger.src = None /\ dir[d].ledger.kind = "none"
  <2>1. NoBackup \in Backups /\ NoBackup.ledger = NoNode
    BY NodesAre DEF NoBackup, Backups
  <2> QED BY <2>1, NodesAre DEF Init
<1>4. proc \in Procs /\ proc.pc = "idle"
  BY IdleIs DEF Init
<1>5. TypeOK
  BY <1>1, <1>2, <1>3, <1>4 DEF Init, TypeOK
<1>6. SessionInv /\ LoopInv /\ JudgedInv
  BY <1>4 DEF SessionInv, LoopInv, JudgedInv, At, BackupPCs, LoopPCs, AbandonPCs
<1>7. SourceInv /\ StagedInv
  BY <1>1, <1>3 DEF SourceInv, StagedInv
<1>8. UsedInv
  BY DEF Init, UsedInv, OursAt, Fresh
<1> QED BY <1>5, <1>6, <1>7, <1>8 DEF IInv

LEMMA VerbsKeep == IInv /\ Verbs => IInv'
BY BackupBeginKeeps, RestoreFreshKeeps, RestoreResumedKeeps, RestoreReadyKeeps,
   MeetsCorruptKeeps, AbandonBeginKeeps DEF Verbs

LEMMA StepsKeep == IInv /\ Steps => IInv'
BY CaptureLedgerKeeps, WriteManifestKeeps, CopyBeginsKeeps, CopyEndsKeeps, PreserveKeeps,
   CreateKeeps, InspectVolumeKeeps, CountEntriesKeeps, FillBeginsKeeps, FillEndsKeeps,
   VerifyVolumeKeeps, Phase5Keeps, ActivateKeeps, JudgeKeeps, CannotJudgeKeeps, RemoveKeeps,
   RemoveFailsKeeps, AbandonedKeeps DEF Steps, RestoreSteps, AbandonSteps

LEMMA OthersKeep == IInv /\ Others => IInv'
BY ProductWritesKeeps, RelaunchKeeps, ContainerGoneKeeps, RivalKeeps, HandRemovesKeeps,
   LoseKeeps, FirstUseKeeps, DamageKeeps, HandStagesKeeps, HandInstallsKeeps DEF Others

LEMMA StutterKeeps == IInv /\ UNCHANGED vars => IInv'
BY DEF vars, IInv, TypeOK, SessionInv, SourceInv, StagedInv, Settled, WholeFrom, LoopInv, Done,
   JudgedInv, UsedInv, At, Cur, OursAt, BackupPCs, LoopPCs, AbandonPCs

\* The inductive invariant, and with it the types of all the variables.
THEOREM Invariance == Spec => []IInv
<1>1. IInv /\ [Next]_vars => IInv'
  BY VerbsKeep, StepsKeep, DiesKeeps, OthersKeep, StutterKeeps DEF Next
<1> QED BY <1>1, InitHolds, PTL DEF Spec

\* Where a verb that runs is the one that moves: others, and the product, act
\* on none of these.
LEMMA OnlyItsOwnSteps ==
    ASSUME IInv, [Next]_vars, Tools, live' # live \/ staging' # staging \/ aside' # aside
    PROVE  WriteManifest \/ Preserve \/ Create \/ Phase5 \/ Activate \/ Abandoned
<1>1. hands \in Nat /\ losses \in Nat /\ hands' = hands /\ losses' = losses /\ ~At("idle")
  BY DEF Tools, IInv, TypeOK
<1>2. ~Others
  <2>1. ~\E v \in Volumes : ProductWrites(v) \/ Relaunch(v) \/ ContainerGone(v)
    BY DEF ProductWrites, Relaunch, ContainerGone, ledgers
  <2>2. ~\E v \in Volumes : Rival(v) \/ HandRemoves(v)
    <3>1. ASSUME NEW v \in Volumes, Rival(v) \/ HandRemoves(v) PROVE hands' = hands + 1
      BY <3>1 DEF Rival, HandRemoves, Takes, Hand
    <3> QED BY <1>1, <3>1
  <2>3. ~((\E gone \in SUBSET Volumes : Lose(gone)) \/ FirstUse \/ Damage)
    BY <1>1 DEF Lose, FirstUse, Damage
  <2>4. ASSUME NEW n, HandStages(n) \/ HandInstalls(n) PROVE FALSE
    BY <1>1, <2>4 DEF HandStages, HandInstalls, Hand
  <2> QED BY <2>1, <2>2, <2>3, <2>4 DEF Others
<1>3. ~(Dies \/ UNCHANGED vars)
  BY DEF Dies, vars, ledgers
<1>4. ~Verbs
  BY <1>1 DEF Verbs, BackupBegin, RestoreFresh, RestoreResumed, RestoreReady, MeetsCorrupt,
     AbandonBegin
<1>5. ~(CaptureLedger \/ CopyBegins \/ CopyEnds \/ InspectVolume \/ CountEntries \/ FillBegins
          \/ FillEnds \/ VerifyVolume \/ Judge \/ CannotJudge \/ Remove \/ RemoveFails)
  BY DEF CaptureLedger, CopyBegins, CopyEnds, InspectVolume, CountEntries, FillBegins, FillEnds,
     VerifyVolume, Judge, CannotJudge, Remove, RemoveFails, ledgers
<1> QED BY <1>2, <1>3, <1>4, <1>5 DEF Next, Steps, RestoreSteps, AbandonSteps

\* A verb moves aside nothing but a corrupt staging ledger, and no corrupt one
\* disappears by another way.
THEOREM EvidenceIsKept == Spec => EvidenceKept
<1> DEFINE Kept == Tools => /\ aside' # aside => staging.kind = "corrupt"
                            /\ staging.kind = "corrupt" /\ staging' # staging => aside' = aside + 1
                            /\ staging.kind \in {"newer", "other"} => staging' = staging
<1>1. IInv /\ [Next]_vars => [Kept]_vars
  <2> SUFFICES ASSUME IInv, [Next]_vars, Tools PROVE Kept
    OBVIOUS
  <2>1. CASE UNCHANGED <<live, staging, aside>>
    BY <2>1 DEF IInv, TypeOK
  <2>2. CASE WriteManifest
    BY <2>2 DEF WriteManifest
  <2>3. CASE Preserve
    BY <2>3 DEF Preserve
  <2>4. CASE Create \/ Phase5 \/ Activate \/ Abandoned
    <3>1. staging.kind = "ledger" /\ aside' = aside
      BY <2>4 DEF Create, Phase5, Activate, Abandoned, IInv, SessionInv, LoopPCs, AbandonPCs, At
    <3> QED BY <3>1
  <2> QED BY <2>1, <2>2, <2>3, <2>4, OnlyItsOwnSteps
<1> QED BY <1>1, Invariance, PTL DEF Spec, EvidenceKept

\* A rollback floor raised while the restore ran is in the staging ledger from
\* then on, and in the ledger that becomes active.
THEOREM FloorsAreKept == Spec => FloorsKept
<1> DEFINE Kept == /\ staging.kind = "ledger" /\ staging'.kind = "ledger" /\ hands' = hands
                          => staging'.floor >= staging.floor
                   /\ Activates => live'.floor = staging.floor
<1>1. IInv /\ [Next]_vars => [Kept]_vars
  <2> SUFFICES ASSUME IInv, [Next]_vars PROVE Kept
    OBVIOUS
  <2>1. staging \in Nodes /\ staging.floor \in Int
    BY DEF IInv, TypeOK, Nodes, Floors
  <2>2. ASSUME staging.kind = "ledger", staging'.kind = "ledger", hands' = hands
        PROVE  staging'.floor >= staging.floor
    <3>1. CASE staging' = staging
      BY <2>1, <3>1
    <3>2. CASE Create
      BY <2>1, <3>2, AcceptedIs DEF Create
    <3>3. CASE Phase5
      <4>1. staging' = [staging EXCEPT !.src = None] \/ staging' = staging
        BY <3>3 DEF Phase5
      <4>2. staging'.floor = staging.floor
        BY <2>1, <4>1 DEF Nodes
      <4> QED BY <2>1, <4>2
    <3>4. CASE Preserve \/ Activate \/ Abandoned \/ \E gone \in SUBSET Volumes : Lose(gone)
      <4>1. staging' = staging \/ staging' = NoNode
        BY <3>4 DEF Preserve, Activate, Abandoned, Lose, Moved
      <4> QED BY <2>1, <2>2, <4>1, NodesAre
    <3>5. CASE Damage
      BY <2>1, <2>2, <3>5 DEF Damage, Nodes
    <3>6. ASSUME NEW n, HandStages(n) \/ HandInstalls(n) PROVE staging' = staging
      BY <2>2, <3>6 DEF HandStages, HandInstalls, Hand, IInv, TypeOK
    <3>7. CASE \E d \in Dirs : RestoreFresh(d)
      BY <2>2, <3>7 DEF RestoreFresh
    <3>8. ASSUME staging' # staging
          PROVE  \/ Create \/ Phase5 \/ Preserve \/ Activate \/ Abandoned \/ Damage
                 \/ \E gone \in SUBSET Volumes : Lose(gone)
                 \/ \E n : HandStages(n) \/ HandInstalls(n)
                 \/ \E d \in Dirs : RestoreFresh(d)
      <4>1. ~(Dies \/ UNCHANGED vars \/ FirstUse)
        BY <3>8 DEF Dies, FirstUse, vars, ledgers
      <4>2. ~\E v \in Volumes : ProductWrites(v) \/ Relaunch(v) \/ ContainerGone(v) \/ Rival(v)
                                   \/ HandRemoves(v)
        BY <3>8 DEF ProductWrites, Relaunch, ContainerGone, Rival, HandRemoves, ledgers
      <4>3. ~(RestoreResumed \/ RestoreReady \/ MeetsCorrupt \/ AbandonBegin
                \/ \E d \in Dirs : BackupBegin(d))
        BY <3>8 DEF RestoreResumed, RestoreReady, MeetsCorrupt, AbandonBegin, BackupBegin, ledgers
      <4>4. ~(CaptureLedger \/ WriteManifest \/ CopyBegins \/ CopyEnds \/ InspectVolume
                \/ CountEntries \/ FillBegins \/ FillEnds \/ VerifyVolume \/ Judge \/ CannotJudge
                \/ Remove \/ RemoveFails)
        BY <3>8 DEF CaptureLedger, WriteManifest, CopyBegins, CopyEnds, InspectVolume,
           CountEntries, FillBegins, FillEnds, VerifyVolume, Judge, CannotJudge, Remove,
           RemoveFails, ledgers
      <4> QED BY <4>1, <4>2, <4>3, <4>4 DEF Next, Verbs, Steps, RestoreSteps, AbandonSteps, Others
    <3> QED BY <3>1, <3>2, <3>3, <3>4, <3>5, <3>6, <3>7, <3>8
  <2>3. ASSUME Activates PROVE live'.floor = staging.floor
    <3>1. Tools /\ At("activate") /\ live' # live
      BY <2>3 DEF Activates
    <3>2. Activate
      BY <3>1, OnlyItsOwnSteps DEF WriteManifest, Preserve, Create, Phase5, Abandoned, At
    <3> QED BY <3>1, <3>2 DEF Activate
  <2> QED BY <2>2, <2>3
<1> QED BY <1>1, Invariance, PTL DEF Spec, FloorsKept

\* A ledger becomes active only over volumes that are this installation's own,
\* and those the restore made hold what the manifests of one backup name.
THEOREM ActiveIsWhole == Spec => RestoredWhole
<1> DEFINE Whole == Activates => \E d \in Dirs : WholeFrom(dir[d], live')
<1>1. IInv /\ [Next]_vars => [Whole]_vars
  <2> SUFFICES ASSUME IInv, [Next]_vars, Activates PROVE \E d \in Dirs : WholeFrom(dir[d], live')
    OBVIOUS
  <2>1. Tools /\ At("activate") /\ live' # live
    BY DEF Activates
  <2>2. Activate
    BY <2>1, OnlyItsOwnSteps DEF WriteManifest, Preserve, Create, Phase5, Abandoned, At
  <2>3. live' = staging /\ staging.kind = "ledger" /\ staging.src = None
    BY <2>1, <2>2 DEF Activate
  <2>4. PICK d \in Dirs : WholeFrom(dir[d], staging)
    BY <2>3 DEF IInv, StagedInv
  <2> QED BY <2>3, <2>4
<1> QED BY <1>1, Invariance, PTL DEF Spec, RestoredWhole

\* Where nobody takes a name between its judgement and its use, no step of a
\* verb fills or removes a volume that is not this installation's own.
THEOREM RivalsAreKept == ASSUME ~Races PROVE Spec => RivalsKept
<1> DEFINE Kept == \A v \in Volumes :
                      Stands(v) /\ ~OursAt(v) /\ Tools => vol'[v] = vol[v]
<1>1. IInv /\ [Next]_vars => [Kept]_vars
  <2> SUFFICES ASSUME IInv, [Next]_vars, NEW v \in Volumes, Stands(v), ~OursAt(v), Tools
               PROVE  vol'[v] = vol[v]
    OBVIOUS
  <2>1. hands \in Nat /\ losses \in Nat /\ hands' = hands /\ losses' = losses /\ ~At("idle")
        /\ vol \in [Volumes -> Vols]
    BY DEF Tools, IInv, TypeOK
  <2>2. CASE FillBegins \/ FillEnds \/ Remove
    <3>1. OursAt(Cur)
      BY <2>2 DEF FillBegins, FillEnds, Remove, IInv, JudgedInv, At
    <3> QED BY <2>1, <2>2, <3>1 DEF FillBegins, FillEnds, Remove
  <2>3. CASE Create
    BY <2>1, <2>3 DEF Create
  <2>4. CASE \E u \in Volumes : ProductWrites(u)
    BY <2>1, <2>4 DEF ProductWrites
  <2>5. CASE \E u \in Volumes : ContainerGone(u)
    BY <2>1, <2>5 DEF ContainerGone, IInv, UsedInv
  <2>6. CASE UNCHANGED vol
    BY <2>6
  <2>7. ~((\E u \in Volumes : Relaunch(u)) \/ \E gone \in SUBSET Volumes : Lose(gone))
    BY <2>1 DEF Relaunch, Lose
  <2>8. ASSUME NEW u \in Volumes, Rival(u) \/ HandRemoves(u) PROVE FALSE
    <3>1. hands' = hands + 1
      BY <2>8 DEF Rival, HandRemoves, Takes, Hand
    <3> QED BY <2>1, <3>1
  <2>9. CASE \/ FirstUse \/ Damage \/ Verbs \/ Dies \/ UNCHANGED vars
             \/ \E n : HandStages(n) \/ HandInstalls(n)
    BY <2>6, <2>9 DEF FirstUse, Damage, Verbs, BackupBegin, RestoreFresh, RestoreResumed,
       RestoreReady, MeetsCorrupt, AbandonBegin, Dies, vars, HandStages, HandInstalls
  <2>10. CASE Steps /\ ~(FillBegins \/ FillEnds \/ Remove \/ Create)
    BY <2>6, <2>10 DEF Steps, RestoreSteps, AbandonSteps, CaptureLedger, WriteManifest,
       CopyBegins, CopyEnds, Preserve, InspectVolume, CountEntries, VerifyVolume, Phase5,
       Activate, Judge, CannotJudge, RemoveFails, Abandoned
  <2> QED BY <2>2, <2>3, <2>4, <2>5, <2>7, <2>8, <2>9, <2>10 DEF Next, Others
<1> QED BY <1>1, Invariance, PTL DEF Spec, RivalsKept

-----------------------------------------------------------------------------
(* A volume a restore created is never left without a record.               *)

\* Until a hand replaces the record: what the restore made is ours, the staged
\* ledger describes it, damaged or not, and an abandonment that has kept no
\* record for lack of an answer still has it to do.
MadeInv ==
    hands = 0 =>
        /\ \A v \in made : OursAt(v)
        /\ aside = 0 /\ staging.kind = "none" => made = {}
        /\ aside = 0 /\ staging.kind \in {"ledger", "corrupt"} => made \subseteq staging.vols
        /\ aside = 0 /\ proc.pc \in {"judge", "remove"} /\ ~proc.failed => made \subseteq proc.todo
        /\ aside = 0 /\ At("abandoned") /\ ~proc.failed => made = {}

\* What a step may do that is not the abandonment's.
MadeKept ==
    /\ aside' = 0 => aside = 0
    /\ \A v \in made' : v \in made /\ OursAt(v)'
    /\ staging'.kind = "none" /\ aside = 0 => staging.kind = "none" \/ made' = {}
    /\ staging'.kind \in {"ledger", "corrupt"} /\ aside = 0 =>
          \/ made' = {}
          \/ staging.kind \in {"ledger", "corrupt"} /\ staging'.vols = staging.vols
LEMMA OutsideAbandon ==
    ASSUME MadeInv, hands = 0, MadeKept,
           proc' = proc \/ proc'.pc \notin {"judge", "remove", "abandoned"}
    PROVE  MadeInv'
BY DEF MadeInv, MadeKept, At

\* Steps that leave the record and what was made alone.
LEMMA RecordStands ==
    ASSUME MadeInv, hands = 0, UNCHANGED <<staging, aside, made>>,
           \A v \in made : OursAt(v) => OursAt(v)',
           proc' = proc \/ proc'.pc \notin {"judge", "remove", "abandoned"}
    PROVE  MadeInv'
<1>1. MadeKept
  BY DEF MadeKept, MadeInv
<1> QED BY <1>1, OutsideAbandon

\* The verbs before the abandonment, and the steps of a backup or a restore
\* that write no ledger.
LEMMA QuietStepsKeepMade ==
    ASSUME IInv, MadeInv, hands = 0,
           \/ \E d \in Dirs : BackupBegin(d)
           \/ RestoreResumed \/ RestoreReady \/ MeetsCorrupt \/ CaptureLedger \/ WriteManifest
           \/ CopyBegins \/ CopyEnds \/ InspectVolume \/ CountEntries \/ VerifyVolume \/ Dies
    PROVE  MadeInv'
<1>1. UNCHANGED <<staging, aside, made, vol>>
  BY DEF BackupBegin, RestoreResumed, RestoreReady, MeetsCorrupt, CaptureLedger, WriteManifest,
     CopyBegins, CopyEnds, InspectVolume, CountEntries, VerifyVolume, Dies, ledgers, ghosts
<1>2. TypeOK /\ staging.vols \in SUBSET Volumes /\ live.vols \in SUBSET Volumes
      /\ proc.todo \ {Cur} \in SUBSET Volumes
  BY DEF IInv, TypeOK, Nodes, Procs
<1>3. \A first, after \in PCs, rest \in SUBSET Volumes :
         NextVolume(rest, first, after) => proc'.pc \in {first, after}
  BY <1>2, NextIs
<1>4. \A pc \in PCs : Goto(pc) => proc'.pc = pc
  BY <1>2, GotoIs
<1>5. End => proc'.pc = "idle"
  BY EndIs
<1>6. proc'.pc \notin {"judge", "remove", "abandoned"}
  <2>1. CASE \E d \in Dirs : BackupBegin(d)
    BY <2>1 DEF BackupBegin, Idle
  <2>2. CASE RestoreReady \/ MeetsCorrupt
    BY <2>2 DEF RestoreReady, MeetsCorrupt, Idle
  <2>3. CASE RestoreResumed
    <3>1. NextVolume(staging.vols, "create", "phase5")
      BY <2>3 DEF RestoreResumed
    <3> QED BY <1>2, <1>3, <3>1 DEF PCs
  <2>4. CASE CaptureLedger
    <3>1. NextVolume(live.vols, "manifest", "idle")
      BY <2>4 DEF CaptureLedger
    <3> QED BY <1>2, <1>3, <3>1 DEF PCs
  <2>5. CASE CopyEnds \/ VerifyVolume
    <3>1. \/ NextVolume(proc.todo \ {Cur}, "manifest", "idle")
          \/ NextVolume(proc.todo \ {Cur}, "create", "phase5") \/ End
      BY <2>5 DEF CopyEnds, VerifyVolume
    <3> QED BY <1>2, <1>3, <1>5, <3>1 DEF PCs
  <2>6. CASE WriteManifest \/ CopyBegins \/ InspectVolume \/ CountEntries \/ Dies
    <3>1. End \/ \E pc \in {"copy", "copying", "count", "fill", "verify"} : Goto(pc)
      BY <2>6 DEF WriteManifest, CopyBegins, InspectVolume, CountEntries, Dies
    <3> QED BY <1>4, <1>5, <3>1 DEF PCs
  <2> QED BY <2>1, <2>2, <2>3, <2>4, <2>5, <2>6
<1>7. \A v \in made : OursAt(v) => OursAt(v)'
  BY <1>1 DEF OursAt
<1> QED BY <1>1, <1>6, <1>7, RecordStands

\* The filling writes to the volume, never its labels.
LEMMA FillKeepsMade ==
    ASSUME IInv, MadeInv, hands = 0, FillBegins \/ FillEnds
    PROVE  MadeInv'
<1>1. UNCHANGED <<staging, aside, made>> /\ proc'.pc \notin {"judge", "remove", "abandoned"}
  <2>1. UNCHANGED <<staging, aside, made>> /\ (Goto("filling") \/ Goto("verify"))
    BY DEF FillBegins, FillEnds, ledgers, ghosts
  <2>2. TypeOK
    BY DEF IInv
  <2> QED BY <2>1, <2>2, GotoIs DEF PCs
<1>2. \A v \in Volumes : OursAt(v) => OursAt(v)'
  <2>1. PICK x : vol' = [vol EXCEPT ![Cur].data = x]
    BY DEF FillBegins, FillEnds
  <2> QED BY <2>1 DEF IInv, TypeOK, Vols, OursAt
<1> QED BY <1>1, <1>2, RecordStands DEF IInv, TypeOK

\* The steps of a restore that write the staged ledger.
LEMMA RestoreKeepsMade ==
    ASSUME IInv, MadeInv, hands = 0,
           (\E d \in Dirs : RestoreFresh(d)) \/ Preserve \/ Phase5 \/ Activate
    PROVE  MadeInv'
<1>1. TypeOK /\ staging \in Nodes /\ aside \in Nat
  BY DEF IInv, TypeOK
<1>2. CASE \E d \in Dirs : RestoreFresh(d)
  <2>1. PICK d \in Dirs : RestoreFresh(d)
    BY <1>2
  <2>2. /\ staging.kind = "none" /\ aside' = aside /\ made' = made /\ vol' = vol
        /\ staging' = [dir[d].ledger EXCEPT !.src = d]
        /\ NextVolume(staging'.vols, "create", "phase5")
    BY <2>1 DEF RestoreFresh
  <2>3. dir[d].ledger \in Nodes
    BY <1>1 DEF TypeOK, Backups
  <2>4. staging'.vols \in SUBSET Volumes /\ staging'.kind = dir[d].ledger.kind
    BY <2>2, <2>3, SourceIs DEF Nodes
  <2>5. proc'.pc \in {"create", "phase5"}
    <3>1. PICK rest \in SUBSET Volumes : rest = staging'.vols
      BY <2>4
    <3>2. NextVolume(rest, "create", "phase5")
      BY <2>2, <3>1
    <3>3. "create" \in PCs /\ "phase5" \in PCs
      BY DEF PCs
    <3> QED BY <1>1, <3>2, <3>3, NextIs
  <2>6. MadeKept
    BY <2>2 DEF MadeKept, MadeInv, OursAt
  <2> QED BY <2>5, <2>6, OutsideAbandon
<1>3. CASE Preserve
  <2>1. proc'.pc = "idle" /\ made' = made /\ vol' = vol
    BY <1>3, EndIs DEF Preserve, ghosts
  <2>2. aside' = aside + 1 \/ (staging' = staging /\ aside' = aside)
    BY <1>3 DEF Preserve
  <2>3. aside' # 0 \/ (staging' = staging /\ aside' = aside)
    BY <1>1, <2>2
  <2>4. MadeKept \/ aside' # 0
    BY <2>1, <2>3 DEF MadeKept, MadeInv, OursAt
  <2>5. \A v \in made' : OursAt(v)'
    BY <2>1 DEF MadeInv, OursAt
  <2> QED BY <2>1, <2>4, <2>5, OutsideAbandon DEF MadeInv
<1>4. CASE Phase5
  <2>1. /\ aside' = aside /\ made' = made /\ vol' = vol
        /\ \/ staging' = [staging EXCEPT !.src = None] /\ Goto("activate")
           \/ staging' = staging /\ End
    BY <1>4 DEF Phase5, ghosts
  <2>2. proc'.pc \in {"activate", "idle"}
    BY <1>1, <2>1, GotoIs, EndIs DEF PCs
  <2>3. staging'.kind = staging.kind /\ staging'.vols = staging.vols
    BY <1>1, <2>1 DEF Nodes
  <2>4. MadeKept
    BY <2>1, <2>3 DEF MadeKept, MadeInv, OursAt
  <2> QED BY <2>2, <2>4, OutsideAbandon
<1>5. CASE Activate
  <2>1. /\ aside' = aside /\ vol' = vol /\ proc'.pc = "idle"
        /\ made' = {} \/ (made' = made /\ staging' = staging)
    BY <1>5, EndIs DEF Activate, ghosts
  <2>2. MadeKept
    BY <2>1 DEF MadeKept, MadeInv, OursAt
  <2> QED BY <2>1, <2>2, OutsideAbandon
<1> QED BY <1>2, <1>3, <1>4, <1>5

\* restoreVolume records before it creates: the volume is one of the ledger's.
LEMMA CreateKeepsMade ==
    ASSUME IInv, MadeInv, hands = 0, Create
    PROVE  MadeInv'
<1>1. TypeOK /\ staging \in Nodes /\ vol \in [Volumes -> Vols]
  BY DEF IInv, TypeOK
<1>2. staging.kind = "ledger" /\ Cur \in staging.vols /\ Cur \in Volumes
  BY <1>1 DEF IInv, SessionInv, Create, At, LoopPCs, Nodes
<1>3. aside' = aside /\ staging'.kind = "ledger" /\ staging'.vols = staging.vols
  <2>1. staging' \in Accepted(staging)
    BY DEF Create
  <2>2. staging'.kind = staging.kind /\ staging'.vols = staging.vols
    BY <1>1, <2>1, AcceptedIs
  <2> QED BY <1>2, <2>2 DEF Create
<1>4. proc'.pc \in {"inspect", "idle"}
  <2>1. Goto("inspect") \/ End
    BY DEF Create
  <2> QED BY <1>1, <2>1, GotoIs, EndIs DEF PCs
<1>5. \/ vol' = vol /\ made' = made
      \/ vol' = [vol EXCEPT ![Cur] = Fresh] /\ made' = made \cup {Cur}
  BY DEF Create
<1>6. \A v \in made' : OursAt(v)'
  <2>1. made \subseteq Volumes /\ \A v \in made : OursAt(v)
    BY DEF IInv, TypeOK, MadeInv
  <2>2. CASE vol' = vol /\ made' = made
    BY <2>1, <2>2 DEF OursAt
  <2>3. CASE vol' = [vol EXCEPT ![Cur] = Fresh] /\ made' = made \cup {Cur}
    <3>1. \A v \in Volumes : vol'[v] = IF v = Cur THEN Fresh ELSE vol[v]
      BY <1>1, <1>2, <2>3
    <3> QED BY <1>2, <2>1, <2>3, <3>1, VolsAre DEF OursAt
  <2> QED BY <1>5, <2>2, <2>3
<1>7. aside = 0 => made' \subseteq staging.vols
  BY <1>2, <1>5 DEF MadeInv
<1> QED BY <1>3, <1>4, <1>6, <1>7 DEF MadeInv, At

\* The abandonment goes on to the next volume of its list.
LEMMA Onward ==
    ASSUME TypeOK, NextVolume(proc.todo \ {Cur}, "judge", "abandoned")
    PROVE  /\ proc'.pc \in {"judge", "abandoned"} /\ proc'.failed = proc.failed
           /\ proc'.pc = "judge" => proc'.todo = proc.todo \ {Cur}
           /\ proc'.pc = "abandoned" => proc.todo \subseteq {Cur}
<1>1. proc \in Procs /\ proc.todo \ {Cur} \in SUBSET Volumes
  BY DEF TypeOK, Procs
<1>2. proc'.failed = proc.failed
  <2> DEFINE rest == proc.todo \ {Cur}
  <2>1. CASE rest = {}
    <3>1. proc' = [Idle EXCEPT !.pc = "abandoned", !.failed = proc.failed]
      BY <2>1 DEF NextVolume
    <3> QED BY <3>1 DEF Idle
  <2>2. CASE rest # {}
    <3>1. PICK v \in rest : proc' = [proc EXCEPT !.pc = "judge", !.todo = rest, !.cur = v]
      BY <2>2 DEF NextVolume
    <3> HIDE DEF rest
    <3> QED BY <1>1, <3>1 DEF Procs
  <2> QED BY <2>1, <2>2
<1>3. "judge" \in PCs /\ "abandoned" \in PCs
  BY DEF PCs
<1>4. LET rest == proc.todo \ {Cur}
      IN  /\ rest = {} => proc'.pc = "abandoned"
          /\ rest # {} => proc'.pc = "judge" /\ proc'.todo = rest
  BY <1>1, <1>3, NextIs
<1> QED BY <1>2, <1>4

\* An abandonment passes over a volume it did not make, removes one it did, and
\* without a removal keeps the record.
LEMMA AbandonKeepsMade ==
    ASSUME IInv, MadeInv, hands = 0, AbandonBegin \/ AbandonSteps
    PROVE  MadeInv'
<1>1. TypeOK /\ staging \in Nodes /\ proc \in Procs /\ vol \in [Volumes -> Vols]
      /\ made \subseteq Volumes
  BY DEF IInv, TypeOK
<1>2. CASE AbandonBegin
  <2>1. /\ UNCHANGED <<staging, aside, made, vol>> /\ staging.kind = "ledger"
        /\ NextVolume(staging.vols, "judge", "abandoned")
    BY <1>2 DEF AbandonBegin, ledgers, ghosts
  <2>2. staging.vols \in SUBSET Volumes /\ "judge" \in PCs /\ "abandoned" \in PCs
    BY <1>1 DEF Nodes, PCs
  <2>3. /\ staging.vols = {} => proc'.pc = "abandoned"
        /\ staging.vols # {} => proc'.pc = "judge" /\ proc'.todo = staging.vols
    BY <1>1, <2>1, <2>2, NextIs
  <2> QED BY <2>1, <2>3 DEF MadeInv, At, OursAt
<1>3. CASE Judge
  <2>1. /\ UNCHANGED <<staging, aside, made, vol>> /\ At("judge")
        /\ \/ Goto("remove")
           \/ ~OursAt(Cur) /\ NextVolume(proc.todo \ {Cur}, "judge", "abandoned")
    BY <1>3 DEF Judge, ledgers, ghosts
  <2>2. CASE Goto("remove")
    <3>1. proc'.pc = "remove" /\ proc'.todo = proc.todo /\ proc'.failed = proc.failed
      BY <1>1, <2>2, GotoIs DEF Goto, Procs, PCs
    <3> QED BY <2>1, <3>1 DEF MadeInv, At, OursAt
  <2>3. CASE ~OursAt(Cur) /\ NextVolume(proc.todo \ {Cur}, "judge", "abandoned")
    <3>1. Cur \notin made
      BY <2>3 DEF MadeInv
    <3> QED BY <1>1, <2>1, <2>3, <3>1, Onward DEF MadeInv, At, OursAt
  <2> QED BY <2>1, <2>2, <2>3
<1>4. CASE CannotJudge \/ RemoveFails
  <2>1. UNCHANGED <<staging, aside, made, vol>> /\ KeepsRecord
    BY <1>4 DEF CannotJudge, RemoveFails, ledgers, ghosts
  <2>2. proc'.failed
    BY <1>1, <2>1 DEF KeepsRecord, Procs
  <2> QED BY <2>1, <2>2 DEF MadeInv, At, OursAt
<1>5. CASE Remove
  <2>1. /\ UNCHANGED <<staging, aside>> /\ At("remove") /\ made' = made \ {Cur}
        /\ vol' = [vol EXCEPT ![Cur] = Absent]
        /\ NextVolume(proc.todo \ {Cur}, "judge", "abandoned")
    BY <1>5 DEF Remove, ledgers
  <2>2. \A v \in made' : OursAt(v)'
    BY <1>1, <2>1 DEF MadeInv, OursAt
  <2> QED BY <1>1, <2>1, <2>2, Onward DEF MadeInv, At
<1>6. CASE Abandoned
  <2>1. /\ aside' = aside /\ made' = made /\ vol' = vol /\ proc'.pc = "idle" /\ At("abandoned")
        /\ staging' = IF proc.failed THEN staging ELSE NoNode
    BY <1>6, EndIs DEF Abandoned, ghosts
  <2>2. MadeKept
    BY <2>1, NodesAre DEF MadeKept, MadeInv, OursAt
  <2> QED BY <2>1, <2>2, OutsideAbandon
<1> QED BY <1>2, <1>3, <1>4, <1>5, <1>6 DEF AbandonSteps

LEMMA OthersKeepMade ==
    ASSUME IInv, MadeInv, hands = 0, hands' = 0, Others
    PROVE  MadeInv'
<1>1. TypeOK /\ staging \in Nodes /\ vol \in [Volumes -> Vols] /\ made \subseteq Volumes
  BY DEF IInv, TypeOK
<1>2. CASE \E v \in Volumes : ProductWrites(v) \/ Relaunch(v) \/ ContainerGone(v)
  <2>1. PICK v \in Volumes : ProductWrites(v) \/ Relaunch(v) \/ ContainerGone(v)
    BY <1>2
  <2>2. UNCHANGED <<staging, aside, proc>> /\ made' \subseteq made
    BY <2>1 DEF ProductWrites, Relaunch, ContainerGone, ledgers, ghosts
  <2>3. \A u \in Volumes : OursAt(u) => OursAt(u)'
    BY <1>1, <2>1 DEF ProductWrites, Relaunch, ContainerGone, OursAt, Vols
  <2>4. MadeKept
    BY <1>1, <2>2, <2>3 DEF MadeKept, MadeInv
  <2> QED BY <2>2, <2>4, OutsideAbandon
<1>3. CASE \E gone \in SUBSET Volumes : Lose(gone)
  <2>1. PICK gone \in SUBSET Volumes : Lose(gone)
    BY <1>3
  <2>2. /\ proc' = proc /\ vol' = [v \in Volumes |-> IF v \in gone THEN Absent ELSE vol[v]]
        /\ \/ made' = {}
           \/ UNCHANGED <<staging, aside>> /\ made' = made \ gone /\ staging.kind # "none"
    BY <2>1 DEF Lose
  <2>3. \A v \in made' : v \in made /\ OursAt(v)'
    BY <1>1, <2>2 DEF MadeInv, OursAt
  <2>4. At("idle")
    BY <2>1 DEF Lose
  <2> QED BY <2>2, <2>3, <2>4 DEF MadeInv, At
<1>4. CASE FirstUse
  <2>1. UNCHANGED <<staging, aside, made, vol, proc>>
    BY <1>4 DEF FirstUse, ghosts
  <2> QED BY <2>1, RecordStands DEF OursAt
<1>5. CASE Damage
  <2>1. /\ UNCHANGED <<aside, made, vol, proc>> /\ staging.kind = "ledger"
        /\ staging' = [staging EXCEPT !.kind = "corrupt"]
    BY <1>5 DEF Damage, ghosts
  <2>2. staging'.kind = "corrupt" /\ staging'.vols = staging.vols
    BY <1>1, <2>1 DEF Nodes
  <2>3. MadeKept
    BY <2>1, <2>2 DEF MadeKept, MadeInv, OursAt
  <2> QED BY <2>1, <2>3, OutsideAbandon
<1>6. ~\E v \in Volumes : Rival(v) \/ HandRemoves(v)
  <2>1. ASSUME NEW v \in Volumes, Rival(v) \/ HandRemoves(v) PROVE hands' = hands + 1
    BY <2>1 DEF Rival, HandRemoves, Takes, Hand
  <2> QED BY <2>1
<1>7. ~\E n : HandStages(n) \/ HandInstalls(n)
  <2>1. ASSUME NEW n, HandStages(n) \/ HandInstalls(n) PROVE hands' = hands + 1
    BY <2>1 DEF HandStages, HandInstalls, Hand
  <2> QED BY <2>1
<1> QED BY <1>2, <1>3, <1>4, <1>5, <1>6, <1>7 DEF Others

\* A volume a restore created is described by the staged ledger, from which an
\* abandonment can remove it, or by one that was preserved as evidence, across
\* every death, failure and loss, until a hand replaces the record.
THEOREM PartialsAreRecorded == Spec => [](hands = 0 => PartialsRecorded)
<1>1. Init => MadeInv
  <2>1. Init => made = {} /\ proc.pc = "idle"
    BY IdleIs DEF Init
  <2> QED BY <2>1 DEF MadeInv, At
<1>2. IInv /\ MadeInv /\ [Next]_vars => MadeInv'
  <2> SUFFICES ASSUME IInv, MadeInv, [Next]_vars, hands' = 0 PROVE MadeInv'
    BY DEF MadeInv
  <2>1. hands = 0
    <3>1. ~UNCHANGED hands => Others
      BY DEF Next, Verbs, Steps, RestoreSteps, AbandonSteps, BackupBegin, RestoreFresh,
         RestoreResumed, RestoreReady, MeetsCorrupt, AbandonBegin, CaptureLedger, WriteManifest,
         CopyBegins, CopyEnds, Preserve, Create, InspectVolume, CountEntries, FillBegins, FillEnds,
         VerifyVolume, Phase5, Activate, Judge, CannotJudge, Remove, RemoveFails, Abandoned, Dies,
         vars, counters
    <3>2. Others => hands' = hands \/ hands' = hands + 1
      BY DEF Others, ProductWrites, Relaunch, ContainerGone, Rival, HandRemoves, Lose, FirstUse,
         Damage, HandStages, HandInstalls, Takes, Hand, counters
    <3>3. hands \in Nat
      BY DEF IInv, TypeOK
    <3> QED BY <3>1, <3>2, <3>3
  <2>2. CASE UNCHANGED vars
    BY <2>1, <2>2, RecordStands DEF vars, OursAt
  <2>3. CASE Next
    BY <2>1, <2>3, QuietStepsKeepMade, FillKeepsMade, RestoreKeepsMade, CreateKeepsMade,
       AbandonKeepsMade, OthersKeepMade DEF Next, Verbs, Steps, RestoreSteps
  <2> QED BY <2>2, <2>3
<1>3. IInv /\ MadeInv => (hands = 0 => PartialsRecorded)
  <2> SUFFICES ASSUME IInv, MadeInv, hands = 0 PROVE PartialsRecorded
    OBVIOUS
  <2>1. aside \in Nat
    BY DEF IInv, TypeOK
  <2> QED BY <2>1 DEF MadeInv, PartialsRecorded
<1> QED BY <1>1, <1>2, <1>3, Invariance, PTL DEF Spec
================================================================================
