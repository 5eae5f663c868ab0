------------------------- MODULE StorageMigrate_proofs -------------------------
(***************************************************************************)
(* Proofs about StorageMigrate, for every set of verbs and every bound on  *)
(* the staging names, the versions, the deaths and the operator's hand.    *)
(***************************************************************************)
EXTENDS StorageMigrate, FiniteSetTheorems, TLAPS

USE BoundsAreNaturals

-----------------------------------------------------------------------------
(* What the updates of the records do.                                      *)

LEMMA GotoIs ==
    ASSUME TypeOK, NEW pc \in PCs, Goto(pc)
    PROVE  /\ proc' \in Procs /\ proc'.pc = pc /\ proc'.sid = proc.sid
           /\ proc'.attempt = proc.attempt /\ proc'.key = proc.key
BY DEF TypeOK, Goto, Procs

LEMMA RefuseIs == Refuse => proc' \in Procs /\ proc'.pc = "idle"
BY DEF Refuse, Idle, Procs, PCs, Stamp

LEMMA NoRecIs == NoRec \in Records /\ NoRec.phase = 0 /\ NoRec.nonce = 0
BY DEF NoRec, Records, Places, Stamp, Wants

LEMMA PhaseIs ==
    ASSUME TypeOK, NEW n \in {1, 2, 3, 5, 6, 7}, rec' = [rec EXCEPT !.phase = n]
    PROVE  /\ rec' \in Records /\ rec'.phase = n /\ rec'.nonce = rec.nonce
           /\ rec'.stageid = rec.stageid /\ rec'.attempt = rec.attempt
           /\ rec'.desired = rec.desired /\ rec'.prior = rec.prior
BY DEF TypeOK, Records

LEMMA NoDirIs == NoDir \in Dirs /\ NoDir.there = FALSE /\ NoDir.id = 0 /\ NoDir.data = Empty
BY DEF NoDir, Dirs, Stamp

LEMMA DirsAre ==
    ASSUME dirs \in [Places -> Dirs], NEW q \in Places, NEW d \in Dirs,
           dirs' = [dirs EXCEPT ![q] = d]
    PROVE  /\ dirs' \in [Places -> Dirs]
           /\ \A p \in Places : dirs'[p] = IF p = q THEN d ELSE dirs[p]
OBVIOUS

LEMMA DestIsPlace == Dest \in Places
BY DEF Dest, Places

LEMMA StagingIsPlace == TypeOK => Staging \in Places
BY DEF TypeOK, Records, Staging

\* The two paths never carry the same identity.
LEMMA CarriedOnce ==
    ASSUME TypeOK, StampInv, NEW i, Staging # Dest, Carries(Staging, i)
    PROVE  ~Carries(Dest, i)
BY DestIsPlace, StagingIsPlace DEF StampInv, Carries

LEMMA FaultIs ==
    ASSUME TypeOK, faults < MaxFaults, faults' = faults + 1
    PROVE  faults' \in 0 .. MaxFaults
BY DEF TypeOK

LEMMA HandIs ==
    ASSUME TypeOK, Hand
    PROVE  hands' \in 0 .. MaxHands /\ hands' # 0
BY DEF TypeOK, Hand

-----------------------------------------------------------------------------
(* What each step leaves of the invariant.                                  *)

\* A verb enters where the record says, judged by what stands at the destination.
LEMMA BeginKeeps == IInv /\ Begin => IInv'
<1> SUFFICES ASSUME IInv, Begin PROVE IInv'
  OBVIOUS
<1>1. /\ UNCHANGED <<rec, desired, proven, box, vol, dirs, conf, nonces, tokens, faults, hands>>
      /\ At("idle") /\ (InFlight \/ MayMigrate)
  BY DEF Begin, At, world, counters
<1>2. PICK e \in PCs : /\ Goto(e) /\ e = EntryOf(ResumePhase(rec))
  BY DEF Begin, EntryOf, ResumePhase, IInv, TypeOK, Records, PCs
<1>3. proc' \in Procs /\ proc'.pc = EntryOf(ResumePhase(rec))
  BY <1>2, GotoIs DEF IInv
<1>4. /\ proc'.pc = "open" => rec.phase \in {0, 1}
      /\ proc'.pc = "enter2" => rec.phase = 2
      /\ proc'.pc = "stage" => rec.phase = 3
      /\ proc'.pc = "enter5" => rec.phase \in {5, 6, 7}
      /\ proc'.pc = "enter5" /\ Carries(Dest, rec.stageid) => rec.phase = 5
      /\ proc'.pc = "enter6" => rec.phase = 6 /\ Carries(Dest, rec.stageid)
      /\ proc'.pc = "enter7" => rec.phase = 7
      /\ proc'.pc \in {"open", "enter2", "stage", "enter5", "enter6", "enter7"}
  BY <1>3 DEF EntryOf, ResumePhase, IInv, TypeOK, Records
<1>5. rec.phase = 0 => conf = "unset"
  BY <1>1 DEF MayMigrate, InFlight
<1>6. TypeOK'
  BY <1>1, <1>2, <1>3, <1>4, <1>5 DEF IInv, TypeOK
<1>7. StampInv'
  BY <1>1, <1>2, <1>3, <1>4, <1>5 DEF IInv, TypeOK, StampInv, Stamp, Dirs
<1>8. PhaseInv'
  BY <1>1, <1>2, <1>3, <1>4, <1>5 DEF IInv, TypeOK, PhaseInv, At, Staging
<1>9. StoppedInv'
  BY <1>1, <1>2, <1>3, <1>4, <1>5 DEF IInv, TypeOK, StoppedInv, MustBeStopped, At
<1>10. BareInv'
  BY <1>1, <1>2, <1>3, <1>4, <1>5 DEF IInv, TypeOK, BareInv, BareOnlyInReplacement, Stands, At
<1>11. WriteInv'
  BY <1>1, <1>2, <1>3, <1>4, <1>5 DEF IInv, TypeOK, WriteInv, OwnWriteRecognised, InFlight, At
<1>12. MoveInv'
  BY <1>1, <1>2, <1>3, <1>4, <1>5 DEF IInv, TypeOK, MoveInv, Carries, Staging, Stands, At, InFlight
<1>13. DataInv'
  BY <1>1, <1>2, <1>3, <1>4, <1>5 DEF IInv, TypeOK, DataInv, Carries, Staging, Stands, At, Versions, InFlight
<1> QED BY <1>6, <1>7, <1>8, <1>9, <1>10, <1>11, <1>12, <1>13 DEF IInv

LEMMA VerifiedKeeps == IInv /\ Verified => IInv'
<1> SUFFICES ASSUME IInv, Verified PROVE IInv'
  OBVIOUS
<1>1. /\ UNCHANGED <<rec, desired, proven, box, vol, dirs, conf, nonces, tokens, faults, hands>>
      /\ /\ At("verify")
         /\ ~dirs[Staging].there \/ (Carries(Staging, rec.stageid) /\ dirs[Staging].data = vol)
  BY DEF Verified, At, world, counters
<1>2. proc' \in Procs /\ proc'.pc = "enter5" /\ proc'.key = proc.key /\ proc'.sid = proc.sid
  BY GotoIs DEF Verified, IInv, PCs
<1>3. rec.phase = 3 /\ vol >= 0
  BY <1>1 DEF IInv, PhaseInv, TypeOK, Versions, At
<1>4. hands = 0 => Carries(Staging, rec.stageid) /\ dirs[Staging].data = vol
  BY <1>1 DEF IInv, MoveInv, At
<1>5. hands = 0 => ~Carries(Dest, rec.stageid)
  BY <1>1, <1>4, CarriedOnce DEF IInv, PhaseInv, At
<1>6. TypeOK'
  BY <1>1, <1>2, <1>3, <1>4, <1>5 DEF IInv, TypeOK
<1>7. StampInv'
  BY <1>1, <1>2, <1>3, <1>4, <1>5 DEF IInv, TypeOK, StampInv, Stamp, Dirs
<1>8. PhaseInv'
  BY <1>1, <1>2, <1>3, <1>4, <1>5 DEF IInv, TypeOK, PhaseInv, At, Staging
<1>9. StoppedInv'
  BY <1>1, <1>2, <1>3, <1>4, <1>5 DEF IInv, TypeOK, StoppedInv, MustBeStopped, At
<1>10. BareInv'
  BY <1>1, <1>2, <1>3, <1>4, <1>5 DEF IInv, TypeOK, BareInv, BareOnlyInReplacement, Stands, At
<1>11. WriteInv'
  BY <1>1, <1>2, <1>3, <1>4, <1>5 DEF IInv, TypeOK, WriteInv, OwnWriteRecognised, InFlight, At
<1>12. MoveInv'
  BY <1>1, <1>2, <1>3, <1>4, <1>5 DEF IInv, TypeOK, MoveInv, Carries, Staging, Stands, At, InFlight
<1>13. DataInv'
  BY <1>1, <1>2, <1>3, <1>4, <1>5 DEF IInv, TypeOK, DataInv, Carries, Staging, Stands, At, Versions, InFlight, StoppedInv, MustBeStopped
<1> QED BY <1>6, <1>7, <1>8, <1>9, <1>10, <1>11, <1>12, <1>13 DEF IInv

LEMMA ResolveKeeps == IInv /\ Resolve => IInv'
<1> SUFFICES ASSUME IInv, Resolve PROVE IInv'
  OBVIOUS
<1>1. /\ UNCHANGED <<rec, desired, proven, box, vol, dirs, conf, nonces, tokens, faults, hands>>
      /\ At("resolve")
  BY DEF Resolve, At, world, counters
<1>2. \/ Carries(Dest, rec.stageid) /\ Goto("enter6")
      \/ Carries(Staging, rec.stageid) /\ Goto("clear")
  BY DEF Resolve
<1>3. proc' \in Procs /\ (\/ Carries(Dest, rec.stageid) /\ proc'.pc = "enter6"
                        \/ proc'.pc = "clear")
  BY <1>2, GotoIs DEF IInv, PCs
<1>4. TypeOK'
  BY <1>1, <1>2, <1>3 DEF IInv, TypeOK
<1>5. StampInv'
  BY <1>1, <1>2, <1>3 DEF IInv, TypeOK, StampInv, Stamp, Dirs
<1>6. PhaseInv'
  BY <1>1, <1>2, <1>3 DEF IInv, TypeOK, PhaseInv, At, Staging
<1>7. StoppedInv'
  BY <1>1, <1>2, <1>3 DEF IInv, TypeOK, StoppedInv, MustBeStopped, At
<1>8. BareInv'
  BY <1>1, <1>2, <1>3 DEF IInv, TypeOK, BareInv, BareOnlyInReplacement, Stands, At
<1>9. WriteInv'
  BY <1>1, <1>2, <1>3 DEF IInv, TypeOK, WriteInv, OwnWriteRecognised, InFlight, At
<1>10. MoveInv'
  BY <1>1, <1>2, <1>3 DEF IInv, TypeOK, MoveInv, Carries, Staging, Stands, At, InFlight
<1>11. DataInv'
  BY <1>1, <1>2, <1>3 DEF IInv, TypeOK, DataInv, Carries, Staging, Stands, At, Versions, InFlight
<1> QED BY <1>4, <1>5, <1>6, <1>7, <1>8, <1>9, <1>10, <1>11 DEF IInv

LEMMA PrepareKeeps == IInv /\ Prepare => IInv'
<1> SUFFICES ASSUME IInv, Prepare PROVE IInv'
  OBVIOUS
<1>1. /\ UNCHANGED <<rec, desired, proven, box, vol, dirs, conf, nonces, tokens, faults, hands>>
      /\ At("prepare")
  BY DEF Prepare, At, world, counters
<1>2. proc' \in Procs /\ (proc'.pc = "idle" \/ (proc'.pc = "remove" /\ proc'.key = conf))
  <2>1. CASE Carries(Dest, rec.stageid)
    <3>1. proc \in Procs /\ conf \in {"unset", "dest", "other"}
      BY DEF IInv, TypeOK
    <3>2. proc' = [proc EXCEPT !.pc = "remove", !.key = conf]
      BY <2>1 DEF Prepare
    <3> QED BY <3>1, <3>2 DEF Procs, PCs
  <2>2. CASE ~Carries(Dest, rec.stageid)
    BY <2>2, RefuseIs DEF Prepare
  <2> QED BY <2>1, <2>2
<1>3. rec.phase = 7
  BY <1>1 DEF IInv, PhaseInv, At
<1>4. TypeOK'
  BY <1>1, <1>2, <1>3 DEF IInv, TypeOK
<1>5. StampInv'
  BY <1>1, <1>2, <1>3 DEF IInv, TypeOK, StampInv, Stamp, Dirs
<1>6. PhaseInv'
  BY <1>1, <1>2, <1>3 DEF IInv, TypeOK, PhaseInv, At, Staging
<1>7. StoppedInv'
  BY <1>1, <1>2, <1>3 DEF IInv, TypeOK, StoppedInv, MustBeStopped, At
<1>8. BareInv'
  BY <1>1, <1>2, <1>3 DEF IInv, TypeOK, BareInv, BareOnlyInReplacement, Stands, At
<1>9. WriteInv'
  BY <1>1, <1>2, <1>3 DEF IInv, TypeOK, WriteInv, OwnWriteRecognised, InFlight, At
<1>10. MoveInv'
  BY <1>1, <1>2, <1>3 DEF IInv, TypeOK, MoveInv, Carries, Staging, Stands, At, InFlight
<1>11. DataInv'
  BY <1>1, <1>2, <1>3 DEF IInv, TypeOK, DataInv, Carries, Staging, Stands, At, Versions, InFlight
<1> QED BY <1>4, <1>5, <1>6, <1>7, <1>8, <1>9, <1>10, <1>11 DEF IInv

LEMMA InspectKeeps == IInv /\ Inspect => IInv'
<1> SUFFICES ASSUME IInv, Inspect PROVE IInv'
  OBVIOUS
<1>1. /\ UNCHANGED <<rec, desired, proven, box, vol, dirs, conf, nonces, tokens, faults, hands>>
      /\ At("inspect")
  BY DEF Inspect, At, world, counters
<1>2. proc' \in Procs /\ (proc'.pc = "idle" \/ (proc'.pc = "restore" /\ Stands /\ box.on = "bind"))
  BY RefuseIs, GotoIs DEF Inspect, IInv, PCs
<1>3. TypeOK'
  BY <1>1, <1>2 DEF IInv, TypeOK
<1>4. StampInv'
  BY <1>1, <1>2 DEF IInv, TypeOK, StampInv, Stamp, Dirs
<1>5. PhaseInv'
  BY <1>1, <1>2 DEF IInv, TypeOK, PhaseInv, At, Staging
<1>6. StoppedInv'
  BY <1>1, <1>2 DEF IInv, TypeOK, StoppedInv, MustBeStopped, At
<1>7. BareInv'
  BY <1>1, <1>2 DEF IInv, TypeOK, BareInv, BareOnlyInReplacement, Stands, At
<1>8. WriteInv'
  BY <1>1, <1>2 DEF IInv, TypeOK, WriteInv, OwnWriteRecognised, InFlight, At
<1>9. MoveInv'
  BY <1>1, <1>2 DEF IInv, TypeOK, MoveInv, Carries, Staging, Stands, At, InFlight
<1>10. DataInv'
  BY <1>1, <1>2 DEF IInv, TypeOK, DataInv, Carries, Staging, Stands, At, Versions, InFlight
<1> QED BY <1>3, <1>4, <1>5, <1>6, <1>7, <1>8, <1>9, <1>10 DEF IInv

LEMMA RefusedKeeps == IInv /\ Refused => IInv'
<1> SUFFICES ASSUME IInv, Refused PROVE IInv'
  OBVIOUS
<1>1. /\ UNCHANGED <<rec, desired, proven, box, vol, dirs, conf, nonces, tokens, faults, hands>>
  BY DEF Refused, At, world, counters
<1>2. proc' \in Procs /\ proc'.pc = "idle"
  BY RefuseIs DEF Refused
<1>3. TypeOK'
  BY <1>1, <1>2 DEF IInv, TypeOK
<1>4. StampInv'
  BY <1>1, <1>2 DEF IInv, TypeOK, StampInv, Stamp, Dirs
<1>5. PhaseInv'
  BY <1>1, <1>2 DEF IInv, TypeOK, PhaseInv, At, Staging
<1>6. StoppedInv'
  BY <1>1, <1>2 DEF IInv, TypeOK, StoppedInv, MustBeStopped, At
<1>7. BareInv'
  BY <1>1, <1>2 DEF IInv, TypeOK, BareInv, BareOnlyInReplacement, Stands, At
<1>8. WriteInv'
  BY <1>1, <1>2 DEF IInv, TypeOK, WriteInv, OwnWriteRecognised, InFlight, At
<1>9. MoveInv'
  BY <1>1, <1>2 DEF IInv, TypeOK, MoveInv, Carries, Staging, Stands, At, InFlight
<1>10. DataInv'
  BY <1>1, <1>2 DEF IInv, TypeOK, DataInv, Carries, Staging, Stands, At, Versions, InFlight
<1> QED BY <1>3, <1>4, <1>5, <1>6, <1>7, <1>8, <1>9, <1>10 DEF IInv

LEMMA DiesKeeps == IInv /\ Dies => IInv'
<1> SUFFICES ASSUME IInv, Dies PROVE IInv'
  OBVIOUS
<1>1. /\ UNCHANGED <<rec, desired, proven, box, vol, dirs, conf, nonces, tokens, hands>>
      /\ faults' \in 0 .. MaxFaults
  BY FaultIs DEF Dies, world, IInv
<1>2. proc' \in Procs /\ proc'.pc = "idle"
  BY RefuseIs DEF Dies
<1>3. TypeOK'
  BY <1>1, <1>2 DEF IInv, TypeOK
<1>4. StampInv'
  BY <1>1, <1>2 DEF IInv, TypeOK, StampInv, Stamp, Dirs
<1>5. PhaseInv'
  BY <1>1, <1>2 DEF IInv, TypeOK, PhaseInv, At, Staging
<1>6. StoppedInv'
  BY <1>1, <1>2 DEF IInv, TypeOK, StoppedInv, MustBeStopped, At
<1>7. BareInv'
  BY <1>1, <1>2 DEF IInv, TypeOK, BareInv, BareOnlyInReplacement, Stands, At
<1>8. WriteInv'
  BY <1>1, <1>2 DEF IInv, TypeOK, WriteInv, OwnWriteRecognised, InFlight, At
<1>9. MoveInv'
  BY <1>1, <1>2 DEF IInv, TypeOK, MoveInv, Carries, Staging, Stands, At, InFlight
<1>10. DataInv'
  BY <1>1, <1>2 DEF IInv, TypeOK, DataInv, Carries, Staging, Stands, At, Versions, InFlight
<1> QED BY <1>3, <1>4, <1>5, <1>6, <1>7, <1>8, <1>9, <1>10 DEF IInv

\* Phases 1 to 3: the record and the staging directory.
LEMMA Phase1Keeps == IInv /\ Phase1 => IInv'
<1> SUFFICES ASSUME IInv, Phase1 PROVE IInv'
  OBVIOUS
<1>1. /\ UNCHANGED <<desired, proven, box, vol, dirs, conf, tokens, faults, hands>>
      /\ At("open")
  BY DEF Phase1, At
<1>2. proc' \in Procs /\ proc'.pc = "enter2" /\ proc'.key = proc.key /\ proc'.sid = proc.sid
  BY GotoIs DEF Phase1, IInv, PCs
<1>3. nonces' \in Places /\ nonces' # Dest
  BY DEF Phase1, IInv, TypeOK, Places, Dest
<1>4. PICK n \in Places : n = nonces' /\ n # Dest
  BY <1>3
<1>5. rec' \in Records /\ rec'.phase = 1 /\ rec'.nonce = n
  BY <1>4 DEF Phase1, IInv, TypeOK, NoRec, Records, Stamp, Wants, Places
<1>6. rec.phase \in {0, 1} /\ conf # "dest"
  BY <1>1 DEF IInv, PhaseInv, WriteInv, At
<1>7. TypeOK'
  BY <1>1, <1>2, <1>3, <1>4, <1>5, <1>6 DEF IInv, TypeOK
<1>8. StampInv'
  BY <1>1, <1>2, <1>3, <1>4, <1>5, <1>6 DEF IInv, TypeOK, StampInv, Stamp, Dirs
<1>9. PhaseInv'
  BY <1>1, <1>2, <1>3, <1>4, <1>5, <1>6 DEF IInv, TypeOK, PhaseInv, At, Staging
<1>10. StoppedInv'
  BY <1>1, <1>2, <1>3, <1>4, <1>5, <1>6 DEF IInv, TypeOK, StoppedInv, MustBeStopped, At
<1>11. BareInv'
  BY <1>1, <1>2, <1>3, <1>4, <1>5, <1>6 DEF IInv, TypeOK, BareInv, BareOnlyInReplacement, Stands, At
<1>12. WriteInv'
  BY <1>1, <1>2, <1>3, <1>4, <1>5, <1>6 DEF IInv, TypeOK, WriteInv, OwnWriteRecognised, InFlight, At
<1>13. MoveInv'
  BY <1>1, <1>2, <1>3, <1>4, <1>5, <1>6 DEF IInv, TypeOK, MoveInv, Carries, Staging, Stands, At, InFlight
<1>14. DataInv'
  BY <1>1, <1>2, <1>3, <1>4, <1>5, <1>6 DEF IInv, TypeOK, DataInv, Carries, Staging, Stands, At, Versions, InFlight
<1> QED BY <1>7, <1>8, <1>9, <1>10, <1>11, <1>12, <1>13, <1>14 DEF IInv

LEMMA Phase2Keeps == IInv /\ Phase2 => IInv'
<1> SUFFICES ASSUME IInv, Phase2 PROVE IInv'
  OBVIOUS
<1>1. /\ UNCHANGED <<desired, proven, box, vol, dirs, conf, nonces, tokens, faults, hands>>
      /\ At("enter2")
  BY DEF Phase2, Enter, At, world, counters
<1>2. proc' \in Procs /\ proc'.pc = "stop" /\ proc'.key = proc.key /\ proc'.sid = proc.sid
  BY GotoIs DEF Phase2, Enter, IInv, PCs
<1>3. /\ rec' \in Records /\ rec'.phase = 2 /\ rec'.nonce = rec.nonce
      /\ rec'.stageid = rec.stageid /\ rec'.attempt = rec.attempt
  BY PhaseIs DEF Phase2, Enter, IInv
<1>4. rec.phase \in {1, 2} /\ conf # "dest"
  BY <1>1 DEF IInv, PhaseInv, WriteInv, OwnWriteRecognised, InFlight, At
<1>5. TypeOK'
  BY <1>1, <1>2, <1>3, <1>4 DEF IInv, TypeOK
<1>6. StampInv'
  BY <1>1, <1>2, <1>3, <1>4 DEF IInv, TypeOK, StampInv, Stamp, Dirs
<1>7. PhaseInv'
  BY <1>1, <1>2, <1>3, <1>4 DEF IInv, TypeOK, PhaseInv, At, Staging
<1>8. StoppedInv'
  BY <1>1, <1>2, <1>3, <1>4 DEF IInv, TypeOK, StoppedInv, MustBeStopped, At
<1>9. BareInv'
  BY <1>1, <1>2, <1>3, <1>4 DEF IInv, TypeOK, BareInv, BareOnlyInReplacement, Stands, At
<1>10. WriteInv'
  BY <1>1, <1>2, <1>3, <1>4 DEF IInv, TypeOK, WriteInv, OwnWriteRecognised, InFlight, At
<1>11. MoveInv'
  BY <1>1, <1>2, <1>3, <1>4 DEF IInv, TypeOK, MoveInv, Carries, Staging, Stands, At, InFlight
<1>12. DataInv'
  BY <1>1, <1>2, <1>3, <1>4 DEF IInv, TypeOK, DataInv, Carries, Staging, Stands, At, Versions, InFlight
<1> QED BY <1>5, <1>6, <1>7, <1>8, <1>9, <1>10, <1>11, <1>12 DEF IInv

LEMMA StageTakenKeeps == IInv /\ StageTaken => IInv'
<1> SUFFICES ASSUME IInv, StageTaken PROVE IInv'
  OBVIOUS
<1>1. /\ UNCHANGED <<desired, proven, box, vol, dirs, conf, nonces, tokens, faults, hands>>
      /\ At("stage")
  BY DEF StageTaken, At, world, counters
<1>2. proc' \in Procs /\ proc'.pc = "idle"
  BY RefuseIs DEF StageTaken
<1>3. rec' \in Records /\ rec'.phase = 1
  BY DestIsPlace DEF StageTaken, IInv, TypeOK, Records, Stamp, Dest
<1>4. rec.phase \in {2, 3}
  BY <1>1 DEF IInv, PhaseInv, At
<1>5. TypeOK'
  BY <1>1, <1>2, <1>3, <1>4 DEF IInv, TypeOK
<1>6. StampInv'
  BY <1>1, <1>2, <1>3, <1>4 DEF IInv, TypeOK, StampInv, Stamp, Dirs
<1>7. PhaseInv'
  BY <1>1, <1>2, <1>3, <1>4 DEF IInv, TypeOK, PhaseInv, At, Staging
<1>8. StoppedInv'
  BY <1>1, <1>2, <1>3, <1>4 DEF IInv, TypeOK, StoppedInv, MustBeStopped, At
<1>9. BareInv'
  BY <1>1, <1>2, <1>3, <1>4 DEF IInv, TypeOK, BareInv, BareOnlyInReplacement, Stands, At
<1>10. WriteInv'
  BY <1>1, <1>2, <1>3, <1>4 DEF IInv, TypeOK, WriteInv, OwnWriteRecognised, InFlight, At
<1>11. MoveInv'
  BY <1>1, <1>2, <1>3, <1>4 DEF IInv, TypeOK, MoveInv, Carries, Staging, Stands, At, InFlight
<1>12. DataInv'
  BY <1>1, <1>2, <1>3, <1>4 DEF IInv, TypeOK, DataInv, Carries, Staging, Stands, At, Versions, InFlight
<1> QED BY <1>5, <1>6, <1>7, <1>8, <1>9, <1>10, <1>11, <1>12 DEF IInv

LEMMA RecordStageKeeps == IInv /\ RecordStage => IInv'
<1> SUFFICES ASSUME IInv, RecordStage PROVE IInv'
  OBVIOUS
<1>1. /\ UNCHANGED <<desired, proven, box, vol, dirs, conf, nonces, tokens, faults, hands>>
      /\ At("enter3")
  BY DEF RecordStage, At, world, counters
<1>2. proc' \in Procs /\ proc'.pc = "preflight" /\ proc'.key = proc.key /\ proc'.sid = proc.sid
  BY GotoIs DEF RecordStage, IInv, PCs
<1>3. /\ rec' \in Records /\ rec'.phase = 3 /\ rec'.nonce = rec.nonce /\ rec'.attempt = rec.attempt
  BY DEF RecordStage, IInv, TypeOK, Records, Procs
<1>4. rec.phase \in {2, 3}
  BY <1>1 DEF IInv, PhaseInv, At
<1>5. TypeOK'
  BY <1>1, <1>2, <1>3, <1>4 DEF IInv, TypeOK
<1>6. StampInv'
  BY <1>1, <1>2, <1>3, <1>4 DEF IInv, TypeOK, StampInv, Stamp, Dirs
<1>7. PhaseInv'
  BY <1>1, <1>2, <1>3, <1>4 DEF IInv, TypeOK, PhaseInv, At, Staging
<1>8. StoppedInv'
  BY <1>1, <1>2, <1>3, <1>4 DEF IInv, TypeOK, StoppedInv, MustBeStopped, At, IInv
<1>9. BareInv'
  BY <1>1, <1>2, <1>3, <1>4 DEF IInv, TypeOK, BareInv, BareOnlyInReplacement, Stands, At
<1>10. WriteInv'
  BY <1>1, <1>2, <1>3, <1>4 DEF IInv, TypeOK, WriteInv, OwnWriteRecognised, InFlight, At
<1>11. MoveInv'
  BY <1>1, <1>2, <1>3, <1>4 DEF IInv, TypeOK, MoveInv, Carries, Staging, Stands, At, InFlight
<1>12. DataInv'
  BY <1>1, <1>2, <1>3, <1>4 DEF IInv, TypeOK, DataInv, Carries, Staging, Stands, At, Versions, InFlight, StoppedInv, MustBeStopped
<1> QED BY <1>5, <1>6, <1>7, <1>8, <1>9, <1>10, <1>11, <1>12 DEF IInv

\* Phases 5 to 7: the record alone.
LEMMA Phase5Keeps == IInv /\ Phase5 => IInv'
<1> SUFFICES ASSUME IInv, Phase5 PROVE IInv'
  OBVIOUS
<1>1. /\ UNCHANGED <<desired, proven, box, vol, dirs, conf, nonces, tokens, faults, hands>>
      /\ At("enter5")
  BY DEF Phase5, Enter, At, world, counters
<1>2. proc' \in Procs /\ proc'.pc = "resolve" /\ proc'.key = proc.key /\ proc'.sid = proc.sid
  BY GotoIs DEF Phase5, Enter, IInv, PCs
<1>3. /\ rec' \in Records /\ rec'.phase = 5 /\ rec'.nonce = rec.nonce
      /\ rec'.stageid = rec.stageid /\ rec'.attempt = rec.attempt
  BY PhaseIs DEF Phase5, Enter, IInv
<1>4. rec.phase \in {3, 5, 6, 7}
  BY <1>1 DEF IInv, PhaseInv, At
<1>5. TypeOK'
  BY <1>1, <1>2, <1>3, <1>4 DEF IInv, TypeOK
<1>6. StampInv'
  BY <1>1, <1>2, <1>3, <1>4 DEF IInv, TypeOK, StampInv, Stamp, Dirs
<1>7. PhaseInv'
  BY <1>1, <1>2, <1>3, <1>4 DEF IInv, TypeOK, PhaseInv, At, Staging
<1>8. StoppedInv'
  BY <1>1, <1>2, <1>3, <1>4 DEF IInv, TypeOK, StoppedInv, MustBeStopped, At
<1>9. BareInv'
  BY <1>1, <1>2, <1>3, <1>4 DEF IInv, TypeOK, BareInv, BareOnlyInReplacement, Stands, At
<1>10. WriteInv'
  BY <1>1, <1>2, <1>3, <1>4 DEF IInv, TypeOK, WriteInv, OwnWriteRecognised, InFlight, At, MoveInv
<1>11. MoveInv'
  BY <1>1, <1>2, <1>3, <1>4 DEF IInv, TypeOK, MoveInv, Carries, Staging, Stands, At, InFlight
<1>12. DataInv'
  BY <1>1, <1>2, <1>3, <1>4 DEF IInv, TypeOK, DataInv, Carries, Staging, Stands, At, Versions, InFlight, StoppedInv, MustBeStopped, MoveInv
<1> QED BY <1>5, <1>6, <1>7, <1>8, <1>9, <1>10, <1>11, <1>12 DEF IInv

LEMMA Phase6Keeps == IInv /\ Phase6 => IInv'
<1> SUFFICES ASSUME IInv, Phase6 PROVE IInv'
  OBVIOUS
<1>1. /\ UNCHANGED <<desired, proven, box, vol, dirs, conf, nonces, tokens, faults, hands>>
      /\ At("enter6")
  BY DEF Phase6, At, world, counters
<1>2. proc' \in Procs /\ proc'.pc = "cas"
  BY DEF Phase6, IInv, TypeOK, Procs, PCs, Records
<1>3. /\ rec' \in Records /\ rec'.phase = 6 /\ rec'.nonce = rec.nonce
      /\ rec'.stageid = rec.stageid /\ rec'.attempt = "started"
  BY DEF Phase6, IInv, TypeOK, Records
<1>4. rec.phase \in {5, 6}
  BY <1>1 DEF IInv, PhaseInv, At
<1>5. TypeOK'
  BY <1>1, <1>2, <1>3, <1>4 DEF IInv, TypeOK
<1>6. StampInv'
  BY <1>1, <1>2, <1>3, <1>4 DEF IInv, TypeOK, StampInv, Stamp, Dirs
<1>7. PhaseInv'
  BY <1>1, <1>2, <1>3, <1>4 DEF IInv, TypeOK, PhaseInv, At, Staging
<1>8. StoppedInv'
  BY <1>1, <1>2, <1>3, <1>4 DEF IInv, TypeOK, StoppedInv, MustBeStopped, At
<1>9. BareInv'
  BY <1>1, <1>2, <1>3, <1>4 DEF IInv, TypeOK, BareInv, BareOnlyInReplacement, Stands, At
<1>10. WriteInv'
  BY <1>1, <1>2, <1>3, <1>4 DEF IInv, TypeOK, WriteInv, OwnWriteRecognised, InFlight, At
<1>11. MoveInv'
  BY <1>1, <1>2, <1>3, <1>4 DEF IInv, TypeOK, MoveInv, Carries, Staging, Stands, At, InFlight
<1>12. DataInv'
  BY <1>1, <1>2, <1>3, <1>4 DEF IInv, TypeOK, DataInv, Carries, Staging, Stands, At, Versions, InFlight
<1> QED BY <1>5, <1>6, <1>7, <1>8, <1>9, <1>10, <1>11, <1>12 DEF IInv

LEMMA Phase7Keeps == IInv /\ Phase7 => IInv'
<1> SUFFICES ASSUME IInv, Phase7 PROVE IInv'
  OBVIOUS
<1>1. /\ UNCHANGED <<desired, proven, box, vol, dirs, conf, nonces, tokens, faults, hands>>
      /\ At("enter7")
  BY DEF Phase7, Enter, At, world, counters
<1>2. proc' \in Procs /\ proc'.pc = "prepare" /\ proc'.key = proc.key /\ proc'.sid = proc.sid
  BY GotoIs DEF Phase7, Enter, IInv, PCs
<1>3. /\ rec' \in Records /\ rec'.phase = 7 /\ rec'.nonce = rec.nonce
      /\ rec'.stageid = rec.stageid /\ rec'.attempt = rec.attempt
  BY PhaseIs DEF Phase7, Enter, IInv
<1>4. rec.phase \in {6, 7}
  BY <1>1 DEF IInv, PhaseInv, At
<1>5. TypeOK'
  BY <1>1, <1>2, <1>3, <1>4 DEF IInv, TypeOK
<1>6. StampInv'
  BY <1>1, <1>2, <1>3, <1>4 DEF IInv, TypeOK, StampInv, Stamp, Dirs
<1>7. PhaseInv'
  BY <1>1, <1>2, <1>3, <1>4 DEF IInv, TypeOK, PhaseInv, At, Staging
<1>8. StoppedInv'
  BY <1>1, <1>2, <1>3, <1>4 DEF IInv, TypeOK, StoppedInv, MustBeStopped, At
<1>9. BareInv'
  BY <1>1, <1>2, <1>3, <1>4 DEF IInv, TypeOK, BareInv, BareOnlyInReplacement, Stands, At
<1>10. WriteInv'
  BY <1>1, <1>2, <1>3, <1>4 DEF IInv, TypeOK, WriteInv, OwnWriteRecognised, InFlight, At
<1>11. MoveInv'
  BY <1>1, <1>2, <1>3, <1>4 DEF IInv, TypeOK, MoveInv, Carries, Staging, Stands, At, InFlight
<1>12. DataInv'
  BY <1>1, <1>2, <1>3, <1>4 DEF IInv, TypeOK, DataInv, Carries, Staging, Stands, At, Versions, InFlight
<1> QED BY <1>5, <1>6, <1>7, <1>8, <1>9, <1>10, <1>11, <1>12 DEF IInv

LEMMA ClearIntentKeeps == IInv /\ ClearIntent => IInv'
<1> SUFFICES ASSUME IInv, ClearIntent PROVE IInv'
  OBVIOUS
<1>1. /\ UNCHANGED <<desired, proven, box, vol, dirs, conf, nonces, tokens, faults, hands>>
      /\ At("delete")
  BY DEF ClearIntent, At, world, counters
<1>2. proc' \in Procs /\ proc'.pc = "settle" /\ proc'.key = proc.key /\ proc'.sid = proc.sid
  BY GotoIs DEF ClearIntent, IInv, PCs
<1>3. rec' \in Records /\ rec'.phase = 0
  BY NoRecIs DEF ClearIntent
<1>4. rec.phase = 7
  BY <1>1 DEF IInv, PhaseInv, At
<1>5. TypeOK'
  BY <1>1, <1>2, <1>3, <1>4 DEF IInv, TypeOK
<1>6. StampInv'
  BY <1>1, <1>2, <1>3, <1>4 DEF IInv, TypeOK, StampInv, Stamp, Dirs
<1>7. PhaseInv'
  BY <1>1, <1>2, <1>3, <1>4 DEF IInv, TypeOK, PhaseInv, At, Staging
<1>8. StoppedInv'
  BY <1>1, <1>2, <1>3, <1>4 DEF IInv, TypeOK, StoppedInv, MustBeStopped, At
<1>9. BareInv'
  BY <1>1, <1>2, <1>3, <1>4 DEF IInv, TypeOK, BareInv, BareOnlyInReplacement, Stands, At
<1>10. WriteInv'
  BY <1>1, <1>2, <1>3, <1>4 DEF IInv, TypeOK, WriteInv, OwnWriteRecognised, InFlight, At
<1>11. MoveInv'
  BY <1>1, <1>2, <1>3, <1>4 DEF IInv, TypeOK, MoveInv, Carries, Staging, Stands, At, InFlight
<1>12. DataInv'
  BY <1>1, <1>2, <1>3, <1>4 DEF IInv, TypeOK, DataInv, Carries, Staging, Stands, At, Versions, InFlight
<1> QED BY <1>5, <1>6, <1>7, <1>8, <1>9, <1>10, <1>11, <1>12 DEF IInv

\* The steps on the two paths.
LEMMA StageKeeps == IInv /\ Stage => IInv'
<1> SUFFICES ASSUME IInv, Stage PROVE IInv'
  OBVIOUS
<1>1. /\ UNCHANGED <<rec, desired, proven, box, vol, conf, nonces, tokens, faults, hands>>
      /\ At("stage") /\ ~dirs[Staging].there
  BY DEF Stage, At, world, counters
<1>2. proc' \in Procs /\ proc'.pc = "establish" /\ proc'.key = proc.key /\ proc'.sid = proc.sid
  BY GotoIs DEF Stage, IInv, PCs
<1>3. Staging \in Places /\ Dest \in Places
  BY StagingIsPlace, DestIsPlace DEF IInv
<1>4. PICK d \in Dirs : d.there /\ d.id = 0 /\ d.data = Empty /\ dirs' = [dirs EXCEPT ![Staging] = d]
  BY NoDirIs DEF Stage, Dirs, NoDir
<1>5. /\ dirs' \in [Places -> Dirs]
      /\ \A p \in Places : dirs'[p] = IF p = Staging THEN d ELSE dirs[p]
  BY <1>3, <1>4, DirsAre DEF IInv, TypeOK
<1>6. /\ rec.phase \in {2, 3} /\ Staging # Dest
  BY <1>1 DEF IInv, PhaseInv, At
<1>7. TypeOK'
  BY <1>1, <1>2, <1>3, <1>4, <1>5, <1>6 DEF IInv, TypeOK
<1>8. StampInv'
  BY <1>1, <1>2, <1>3, <1>4, <1>5, <1>6 DEF IInv, TypeOK, StampInv, Stamp, Dirs
<1>9. PhaseInv'
  BY <1>1, <1>2, <1>3, <1>4, <1>5, <1>6 DEF IInv, TypeOK, PhaseInv, At, Staging
<1>10. StoppedInv'
  BY <1>1, <1>2, <1>3, <1>4, <1>5, <1>6 DEF IInv, TypeOK, StoppedInv, MustBeStopped, At
<1>11. BareInv'
  BY <1>1, <1>2, <1>3, <1>4, <1>5, <1>6 DEF IInv, TypeOK, BareInv, BareOnlyInReplacement, Stands, At
<1>12. WriteInv'
  BY <1>1, <1>2, <1>3, <1>4, <1>5, <1>6 DEF IInv, TypeOK, WriteInv, OwnWriteRecognised, InFlight, At
<1>13. MoveInv'
  BY <1>1, <1>2, <1>3, <1>4, <1>5, <1>6 DEF IInv, TypeOK, MoveInv, Carries, Staging, Stands, At, InFlight
<1>14. DataInv'
  BY <1>1, <1>2, <1>3, <1>4, <1>5, <1>6 DEF IInv, TypeOK, DataInv, Carries, Staging, Stands, At, Versions, InFlight
<1> QED BY <1>7, <1>8, <1>9, <1>10, <1>11, <1>12, <1>13, <1>14 DEF IInv

LEMMA CopyStartsKeeps == IInv /\ CopyStarts => IInv'
<1> SUFFICES ASSUME IInv, CopyStarts PROVE IInv'
  OBVIOUS
<1>1. /\ UNCHANGED <<rec, desired, proven, box, vol, conf, nonces, tokens, faults, hands>>
      /\ At("preflight")
  BY DEF CopyStarts, At, world, counters
<1>2. Staging \in Places /\ Dest \in Places
  BY StagingIsPlace, DestIsPlace DEF IInv
<1>3. rec.phase = 3 /\ Staging # Dest
  BY <1>1 DEF IInv, PhaseInv, At
<1>4. proc' \in Procs /\ (proc'.pc = "idle" \/ proc'.pc = "copying")
  BY RefuseIs, GotoIs DEF CopyStarts, IInv, PCs
<1>5. PICK d \in Dirs : /\ d.there = dirs[Staging].there /\ d.id = dirs[Staging].id
                        /\ dirs' = [dirs EXCEPT ![Staging] = d]
  BY <1>2 DEF CopyStarts, IInv, TypeOK, Dirs
<1>6. /\ dirs' \in [Places -> Dirs]
      /\ \A p \in Places : dirs'[p] = IF p = Staging THEN d ELSE dirs[p]
  BY <1>2, <1>5, DirsAre DEF IInv, TypeOK
<1>7. TypeOK'
  BY <1>1, <1>2, <1>3, <1>4, <1>5, <1>6 DEF IInv, TypeOK
<1>8. StampInv'
  BY <1>1, <1>2, <1>3, <1>4, <1>5, <1>6 DEF IInv, TypeOK, StampInv, Stamp, Dirs
<1>9. PhaseInv'
  BY <1>1, <1>2, <1>3, <1>4, <1>5, <1>6 DEF IInv, TypeOK, PhaseInv, At, Staging
<1>10. StoppedInv'
  BY <1>1, <1>2, <1>3, <1>4, <1>5, <1>6 DEF IInv, TypeOK, StoppedInv, MustBeStopped, At
<1>11. BareInv'
  BY <1>1, <1>2, <1>3, <1>4, <1>5, <1>6 DEF IInv, TypeOK, BareInv, BareOnlyInReplacement, Stands, At
<1>12. WriteInv'
  BY <1>1, <1>2, <1>3, <1>4, <1>5, <1>6 DEF IInv, TypeOK, WriteInv, OwnWriteRecognised, InFlight, At
<1>13. MoveInv'
  BY <1>1, <1>2, <1>3, <1>4, <1>5, <1>6 DEF IInv, TypeOK, MoveInv, Carries, Staging, Stands, At, InFlight
<1>14. DataInv'
  BY <1>1, <1>2, <1>3, <1>4, <1>5, <1>6 DEF IInv, TypeOK, DataInv, Carries, Staging, Stands, At, Versions, InFlight
<1> QED BY <1>7, <1>8, <1>9, <1>10, <1>11, <1>12, <1>13, <1>14 DEF IInv

LEMMA CopyEndsKeeps == IInv /\ CopyEnds => IInv'
<1> SUFFICES ASSUME IInv, CopyEnds PROVE IInv'
  OBVIOUS
<1>1. /\ UNCHANGED <<rec, desired, proven, box, vol, conf, nonces, tokens, faults, hands>>
      /\ At("copying")
  BY DEF CopyEnds, At, world, counters
<1>2. Staging \in Places /\ Dest \in Places
  BY StagingIsPlace, DestIsPlace DEF IInv
<1>3. rec.phase = 3 /\ Staging # Dest
  BY <1>1 DEF IInv, PhaseInv, At
<1>4. proc' \in Procs /\ proc'.pc = "verify"
  BY DEF CopyEnds, IInv, TypeOK, Procs, PCs
<1>5. PICK d \in Dirs : /\ d.there = dirs[Staging].there /\ d.id = dirs[Staging].id
                        /\ dirs' = [dirs EXCEPT ![Staging] = d]
  BY <1>2 DEF CopyEnds, IInv, TypeOK, Dirs
<1>6. /\ dirs' \in [Places -> Dirs]
      /\ \A p \in Places : dirs'[p] = IF p = Staging THEN d ELSE dirs[p]
  BY <1>2, <1>5, DirsAre DEF IInv, TypeOK
<1>7. TypeOK'
  BY <1>1, <1>2, <1>3, <1>4, <1>5, <1>6 DEF IInv, TypeOK
<1>8. StampInv'
  BY <1>1, <1>2, <1>3, <1>4, <1>5, <1>6 DEF IInv, TypeOK, StampInv, Stamp, Dirs
<1>9. PhaseInv'
  BY <1>1, <1>2, <1>3, <1>4, <1>5, <1>6 DEF IInv, TypeOK, PhaseInv, At, Staging
<1>10. StoppedInv'
  BY <1>1, <1>2, <1>3, <1>4, <1>5, <1>6 DEF IInv, TypeOK, StoppedInv, MustBeStopped, At
<1>11. BareInv'
  BY <1>1, <1>2, <1>3, <1>4, <1>5, <1>6 DEF IInv, TypeOK, BareInv, BareOnlyInReplacement, Stands, At
<1>12. WriteInv'
  BY <1>1, <1>2, <1>3, <1>4, <1>5, <1>6 DEF IInv, TypeOK, WriteInv, OwnWriteRecognised, InFlight, At
<1>13. MoveInv'
  BY <1>1, <1>2, <1>3, <1>4, <1>5, <1>6 DEF IInv, TypeOK, MoveInv, Carries, Staging, Stands, At, InFlight
<1>14. DataInv'
  BY <1>1, <1>2, <1>3, <1>4, <1>5, <1>6 DEF IInv, TypeOK, DataInv, Carries, Staging, Stands, At, Versions, InFlight
<1> QED BY <1>7, <1>8, <1>9, <1>10, <1>11, <1>12, <1>13, <1>14 DEF IInv

LEMMA ClearKeeps == IInv /\ Clear => IInv'
<1> SUFFICES ASSUME IInv, Clear PROVE IInv'
  OBVIOUS
<1>1. /\ UNCHANGED <<rec, desired, proven, box, vol, conf, nonces, tokens, faults, hands>>
      /\ At("clear") /\ (dirs[Dest].there => dirs[Dest].data = Empty)
  BY DEF Clear, At, world, counters
<1>2. Staging \in Places /\ Dest \in Places
  BY StagingIsPlace, DestIsPlace DEF IInv
<1>3. rec.phase = 5 /\ Staging # Dest
  BY <1>1 DEF IInv, PhaseInv, At
<1>4. proc' \in Procs /\ proc'.pc = "rename" /\ proc'.key = proc.key /\ proc'.sid = proc.sid
  BY GotoIs DEF Clear, IInv, PCs
<1>5. PICK d \in Dirs : /\ ~d.there /\ d.id = 0
                        /\ dirs' = [dirs EXCEPT ![Dest] = d]
  BY NoDirIs DEF Clear
<1>6. /\ dirs' \in [Places -> Dirs]
      /\ \A p \in Places : dirs'[p] = IF p = Dest THEN d ELSE dirs[p]
  BY <1>2, <1>5, DirsAre DEF IInv, TypeOK
<1>7. hands = 0 => ~Carries(Dest, rec.stageid) /\ conf # "dest"
  BY <1>1, <1>3 DEF IInv, MoveInv, Carries, Empty
<1>8. TypeOK'
  BY <1>1, <1>2, <1>3, <1>4, <1>5, <1>6, <1>7 DEF IInv, TypeOK
<1>9. StampInv'
  BY <1>1, <1>2, <1>3, <1>4, <1>5, <1>6, <1>7 DEF IInv, TypeOK, StampInv, Stamp, Dirs
<1>10. PhaseInv'
  BY <1>1, <1>2, <1>3, <1>4, <1>5, <1>6, <1>7 DEF IInv, TypeOK, PhaseInv, At, Staging
<1>11. StoppedInv'
  BY <1>1, <1>2, <1>3, <1>4, <1>5, <1>6, <1>7 DEF IInv, TypeOK, StoppedInv, MustBeStopped, At
<1>12. BareInv'
  BY <1>1, <1>2, <1>3, <1>4, <1>5, <1>6, <1>7 DEF IInv, TypeOK, BareInv, BareOnlyInReplacement, Stands, At
<1>13. WriteInv'
  BY <1>1, <1>2, <1>3, <1>4, <1>5, <1>6, <1>7 DEF IInv, TypeOK, WriteInv, OwnWriteRecognised, InFlight, At
<1>14. MoveInv'
  BY <1>1, <1>2, <1>3, <1>4, <1>5, <1>6, <1>7 DEF IInv, TypeOK, MoveInv, Carries, Staging, Stands, At, InFlight
<1>15. DataInv'
  BY <1>1, <1>2, <1>3, <1>4, <1>5, <1>6, <1>7 DEF IInv, TypeOK, DataInv, Carries, Staging, Stands, At, Versions, InFlight
<1> QED BY <1>8, <1>9, <1>10, <1>11, <1>12, <1>13, <1>14, <1>15 DEF IInv

LEMMA EstablishKeeps == IInv /\ Establish => IInv'
<1> SUFFICES ASSUME IInv, Establish PROVE IInv'
  OBVIOUS
<1>1. /\ UNCHANGED <<rec, desired, proven, box, vol, conf, nonces, faults, hands>>
      /\ At("establish")
  BY DEF Establish, At, world, counters
<1>2. Staging \in Places /\ Dest \in Places
  BY StagingIsPlace, DestIsPlace DEF IInv
<1>3. rec.phase \in {2, 3} /\ Staging # Dest
  BY <1>1 DEF IInv, PhaseInv, At
<1>4. PICK d \in Dirs :
         /\ dirs' = [dirs EXCEPT ![Staging] = d] /\ d.there = dirs[Staging].there
         /\ \/ d.id = dirs[Staging].id /\ tokens' = tokens /\ Refuse
            \/ /\ tokens' = tokens + 1 /\ d.id = tokens' /\ d.there
               /\ proc' = [proc EXCEPT !.pc = "enter3", !.sid = tokens']
  <2>1. CASE dirs[Staging].there
    <3>1. PICK d \in Dirs : d = [dirs[Staging] EXCEPT !.id = tokens + 1]
      <4>1. dirs[Staging] \in Dirs /\ tokens + 1 \in Stamp
        BY <1>2 DEF IInv, TypeOK, Stamp
      <4>2. [dirs[Staging] EXCEPT !.id = tokens + 1] \in Dirs
        BY <4>1 DEF Dirs
      <4> QED BY <4>2
    <3>2. d.there /\ d.id = tokens + 1
      BY <1>2, <2>1, <3>1 DEF IInv, TypeOK, Dirs
    <3>3. dirs' = [dirs EXCEPT ![Staging] = d]
      BY <1>2, <2>1, <3>1 DEF Establish, IInv, TypeOK
    <3> QED BY <2>1, <3>2, <3>3 DEF Establish
  <2>2. CASE ~dirs[Staging].there
    <3>1. dirs' = [dirs EXCEPT ![Staging] = dirs[Staging]] /\ dirs[Staging] \in Dirs
      BY <1>2, <2>2 DEF Establish, IInv, TypeOK
    <3> QED BY <2>2, <3>1 DEF Establish
  <2> QED BY <2>1, <2>2
<1>5. /\ dirs' \in [Places -> Dirs]
      /\ \A p \in Places : dirs'[p] = IF p = Staging THEN d ELSE dirs[p]
  BY <1>2, <1>4, DirsAre DEF IInv, TypeOK
<1>6. tokens' \in Nat /\ tokens \in Nat
  BY <1>4 DEF IInv, TypeOK, Stamp
<1>7. proc' \in Procs /\ (proc'.pc = "idle" \/ (proc'.pc = "enter3" /\ d.there))
  BY <1>4, <1>6, RefuseIs DEF IInv, TypeOK, Procs, PCs, Stamp
<1>8. \/ d.id = dirs[Staging].id /\ tokens' = tokens
      \/ tokens' = tokens + 1 /\ d.id = tokens'
  BY <1>4
<1>9. TypeOK'
  BY <1>1, <1>2, <1>3, <1>4, <1>5, <1>6, <1>7, <1>8 DEF IInv, TypeOK, Stamp
<1>10. StampInv'
  BY <1>1, <1>2, <1>3, <1>4, <1>5, <1>6, <1>7, <1>8 DEF IInv, TypeOK, StampInv, Stamp, Dirs
<1>11. PhaseInv'
  BY <1>1, <1>2, <1>3, <1>4, <1>5, <1>6, <1>7, <1>8 DEF IInv, TypeOK, PhaseInv, At, Staging
<1>12. StoppedInv'
  BY <1>1, <1>2, <1>3, <1>4, <1>5, <1>6, <1>7, <1>8 DEF IInv, TypeOK, StoppedInv, MustBeStopped, At
<1>13. BareInv'
  BY <1>1, <1>2, <1>3, <1>4, <1>5, <1>6, <1>7, <1>8 DEF IInv, TypeOK, BareInv, BareOnlyInReplacement, Stands, At
<1>14. WriteInv'
  BY <1>1, <1>2, <1>3, <1>4, <1>5, <1>6, <1>7, <1>8 DEF IInv, TypeOK, WriteInv, OwnWriteRecognised, InFlight, At
<1>15. MoveInv'
  BY <1>1, <1>2, <1>3, <1>4, <1>5, <1>6, <1>7, <1>8 DEF IInv, TypeOK, MoveInv, Carries, Staging, Stands, At, InFlight
<1>16. DataInv'
  BY <1>1, <1>2, <1>3, <1>4, <1>5, <1>6, <1>7, <1>8 DEF IInv, TypeOK, DataInv, Carries, Staging, Stands, At, Versions, InFlight
<1> QED BY <1>9, <1>10, <1>11, <1>12, <1>13, <1>14, <1>15, <1>16 DEF IInv

LEMMA RenameKeeps == IInv /\ Rename => IInv'
<1> SUFFICES ASSUME IInv, Rename PROVE IInv'
  OBVIOUS
<1>1. /\ UNCHANGED <<rec, desired, proven, box, vol, conf, nonces, tokens, faults, hands>>
      /\ /\ At("rename") /\ dirs[Staging].there
         /\ dirs[Dest].there => dirs[Dest].data = Empty
  BY DEF Rename, At, world, counters
<1>2. Staging \in Places /\ Dest \in Places
  BY StagingIsPlace, DestIsPlace DEF IInv
<1>3. rec.phase = 5 /\ Staging # Dest
  BY <1>1 DEF IInv, PhaseInv, At
<1>4. PICK d \in Dirs : d = NoDir /\ ~d.there /\ d.id = 0
  BY NoDirIs
<1>5. /\ dirs' \in [Places -> Dirs]
      /\ \A p \in Places : dirs'[p] = IF p = Staging THEN d ELSE IF p = Dest THEN dirs[Staging]
                                    ELSE dirs[p]
  BY <1>2, <1>3, <1>4 DEF Rename, Renamed, IInv, TypeOK
<1>6. proc' \in Procs /\ (proc'.pc = "idle" \/ (proc'.pc = "enter6" /\ dirs[Staging].id = rec.stageid))
  BY <1>2, <1>3, RefuseIs, GotoIs DEF Rename, Renamed, IInv, TypeOK, PCs
<1>7. hands = 0 => ~Carries(Dest, rec.stageid)
  BY <1>1, <1>3 DEF IInv, MoveInv, Carries, Empty
<1>8. hands = 0 => Carries(Staging, rec.stageid)
  BY <1>1, <1>3, <1>7 DEF IInv, MoveInv
<1>9. TypeOK'
  BY <1>1, <1>2, <1>3, <1>4, <1>5, <1>6, <1>7, <1>8 DEF IInv, TypeOK
<1>10. StampInv'
  BY <1>1, <1>2, <1>3, <1>4, <1>5, <1>6, <1>7, <1>8 DEF IInv, TypeOK, StampInv, Stamp, Dirs
<1>11. PhaseInv'
  BY <1>1, <1>2, <1>3, <1>4, <1>5, <1>6, <1>7, <1>8 DEF IInv, TypeOK, PhaseInv, At, Staging
<1>12. StoppedInv'
  BY <1>1, <1>2, <1>3, <1>4, <1>5, <1>6, <1>7, <1>8 DEF IInv, TypeOK, StoppedInv, MustBeStopped, At
<1>13. BareInv'
  BY <1>1, <1>2, <1>3, <1>4, <1>5, <1>6, <1>7, <1>8 DEF IInv, TypeOK, BareInv, BareOnlyInReplacement, Stands, At
<1>14. WriteInv'
  BY <1>1, <1>2, <1>3, <1>4, <1>5, <1>6, <1>7, <1>8 DEF IInv, TypeOK, WriteInv, OwnWriteRecognised, InFlight, At
<1>15. MoveInv'
  BY <1>1, <1>2, <1>3, <1>4, <1>5, <1>6, <1>7, <1>8 DEF IInv, TypeOK, MoveInv, Carries, Staging, Stands, At, InFlight
<1>16. DataInv'
  BY <1>1, <1>2, <1>3, <1>4, <1>5, <1>6, <1>7, <1>8 DEF IInv, TypeOK, DataInv, Carries, Staging, Stands, At, Versions, InFlight
<1> QED BY <1>9, <1>10, <1>11, <1>12, <1>13, <1>14, <1>15, <1>16 DEF IInv

\* The steps on the container and on mythical.conf.
LEMMA StopWriterKeeps == IInv /\ StopWriter => IInv'
<1> SUFFICES ASSUME IInv, StopWriter PROVE IInv'
  OBVIOUS
<1>1. /\ UNCHANGED <<rec, desired, proven, vol, dirs, conf, nonces, tokens, faults, hands>>
      /\ At("stop")
  BY DEF StopWriter, At, world, counters
<1>2. proc' \in Procs /\ proc'.pc = "stage" /\ proc'.key = proc.key /\ proc'.sid = proc.sid
  BY GotoIs DEF StopWriter, IInv, PCs
<1>3. box' \in Boxes /\ box'.on = box.on /\ box'.st # "running" /\ (Stands' <=> Stands)
  BY DEF StopWriter, IInv, TypeOK, Boxes, Stands
<1>4. rec.phase = 2
  BY <1>1 DEF IInv, PhaseInv, At
<1>5. TypeOK'
  BY <1>1, <1>2, <1>3, <1>4 DEF IInv, TypeOK
<1>6. StampInv'
  BY <1>1, <1>2, <1>3, <1>4 DEF IInv, TypeOK, StampInv, Stamp, Dirs
<1>7. PhaseInv'
  BY <1>1, <1>2, <1>3, <1>4 DEF IInv, TypeOK, PhaseInv, At, Staging
<1>8. StoppedInv'
  BY <1>1, <1>2, <1>3, <1>4 DEF IInv, TypeOK, StoppedInv, MustBeStopped, At
<1>9. BareInv'
  BY <1>1, <1>2, <1>3, <1>4 DEF IInv, TypeOK, BareInv, BareOnlyInReplacement, Stands, At
<1>10. WriteInv'
  BY <1>1, <1>2, <1>3, <1>4 DEF IInv, TypeOK, WriteInv, OwnWriteRecognised, InFlight, At
<1>11. MoveInv'
  BY <1>1, <1>2, <1>3, <1>4 DEF IInv, TypeOK, MoveInv, Carries, Staging, Stands, At, InFlight
<1>12. DataInv'
  BY <1>1, <1>2, <1>3, <1>4 DEF IInv, TypeOK, DataInv, Carries, Staging, Stands, At, Versions, InFlight
<1> QED BY <1>5, <1>6, <1>7, <1>8, <1>9, <1>10, <1>11, <1>12 DEF IInv

LEMMA RemoveOldKeeps == IInv /\ RemoveOld => IInv'
<1> SUFFICES ASSUME IInv, RemoveOld PROVE IInv'
  OBVIOUS
<1>1. /\ UNCHANGED <<rec, desired, proven, vol, dirs, conf, nonces, tokens, faults, hands>>
      /\ At("remove")
  BY DEF RemoveOld, At, world, counters
<1>2. proc' \in Procs /\ proc'.pc = "tombstone" /\ proc'.key = proc.key /\ proc'.sid = proc.sid
  BY GotoIs DEF RemoveOld, IInv, PCs
<1>3. box' \in Boxes /\ box'.on = box.on /\ box'.st = "absent"
  BY DEF RemoveOld, Authority, Stands, IInv, TypeOK, Boxes
<1>4. rec.phase = 7
  BY <1>1 DEF IInv, PhaseInv, At
<1>5. TypeOK'
  BY <1>1, <1>2, <1>3, <1>4 DEF IInv, TypeOK
<1>6. StampInv'
  BY <1>1, <1>2, <1>3, <1>4 DEF IInv, TypeOK, StampInv, Stamp, Dirs
<1>7. PhaseInv'
  BY <1>1, <1>2, <1>3, <1>4 DEF IInv, TypeOK, PhaseInv, At, Staging
<1>8. StoppedInv'
  BY <1>1, <1>2, <1>3, <1>4 DEF IInv, TypeOK, StoppedInv, MustBeStopped, At
<1>9. BareInv'
  BY <1>1, <1>2, <1>3, <1>4 DEF IInv, TypeOK, BareInv, BareOnlyInReplacement, Stands, At
<1>10. WriteInv'
  BY <1>1, <1>2, <1>3, <1>4 DEF IInv, TypeOK, WriteInv, OwnWriteRecognised, InFlight, At
<1>11. MoveInv'
  BY <1>1, <1>2, <1>3, <1>4 DEF IInv, TypeOK, MoveInv, Carries, Staging, Stands, At, InFlight
<1>12. DataInv'
  BY <1>1, <1>2, <1>3, <1>4 DEF IInv, TypeOK, DataInv, Carries, Staging, Stands, At, Versions, InFlight
<1> QED BY <1>5, <1>6, <1>7, <1>8, <1>9, <1>10, <1>11, <1>12 DEF IInv

LEMMA TombstoneKeeps == IInv /\ Tombstone => IInv'
<1> SUFFICES ASSUME IInv, Tombstone PROVE IInv'
  OBVIOUS
<1>1. /\ UNCHANGED <<rec, desired, box, vol, dirs, conf, nonces, tokens, faults, hands>>
      /\ At("tombstone") /\ proven' \in BOOLEAN
  BY DEF Tombstone, At, world, counters
<1>2. proc' \in Procs /\ proc'.pc = "create" /\ proc'.key = proc.key /\ proc'.sid = proc.sid
  BY GotoIs DEF Tombstone, IInv, PCs
<1>3. rec.phase = 7
  BY <1>1 DEF IInv, PhaseInv, At
<1>4. TypeOK'
  BY <1>1, <1>2, <1>3 DEF IInv, TypeOK
<1>5. StampInv'
  BY <1>1, <1>2, <1>3 DEF IInv, TypeOK, StampInv, Stamp, Dirs
<1>6. PhaseInv'
  BY <1>1, <1>2, <1>3 DEF IInv, TypeOK, PhaseInv, At, Staging
<1>7. StoppedInv'
  BY <1>1, <1>2, <1>3 DEF IInv, TypeOK, StoppedInv, MustBeStopped, At
<1>8. BareInv'
  BY <1>1, <1>2, <1>3 DEF IInv, TypeOK, BareInv, BareOnlyInReplacement, Stands, At
<1>9. WriteInv'
  BY <1>1, <1>2, <1>3 DEF IInv, TypeOK, WriteInv, OwnWriteRecognised, InFlight, At
<1>10. MoveInv'
  BY <1>1, <1>2, <1>3 DEF IInv, TypeOK, MoveInv, Carries, Staging, Stands, At, InFlight
<1>11. DataInv'
  BY <1>1, <1>2, <1>3 DEF IInv, TypeOK, DataInv, Carries, Staging, Stands, At, Versions, InFlight
<1> QED BY <1>4, <1>5, <1>6, <1>7, <1>8, <1>9, <1>10, <1>11 DEF IInv

LEMMA CreateNewKeeps == IInv /\ CreateNew => IInv'
<1> SUFFICES ASSUME IInv, CreateNew PROVE IInv'
  OBVIOUS
<1>1. /\ UNCHANGED <<rec, desired, proven, vol, dirs, conf, nonces, tokens, faults, hands>>
      /\ At("create")
  BY DEF CreateNew, At, world, counters
<1>2. proc' \in Procs /\ proc'.pc = "confirm" /\ proc'.key = proc.key /\ proc'.sid = proc.sid
  BY GotoIs DEF CreateNew, IInv, PCs
<1>3. box'.st = "stopped" /\ box'.on = Mounted(proc.key)
  BY DEF CreateNew
<1>4. proc.key \in {"unset", "dest", "other"}
  BY DEF IInv, TypeOK, Procs
<1>5. box' \in Boxes
  BY <1>4 DEF CreateNew, Mounted, Boxes
<1>6. proc.key = "dest" => box'.on = "bind"
  BY <1>3 DEF Mounted
<1>7. rec.phase = 7
  BY <1>1 DEF IInv, PhaseInv, At
<1>8. TypeOK'
  BY <1>1, <1>2, <1>3, <1>4, <1>5, <1>6, <1>7 DEF IInv, TypeOK
<1>9. StampInv'
  BY <1>1, <1>2, <1>3, <1>4, <1>5, <1>6, <1>7 DEF IInv, TypeOK, StampInv, Stamp, Dirs
<1>10. PhaseInv'
  BY <1>1, <1>2, <1>3, <1>4, <1>5, <1>6, <1>7 DEF IInv, TypeOK, PhaseInv, At, Staging
<1>11. StoppedInv'
  BY <1>1, <1>2, <1>3, <1>4, <1>5, <1>6, <1>7 DEF IInv, TypeOK, StoppedInv, MustBeStopped, At
<1>12. BareInv'
  BY <1>1, <1>2, <1>3, <1>4, <1>5, <1>6, <1>7 DEF IInv, TypeOK, BareInv, BareOnlyInReplacement, Stands, At
<1>13. WriteInv'
  BY <1>1, <1>2, <1>3, <1>4, <1>5, <1>6, <1>7 DEF IInv, TypeOK, WriteInv, OwnWriteRecognised, InFlight, At
<1>14. MoveInv'
  BY <1>1, <1>2, <1>3, <1>4, <1>5, <1>6, <1>7 DEF IInv, TypeOK, MoveInv, Carries, Staging, Stands, At, InFlight
<1>15. DataInv'
  BY <1>1, <1>2, <1>3, <1>4, <1>5, <1>6, <1>7 DEF IInv, TypeOK, DataInv, Carries, Staging, Stands, At, Versions, InFlight
<1> QED BY <1>8, <1>9, <1>10, <1>11, <1>12, <1>13, <1>14, <1>15 DEF IInv

LEMMA DiscardKeeps == IInv /\ Discard => IInv'
<1> SUFFICES ASSUME IInv, Discard PROVE IInv'
  OBVIOUS
<1>1. /\ UNCHANGED <<rec, desired, proven, vol, dirs, conf, nonces, tokens, faults, hands>>
      /\ At("confirm")
  BY DEF Discard, At, world, counters
<1>2. proc' \in Procs /\ proc'.pc = "idle"
  BY RefuseIs DEF Discard
<1>3. box' \in Boxes /\ box'.on = box.on /\ box'.st = "absent"
  BY DEF Discard, IInv, TypeOK, Boxes
<1>4. rec.phase = 7
  BY <1>1 DEF IInv, PhaseInv, At
<1>5. TypeOK'
  BY <1>1, <1>2, <1>3, <1>4 DEF IInv, TypeOK
<1>6. StampInv'
  BY <1>1, <1>2, <1>3, <1>4 DEF IInv, TypeOK, StampInv, Stamp, Dirs
<1>7. PhaseInv'
  BY <1>1, <1>2, <1>3, <1>4 DEF IInv, TypeOK, PhaseInv, At, Staging
<1>8. StoppedInv'
  BY <1>1, <1>2, <1>3, <1>4 DEF IInv, TypeOK, StoppedInv, MustBeStopped, At
<1>9. BareInv'
  BY <1>1, <1>2, <1>3, <1>4 DEF IInv, TypeOK, BareInv, BareOnlyInReplacement, Stands, At
<1>10. WriteInv'
  BY <1>1, <1>2, <1>3, <1>4 DEF IInv, TypeOK, WriteInv, OwnWriteRecognised, InFlight, At
<1>11. MoveInv'
  BY <1>1, <1>2, <1>3, <1>4 DEF IInv, TypeOK, MoveInv, Carries, Staging, Stands, At, InFlight
<1>12. DataInv'
  BY <1>1, <1>2, <1>3, <1>4 DEF IInv, TypeOK, DataInv, Carries, Staging, Stands, At, Versions, InFlight
<1> QED BY <1>5, <1>6, <1>7, <1>8, <1>9, <1>10, <1>11, <1>12 DEF IInv

LEMMA ConfirmNewKeeps == IInv /\ ConfirmNew => IInv'
<1> SUFFICES ASSUME IInv, ConfirmNew PROVE IInv'
  OBVIOUS
<1>1. /\ UNCHANGED <<rec, desired, box, vol, dirs, conf, nonces, tokens, faults, hands>>
      /\ At("confirm") /\ proven' \in BOOLEAN
  BY DEF ConfirmNew, At, world, counters
<1>2. proc' \in Procs /\ proc'.pc = "start" /\ proc'.key = proc.key /\ proc'.sid = proc.sid
  BY GotoIs DEF ConfirmNew, IInv, PCs
<1>3. rec.phase = 7
  BY <1>1 DEF IInv, PhaseInv, At
<1>4. TypeOK'
  BY <1>1, <1>2, <1>3 DEF IInv, TypeOK
<1>5. StampInv'
  BY <1>1, <1>2, <1>3 DEF IInv, TypeOK, StampInv, Stamp, Dirs
<1>6. PhaseInv'
  BY <1>1, <1>2, <1>3 DEF IInv, TypeOK, PhaseInv, At, Staging
<1>7. StoppedInv'
  BY <1>1, <1>2, <1>3 DEF IInv, TypeOK, StoppedInv, MustBeStopped, At
<1>8. BareInv'
  BY <1>1, <1>2, <1>3 DEF IInv, TypeOK, BareInv, BareOnlyInReplacement, Stands, At
<1>9. WriteInv'
  BY <1>1, <1>2, <1>3 DEF IInv, TypeOK, WriteInv, OwnWriteRecognised, InFlight, At
<1>10. MoveInv'
  BY <1>1, <1>2, <1>3 DEF IInv, TypeOK, MoveInv, Carries, Staging, Stands, At, InFlight
<1>11. DataInv'
  BY <1>1, <1>2, <1>3 DEF IInv, TypeOK, DataInv, Carries, Staging, Stands, At, Versions, InFlight
<1> QED BY <1>4, <1>5, <1>6, <1>7, <1>8, <1>9, <1>10, <1>11 DEF IInv

LEMMA StartNewKeeps == IInv /\ StartNew => IInv'
<1> SUFFICES ASSUME IInv, StartNew PROVE IInv'
  OBVIOUS
<1>1. /\ UNCHANGED <<rec, desired, proven, vol, dirs, conf, nonces, tokens, faults, hands>>
      /\ At("start")
  BY DEF StartNew, At, world, counters
<1>2. proc' \in Procs /\ proc'.pc = "inspect" /\ proc'.key = proc.key /\ proc'.sid = proc.sid
  BY GotoIs DEF StartNew, IInv, PCs
<1>3. box' \in Boxes /\ box'.on = box.on /\ (Stands => Stands')
  BY DEF StartNew, IInv, TypeOK, Boxes, Stands
<1>4. rec.phase = 7
  BY <1>1 DEF IInv, PhaseInv, At
<1>5. hands = 0 => box.on = "bind"
  BY <1>1 DEF IInv, MoveInv, At
<1>6. TypeOK'
  BY <1>1, <1>2, <1>3, <1>4, <1>5 DEF IInv, TypeOK
<1>7. StampInv'
  BY <1>1, <1>2, <1>3, <1>4, <1>5 DEF IInv, TypeOK, StampInv, Stamp, Dirs
<1>8. PhaseInv'
  BY <1>1, <1>2, <1>3, <1>4, <1>5 DEF IInv, TypeOK, PhaseInv, At, Staging
<1>9. StoppedInv'
  BY <1>1, <1>2, <1>3, <1>4, <1>5 DEF IInv, TypeOK, StoppedInv, MustBeStopped, At
<1>10. BareInv'
  BY <1>1, <1>2, <1>3, <1>4, <1>5 DEF IInv, TypeOK, BareInv, BareOnlyInReplacement, Stands, At
<1>11. WriteInv'
  BY <1>1, <1>2, <1>3, <1>4, <1>5 DEF IInv, TypeOK, WriteInv, OwnWriteRecognised, InFlight, At
<1>12. MoveInv'
  BY <1>1, <1>2, <1>3, <1>4, <1>5 DEF IInv, TypeOK, MoveInv, Carries, Staging, Stands, At, InFlight
<1>13. DataInv'
  BY <1>1, <1>2, <1>3, <1>4, <1>5 DEF IInv, TypeOK, DataInv, Carries, Staging, Stands, At, Versions, InFlight
<1> QED BY <1>6, <1>7, <1>8, <1>9, <1>10, <1>11, <1>12, <1>13 DEF IInv

LEMMA RestoreDesiredKeeps == IInv /\ RestoreDesired => IInv'
<1> SUFFICES ASSUME IInv, RestoreDesired PROVE IInv'
  OBVIOUS
<1>1. /\ UNCHANGED <<rec, proven, box, vol, dirs, conf, nonces, tokens, faults, hands>>
      /\ At("restore") /\ desired' \in Wants
  BY DEF RestoreDesired, At, counters, IInv, TypeOK, Records
<1>2. proc' \in Procs /\ proc'.pc = "delete" /\ proc'.key = proc.key /\ proc'.sid = proc.sid
  BY GotoIs DEF RestoreDesired, IInv, PCs
<1>3. rec.phase = 7
  BY <1>1 DEF IInv, PhaseInv, At
<1>4. TypeOK'
  BY <1>1, <1>2, <1>3 DEF IInv, TypeOK
<1>5. StampInv'
  BY <1>1, <1>2, <1>3 DEF IInv, TypeOK, StampInv, Stamp, Dirs
<1>6. PhaseInv'
  BY <1>1, <1>2, <1>3 DEF IInv, TypeOK, PhaseInv, At, Staging
<1>7. StoppedInv'
  BY <1>1, <1>2, <1>3 DEF IInv, TypeOK, StoppedInv, MustBeStopped, At
<1>8. BareInv'
  BY <1>1, <1>2, <1>3 DEF IInv, TypeOK, BareInv, BareOnlyInReplacement, Stands, At
<1>9. WriteInv'
  BY <1>1, <1>2, <1>3 DEF IInv, TypeOK, WriteInv, OwnWriteRecognised, InFlight, At
<1>10. MoveInv'
  BY <1>1, <1>2, <1>3 DEF IInv, TypeOK, MoveInv, Carries, Staging, Stands, At, InFlight
<1>11. DataInv'
  BY <1>1, <1>2, <1>3 DEF IInv, TypeOK, DataInv, Carries, Staging, Stands, At, Versions, InFlight
<1> QED BY <1>4, <1>5, <1>6, <1>7, <1>8, <1>9, <1>10, <1>11 DEF IInv

LEMMA SettleKeeps == IInv /\ Settle => IInv'
<1> SUFFICES ASSUME IInv, Settle PROVE IInv'
  OBVIOUS
<1>1. /\ UNCHANGED <<rec, desired, proven, vol, dirs, conf, nonces, tokens, faults, hands>>
      /\ At("settle")
  BY DEF Settle, At, world, counters
<1>2. proc' \in Procs /\ proc'.pc = "idle"
  BY RefuseIs DEF Settle
<1>3. box' \in Boxes /\ box'.on = box.on /\ (Stands' <=> Stands)
  BY DEF Settle, Reconciled, IInv, TypeOK, Boxes, Wants, Stands
<1>4. rec.phase = 0
  BY <1>1 DEF IInv, PhaseInv, At
<1>5. hands = 0 => box.on = "bind"
  BY <1>1 DEF IInv, MoveInv, At
<1>6. TypeOK'
  BY <1>1, <1>2, <1>3, <1>4, <1>5 DEF IInv, TypeOK
<1>7. StampInv'
  BY <1>1, <1>2, <1>3, <1>4, <1>5 DEF IInv, TypeOK, StampInv, Stamp, Dirs
<1>8. PhaseInv'
  BY <1>1, <1>2, <1>3, <1>4, <1>5 DEF IInv, TypeOK, PhaseInv, At, Staging
<1>9. StoppedInv'
  BY <1>1, <1>2, <1>3, <1>4, <1>5 DEF IInv, TypeOK, StoppedInv, MustBeStopped, At
<1>10. BareInv'
  BY <1>1, <1>2, <1>3, <1>4, <1>5 DEF IInv, TypeOK, BareInv, BareOnlyInReplacement, Stands, At
<1>11. WriteInv'
  BY <1>1, <1>2, <1>3, <1>4, <1>5 DEF IInv, TypeOK, WriteInv, OwnWriteRecognised, InFlight, At
<1>12. MoveInv'
  BY <1>1, <1>2, <1>3, <1>4, <1>5 DEF IInv, TypeOK, MoveInv, Carries, Staging, Stands, At, InFlight
<1>13. DataInv'
  BY <1>1, <1>2, <1>3, <1>4, <1>5 DEF IInv, TypeOK, DataInv, Carries, Staging, Stands, At, Versions, InFlight
<1> QED BY <1>6, <1>7, <1>8, <1>9, <1>10, <1>11, <1>12, <1>13 DEF IInv

LEMMA WriteBindKeeps == IInv /\ WriteBind => IInv'
<1> SUFFICES ASSUME IInv, WriteBind PROVE IInv'
  OBVIOUS
<1>1. /\ UNCHANGED <<rec, desired, proven, box, vol, dirs, nonces, tokens, faults, hands>>
      /\ At("cas") /\ conf' = "dest"
  BY DEF WriteBind, At, world, counters
<1>2. proc' \in Procs /\ proc'.pc = "enter7" /\ proc'.key = proc.key /\ proc'.sid = proc.sid
  BY GotoIs DEF WriteBind, IInv, PCs
<1>3. rec.phase = 6
  BY <1>1 DEF IInv, PhaseInv, At
<1>4. hands = 0 => Carries(Dest, rec.stageid)
  BY <1>3 DEF IInv, MoveInv
<1>5. TypeOK'
  BY <1>1, <1>2, <1>3, <1>4 DEF IInv, TypeOK
<1>6. StampInv'
  BY <1>1, <1>2, <1>3, <1>4 DEF IInv, TypeOK, StampInv, Stamp, Dirs
<1>7. PhaseInv'
  BY <1>1, <1>2, <1>3, <1>4 DEF IInv, TypeOK, PhaseInv, At, Staging
<1>8. StoppedInv'
  BY <1>1, <1>2, <1>3, <1>4 DEF IInv, TypeOK, StoppedInv, MustBeStopped, At
<1>9. BareInv'
  BY <1>1, <1>2, <1>3, <1>4 DEF IInv, TypeOK, BareInv, BareOnlyInReplacement, Stands, At
<1>10. WriteInv'
  BY <1>1, <1>2, <1>3, <1>4 DEF IInv, TypeOK, WriteInv, OwnWriteRecognised, InFlight, At
<1>11. MoveInv'
  BY <1>1, <1>2, <1>3, <1>4 DEF IInv, TypeOK, MoveInv, Carries, Staging, Stands, At, InFlight
<1>12. DataInv'
  BY <1>1, <1>2, <1>3, <1>4 DEF IInv, TypeOK, DataInv, Carries, Staging, Stands, At, Versions, InFlight
<1> QED BY <1>5, <1>6, <1>7, <1>8, <1>9, <1>10, <1>11, <1>12 DEF IInv

\* The other verbs, the product and the operator.
LEMMA VerbStopKeeps == IInv /\ VerbStop => IInv'
<1> SUFFICES ASSUME IInv, VerbStop PROVE IInv'
  OBVIOUS
<1>1. /\ UNCHANGED <<rec, proven, vol, dirs, conf, nonces, tokens, faults, hands, proc>>
      /\ At("idle") /\ desired' \in Wants
  BY DEF VerbStop, Verb, At, counters, Wants
<1>2. box' \in Boxes /\ box'.on = box.on /\ (Stands' <=> Stands) /\ box'.st # "running"
  BY DEF VerbStop, IInv, TypeOK, Boxes, Stands
<1>3. TypeOK'
  BY <1>1, <1>2 DEF IInv, TypeOK
<1>4. StampInv'
  BY <1>1, <1>2 DEF IInv, TypeOK, StampInv, Stamp, Dirs
<1>5. PhaseInv'
  BY <1>1, <1>2 DEF IInv, TypeOK, PhaseInv, At, Staging
<1>6. StoppedInv'
  BY <1>1, <1>2 DEF IInv, TypeOK, StoppedInv, MustBeStopped, At
<1>7. BareInv'
  BY <1>1, <1>2 DEF IInv, TypeOK, BareInv, BareOnlyInReplacement, Stands, At
<1>8. WriteInv'
  BY <1>1, <1>2 DEF IInv, TypeOK, WriteInv, OwnWriteRecognised, InFlight, At
<1>9. MoveInv'
  BY <1>1, <1>2 DEF IInv, TypeOK, MoveInv, Carries, Staging, Stands, At, InFlight
<1>10. DataInv'
  BY <1>1, <1>2 DEF IInv, TypeOK, DataInv, Carries, Staging, Stands, At, Versions, InFlight
<1> QED BY <1>3, <1>4, <1>5, <1>6, <1>7, <1>8, <1>9, <1>10 DEF IInv

LEMMA VerbStartKeeps == IInv /\ VerbStart => IInv'
<1> SUFFICES ASSUME IInv, VerbStart PROVE IInv'
  OBVIOUS
<1>1. /\ UNCHANGED <<rec, proven, vol, dirs, conf, nonces, tokens, faults, hands, proc>>
      /\ At("idle") /\ desired' \in Wants
  BY DEF VerbStart, Verb, At, counters, Wants
<1>2. box' \in Boxes /\ box'.on = box.on /\ (Stands' <=> Stands) /\ (InFlight => box' = box)
  BY DEF VerbStart, Reconciled, IInv, TypeOK, Boxes, Stands, InFlight
<1>3. TypeOK'
  BY <1>1, <1>2 DEF IInv, TypeOK
<1>4. StampInv'
  BY <1>1, <1>2 DEF IInv, TypeOK, StampInv, Stamp, Dirs
<1>5. PhaseInv'
  BY <1>1, <1>2 DEF IInv, TypeOK, PhaseInv, At, Staging
<1>6. StoppedInv'
  BY <1>1, <1>2 DEF IInv, TypeOK, StoppedInv, MustBeStopped, At, InFlight
<1>7. BareInv'
  BY <1>1, <1>2 DEF IInv, TypeOK, BareInv, BareOnlyInReplacement, Stands, At
<1>8. WriteInv'
  BY <1>1, <1>2 DEF IInv, TypeOK, WriteInv, OwnWriteRecognised, InFlight, At
<1>9. MoveInv'
  BY <1>1, <1>2 DEF IInv, TypeOK, MoveInv, Carries, Staging, Stands, At, InFlight
<1>10. DataInv'
  BY <1>1, <1>2 DEF IInv, TypeOK, DataInv, Carries, Staging, Stands, At, Versions, InFlight, MoveInv
<1> QED BY <1>3, <1>4, <1>5, <1>6, <1>7, <1>8, <1>9, <1>10 DEF IInv

LEMMA VerbRecreateKeeps == IInv /\ VerbRecreate => IInv'
<1> SUFFICES ASSUME IInv, VerbRecreate PROVE IInv'
  OBVIOUS
<1>1. /\ UNCHANGED <<rec, desired, vol, dirs, conf, nonces, tokens, faults, hands, proc>>
      /\ /\ At("idle") /\ "recreate" \in Verbs /\ proven' \in BOOLEAN
  BY DEF VerbRecreate, Verb, At, counters
<1>2. box'.st = desired /\ box'.on = Mounted(conf)
  BY DEF VerbRecreate
<1>3. box' \in Boxes /\ box'.st # "absent"
  BY DEF VerbRecreate, Mounted, Boxes, IInv, TypeOK, Wants
<1>4. box'.on = "bind" <=> conf = "dest"
  BY <1>2 DEF Mounted, IInv, TypeOK
<1>5. TypeOK'
  BY <1>1, <1>2, <1>3, <1>4 DEF IInv, TypeOK
<1>6. StampInv'
  BY <1>1, <1>2, <1>3, <1>4 DEF IInv, TypeOK, StampInv, Stamp, Dirs
<1>7. PhaseInv'
  BY <1>1, <1>2, <1>3, <1>4 DEF IInv, TypeOK, PhaseInv, At, Staging
<1>8. StoppedInv'
  BY <1>1, <1>2, <1>3, <1>4 DEF IInv, TypeOK, StoppedInv, MustBeStopped, At
<1>9. BareInv'
  BY <1>1, <1>2, <1>3, <1>4 DEF IInv, TypeOK, BareInv, BareOnlyInReplacement, Stands, At
<1>10. WriteInv'
  BY <1>1, <1>2, <1>3, <1>4 DEF IInv, TypeOK, WriteInv, OwnWriteRecognised, InFlight, At
<1>11. MoveInv'
  BY <1>1, <1>2, <1>3, <1>4 DEF IInv, TypeOK, MoveInv, Carries, Staging, Stands, At, InFlight
<1>12. DataInv'
  BY <1>1, <1>2, <1>3, <1>4 DEF IInv, TypeOK, DataInv, Carries, Staging, Stands, At, Versions, InFlight
<1> QED BY <1>5, <1>6, <1>7, <1>8, <1>9, <1>10, <1>11, <1>12 DEF IInv

LEMMA ExitsKeeps == IInv /\ Exits => IInv'
<1> SUFFICES ASSUME IInv, Exits PROVE IInv'
  OBVIOUS
<1>1. /\ UNCHANGED <<rec, desired, proven, vol, dirs, conf, nonces, tokens, faults, hands, proc>>
  BY DEF Exits, counters
<1>2. box' \in Boxes /\ box'.on = box.on /\ (Stands' <=> Stands) /\ box'.st # "running"
  BY DEF Exits, IInv, TypeOK, Boxes, Stands
<1>3. TypeOK'
  BY <1>1, <1>2 DEF IInv, TypeOK
<1>4. StampInv'
  BY <1>1, <1>2 DEF IInv, TypeOK, StampInv, Stamp, Dirs
<1>5. PhaseInv'
  BY <1>1, <1>2 DEF IInv, TypeOK, PhaseInv, At, Staging
<1>6. StoppedInv'
  BY <1>1, <1>2 DEF IInv, TypeOK, StoppedInv, MustBeStopped, At
<1>7. BareInv'
  BY <1>1, <1>2 DEF IInv, TypeOK, BareInv, BareOnlyInReplacement, Stands, At
<1>8. WriteInv'
  BY <1>1, <1>2 DEF IInv, TypeOK, WriteInv, OwnWriteRecognised, InFlight, At
<1>9. MoveInv'
  BY <1>1, <1>2 DEF IInv, TypeOK, MoveInv, Carries, Staging, Stands, At, InFlight
<1>10. DataInv'
  BY <1>1, <1>2 DEF IInv, TypeOK, DataInv, Carries, Staging, Stands, At, Versions, InFlight
<1> QED BY <1>3, <1>4, <1>5, <1>6, <1>7, <1>8, <1>9, <1>10 DEF IInv

LEMMA ProductWritesKeeps == IInv /\ ProductWrites => IInv'
<1> SUFFICES ASSUME IInv, ProductWrites PROVE IInv'
  OBVIOUS
<1>1. /\ UNCHANGED <<rec, desired, proven, box, conf, proc, nonces, tokens, faults, hands>>
      /\ box.st = "running"
  BY DEF ProductWrites, counters
<1>2. Dest \in Places /\ Staging \in Places /\ vol \in Versions
  BY DestIsPlace, StagingIsPlace DEF IInv, TypeOK
<1>3. PICK d \in Dirs :
         /\ dirs' = [dirs EXCEPT ![Dest] = d] /\ vol' \in Versions
         /\ d.there = dirs[Dest].there /\ d.id = dirs[Dest].id
         /\ \/ box.on = "volume" /\ vol' = vol + 1 /\ d.data = dirs[Dest].data
            \/ box.on = "bind" /\ vol' = vol /\ dirs[Dest].data >= 0
               /\ d.data = dirs[Dest].data + 1
  <2>1. CASE box.on = "volume"
    <3>1. dirs' = [dirs EXCEPT ![Dest] = dirs[Dest]] /\ dirs[Dest] \in Dirs
      BY <1>2, <2>1 DEF ProductWrites, IInv, TypeOK
    <3>2. vol' = vol + 1 /\ vol' \in Versions
      BY <1>2, <2>1 DEF ProductWrites, Versions
    <3> QED BY <2>1, <3>1, <3>2
  <2>2. CASE box.on = "bind" /\ box.on # "volume"
    <3>1. /\ dirs[Dest].data \in 0 .. MaxWrites - 1 /\ vol' = vol
          /\ dirs' = [dirs EXCEPT ![Dest].data = dirs[Dest].data + 1]
      BY <1>2, <2>2 DEF ProductWrites, IInv, TypeOK
    <3>2. dirs[Dest] \in Dirs /\ dirs[Dest].data + 1 \in Versions
      BY <1>2, <3>1 DEF Versions, IInv, TypeOK
    <3>3. PICK d \in Dirs : d = [dirs[Dest] EXCEPT !.data = dirs[Dest].data + 1]
      <4>1. [dirs[Dest] EXCEPT !.data = dirs[Dest].data + 1] \in Dirs
        BY <3>2 DEF Dirs
      <4> QED BY <4>1
    <3>4. /\ d.there = dirs[Dest].there /\ d.id = dirs[Dest].id
          /\ d.data = dirs[Dest].data + 1
      BY <3>2, <3>3 DEF Dirs
    <3>5. dirs' = [dirs EXCEPT ![Dest] = d]
      BY <1>2, <3>1, <3>3 DEF IInv, TypeOK
    <3>6. vol' \in Versions /\ dirs[Dest].data >= 0
      BY <1>2, <3>1
    <3> QED BY <2>2, <3>1, <3>4, <3>5, <3>6
  <2> QED BY <2>1, <2>2 DEF ProductWrites
<1>4. /\ dirs' \in [Places -> Dirs]
      /\ \A p \in Places : dirs'[p] = IF p = Dest THEN d ELSE dirs[p]
  BY <1>2, <1>3, DirsAre DEF IInv, TypeOK
<1>5. vol \in Int /\ vol' \in Int /\ dirs[Dest].data \in Int
  BY <1>2, <1>3 DEF IInv, TypeOK, Versions, Dirs, Empty, Partial, Foreign
<1>6. hands = 0 /\ "recreate" \notin Verbs =>
         (rec.phase >= 5 \/ At("enter5") \/ conf = "dest" => box.on = "bind" /\ conf = "dest")
  BY <1>1 DEF IInv, TypeOK, Records, MoveInv, DataInv, StoppedInv, MustBeStopped, At, Stands
<1>7. TypeOK'
  BY <1>1, <1>2, <1>3, <1>4, <1>5, <1>6 DEF IInv, TypeOK
<1>8. StampInv'
  BY <1>1, <1>2, <1>3, <1>4, <1>5, <1>6 DEF IInv, TypeOK, StampInv, Stamp, Dirs
<1>9. PhaseInv'
  BY <1>1, <1>2, <1>3, <1>4, <1>5, <1>6 DEF IInv, TypeOK, PhaseInv, At, Staging
<1>10. StoppedInv'
  BY <1>1, <1>2, <1>3, <1>4, <1>5, <1>6 DEF IInv, TypeOK, StoppedInv, MustBeStopped, At
<1>11. BareInv'
  BY <1>1, <1>2, <1>3, <1>4, <1>5, <1>6 DEF IInv, TypeOK, BareInv, BareOnlyInReplacement, Stands, At
<1>12. WriteInv'
  BY <1>1, <1>2, <1>3, <1>4, <1>5, <1>6 DEF IInv, TypeOK, WriteInv, OwnWriteRecognised, InFlight, At
<1>13. MoveInv'
  BY <1>1, <1>2, <1>3, <1>4, <1>5, <1>6 DEF IInv, TypeOK, MoveInv, Carries, Staging, Stands, At, InFlight
<1>14. DataInv'
  BY <1>1, <1>2, <1>3, <1>4, <1>5, <1>6 DEF IInv, TypeOK, DataInv, Carries, Staging, Stands, At, Versions, InFlight
<1> QED BY <1>7, <1>8, <1>9, <1>10, <1>11, <1>12, <1>13, <1>14 DEF IInv

LEMMA PlantKeeps == ASSUME IInv, NEW q \in Places, Plant(q) PROVE IInv'
<1>1. UNCHANGED <<rec, desired, proven, box, vol, conf, proc, nonces, tokens, faults>>
  BY DEF Plant, world
<1>2. hands' \in 0 .. MaxHands /\ hands' # 0
  BY HandIs DEF Plant, IInv
<1>3. PICK d \in Dirs : d.id = 0 /\ dirs' = [dirs EXCEPT ![q] = d]
  <2>1. [there |-> TRUE, id |-> 0, data |-> Foreign] \in Dirs
    BY DEF Dirs, Stamp
  <2> QED BY <2>1 DEF Plant
<1>4. /\ dirs' \in [Places -> Dirs]
      /\ \A p \in Places : dirs'[p] = IF p = q THEN d ELSE dirs[p]
  BY <1>3, DirsAre DEF IInv, TypeOK
<1>5. TypeOK'
  BY <1>1, <1>2, <1>3, <1>4 DEF IInv, TypeOK
<1>6. StampInv'
  BY <1>1, <1>2, <1>3, <1>4 DEF IInv, TypeOK, StampInv, Stamp, Dirs
<1>7. PhaseInv'
  BY <1>1, <1>2, <1>3, <1>4 DEF IInv, TypeOK, PhaseInv, At, Staging
<1>8. StoppedInv'
  BY <1>1, <1>2, <1>3, <1>4 DEF IInv, TypeOK, StoppedInv, MustBeStopped, At
<1>9. BareInv'
  BY <1>1, <1>2, <1>3, <1>4 DEF IInv, TypeOK, BareInv, BareOnlyInReplacement, Stands, At
<1>10. WriteInv'
  BY <1>1, <1>2, <1>3, <1>4 DEF IInv, TypeOK, WriteInv, OwnWriteRecognised, InFlight, At
<1>11. MoveInv'
  BY <1>1, <1>2, <1>3, <1>4 DEF IInv, TypeOK, MoveInv, Carries, Staging, Stands, At, InFlight
<1>12. DataInv'
  BY <1>1, <1>2, <1>3, <1>4 DEF IInv, TypeOK, DataInv, Carries, Staging, Stands, At, Versions, InFlight
<1> QED BY <1>5, <1>6, <1>7, <1>8, <1>9, <1>10, <1>11, <1>12 DEF IInv

LEMMA TakeKeeps == ASSUME IInv, NEW q \in Places, Take(q) PROVE IInv'
<1>1. UNCHANGED <<rec, desired, proven, box, vol, conf, proc, nonces, tokens, faults>>
  BY DEF Take, world
<1>2. hands' \in 0 .. MaxHands /\ hands' # 0
  BY HandIs DEF Take, IInv
<1>3. PICK d \in Dirs : d.id = 0 /\ dirs' = [dirs EXCEPT ![q] = d]
  BY NoDirIs DEF Take
<1>4. /\ dirs' \in [Places -> Dirs]
      /\ \A p \in Places : dirs'[p] = IF p = q THEN d ELSE dirs[p]
  BY <1>3, DirsAre DEF IInv, TypeOK
<1>5. TypeOK'
  BY <1>1, <1>2, <1>3, <1>4 DEF IInv, TypeOK
<1>6. StampInv'
  BY <1>1, <1>2, <1>3, <1>4 DEF IInv, TypeOK, StampInv, Stamp, Dirs
<1>7. PhaseInv'
  BY <1>1, <1>2, <1>3, <1>4 DEF IInv, TypeOK, PhaseInv, At, Staging
<1>8. StoppedInv'
  BY <1>1, <1>2, <1>3, <1>4 DEF IInv, TypeOK, StoppedInv, MustBeStopped, At
<1>9. BareInv'
  BY <1>1, <1>2, <1>3, <1>4 DEF IInv, TypeOK, BareInv, BareOnlyInReplacement, Stands, At
<1>10. WriteInv'
  BY <1>1, <1>2, <1>3, <1>4 DEF IInv, TypeOK, WriteInv, OwnWriteRecognised, InFlight, At
<1>11. MoveInv'
  BY <1>1, <1>2, <1>3, <1>4 DEF IInv, TypeOK, MoveInv, Carries, Staging, Stands, At, InFlight
<1>12. DataInv'
  BY <1>1, <1>2, <1>3, <1>4 DEF IInv, TypeOK, DataInv, Carries, Staging, Stands, At, Versions, InFlight
<1> QED BY <1>5, <1>6, <1>7, <1>8, <1>9, <1>10, <1>11, <1>12 DEF IInv

LEMMA EditConfKeeps == ASSUME IInv, NEW v \in {"unset", "other"}, EditConf(v) PROVE IInv'
<1>1. /\ UNCHANGED <<rec, desired, proven, box, vol, dirs, proc, nonces, tokens, faults>>
      /\ conf' = v
  BY DEF EditConf
<1>2. hands' \in 0 .. MaxHands /\ hands' # 0
  BY HandIs DEF EditConf, IInv
<1>3. TypeOK'
  BY <1>1, <1>2 DEF IInv, TypeOK
<1>4. StampInv'
  BY <1>1, <1>2 DEF IInv, TypeOK, StampInv, Stamp, Dirs
<1>5. PhaseInv'
  BY <1>1, <1>2 DEF IInv, TypeOK, PhaseInv, At, Staging
<1>6. StoppedInv'
  BY <1>1, <1>2 DEF IInv, TypeOK, StoppedInv, MustBeStopped, At
<1>7. BareInv'
  BY <1>1, <1>2 DEF IInv, TypeOK, BareInv, BareOnlyInReplacement, Stands, At
<1>8. WriteInv'
  BY <1>1, <1>2 DEF IInv, TypeOK, WriteInv, OwnWriteRecognised, InFlight, At
<1>9. MoveInv'
  BY <1>1, <1>2 DEF IInv, TypeOK, MoveInv, Carries, Staging, Stands, At, InFlight
<1>10. DataInv'
  BY <1>1, <1>2 DEF IInv, TypeOK, DataInv, Carries, Staging, Stands, At, Versions, InFlight
<1> QED BY <1>3, <1>4, <1>5, <1>6, <1>7, <1>8, <1>9, <1>10 DEF IInv

-----------------------------------------------------------------------------
(* The invariant, and the properties it yields.                             *)

LEMMA InitHolds == Init => IInv
<1> SUFFICES ASSUME Init PROVE IInv
  OBVIOUS
<1>1. /\ rec = NoRec /\ rec \in Records /\ rec.phase = 0 /\ rec.nonce = 0
      /\ proc.pc = "idle" /\ proc \in Procs /\ tokens = 0
  BY NoRecIs DEF Init, Idle, Procs, PCs, Stamp
<1>2. /\ dirs \in [Places -> Dirs]
      /\ \A p \in Places : dirs[p].id = 0
  <2>1. [NoDir EXCEPT !.there = TRUE] \in Dirs /\ [NoDir EXCEPT !.there = TRUE].id = 0
    BY DEF NoDir, Dirs, Stamp
  <2> QED BY <2>1, NoDirIs DEF Init
<1>3. box \in Boxes /\ box.st = desired /\ box.on = "volume"
  BY DEF Init, Boxes, Wants
<1>4. TypeOK
  BY <1>1, <1>2, <1>3 DEF Init, TypeOK, Versions, Places, Stamp
<1>5. StampInv /\ PhaseInv /\ StoppedInv /\ WriteInv
  BY <1>1, <1>2 DEF Init, StampInv, PhaseInv, StoppedInv, MustBeStopped, WriteInv,
     OwnWriteRecognised, InFlight, At
<1>6. BareInv
  BY <1>1, <1>3 DEF Init, BareInv, BareOnlyInReplacement, Stands, Wants
<1>7. MoveInv /\ DataInv
  BY <1>1, <1>3 DEF Init, MoveInv, DataInv, At, Stands
<1> QED BY <1>4, <1>5, <1>6, <1>7 DEF IInv

LEMMA StepsKeep == IInv /\ Steps => IInv'
BY Phase1Keeps, Phase2Keeps, StopWriterKeeps, StageKeeps, StageTakenKeeps, EstablishKeeps,
   RecordStageKeeps, CopyStartsKeeps, CopyEndsKeeps, VerifiedKeeps, Phase5Keeps, ResolveKeeps,
   ClearKeeps, RenameKeeps, Phase6Keeps, WriteBindKeeps, Phase7Keeps, PrepareKeeps,
   RemoveOldKeeps, TombstoneKeeps, CreateNewKeeps, DiscardKeeps, ConfirmNewKeeps, StartNewKeeps,
   InspectKeeps, RestoreDesiredKeeps, ClearIntentKeeps, SettleKeeps, RefusedKeeps DEF Steps

LEMMA OthersKeep == IInv /\ Others => IInv'
BY VerbStopKeeps, VerbStartKeeps, VerbRecreateKeeps, ProductWritesKeeps, ExitsKeeps,
   PlantKeeps, TakeKeeps, EditConfKeeps DEF Others

LEMMA StutterKeeps == IInv /\ UNCHANGED vars => IInv'
BY DEF vars, IInv, TypeOK, StampInv, PhaseInv, StoppedInv, MustBeStopped, BareInv,
   BareOnlyInReplacement, WriteInv, OwnWriteRecognised, MoveInv, DataInv, At, Stands, InFlight,
   Staging, Carries

\* The inductive invariant, and with it the types of all the variables.
THEOREM Invariance == Spec => []IInv
<1>1. IInv /\ [Next]_vars => IInv'
  BY StepsKeep, OthersKeep, BeginKeeps, DiesKeeps, StutterKeeps DEF Next
<1> QED BY <1>1, InitHolds, PTL DEF Spec

\* Where no recreate is run, the volume is never copied or verified while the
\* product runs, however often the migration dies and whatever the operator
\* does to the paths and to the key.
THEOREM NothingIsCopiedLive == ASSUME "recreate" \notin Verbs PROVE Spec => []NoLiveCopy
<1>1. IInv => NoLiveCopy
  BY DEF IInv, StoppedInv, MustBeStopped, NoLiveCopy
<1> QED BY <1>1, Invariance, PTL

\* And mythical.conf and the container name the destination only once the
\* whole, verified copy stands there.
THEOREM WhatIsNamedIsTheCopy == ASSUME "recreate" \notin Verbs PROVE Spec => []BindNamesTheCopy
<1>1. IInv => BindNamesTheCopy
  BY DEF IInv, MoveInv, DataInv, BindNamesTheCopy
<1> QED BY <1>1, Invariance, PTL

\* With every verb: the recorded identity is found again after any death.
THEOREM CopyIsAttributable == Spec => []Attributable
<1>1. IInv => Attributable
  BY DEF IInv, MoveInv, Attributable
<1> QED BY <1>1, Invariance, PTL

\* The migration knows its own write to mythical.conf again.
THEOREM OwnWriteIsRecognised == Spec => []OwnWriteRecognised
<1>1. IInv => OwnWriteRecognised
  BY DEF IInv, WriteInv
<1> QED BY <1>1, Invariance, PTL

\* A product is left without a container only where a retry puts one back.
THEOREM BareIsResumable == Spec => []BareOnlyInReplacement
<1>1. IInv => BareOnlyInReplacement
  BY DEF IInv, BareInv
<1> QED BY <1>1, Invariance, PTL

-----------------------------------------------------------------------------
(* No tree is lost.                                                         *)

\* A step after which there are no fewer trees.
NoneLost == Cardinality(Trees') >= Cardinality(Trees)

\* What cannot lose a tree: every place that has one keeps one.
LEMMA KeptInPlace ==
    ASSUME TypeOK', Trees \subseteq Trees'
    PROVE  NoneLost
<1>1. IsFiniteSet(Trees')
  <2>1. IsFiniteSet(Places)
    BY FS_Interval DEF Places
  <2> QED BY <2>1, FS_Subset DEF Trees
<1> QED BY <1>1, FS_Subset, FS_CardinalityType DEF NoneLost

\* The rename moves a tree over a place that has none.
LEMMA RenamedTree ==
    ASSUME IInv, Rename
    PROVE  NoneLost
<1>1. Staging \in Places /\ Dest \in Places /\ Staging # Dest
  BY StagingIsPlace, DestIsPlace DEF IInv, PhaseInv, At, Rename
<1>2. IsFiniteSet(Trees)
  <2>1. IsFiniteSet(Places)
    BY FS_Interval DEF Places
  <2> QED BY <2>1, FS_Subset DEF Trees
<1>3. dirs[Staging].there /\ Dest \notin Trees
  BY DEF Rename, Trees
<1>4. \A p \in Places : dirs'[p] = IF p = Staging THEN NoDir ELSE IF p = Dest THEN dirs[Staging]
                                   ELSE dirs[p]
  BY <1>1 DEF Rename, Renamed, IInv, TypeOK
<1>5. CASE Staging \in Trees
  <2>1. Trees' = (Trees \ {Staging}) \cup {Dest}
    BY <1>1, <1>3, <1>4, <1>5, NoDirIs DEF Trees
  <2>2. Cardinality(Trees \ {Staging}) = Cardinality(Trees) - 1 /\ IsFiniteSet(Trees \ {Staging})
    BY <1>2, <1>5, FS_RemoveElement
  <2>3. Cardinality(Trees') = Cardinality(Trees \ {Staging}) + 1
    BY <1>3, <2>1, <2>2, FS_AddElement
  <2> QED BY <1>2, <2>2, <2>3, FS_CardinalityType DEF NoneLost
<1>6. CASE Staging \notin Trees
  <2>1. Trees' = Trees
    BY <1>1, <1>3, <1>4, <1>6, NoDirIs DEF Trees
  <2> QED BY <1>2, <2>1, FS_CardinalityType DEF NoneLost
<1> QED BY <1>5, <1>6

\* Nothing the migration or another verb does removes a tree, wherever it dies
\* and whatever the operator did before.
THEOREM NoTreeIsLost == Spec => TreesKept
<1> DEFINE AsMany == hands' = hands => Cardinality(Trees') >= Cardinality(Trees)
<1>1. IInv /\ IInv' /\ [Next]_vars => [AsMany]_vars
  <2> SUFFICES ASSUME IInv, IInv', [Next]_vars, hands' = hands
               PROVE  NoneLost
    BY DEF NoneLost
  <2>1. TypeOK /\ TypeOK' /\ Staging \in Places /\ Dest \in Places
    BY StagingIsPlace, DestIsPlace DEF IInv
  <2>2. CASE UNCHANGED dirs
    BY <2>1, <2>2, KeptInPlace DEF Trees
  <2>3. CASE Rename
    BY <2>3, RenamedTree
  <2>4. CASE Stage \/ Establish \/ Clear
    <3>1. Trees \subseteq Trees'
      BY <2>1, <2>4 DEF Stage, Establish, Clear, Trees, TypeOK, Dirs
    <3> QED BY <2>1, <3>1, KeptInPlace
  <2>5. CASE CopyStarts \/ CopyEnds \/ ProductWrites
    <3>1. vol # Empty /\ Partial # Empty
      BY <2>1 DEF TypeOK, Versions, Empty, Partial
    <3>2. Trees \subseteq Trees'
      <4>1. CASE CopyStarts \/ CopyEnds
        BY <2>1, <3>1, <4>1 DEF CopyStarts, CopyEnds, Carries, Trees, TypeOK, Dirs
      <4>2. CASE ProductWrites
        <5>1. dirs[Dest].data \in 0 .. MaxWrites - 1 => dirs[Dest].data + 1 # Empty
          BY DEF Empty
        <5> QED BY <2>1, <4>2, <5>1 DEF ProductWrites, Trees, TypeOK, Dirs
      <4> QED BY <2>5, <4>1, <4>2
    <3> QED BY <2>1, <3>2, KeptInPlace
  <2>6. ASSUME NEW p \in Places, Plant(p) \/ Take(p) PROVE FALSE
    BY <2>1, <2>6 DEF Plant, Take, Hand, TypeOK
  <2>7. ASSUME NEW v \in {"unset", "other"}, EditConf(v) PROVE FALSE
    BY <2>1, <2>7 DEF EditConf, Hand, TypeOK
  <2>8. CASE Begin \/ Dies \/ UNCHANGED vars \/ VerbStop \/ VerbStart \/ VerbRecreate \/ Exits
    BY <2>2, <2>8 DEF Begin, Dies, vars, VerbStop, VerbStart, VerbRecreate, Exits
  <2>9. CASE Steps /\ ~(Stage \/ Establish \/ Clear \/ Rename \/ CopyStarts \/ CopyEnds)
    BY <2>2, <2>9 DEF Steps, Phase1, Phase2, StopWriter, StageTaken, RecordStage, Verified,
       Phase5, Resolve, Phase6, WriteBind, Phase7, Enter, Prepare, RemoveOld, Tombstone,
       CreateNew, Discard, ConfirmNew, StartNew, Inspect, RestoreDesired, ClearIntent, Settle,
       Refused
  <2> QED BY <2>3, <2>4, <2>5, <2>6, <2>7, <2>8, <2>9 DEF Next, Others
<1> QED BY <1>1, Invariance, PTL DEF Spec, TreesKept

-----------------------------------------------------------------------------
(* The migration implements the move of StorageMove.                        *)

\* The operator keeps their hand away, and no recreate is run.
Undisturbed == MaxHands = 0 /\ "recreate" \notin Verbs

\* A step that leaves the key, and the data of its holder, shows nothing.
LEMMA MoveStutters ==
    ASSUME conf' = conf, conf = "dest" => dirs'[Dest] = dirs[Dest], conf # "dest" => vol' = vol
    PROVE  UNCHANGED Kept!vars
BY DEF Kept!vars, Holder, Latest

\* The write of the bind key moves the data, at the version it has.
LEMMA WriteBindMoves ==
    ASSUME Undisturbed, IInv, WriteBind
    PROVE  Kept!Move \/ UNCHANGED Kept!vars
<1>1. hands = 0 /\ rec.phase = 6
  BY DEF Undisturbed, IInv, TypeOK, PhaseInv, WriteBind, At
<1>2. Carries(Dest, rec.stageid) /\ conf \in {"unset", "dest"}
  BY <1>1 DEF IInv, MoveInv
<1>3. conf = "unset" => dirs[Dest].data = vol
  BY <1>1, <1>2 DEF Undisturbed, IInv, DataInv
<1> QED BY <1>2, <1>3 DEF WriteBind, Kept!Move, Kept!vars, Holder, Latest

\* The product writes where the key says its data is.
LEMMA ProductWritesMoves ==
    ASSUME Undisturbed, IInv, ProductWrites
    PROVE  Kept!Write
<1>1. hands = 0 /\ TypeOK /\ Dest \in Places
  BY DestIsPlace DEF Undisturbed, IInv, TypeOK
<1>2. box.on = "bind" <=> conf = "dest"
  BY <1>1 DEF Undisturbed, ProductWrites, IInv, MoveInv, DataInv, Stands
<1>3. CASE box.on = "volume" /\ box.on # "bind"
  BY <1>2, <1>3 DEF ProductWrites, Kept!Write, Holder, Latest
<1>4. CASE box.on = "bind" /\ box.on # "volume"
  <2>1. conf = "dest" /\ conf' = "dest"
    BY <1>2, <1>4 DEF ProductWrites
  <2>2. dirs'[Dest].data = dirs[Dest].data + 1
    BY <1>1, <1>4 DEF ProductWrites, TypeOK, Dirs
  <2> QED BY <2>1, <2>2 DEF Kept!Write, Holder, Latest
<1> QED BY <1>3, <1>4 DEF ProductWrites

\* The steps on the paths touch the destination only before the key names it.
LEMMA PathsMove ==
    ASSUME Undisturbed, IInv,
           Stage \/ Establish \/ CopyStarts \/ CopyEnds \/ Clear \/ Rename
    PROVE  UNCHANGED Kept!vars
<1>1. /\ hands = 0 /\ TypeOK /\ Staging \in Places /\ Dest \in Places /\ Staging # Dest
      /\ UNCHANGED <<conf, vol>>
  BY StagingIsPlace, DestIsPlace DEF Undisturbed, IInv, TypeOK, PhaseInv, At, Stage, Establish,
     CopyStarts, CopyEnds, Clear, Rename, world
<1>2. CASE Clear \/ Rename
  <2>1. rec.phase = 5
    BY <1>2 DEF IInv, PhaseInv, At, Clear, Rename
  <2>2. conf # "dest"
    BY <1>1, <2>1 DEF IInv, MoveInv
  <2> QED BY <1>1, <2>2, MoveStutters
<1>3. CASE Stage \/ Establish \/ CopyStarts \/ CopyEnds
  <2>1. dirs'[Dest] = dirs[Dest]
    BY <1>1, <1>3 DEF Stage, Establish, CopyStarts, CopyEnds, TypeOK
  <2> QED BY <1>1, <2>1, MoveStutters
<1> QED BY <1>2, <1>3

\* migrate-storage implements the move of one role's data: one holder at a
\* time, handed over once, and no version lost.
THEOREM MigrationMovesOnce == ASSUME Undisturbed PROVE Spec => MovesOnce
<1>1. Init => Kept!Init
  BY DEF Init, Kept!Init, Holder, Latest
<1>2. IInv /\ [Next]_vars => [Kept!Next]_(Kept!vars)
  <2> SUFFICES ASSUME IInv, [Next]_vars PROVE Kept!Next \/ UNCHANGED Kept!vars
    OBVIOUS
  <2>1. CASE UNCHANGED <<dirs, conf, vol>>
    BY <2>1, MoveStutters
  <2>2. CASE WriteBind
    BY <2>2, WriteBindMoves DEF Kept!Next
  <2>3. CASE ProductWrites
    BY <2>3, ProductWritesMoves DEF Kept!Next
  <2>4. CASE Stage \/ Establish \/ CopyStarts \/ CopyEnds \/ Clear \/ Rename
    BY <2>4, PathsMove
  <2>5. ASSUME NEW p \in Places, Plant(p) \/ Take(p) PROVE FALSE
    BY <2>5 DEF Plant, Take, Hand, IInv, TypeOK, Undisturbed
  <2>6. ASSUME NEW v \in {"unset", "other"}, EditConf(v) PROVE FALSE
    BY <2>6 DEF EditConf, Hand, IInv, TypeOK, Undisturbed
  <2>7. CASE Begin \/ Dies \/ UNCHANGED vars \/ VerbStop \/ VerbStart \/ VerbRecreate \/ Exits
    BY <2>1, <2>7 DEF Begin, Dies, vars, world, VerbStop, VerbStart, VerbRecreate, Exits
  <2>8. CASE Steps /\ ~(Stage \/ Establish \/ Clear \/ Rename \/ CopyStarts \/ CopyEnds
                        \/ WriteBind)
    BY <2>1, <2>8 DEF Steps, Phase1, Phase2, StopWriter, StageTaken, RecordStage, Verified,
       Phase5, Resolve, Phase6, Phase7, Enter, Prepare, RemoveOld, Tombstone, CreateNew,
       Discard, ConfirmNew, StartNew, Inspect, RestoreDesired, ClearIntent, Settle, Refused, world
  <2> QED BY <2>2, <2>3, <2>4, <2>5, <2>6, <2>7, <2>8 DEF Next, Others
<1> QED BY <1>1, <1>2, Invariance, PTL DEF Spec, MovesOnce, Kept!Spec
================================================================================
