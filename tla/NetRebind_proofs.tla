--------------------------- MODULE NetRebind_proofs ---------------------------
(***************************************************************************)
(* Proofs about NetRebind, for every family, every set of networks and     *)
(* every bound on the faults and the acts of others.                       *)
(***************************************************************************)
EXTENDS NetRebind, TLAPS

USE NetsAssumption, VerbsAssumption, BoundsAssumption

-----------------------------------------------------------------------------
(* What the updates of a ledger do.                                         *)

\* Two ledgers that differ in the trust floor at most.
Alike(l, m) ==
    /\ l.phase = m.phase /\ l.source = m.source /\ l.target = m.target /\ l.fleet = m.fleet
    /\ l.ref = m.ref /\ l.proven = m.proven /\ l.desired = m.desired /\ l.owed = m.owed

LEMMA BlankTyped ==
    /\ Nets # {} => Blank \in Ledgers
    /\ Blank.phase = 0 /\ Blank.source = NoNet /\ Blank.target = NoNet /\ Blank.fleet = {}
    /\ \A c \in Containers : Blank.owed[c] = {}
BY DEF Blank, Ledgers, Wants, Indexes

LEMMA FloorIs ==
    ASSUME NEW l \in Ledgers, NEW f \in Indexes
    PROVE  [l EXCEPT !.floor = f] \in Ledgers /\ Alike([l EXCEPT !.floor = f], l)
BY DEF Ledgers, Alike

LEMMA PhaseIs ==
    ASSUME NEW l \in Ledgers, NEW p \in 0 .. 5
    PROVE  LET m == [l EXCEPT !.phase = p] IN
           /\ m \in Ledgers /\ m.phase = p /\ SamePair(m, l)
           /\ m.ref = l.ref /\ m.proven = l.proven /\ m.owed = l.owed
BY DEF Ledgers, SamePair

LEMMA RefIs ==
    ASSUME NEW l \in Ledgers, NEW n \in Nets
    PROVE  LET m == [l EXCEPT !.ref = n] IN
           /\ m \in Ledgers /\ m.ref = n /\ m.phase = l.phase /\ SamePair(m, l)
           /\ m.proven = l.proven /\ m.owed = l.owed
BY DEF Ledgers, SamePair

LEMMA CommittedIs ==
    ASSUME NEW l \in Ledgers, NEW n \in Nets
    PROVE  LET m == [Cleared(l) EXCEPT !.ref = n] IN
           /\ m \in Ledgers /\ m.ref = n /\ m.phase = 0
           /\ m.source = NoNet /\ m.target = NoNet /\ m.fleet = {}
           /\ m.proven = l.proven /\ m.owed = l.owed
<1> DEFINE k == Cleared(l)
<1>1. /\ k \in Ledgers /\ k.phase = 0 /\ k.source = NoNet /\ k.target = NoNet
      /\ k.fleet = {} /\ k.proven = l.proven /\ k.owed = l.owed
  <2>1. k \in Ledgers
    <3>1. ASSUME NEW p \in 0 .. 5, NEW s \in Nets \cup {NoNet}, NEW F \in SUBSET Containers
          PROVE  [l EXCEPT !.phase = p, !.source = s, !.target = s, !.fleet = F] \in Ledgers
      BY DEF Ledgers
    <3>2. 0 \in 0 .. 5 /\ NoNet \in Nets \cup {NoNet} /\ {} \in SUBSET Containers
      OBVIOUS
    <3> QED BY <3>1, <3>2, Zenon DEF Cleared
  <2>2. /\ k.phase = 0 /\ k.source = NoNet /\ k.target = NoNet
        /\ k.fleet = {} /\ k.proven = l.proven /\ k.owed = l.owed
    BY DEF Cleared, Ledgers
  <2> QED BY <2>1, <2>2
<1> DEFINE m == [k EXCEPT !.ref = n]
<1>2. m = [Cleared(l) EXCEPT !.ref = n]
  OBVIOUS
<1> HIDE DEF k
<1>3. /\ m \in Ledgers /\ m.ref = n /\ m.phase = k.phase /\ SamePair(m, k)
      /\ m.proven = k.proven /\ m.owed = k.owed
  BY <1>1, RefIs
<1> HIDE DEF m
<1> QED BY <1>1, <1>2, <1>3 DEF SamePair

LEMMA VerifiedIs ==
    ASSUME NEW l \in Ledgers, NEW c \in Containers, NEW w \in Wants, NEW P \in SUBSET Containers,
           NEW S \in SUBSET Nets
    PROVE  LET m == [l EXCEPT !.proven = P, !.desired[c] = w, !.owed[c] = S] IN
           /\ m \in Ledgers /\ m.phase = l.phase /\ SamePair(m, l)
           /\ m.ref = l.ref /\ m.proven = P
           /\ \A d \in Containers : m.owed[d] = IF d = c THEN S ELSE l.owed[d]
BY DEF Ledgers, SamePair

LEMMA DesiredIs ==
    ASSUME NEW l \in Ledgers, NEW c \in Containers, NEW w \in Wants
    PROVE  LET m == [l EXCEPT !.desired[c] = w] IN
           /\ m \in Ledgers /\ m.phase = l.phase /\ SamePair(m, l)
           /\ m.ref = l.ref /\ m.proven = l.proven /\ m.owed = l.owed
BY DEF Ledgers, SamePair

-----------------------------------------------------------------------------
(* What a step that reads and writes the ledgers leaves of the invariant.   *)

LEMMA GotoIs ==
    ASSUME NEW pc \in PCs, NEW T \in SUBSET Containers, Goto(pc, T)
    PROVE  proc' \in Procs /\ proc'.pc = pc /\ proc'.todo = T
BY DEF Goto, Procs

LEMMA IndexIs == TypeOK => index \in Indexes
BY DEF TypeOK, Indexes

LEMMA ProbedIs ==
    ASSUME TypeOK, Probed
    PROVE  disk' \in Ledgers /\ mem' = disk' /\ Alike(disk', disk)
BY FloorIs, IndexIs DEF Probed, TypeOK

LEMMA FaultIs ==
    ASSUME TypeOK, faults < MaxFaults, faults' = faults + 1
    PROVE  faults' \in 0 .. MaxFaults
BY DEF TypeOK

\* A session that ends leaves no copy.
LEMMA EndsIs ==
    ASSUME TypeOK, Ends
    PROVE  /\ proc' \in Procs /\ proc'.pc = "idle" /\ mem' \in Ledgers /\ stage' \in Ledgers
           /\ mem'.phase = 0 /\ mem'.owed = Blank.owed
           /\ mem'.source = NoNet /\ mem'.target = NoNet /\ mem'.fleet = {}
           /\ \A c \in Containers : mem'.owed[c] = {}
<1>1. Nets # {}
  BY DEF TypeOK
<1> QED BY <1>1, BlankTyped DEF Ends, Idle, Procs, PCs

-----------------------------------------------------------------------------
(* The steps of a session.                                                  *)

LEMMA BeginEmptyKeeps == IInv /\ BeginEmpty => IInv'
<1> SUFFICES ASSUME IInv, BeginEmpty PROVE IInv'
  OBVIOUS
<1>1. /\ UNCHANGED <<disk, stage, box, gone, conf, index, seen, faults, hands>>
      /\ disk.phase = 0 /\ conf \notin gone /\ Fleet = {}
  BY DEF BeginEmpty, outside, InFlight
<1>2. proc' \in Procs /\ proc'.pc = "save" /\ proc'.todo = {}
  BY GotoIs DEF BeginEmpty, PCs
<1>3. /\ mem' \in Ledgers /\ mem'.ref = conf /\ mem'.phase = disk.phase /\ SamePair(mem', disk)
      /\ mem'.proven = disk.proven /\ mem'.owed = disk.owed
  BY RefIs DEF BeginEmpty, IInv, TypeOK
<1>4. TypeOK'
  BY <1>1, <1>2, <1>3 DEF IInv, TypeOK
<1>5. SessionInv'
  BY <1>1, <1>2, <1>3 DEF SessionInv, At
<1>6. MoveInv(disk)' /\ MoveInv(mem)'
  BY <1>1, <1>3 DEF IInv, MoveInv, Fleet, Stands, SamePair
<1>7. ProvenInv'
  BY <1>1, <1>2, <1>3 DEF IInv, ProvenInv, ProvenOn, At
<1>8. SteadyInv'
  BY <1>1, <1>2, <1>3 DEF IInv, SteadyInv, OwedInv, DeferInv, Stands, Fleet, At
<1>9. HomeInv'
  BY <1>1, <1>2, <1>3 DEF IInv, HomeInv, HomeAt, Stands, Fleet, At
<1> QED BY <1>4, <1>5, <1>6, <1>7, <1>8, <1>9 DEF IInv

LEMMA BeginFreshKeeps == IInv /\ BeginFresh => IInv'
<1> SUFFICES ASSUME IInv, BeginFresh PROVE IInv'
  OBVIOUS
<1>1. /\ UNCHANGED <<disk, stage, box, gone, conf, index, seen, faults, hands>>
      /\ disk.phase = 0 /\ conf # disk.ref
  BY DEF BeginFresh, outside, InFlight
<1>2. proc' \in Procs /\ proc'.pc = "mark2" /\ proc'.todo = {}
  BY GotoIs DEF BeginFresh, PCs
<1>3. /\ mem' \in Ledgers /\ mem'.phase = 1 /\ mem'.source = disk.ref /\ mem'.target = conf
      /\ mem'.fleet = Fleet /\ mem'.ref = disk.ref
      /\ mem'.proven = disk.proven /\ mem'.owed = disk.owed
  <2>1. /\ disk \in Ledgers /\ disk.ref \in Nets /\ conf \in Nets
        /\ Fleet \in SUBSET Containers /\ 1 \in 0 .. 5
    BY DEF IInv, TypeOK, Ledgers, Fleet
  <2>2. PICK p \in 0 .. 5, s \in Nets, t \in Nets, F \in SUBSET Containers :
          /\ p = 1 /\ s = disk.ref /\ t = conf /\ F = Fleet
          /\ mem' = [disk EXCEPT !.phase = p, !.source = s, !.target = t, !.fleet = F]
    BY <2>1 DEF BeginFresh
  <2>3. mem' \in Ledgers
    BY <2>1, <2>2 DEF Ledgers
  <2>4. /\ mem'.phase = p /\ mem'.source = s /\ mem'.target = t /\ mem'.fleet = F
        /\ mem'.ref = disk.ref /\ mem'.proven = disk.proven /\ mem'.owed = disk.owed
    BY <2>1, <2>2 DEF Ledgers
  <2> QED BY <2>2, <2>3, <2>4
<1>4. TypeOK'
  BY <1>1, <1>2, <1>3 DEF IInv, TypeOK
<1>5. SessionInv'
  BY <1>1, <1>2, <1>3 DEF SessionInv, At
<1>6. MoveInv(disk)' /\ MoveInv(mem)'
  BY <1>1, <1>3 DEF IInv, TypeOK, Ledgers, MoveInv, Fleet, Stands
<1>7. ProvenInv'
  BY <1>1, <1>2, <1>3 DEF IInv, ProvenInv, ProvenOn, At
<1>8. SteadyInv'
  BY <1>1, <1>2, <1>3 DEF IInv, SteadyInv, OwedInv, DeferInv, Stands, At
<1>9. HomeInv'
  BY <1>1, <1>2, <1>3 DEF IInv, HomeInv, HomeAt, Stands, Fleet, At
<1> QED BY <1>4, <1>5, <1>6, <1>7, <1>8, <1>9 DEF IInv

LEMMA BeginResumedKeeps == IInv /\ BeginResumed => IInv'
<1> SUFFICES ASSUME IInv, BeginResumed PROVE IInv'
  OBVIOUS
<1>1. /\ UNCHANGED <<disk, stage, box, gone, conf, index, seen, faults, hands>>
      /\ disk.phase # 0 /\ mem' = disk
  BY DEF BeginResumed, outside, InFlight
<1>2. disk \in Ledgers /\ disk.phase \in 1 .. 5 /\ disk.fleet \in SUBSET Containers
  BY <1>1 DEF IInv, TypeOK, Ledgers
<1>3. /\ proc' \in Procs /\ proc'.todo = disk.fleet
      /\ disk.phase \in {1, 2} => proc'.pc = "mark2"
      /\ disk.phase = 3 => proc'.pc = "clone3"
      /\ disk.phase = 4 => proc'.pc = "mark4"
      /\ disk.phase = 5 => proc'.pc = "check5"
  BY <1>2 DEF BeginResumed, Goto, Entries, Procs, PCs
<1>4. TypeOK'
  BY <1>1, <1>2, <1>3 DEF IInv, TypeOK
<1>5. SessionInv'
  BY <1>1, <1>2, <1>3 DEF SessionInv, At, SamePair
<1>6. MoveInv(disk)' /\ MoveInv(mem)'
  BY <1>1 DEF IInv, MoveInv, Fleet, Stands
<1>7. ProvenInv'
  BY <1>1, <1>2, <1>3 DEF IInv, ProvenInv, ProvenOn, At
<1>8. SteadyInv'
  BY <1>1, <1>2, <1>3 DEF IInv, SteadyInv, OwedInv, DeferInv, Stands, At
<1>9. HomeInv'
  BY <1>1, <1>2, <1>3 DEF IInv, HomeInv, HomeAt, Stands, Fleet, At
<1> QED BY <1>4, <1>5, <1>6, <1>7, <1>8, <1>9 DEF IInv

\* A session that refuses, or that a failed call stops, keeps what it knows.
LEMMA RefuseKeeps ==
    ASSUME IInv, ~At("idle"), ~At("save"), Refuse, faults' \in 0 .. MaxFaults,
           UNCHANGED <<disk, mem, stage, box, seen, gone, conf, index, hands>>
    PROVE  IInv'
<1>1. proc' \in Procs /\ proc'.pc = "save" /\ proc'.todo = {}
  BY GotoIs DEF Refuse, PCs
<1>2. TypeOK'
  BY <1>1 DEF IInv, TypeOK
<1>3. SessionInv'
  BY <1>1 DEF IInv, TypeOK, Procs, PCs, SessionInv, At
<1>4. MoveInv(disk)' /\ MoveInv(mem)' /\ ProvenInv'
  BY <1>1 DEF IInv, MoveInv, Fleet, Stands, ProvenInv, ProvenOn, At
<1>5. SteadyInv' /\ HomeInv'
  BY <1>1 DEF IInv, SteadyInv, OwedInv, DeferInv, HomeInv, HomeAt, Fleet, Stands, At
<1> QED BY <1>2, <1>3, <1>4, <1>5 DEF IInv

LEMMA Mark2Keeps == IInv /\ Mark2 => IInv'
<1> SUFFICES ASSUME IInv, Mark2 PROVE IInv'
  OBVIOUS
<1>1. /\ UNCHANGED <<stage, box, gone, conf, index, seen, faults, hands>>
      /\ mem.phase \in {1, 2} /\ At("mark2")
  BY DEF Mark2, Mark, outside, IInv, SessionInv
<1>2. proc' \in Procs /\ proc'.pc = "connect" /\ proc'.todo = mem.fleet
  BY GotoIs DEF Mark2, Mark, PCs, IInv, TypeOK, Ledgers
<1>3. /\ mem' \in Ledgers /\ mem'.phase = 2 /\ SamePair(mem', mem)
      /\ mem'.ref = mem.ref /\ mem'.proven = mem.proven /\ mem'.owed = mem.owed
      /\ disk' = mem'
  <2>1. mem \in Ledgers /\ mem' = [mem EXCEPT !.phase = 2] /\ disk' = mem'
    BY DEF Mark2, Mark, IInv, TypeOK
  <2> QED BY <2>1 DEF Ledgers, SamePair
<1>4. TypeOK'
  BY <1>1, <1>2, <1>3 DEF IInv, TypeOK
<1>5. SessionInv'
  BY <1>1, <1>2, <1>3 DEF SessionInv, At
<1>6. MoveInv(disk)' /\ MoveInv(mem)'
  BY <1>1, <1>3 DEF IInv, MoveInv, SamePair, Fleet, Stands
<1>7. ProvenInv'
  BY <1>1, <1>2, <1>3 DEF IInv, ProvenInv, ProvenOn, At
<1>8. SteadyInv'
  BY <1>1, <1>2, <1>3 DEF IInv, SteadyInv, OwedInv, DeferInv, SamePair, Stands, At
<1>9. HomeInv'
  BY <1>1, <1>2, <1>3 DEF IInv, HomeInv, HomeAt, SamePair, Stands, Fleet, At
<1> QED BY <1>4, <1>5, <1>6, <1>7, <1>8, <1>9 DEF IInv

LEMMA Mark4Keeps == IInv /\ Mark4 => IInv'
<1> SUFFICES ASSUME IInv, Mark4 PROVE IInv'
  OBVIOUS
<1>1. /\ UNCHANGED <<stage, box, gone, conf, index, seen, faults, hands>>
      /\ mem.phase \in {3, 4} /\ At("mark4")
  BY DEF Mark4, Mark, outside, IInv, SessionInv
<1>2. proc' \in Procs /\ proc'.pc = "detach" /\ proc'.todo = mem.fleet
  BY GotoIs DEF Mark4, Mark, PCs, IInv, TypeOK, Ledgers
<1>3. /\ mem' \in Ledgers /\ mem'.phase = 4 /\ SamePair(mem', mem)
      /\ mem'.ref = mem.ref /\ mem'.proven = mem.proven /\ mem'.owed = mem.owed
      /\ disk' = mem'
  <2>1. mem \in Ledgers /\ mem' = [mem EXCEPT !.phase = 4] /\ disk' = mem'
    BY DEF Mark4, Mark, IInv, TypeOK
  <2> QED BY <2>1 DEF Ledgers, SamePair
<1>4. TypeOK'
  BY <1>1, <1>2, <1>3 DEF IInv, TypeOK
<1>5. SessionInv'
  BY <1>1, <1>2, <1>3 DEF SessionInv, At
<1>6. MoveInv(disk)' /\ MoveInv(mem)'
  BY <1>1, <1>3 DEF IInv, MoveInv, SamePair, Fleet, Stands
<1>7. ProvenInv'
  BY <1>1, <1>2, <1>3 DEF IInv, ProvenInv, ProvenOn, SamePair, At
<1>8. SteadyInv'
  BY <1>1, <1>2, <1>3 DEF IInv, SteadyInv, OwedInv, DeferInv, SamePair, Stands, At
<1>9. HomeInv'
  BY <1>1, <1>2, <1>3 DEF IInv, HomeInv, HomeAt, SamePair, Stands, Fleet, At
<1> QED BY <1>4, <1>5, <1>6, <1>7, <1>8, <1>9 DEF IInv

LEMMA ConnectKeeps == ASSUME IInv, NEW c \in Containers, Connect(c) PROVE IInv'
<1>1. CASE ~(Recorded(c) /\ Stands(c) /\ Target \notin gone)
  BY <1>1, RefuseKeeps DEF Connect, At, ledgers, outside, IInv, TypeOK
<1>2. CASE Recorded(c) /\ Stands(c) /\ Target \notin gone
  <2>1. /\ UNCHANGED <<disk, mem, stage, gone, conf, index, seen, faults, hands>>
        /\ At("connect") /\ mem = disk /\ disk.phase \in {2, 3}
        /\ box' = [box EXCEPT ![c].on = @ \cup {disk.target}]
    BY <1>2 DEF Connect, ledgers, outside, At, IInv, SessionInv, Target
  <2>2. proc' \in Procs /\ proc'.pc = "connect"
    BY <1>2 DEF Connect, Goto, IInv, TypeOK, Procs, At
  <2>3. /\ box' \in [Containers -> Boxes]
        /\ \A d \in Containers : box'[d].st = box[d].st
        /\ \A d \in Containers : box'[d].on = IF d = c THEN box[c].on \cup {disk.target} ELSE box[d].on
    <3>1. disk.target \in Nets
      BY <2>1 DEF IInv, MoveInv
    <3> QED BY <2>1, <3>1 DEF IInv, TypeOK, Boxes
  <2>4. TypeOK'
    BY <2>1, <2>2, <2>3 DEF IInv, TypeOK
  <2>5. SessionInv'
    BY <2>1, <2>2 DEF IInv, SessionInv, At
  <2>6. MoveInv(disk)' /\ MoveInv(mem)' /\ ProvenInv'
    BY <2>1, <2>2, <2>3 DEF IInv, MoveInv, Fleet, Stands, ProvenInv, ProvenOn, At
  <2>7. SteadyInv'
    BY <2>1, <2>2, <2>3 DEF IInv, SteadyInv, OwedInv, DeferInv, Stands, At
  <2>8. HomeInv'
    BY <2>1, <2>2, <2>3 DEF IInv, HomeInv, HomeAt, Stands, Fleet, At
  <2> QED BY <2>4, <2>5, <2>6, <2>7, <2>8 DEF IInv
<1> QED BY <1>1, <1>2

LEMMA ConnectedKeeps == IInv /\ Connected => IInv'
<1> SUFFICES ASSUME IInv, Connected PROVE IInv'
  OBVIOUS
<1>1. /\ UNCHANGED <<disk, mem, stage, box, gone, conf, index, seen, faults, hands>>
      /\ At("connect")
  BY DEF Connected, ledgers, outside
<1>2. proc' \in Procs /\ proc'.pc = "clone3" /\ proc'.todo = {}
  BY GotoIs DEF Connected, PCs
<1>3. TypeOK' /\ SessionInv'
  BY <1>1, <1>2 DEF IInv, TypeOK, SessionInv, At
<1>4. MoveInv(disk)' /\ MoveInv(mem)' /\ ProvenInv'
  BY <1>1, <1>2 DEF IInv, MoveInv, Fleet, Stands, ProvenInv, ProvenOn, At
<1>5. SteadyInv' /\ HomeInv'
  BY <1>1, <1>2 DEF IInv, SteadyInv, OwedInv, DeferInv, HomeInv, HomeAt, Fleet, Stands, At
<1> QED BY <1>3, <1>4, <1>5 DEF IInv

LEMMA CloneKeeps == IInv /\ Clone => IInv'
<1> SUFFICES ASSUME IInv, Clone PROVE IInv'
  OBVIOUS
<1>1. /\ UNCHANGED <<box, gone, conf, index, seen, faults, hands>>
      /\ At("clone3") /\ mem = disk /\ disk.phase \in {2, 3} /\ stage' = disk
  BY DEF Clone, outside, IInv, SessionInv, At
<1>2. disk' \in Ledgers /\ mem' = disk' /\ Alike(disk', disk)
  BY ProbedIs DEF Clone, IInv
<1>3. /\ proc' \in Procs
      /\ proc'.pc = "save" \/ (proc'.pc = "check3" /\ proc'.todo = disk.fleet)
  <2>1. disk.fleet \in SUBSET Containers
    BY DEF IInv, TypeOK, Ledgers
  <2> QED BY <1>1, <2>1, GotoIs DEF Clone, Refuse, PCs
<1>4. TypeOK'
  BY <1>1, <1>2, <1>3 DEF IInv, TypeOK
<1>5. SessionInv'
  BY <1>1, <1>2, <1>3 DEF Alike, SessionInv, SamePair, At
<1>6. MoveInv(disk)' /\ MoveInv(mem)'
  BY <1>1, <1>2 DEF IInv, MoveInv, Alike, Fleet, Stands
<1>7. ProvenInv'
  BY <1>1, <1>2, <1>3 DEF IInv, ProvenInv, ProvenOn, Alike, At
<1>8. SteadyInv'
  BY <1>1, <1>2, <1>3 DEF IInv, SteadyInv, OwedInv, DeferInv, Alike, Stands, At
<1>9. HomeInv'
  BY <1>1, <1>2, <1>3 DEF IInv, MoveInv, HomeInv, HomeAt, Alike, Stands, Fleet, At
<1> QED BY <1>4, <1>5, <1>6, <1>7, <1>8, <1>9 DEF IInv

\* A container that phase 3 accepts: proven on the target, or owing it there.
LEMMA Check3Keeps == ASSUME IInv, NEW c \in Containers, Check3(c) PROVE IInv'
<1>1. /\ UNCHANGED <<box, gone, conf, index, faults, hands>>
      /\ At("check3") /\ c \in proc.todo /\ mem = disk /\ disk.phase \in {2, 3}
      /\ SamePair(stage, disk) /\ stage.ref = disk.ref /\ stage.proven = disk.proven
      /\ disk \in Ledgers /\ stage \in Ledgers /\ disk.target \in Nets
      /\ disk.source # disk.target
  BY DEF Check3, outside, IInv, TypeOK, SessionInv, MoveInv, At
<1>2. CASE ~Verify3(c)
  BY <1>1, <1>2, RefuseKeeps DEF Check3, At, IInv, TypeOK
<1>3. ASSUME Verify3(c) PROVE Stands(c) /\ disk.source \notin stage.owed[c] /\ disk.target \in box[c].on
  BY <1>1, <1>3 DEF Verify3, Source, Target, Both
<1>4. ASSUME Verify3(c)
      PROVE  proc' \in Procs /\ proc'.pc = "check3" /\ proc'.todo = proc.todo \ {c}
  <2>1. proc.todo \ {c} \in SUBSET Containers
    BY DEF IInv, TypeOK, Procs
  <2> QED BY <1>4, <2>1, GotoIs DEF Check3, PCs
<1>5. CASE Verify3(c) /\ box[c].st = "running"
  <2>1. disk' \in Ledgers /\ mem' = disk' /\ Alike(disk', disk)
    BY <1>5, ProbedIs DEF Check3, IInv
  <2>2. stage' = stage
    BY <1>5 DEF Check3, Deferred
  <2>3. /\ seen' \in [Containers -> SUBSET Nets]
        /\ \A d \in Containers : seen'[d] = IF d = c THEN seen[c] \cup {disk.target} ELSE seen[d]
    BY <1>1, <1>5 DEF Check3, Target, IInv, TypeOK
  <2>4. TypeOK'
    BY <1>1, <1>4, <1>5, <2>1, <2>2, <2>3 DEF IInv, TypeOK
  <2>5. SessionInv'
    BY <1>1, <1>4, <1>5, <2>1, <2>2 DEF SessionInv, SamePair, Alike, At
  <2>6. MoveInv(disk)' /\ MoveInv(mem)'
    BY <1>1, <2>1 DEF IInv, MoveInv, Alike, Fleet, Stands
  <2>7. ProvenInv'
    <3>1. \A d \in stage'.fleet \ proc'.todo : ProvenOn(stage, d)'
      BY <1>1, <1>4, <1>5, <2>2, <2>3 DEF IInv, TypeOK, Ledgers, ProvenInv, ProvenOn, SamePair, At
    <3> QED BY <1>1, <1>4, <1>5, <2>1, <3>1 DEF ProvenInv, Alike, At
  <2>8. SteadyInv'
    <3>1. ASSUME ~MidEdits PROVE OwedInv(disk)' /\ OwedInv(mem)'
      BY <1>1, <2>1, <3>1 DEF IInv, SteadyInv, OwedInv, Alike, Stands
    <3>2. ASSUME ~MidEdits PROVE DeferInv'
      BY <1>1, <1>3, <1>4, <1>5, <2>1, <2>2, <3>2 DEF IInv, SteadyInv, DeferInv, Alike, Stands, At
    <3> QED BY <3>1, <3>2 DEF SteadyInv
  <2>9. HomeInv'
    BY <1>1, <1>3, <1>4, <1>5, <2>1 DEF IInv, HomeInv, HomeAt, Alike, Stands, Fleet, At
  <2> QED BY <2>4, <2>5, <2>6, <2>7, <2>8, <2>9 DEF IInv
<1>6. CASE Verify3(c) /\ box[c].st # "running"
  <2>1. UNCHANGED <<disk, mem, seen>>
    BY <1>6 DEF Check3
  <2>2. /\ stage' \in Ledgers /\ stage'.phase = stage.phase /\ SamePair(stage', stage)
        /\ stage'.ref = stage.ref /\ stage'.proven = stage.proven
        /\ \A d \in Containers :
              stage'.owed[d] = IF d = c THEN stage.owed[c] \cup {disk.target} ELSE stage.owed[d]
    <3>1. stage' = [stage EXCEPT !.owed[c] = @ \cup {disk.target}]
      BY <1>1, <1>6 DEF Check3, Deferred, Target
    <3> QED BY <1>1, <3>1 DEF Ledgers, SamePair
  <2>4. TypeOK'
    BY <1>1, <1>4, <1>6, <2>1, <2>2 DEF IInv, TypeOK
  <2>5. SessionInv'
    BY <1>1, <1>4, <1>6, <2>1, <2>2 DEF SessionInv, SamePair, At
  <2>6. MoveInv(disk)' /\ MoveInv(mem)'
    BY <1>1, <2>1 DEF IInv, MoveInv, Fleet, Stands
  <2>7. ProvenInv'
    <3>1. \A d \in stage'.fleet \ proc'.todo : ProvenOn(stage, d)'
      BY <1>1, <1>4, <1>6, <2>1, <2>2 DEF IInv, Ledgers, ProvenInv, ProvenOn, SamePair, At
    <3> QED BY <1>1, <1>4, <1>6, <2>1, <3>1 DEF ProvenInv, At
  <2>8. SteadyInv'
    <3>1. ASSUME ~MidEdits PROVE OwedInv(disk)' /\ OwedInv(mem)'
      BY <1>1, <2>1, <3>1 DEF IInv, SteadyInv, OwedInv, Stands
    <3>2. ASSUME ~MidEdits PROVE DeferInv'
      <4>1. DeferInv /\ \A d \in Containers : Stands(d)' = Stands(d)
        BY <1>1, <3>2 DEF IInv, SteadyInv, Stands
      <4>2. \A d \in Containers : stage'.owed[d] \subseteq {disk.source, disk.target}
        BY <1>1, <2>2, <4>1 DEF DeferInv
      <4>3. \A d \in Containers : ~Stands(d) => stage'.owed[d] = {}
        BY <1>1, <1>3, <1>6, <2>2, <4>1 DEF DeferInv
      <4>4. \A d \in disk.fleet \ proc'.todo : disk.source \notin stage'.owed[d]
        BY <1>1, <1>3, <1>4, <1>6, <2>2, <4>1 DEF DeferInv, Ledgers
      <4> QED BY <2>1, <4>1, <4>2, <4>3, <4>4 DEF DeferInv
    <3> QED BY <3>1, <3>2 DEF SteadyInv
  <2>9. HomeInv'
    BY <1>1, <1>3, <1>4, <1>6, <2>1 DEF IInv, HomeInv, HomeAt, Stands, Fleet, At
  <2> QED BY <2>4, <2>5, <2>6, <2>7, <2>8, <2>9 DEF IInv
<1> QED BY <1>2, <1>5, <1>6

\* The clone, with all that phase 3 deferred, becomes the session's copy.
LEMMA Checked3Keeps == IInv /\ Checked3 => IInv'
<1> SUFFICES ASSUME IInv, Checked3 PROVE IInv'
  OBVIOUS
<1>1. /\ UNCHANGED <<stage, box, gone, conf, index, seen, faults, hands>>
      /\ At("check3") /\ proc.todo = {} /\ mem = disk /\ disk.phase \in {2, 3}
      /\ SamePair(stage, disk) /\ stage.ref = disk.ref /\ stage.proven = disk.proven
  BY DEF Checked3, outside, IInv, SessionInv, At
<1>2. proc' \in Procs /\ proc'.pc = "mark4" /\ proc'.todo = {}
  BY GotoIs DEF Checked3, PCs
<1>3. /\ disk' \in Ledgers /\ Alike(disk', disk)
      /\ mem' \in Ledgers /\ mem'.phase = 3 /\ SamePair(mem', stage)
      /\ mem'.ref = stage.ref /\ mem'.proven = stage.proven /\ mem'.owed = stage.owed
  <2>1. disk' \in Ledgers /\ Alike(disk', disk)
    BY FloorIs, IndexIs DEF Checked3, IInv, TypeOK, Alike
  <2>2. stage \in Ledgers /\ mem' = [stage EXCEPT !.phase = 3]
    BY DEF Checked3, IInv, TypeOK
  <2> QED BY <2>1, <2>2 DEF Ledgers, SamePair
<1>4. TypeOK'
  BY <1>1, <1>2, <1>3 DEF IInv, TypeOK
<1>5. SessionInv'
  BY <1>1, <1>2, <1>3 DEF SessionInv, SamePair, Alike, At
<1>6. MoveInv(disk)' /\ MoveInv(mem)'
  BY <1>1, <1>3 DEF IInv, MoveInv, SamePair, Alike, Fleet, Stands
<1>7. ProvenInv'
  BY <1>1, <1>2, <1>3 DEF IInv, ProvenInv, ProvenOn, SamePair, Alike, At
<1>8. SteadyInv'
  <2>1. ASSUME ~MidEdits PROVE OwedInv(disk)'
    BY <1>1, <1>3, <2>1 DEF IInv, SteadyInv, OwedInv, Alike, Stands
  <2>2. ASSUME ~MidEdits PROVE OwedInv(mem)'
    <3>1. \A c \in Containers : disk.source \notin stage.owed[c]
      BY <1>1, <2>2 DEF IInv, SteadyInv, DeferInv, MoveInv, Fleet
    <3> QED BY <1>1, <1>3, <2>2, <3>1 DEF IInv, SteadyInv, OwedInv, DeferInv, SamePair, Stands
  <2> QED BY <1>2, <2>1, <2>2 DEF SteadyInv, DeferInv, At
<1>9. HomeInv'
  BY <1>1, <1>2, <1>3 DEF IInv, HomeInv, HomeAt, SamePair, Alike, Stands, Fleet, At
<1> QED BY <1>4, <1>5, <1>6, <1>7, <1>8, <1>9 DEF IInv

\* A container leaves the source only once it is seen on the target.
LEMMA DetachKeeps == ASSUME IInv, NEW c \in Containers, Detach(c) PROVE IInv'
<1>1. CASE ~(Stands(c) /\ OnTarget(c))
  BY <1>1, RefuseKeeps DEF Detach, At, ledgers, outside, IInv, TypeOK
<1>2. CASE Stands(c) /\ OnTarget(c)
  <2>1. /\ UNCHANGED <<disk, mem, stage, gone, conf, index, seen, faults, hands>>
        /\ At("detach") /\ mem = disk /\ disk.phase \in {4, 5}
        /\ disk.target \in box[c].on /\ disk.source # disk.target
        /\ box' = [box EXCEPT ![c].on = @ \ {disk.source}]
    BY <1>2 DEF Detach, ledgers, outside, At, IInv, SessionInv, MoveInv, OnTarget, Target, Source
  <2>2. proc' \in Procs /\ proc'.pc = "detach"
    BY <1>2 DEF Detach, Goto, IInv, TypeOK, Procs, At
  <2>3. /\ box' \in [Containers -> Boxes]
        /\ \A d \in Containers : box'[d].st = box[d].st
        /\ \A d \in Containers : box'[d].on = IF d = c THEN box[c].on \ {disk.source} ELSE box[d].on
    BY <2>1 DEF IInv, TypeOK, Boxes
  <2>4. TypeOK'
    BY <2>1, <2>2, <2>3 DEF IInv, TypeOK
  <2>5. SessionInv'
    BY <2>1, <2>2 DEF IInv, SessionInv, At
  <2>6. MoveInv(disk)' /\ MoveInv(mem)' /\ ProvenInv'
    BY <2>1, <2>2, <2>3 DEF IInv, MoveInv, Fleet, Stands, ProvenInv, ProvenOn, At
  <2>7. SteadyInv'
    BY <2>1, <2>2, <2>3 DEF IInv, SteadyInv, OwedInv, DeferInv, Stands, At
  <2>8. HomeInv'
    BY <2>1, <2>2, <2>3 DEF IInv, HomeInv, HomeAt, Stands, Fleet, At
  <2> QED BY <2>4, <2>5, <2>6, <2>7, <2>8 DEF IInv
<1> QED BY <1>1, <1>2

\* Steps that only move the session on, in phases 4 and 5.
LEMMA DetachEndsKeeps == IInv /\ (Detached \/ \E c \in Containers : DetachFails(c)) => IInv'
<1> SUFFICES ASSUME IInv, Detached \/ \E c \in Containers : DetachFails(c) PROVE IInv'
  OBVIOUS
<1>1. /\ UNCHANGED <<disk, mem, stage, box, gone, conf, index, seen, hands>>
      /\ faults' \in 0 .. MaxFaults /\ At("detach") /\ mem = disk /\ disk.phase \in {4, 5}
  <2>1. /\ UNCHANGED <<disk, mem, stage, box, gone, conf, index, seen, hands>>
        /\ At("detach")
    BY DEF Detached, DetachFails, ledgers, outside
  <2>2. faults' \in 0 .. MaxFaults
    BY FaultIs DEF Detached, DetachFails, IInv, TypeOK
  <2> QED BY <2>1, <2>2 DEF IInv, SessionInv, At
<1>2. proc' \in Procs /\ proc'.pc \in {"detach", "check5"}
  <2>1. mem.fleet \in SUBSET Containers /\ \A c \in Containers : proc.todo \ {c} \in SUBSET Containers
    BY DEF IInv, TypeOK, Procs, Ledgers
  <2> QED BY <2>1, GotoIs DEF Detached, DetachFails, PCs
<1>3. TypeOK' /\ SessionInv'
  BY <1>1, <1>2 DEF IInv, TypeOK, SessionInv, At
<1>4. MoveInv(disk)' /\ MoveInv(mem)' /\ ProvenInv'
  BY <1>1, <1>2 DEF IInv, MoveInv, Fleet, Stands, ProvenInv, ProvenOn, At
<1>5. SteadyInv' /\ HomeInv'
  BY <1>1, <1>2 DEF IInv, SteadyInv, OwedInv, DeferInv, HomeInv, HomeAt, Fleet, Stands, At
<1> QED BY <1>3, <1>4, <1>5 DEF IInv

\* A container that phases 5 and 6 accept is on the target alone.
LEMMA Check56Keeps ==
    ASSUME IInv, NEW pc \in {"check5", "check6"}, NEW c \in Containers, Check56(pc, c)
    PROVE  IInv'
<1>1. /\ UNCHANGED <<stage, box, gone, conf, index, faults, hands>>
      /\ proc.pc = pc /\ c \in proc.todo /\ disk.phase \in {4, 5}
      /\ SamePair(mem, disk) /\ mem.ref = disk.ref /\ mem.proven = disk.proven
      /\ mem.owed = disk.owed /\ mem.phase \in {4, 5}
      /\ disk \in Ledgers /\ disk.target \in Nets
  BY DEF Check56, outside, IInv, TypeOK, SessionInv, MoveInv, SamePair, At
<1>2. CASE ~TargetOnly(c)
  BY <1>1, <1>2, RefuseKeeps DEF Check56, At, IInv, TypeOK
<1>3. ASSUME TargetOnly(c)
      PROVE  proc' \in Procs /\ proc'.pc = pc /\ proc'.todo = proc.todo \ {c}
  <2>1. proc.todo \ {c} \in SUBSET Containers
    BY DEF IInv, TypeOK, Procs
  <2> QED BY <1>3, <2>1, GotoIs DEF Check56, PCs
<1>4. CASE TargetOnly(c)
  <2>1. /\ disk' \in Ledgers /\ mem' \in Ledgers /\ Alike(disk', disk) /\ mem'.owed = disk'.owed
        /\ mem' = disk' \/ (mem' = mem /\ disk' = disk)
    BY <1>1, <1>4, ProbedIs DEF Check56, IInv, TypeOK, Alike
  <2>2. /\ seen' \in [Containers -> SUBSET Nets]
        /\ \A d \in Containers : seen[d] \subseteq seen'[d]
    BY <1>1, <1>4 DEF Check56, Target, SamePair, IInv, TypeOK
  <2>3. box[c].on = {disk.target}
    BY <1>1, <1>4 DEF TargetOnly, Target, SamePair
  <2>4. TypeOK'
    BY <1>1, <1>3, <1>4, <2>1, <2>2 DEF IInv, TypeOK
  <2>5. SessionInv'
    BY <1>1, <1>3, <1>4, <2>1 DEF IInv, SessionInv, SamePair, Alike, At
  <2>6. MoveInv(disk)' /\ MoveInv(mem)'
    BY <1>1, <2>1 DEF IInv, MoveInv, Alike, Fleet, Stands
  <2>7. ProvenInv'
    <3>1. \A d \in disk.fleet : ProvenOn(disk, d)
      BY <1>1 DEF IInv, ProvenInv
    <3>2. \A d \in disk'.fleet : ProvenOn(disk, d)'
      BY <2>1, <2>2, <3>1 DEF ProvenOn, Alike, Ledgers
    <3>3. \A d \in mem'.fleet : ProvenOn(mem, d)'
      BY <1>1, <2>1, <3>2 DEF ProvenOn, SamePair
    <3> QED BY <1>1, <1>3, <1>4, <3>2, <3>3 DEF ProvenInv, At
  <2>8. SteadyInv'
    BY <1>1, <1>3, <1>4, <2>1 DEF IInv, SteadyInv, OwedInv, DeferInv, Alike, Stands, At
  <2>9. HomeInv'
    BY <1>1, <1>3, <1>4, <2>1, <2>3 DEF IInv, HomeInv, HomeAt, SamePair, Alike, Stands, Fleet, At
  <2> QED BY <2>4, <2>5, <2>6, <2>7, <2>8, <2>9 DEF IInv
<1> QED BY <1>2, <1>4

LEMMA Checked5Keeps == IInv /\ Checked5 => IInv'
<1> SUFFICES ASSUME IInv, Checked5 PROVE IInv'
  OBVIOUS
<1>1. /\ UNCHANGED <<stage, box, gone, conf, index, seen, faults, hands>>
      /\ At("check5") /\ mem = disk /\ disk.phase \in {4, 5}
  BY DEF Checked5, outside, IInv, SessionInv, At
<1>2. proc' \in Procs /\ proc'.pc = "check6" /\ proc'.todo = disk.fleet
  BY <1>1, GotoIs DEF Checked5, PCs, IInv, TypeOK, Ledgers
<1>3. /\ disk' \in Ledgers /\ Alike(disk', disk)
      /\ mem' \in Ledgers /\ mem'.phase = 5 /\ SamePair(mem', disk')
      /\ mem'.ref = disk'.ref /\ mem'.proven = disk'.proven /\ mem'.owed = disk'.owed
  <2>1. disk' \in Ledgers /\ Alike(disk', disk)
    BY FloorIs, IndexIs DEF Checked5, IInv, TypeOK
  <2>2. mem' = [disk' EXCEPT !.phase = 5]
    BY DEF Checked5
  <2> QED BY <2>1, <2>2 DEF Ledgers, SamePair
<1>4. TypeOK'
  BY <1>1, <1>2, <1>3 DEF IInv, TypeOK
<1>5. SessionInv'
  BY <1>1, <1>2, <1>3 DEF SessionInv, SamePair, Alike, At
<1>6. MoveInv(disk)' /\ MoveInv(mem)'
  BY <1>1, <1>3 DEF IInv, MoveInv, SamePair, Alike, Fleet, Stands
<1>7. ProvenInv'
  BY <1>1, <1>2, <1>3 DEF IInv, ProvenInv, ProvenOn, SamePair, Alike, At
<1>8. SteadyInv'
  BY <1>1, <1>2, <1>3 DEF IInv, SteadyInv, OwedInv, DeferInv, SamePair, Alike, Stands, At
<1>9. HomeInv'
  BY <1>1, <1>2, <1>3 DEF IInv, MoveInv, HomeInv, HomeAt, SamePair, Alike, Stands, Fleet, At
<1> QED BY <1>4, <1>5, <1>6, <1>7, <1>8, <1>9 DEF IInv

\* The reference moves once the whole fleet is seen on the target alone.
LEMMA CommitKeeps == IInv /\ Commit => IInv'
<1> SUFFICES ASSUME IInv, Commit PROVE IInv'
  OBVIOUS
<1>1. /\ UNCHANGED <<disk, stage, box, gone, conf, index, seen, faults, hands>>
      /\ At("check6") /\ proc.todo = {} /\ mem.phase \in {4, 5} /\ disk.phase \in {4, 5}
      /\ mem.owed = disk.owed /\ mem \in Ledgers
  BY DEF Commit, outside, IInv, TypeOK, SessionInv, At
<1>2. proc' \in Procs /\ proc'.pc = "save" /\ proc'.todo = {}
  BY GotoIs DEF Commit, PCs
<1>3. CASE conf = Target /\ conf \notin gone
  <2>1. /\ mem' \in Ledgers /\ mem'.ref = mem.target /\ mem'.phase = 0
        /\ mem'.source = NoNet /\ mem'.target = NoNet /\ mem'.fleet = {}
        /\ mem'.proven = mem.proven /\ mem'.owed = mem.owed
    <3>1. conf \in Nets /\ conf = mem.target /\ mem' = [Cleared(mem) EXCEPT !.ref = conf]
      BY <1>3 DEF Commit, IInv, TypeOK, Target
    <3> QED BY <1>1, <3>1, CommittedIs
  <2>4. TypeOK'
    BY <1>1, <1>2, <2>1 DEF IInv, TypeOK
  <2>5. SessionInv'
    BY <1>1, <1>2, <2>1 DEF SessionInv, At
  <2>6. MoveInv(disk)' /\ MoveInv(mem)'
    BY <1>1, <2>1 DEF IInv, MoveInv, Fleet, Stands
  <2>7. ProvenInv'
    BY <1>1, <1>2, <2>1 DEF IInv, ProvenInv, ProvenOn, At
  <2>8. SteadyInv'
    BY <1>1, <1>2, <2>1 DEF IInv, SteadyInv, OwedInv, DeferInv, Stands, At
  <2>9. HomeInv'
    BY <1>1, <1>2, <2>1 DEF IInv, HomeInv, HomeAt, Stands, Fleet, At
  <2> QED BY <2>4, <2>5, <2>6, <2>7, <2>8, <2>9 DEF IInv
<1>4. CASE ~(conf = Target /\ conf \notin gone)
  BY <1>1, <1>4, RefuseKeeps DEF Commit, Refuse, At, IInv, TypeOK
<1> QED BY <1>3, <1>4

\* The session's copy is written on both outcomes.
LEMMA SaveKeeps == IInv /\ Save => IInv'
<1> SUFFICES ASSUME IInv, Save PROVE IInv'
  OBVIOUS
<1>1. /\ UNCHANGED <<box, gone, conf, index, seen, faults, hands>>
      /\ At("save") /\ disk' = mem
  BY DEF Save, outside
<1>2. /\ proc' \in Procs /\ proc'.pc = "idle" /\ mem' \in Ledgers /\ stage' \in Ledgers
      /\ mem'.phase = 0 /\ mem'.owed = Blank.owed
      /\ mem'.source = NoNet /\ mem'.target = NoNet /\ mem'.fleet = {}
      /\ \A c \in Containers : mem'.owed[c] = {}
  BY EndsIs DEF Save, IInv
<1>4. TypeOK'
  BY <1>1, <1>2 DEF IInv, TypeOK
<1>5. SessionInv'
  BY <1>1, <1>2 DEF SessionInv, At
<1>6. MoveInv(disk)' /\ MoveInv(mem)'
  BY <1>1, <1>2 DEF IInv, MoveInv, Fleet, Stands
<1>7. ProvenInv'
  BY <1>1, <1>2 DEF IInv, ProvenInv, ProvenOn, At
<1>8. SteadyInv'
  BY <1>1, <1>2 DEF IInv, SteadyInv, OwedInv, DeferInv, Stands, At
<1>9. HomeInv'
  BY <1>1, <1>2 DEF IInv, HomeInv, HomeAt, Stands, Fleet, At
<1> QED BY <1>4, <1>5, <1>6, <1>7, <1>8, <1>9 DEF IInv

\* A death leaves the disk as it was.
LEMMA DiesKeeps == IInv /\ Dies => IInv'
<1> SUFFICES ASSUME IInv, Dies PROVE IInv'
  OBVIOUS
<1>1. /\ UNCHANGED <<disk, box, gone, conf, index, seen, hands>>
      /\ faults' \in 0 .. MaxFaults
  BY FaultIs DEF Dies, outside, IInv
<1>2. /\ proc' \in Procs /\ proc'.pc = "idle" /\ mem' \in Ledgers /\ stage' \in Ledgers
      /\ mem'.phase = 0 /\ mem'.owed = Blank.owed
      /\ mem'.source = NoNet /\ mem'.target = NoNet /\ mem'.fleet = {}
      /\ \A c \in Containers : mem'.owed[c] = {}
  BY EndsIs DEF Dies, IInv
<1>4. TypeOK'
  BY <1>1, <1>2 DEF IInv, TypeOK
<1>5. SessionInv'
  BY <1>1, <1>2 DEF SessionInv, At
<1>6. MoveInv(disk)' /\ MoveInv(mem)'
  BY <1>1, <1>2 DEF IInv, MoveInv, Fleet, Stands
<1>7. ProvenInv'
  BY <1>1, <1>2 DEF IInv, ProvenInv, ProvenOn, At
<1>8. SteadyInv'
  BY <1>1, <1>2 DEF IInv, SteadyInv, OwedInv, DeferInv, Stands, At
<1>9. HomeInv'
  BY <1>1, <1>2 DEF IInv, HomeInv, HomeAt, Stands, Fleet, At
<1> QED BY <1>4, <1>5, <1>6, <1>7, <1>8, <1>9 DEF IInv

-----------------------------------------------------------------------------
(* The other verbs, and everyone else.                                      *)

\* Between two sessions the session's copy says nothing.
LEMMA IdleIs ==
    ASSUME IInv, At("idle")
    PROVE  mem.phase = 0 /\ mem.source = NoNet /\ mem.target = NoNet /\ mem.fleet = {}
           /\ \A c \in Containers : mem.owed[c] = {}
BY BlankTyped DEF IInv, SessionInv, MoveInv, At

\* What an install, a start, a stop or an uninstall of one container keeps.
LEMMA VerbKeeps ==
    ASSUME IInv, At("idle"), NEW c \in Containers,
           UNCHANGED <<mem, stage, proc, gone, conf, index, hands>>, faults' \in 0 .. MaxFaults,
           disk' \in Ledgers, disk'.phase = disk.phase, SamePair(disk', disk), disk'.ref = disk.ref,
           box' \in [Containers -> Boxes], seen' \in [Containers -> SUBSET Nets],
           \A d \in Containers \ {c} :
              /\ box'[d] = box[d] /\ disk'.owed[d] = disk.owed[d] /\ seen'[d] = seen[d]
              /\ d \in disk'.proven <=> d \in disk.proven,
           \* the container stands where it did, or at home, or no longer
           Stands(c)' => \/ Stands(c) /\ box'[c].on = box[c].on
                         \/ disk.phase = 0 /\ box'[c].on = {disk.ref},
           \* what it owes is owed at home, and only a proof retires it
           c \in disk'.proven /\ disk.phase # 0 => c \in disk.proven,
           disk.owed[c] \cup seen[c] \subseteq disk'.owed[c] \cup seen'[c] \/ c \notin disk'.proven,
           ~MidEdits => /\ disk'.owed[c] \subseteq IF disk.phase = 0 THEN {disk.ref} ELSE disk.owed[c]
                        /\ ~Stands(c)' => disk'.owed[c] = {}
    PROVE  IInv'
<1>1. /\ mem.phase = 0 /\ mem.source = NoNet /\ mem.target = NoNet /\ mem.fleet = {}
      /\ \A d \in Containers : mem.owed[d] = {}
  BY IdleIs
<1>4. TypeOK'
  BY DEF IInv, TypeOK
<1>5. SessionInv'
  BY DEF IInv, SessionInv, At
<1>6. MoveInv(disk)' /\ MoveInv(mem)'
  BY <1>1 DEF IInv, MoveInv, SamePair, Fleet, Stands
<1>7. ProvenInv'
  <2>1. ASSUME disk.phase >= 4, NEW d \in disk.fleet PROVE ProvenOn(disk, d)'
    <3>1. d \in Containers /\ ProvenOn(disk, d) /\ disk.phase # 0
      BY <2>1 DEF IInv, TypeOK, Ledgers, ProvenInv
    <3> QED BY <3>1 DEF ProvenOn, SamePair
  <2> QED BY <1>1, <2>1 DEF ProvenInv, SamePair, At
<1>8. SteadyInv'
  <2>1. ASSUME ~MidEdits PROVE OwedInv(disk)'
    BY <2>1 DEF IInv, SteadyInv, OwedInv, SamePair, Stands
  <2>2. ASSUME ~MidEdits PROVE OwedInv(mem)'
    BY <1>1, <2>2 DEF OwedInv
  <2> QED BY <2>1, <2>2 DEF SteadyInv, DeferInv, At
<1>9. HomeInv'
  BY DEF IInv, HomeInv, HomeAt, SamePair, Stands, Fleet, At
<1> QED BY <1>4, <1>5, <1>6, <1>7, <1>8, <1>9 DEF IInv

\* A recorded move leads to another network, so no verb is at home in it but
\* where MYTHICAL_NET changed under it.
LEMMA HomeIs ==
    ASSUME IInv, NetTarget
    PROVE  /\ conf = disk.ref /\ conf \in Nets
           /\ disk.phase # 0 => MidEdits /\ Permitted # {conf}
           /\ disk.phase = 0 => Permitted = {conf}
BY DEF IInv, TypeOK, NetTarget, Permitted, InFlight, MoveInv, SteadyInv, OwedInv

LEMMA VerificationIs ==
    ASSUME TypeOK, conf \in Nets, NEW c \in Containers, NEW ok \in BOOLEAN, NEW on, Verification(c, ok, on)
    PROVE  /\ disk' \in Ledgers /\ disk'.phase = disk.phase /\ SamePair(disk', disk)
           /\ disk'.ref = disk.ref /\ disk'.proven = disk.proven \cup {c}
           /\ \A d \in Containers \ {c} : disk'.owed[d] = disk.owed[d] /\ seen'[d] = seen[d]
           /\ seen' \in [Containers -> SUBSET Nets]
           /\ disk.owed[c] \cup seen[c] \subseteq disk'.owed[c] \cup seen'[c]
           /\ disk'.owed[c] \subseteq disk.owed[c] \cup {conf}
<1>1. PICK P \in SUBSET Containers, S \in SUBSET Nets, l \in Ledgers, w \in Wants :
        /\ l = disk /\ P = l.proven \cup {c} /\ w = "running"
        /\ S = IF ok THEN l.owed[c] \ {conf} ELSE l.owed[c] \cup {conf}
        /\ disk' = [l EXCEPT !.proven = P, !.desired[c] = w, !.owed[c] = S]
  <2>1. disk \in Ledgers /\ "running" \in Wants
    BY DEF TypeOK, Wants
  <2>2. /\ disk.proven \cup {c} \in SUBSET Containers
        /\ (IF ok THEN disk.owed[c] \ {conf} ELSE disk.owed[c] \cup {conf}) \in SUBSET Nets
    BY <2>1 DEF Ledgers
  <2>3. disk' = [disk EXCEPT !.proven = disk.proven \cup {c}, !.desired[c] = "running",
                    !.owed[c] = IF ok THEN disk.owed[c] \ {conf} ELSE disk.owed[c] \cup {conf}]
    BY <2>1 DEF Verification, Ledgers
  <2> QED BY <2>1, <2>2, <2>3
<1>2. disk' \in Ledgers
  BY <1>1 DEF Ledgers
<1>3. /\ disk'.phase = disk.phase /\ SamePair(disk', disk) /\ disk'.ref = disk.ref /\ disk'.proven = P
      /\ \A d \in Containers : disk'.owed[d] = IF d = c THEN S ELSE disk.owed[d]
  BY <1>1 DEF Ledgers, SamePair
<1>4. /\ seen' \in [Containers -> SUBSET Nets]
      /\ \A d \in Containers : seen'[d] = IF ok /\ d = c THEN seen[c] \cup {conf} ELSE seen[d]
  BY DEF Verification, TypeOK
<1> QED BY <1>1, <1>2, <1>3, <1>4

LEMMA InstallKeeps ==
    ASSUME IInv, NEW c \in Containers, NEW ok \in BOOLEAN, VerbInstall(c, ok) PROVE IInv'
<1>1. /\ At("idle") /\ UNCHANGED <<mem, stage, proc, gone, conf, index, hands, faults>>
      /\ TypeOK /\ faults \in 0 .. MaxFaults
  BY DEF VerbInstall, Verb, outside, IInv, TypeOK
<1>2. /\ conf = disk.ref /\ conf \in Nets
      /\ disk.phase # 0 => MidEdits /\ Permitted # {conf}
      /\ disk.phase = 0 => Permitted = {conf}
  BY HomeIs DEF VerbInstall
<1>3. CASE Permitted = {conf}
  <2>1. disk.phase = 0
    BY <1>2, <1>3
  <2>2. /\ disk' \in Ledgers /\ disk'.phase = disk.phase /\ SamePair(disk', disk)
        /\ disk'.ref = disk.ref /\ disk'.proven = disk.proven \cup {c}
        /\ \A d \in Containers \ {c} : disk'.owed[d] = disk.owed[d] /\ seen'[d] = seen[d]
        /\ seen' \in [Containers -> SUBSET Nets]
        /\ disk.owed[c] \cup seen[c] \subseteq disk'.owed[c] \cup seen'[c]
        /\ disk'.owed[c] \subseteq disk.owed[c] \cup {conf}
    BY <1>1, <1>2, <1>3, VerificationIs DEF VerbInstall
  <2>3. /\ box' \in [Containers -> Boxes] /\ box'[c].st = "running" /\ box'[c].on = {conf}
        /\ \A d \in Containers \ {c} : box'[d] = box[d]
    BY <1>1, <1>2, <1>3 DEF VerbInstall, TypeOK, Boxes
  <2>4. ~MidEdits => disk.owed[c] \subseteq {disk.ref}
    BY <2>1 DEF IInv, SteadyInv, OwedInv
  <2> QED BY <1>1, <1>2, <2>1, <2>2, <2>3, <2>4, VerbKeeps DEF Stands
<1>4. CASE Permitted # {conf}
  <2>1. UNCHANGED <<disk, seen>> /\ MidEdits /\ disk.phase # 0
    BY <1>2, <1>4 DEF VerbInstall
  <2>2. /\ box' \in [Containers -> Boxes] /\ box'[c].st = "absent"
        /\ \A d \in Containers \ {c} : box'[d] = box[d]
    BY <1>1, <1>4 DEF VerbInstall, TypeOK, Boxes, NoBox
  <2> QED BY <1>1, <2>1, <2>2, VerbKeeps DEF Stands, SamePair, TypeOK
<1> QED BY <1>3, <1>4

LEMMA StartKeeps ==
    ASSUME IInv, NEW c \in Containers, NEW ok \in BOOLEAN, VerbStart(c, ok) PROVE IInv'
<1>1. /\ At("idle") /\ UNCHANGED <<mem, stage, proc, gone, conf, index, hands, faults>>
      /\ TypeOK /\ faults \in 0 .. MaxFaults /\ Stands(c) /\ c \in disk.proven
  BY DEF VerbStart, Verb, outside, IInv, TypeOK
<1>2. /\ conf = disk.ref /\ conf \in Nets /\ (disk.phase # 0 => MidEdits)
  BY HomeIs DEF VerbStart
<1>3. /\ disk' \in Ledgers /\ disk'.phase = disk.phase /\ SamePair(disk', disk)
      /\ disk'.ref = disk.ref /\ disk'.proven = disk.proven \cup {c}
      /\ \A d \in Containers \ {c} : disk'.owed[d] = disk.owed[d] /\ seen'[d] = seen[d]
      /\ seen' \in [Containers -> SUBSET Nets]
      /\ disk.owed[c] \cup seen[c] \subseteq disk'.owed[c] \cup seen'[c]
      /\ disk'.owed[c] \subseteq disk.owed[c] \cup {conf}
  BY <1>1, <1>2, VerificationIs DEF VerbStart
<1>4. /\ box' \in [Containers -> Boxes] /\ box'[c].st = "running" /\ box'[c].on = box[c].on
      /\ \A d \in Containers \ {c} : box'[d] = box[d]
  BY <1>1 DEF VerbStart, TypeOK, Boxes
<1>5. ~MidEdits => disk.owed[c] \subseteq {disk.ref} /\ disk.phase = 0
  BY <1>2 DEF IInv, SteadyInv, OwedInv
<1> QED BY <1>1, <1>2, <1>3, <1>4, <1>5, VerbKeeps DEF Stands

LEMMA StopKeeps == ASSUME IInv, NEW c \in Containers, VerbStop(c) PROVE IInv'
<1>1. /\ At("idle") /\ UNCHANGED <<mem, stage, proc, gone, conf, index, hands, faults, seen>>
      /\ TypeOK /\ faults \in 0 .. MaxFaults /\ Stands(c)
  BY DEF VerbStop, Verb, outside, IInv, TypeOK
<1>2. /\ disk' \in Ledgers /\ disk'.phase = disk.phase /\ SamePair(disk', disk)
      /\ disk'.ref = disk.ref /\ disk'.proven = disk.proven /\ disk'.owed = disk.owed
  <2>1. disk \in Ledgers /\ disk' = [disk EXCEPT !.desired[c] = "stopped"]
    BY <1>1 DEF VerbStop, TypeOK
  <2> QED BY <2>1 DEF Ledgers, SamePair, Wants
<1>3. /\ box' \in [Containers -> Boxes] /\ box'[c].st = "stopped" /\ box'[c].on = box[c].on
      /\ \A d \in Containers \ {c} : box'[d] = box[d]
  BY <1>1 DEF VerbStop, TypeOK, Boxes
<1>4. ~MidEdits => (disk.phase = 0 => disk.owed[c] \subseteq {disk.ref})
  BY DEF IInv, SteadyInv, OwedInv
<1> QED BY <1>1, <1>2, <1>3, <1>4, VerbKeeps DEF Stands, TypeOK

LEMMA UninstallKeeps == ASSUME IInv, NEW c \in Containers, VerbUninstall(c) PROVE IInv'
<1>1. /\ At("idle") /\ UNCHANGED <<mem, stage, proc, gone, conf, index, hands, faults, seen>>
      /\ TypeOK /\ faults \in 0 .. MaxFaults
  BY DEF VerbUninstall, Verb, outside, IInv, TypeOK
<1>2. /\ disk' \in Ledgers /\ disk'.phase = disk.phase /\ SamePair(disk', disk)
      /\ disk'.ref = disk.ref /\ disk'.proven = disk.proven \ {c}
      /\ \A d \in Containers : disk'.owed[d] = IF d = c THEN {} ELSE disk.owed[d]
  <2>1. PICK P \in SUBSET Containers, S \in SUBSET Nets, l \in Ledgers, w \in Wants :
          /\ l = disk /\ P = l.proven \ {c} /\ w = "none" /\ S = {}
          /\ disk' = [l EXCEPT !.proven = P, !.desired[c] = w, !.owed[c] = S]
    BY <1>1 DEF VerbUninstall, TypeOK, Ledgers, Wants
  <2>2. disk' \in Ledgers
    BY <2>1 DEF Ledgers
  <2>3. /\ disk'.phase = disk.phase /\ SamePair(disk', disk) /\ disk'.ref = disk.ref /\ disk'.proven = P
        /\ \A d \in Containers : disk'.owed[d] = IF d = c THEN S ELSE disk.owed[d]
    BY <2>1 DEF Ledgers, SamePair
  <2> QED BY <2>1, <2>2, <2>3
<1>3. /\ box' \in [Containers -> Boxes] /\ box'[c].st = "absent"
      /\ \A d \in Containers \ {c} : box'[d] = box[d]
  BY <1>1 DEF VerbUninstall, TypeOK, Boxes, NoBox
<1> QED BY <1>1, <1>2, <1>3, VerbKeeps DEF Stands, TypeOK

LEMMA InstallDiesKeeps == ASSUME IInv, NEW c \in Containers, InstallDies(c) PROVE IInv'
<1>1. /\ At("idle") /\ UNCHANGED <<disk, mem, stage, proc, gone, conf, index, hands, seen>>
      /\ TypeOK /\ ~Stands(c) /\ disk.phase = 0 /\ conf = disk.ref
  BY DEF InstallDies, Verb, ledgers, outside, IInv, NetTarget, InFlight
<1>2. faults' \in 0 .. MaxFaults
  BY <1>1, FaultIs DEF InstallDies
<1>3. /\ box' \in [Containers -> Boxes] /\ box'[c].st = "stopped" /\ box'[c].on = {conf}
      /\ \A d \in Containers \ {c} : box'[d] = box[d]
  BY <1>1 DEF InstallDies, TypeOK, Boxes
<1>4. ~MidEdits => disk.owed[c] = {}
  BY <1>1 DEF IInv, SteadyInv, OwedInv
<1> QED BY <1>1, <1>2, <1>3, <1>4, VerbKeeps DEF Stands, SamePair, TypeOK

LEMMA ExitsKeeps == ASSUME IInv, NEW c \in Containers, Exits(c) PROVE IInv'
<1>1. UNCHANGED <<disk, mem, stage, proc, gone, conf, index, hands, seen, faults>>
  BY DEF Exits, ledgers, outside
<1>2. /\ box' \in [Containers -> Boxes]
      /\ \A d \in Containers : box'[d].on = box[d].on /\ Stands(d)' = Stands(d)
  <2>1. /\ box' \in [Containers -> Boxes]
        /\ \A d \in Containers : box'[d].on = box[d].on
        /\ \A d \in Containers : box'[d].st = IF d = c THEN "stopped" ELSE box[d].st
    BY DEF Exits, IInv, TypeOK, Boxes
  <2> QED BY <2>1 DEF Stands, Exits
<1>3. Fleet' = Fleet
  BY <1>2 DEF Fleet
<1>4. TypeOK' /\ SessionInv'
  BY <1>1, <1>2 DEF IInv, TypeOK, SessionInv, At
<1>5. MoveInv(disk)' /\ MoveInv(mem)' /\ ProvenInv'
  BY <1>1, <1>3 DEF IInv, MoveInv, ProvenInv, ProvenOn, At
<1>6. SteadyInv'
  BY <1>1, <1>2 DEF IInv, SteadyInv, OwedInv, DeferInv, At
<1>7. HomeInv'
  BY <1>1, <1>2, <1>3 DEF IInv, HomeInv, HomeAt, Fleet, At
<1> QED BY <1>4, <1>5, <1>6, <1>7 DEF IInv

LEMMA EditConfKeeps == ASSUME IInv, NEW n \in Nets, EditConf(n) PROVE IInv'
<1>1. /\ UNCHANGED <<disk, mem, stage, box, proc, gone, index, hands, seen, faults>> /\ conf' = n
      /\ ~MidEdits => disk.phase = 0 /\ At("idle")
  BY DEF EditConf, ledgers, InFlight
<1>2. TypeOK' /\ SessionInv'
  BY <1>1 DEF IInv, TypeOK, SessionInv, At
<1>3. MoveInv(disk)' /\ MoveInv(mem)' /\ ProvenInv'
  BY <1>1 DEF IInv, MoveInv, Fleet, Stands, ProvenInv, ProvenOn, At
<1>4. SteadyInv'
  <2>1. ~MidEdits => mem.phase = 0
    BY <1>1, IdleIs
  <2> QED BY <1>1, <2>1 DEF IInv, SteadyInv, OwedInv, DeferInv, Stands, At
<1>5. HomeInv'
  BY <1>1 DEF IInv, HomeInv, HomeAt, Fleet, Stands, At
<1> QED BY <1>2, <1>3, <1>4, <1>5 DEF IInv

\* What others do to networks leaves the ledgers and what stands as they are.
LEMMA HandKeeps ==
    IInv /\ (NewIndex \/ (\E n \in Nets : NetRemoved(n))
               \/ \E c \in Containers, n \in Nets : Plug(c, n)) => IInv'
<1> SUFFICES ASSUME IInv, \/ NewIndex \/ (\E n \in Nets : NetRemoved(n))
                          \/ \E c \in Containers, n \in Nets : Plug(c, n)
             PROVE  IInv'
  OBVIOUS
<1>1. UNCHANGED <<disk, mem, stage, proc, conf, seen, faults>>
  BY DEF NewIndex, NetRemoved, Plug, ledgers
<1>2. hands \in 0 .. MaxHands /\ hands < MaxHands /\ hands' = hands + 1
  BY DEF NewIndex, NetRemoved, Plug, Hand, IInv, TypeOK
<1>3. hands' \in 0 .. MaxHands /\ hands' # 0
  BY <1>2
<1>4. box' \in [Containers -> Boxes] /\ \A d \in Containers : box'[d].st = box[d].st
  <2>1. CASE NewIndex
    BY <2>1 DEF NewIndex, IInv, TypeOK
  <2>2. ASSUME NEW n \in Nets, NetRemoved(n)
        PROVE  box' \in [Containers -> Boxes] /\ \A d \in Containers : box'[d].st = box[d].st
    BY <2>2 DEF NetRemoved, IInv, TypeOK, Boxes
  <2>3. ASSUME NEW c \in Containers, NEW n \in Nets, Plug(c, n)
        PROVE  box' \in [Containers -> Boxes] /\ \A d \in Containers : box'[d].st = box[d].st
    <3>1. PICK S \in SUBSET Nets : box' = [box EXCEPT ![c].on = S]
      <4>1. box[c].on \in SUBSET Nets
        BY DEF IInv, TypeOK, Boxes
      <4>2. \/ box' = [box EXCEPT ![c].on = box[c].on \ {n}]
            \/ box' = [box EXCEPT ![c].on = box[c].on \cup {n}]
        BY <2>3 DEF Plug, IInv, TypeOK
      <4> QED BY <4>1, <4>2
    <3> QED BY <3>1 DEF IInv, TypeOK, Boxes
  <2> QED BY <2>1, <2>2, <2>3
<1>5. gone' \subseteq Nets /\ index' \in 0 .. hands'
  <2>1. gone \subseteq Nets /\ index \in 0 .. hands
    BY DEF IInv, TypeOK
  <2>2. gone' \subseteq Nets
    BY <2>1 DEF NewIndex, NetRemoved, Plug
  <2>3. index' = index \/ index' = index + 1
    BY DEF NewIndex, NetRemoved, Plug
  <2> QED BY <1>2, <2>1, <2>2, <2>3
<1>6. TypeOK' /\ SessionInv'
  BY <1>1, <1>3, <1>4, <1>5 DEF IInv, TypeOK, SessionInv, At
<1>7. Fleet' = Fleet /\ \A d \in Containers : Stands(d)' = Stands(d)
  BY <1>4 DEF Fleet, Stands
<1>8. MoveInv(disk)' /\ MoveInv(mem)' /\ ProvenInv'
  BY <1>1, <1>7 DEF IInv, MoveInv, ProvenInv, ProvenOn, At
<1>9. SteadyInv'
  BY <1>1, <1>7 DEF IInv, SteadyInv, OwedInv, DeferInv, At
<1>10. HomeInv'
  BY <1>3 DEF HomeInv
<1> QED BY <1>6, <1>8, <1>9, <1>10 DEF IInv

-----------------------------------------------------------------------------
(* The invariant, and what follows from it.                                 *)

LEMMA InitIInv == Init => IInv
<1> SUFFICES ASSUME Init PROVE IInv
  OBVIOUS
<1>1. PICK net \in Nets, S \in (SUBSET Containers) \ {{}} :
          /\ disk = [Blank EXCEPT !.ref = net, !.proven = S,
                        !.desired = [c \in Containers |-> IF c \in S THEN "running" ELSE "none"]]
          /\ box = [c \in Containers |->
                        IF c \in S THEN [st |-> "running", on |-> {net}] ELSE NoBox]
          /\ seen = [c \in Containers |-> IF c \in S THEN {net} ELSE {}]
          /\ conf = net
  BY DEF Init
<1>2. /\ mem = Blank /\ stage = Blank /\ gone = {} /\ index = 0
      /\ proc.pc = "idle" /\ proc \in Procs /\ faults = 0 /\ hands = 0
  BY DEF Init, Idle, Procs, PCs
<1>3. /\ disk \in Ledgers /\ disk.phase = 0 /\ disk.source = NoNet /\ disk.target = NoNet
      /\ disk.fleet = {} /\ disk.ref = net /\ \A c \in Containers : disk.owed[c] = {}
  <2>1. S \in SUBSET Containers
    BY <1>1
  <2>2. [c \in Containers |-> IF c \in S THEN "running" ELSE "none"] \in [Containers -> Wants]
    BY DEF Wants
  <2>3. Blank \in Ledgers
    BY BlankTyped
  <2> QED BY <1>1, <2>1, <2>2, <2>3, BlankTyped DEF Ledgers
<1>4. /\ Blank \in Ledgers /\ Blank.phase = 0 /\ Blank.source = NoNet /\ Blank.target = NoNet
      /\ Blank.fleet = {} /\ \A c \in Containers : Blank.owed[c] = {}
  BY BlankTyped
<1>5. TypeOK
  BY <1>1, <1>2, <1>3, <1>4 DEF TypeOK, Boxes, NoBox, Indexes
<1>6. SessionInv /\ MoveInv(disk) /\ MoveInv(mem)
  BY <1>2, <1>3, <1>4 DEF SessionInv, MoveInv, At
<1>7. ProvenInv /\ SteadyInv
  BY <1>2, <1>3, <1>4 DEF ProvenInv, SteadyInv, OwedInv, DeferInv, At
<1>8. HomeInv
  BY <1>1, <1>2, <1>3 DEF HomeInv, HomeAt, Fleet, Stands, NoBox, At
<1> QED BY <1>5, <1>6, <1>7, <1>8 DEF IInv

LEMMA NextKeeps == IInv /\ [Next]_vars => IInv'
<1> SUFFICES ASSUME IInv, [Next]_vars PROVE IInv'
  OBVIOUS
<1>1. CASE UNCHANGED vars
  BY <1>1 DEF vars, IInv, TypeOK, SessionInv, At, MoveInv, Fleet, Stands, ProvenInv, ProvenOn,
              SteadyInv, OwedInv, DeferInv, HomeInv, HomeAt
<1>2. CASE Begin
  BY <1>2, BeginEmptyKeeps, BeginFreshKeeps, BeginResumedKeeps DEF Begin
<1>3. CASE Steps
  BY <1>3, Mark2Keeps, ConnectedKeeps, CloneKeeps, Checked3Keeps, Mark4Keeps, DetachEndsKeeps,
     Checked5Keeps, CommitKeeps, SaveKeeps, ConnectKeeps, Check3Keeps, DetachKeeps, Check56Keeps
     DEF Steps
<1>4. CASE Fails
  <2>1. faults' \in 0 .. MaxFaults
    BY <1>4, FaultIs DEF Fails, IInv
  <2> QED BY <1>4, <2>1, RefuseKeeps DEF Fails, At, ledgers, outside
<1>5. CASE Dies \/ \E c \in Containers : DetachFails(c)
  BY <1>5, DiesKeeps, DetachEndsKeeps
<1>6. CASE Others
  BY <1>6, InstallKeeps, StartKeeps, StopKeeps, UninstallKeeps, InstallDiesKeeps, ExitsKeeps,
     EditConfKeeps, HandKeeps DEF Others
<1> QED BY <1>1, <1>2, <1>3, <1>4, <1>5, <1>6 DEF Next

\* Every state of a rebind, of its failures and re-runs, and of what others do
\* meanwhile satisfies the inductive invariant.
THEOREM Invariance == Spec => []IInv
BY InitIInv, NextKeeps, PTL DEF Spec

\* Once the phase that detaches is recorded, every container of the recorded
\* set is proven on the target, or owes the proof there: whatever fails, dies
\* or is done by others, and though MYTHICAL_NET may change.
THEOREM DetachesWhatIsProven == Spec => []ProvenBeforeDetached
<1>1. IInv => ProvenBeforeDetached
  BY DEF IInv, ProvenInv, ProvenOn, ProvenBeforeDetached
<1> QED BY <1>1, Invariance, PTL

\* No move ends with a check owed on a network the family has left, as long as
\* MYTHICAL_NET does not change while one is recorded.
THEOREM NoCheckIsStranded == ASSUME ~MidEdits PROVE Spec => []NoStrandedCheck
<1>1. IInv => NoStrandedCheck
  BY DEF IInv, SteadyInv, OwedInv, NoStrandedCheck, InFlight
<1> QED BY <1>1, Invariance, PTL

\* While no move is recorded and nobody touched the daemon, the ledger names
\* the one network every container is on.
THEOREM FleetIsAtHome == Spec => []AtHome
<1>1. IInv => AtHome
  BY DEF IInv, HomeInv, HomeAt, AtHome, InFlight
<1> QED BY <1>1, Invariance, PTL

\* No step of the tool takes a container's last network away.
THEOREM NoStepLeavesBare == Spec => NeverBare
<1> DEFINE Bare == hands' = hands =>
         \A c \in Containers :
            Stands(c) /\ box'[c].st # "absent" /\ box[c].on # {} => box'[c].on # {}
<1>1. IInv /\ [Next]_vars => [Bare]_vars
  <2> SUFFICES ASSUME IInv, Next, hands' = hands, NEW c \in Containers,
                      Stands(c), box'[c].st # "absent", box[c].on # {}
               PROVE  box'[c].on # {}
    BY DEF Stands
  <2> USE DEF IInv, TypeOK, Boxes
  <2>1. CASE Begin \/ Fails \/ Dies \/ \E d \in Containers : DetachFails(d)
    BY <2>1 DEF Begin, BeginEmpty, BeginFresh, BeginResumed, Fails, Dies, DetachFails
  <2>2. CASE Steps
    <3>1. ASSUME NEW d \in Containers, Connect(d) PROVE box'[c].on # {}
      BY <3>1 DEF Connect
    <3>2. ASSUME NEW d \in Containers, Detach(d) PROVE box'[c].on # {}
      <4>1. mem.target # mem.source
        BY <3>2 DEF Detach, SessionInv, MoveInv, At
      <4> QED BY <3>2, <4>1 DEF Detach, OnTarget, Target, Source
    <3>3. CASE ~\E d \in Containers : Connect(d) \/ Detach(d)
      BY <2>2, <3>3 DEF Steps, Mark2, Mark4, Mark, Connected, Clone, Checked3, Detached, Checked5,
         Commit, Save, Check3, Check56
    <3> QED BY <3>1, <3>2, <3>3
  <2>3. CASE Others
    <3>1. ASSUME NEW d \in Containers, NEW ok \in BOOLEAN, VerbInstall(d, ok) PROVE box'[c].on # {}
      <4>1. \/ box' = [box EXCEPT ![d] = [st |-> "running", on |-> {conf}]]
            \/ box' = [box EXCEPT ![d] = NoBox]
        BY <3>1 DEF VerbInstall
      <4>2. CASE c = d
        <5>1. box'[c].on = {conf} \/ box'[c].st = "absent"
          BY <4>1, <4>2 DEF NoBox
        <5> QED BY <5>1
      <4>3. CASE c # d
        BY <4>1, <4>3
      <4> QED BY <4>2, <4>3
    <3>2. ASSUME NEW d \in Containers, NEW ok \in BOOLEAN, VerbStart(d, ok) PROVE box'[c].on # {}
      BY <3>2 DEF VerbStart
    <3>3. ASSUME NEW d \in Containers, VerbStop(d) \/ Exits(d) PROVE box'[c].on # {}
      BY <3>3 DEF VerbStop, Exits
    <3>4. ASSUME NEW d \in Containers, VerbUninstall(d) \/ InstallDies(d) PROVE box'[c].on # {}
      BY <3>4 DEF VerbUninstall, InstallDies, NoBox
    <3>5. CASE \E n \in Nets : EditConf(n)
      BY <3>5 DEF EditConf
    <3>6. CASE NewIndex \/ (\E n \in Nets : NetRemoved(n))
                        \/ \E d \in Containers, n \in Nets : Plug(d, n)
      BY <3>6 DEF NewIndex, NetRemoved, Plug, Hand
    <3> QED BY <2>3, <3>1, <3>2, <3>3, <3>4, <3>5, <3>6 DEF Others
  <2> QED BY <2>1, <2>2, <2>3 DEF Next
<1> QED BY <1>1, Invariance, PTL DEF Spec, NeverBare

\* The checks that phase 3 defers reach the disk together, with its record.
THEOREM ChecksAreDeferredTogether == Spec => DeferredTogether
<1> DEFINE Together == ~At("idle") /\ disk'.owed # disk.owed => disk'.phase \in {3, 4}
<1>1. IInv /\ [Next]_vars => [Together]_vars
  <2> SUFFICES ASSUME IInv, Next, ~At("idle"), disk'.owed # disk.owed
               PROVE  disk'.phase \in {3, 4}
    OBVIOUS
  <2>1. disk \in Ledgers /\ mem \in Ledgers
    BY DEF IInv, TypeOK
  <2>2. CASE Mark2 \/ Mark4
    BY <2>1, <2>2 DEF Mark2, Mark4, Mark, Ledgers, IInv, SessionInv, At
  <2>3. CASE Save
    BY <2>3 DEF Save, IInv, SessionInv, At
  <2>4. CASE ~(Mark2 \/ Mark4 \/ Save)
    <3>1. disk' = disk \/ disk' = [disk EXCEPT !.floor = index]
      BY <2>4 DEF Next, Begin, BeginEmpty, BeginFresh, BeginResumed, Steps, Connected, Clone, Checked3,
         Detached, Checked5, Commit, Connect, Check3, Detach, Check56, Probed, Fails, Dies,
         DetachFails, Others, VerbInstall, VerbStart, VerbStop, VerbUninstall, Verb, InstallDies, Exits, Plug,
         EditConf, NetRemoved, NewIndex, ledgers
    <3> QED BY <2>1, <3>1 DEF Ledgers
  <2> QED BY <2>2, <2>3, <2>4
<1> QED BY <1>1, Invariance, PTL DEF Spec, DeferredTogether

-----------------------------------------------------------------------------
(* The abstract specification: a network that every container is on.        *)

\* The instances the refinement is stated for: nobody touches the daemon,
\* no container is uninstalled, and MYTHICAL_NET stays while a move is recorded.
Untouched == MaxHands = 0 /\ ~MidEdits /\ "uninstall" \notin Verbs
Peopled   == Fleet # {}
Shared    == {n \in Nets : \A c \in Fleet : n \in box[c].on}

\* The family does not die out.
LEMMA StaysPeopled == Untouched /\ IInv /\ Peopled /\ [Next]_vars => Peopled'
<1> SUFFICES ASSUME Untouched, IInv, Peopled, [Next]_vars PROVE Peopled'
  OBVIOUS
<1>1. PICK c \in Containers : Stands(c)
  BY DEF Peopled, Fleet
<1>2. Stands(c)'
  <2> USE DEF IInv, TypeOK, Boxes, Stands
  <2>1. CASE UNCHANGED vars
    BY <1>1, <2>1 DEF vars
  <2>2. CASE Begin \/ Fails \/ Dies \/ \E d \in Containers : DetachFails(d)
    BY <1>1, <2>2 DEF Begin, BeginEmpty, BeginFresh, BeginResumed, Fails, Dies, DetachFails
  <2>3. CASE Steps
    <3>1. box'[c].st = box[c].st
      <4>1. box' = box \/ \E d \in Containers, S \in SUBSET Nets : box' = [box EXCEPT ![d].on = S]
        <5>1. ASSUME NEW d \in Containers, Connect(d)
              PROVE  box' = box \/ \E S \in SUBSET Nets : box' = [box EXCEPT ![d].on = S]
          <6>1. mem.target \in Nets
            BY <5>1 DEF Connect, SessionInv, MoveInv, At
          <6> QED BY <5>1, <6>1 DEF Connect, Target
        <5>2. ASSUME NEW d \in Containers, Detach(d)
              PROVE  box' = box \/ \E S \in SUBSET Nets : box' = [box EXCEPT ![d].on = S]
          BY <5>2 DEF Detach
        <5> QED BY <2>3, <5>1, <5>2 DEF Steps, Mark2, Mark4, Mark, Connected, Clone,
           Checked3, Detached, Checked5, Commit, Save, Check3, Check56
      <4> QED BY <4>1
    <3> QED BY <1>1, <3>1
  <2>4. CASE Others
    <3>1. ASSUME NEW d \in Containers, NEW ok \in BOOLEAN, VerbInstall(d, ok) PROVE Stands(c)'
      <4>1. Permitted = {conf}
        BY <3>1, HomeIs DEF VerbInstall, Untouched
      <4> QED BY <1>1, <3>1, <4>1 DEF VerbInstall
    <3>2. ASSUME NEW d \in Containers, NEW ok \in BOOLEAN, VerbStart(d, ok) PROVE Stands(c)'
      BY <1>1, <3>2 DEF VerbStart
    <3>3. ASSUME NEW d \in Containers, VerbStop(d) \/ Exits(d) \/ InstallDies(d) PROVE Stands(c)'
      BY <1>1, <3>3 DEF VerbStop, Exits, InstallDies
    <3>4. ~\E d \in Containers : VerbUninstall(d)
      BY DEF VerbUninstall, Verb, Untouched
    <3>5. CASE \E n \in Nets : EditConf(n)
      BY <1>1, <3>5 DEF EditConf
    <3>6. ~(NewIndex \/ (\E n \in Nets : NetRemoved(n))
                     \/ \E d \in Containers, n \in Nets : Plug(d, n))
      BY DEF NewIndex, NetRemoved, Plug, Hand, Untouched
    <3> QED BY <2>4, <3>1, <3>2, <3>3, <3>4, <3>5, <3>6 DEF Others
  <2> QED BY <2>1, <2>2, <2>3, <2>4 DEF Next
<1> QED BY <1>2 DEF Peopled, Fleet

\* No move recorded: the network named is the one they share.
HomeShared == Untouched /\ disk.phase = 0 => Shared = {disk.ref}

LEMMA SharedAtHome == IInv /\ Peopled => HomeShared
<1> SUFFICES ASSUME Untouched, IInv, Peopled, disk.phase = 0 PROVE Shared = {disk.ref}
  BY DEF HomeShared
<1>1. hands = 0 /\ disk.ref \in Nets
  BY DEF IInv, TypeOK, Ledgers, Untouched
<1>2. \A c \in Fleet : box[c].on = {disk.ref}
  BY <1>1 DEF IInv, HomeInv, HomeAt
<1> QED BY <1>1, <1>2 DEF Shared, Peopled

LEMMA SharedAtHomeNext == IInv' /\ Peopled' => HomeShared'
BY SharedAtHome, PTL

\* A step that leaves where they are and what is recorded of it shows nothing.
LEMMA Stutters ==
    ASSUME UNCHANGED box, disk'.ref = disk.ref, disk'.phase = 0 <=> disk.phase = 0
    PROVE  UNCHANGED Kept!vars
BY DEF Kept!vars, Fleet, Stands, InFlight

\* A container joins the target: the last one makes it shared.
LEMMA ConnectRefines ==
    ASSUME Untouched, IInv, Peopled, NEW c \in Containers, Connect(c)
    PROVE  Kept!Next \/ UNCHANGED Kept!vars
<1>1. CASE box' = box
  BY <1>1, Stutters DEF Connect, ledgers
<1>2. CASE box' # box
  <2>1. /\ disk' = disk /\ disk.phase # 0 /\ disk.target \in Nets /\ Stands(c)
        /\ box' = [box EXCEPT ![c].on = @ \cup {disk.target}]
    BY <1>2 DEF Connect, ledgers, Target, IInv, SessionInv, MoveInv, At
  <2>2. /\ Fleet' = Fleet /\ c \in Fleet
        /\ \A d \in Containers : box'[d].on = IF d = c THEN box[c].on \cup {disk.target} ELSE box[d].on
    BY <2>1 DEF Fleet, Stands, IInv, TypeOK, Boxes
  <2>3. CASE \A d \in Fleet : d # c => disk.target \in box[d].on
    <3>1. Shared' = Shared \cup {disk.target}
      BY <2>1, <2>2, <2>3 DEF Shared, Fleet
    <3> QED BY <2>1, <3>1 DEF Shared, Kept!Next, Kept!Join, InFlight
  <2>4. CASE \E d \in Fleet : d # c /\ disk.target \notin box[d].on
    <3>1. Shared' = Shared
      BY <2>1, <2>2, <2>4 DEF Shared, Fleet
    <3> QED BY <2>1, <3>1 DEF Shared, Kept!vars, InFlight
  <2> QED BY <2>3, <2>4
<1> QED BY <1>1, <1>2

\* A container leaves the source: the first one makes it shared no longer, and
\* the target still is.
LEMMA DetachRefines ==
    ASSUME Untouched, IInv, Peopled, NEW c \in Containers, Detach(c)
    PROVE  Kept!Next \/ UNCHANGED Kept!vars
<1>1. CASE box' = box
  BY <1>1, Stutters DEF Detach, ledgers
<1>2. CASE box' # box
  <2>1. /\ disk' = disk /\ disk.phase >= 4 /\ disk.phase # 0 /\ Stands(c)
        /\ disk.source \in Nets /\ disk.target \in Nets /\ disk.source # disk.target
        /\ box' = [box EXCEPT ![c].on = @ \ {disk.source}]
    BY <1>2 DEF Detach, ledgers, Source, IInv, SessionInv, MoveInv, At
  <2>2. /\ Fleet' = Fleet /\ c \in Fleet
        /\ \A d \in Containers : box'[d].on = IF d = c THEN box[c].on \ {disk.source} ELSE box[d].on
    BY <2>1 DEF Fleet, Stands, IInv, TypeOK, Boxes
  <2>3. disk.target \in Shared
    BY <2>1 DEF Untouched, IInv, TypeOK, HomeInv, HomeAt, Shared
  <2>4. Shared' = Shared \ {disk.source}
    BY <2>1, <2>2 DEF Shared, Fleet
  <2>5. CASE disk.source \in Shared
    BY <2>1, <2>3, <2>4, <2>5 DEF Shared, Kept!Next, Kept!Leave, InFlight
  <2>6. CASE disk.source \notin Shared
    BY <2>1, <2>4, <2>6 DEF Shared, Kept!vars, InFlight
  <2> QED BY <2>5, <2>6
<1> QED BY <1>1, <1>2

\* The record of a move reaches the disk, or leaves it with the new reference.
LEMMA WriteRefines ==
    ASSUME Untouched, IInv, Peopled, Mark2 \/ Mark4 \/ Save
    PROVE  Kept!Next \/ UNCHANGED Kept!vars
<1>1. UNCHANGED box /\ Shared' = Shared
  BY DEF Mark2, Mark4, Mark, Save, Shared, Fleet, Stands
<1>2. CASE Mark2 \/ Mark4
  <2>1. disk'.phase # 0 /\ disk'.ref = mem.ref /\ mem.ref = disk.ref
    <3>1. mem \in Ledgers
      BY DEF IInv, TypeOK
    <3>2. mem.ref = disk.ref
      BY <1>2 DEF Mark2, Mark4, Mark, IInv, SessionInv, At
    <3> QED BY <1>2, <3>1, <3>2 DEF Mark2, Mark4, Mark, Ledgers
  <2>2. CASE disk.phase = 0
    BY <1>1, <2>1, <2>2 DEF Shared, Kept!Next, Kept!Open, InFlight
  <2>3. CASE disk.phase # 0
    BY <1>1, <2>1, <2>3, Stutters
  <2> QED BY <2>2, <2>3
<1>3. CASE Save
  <2>1. disk' = mem /\ At("save") /\ hands = 0 /\ HomeAt(disk) /\ HomeAt(mem)
        /\ mem.ref \in Nets /\ disk.ref \in Nets
    BY <1>3 DEF Save, Untouched, IInv, TypeOK, Ledgers, HomeInv, At
  <2>2. mem.phase # 0 => mem.ref = disk.ref
    BY <2>1 DEF IInv, SessionInv, At
  <2>3. mem.phase = 0 => Shared = {mem.ref}
    BY <2>1 DEF HomeAt, Shared, Peopled
  <2>4. disk.phase = 0 => Shared = {disk.ref}
    BY <2>1 DEF HomeAt, Shared, Peopled
  <2>5. CASE disk.phase = 0 /\ mem.phase # 0
    BY <1>1, <2>1, <2>2, <2>5 DEF Shared, Kept!Next, Kept!Open, InFlight
  <2>6. CASE disk.phase # 0 /\ mem.phase = 0
    BY <1>1, <2>1, <2>3, <2>6 DEF Shared, Kept!Next, Kept!Commit, InFlight
  <2>7. CASE disk.phase = 0 <=> mem.phase = 0
    BY <1>1, <2>1, <2>2, <2>3, <2>4, <2>7, Stutters
  <2> QED BY <2>5, <2>6, <2>7
<1> QED BY <1>2, <1>3

\* The steps of the session that show nothing.
LEMMA QuietRefines ==
    ASSUME IInv, Begin \/ Fails \/ Dies \/ Steps \/ (\E c \in Containers : DetachFails(c)),
           ~(Mark2 \/ Mark4 \/ Save), ~\E c \in Containers : Connect(c) \/ Detach(c)
    PROVE  UNCHANGED Kept!vars
<1>1. disk' = disk \/ disk' = [disk EXCEPT !.floor = index]
  BY DEF Begin, BeginEmpty, BeginFresh, BeginResumed, Steps, Connected, Clone, Checked3,
     Detached, Checked5, Commit, Check3, Check56, Probed, Fails, Dies, DetachFails, ledgers
<1>2. box' = box
  BY DEF Begin, BeginEmpty, BeginFresh, BeginResumed, Steps, Connected, Clone, Checked3,
     Detached, Checked5, Commit, Check3, Check56, Fails, Dies, DetachFails
<1>3. disk'.ref = disk.ref /\ disk'.phase = disk.phase
  BY <1>1 DEF IInv, TypeOK, Ledgers
<1> QED BY <1>2, <1>3, Stutters

\* The other verbs find the family at home and leave it there.
LEMMA OthersRefine ==
    ASSUME Untouched, IInv, IInv', Peopled, Peopled', Others
    PROVE  UNCHANGED Kept!vars
<1>1. HomeShared /\ HomeShared'
  BY SharedAtHome, SharedAtHomeNext
<1>2. ASSUME disk.phase = 0, disk'.phase = 0, disk'.ref = disk.ref PROVE UNCHANGED Kept!vars
  BY <1>1, <1>2 DEF HomeShared, Untouched, Shared, Kept!vars, InFlight
<1>3. ASSUME UNCHANGED <<disk>>, \A c \in Containers : box'[c].on = box[c].on /\ Stands(c)' = Stands(c)
      PROVE  UNCHANGED Kept!vars
  BY <1>3 DEF Kept!vars, Fleet, InFlight
<1>4. ASSUME NEW c \in Containers, NEW ok \in BOOLEAN, VerbInstall(c, ok) \/ VerbStart(c, ok)
      PROVE  UNCHANGED Kept!vars
  <2>1. disk.phase = 0 /\ conf \in Nets /\ Permitted = {conf} /\ TypeOK
    BY <1>4, HomeIs DEF VerbInstall, VerbStart, Untouched, IInv
  <2>2. \E on : Verification(c, ok, on)
    BY <1>4, <2>1 DEF VerbInstall, VerbStart
  <2>3. disk'.phase = disk.phase /\ disk'.ref = disk.ref
    BY <2>1, <2>2, VerificationIs
  <2> QED BY <1>2, <2>1, <2>3
<1>5. ASSUME NEW c \in Containers, VerbStop(c) \/ Exits(c) PROVE UNCHANGED Kept!vars
  <2>1. /\ \A d \in Containers : box'[d].on = box[d].on /\ Stands(d)' = Stands(d)
        /\ disk'.phase = disk.phase /\ disk'.ref = disk.ref
    <3>1. /\ Stands(c) /\ box' = [box EXCEPT ![c].st = "stopped"]
          /\ disk' = disk \/ disk' = [disk EXCEPT !.desired[c] = "stopped"]
      BY <1>5 DEF VerbStop, Exits, Stands, ledgers
    <3> QED BY <3>1 DEF IInv, TypeOK, Boxes, Ledgers, Stands
  <2> QED BY <2>1 DEF Kept!vars, Fleet, InFlight
<1>6. ASSUME NEW c \in Containers, InstallDies(c) PROVE UNCHANGED Kept!vars
  BY <1>2, <1>6 DEF InstallDies, InFlight, ledgers
<1>7. ~\E c \in Containers : VerbUninstall(c)
  BY DEF VerbUninstall, Verb, Untouched
<1>8. ASSUME NEW n \in Nets, EditConf(n) PROVE UNCHANGED Kept!vars
  BY <1>8, Stutters DEF EditConf, ledgers
<1>9. ~(NewIndex \/ (\E n \in Nets : NetRemoved(n)) \/ \E c \in Containers, n \in Nets : Plug(c, n))
  BY DEF NewIndex, NetRemoved, Plug, Hand, Untouched, IInv, TypeOK
<1> QED BY <1>4, <1>5, <1>6, <1>7, <1>8, <1>9 DEF Others

LEMMA InitRefines == Init => Kept!Init /\ Peopled
<1> SUFFICES ASSUME Init PROVE Kept!Init /\ Peopled
  OBVIOUS
<1>1. PICK net \in Nets, S \in (SUBSET Containers) \ {{}} :
          /\ disk = [Blank EXCEPT !.ref = net, !.proven = S,
                        !.desired = [c \in Containers |-> IF c \in S THEN "running" ELSE "none"]]
          /\ box = [c \in Containers |->
                        IF c \in S THEN [st |-> "running", on |-> {net}] ELSE NoBox]
  BY DEF Init
<1>2. disk.ref = net /\ disk.phase = 0
  BY <1>1 DEF Blank
<1>3. Fleet = S /\ \A c \in S : box[c].on = {net}
  BY <1>1 DEF Fleet, Stands, NoBox
<1>4. Fleet # {} /\ {n \in Nets : \A c \in Fleet : n \in box[c].on} = {net}
  <2>1. S # {}
    OBVIOUS
  <2>2. PICK c \in S : box[c].on = {net}
    BY <1>3, <2>1
  <2>3. Fleet # {} /\ c \in Fleet /\ \A d \in Fleet : box[d].on = {net}
    BY <1>3, <2>2
  <2>4. \A n \in Nets : (\A d \in Fleet : n \in box[d].on) <=> n = net
    BY <2>2, <2>3
  <2> QED BY <2>3, <2>4
<1>5. InFlight = FALSE
  BY <1>2 DEF InFlight
<1> QED BY <1>1, <1>2, <1>4, <1>5 DEF Kept!Init, Peopled

\* net rebind implements the family network: there is always a network that
\* all containers share, and the one named is shared when no move is recorded.
THEOREM RebindKeepsTheFamilyTogether == ASSUME Untouched PROVE Spec => SharesOne
<1>1. IInv /\ IInv' /\ Peopled /\ Peopled' /\ [Next]_vars => [Kept!Next]_(Kept!vars)
  <2> SUFFICES ASSUME IInv, IInv', Peopled, Peopled', [Next]_vars PROVE Kept!Next \/ UNCHANGED Kept!vars
    OBVIOUS
  <2>1. CASE UNCHANGED vars
    BY <2>1, Stutters DEF vars
  <2>2. CASE Others
    BY <2>2, OthersRefine
  <2>3. ASSUME NEW c \in Containers, Connect(c) \/ Detach(c) PROVE Kept!Next \/ UNCHANGED Kept!vars
    BY <2>3, ConnectRefines, DetachRefines
  <2>4. CASE Mark2 \/ Mark4 \/ Save
    BY <2>4, WriteRefines
  <2>5. CASE /\ Next /\ ~Others /\ ~(Mark2 \/ Mark4 \/ Save)
             /\ ~\E c \in Containers : Connect(c) \/ Detach(c)
    BY <2>5, QuietRefines DEF Next
  <2> QED BY <2>1, <2>2, <2>3, <2>4, <2>5
<1>2. Untouched
  OBVIOUS
<1>3. IInv /\ Peopled /\ [Next]_vars => Peopled'
  BY <1>2, StaysPeopled
<1> QED BY <1>1, <1>3, Invariance, InitRefines, PTL DEF Spec, SharesOne, Kept!Spec
===============================================================================
