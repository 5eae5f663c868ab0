----------------------------- MODULE Repair_proofs ------------------------------
(***************************************************************************)
(* Proofs about Repair, for every set of containers, volumes and networks, *)
(* and every bound on the identities, the faults and the acts of the hand. *)
(***************************************************************************)
EXTENDS Repair, FiniteSetTheorems, TLAPS

USE RepairConstants DEF NoIdent, Rival, NoNonce

-----------------------------------------------------------------------------
(* Ledgers, files and the classes of objects.                               *)

LEMMA BlankIs ==
    /\ Blank \in Ledgers /\ Blank.mig = NoMig /\ Blank.ident = NoIdent
    /\ \A o \in Objects : Blank.rec[o] = NoNonce
    /\ \A c \in Containers : Blank.rec[c] = NoNonce /\ Blank.want[c] = "unset"
BY DEF Blank, Ledgers, NoMig, Objects

LEMMA GoodIs ==
    ASSUME NEW l \in Ledgers
    PROVE  Good(l) \in Files /\ Good(l).form = "good" /\ Good(l).led = l
BY DEF Good, Files

LEMMA BadIs ==
    ASSUME NEW form \in {"absent", "corrupt", "newer"}
    PROVE  Bad(form) \in Files /\ Bad(form).form = form /\ Bad(form).led = Blank
BY BlankIs DEF Bad, Files

LEMMA IdleIs ==
    /\ Idle \in Sessions /\ Idle.pc = "idle" /\ Idle.led = Blank /\ Idle.kept = "none"
    /\ Idle.choice = NoIdent /\ Idle.class = 0 /\ Idle.todo = {} /\ Idle.half = {}
BY BlankIs DEF Idle, Sessions

\* An identity, an anchor, a reference or a move set aside, what a ledger says
\* of the objects stays.
SameObjects(m, l) == m.rec = l.rec /\ m.owes = l.owes /\ m.want = l.want

LEMMA IdentIs ==
    ASSUME NEW l \in Ledgers, NEW i \in Idents
    PROVE  LET m == [l EXCEPT !.ident = i]
           IN  m \in Ledgers /\ SameObjects(m, l) /\ m.mig = l.mig /\ m.anchor = l.anchor /\ m.ident = i
BY DEF Ledgers, SameObjects

LEMMA AnchorIs ==
    ASSUME NEW l \in Ledgers, NEW a \in {"none", "one"}
    PROVE  LET m == [l EXCEPT !.anchor = a]
           IN  m \in Ledgers /\ SameObjects(m, l) /\ m.mig = l.mig /\ m.anchor = a
BY DEF Ledgers, SameObjects

LEMMA RefIs ==
    ASSUME NEW l \in Ledgers, NEW n \in NetIds \cup {NoNet},
           NEW m, m = [l EXCEPT !.ref = n]
    PROVE  m \in Ledgers /\ SameObjects(m, l) /\ m.mig = l.mig /\ m.anchor = l.anchor /\ m.ref = n
BY DEF Ledgers, SameObjects

LEMMA MigIs ==
    ASSUME NEW l \in Ledgers, NEW a \in NetIds, NEW b \in NetIds, NEW who \in SUBSET Containers,
           NEW m, m = [l EXCEPT !.ref = a, !.mig = [src |-> a, tgt |-> b, who |-> who]]
    PROVE  /\ m \in Ledgers /\ SameObjects(m, l) /\ m.anchor = l.anchor
           /\ m.mig.src = a /\ m.mig.tgt = b /\ m.mig.who = who /\ m.ref = a
BY DEF Ledgers, SameObjects

LEMMA RecordIs ==
    ASSUME NEW l \in Ledgers, NEW o \in Objects, NEW n \in Nonces \cup {NoNonce}
    PROVE  LET m == [l EXCEPT !.rec[o] = n]
           IN  /\ m \in Ledgers /\ m.owes = l.owes /\ m.want = l.want
               /\ m.mig = l.mig /\ m.anchor = l.anchor
               /\ \A q \in Objects : m.rec[q] = IF q = o THEN n ELSE l.rec[q]
BY DEF Ledgers

LEMMA OwesIs ==
    ASSUME NEW l \in Ledgers, NEW c \in Containers, NEW n \in NetIds \cup {NoNet}
    PROVE  LET m == [l EXCEPT !.owes[c] = n]
           IN  /\ m \in Ledgers /\ m.rec = l.rec /\ m.want = l.want
               /\ m.mig = l.mig /\ m.anchor = l.anchor
               /\ \A d \in Containers : m.owes[d] = IF d = c THEN n ELSE l.owes[d]
BY DEF Ledgers

LEMMA WantIs ==
    ASSUME NEW l \in Ledgers, NEW c \in Containers, NEW w \in {"running", "stopped"},
           NEW m, m = [l EXCEPT !.want[c] = w]
    PROVE  /\ m \in Ledgers /\ m.rec = l.rec /\ m.owes = l.owes /\ m.mig = l.mig
           /\ m.anchor = l.anchor
           /\ \A d \in Containers : m.want[d] = IF d = c THEN w ELSE l.want[d]
BY DEF Ledgers

\* A container read again owes its alias on an attachment it has.
LEMMA RecoveredIs ==
    ASSUME nets \in [Containers -> SUBSET NetIds], NEW l \in Ledgers, NEW c \in Containers,
           NEW m \in Recovered(l, c)
    PROVE  /\ m \in Ledgers /\ m.rec = l.rec /\ m.mig = l.mig /\ m.anchor = l.anchor
           /\ \A d \in Containers : d # c => m.owes[d] = l.owes[d] /\ m.want[d] = l.want[d]
           /\ m.want[c] # "unset"
           /\ nets[c] = {} \/ m.owes[c] \in NetIds
<1> DEFINE w == IF c \in running THEN "running" ELSE "stopped"
           wants == [l EXCEPT !.want[c] = w]
<1>0. w \in {"running", "stopped"}
  OBVIOUS
<1>2. m \in (IF nets[c] = {} THEN {wants} ELSE {[wants EXCEPT !.owes[c] = n] : n \in nets[c]})
  BY DEF Recovered
<1> HIDE DEF w
<1>1. /\ wants \in Ledgers /\ wants.rec = l.rec /\ wants.owes = l.owes /\ wants.mig = l.mig
      /\ wants.anchor = l.anchor /\ wants.want[c] # "unset"
      /\ \A d \in Containers : d # c => wants.want[d] = l.want[d]
  BY <1>0, WantIs
<1> HIDE DEF wants
<1>3. CASE nets[c] = {}
  BY <1>1, <1>2, <1>3
<1>4. CASE nets[c] # {}
  <2>1. PICK n \in nets[c] : m = [wants EXCEPT !.owes[c] = n]
    BY <1>2, <1>4
  <2>2. n \in NetIds
    OBVIOUS
  <2> QED BY <1>1, <2>1, <2>2, OwesIs
<1> QED BY <1>3, <1>4

LEMMA ClassIs ==
    /\ ClassOf[1] = {Own} /\ ClassOf[2] = Volumes /\ ClassOf[3] = Containers
    /\ \A k \in 1 .. 3 : ClassOf[k] \subseteq Objects
    /\ \A o \in Objects : \E k \in 1 .. 3 : o \in ClassOf[k]
<1>1. ClassOf[1] = {Own} /\ ClassOf[2] = Volumes /\ ClassOf[3] = Containers
  BY DEF ClassOf
<1>2. \A k \in 1 .. 3 : k = 1 \/ k = 2 \/ k = 3
  OBVIOUS
<1> QED BY <1>1, <1>2 DEF Objects

LEMMA GoneIs == \A o \in Objects : ~Stands(o) => obj[o].id = NoIdent
BY DEF Stands, Gone

-----------------------------------------------------------------------------
(* What each step leaves of the invariant.                                  *)

\* A command that ends, by any way, leaves a ledger that is sound.
LEMMA EndKeeps ==
    ASSUME IInv, End, UNCHANGED <<obj, nets, running, conf, proven, stirred, hands>>,
           faults' \in 0 .. MaxFaults, minted' \in Idents,
           \/ file' = file
           \/ \E l \in Ledgers : file' = Good(l) /\ SameObjects(l, s.led) /\ l.mig = s.led.mig
    PROVE  IInv'
<1>1. /\ s' \in Sessions /\ s'.pc = "idle" /\ s'.led = Blank /\ s'.half = {}
  BY IdleIs DEF End
<1>2. file' = file \/ \E l \in Ledgers : /\ file' \in Files /\ file'.form = "good" /\ file'.led = l
                                        /\ SameObjects(l, s.led) /\ l.mig = s.led.mig
  BY GoodIs
<1>3. TypeOK'
  BY <1>1, <1>2 DEF IInv, TypeOK
<1>4. LedgerInv'
  BY <1>1, <1>2, BlankIs DEF IInv, LedgerInv, Sound, Owed, SameObjects
<1>5. SessionInv'
  BY <1>1, BlankIs DEF SessionInv, At, Chosen
<1>6. RebuildInv'
  BY <1>1 DEF RebuildInv, At
<1> QED BY <1>3, <1>4, <1>5, <1>6 DEF IInv

LEMMA RepairStopKeeps ==
    ASSUME IInv, RepairStop, UNCHANGED <<obj, nets, running, conf, minted, proven, stirred, hands>>,
           faults' \in 0 .. MaxFaults
    PROVE  IInv'
<1>1. End /\ s.led \in Ledgers /\ minted' \in Idents /\ file' = Good(s.led)
  BY DEF RepairStop, IInv, TypeOK, Sessions
<1>2. SameObjects(s.led, s.led)
  BY DEF SameObjects
<1> QED BY <1>1, <1>2, EndKeeps

LEMMA BeginKeeps ==
    ASSUME IInv, NEW i \in Idents \cup {NoIdent}, RepairBegin(i)
    PROVE  IInv'
<1>1. /\ s' \in Sessions /\ s'.pc = "reset" /\ s'.choice = i /\ s'.led = Blank
      /\ s'.kept = "none" /\ s'.half = {}
  BY IdleIs DEF RepairBegin, Sessions
<1>2. /\ file' = file /\ nets' = nets /\ minted' = minted /\ proven' = proven /\ stirred' = {}
      /\ i = NoIdent => minted < MaxIdents
  BY DEF RepairBegin, world
<1>3. TypeOK'
  BY <1>1, <1>2 DEF IInv, TypeOK, RepairBegin, world, counters
<1>4. LedgerInv'
  BY <1>1, <1>2, BlankIs DEF IInv, LedgerInv, Sound, Owed
<1>5. SessionInv'
  BY <1>1, <1>2, BlankIs DEF SessionInv, At, Chosen
<1>6. RebuildInv'
  BY <1>1 DEF RebuildInv, At
<1> QED BY <1>3, <1>4, <1>5, <1>6 DEF IInv

LEMMA ResetKeeps ==
    ASSUME IInv, Reset
    PROVE  IInv'
<1>1. /\ s.pc = "reset" /\ s \in Sessions /\ s.led = Blank /\ s.kept = "none" /\ s.half = {}
      /\ file \in Files /\ minted \in Idents
      /\ s.choice = NoIdent => minted < MaxIdents
  BY DEF IInv, TypeOK, SessionInv, Reset, At, Chosen
<1>2. /\ obj' = obj /\ nets' = nets /\ running' = running /\ conf' = conf /\ minted' = minted
      /\ stirred' = stirred /\ faults' = faults /\ hands' = hands
  BY DEF Reset, world, counters
<1>3. CASE file.form = "newer" /\ file' = file /\ End /\ proven' = proven
  BY <1>1, <1>2, <1>3, EndKeeps DEF IInv, TypeOK
<1>4. CASE proven' = {} /\ file' = Bad("absent") /\ s' = [s EXCEPT !.pc = "write"]
  <2>1. /\ s' \in Sessions /\ s'.pc = "write" /\ s'.led = Blank /\ s'.kept = "none"
        /\ s'.choice = s.choice /\ s'.half = {}
    BY <1>1, <1>4 DEF Sessions
  <2>2. file' \in Files /\ file'.form = "absent" /\ file'.led = Blank
    BY <1>4, BadIs
  <2>3. TypeOK'
    BY <1>2, <1>4, <2>1, <2>2 DEF IInv, TypeOK
  <2>4. LedgerInv'
    BY <2>1, <2>2, BlankIs DEF LedgerInv, Sound, Owed
  <2>5. SessionInv'
    BY <1>1, <1>2, <2>1, <2>2, BlankIs DEF SessionInv, At, Chosen
  <2>6. RebuildInv'
    BY <2>1 DEF RebuildInv, At
  <2> QED BY <2>3, <2>4, <2>5, <2>6 DEF IInv
<1>5. CASE /\ proven' = {} /\ file' = Good(Blank)
           /\ s' = [s EXCEPT !.pc = "anchor",
                             !.kept = IF file.led.anchor = "one" THEN "one" ELSE "none"]
  <2>1. /\ s' \in Sessions /\ s'.pc = "anchor" /\ s'.led = Blank /\ s'.choice = s.choice
        /\ s'.half = {}
    BY <1>1, <1>5 DEF Sessions
  <2>2. file' \in Files /\ file'.form = "good" /\ file'.led = Blank
    BY <1>5, GoodIs, BlankIs
  <2>3. TypeOK'
    BY <1>2, <1>5, <2>1, <2>2 DEF IInv, TypeOK
  <2>4. LedgerInv'
    BY <2>1, <2>2, BlankIs DEF LedgerInv, Sound, Owed
  <2>5. SessionInv'
    BY <1>1, <1>2, <2>1, <2>2, BlankIs DEF SessionInv, At, Chosen
  <2>6. RebuildInv'
    BY <2>1 DEF RebuildInv, At
  <2> QED BY <2>3, <2>4, <2>5, <2>6 DEF IInv
<1> QED BY <1>3, <1>4, <1>5 DEF Reset

LEMMA WriteEmptyKeeps ==
    ASSUME IInv, WriteEmpty
    PROVE  IInv'
<1>1. /\ s.pc = "write" /\ s \in Sessions /\ s.led = Blank /\ s.kept = "none" /\ s.half = {}
      /\ s.choice = NoIdent => minted < MaxIdents
  BY DEF IInv, TypeOK, SessionInv, WriteEmpty, At, Chosen
<1>2. /\ s' \in Sessions /\ s'.pc = "identify" /\ s'.led = Blank /\ s'.kept = "none"
      /\ s'.choice = s.choice /\ s'.half = {}
  BY <1>1 DEF Sessions, WriteEmpty
<1>3. file' \in Files /\ file'.form = "good" /\ file'.led = Blank
  BY GoodIs, BlankIs DEF WriteEmpty
<1>4. TypeOK'
  BY <1>2, <1>3 DEF IInv, TypeOK, WriteEmpty, world, counters
<1>5. LedgerInv'
  BY <1>2, <1>3, BlankIs DEF LedgerInv, Sound, Owed
<1>6. SessionInv'
  BY <1>1, <1>2, <1>3, BlankIs DEF SessionInv, At, Chosen, WriteEmpty
<1>7. RebuildInv'
  BY <1>2 DEF RebuildInv, At
<1> QED BY <1>4, <1>5, <1>6, <1>7 DEF IInv

LEMMA KeepAnchorKeeps ==
    ASSUME IInv, KeepAnchor
    PROVE  IInv'
<1> DEFINE m == [Blank EXCEPT !.anchor = s.kept]
<1>1. /\ s.pc = "anchor" /\ s \in Sessions /\ file.led = Blank /\ s.kept \in {"none", "one"}
      /\ s.half = {}
      /\ s.choice = NoIdent => minted < MaxIdents
  BY DEF IInv, TypeOK, SessionInv, KeepAnchor, At, Chosen, Sessions
<1>2. /\ m \in Ledgers /\ m.rec = Blank.rec /\ m.want = Blank.want /\ m.mig = NoMig
      /\ m.anchor = s.kept
  <2>1. Blank \in Ledgers /\ Blank.mig = NoMig
    BY BlankIs
  <2> QED BY <1>1, <2>1 DEF Ledgers
<1>3. file' = Good(m)
  BY <1>1 DEF KeepAnchor
<1> HIDE DEF m
<1>4. file' \in Files /\ file'.form = "good" /\ file'.led = m
  BY <1>2, <1>3, GoodIs
<1>5. /\ s' \in Sessions /\ s'.pc = "identify" /\ s'.led = m /\ s'.kept = s.kept
      /\ s'.choice = s.choice /\ s'.half = {}
  BY <1>1, <1>2, <1>4 DEF Sessions, KeepAnchor
<1>6. TypeOK'
  BY <1>4, <1>5 DEF IInv, TypeOK, KeepAnchor, world, counters
<1>7. LedgerInv'
  BY <1>2, <1>4, <1>5, BlankIs DEF LedgerInv, Sound, Owed
<1>8. SessionInv'
  BY <1>1, <1>2, <1>4, <1>5 DEF SessionInv, At, Chosen, KeepAnchor
<1>9. RebuildInv'
  BY <1>5 DEF RebuildInv, At
<1> QED BY <1>6, <1>7, <1>8, <1>9 DEF IInv

LEMMA IdentifyKeeps ==
    ASSUME IInv, Identify
    PROVE  IInv'
<1> DEFINE i == IF s.choice = NoIdent THEN minted + 1 ELSE s.choice
           l == [s.led EXCEPT !.ident = i]
           todo == {o \in ClassOf[1] : Stands(o)}
<1>1. /\ s.pc = "identify" /\ s \in Sessions /\ s.led \in Ledgers /\ s.led.mig = NoMig
      /\ s.choice \in Idents \cup {NoIdent} /\ minted \in Idents
      /\ s.choice = NoIdent => minted < MaxIdents
      /\ s.kept = "one" => s.led.anchor = "one"
      /\ s.half = {}
  BY DEF IInv, TypeOK, SessionInv, Identify, At, Chosen, Sessions
<1>2. i \in Idents
  BY <1>1 DEF Idents
<1>3. /\ file' = Good(l)
      /\ \/ minted' = i /\ End
         \/ /\ s.choice # NoIdent /\ minted' = minted
            /\ s' = [s EXCEPT !.pc = "rebuild", !.class = 1, !.led = l,
                              !.todo = todo]
  BY DEF Identify
<1>4. /\ obj' = obj /\ nets' = nets /\ running' = running /\ conf' = conf /\ proven' = proven
      /\ stirred' = stirred /\ faults' = faults /\ hands' = hands
  BY DEF Identify, world, counters
<1> HIDE DEF i
<1>5. l \in Ledgers /\ SameObjects(l, s.led) /\ l.mig = s.led.mig /\ l.anchor = s.led.anchor
  BY <1>1, <1>2, IdentIs
<1> HIDE DEF l
<1>6. CASE minted' = i /\ End
  BY <1>2, <1>3, <1>4, <1>5, <1>6, EndKeeps DEF IInv, TypeOK
<1>7. CASE /\ s.choice # NoIdent /\ minted' = minted
           /\ s' = [s EXCEPT !.pc = "rebuild", !.class = 1, !.led = l,
                             !.todo = todo]
  <2>0. todo \subseteq Objects /\ \A o \in ClassOf[1] : o \notin todo => obj[o].id = NoIdent
    BY ClassIs, GoneIs DEF Objects
  <2> HIDE DEF todo
  <2>1. /\ s' \in Sessions /\ s'.pc = "rebuild" /\ s'.class = 1 /\ s'.led = l
        /\ s'.kept = s.kept /\ s'.choice = s.choice /\ s'.half = {}
        /\ s'.todo = todo
    <3>1. PICK k \in 0 .. 3 : k = 1
      OBVIOUS
    <3>2. s' = [s EXCEPT !.pc = "rebuild", !.class = k, !.led = l, !.todo = todo]
      BY <1>7, <3>1
    <3> QED BY <1>1, <1>5, <2>0, <3>1, <3>2 DEF Sessions
  <2>2. file' \in Files /\ file'.form = "good" /\ file'.led = l
    BY <1>3, <1>5, GoodIs
  <2>3. TypeOK'
    BY <1>4, <1>7, <2>1, <2>2 DEF IInv, TypeOK
  <2>4. LedgerInv'
    BY <1>4, <1>5, <2>1, <2>2 DEF IInv, LedgerInv, Sound, Owed, SameObjects
  <2>5. SessionInv'
    BY <1>1, <1>5, <1>7, <2>1, <2>2 DEF SessionInv, At, Chosen
  <2>6. RebuildInv'
    <3>1. \A k \in 1 .. 1 : k = 1
      OBVIOUS
    <3> QED BY <1>4, <1>7, <2>0, <2>1, <3>1 DEF RebuildInv, Rebuilt, At
  <2> QED BY <2>3, <2>4, <2>5, <2>6 DEF IInv
<1> QED BY <1>3, <1>6, <1>7

\* A step inside the rebuild that takes one object further: what the session
\* says of every other object stays.
LEMMA OneKeeps ==
    ASSUME IInv, s.pc = "rebuild", file' = file,
           UNCHANGED <<obj, nets, running, conf, minted, proven, stirred, faults, hands>>,
           NEW o \in Objects, NEW l \in Ledgers, NEW todo \in SUBSET Objects,
           NEW half \in SUBSET Containers,
           s' = [s EXCEPT !.todo = todo, !.half = half, !.led = l],
           s.todo \subseteq todo \cup {o}, s.half \subseteq half \cup {o},
           half \subseteq s.half \cup {o}, l.mig = s.led.mig, l.anchor = s.led.anchor, Owed(l),
           \A q \in Objects : q # o => l.rec[q] = s.led.rec[q],
           \A c \in Containers : c # o => l.want[c] = s.led.want[c],
           Rebuilt(o)'
    PROVE  IInv'
<1>1. /\ s \in Sessions /\ s.choice # NoIdent /\ s.led.mig = NoMig
      /\ s.class \in 1 .. 3 /\ file.form = "good" /\ file \in Files
      /\ s.kept = "one" => s.led.anchor = "one"
  BY DEF IInv, TypeOK, SessionInv, At, Chosen
<1>2. /\ s' \in Sessions /\ s'.pc = "rebuild" /\ s'.class = s.class /\ s'.led = l
      /\ s'.kept = s.kept /\ s'.choice = s.choice /\ s'.todo = todo /\ s'.half = half
  BY <1>1 DEF Sessions
<1>3. TypeOK'
  BY <1>2 DEF IInv, TypeOK
<1>4. LedgerInv'
  BY <1>1, <1>2 DEF IInv, LedgerInv, Sound, Owed
<1>5. SessionInv'
  BY <1>1, <1>2 DEF SessionInv, At, Chosen
<1>6. ASSUME NEW k \in 1 .. s.class, NEW q \in ClassOf[k], k < s.class \/ q \notin todo
      PROVE  Rebuilt(q)'
  <2>1. k \in 1 .. 3 /\ q \in Objects
    BY <1>1, ClassIs
  <2>2. CASE q = o
    BY <2>2
  <2>3. CASE q # o
    <3>1. Rebuilt(q)
      BY <1>1, <1>6, <2>3 DEF IInv, RebuildInv, At
    <3> QED BY <1>2, <2>1, <2>3, <3>1 DEF Rebuilt
  <2> QED BY <2>2, <2>3
<1>7. RebuildInv'
  <2>1. ASSUME NEW c \in half
        PROVE  Rebuilt(c)'
    <3>1. c \in Objects
      BY DEF Objects
    <3>2. c = o \/ (c # o /\ Rebuilt(c))
      BY DEF IInv, RebuildInv
    <3> QED BY <1>2, <3>1, <3>2 DEF Rebuilt
  <2> QED BY <1>2, <1>6, <2>1 DEF RebuildInv, At
<1> QED BY <1>3, <1>4, <1>5, <1>7 DEF IInv

LEMMA RebuildOneKeeps ==
    ASSUME IInv, NEW o \in Objects, RebuildOne(o)
    PROVE  IInv'
<1> DEFINE todo == s.todo \ {o}
           half == {o} \cap Containers
           r == [s.led EXCEPT !.rec[o] = obj[o].nonce]
<1>1. /\ s.pc = "rebuild" /\ s \in Sessions /\ s.led \in Ledgers /\ s.half = {}
      /\ Owed(s.led) /\ obj[o].nonce \in Nonces \cup {NoNonce}
      /\ todo \in SUBSET Objects /\ half \in SUBSET Containers
  BY DEF IInv, TypeOK, LedgerInv, Sound, RebuildOne, At, Sessions, Labels
<1>2. UNCHANGED <<obj, nets, running, conf, minted, proven, stirred, faults, hands>>
  BY DEF RebuildOne, world, counters
<1>3. CASE obj[o].id # s.choice /\ s' = [s EXCEPT !.todo = @ \ {o}] /\ file' = file
  <2>1. s' = [s EXCEPT !.todo = todo, !.half = {}, !.led = s.led]
    BY <1>1, <1>3 DEF Sessions
  <2>2. s'.choice = s.choice
    BY <1>1, <1>3 DEF Sessions
  <2>3. Rebuilt(o)'
    BY <1>2, <1>3, <2>2 DEF Rebuilt
  <2>4. {} \in SUBSET Containers /\ {} \subseteq s.half \cup {o} /\ s.todo \subseteq todo \cup {o}
    OBVIOUS
  <2> HIDE DEF todo, half
  <2> QED BY <1>1, <1>2, <1>3, <2>1, <2>3, <2>4, OneKeeps
<1>4. CASE RepairStop
  BY <1>2, <1>4, RepairStopKeeps DEF IInv, TypeOK
<1>5. CASE /\ file' = file
           /\ s' = [s EXCEPT !.todo = @ \ {o}, !.led.rec[o] = obj[o].nonce,
                             !.half = {o} \cap Containers]
           /\ obj[o].nonce # NoNonce
  <2>1. s' = [s EXCEPT !.todo = todo, !.half = half, !.led = r]
    BY <1>1, <1>5 DEF Sessions
  <2>2. /\ r \in Ledgers /\ r.owes = s.led.owes /\ r.want = s.led.want /\ r.mig = s.led.mig
        /\ r.anchor = s.led.anchor
        /\ \A q \in Objects : r.rec[q] = IF q = o THEN obj[o].nonce ELSE s.led.rec[q]
    BY <1>1, RecordIs
  <2> HIDE DEF r
  <2>3. s'.led = r /\ s'.half = half
    BY <1>1, <2>1 DEF Sessions
  <2>4. Rebuilt(o)'
    BY <1>2, <2>2, <2>3 DEF Rebuilt
  <2>5. half \subseteq s.half \cup {o} /\ s.todo \subseteq todo \cup {o}
    OBVIOUS
  <2>6. Owed(r)
    BY <1>1, <2>2 DEF Owed
  <2>7. /\ r \in Ledgers /\ r.mig = s.led.mig /\ r.anchor = s.led.anchor
        /\ \A q \in Objects : q # o => r.rec[q] = s.led.rec[q]
        /\ \A c \in Containers : c # o => r.want[c] = s.led.want[c]
    BY <2>2
  <2> HIDE DEF todo, half
  <2> QED BY <1>1, <1>2, <1>5, <2>1, <2>4, <2>5, <2>6, <2>7, OneKeeps
<1> QED BY <1>3, <1>4, <1>5 DEF RebuildOne

LEMMA RecoverStateKeeps ==
    ASSUME IInv, NEW c \in Containers, RecoverState(c)
    PROVE  IInv'
<1>1. /\ s.pc = "rebuild" /\ s \in Sessions /\ s.led \in Ledgers /\ c \in s.half
      /\ s.todo \in SUBSET Objects /\ s.choice # NoIdent /\ Owed(s.led)
      /\ nets \in [Containers -> SUBSET NetIds] /\ c \in Objects
  BY DEF IInv, TypeOK, SessionInv, LedgerInv, Sound, RecoverState, At, Chosen, Sessions, Objects
<1>2. /\ file' = file
      /\ UNCHANGED <<obj, nets, running, conf, minted, proven, stirred, faults, hands>>
  BY DEF RecoverState, world, counters
<1> DEFINE half == s.half \ {c}
<1>3. PICK l \in (IF Stands(c) THEN Recovered(s.led, c) ELSE {s.led}) :
         s' = [s EXCEPT !.half = half, !.led = l]
  BY DEF RecoverState
<1>4. /\ l \in Ledgers /\ l.rec = s.led.rec /\ l.mig = s.led.mig /\ l.anchor = s.led.anchor
      /\ \A d \in Containers : d # c => l.owes[d] = s.led.owes[d] /\ l.want[d] = s.led.want[d]
      /\ l = s.led \/ nets[c] = {} \/ l.owes[c] \in NetIds
      /\ Stands(c) => l.want[c] # "unset"
  <2>1. CASE Stands(c)
    BY <1>1, <1>3, <2>1, RecoveredIs
  <2>2. CASE ~Stands(c)
    BY <1>1, <1>3, <2>2
  <2> QED BY <2>1, <2>2
<1>5. Owed(l)
  <2>1. NoNet \notin NetIds
    BY DEF NetIds
  <2> QED BY <1>1, <1>4, <2>1 DEF Owed
<1>6. s'.led = l /\ s'.half = half /\ s'.choice = s.choice
  BY <1>1, <1>3 DEF Sessions
<1>7. Rebuilt(c)'
  <2>1. Rebuilt(c)
    BY <1>1 DEF IInv, RebuildInv
  <2>2. obj[c].id = s.choice => Stands(c)
    BY <1>1, GoneIs
  <2> QED BY <1>2, <1>4, <1>6, <2>1, <2>2 DEF Rebuilt
<1>8. s' = [s EXCEPT !.todo = s.todo, !.half = half, !.led = l]
  BY <1>1, <1>3 DEF Sessions
<1>9. /\ half \in SUBSET Containers /\ half \subseteq s.half \cup {c}
      /\ s.half \subseteq half \cup {c} /\ s.todo \subseteq s.todo \cup {c}
  BY <1>1 DEF Sessions
<1> HIDE DEF half
<1> QED BY <1>1, <1>2, <1>4, <1>5, <1>7, <1>8, <1>9, OneKeeps

LEMMA NextClassKeeps ==
    ASSUME IInv, NextClass
    PROVE  IInv'
<1>1. /\ s.pc = "rebuild" /\ s \in Sessions /\ s.led \in Ledgers /\ s.todo = {} /\ s.half = {}
      /\ s.choice # NoIdent /\ s.led.mig = NoMig /\ s.class \in 1 .. 3 /\ file.form = "good"
      /\ s.kept = "one" => s.led.anchor = "one"
  BY DEF IInv, TypeOK, SessionInv, NextClass, At, Chosen, Sessions
<1>2. /\ obj' = obj /\ nets' = nets /\ running' = running /\ conf' = conf /\ minted' = minted
      /\ proven' = proven /\ stirred' = stirred /\ faults' = faults /\ hands' = hands
      /\ file' = file
  BY DEF NextClass, world, counters
<1>3. \A k \in 1 .. s.class : \A o \in ClassOf[k] : Rebuilt(o)
  BY <1>1 DEF IInv, RebuildInv, At
<1>4. ASSUME s' \in Sessions, s'.led = s.led, s'.half = {}, s'.kept = s.kept, s'.choice = s.choice,
             s'.pc \in {"rebuild", "netref"}, s'.pc = "rebuild" => s'.class \in 1 .. 3,
             RebuildInv'
      PROVE  IInv'
  <2>1. TypeOK'
    BY <1>2, <1>4 DEF IInv, TypeOK
  <2>2. LedgerInv'
    BY <1>2, <1>4 DEF IInv, LedgerInv, Sound, Owed
  <2>3. SessionInv'
    BY <1>1, <1>2, <1>4 DEF SessionInv, At, Chosen
  <2> QED BY <1>4, <2>1, <2>2, <2>3 DEF IInv
<1>5. CASE s.class = 3
  <2>1. s' = [s EXCEPT !.pc = "netref", !.class = 0]
    BY <1>5 DEF NextClass
  <2>2. /\ s' \in Sessions /\ s'.led = s.led /\ s'.kept = s.kept /\ s'.choice = s.choice
        /\ s'.pc = "netref" /\ s'.half = {}
    <3>1. PICK k \in 0 .. 3 : k = 0
      OBVIOUS
    <3>2. s' = [s EXCEPT !.pc = "netref", !.class = k]
      BY <2>1, <3>1
    <3> QED BY <1>1, <3>2 DEF Sessions
  <2>3. \A o \in Objects : Rebuilt(o)
    BY <1>3, <1>5, ClassIs
  <2>4. RebuildInv'
    <3>1. \A o \in Objects : Rebuilt(o)'
      BY <1>1, <1>2, <2>2, <2>3 DEF Rebuilt
    <3> QED BY <2>2, <3>1 DEF RebuildInv, At
  <2> QED BY <1>4, <2>2, <2>4
<1>6. CASE s.class # 3
  <2> DEFINE todo == {o \in ClassOf[s.class + 1] : Stands(o)}
  <2>0. s.class \in 1 .. 2 /\ s.class + 1 \in 1 .. 3
    BY <1>1, <1>6
  <2>1. s' = [s EXCEPT !.class = s.class + 1, !.todo = todo]
    BY <1>6 DEF NextClass
  <2>2. todo \subseteq Objects /\ \A o \in ClassOf[s.class + 1] : o \notin todo => obj[o].id = NoIdent
    BY <2>0, ClassIs, GoneIs
  <2> HIDE DEF todo
  <2>3. /\ s' \in Sessions /\ s'.led = s.led /\ s'.kept = s.kept /\ s'.choice = s.choice
        /\ s'.pc = "rebuild" /\ s'.class = s.class + 1 /\ s'.todo = todo /\ s'.half = {}
    <3>1. PICK k \in 0 .. 3 : k = s.class + 1
      BY <2>0
    <3>2. s' = [s EXCEPT !.class = k, !.todo = todo]
      BY <2>1, <3>1
    <3> QED BY <1>1, <2>2, <3>1, <3>2 DEF Sessions
  <2>4. ASSUME NEW k \in 1 .. s.class + 1, NEW o \in ClassOf[k], k < s.class + 1 \/ o \notin todo
        PROVE  Rebuilt(o)'
    <3>1. CASE k < s.class + 1
      <4>1. k \in 1 .. s.class
        BY <2>0, <3>1
      <4> QED BY <1>1, <1>2, <1>3, <2>3, <4>1 DEF Rebuilt
    <3>2. CASE k = s.class + 1
      <4>1. o \in Objects /\ obj[o].id = NoIdent
        BY <2>0, <2>2, <2>4, <3>2, ClassIs
      <4> QED BY <1>1, <1>2, <2>3, <4>1 DEF Rebuilt
    <3> QED BY <2>0, <3>1, <3>2
  <2>5. RebuildInv'
    BY <2>3, <2>4 DEF RebuildInv, At
  <2> QED BY <1>4, <2>0, <2>3, <2>5
<1> QED BY <1>5, <1>6

LEMMA NetrefKeeps ==
    ASSUME IInv, NEW yes \in BOOLEAN, RepairNetref(yes)
    PROVE  IInv'
<1> DEFINE l == IF conf = NoNet THEN s.led
                ELSE IF Sources = {} THEN [s.led EXCEPT !.ref = conf]
                ELSE LET src == CHOOSE n \in Sources : TRUE
                     IN  [s.led EXCEPT !.ref = src,
                                       !.mig = [src |-> src, tgt |-> conf, who |-> Fleet]]
<1>1. /\ s.pc = "netref" /\ s \in Sessions /\ s.led \in Ledgers /\ s.led.mig = NoMig
      /\ s.choice # NoIdent /\ conf \in OpNets \cup {NoNet} /\ s.half = {}
      /\ s.kept = "one" => s.led.anchor = "one"
  BY DEF IInv, TypeOK, SessionInv, RepairNetref, At, Chosen, Sessions
<1>2. /\ obj' = obj /\ nets' = nets /\ running' = running /\ conf' = conf /\ minted' = minted
      /\ proven' = proven /\ stirred' = stirred /\ faults' = faults /\ hands' = hands
  BY DEF RepairNetref, world, counters
<1>3. \/ RepairStop
      \/ /\ file' = Good(l)
         /\ s' = [s EXCEPT !.pc = "verify", !.led = l,
                           !.todo = {c \in Containers : l.rec[c] # NoNonce}]
  BY DEF RepairNetref
<1>4. /\ l \in Ledgers /\ SameObjects(l, s.led) /\ l.anchor = s.led.anchor
      /\ l.mig # NoMig => l.mig.tgt # NoNet
  <2>1. CASE conf = NoNet \/ Sources = {}
    <3>1. conf = NoNet => l = s.led
      OBVIOUS
    <3>2. conf # NoNet => l = [s.led EXCEPT !.ref = conf]
      BY <2>1
    <3> HIDE DEF l
    <3>3. conf # NoNet => conf \in NetIds \cup {NoNet}
      BY <1>1 DEF NetIds
    <3> QED BY <1>1, <3>1, <3>2, <3>3, RefIs DEF SameObjects
  <2>2. CASE conf # NoNet /\ Sources # {}
    <3> DEFINE src == CHOOSE n \in Sources : TRUE
    <3>1. l = [s.led EXCEPT !.ref = src, !.mig = [src |-> src, tgt |-> conf, who |-> Fleet]]
      BY <2>2
    <3>2. src \in Sources
      BY <2>2
    <3> HIDE DEF l, src
    <3>3. src \in NetIds
      BY <3>2 DEF Sources, Votes, Fleet, IInv, TypeOK
    <3>4. conf \in NetIds /\ Fleet \in SUBSET Containers
      BY <1>1, <2>2 DEF NetIds, Fleet
    <3>5. /\ l \in Ledgers /\ SameObjects(l, s.led) /\ l.anchor = s.led.anchor /\ l.mig.tgt = conf
      BY <1>1, <3>1, <3>3, <3>4 DEF Ledgers, SameObjects
    <3> QED BY <2>2, <3>5
  <2> QED BY <2>1, <2>2
<1> HIDE DEF l
<1>5. CASE RepairStop
  BY <1>2, <1>5, RepairStopKeeps DEF IInv, TypeOK
<1>6. CASE /\ file' = Good(l)
           /\ s' = [s EXCEPT !.pc = "verify", !.led = l,
                             !.todo = {c \in Containers : l.rec[c] # NoNonce}]
  <2>1. /\ s' \in Sessions /\ s'.pc = "verify" /\ s'.led = l /\ s'.kept = s.kept
        /\ s'.choice = s.choice /\ s'.half = {}
    BY <1>1, <1>4, <1>6 DEF Sessions, Objects
  <2>2. file' \in Files /\ file'.form = "good" /\ file'.led = l
    BY <1>4, <1>6, GoodIs
  <2>3. TypeOK'
    BY <1>2, <2>1, <2>2 DEF IInv, TypeOK
  <2>4. LedgerInv'
    BY <1>2, <1>4, <2>1, <2>2 DEF IInv, LedgerInv, Sound, Owed, SameObjects
  <2>5. SessionInv'
    BY <1>1, <1>4, <2>1, <2>2 DEF SessionInv, At, Chosen
  <2>6. RebuildInv'
    BY <1>1, <1>2, <1>4, <2>1 DEF IInv, RebuildInv, Rebuilt, At, SameObjects
  <2> QED BY <2>3, <2>4, <2>5, <2>6 DEF IInv
<1> QED BY <1>3, <1>5, <1>6

LEMMA UnansweredKeeps ==
    ASSUME IInv, Unanswered
    PROVE  IInv'
<1>1. faults' \in 0 .. MaxFaults
  BY DEF IInv, TypeOK, Unanswered
<1> QED BY <1>1, RepairStopKeeps DEF Unanswered, world

LEMMA VerifyKeeps ==
    ASSUME IInv, NEW c \in Containers, VerifyRunning(c)
    PROVE  IInv'
<1> DEFINE l == [s.led EXCEPT !.owes[c] = NoNet]
<1>1. /\ s.pc = "verify" /\ s \in Sessions /\ s.led \in Ledgers /\ s.choice # NoIdent /\ s.half = {}
      /\ file.form = "good" /\ file.led = s.led /\ file \in Files
      /\ s.kept = "one" => s.led.anchor = "one"
  BY DEF IInv, TypeOK, SessionInv, VerifyRunning, At, Chosen, Sessions
<1>2. /\ obj' = obj /\ nets' = nets /\ running' = running /\ conf' = conf /\ minted' = minted
      /\ stirred' = stirred /\ faults' = faults /\ hands' = hands
  BY DEF VerifyRunning, world, counters
<1>3. \/ /\ file' = Good(l) /\ s' = [s EXCEPT !.todo = @ \ {c}, !.led = l]
         /\ proven' = proven \cup {c}
      \/ /\ s' = [s EXCEPT !.todo = @ \ {c}, !.led = s.led]
         /\ file' = file /\ proven' = proven
  BY <1>1 DEF VerifyRunning
<1>4. /\ l \in Ledgers /\ l.rec = s.led.rec /\ l.want = s.led.want /\ l.mig = s.led.mig
      /\ l.anchor = s.led.anchor
      /\ \A d \in Containers : l.owes[d] = IF d = c THEN NoNet ELSE s.led.owes[d]
  <2>1. s.led \in Ledgers /\ NoNet \in NetIds \cup {NoNet}
    BY <1>1
  <2> HIDE DEF l
  <2>2. \A m : m = [s.led EXCEPT !.owes[c] = NoNet]
        => /\ m \in Ledgers /\ m.rec = s.led.rec /\ m.want = s.led.want /\ m.mig = s.led.mig /\ m.anchor = s.led.anchor
           /\ \A d \in Containers : m.owes[d] = IF d = c THEN NoNet ELSE s.led.owes[d]
    BY <2>1, OwesIs
  <2> QED BY <2>2 DEF l
<1> HIDE DEF l
<1>5. PICK m \in Ledgers :
        /\ file' \in Files /\ file'.form = "good" /\ file'.led = m
        /\ s' = [s EXCEPT !.todo = s.todo \ {c}, !.led = m]
        /\ m.rec = s.led.rec /\ m.want = s.led.want /\ m.mig = s.led.mig
        /\ m.anchor = s.led.anchor
        /\ \/ m.owes = s.led.owes /\ proven' = proven
           \/ /\ proven' = proven \cup {c}
              /\ \A d \in Containers : d # c => m.owes[d] = s.led.owes[d]
  <2>1. file' = Good(l) => file' \in Files /\ file'.form = "good" /\ file'.led = l
    BY <1>4, GoodIs
  <2>2. CASE file' = Good(l)
    BY <1>1, <1>3, <1>4, <2>1, <2>2
  <2>3. CASE file' # Good(l)
    BY <1>1, <1>3, <2>3
  <2> QED BY <2>2, <2>3
<1>6. /\ s' \in Sessions /\ s'.pc = "verify" /\ s'.led = m /\ s'.kept = s.kept
      /\ s'.choice = s.choice /\ s'.half = {}
  BY <1>1, <1>5 DEF Sessions
<1>7. TypeOK'
  BY <1>2, <1>5, <1>6 DEF IInv, TypeOK
<1>8. LedgerInv'
  <2>1. Owed(s.led) /\ (s.led.mig # NoMig => s.led.mig.tgt # NoNet)
    BY DEF IInv, LedgerInv, Sound
  <2>2. Owed(m)'
    BY <1>2, <1>5, <2>1 DEF Owed
  <2>3. Owed(file.led)' /\ Owed(s.led)'
    BY <1>5, <1>6, <2>2 DEF Owed
  <2> QED BY <1>5, <1>6, <2>1, <2>3 DEF LedgerInv, Sound
<1>9. SessionInv'
  BY <1>1, <1>5, <1>6 DEF SessionInv, At, Chosen
<1>10. RebuildInv'
  BY <1>1, <1>2, <1>5, <1>6 DEF IInv, RebuildInv, Rebuilt, At
<1> QED BY <1>7, <1>8, <1>9, <1>10 DEF IInv

LEMMA EndsKeep ==
    ASSUME IInv, RepairEnds \/ Dies
    PROVE  IInv'
<1>1. faults' \in 0 .. MaxFaults /\ minted' \in Idents
  BY DEF IInv, TypeOK, RepairEnds, Dies, counters
<1> QED BY <1>1, EndKeeps DEF RepairEnds, Dies, world, counters

\* Where every label stays but of what the hand touched, and a container that
\* gains an attachment is counted as verified, nothing of the ledger is untrue.
LEMMA HandKeeps ==
    ASSUME IInv, UNCHANGED <<file, s, minted, faults>>,
           obj' \in [Objects -> Labels], nets' \in [Containers -> SUBSET NetIds],
           running' \subseteq Containers, conf' \in OpNets \cup {NoNet},
           proven' \subseteq Containers, stirred' \subseteq Objects, hands' \in 0 .. MaxHands,
           proven \subseteq proven', stirred \subseteq stirred',
           \A o \in Objects : o \notin stirred' => obj'[o] = obj[o],
           \A c \in Containers : nets'[c] # {} /\ c \notin proven' => nets[c] # {}
    PROVE  IInv'
<1>1. TypeOK'
  BY DEF IInv, TypeOK
<1>2. LedgerInv'
  <2>1. Owed(file.led) /\ Owed(s.led)
    BY DEF IInv, LedgerInv, Sound
  <2>2. Owed(file.led)' /\ Owed(s.led)'
    BY <2>1 DEF Owed
  <2> QED BY <2>2 DEF IInv, LedgerInv, Sound
<1>3. SessionInv'
  BY DEF IInv, SessionInv, At
<1>4. RebuildInv'
  <2>1. \A o \in Objects : Rebuilt(o) => Rebuilt(o)'
    BY DEF Rebuilt
  <2>2. \A k \in 1 .. 3 : \A o \in ClassOf[k] : o \in Objects
    BY ClassIs
  <2>3. At("rebuild") => s.class \in 1 .. 3
    BY DEF IInv, SessionInv
  <2>4. \A c \in s.half : c \in Objects
    BY DEF IInv, TypeOK, Sessions, Objects
  <2> QED BY <2>1, <2>2, <2>3, <2>4 DEF IInv, RebuildInv, At
<1> QED BY <1>1, <1>2, <1>3, <1>4 DEF IInv

LEMMA HandRemovesKeeps ==
    ASSUME IInv, NEW o \in Objects, HandRemoves(o)
    PROVE  IInv'
<1>1. Gone \in Labels
  BY DEF Gone, Labels
<1>2. /\ obj' \in [Objects -> Labels] /\ obj' = [obj EXCEPT ![o] = Gone]
      /\ stirred' = stirred \cup {o} /\ hands' \in 0 .. MaxHands
      /\ file' = file /\ s' = s /\ minted' = minted /\ faults' = faults
      /\ conf' = conf /\ proven' = proven
  BY <1>1 DEF IInv, TypeOK, HandRemoves, Hand
<1>3. /\ nets' \in [Containers -> SUBSET NetIds] /\ running' \subseteq Containers
      /\ \A c \in Containers : nets'[c] # {} => nets[c] # {}
  BY DEF IInv, TypeOK, HandRemoves
<1> QED BY <1>2, <1>3, HandKeeps DEF IInv, TypeOK

LEMMA AppearsKeeps ==
    ASSUME IInv, NEW o \in Objects, NEW i \in {1, Rival}, Appears(o, i)
    PROVE  IInv'
<1>1. i \in Idents \cup {Rival, NoIdent}
  BY DEF Idents
<1>2. PICK k \in Nonces \cup {NoNonce} : obj' = [obj EXCEPT ![o] = [id |-> i, nonce |-> k]]
  BY DEF Appears
<1>3. [id |-> i, nonce |-> k] \in Labels
  BY <1>1 DEF Labels
<1>4. /\ obj' \in [Objects -> Labels]
      /\ stirred' = stirred \cup {o} /\ hands' \in 0 .. MaxHands
      /\ file' = file /\ s' = s /\ minted' = minted /\ faults' = faults
      /\ conf' = conf /\ proven' = proven /\ nets' = nets /\ running' = running
  BY <1>2, <1>3 DEF IInv, TypeOK, Appears, Hand
<1> QED BY <1>2, <1>4, HandKeeps DEF IInv, TypeOK

LEMMA HandMovesKeeps ==
    ASSUME IInv, NEW c \in Containers, HandMoves(c)
    PROVE  IInv'
<1>1. PICK ns \in SUBSET NetIds : nets' = [nets EXCEPT ![c] = ns]
  BY DEF HandMoves
<1>2. /\ nets' \in [Containers -> SUBSET NetIds]
      /\ \A d \in Containers : d # c => nets'[d] = nets[d]
  BY <1>1 DEF IInv, TypeOK
<1>3. /\ stirred' = stirred \cup {c} /\ hands' \in 0 .. MaxHands /\ c \in Objects
      /\ file' = file /\ s' = s /\ minted' = minted /\ faults' = faults
      /\ conf' = conf /\ proven' = proven \cup {c} /\ obj' = obj /\ running' = running
  BY DEF IInv, TypeOK, HandMoves, Hand, Objects
<1> QED BY <1>2, <1>3, HandKeeps DEF IInv, TypeOK

LEMMA HandFlipsKeeps ==
    ASSUME IInv, NEW c \in Containers, HandFlips(c)
    PROVE  IInv'
<1>1. /\ stirred' = stirred \cup {c} /\ hands' \in 0 .. MaxHands /\ c \in Objects
      /\ file' = file /\ s' = s /\ minted' = minted /\ faults' = faults
      /\ conf' = conf /\ proven' = proven /\ obj' = obj /\ nets' = nets
      /\ running' \subseteq Containers
  BY DEF IInv, TypeOK, HandFlips, Hand, Objects
<1> QED BY <1>1, HandKeeps DEF IInv, TypeOK

LEMMA RepointsKeeps ==
    ASSUME IInv, Repoints
    PROVE  IInv'
<1>1. /\ stirred' = stirred /\ hands' \in 0 .. MaxHands /\ conf' \in OpNets \cup {NoNet}
      /\ file' = file /\ s' = s /\ minted' = minted /\ faults' = faults
      /\ proven' = proven /\ obj' = obj /\ nets' = nets /\ running' = running
  BY DEF IInv, TypeOK, Repoints, Hand
<1> QED BY <1>1, HandKeeps DEF IInv, TypeOK

LEMMA DamagesKeeps ==
    ASSUME IInv, Damages
    PROVE  IInv'
<1>1. PICK form \in {"absent", "corrupt", "newer"} : file' = Bad(form)
  BY DEF Damages
<1>2. file' \in Files /\ file'.form = form /\ file'.led = Blank
  BY <1>1, BadIs
<1>3. /\ stirred' = stirred /\ hands' \in 0 .. MaxHands
      /\ conf' = conf /\ s' = s /\ minted' = minted /\ faults' = faults
      /\ proven' = proven /\ obj' = obj /\ nets' = nets /\ running' = running /\ s.pc = "idle"
  BY DEF IInv, TypeOK, Damages, Hand, At, world
<1>4. TypeOK'
  BY <1>2, <1>3 DEF IInv, TypeOK
<1>5. LedgerInv'
  BY <1>2, <1>3, BlankIs DEF IInv, LedgerInv, Sound, Owed
<1>6. SessionInv'
  BY <1>3 DEF IInv, SessionInv, At, Chosen
<1>7. RebuildInv'
  BY <1>3 DEF IInv, SessionInv, RebuildInv, At
<1> QED BY <1>4, <1>5, <1>6, <1>7 DEF IInv

\* Between commands, what a verb writes has only to be sound.
LEMMA VerbKeeps ==
    ASSUME IInv, s.pc = "idle", UNCHANGED <<conf, s, stirred, faults, hands>>,
           NEW l \in Ledgers, file' = Good(l), Sound(l)', minted' \in Idents,
           obj' \in [Objects -> Labels], nets' \in [Containers -> SUBSET NetIds],
           running' \subseteq Containers, proven' \subseteq Containers
    PROVE  IInv'
<1>1. file' \in Files /\ file'.form = "good" /\ file'.led = l
  BY GoodIs
<1>2. TypeOK'
  BY <1>1 DEF IInv, TypeOK
<1>3. LedgerInv'
  <2>1. s'.led = Blank
    BY DEF IInv, SessionInv
  <2>2. Sound(s.led)'
    BY <2>1, BlankIs DEF Sound, Owed
  <2>3. Sound(file.led)'
    BY <1>1 DEF Sound, Owed
  <2> QED BY <1>1, <2>2, <2>3 DEF LedgerInv
<1>4. SessionInv'
  BY DEF IInv, SessionInv, At, Chosen
<1>5. RebuildInv'
  BY DEF IInv, SessionInv, RebuildInv, At
<1> QED BY <1>2, <1>3, <1>4, <1>5 DEF IInv

LEMMA ResumeKeeps ==
    ASSUME IInv, MigResume
    PROVE  IInv'
<1> DEFINE m == file.led.mig
           owes == [c \in Containers |-> IF c \notin m.who THEN file.led.owes[c]
                                         ELSE IF c \in running THEN NoNet ELSE m.tgt]
           l == [file.led EXCEPT !.mig = NoMig, !.ref = m.tgt, !.owes = owes]
<1>1. /\ s.pc = "idle" /\ file.led \in Ledgers /\ m # NoMig
      /\ m.tgt \in NetIds \cup {NoNet} /\ m.who \subseteq Containers
      /\ m.tgt # NoNet /\ Owed(file.led)
  BY DEF IInv, TypeOK, LedgerInv, Sound, MigResume, At, Files, Ledgers
<1>2. /\ nets' = [c \in Containers |-> IF c \in m.who THEN {m.tgt} ELSE nets[c]]
      /\ file' = Good(l) /\ proven' = proven \cup (m.who \cap running)
      /\ UNCHANGED <<obj, running, conf, minted, s, stirred, faults, hands>>
  <2>1. file' = Good([file.led EXCEPT !.mig = NoMig, !.ref = m.tgt,
                        !.owes = [c \in Containers |->
                           IF c \notin m.who THEN @[c]
                           ELSE IF c \in running THEN NoNet ELSE m.tgt]])
    BY DEF MigResume
  <2> QED BY <2>1 DEF MigResume, counters
<1> HIDE DEF m
<1>3. /\ owes \in [Containers -> NetIds \cup {NoNet}]
      /\ \A c \in Containers : owes[c] = IF c \notin m.who THEN file.led.owes[c]
                                         ELSE IF c \in running THEN NoNet ELSE m.tgt
  BY <1>1 DEF Ledgers
<1> HIDE DEF owes
<1>4. PICK k \in Ledgers :
         /\ file' = Good(k) /\ k.rec = file.led.rec /\ k.want = file.led.want
         /\ k.owes = owes /\ k.mig = NoMig
  <2>1. /\ l \in Ledgers /\ l.rec = file.led.rec /\ l.want = file.led.want
        /\ l.owes = owes /\ l.mig = NoMig
    BY <1>1, <1>3 DEF Ledgers, NoMig
  <2> HIDE DEF l
  <2> QED BY <1>2, <2>1
<1>5. Sound(k)'
  <2>1. ASSUME NEW c \in Containers, k.want[c] # "unset", k.owes[c] = NoNet, nets'[c] # {}
        PROVE  c \in proven'
    <3>1. CASE c \in m.who
      BY <1>1, <1>2, <1>3, <1>4, <2>1, <3>1
    <3>2. CASE c \notin m.who
      <4>1. file.led.want[c] # "unset" /\ file.led.owes[c] = NoNet /\ nets[c] # {}
        BY <1>2, <1>3, <1>4, <2>1, <3>2
      <4> QED BY <1>1, <1>2, <4>1 DEF Owed
    <3> QED BY <3>1, <3>2
  <2> QED BY <1>4, <2>1 DEF Sound, Owed
<1>6. nets' \in [Containers -> SUBSET NetIds]
  <2>1. m.tgt \in NetIds /\ nets \in [Containers -> SUBSET NetIds]
    BY <1>1 DEF IInv, TypeOK
  <2> QED BY <1>2, <2>1
<1> QED BY <1>1, <1>2, <1>4, <1>5, <1>6, VerbKeeps DEF IInv, TypeOK

LEMMA InstallKeeps ==
    ASSUME IInv, NEW c \in Containers, Install(c)
    PROVE  IInv'
<1>1. PICK i \in Idents :
        LET l == [file.led EXCEPT !.ident = i] IN
        /\ Identity(i) /\ minted' = IF i > minted THEN i ELSE minted
        /\ \/ file' = Good(l) /\ UNCHANGED <<obj, nets, running, proven>>
           \/ \E n \in NetIds, own \in Labels :
              \E l2 \in {l, [l EXCEPT !.rec[Own] = 1], [l EXCEPT !.ref = conf]} :
                /\ Joins(l, n, l2, own)
                /\ \/ /\ file' = Good(l2) /\ obj' = [obj EXCEPT ![Own] = own]
                      /\ UNCHANGED <<nets, running, proven>>
                   \/ /\ obj[c] \in {Gone, [id |-> i, nonce |-> l2.rec[c]]}
                      /\ LET k == IF obj[c].nonce = 1 THEN 2 ELSE 1 IN
                         /\ obj' = [obj EXCEPT ![Own] = own, ![c] = [id |-> i, nonce |-> k]]
                         /\ file' = Good([l2 EXCEPT !.rec[c] = k, !.want[c] = "running",
                                                    !.owes[c] = NoNet])
                      /\ nets' = [nets EXCEPT ![c] = {n}]
                      /\ running' = running \cup {c} /\ proven' = proven \cup {c}
  BY DEF Install
<1> DEFINE l == [file.led EXCEPT !.ident = i]
<1>2. /\ s.pc = "idle" /\ file.led \in Ledgers /\ minted' \in Idents
      /\ conf \in NetIds \cup {NoNet}
      /\ obj \in [Objects -> Labels] /\ nets \in [Containers -> SUBSET NetIds]
      /\ running \subseteq Containers /\ proven \subseteq Containers
      /\ Owed(file.led) /\ (file.led.mig # NoMig => file.led.mig.tgt # NoNet)
  <2>1. minted' \in Idents
    BY <1>1 DEF IInv, TypeOK
  <2>2. s.pc = "idle" /\ file.led \in Ledgers /\ conf \in NetIds \cup {NoNet}
    BY DEF IInv, TypeOK, Files, NetIds, Install, At
  <2>3. Sound(file.led)
    BY DEF IInv, LedgerInv
  <2> QED BY <2>1, <2>2, <2>3 DEF IInv, TypeOK, Sound
<1>3. UNCHANGED <<conf, s, stirred, faults, hands>>
  BY DEF Install, counters
<1>4. /\ l \in Ledgers /\ l.rec = file.led.rec /\ l.owes = file.led.owes /\ l.mig = file.led.mig
      /\ l.want = file.led.want
  BY <1>2, IdentIs DEF SameObjects
<1>5. \/ file' = Good(l) /\ UNCHANGED <<obj, nets, running, proven>>
      \/ \E n \in NetIds, own \in Labels :
          \E l2 \in {l, [l EXCEPT !.rec[Own] = 1], [l EXCEPT !.ref = conf]} :
            /\ Joins(l, n, l2, own)
            /\ \/ /\ file' = Good(l2) /\ obj' = [obj EXCEPT ![Own] = own]
                  /\ UNCHANGED <<nets, running, proven>>
               \/ /\ obj[c] \in {Gone, [id |-> i, nonce |-> l2.rec[c]]}
                  /\ LET k == IF obj[c].nonce = 1 THEN 2 ELSE 1 IN
                     /\ obj' = [obj EXCEPT ![Own] = own, ![c] = [id |-> i, nonce |-> k]]
                     /\ file' = Good([l2 EXCEPT !.rec[c] = k, !.want[c] = "running",
                                                !.owes[c] = NoNet])
                  /\ nets' = [nets EXCEPT ![c] = {n}]
                  /\ running' = running \cup {c} /\ proven' = proven \cup {c}
  BY <1>1
<1> HIDE DEF l
<1>6. ASSUME NEW l2 \in {l, [l EXCEPT !.rec[Own] = 1], [l EXCEPT !.ref = conf]}
      PROVE  /\ l2 \in Ledgers /\ l2.owes = file.led.owes /\ l2.mig = file.led.mig
             /\ l2.want = file.led.want
             /\ \A d \in Containers : l2.rec[d] = file.led.rec[d]
  <2>1. Own \in Objects /\ Own \notin Containers /\ Containers \subseteq Objects
    BY DEF Objects
  <2>2. 1 \in Nonces \cup {NoNonce}
    BY DEF Nonces
  <2>3. CASE l2 = l
    BY <1>4, <2>3
  <2>4. CASE l2 = [l EXCEPT !.rec[Own] = 1]
    BY <1>4, <2>1, <2>2, <2>4, RecordIs
  <2>5. CASE l2 = [l EXCEPT !.ref = conf]
    BY <1>2, <1>4, <2>5, RefIs DEF SameObjects
  <2> QED BY <2>3, <2>4, <2>5
<1>7. CASE file' = Good(l) /\ UNCHANGED <<obj, nets, running, proven>>
  <2>1. PICK k \in Ledgers : /\ file' = Good(k) /\ k.rec = file.led.rec
                           /\ k.owes = file.led.owes /\ k.mig = file.led.mig
                           /\ k.want = file.led.want
    BY <1>4, <1>7
  <2>2. Sound(k)'
    BY <1>2, <1>7, <2>1 DEF Sound, Owed
  <2> QED BY <1>2, <1>3, <1>7, <2>1, <2>2, VerbKeeps
<1>8. ASSUME NEW n \in NetIds, NEW own \in Labels,
             NEW l2 \in {l, [l EXCEPT !.rec[Own] = 1], [l EXCEPT !.ref = conf]},
             file' = Good(l2), obj' = [obj EXCEPT ![Own] = own],
             UNCHANGED <<nets, running, proven>>
      PROVE  IInv'
  <2>1. /\ l2 \in Ledgers /\ l2.owes = file.led.owes /\ l2.mig = file.led.mig
        /\ l2.want = file.led.want
        /\ \A d \in Containers : l2.rec[d] = file.led.rec[d]
    BY <1>6, <1>8
  <2>2. Sound(l2)'
    BY <1>2, <1>8, <2>1 DEF Sound, Owed
  <2>3. obj' \in [Objects -> Labels]
    BY <1>2, <1>8
  <2> QED BY <1>2, <1>3, <1>8, <2>1, <2>2, <2>3, VerbKeeps
<1>9. ASSUME NEW n \in NetIds, NEW own \in Labels,
             NEW l2 \in {l, [l EXCEPT !.rec[Own] = 1], [l EXCEPT !.ref = conf]},
             NEW k \in Nonces,
             obj' = [obj EXCEPT ![Own] = own, ![c] = [id |-> i, nonce |-> k]],
             file' = Good([l2 EXCEPT !.rec[c] = k, !.want[c] = "running", !.owes[c] = NoNet]),
             nets' = [nets EXCEPT ![c] = {n}],
             running' = running \cup {c}, proven' = proven \cup {c}
      PROVE  IInv'
  <2> DEFINE l3 == [l2 EXCEPT !.rec[c] = k, !.want[c] = "running", !.owes[c] = NoNet]
  <2>1. /\ l2 \in Ledgers /\ l2.owes = file.led.owes /\ l2.mig = file.led.mig
        /\ l2.want = file.led.want
        /\ \A d \in Containers : l2.rec[d] = file.led.rec[d]
    BY <1>6, <1>9
  <2>2. /\ l3 \in Ledgers /\ l3.mig = l2.mig
        /\ \A d \in Containers : d # c => /\ l3.rec[d] = l2.rec[d] /\ l3.owes[d] = l2.owes[d]
                                          /\ l3.want[d] = l2.want[d]
    <3>1. c \in Objects /\ Containers \subseteq Objects /\ k \in Nonces \cup {NoNonce}
      BY DEF Objects
    <3> QED BY <2>1, <3>1 DEF Ledgers
  <2>3. file' = Good(l3)
    BY <1>9
  <2> HIDE DEF l3
  <2>4. Sound(l3)'
    BY <1>2, <1>9, <2>1, <2>2 DEF Sound, Owed
  <2>5. [id |-> i, nonce |-> k] \in Labels
    BY DEF Labels
  <2>6. obj' \in [Objects -> Labels] /\ nets' \in [Containers -> SUBSET NetIds]
        /\ running' \subseteq Containers /\ proven' \subseteq Containers
    BY <1>2, <1>9, <2>5
  <2> QED BY <1>2, <1>3, <2>2, <2>3, <2>4, <2>6, VerbKeeps
<1>10. (IF obj[c].nonce = 1 THEN 2 ELSE 1) \in Nonces
  BY DEF Nonces
<1>11. CASE \E n \in NetIds, own \in Labels :
          \E l2 \in {l, [l EXCEPT !.rec[Own] = 1], [l EXCEPT !.ref = conf]} :
            /\ Joins(l, n, l2, own)
            /\ \/ /\ file' = Good(l2) /\ obj' = [obj EXCEPT ![Own] = own]
                  /\ UNCHANGED <<nets, running, proven>>
               \/ /\ obj[c] \in {Gone, [id |-> i, nonce |-> l2.rec[c]]}
                  /\ LET k == IF obj[c].nonce = 1 THEN 2 ELSE 1 IN
                     /\ obj' = [obj EXCEPT ![Own] = own, ![c] = [id |-> i, nonce |-> k]]
                     /\ file' = Good([l2 EXCEPT !.rec[c] = k, !.want[c] = "running",
                                                !.owes[c] = NoNet])
                  /\ nets' = [nets EXCEPT ![c] = {n}]
                  /\ running' = running \cup {c} /\ proven' = proven \cup {c}
  <2>1. PICK n \in NetIds, own \in Labels,
             l2 \in {l, [l EXCEPT !.rec[Own] = 1], [l EXCEPT !.ref = conf]} :
          /\ Joins(l, n, l2, own)
          /\ \/ /\ file' = Good(l2) /\ obj' = [obj EXCEPT ![Own] = own]
                /\ UNCHANGED <<nets, running, proven>>
             \/ /\ obj[c] \in {Gone, [id |-> i, nonce |-> l2.rec[c]]}
                /\ LET k == IF obj[c].nonce = 1 THEN 2 ELSE 1 IN
                   /\ obj' = [obj EXCEPT ![Own] = own, ![c] = [id |-> i, nonce |-> k]]
                   /\ file' = Good([l2 EXCEPT !.rec[c] = k, !.want[c] = "running",
                                              !.owes[c] = NoNet])
                /\ nets' = [nets EXCEPT ![c] = {n}]
                /\ running' = running \cup {c} /\ proven' = proven \cup {c}
    BY <1>11
  <2>2. CASE /\ file' = Good(l2) /\ obj' = [obj EXCEPT ![Own] = own]
             /\ UNCHANGED <<nets, running, proven>>
    BY <1>8, <2>2
  <2> DEFINE k == IF obj[c].nonce = 1 THEN 2 ELSE 1
  <2>3. CASE /\ obj' = [obj EXCEPT ![Own] = own, ![c] = [id |-> i, nonce |-> k]]
             /\ file' = Good([l2 EXCEPT !.rec[c] = k, !.want[c] = "running",
                                        !.owes[c] = NoNet])
             /\ nets' = [nets EXCEPT ![c] = {n}]
             /\ running' = running \cup {c} /\ proven' = proven \cup {c}
    <3>1. PICK kk \in Nonces : kk = k
      BY <1>10
    <3> HIDE DEF k
    <3> QED BY <1>9, <2>3, <3>1
  <2> QED BY <2>1, <2>2, <2>3
<1> QED BY <1>5, <1>7, <1>11

LEMMA InitIsSound == Init => IInv
<1> SUFFICES ASSUME Init PROVE IInv
  OBVIOUS
<1>1. PICK home \in NetIds, anchor \in {"one", "many"}, up \in SUBSET Containers :
        /\ obj = [o \in Objects |-> IF o = Own /\ home # Own THEN Gone
                                    ELSE [id |-> 1, nonce |-> 1]]
        /\ nets = [c \in Containers |-> {home}]
        /\ running = up
        /\ conf \in OpNets \cup {NoNet}
        /\ file \in {Bad(form) : form \in {"absent", "corrupt", "newer"}} \cup
              {Good([Complete(1) EXCEPT
                 !.anchor = anchor,
                 !.want = [c \in Containers |-> IF c \in up THEN "running" ELSE "stopped"],
                 !.ref = IF home = Own THEN NoNet ELSE home])}
        /\ minted = 1 /\ s = Idle
        /\ proven = Containers /\ stirred = {}
        /\ faults = 0 /\ hands = 0
  BY DEF Init
<1> DEFINE want == [c \in Containers |-> IF c \in up THEN "running" ELSE "stopped"]
           ref == IF home = Own THEN NoNet ELSE home
           l == [Complete(1) EXCEPT !.anchor = anchor, !.want = want, !.ref = ref]
<1>2. /\ 1 \in Idents /\ Gone \in Labels /\ [id |-> 1, nonce |-> 1] \in Labels
      /\ 0 \in 0 .. MaxFaults /\ 0 \in 0 .. MaxHands
  BY DEF Idents, Gone, Labels, Nonces
<1>3. obj \in [Objects -> Labels]
  BY <1>1, <1>2
<1>4. Complete(1) \in Ledgers /\ Complete(1).mig = NoMig
  <2>1. [o \in Objects |-> obj[o].nonce] \in [Objects -> Nonces \cup {NoNonce}]
    BY <1>3 DEF Labels
  <2>2. Blank \in Ledgers /\ Blank.mig = NoMig
    BY BlankIs
  <2> QED BY <1>2, <2>1, <2>2 DEF Complete, Ledgers
<1>5. /\ want \in [Containers -> {"unset", "running", "stopped"}]
      /\ ref \in NetIds \cup {NoNet}
  OBVIOUS
<1>6. file \in {Bad(form) : form \in {"absent", "corrupt", "newer"}} \cup {Good(l)}
  BY <1>1
<1> HIDE DEF want, ref
<1>7. l \in Ledgers /\ l.mig = NoMig
  BY <1>4, <1>5 DEF Ledgers
<1> HIDE DEF l
<1>8. /\ file \in Files /\ file.led.mig = NoMig
      /\ file.form # "good" => file.led = Blank
  BY <1>6, <1>7, GoodIs, BadIs, BlankIs
<1>9. nets \in [Containers -> SUBSET NetIds]
  BY <1>1
<1>10. TypeOK
  BY <1>1, <1>2, <1>3, <1>8, <1>9, IdleIs DEF TypeOK
<1>11. LedgerInv
  BY <1>1, <1>8, IdleIs, BlankIs DEF LedgerInv, Sound, Owed
<1>12. SessionInv
  BY <1>1, IdleIs, BlankIs DEF SessionInv, At, Chosen
<1>13. RebuildInv
  BY <1>1, IdleIs DEF RebuildInv, At
<1> QED BY <1>10, <1>11, <1>12, <1>13 DEF IInv

LEMMA NextKeeps == IInv /\ [Next]_vars => IInv'
<1> SUFFICES ASSUME IInv, [Next]_vars PROVE IInv'
  OBVIOUS
<1>1. CASE \E i \in Idents \cup {NoIdent} : RepairBegin(i)
  BY <1>1, BeginKeeps
<1>2. CASE SessionStep
  BY <1>2, ResetKeeps, WriteEmptyKeeps, KeepAnchorKeeps, IdentifyKeeps, NextClassKeeps,
     RebuildOneKeeps, RecoverStateKeeps, NetrefKeeps, VerifyKeeps, EndsKeep DEF SessionStep
<1>3. CASE RepairNetref(FALSE)
  BY <1>3, NetrefKeeps
<1>4. CASE Unanswered \/ Dies
  BY <1>4, UnansweredKeeps, EndsKeep
<1>5. CASE \E c \in Containers : Install(c)
  BY <1>5, InstallKeeps
<1>6. CASE MigResume
  BY <1>6, ResumeKeeps
<1>7. CASE Hands
  BY <1>7, HandRemovesKeeps, AppearsKeeps, HandMovesKeeps, HandFlipsKeeps, RepointsKeeps,
     DamagesKeeps DEF Hands
<1>8. CASE UNCHANGED vars
  <2>1. /\ file' = file /\ s' = s /\ minted' = minted /\ faults' = faults /\ hands' = hands
        /\ conf' = conf /\ proven' = proven /\ obj' = obj /\ nets' = nets
        /\ running' = running /\ stirred' = stirred
    BY <1>8 DEF vars
  <2> QED BY <2>1, HandKeeps DEF IInv, TypeOK
<1> QED BY <1>1, <1>2, <1>3, <1>4, <1>5, <1>6, <1>7, <1>8 DEF Next

-----------------------------------------------------------------------------
(* What a repair leaves.                                                    *)

\* The inductive invariant of the repair holds in every reachable state: what
\* resetLedger, the rebuild and the verification of repair.go leave in the file
\* and in the session's copy, at each place of the command.
THEOREM Invariance == Spec => []IInv
BY InitIsSound, NextKeeps, PTL DEF Spec

\* No ledger records the desired state of an attached container without the
\* alias check that goes with it, whatever ran, died or was done by hand, unless
\* the alias was verified live since the ledger was last emptied: state.Commit
\* of recoverContainerState writes the two together, and nothing parts them.
THEOREM ChecksAreNotAssumed == Spec => []NothingAssumedProven
<1>1. IInv => NothingAssumedProven
  BY DEF IInv, LedgerInv, Sound, Owed, NothingAssumedProven
<1> QED BY <1>1, Invariance, PTL

\* A repair that reports success has recorded, with the right nonce, every
\* object of the identity that nobody touched since it began, and the desired
\* state of each container among them: what rebuild records before it asks for a
\* container's state is left without one by a repair that stops, and by no other.
THEOREM RepairIsComplete == Spec => RebuildComplete
<1> DEFINE A == RepairEnds =>
                  \A o \in Labelled(s.choice) \ stirred :
                     /\ file.led.rec[o] = obj[o].nonce
                     /\ o \in Containers => file.led.want[o] # "unset"
<1>1. IInv /\ [Next]_vars => [A]_vars
  <2>1. ASSUME IInv, RepairEnds, NEW o \in Labelled(s.choice), o \notin stirred
        PROVE  /\ file.led.rec[o] = obj[o].nonce
               /\ o \in Containers => file.led.want[o] # "unset"
    <3>1. /\ s.pc = "verify" /\ file.led = s.led /\ s.half = {}
          /\ o \in Objects /\ obj[o].id = s.choice
      BY <2>1 DEF IInv, SessionInv, RepairEnds, At, Labelled
    <3>2. Rebuilt(o)
      BY <3>1, <2>1 DEF IInv, RebuildInv
    <3> QED BY <2>1, <3>1, <3>2 DEF Rebuilt
  <2> QED BY <2>1
<1> QED BY <1>1, Invariance, PTL DEF Spec, RebuildComplete

\* A repair that reports success leaves the one usable trust anchor it found,
\* though trust.AnchorSet writes it between two writes of the session's copy.
THEOREM AnchorIsKept == Spec => AnchorSurvives
<1> DEFINE A == RepairEnds /\ s.kept = "one" => file.led.anchor = "one"
<1>1. IInv /\ [Next]_vars => [A]_vars
  BY DEF IInv, SessionInv, RepairEnds, At, Chosen
<1> QED BY <1>1, Invariance, PTL DEF Spec, AnchorSurvives

\* A ledger a newer build wrote stays as it is, and the path of the ledger is
\* empty only where it was, or where the repair moved a corrupt one aside: no
\* command, whichever step of it dies or fails, does anything else.
THEOREM NewerIsUntouched == Spec => NewerUntouched
<1> DEFINE A == ~Hands => /\ file.form = "newer" => file' = file
                          /\ file'.form = "absent" => file.form \in {"absent", "corrupt"}
<1>1. IInv /\ [Next]_vars => [A]_vars
  <2> SUFFICES ASSUME IInv, Next, ~Hands
               PROVE  /\ file.form = "newer" => file' = file
                      /\ file'.form = "absent" => file.form \in {"absent", "corrupt"}
    OBVIOUS
  <2>1. ASSUME file' = file \/ (file.form # "newer" /\ \E l \in Ledgers : file' = Good(l))
        PROVE  /\ file.form = "newer" => file' = file
               /\ file'.form = "absent" => file.form \in {"absent", "corrupt"}
    BY <2>1, GoodIs
  <2>2. ASSUME file.form = "good", file' = file \/ \E l : file' = Good(l)
        PROVE  /\ file.form = "newer" => file' = file
               /\ file'.form = "absent" => file.form \in {"absent", "corrupt"}
    BY <2>2 DEF Good
  <2>3. CASE \E i \in Idents \cup {NoIdent} : RepairBegin(i)
    BY <2>1, <2>3 DEF RepairBegin
  <2>4. CASE Reset
    BY <2>4, BadIs DEF Reset, Good
  <2>5. CASE WriteEmpty
    BY <2>5, GoodIs, BlankIs DEF WriteEmpty, IInv, SessionInv
  <2>6. CASE KeepAnchor \/ Identify
    BY <2>2, <2>6 DEF KeepAnchor, Identify, IInv, SessionInv, At, Chosen
  <2>7. CASE NextClass \/ RepairEnds \/ Dies
    BY <2>1, <2>7 DEF NextClass, RepairEnds, Dies
  <2>8. CASE (\E o \in Objects : RebuildOne(o)) \/ \E c \in Containers : RecoverState(c)
    BY <2>2, <2>8 DEF RebuildOne, RecoverState, RepairStop, IInv, SessionInv, At, Chosen
  <2>9. CASE \E yes \in BOOLEAN : RepairNetref(yes)
    BY <2>2, <2>9 DEF RepairNetref, RepairStop, IInv, SessionInv, At, Chosen
  <2>10. CASE \E c \in Containers : VerifyRunning(c)
    BY <2>2, <2>10 DEF VerifyRunning, IInv, SessionInv, At, Chosen
  <2>11. CASE Unanswered
    BY <2>2, <2>11 DEF Unanswered, RepairStop, IInv, SessionInv, At, Chosen
  <2>12. CASE \E c \in Containers : Install(c)
    <3>1. file.form # "newer"
      BY <2>12 DEF Install, Admitted
    <3>2. \E l : file' = Good(l)
      BY <2>12 DEF Install
    <3> QED BY <3>1, <3>2 DEF Good
  <2>13. CASE MigResume
    BY <2>2, <2>13 DEF MigResume
  <2> QED BY <2>3, <2>4, <2>5, <2>6, <2>7, <2>8, <2>9, <2>10, <2>11, <2>12, <2>13
          DEF Next, SessionStep
<1> QED BY <1>1, Invariance, PTL DEF Spec, NewerUntouched

\* A set of at most one network is the set of any network it holds.
LEMMA OneSource ==
    ASSUME NEW S, S \subseteq NetIds, ~(Cardinality(S) > 1), NEW a \in S, NEW b \in S
    PROVE  a = b
<1> SUFFICES ASSUME a # b PROVE FALSE
  OBVIOUS
<1>1. IsFiniteSet(NetIds)
  BY FS_AddElement DEF NetIds
<1>2. IsFiniteSet(S)
  BY <1>1, FS_Subset
<1>3. {a, b} \subseteq S
  OBVIOUS
<1>4. Cardinality({a, b}) <= Cardinality(S)
  BY <1>2, <1>3, FS_Subset
<1>5. IsFiniteSet({a}) /\ Cardinality({a}) = 1
  BY FS_Singleton
<1>6. Cardinality({a} \cup {b}) = 2
  <2>1. b \notin {a}
    OBVIOUS
  <2>2. Cardinality({a} \cup {b}) = Cardinality({a}) + 1
    BY <1>5, <2>1, FS_AddElement
  <2> QED BY <1>5, <2>2
<1>7. {a} \cup {b} = {a, b}
  OBVIOUS
<1>8. Cardinality(S) \in Nat
  BY <1>2, FS_CardinalityType
<1> QED BY <1>4, <1>6, <1>7, <1>8

\* The reference a repair records holds the fleet: clean, every attached
\* container of the identity is on that network alone; with a migration, every
\* one is a member of it and on no network but its two.
THEOREM ReferenceIsTheFleets == Spec => ReferenceHoldsFleet
<1> DEFINE A == At("netref") /\ s'.pc = "verify" /\ conf # NoNet =>
          LET l == file'.led IN
          \A c \in Labelled(s.choice) \cap Containers :
             IF l.mig = NoMig THEN nets[c] \subseteq {l.ref}
             ELSE c \in l.mig.who /\ nets[c] \subseteq {l.mig.src, l.mig.tgt}
<1>1. IInv /\ [Next]_vars => [A]_vars
  <2> SUFFICES ASSUME IInv, Next, s.pc = "netref", s'.pc = "verify", conf # NoNet,
                      NEW c \in Labelled(s.choice) \cap Containers
               PROVE  LET l == file'.led IN
                      IF l.mig = NoMig THEN nets[c] \subseteq {l.ref}
                      ELSE c \in l.mig.who /\ nets[c] \subseteq {l.mig.src, l.mig.tgt}
    BY DEF At
  <2>1. \E yes \in BOOLEAN : RepairNetref(yes)
    <3>1. ~RepairStop /\ s' # s
      BY IdleIs DEF RepairStop, End
    <3>2. ~\E i \in Idents \cup {NoIdent} : RepairBegin(i)
      BY DEF RepairBegin, At
    <3>3. ~(Reset \/ WriteEmpty \/ KeepAnchor \/ Identify \/ NextClass)
      BY DEF Reset, WriteEmpty, KeepAnchor, Identify, NextClass, At
    <3>4. ~(\E o \in Objects : RebuildOne(o)) /\ ~\E d \in Containers : RecoverState(d)
      BY DEF RebuildOne, RecoverState, At
    <3>5. ~(\E d \in Containers : VerifyRunning(d)) /\ ~RepairEnds
      BY DEF VerifyRunning, RepairEnds, At
    <3>6. ~Unanswered /\ ~Dies
      BY <3>1, IdleIs DEF Unanswered, Dies, End
    <3>7. ~(\E d \in Containers : Install(d)) /\ ~MigResume
      BY DEF Install, MigResume, At
    <3>8. ~Hands
      BY <3>1 DEF Hands, HandRemoves, Appears, HandMoves, HandFlips, Repoints, Damages, world
    <3> QED BY <3>2, <3>3, <3>4, <3>5, <3>6, <3>7, <3>8 DEF Next, SessionStep
  <2> DEFINE src == CHOOSE n \in Sources : TRUE
             l == IF Sources = {} THEN [s.led EXCEPT !.ref = conf]
                  ELSE [s.led EXCEPT !.ref = src,
                                     !.mig = [src |-> src, tgt |-> conf, who |-> Fleet]]
  <2>2. ~Split /\ file' = Good(l)
    <3>1. ~RepairStop
      BY IdleIs DEF RepairStop, End
    <3> QED BY <2>1, <3>1 DEF RepairNetref
  <2>3. /\ s.led \in Ledgers /\ s.led.mig = NoMig /\ conf \in OpNets
        /\ nets \in [Containers -> SUBSET NetIds]
    BY DEF IInv, TypeOK, SessionInv, Sessions, At
  <2>4. c \in Fleet /\ Votes(c) \subseteq Sources /\ Sources \subseteq NetIds
    BY <2>3 DEF Fleet, Labelled, Sources, Votes
  <2>5. nets[c] \subseteq Votes(c) \cup {conf}
    BY DEF Votes
  <2>6. CASE Sources = {}
    <3>1. l = [s.led EXCEPT !.ref = conf]
      BY <2>6
    <3> HIDE DEF l
    <3>2. file'.led.mig = NoMig /\ file'.led.ref = conf
      BY <2>2, <2>3, <3>1 DEF Good, Ledgers
    <3> QED BY <2>4, <2>5, <2>6, <3>2
  <2>7. CASE Sources # {}
    <3>1. l = [s.led EXCEPT !.ref = src, !.mig = [src |-> src, tgt |-> conf, who |-> Fleet]]
      BY <2>7
    <3>2. src \in Sources
      BY <2>7
    <3> HIDE DEF l, src
    <3>3. \A n \in Sources : n = src
      BY <2>2, <2>4, <3>2, OneSource DEF Split
    <3>4. /\ file'.led.mig.src = src /\ file'.led.mig.tgt = conf /\ file'.led.mig.who = Fleet
      BY <2>2, <2>3, <3>1 DEF Good, Ledgers
    <3>5. file'.led.mig # NoMig
      BY <2>3, <3>4 DEF NoMig
    <3> QED BY <2>4, <2>5, <3>3, <3>4, <3>5
  <2> QED BY <2>6, <2>7
<1> QED BY <1>1, Invariance, PTL DEF Spec, ReferenceHoldsFleet

================================================================================
