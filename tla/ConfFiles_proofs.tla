--------------------------- MODULE ConfFiles_proofs ----------------------------
(***************************************************************************)
(* Proofs about ConfFiles, for every set of processes, of settings and of  *)
(* their values, and every bound on the files, the faults and the saves.   *)
(***************************************************************************)
EXTENDS ConfFiles, FiniteSetTheorems, TLAPS

USE ConfConstants

-----------------------------------------------------------------------------
(* Settings, texts and sessions.                                            *)

LEMMA WithIs ==
    ASSUME NEW b \in Settings, NEW k \in Keys, NEW x \in Values \cup {Unset}
    PROVE  With(b, k, x) \in Settings /\ With(b, k, x)[k] = x
BY DEF With, Settings

LEMMA HostWithIs ==
    ASSUME NEW b \in Host, NEW k \in {Fixed, Bind}, NEW x \in HostValues \cup {Unset}
    PROVE  /\ With(b, k, x) \in Host /\ With(b, k, x)[k] = x
           /\ \A j \in {Fixed, Bind} : j # k => With(b, k, x)[j] = b[j]
BY DEF With, Host

LEMMA TextsAre ==
    /\ Empty \in Settings
    /\ Cut \in Texts /\ Cut.mark = "torn" /\ Cut.body = Empty
    /\ NoText \in Texts /\ NoText.mark = "none" /\ NoText.whole /\ NoText.body = Empty
    /\ \A b \in Settings, w \in BOOLEAN :
          /\ Whole(b, w) \in Texts
          /\ Whole(b, w).mark = "ok" /\ Whole(b, w).body = b /\ Whole(b, w).whole = w
BY DEF Empty, Settings, Cut, NoText, Whole, Texts

\* What is written over another writer's text does not load, or is what was
\* to be written; over an emptied file it is that.
LEMMA OverIs ==
    ASSUME NEW old \in Texts, NEW new \in Texts, new.mark # "none"
    PROVE  /\ Over(old, new) \in Texts /\ Over(old, new).mark # "none"
           /\ Loads(Over(old, new)) => Over(old, new) = new
           /\ old = Cut => Over(old, new) = new
<1> DEFINE torn == [body |-> new.body, mark |-> "torn", whole |-> FALSE]
<1>1. Over(old, new) = new \/ Over(old, new) = torn
  BY DEF Over
<1>2. torn \in Texts /\ torn.mark = "torn"
  BY DEF Texts
<1> HIDE DEF torn
<1>3. old = Cut => Over(old, new) = new
  <2> SUFFICES ASSUME old = Cut PROVE Over(old, new) = new
    OBVIOUS
  <2>1. Held(old.body) = {}
    BY TextsAre DEF Held, Empty
  <2>2. Held(new.body) \subseteq Keys
    BY DEF Held, Texts, Settings
  <2>3. IsFiniteSet(Held(new.body))
    BY <2>2, FS_Subset
  <2>4. Cardinality(Held(new.body)) \in Nat
    BY <2>3, FS_CardinalityType
  <2>5. Cardinality(Held(old.body)) = 0
    BY <2>1, FS_EmptySet
  <2>6. ~(Cardinality(Held(old.body)) > Cardinality(Held(new.body)))
    BY <2>4, <2>5
  <2> QED BY <2>4, <2>5, <2>6 DEF Over
<1> QED BY <1>1, <1>2, <1>3 DEF Loads

LEMMA IdleIs ==
    /\ Idle \in Sessions /\ Idle.pc = "idle" /\ Idle.whole /\ ~Idle.late
    /\ Idle.host \in Host
BY TextsAre DEF Idle, Sessions, PCs, Ops, Host, Bodies, Fixed, Unset

LEMMA LiveIs ==
    ASSUME TypeOK
    PROVE  Live \in Texts /\ (path = 0 => Live = NoText) /\ (path # 0 => Live = inode[path])
BY TextsAre DEF TypeOK, Live, Inodes

LEMMA ZeroIs == 0 \in 0 .. MaxInodes /\ Empty \in Settings /\ "chown" \in PCs
BY DEF PCs, Empty, Settings

LEMMA SessionIs ==
    ASSUME v \in [Procs -> Sessions], NEW p \in Procs, NEW s \in Sessions, v' = [v EXCEPT ![p] = s]
    PROVE  /\ v' \in [Procs -> Sessions] /\ v'[p] = s
           /\ \A q \in Procs : q # p => v'[q] = v[q]
OBVIOUS

LEMMA InodeIs ==
    ASSUME inode \in [Inodes -> Texts], NEW i \in Inodes, NEW x \in Texts,
           inode' = [inode EXCEPT ![i] = x]
    PROVE  /\ inode' \in [Inodes -> Texts] /\ inode'[i] = x
           /\ \A j \in Inodes : j # i => inode'[j] = inode[j]
OBVIOUS

-----------------------------------------------------------------------------
(* A verb under way is alone.                                               *)

LEMMA MineIs ==
    ASSUME IInv, NEW p \in Procs, ~At(p, "idle")
    PROVE  /\ lock = p /\ v[p] \in Sessions /\ v[p].whole /\ ProductInv(p) /\ HostInv(p)
           /\ \A q \in Procs : q # p => At(q, "idle")
BY DEF IInv, TypeOK, LockInv, FileInv

\* It keeps the invariant when what it leaves at its own next place is good.
LEMMA OwnKeeps ==
    ASSUME IInv, NEW p \in Procs, NEW s \in Sessions, v' = [v EXCEPT ![p] = s],
           \A q \in Procs : q # p => At(q, "idle"),
           lock' = IF s.pc = "idle" THEN Nobody ELSE p,
           TypeOK', FileInv', AcceptedIsWhole', ProductInv(p)', HostInv(p)',
           s.pc = "told" => s.late \/ Wanted(p)'
    PROVE  IInv'
<1>1. v \in [Procs -> Sessions]
  BY DEF IInv, TypeOK
<1>2. /\ v' \in [Procs -> Sessions] /\ v'[p] = s
      /\ \A q \in Procs : q # p => v'[q] = v[q]
  BY <1>1, SessionIs
<1>3. \A q \in Procs : q # p => v'[q].pc = "idle"
  BY <1>2 DEF At
<1>4. LockInv'
  BY <1>2, <1>3 DEF LockInv, At, Nobody
<1>5. ASSUME NEW q \in Procs, q # p PROVE ProductInv(q)' /\ HostInv(q)'
  BY <1>3, <1>5 DEF ProductInv, HostInv, At, Before, After
<1>6. ToldIsSet'
  BY <1>2, <1>3 DEF ToldIsSet, At
<1> QED BY <1>4, <1>5, <1>6 DEF IInv

\* A verb that ends leaves the files, and nothing else.
LEMMA EndKeeps ==
    ASSUME IInv, NEW p \in Procs, ~At(p, "idle"), End(p),
           v' \in [Procs -> Sessions] => TypeOK',
           (\A q \in Procs : v'[q].whole) => FileInv',
           AcceptedIsWhole'
    PROVE  IInv'
<1>1. v' = [v EXCEPT ![p] = Idle] /\ lock' = Nobody
  BY DEF End
<1>2. v' \in [Procs -> Sessions] /\ v'[p] = Idle /\ \A q \in Procs : q # p => v'[q] = v[q]
  BY <1>1, SessionIs, IdleIs DEF IInv, TypeOK
<1>3. TypeOK' /\ FileInv'
  BY <1>2, IdleIs DEF IInv, FileInv
<1>4. ProductInv(p)' /\ HostInv(p)'
  BY <1>2, IdleIs DEF ProductInv, HostInv, At, Before, After
<1> QED BY <1>1, <1>3, <1>4, IdleIs, MineIs, OwnKeeps

LEMMA EndQuiet ==
    ASSUME IInv, NEW p \in Procs, ~At(p, "idle"), End(p),
           UNCHANGED <<path, inode, perm, last, family, view, ui, saves>>, faults' \in 0 .. MaxFaults
    PROVE  IInv'
<1>1. lock' = Nobody
  BY DEF End
<1>2. v' \in [Procs -> Sessions] => TypeOK'
  BY <1>1 DEF IInv, TypeOK
<1>3. (\A q \in Procs : v'[q].whole) => FileInv'
  BY DEF IInv, FileInv, Live
<1>4. AcceptedIsWhole'
  BY DEF IInv, AcceptedIsWhole
<1> QED BY <1>2, <1>3, <1>4, EndKeeps

-----------------------------------------------------------------------------
(* What each step leaves of the invariant.                                  *)

LEMMA AcquireKeeps == ASSUME IInv, NEW p \in Procs, Acquire(p) PROVE IInv'
<1>1. /\ At(p, "idle") /\ UNCHANGED <<path, inode, perm, last, family, view, ui, saves, faults>>
      /\ lock = Nobody /\ lock' = p
  BY DEF Acquire, product, Calm
<1>2. v[p] \in Sessions /\ v[p].whole /\ \A q \in Procs : q # p => At(q, "idle")
  BY <1>1 DEF IInv, TypeOK, LockInv, FileInv, Nobody
<1>3. PICK op \in Ops : v' = [v EXCEPT ![p].op = op, ![p].pc = First[op]]
  BY DEF Acquire
<1>4. /\ First[op] \in {"ensure", "look", "read", "get"}
      /\ First[op] \in {"ensure", "look"} => op \in {"ensure", "add"}
      /\ First[op] = "read" => op = "hostadd"
      /\ First[op] = "get" => op = "move"
  BY DEF First, Ops
<1> DEFINE s == [v[p] EXCEPT !.op = op, !.pc = First[op]]
<1>5. s \in Sessions
  BY <1>1, <1>2, <1>3, <1>4 DEF Sessions, PCs, Bodies
<1>6. /\ s.op = op /\ s.pc = First[op]
      /\ s.key = v[p].key /\ s.val = v[p].val /\ s.sentinel = v[p].sentinel /\ s.snap = v[p].snap /\ s.host = v[p].host /\ s.body = v[p].body /\ s.whole = v[p].whole /\ s.fd = v[p].fd /\ s.late = v[p].late /\ s.prior = v[p].prior
  BY <1>1, <1>2, <1>3, <1>4 DEF Sessions
<1>7. v' = [v EXCEPT ![p] = s] /\ lock' = p
  BY <1>1, <1>2, <1>3, <1>4 DEF Acquire, Goto, IInv, TypeOK
<1> HIDE DEF s
<1>8. /\ v' \in [Procs -> Sessions] /\ v'[p] = s
      /\ \A q \in Procs : q # p => v'[q] = v[q]
  BY <1>1, <1>2, <1>3, <1>4, <1>5, <1>7, SessionIs DEF IInv, TypeOK
<1>9. TypeOK'
  BY <1>1, <1>2, <1>3, <1>4, <1>5, <1>6, <1>7, <1>8 DEF IInv, TypeOK
<1>10. FileInv'
  BY <1>1, <1>2, <1>3, <1>4, <1>5, <1>6, <1>7, <1>8 DEF IInv, FileInv, Live
<1>11. AcceptedIsWhole'
  BY <1>1, <1>2, <1>3, <1>4, <1>5, <1>6, <1>7, <1>8 DEF IInv, AcceptedIsWhole
<1>12. ProductInv(p)'
  BY <1>1, <1>2, <1>3, <1>4, <1>5, <1>6, <1>7, <1>8 DEF ProductInv, At, Before, After
<1>13. HostInv(p)'
  BY <1>1, <1>2, <1>3, <1>4, <1>5, <1>6, <1>7, <1>8 DEF HostInv, At
<1>14. s.pc = "told" => s.late \/ Wanted(p)'
  BY <1>1, <1>2, <1>3, <1>4, <1>6
<1> QED BY <1>1, <1>2, <1>3, <1>4, <1>5, <1>6, <1>7, <1>9, <1>10, <1>11, <1>12, <1>13, <1>14, OwnKeeps

LEMMA ProductEnsureKeeps == ASSUME IInv, NEW p \in Procs, ProductEnsure(p) PROVE IInv'
<1>1. At(p, "ensure") /\ ~At(p, "idle") /\ UNCHANGED <<path, inode, perm, last, family, view, ui, saves, faults>>
  BY DEF ProductEnsure, At, product, Calm
<1>2. /\ lock = p /\ v[p] \in Sessions /\ v[p].whole /\ ProductInv(p) /\ HostInv(p)
      /\ \A q \in Procs : q # p => At(q, "idle")
  BY <1>1, MineIs
<1>3. CASE End(p)
  BY <1>1, <1>3, EndQuiet DEF IInv, TypeOK
<1>4. CASE Goto(p, "look") /\ UNCHANGED lock
  <2> DEFINE s == [v[p] EXCEPT !.pc = "look"]
  <2>1. s \in Sessions
    BY <1>1, <1>2, <1>4 DEF Sessions, PCs, Bodies
  <2>2. /\ s.pc = "look"
        /\ s.op = v[p].op /\ s.key = v[p].key /\ s.val = v[p].val /\ s.sentinel = v[p].sentinel /\ s.snap = v[p].snap /\ s.host = v[p].host /\ s.body = v[p].body /\ s.whole = v[p].whole /\ s.fd = v[p].fd /\ s.late = v[p].late /\ s.prior = v[p].prior
    BY <1>1, <1>2, <1>4 DEF Sessions
  <2>3. v' = [v EXCEPT ![p] = s] /\ lock' = p
    BY <1>1, <1>2, <1>4 DEF ProductEnsure, Goto, IInv, TypeOK
  <2> HIDE DEF s
  <2>4. /\ v' \in [Procs -> Sessions] /\ v'[p] = s
        /\ \A q \in Procs : q # p => v'[q] = v[q]
    BY <1>1, <1>2, <1>4, <2>1, <2>3, SessionIs DEF IInv, TypeOK
  <2>5. TypeOK'
    BY <1>1, <1>2, <1>4, <2>1, <2>2, <2>3, <2>4 DEF IInv, TypeOK
  <2>6. FileInv'
    BY <1>1, <1>2, <1>4, <2>1, <2>2, <2>3, <2>4 DEF IInv, FileInv, Live
  <2>7. AcceptedIsWhole'
    BY <1>1, <1>2, <1>4, <2>1, <2>2, <2>3, <2>4 DEF IInv, AcceptedIsWhole
  <2>8. ProductInv(p)'
    BY <1>1, <1>2, <1>4, <2>1, <2>2, <2>3, <2>4 DEF ProductInv, At, Before, After
  <2>9. HostInv(p)'
    BY <1>1, <1>2, <1>4, <2>1, <2>2, <2>3, <2>4 DEF HostInv, At
  <2>10. s.pc = "told" => s.late \/ Wanted(p)'
    BY <1>1, <1>2, <1>4, <2>2
  <2> QED BY <1>1, <1>2, <1>4, <2>1, <2>2, <2>3, <2>5, <2>6, <2>7, <2>8, <2>9, <2>10, OwnKeeps
<1> QED BY <1>3, <1>4 DEF ProductEnsure

LEMMA SnapshotKeeps == ASSUME IInv, NEW p \in Procs, Snapshot(p) PROVE IInv'
<1>1. At(p, "look") /\ ~At(p, "idle") /\ UNCHANGED <<path, inode, perm, last, family, view, ui, saves, faults>>
  BY DEF Snapshot, At, product, Calm
<1>2. /\ lock = p /\ v[p] \in Sessions /\ v[p].whole /\ ProductInv(p) /\ HostInv(p)
      /\ \A q \in Procs : q # p => At(q, "idle")
  BY <1>1, MineIs
<1> DEFINE Read(k, val) == IF v[p].op = "ensure" THEN Live.body ELSE With(Live.body, k, val)
<1>3. PICK k \in Keys, val \in Values, sentinel \in BOOLEAN :
         IF /\ Usable(sentinel) /\ (path # 0 => Loads(Live)) /\ Keeps(Read(k, val), Live.body)
            /\ v[p].op = "ensure" => Live.body = Empty
         THEN v' = [v EXCEPT ![p].pc = "compare", ![p].key = IF v[p].op = "add" THEN k ELSE Fixed,
                             ![p].val = IF v[p].op = "add" THEN val ELSE Unset,
                             ![p].sentinel = sentinel, ![p].snap = Live,
                             ![p].body = Read(k, val), ![p].whole = Live.whole] /\ UNCHANGED lock
         ELSE End(p)
  BY DEF Snapshot
<1>4. Live \in Texts /\ Live.body \in Settings /\ (path = 0 => Live = NoText)
  BY LiveIs DEF IInv, Texts
<1>5. PICK b \in Settings : b = Read(k, val) /\ (v[p].op = "add" => b[k] = val)
  BY <1>4, WithIs
<1> HIDE DEF Read
<1>6. CASE End(p)
  BY <1>1, <1>6, EndQuiet DEF IInv, TypeOK
<1>7. CASE ~End(p)
  <2>1. /\ sentinel = FALSE /\ (path # 0 => Loads(Live)) /\ Keeps(b, Live.body) /\ lock' = lock
        /\ v' = [v EXCEPT ![p].pc = "compare", ![p].key = IF v[p].op = "add" THEN k ELSE Fixed,
                          ![p].val = IF v[p].op = "add" THEN val ELSE Unset,
                          ![p].sentinel = sentinel, ![p].snap = Live,
                          ![p].body = b, ![p].whole = Live.whole]
    BY <1>3, <1>5, <1>7 DEF Usable
  <2>2. Live.whole = TRUE
    <3>1. CASE path = 0
      BY <1>4, <3>1, TextsAre
    <3>2. CASE path # 0
      BY <1>4, <2>1, <3>2, LiveIs DEF IInv, TypeOK, AcceptedIsWhole, Inodes, Texts
    <3> QED BY <3>1, <3>2
  <2> DEFINE key == IF v[p].op = "add" THEN k ELSE Fixed
             new == IF v[p].op = "add" THEN val ELSE Unset
  <2>3. /\ key \in Keys \cup {Fixed, Bind} /\ new \in Values \cup HostValues \cup {Unset}
        /\ v[p].op = "add" => key = k /\ new = val
        /\ v' = [v EXCEPT ![p].pc = "compare", ![p].key = key, ![p].val = new,
                          ![p].sentinel = sentinel, ![p].snap = Live,
                          ![p].body = b, ![p].whole = Live.whole]
    BY <2>1
  <2> HIDE DEF key, new
  <2> DEFINE s == [v[p] EXCEPT !.pc = "compare", !.key = key, !.val = new, !.sentinel = sentinel, !.snap = Live, !.body = b, !.whole = Live.whole]
  <2>4. s \in Sessions
    BY <1>2, <1>4, <2>2, <2>3 DEF Sessions, PCs, Bodies
  <2>5. /\ s.pc = "compare" /\ s.key = key /\ s.val = new /\ s.sentinel = sentinel /\ s.snap = Live /\ s.body = b /\ s.whole = Live.whole
        /\ s.op = v[p].op /\ s.host = v[p].host /\ s.fd = v[p].fd /\ s.late = v[p].late /\ s.prior = v[p].prior
    BY <1>1, <1>2, <1>4, <1>5, <2>1, <2>2, <2>3 DEF Sessions
  <2>6. v' = [v EXCEPT ![p] = s] /\ lock' = p
    <3>1. v \in [Procs -> Sessions]
      BY DEF IInv, TypeOK
    <3>2. v'[p] = s
      BY <2>3, <3>1 DEF Sessions
    <3>3. v' = [q \in Procs |-> v'[q]] /\ \A q \in Procs : q # p => v'[q] = v[q]
      BY <2>3, <3>1
    <3>4. [v EXCEPT ![p] = s] = [q \in Procs |-> IF q = p THEN s ELSE v[q]]
      BY <3>1
    <3>5. v' = [q \in Procs |-> IF q = p THEN s ELSE v[q]]
      BY <3>2, <3>3
    <3> QED BY <1>2, <2>1, <3>4, <3>5
  <2> HIDE DEF s
  <2>7. /\ v' \in [Procs -> Sessions] /\ v'[p] = s
        /\ \A q \in Procs : q # p => v'[q] = v[q]
    BY <1>1, <1>2, <1>4, <1>5, <2>1, <2>2, <2>3, <2>4, <2>6, SessionIs DEF IInv, TypeOK
  <2>8. /\ s.op \in {"ensure", "add"} /\ (s.op = "add" => s.body[s.key] = s.val) /\ ~s.sentinel
        /\ Keeps(s.body, s.snap.body) /\ (s.snap = NoText \/ Loads(s.snap))
    BY <1>1, <1>2, <1>4, <1>5, <2>1, <2>3, <2>5 DEF ProductInv, At
  <2>9. TypeOK'
    BY <1>1, <1>2, <1>4, <1>5, <2>1, <2>2, <2>3, <2>4, <2>5, <2>6, <2>7, <2>8 DEF IInv, TypeOK
  <2>10. FileInv'
    BY <1>1, <1>2, <1>4, <1>5, <2>1, <2>2, <2>3, <2>4, <2>5, <2>6, <2>7, <2>8 DEF IInv, FileInv, Live
  <2>11. AcceptedIsWhole'
    BY <1>1, <1>2, <1>4, <1>5, <2>1, <2>2, <2>3, <2>4, <2>5, <2>6, <2>7, <2>8 DEF IInv, AcceptedIsWhole
  <2>12. ProductInv(p)'
    BY <1>5, <2>5, <2>7, <2>8 DEF ProductInv, At, Before, After
  <2>13. HostInv(p)'
    BY <1>1, <1>2, <1>4, <1>5, <2>1, <2>2, <2>3, <2>4, <2>5, <2>6, <2>7, <2>8 DEF HostInv, At
  <2>14. s.pc = "told" => s.late \/ Wanted(p)'
    BY <1>1, <1>2, <1>4, <1>5, <2>1, <2>2, <2>3, <2>5
  <2> QED BY <1>1, <1>2, <1>4, <1>5, <2>1, <2>2, <2>3, <2>4, <2>5, <2>6, <2>9, <2>10, <2>11, <2>12, <2>13, <2>14, OwnKeeps
<1> QED BY <1>6, <1>7

LEMMA CompareKeeps == ASSUME IInv, NEW p \in Procs, Compare(p) PROVE IInv'
<1>1. At(p, "compare") /\ ~At(p, "idle") /\ UNCHANGED <<path, inode, perm, last, family, view, ui, saves, faults>>
  BY DEF Compare, At, product, Calm
<1>2. /\ lock = p /\ v[p] \in Sessions /\ v[p].whole /\ ProductInv(p) /\ HostInv(p)
      /\ \A q \in Procs : q # p => At(q, "idle")
  BY <1>1, MineIs
<1>3. CASE End(p)
  BY <1>1, <1>3, EndQuiet DEF IInv, TypeOK
<1>4. CASE Live = v[p].snap /\ Compared(p) /\ UNCHANGED lock
  <2> DEFINE place == IF path = 0 THEN "create"
                      ELSE IF v[p].body = v[p].snap.body THEN "chown" ELSE "truncate"
  <2>1. Live \in Texts /\ (path = 0 => Live = NoText) /\ (path # 0 => Live = inode[path])
    BY LiveIs DEF IInv
  <2>2. path # 0 => Loads(Live) /\ Live.body = last
    BY <1>1, <1>2, <1>4, <2>1, TextsAre DEF ProductInv, IInv, FileInv
  <2>3. Keeps(v[p].body, last)
    <3>1. CASE path = 0
      BY <3>1 DEF IInv, FileInv, Keeps, Empty
    <3>2. CASE path # 0
      BY <1>1, <1>2, <1>4, <2>2, <3>2 DEF ProductInv
    <3> QED BY <3>1, <3>2
  <2>4. /\ place \in {"create", "chown", "truncate"} /\ (place # "create" => path # 0)
        /\ place = "chown" => Loads(Live) /\ v[p].body = Live.body
    BY <1>4, <2>2
  <2>5. v' = [v EXCEPT ![p].late = FALSE, ![p].snap = NoText, ![p].pc = place] /\ lock' = lock
    BY <1>4 DEF Compared
  <2> HIDE DEF place
  <2> DEFINE s == [v[p] EXCEPT !.pc = place, !.snap = NoText, !.late = FALSE]
  <2>6. s \in Sessions
    BY <1>2, <2>4, TextsAre DEF Sessions, PCs, Bodies
  <2>7. /\ s.pc = place /\ s.snap = NoText /\ s.late = FALSE
        /\ s.op = v[p].op /\ s.key = v[p].key /\ s.val = v[p].val /\ s.sentinel = v[p].sentinel /\ s.host = v[p].host /\ s.body = v[p].body /\ s.whole = v[p].whole /\ s.fd = v[p].fd /\ s.prior = v[p].prior
    BY <1>1, <1>2, <2>1, <2>2, <2>3, <2>4, <2>5 DEF Sessions
  <2>8. v' = [v EXCEPT ![p] = s] /\ lock' = p
    BY <1>2, <2>5 DEF IInv, TypeOK
  <2> HIDE DEF s
  <2>9. /\ v' \in [Procs -> Sessions] /\ v'[p] = s
        /\ \A q \in Procs : q # p => v'[q] = v[q]
    BY <1>1, <1>2, <2>1, <2>2, <2>3, <2>4, <2>5, <2>6, <2>8, SessionIs DEF IInv, TypeOK
  <2>10. TypeOK'
    BY <1>1, <1>2, <2>1, <2>2, <2>3, <2>4, <2>5, <2>6, <2>7, <2>8, <2>9 DEF IInv, TypeOK
  <2>11. FileInv'
    BY <1>1, <1>2, <2>1, <2>2, <2>3, <2>4, <2>5, <2>6, <2>7, <2>8, <2>9 DEF IInv, FileInv, Live
  <2>12. AcceptedIsWhole'
    BY <1>1, <1>2, <2>1, <2>2, <2>3, <2>4, <2>5, <2>6, <2>7, <2>8, <2>9 DEF IInv, AcceptedIsWhole
  <2>13. ProductInv(p)'
    BY <1>1, <1>2, <2>1, <2>2, <2>3, <2>4, <2>7, <2>9 DEF ProductInv, At, Before, After, Wanted, Live
  <2>14. HostInv(p)'
    BY <1>1, <1>2, <2>1, <2>2, <2>3, <2>4, <2>5, <2>6, <2>7, <2>8, <2>9 DEF HostInv, At
  <2>15. s.pc = "told" => s.late \/ Wanted(p)'
    BY <1>1, <1>2, <2>1, <2>2, <2>3, <2>4, <2>5, <2>7
  <2> QED BY <1>1, <1>2, <2>1, <2>2, <2>3, <2>4, <2>5, <2>6, <2>7, <2>8, <2>10, <2>11, <2>12, <2>13, <2>14, <2>15, OwnKeeps
<1> QED BY <1>3, <1>4 DEF Compare

LEMMA CreateKeeps == ASSUME IInv, NEW p \in Procs, Create(p) PROVE IInv'
<1>1. At(p, "create") /\ ~At(p, "idle") /\ UNCHANGED <<perm, last, family, view, ui, saves, faults>>
  BY DEF Create, At, product, Calm
<1>2. /\ lock = p /\ v[p] \in Sessions /\ v[p].whole /\ ProductInv(p) /\ HostInv(p)
      /\ \A q \in Procs : q # p => At(q, "idle")
  BY <1>1, MineIs
<1>3. CASE path # 0 /\ End(p) /\ UNCHANGED <<path, inode>>
  BY <1>1, <1>3, EndQuiet DEF IInv, TypeOK
<1>4. CASE path = 0 /\ ~(path # 0 /\ End(p))
  <2>1. PICK i \in Inodes : path' = i /\ inode' = [inode EXCEPT ![i] = Cut]
    BY <1>4 DEF Create
  <2>2. Goto(p, "truncate") /\ lock' = lock
    BY <1>4 DEF Create
  <2>3. /\ inode' \in [Inodes -> Texts] /\ inode'[path'] = Cut /\ path' # 0 /\ path' \in Inodes
        /\ \A j \in Inodes : j # path' => inode'[j] = inode[j]
    BY <2>1, InodeIs, TextsAre DEF IInv, TypeOK, Inodes
  <2> DEFINE s == [v[p] EXCEPT !.pc = "truncate"]
  <2>4. s \in Sessions
    BY <1>1, <1>2, <2>2, <2>3 DEF Sessions, PCs, Bodies
  <2>5. /\ s.pc = "truncate"
        /\ s.op = v[p].op /\ s.key = v[p].key /\ s.val = v[p].val /\ s.sentinel = v[p].sentinel /\ s.snap = v[p].snap /\ s.host = v[p].host /\ s.body = v[p].body /\ s.whole = v[p].whole /\ s.fd = v[p].fd /\ s.late = v[p].late /\ s.prior = v[p].prior
    BY <1>1, <1>2, <2>2, <2>3 DEF Sessions
  <2>6. v' = [v EXCEPT ![p] = s] /\ lock' = p
    BY <1>1, <1>2, <2>2, <2>3 DEF Create, Goto, IInv, TypeOK
  <2> HIDE DEF s
  <2>7. /\ v' \in [Procs -> Sessions] /\ v'[p] = s
        /\ \A q \in Procs : q # p => v'[q] = v[q]
    BY <1>1, <1>2, <2>2, <2>3, <2>4, <2>6, SessionIs DEF IInv, TypeOK
  <2>8. TypeOK'
    BY <1>1, <1>2, <2>2, <2>3, <2>4, <2>5, <2>6, <2>7 DEF IInv, TypeOK, Inodes
  <2>9. FileInv'
    BY <1>1, <1>2, <2>2, <2>3, <2>4, <2>5, <2>6, <2>7, TextsAre DEF IInv, FileInv, Live, Loads
  <2>10. AcceptedIsWhole'
    BY <1>1, <1>2, <2>2, <2>3, <2>4, <2>5, <2>6, <2>7, TextsAre DEF IInv, AcceptedIsWhole, Loads
  <2>11. ProductInv(p)'
    BY <1>1, <1>2, <2>2, <2>3, <2>4, <2>5, <2>6, <2>7 DEF ProductInv, At, Before, After
  <2>12. HostInv(p)'
    BY <1>1, <1>2, <2>2, <2>3, <2>4, <2>5, <2>6, <2>7 DEF HostInv, At
  <2>13. s.pc = "told" => s.late \/ Wanted(p)'
    BY <1>1, <1>2, <2>2, <2>3, <2>5
  <2> QED BY <1>1, <1>2, <2>2, <2>3, <2>4, <2>5, <2>6, <2>8, <2>9, <2>10, <2>11, <2>12, <2>13, OwnKeeps
<1> QED BY <1>3, <1>4 DEF Create

LEMMA TruncateKeeps == ASSUME IInv, NEW p \in Procs, Truncate(p) PROVE IInv'
<1>1. At(p, "truncate") /\ ~At(p, "idle") /\ UNCHANGED <<path, perm, last, family, view, ui, saves, faults>>
  BY DEF Truncate, At, product, Calm
<1>2. /\ lock = p /\ v[p] \in Sessions /\ v[p].whole /\ ProductInv(p) /\ HostInv(p)
      /\ \A q \in Procs : q # p => At(q, "idle")
  BY <1>1, MineIs
<1>3. /\ path \in 0 .. MaxInodes /\ path \in Inodes /\ inode' \in [Inodes -> Texts] /\ inode'[path] = Cut /\ path # 0
      /\ \A j \in Inodes : j # path => inode'[j] = inode[j]
  <2>1. path \in 0 .. MaxInodes /\ path \in Inodes /\ path # 0
    BY <1>1, <1>2 DEF ProductInv, IInv, TypeOK, Inodes, At
  <2> QED BY <2>1, InodeIs, TextsAre DEF Truncate, IInv, TypeOK
<1> DEFINE s == [v[p] EXCEPT !.pc = "write", !.fd = path]
<1>4. s \in Sessions
  BY <1>1, <1>2, <1>3 DEF Sessions, PCs, Bodies, Inodes
<1>5. /\ s.pc = "write" /\ s.fd = path
      /\ s.op = v[p].op /\ s.key = v[p].key /\ s.val = v[p].val /\ s.sentinel = v[p].sentinel /\ s.snap = v[p].snap /\ s.host = v[p].host /\ s.body = v[p].body /\ s.whole = v[p].whole /\ s.late = v[p].late /\ s.prior = v[p].prior
  BY <1>1, <1>2, <1>3 DEF Sessions
<1>6. v' = [v EXCEPT ![p] = s] /\ lock' = p
  BY <1>1, <1>2, <1>3 DEF Truncate, Goto, IInv, TypeOK
<1> HIDE DEF s
<1>7. /\ v' \in [Procs -> Sessions] /\ v'[p] = s
      /\ \A q \in Procs : q # p => v'[q] = v[q]
  BY <1>1, <1>2, <1>3, <1>4, <1>6, SessionIs DEF IInv, TypeOK
<1>8. TypeOK'
  BY <1>1, <1>2, <1>3, <1>4, <1>5, <1>6, <1>7 DEF IInv, TypeOK
<1>9. FileInv'
  BY <1>1, <1>2, <1>3, <1>4, <1>5, <1>6, <1>7, TextsAre DEF IInv, FileInv, Live, Loads
<1>10. AcceptedIsWhole'
  BY <1>1, <1>2, <1>3, <1>4, <1>5, <1>6, <1>7, TextsAre DEF IInv, AcceptedIsWhole, Loads
<1>11. ProductInv(p)'
  BY <1>1, <1>2, <1>3, <1>4, <1>5, <1>6, <1>7 DEF ProductInv, At, Before, After
<1>12. HostInv(p)'
  BY <1>1, <1>2, <1>3, <1>4, <1>5, <1>6, <1>7 DEF HostInv, At
<1>13. s.pc = "told" => s.late \/ Wanted(p)'
  BY <1>1, <1>2, <1>3, <1>5
<1> QED BY <1>1, <1>2, <1>3, <1>4, <1>5, <1>6, <1>8, <1>9, <1>10, <1>11, <1>12, <1>13, OwnKeeps

LEMMA WriteKeeps == ASSUME IInv, NEW p \in Procs, Write(p) PROVE IInv'
<1>1. At(p, "write") /\ ~At(p, "idle") /\ UNCHANGED <<path, perm, family, view, ui, saves, faults>>
  BY DEF Write, At, product, Calm
<1>2. /\ lock = p /\ v[p] \in Sessions /\ v[p].whole /\ ProductInv(p) /\ HostInv(p)
      /\ \A q \in Procs : q # p => At(q, "idle")
  BY <1>1, MineIs
<1>3. v[p].fd \in Inodes /\ path \in Inodes /\ path # 0 /\ v[p].body \in Settings
  BY <1>1, <1>2 DEF ProductInv, IInv, TypeOK, Inodes, At, Sessions, Before
<1>4. Whole(v[p].body, v[p].whole) \in Texts /\ Whole(v[p].body, v[p].whole).mark = "ok"
      /\ Whole(v[p].body, v[p].whole).body = v[p].body /\ Whole(v[p].body, v[p].whole).whole
  BY <1>2, <1>3, TextsAre
<1> DEFINE t == Over(inode[v[p].fd], Whole(v[p].body, v[p].whole))
<1>5. /\ t \in Texts /\ t.mark # "none"
      /\ Loads(t) => t.body = v[p].body
      /\ Loads(t) => t.whole
      /\ inode[v[p].fd] = Cut => Loads(t)
  <2>1. inode[v[p].fd] \in Texts
    BY <1>3 DEF IInv, TypeOK
  <2> QED BY <1>4, <2>1, OverIs DEF Loads
<1>6. /\ inode' \in [Inodes -> Texts] /\ inode'[v[p].fd] = t
      /\ \A j \in Inodes : j # v[p].fd => inode'[j] = inode[j]
  <2>1. inode' = [inode EXCEPT ![v[p].fd] = t]
    BY DEF Write
  <2> HIDE DEF t
  <2> QED BY <1>3, <1>5, <2>1, InodeIs DEF IInv, TypeOK
<1> HIDE DEF t
<1>7. last' = (IF v[p].fd = path THEN v[p].body ELSE last) /\ last' \in Settings
  BY <1>3 DEF Write, IInv, TypeOK
<1>8. ~v[p].late => Loads(inode'[path]) /\ last' = v[p].body /\ inode'[path].body = v[p].body
  BY <1>1, <1>2, <1>5, <1>6, <1>7 DEF ProductInv
<1> DEFINE s == [v[p] EXCEPT !.pc = "chown", !.body = Empty, !.fd = 0]
<1>9. s \in Sessions
  BY <1>2, TextsAre, ZeroIs DEF Sessions, PCs, Bodies
<1>10. /\ s.pc = "chown" /\ s.body = Empty /\ s.fd = 0
      /\ s.op = v[p].op /\ s.key = v[p].key /\ s.val = v[p].val /\ s.sentinel = v[p].sentinel /\ s.snap = v[p].snap /\ s.host = v[p].host /\ s.whole = v[p].whole /\ s.late = v[p].late /\ s.prior = v[p].prior
  BY <1>1, <1>2, <1>3, <1>5, <1>6, <1>7, <1>8 DEF Sessions
<1>11. v' = [v EXCEPT ![p] = s] /\ lock' = p
  BY <1>1, <1>2, <1>3, <1>5, <1>6, <1>7, <1>8 DEF Write, Goto, IInv, TypeOK
<1> HIDE DEF s
<1>12. /\ v' \in [Procs -> Sessions] /\ v'[p] = s
      /\ \A q \in Procs : q # p => v'[q] = v[q]
  BY <1>1, <1>2, <1>3, <1>5, <1>6, <1>7, <1>8, <1>9, <1>11, SessionIs DEF IInv, TypeOK
<1>13. TypeOK'
  BY <1>1, <1>2, <1>3, <1>5, <1>6, <1>7, <1>8, <1>9, <1>10, <1>11, <1>12 DEF IInv, TypeOK
<1>14. FileInv'
  BY <1>1, <1>2, <1>3, <1>5, <1>6, <1>7, <1>8, <1>9, <1>10, <1>11, <1>12 DEF IInv, FileInv, Live
<1>15. AcceptedIsWhole'
  BY <1>1, <1>2, <1>3, <1>5, <1>6, <1>7, <1>8, <1>9, <1>10, <1>11, <1>12 DEF IInv, AcceptedIsWhole
<1>16. ProductInv(p)'
  BY <1>1, <1>2, <1>3, <1>5, <1>6, <1>7, <1>8, <1>9, <1>10, <1>11, <1>12 DEF ProductInv, At, Before, After, Wanted, Live
<1>17. HostInv(p)'
  BY <1>1, <1>2, <1>3, <1>5, <1>6, <1>7, <1>8, <1>9, <1>10, <1>11, <1>12 DEF HostInv, At
<1>18. s.pc = "told" => s.late \/ Wanted(p)'
  BY <1>1, <1>2, <1>3, <1>5, <1>6, <1>7, <1>8, <1>10
<1> QED BY <1>1, <1>2, <1>3, <1>5, <1>6, <1>7, <1>8, <1>9, <1>10, <1>11, <1>13, <1>14, <1>15, <1>16, <1>17, <1>18, OwnKeeps

LEMMA WriteCutKeeps == ASSUME IInv, NEW p \in Procs, WriteCut(p) PROVE IInv'
<1>1. At(p, "write") /\ ~At(p, "idle") /\ UNCHANGED <<path, perm, last, family, view, ui, saves>>
  BY DEF WriteCut, At, product, Calm
<1>2. /\ lock = p /\ v[p] \in Sessions /\ v[p].whole /\ ProductInv(p) /\ HostInv(p)
      /\ \A q \in Procs : q # p => At(q, "idle")
  BY <1>1, MineIs
<1>3. End(p) /\ faults' \in 0 .. MaxFaults
  BY DEF WriteCut, Fault, IInv, TypeOK
<1>4. v[p].fd \in Inodes /\ path # 0
  BY <1>1, <1>2 DEF ProductInv, IInv, TypeOK, Inodes, At, Sessions
<1>5. PICK b \in Settings : inode' = [inode EXCEPT ![v[p].fd] = [body |-> b, mark |-> "torn", whole |-> FALSE]]
  BY DEF WriteCut
<1>6. PICK t \in Texts : t.mark = "torn" /\ inode' = [inode EXCEPT ![v[p].fd] = t]
  BY <1>5 DEF Texts
<1>7. /\ inode' \in [Inodes -> Texts] /\ inode'[v[p].fd] = t
      /\ \A j \in Inodes : j # v[p].fd => inode'[j] = inode[j]
  BY <1>4, <1>6, InodeIs DEF IInv, TypeOK
<1>8. lock' = Nobody
  BY <1>3 DEF End
<1>9. v' \in [Procs -> Sessions] => TypeOK'
  BY <1>1, <1>3, <1>7, <1>8 DEF IInv, TypeOK
<1>10. (\A q \in Procs : v'[q].whole) => FileInv'
  BY <1>1, <1>4, <1>6, <1>7 DEF IInv, FileInv, Live, Loads, TypeOK, Inodes
<1>11. AcceptedIsWhole'
  BY <1>6, <1>7 DEF IInv, AcceptedIsWhole, Loads
<1> QED BY <1>1, <1>3, <1>9, <1>10, <1>11, EndKeeps

LEMMA PermIs ==
    ASSUME perm \in [Inodes -> Perms], NEW i \in Inodes, NEW x \in Perms,
           perm' = [perm EXCEPT ![i] = x]
    PROVE  perm' \in [Inodes -> Perms] /\ perm'[i] = x
OBVIOUS

LEMMA ChownKeeps == ASSUME IInv, NEW p \in Procs, Chown(p) PROVE IInv'
<1>1. At(p, "chown") /\ ~At(p, "idle") /\ UNCHANGED <<path, inode, last, family, view, ui, saves>>
  BY DEF Chown, At, product, Calm
<1>2. /\ lock = p /\ v[p] \in Sessions /\ v[p].whole /\ ProductInv(p) /\ HostInv(p)
      /\ \A q \in Procs : q # p => At(q, "idle")
  BY <1>1, MineIs
<1>3. path \in Inodes /\ path # 0 /\ ~v[p].sentinel
  BY <1>1, <1>2 DEF ProductInv, IInv, TypeOK, Inodes, At, Before, After
<1>4. CASE /\ perm' = [perm EXCEPT ![path].group = IF v[p].sentinel THEN @ ELSE "family"]
           /\ Grouped(p) /\ UNCHANGED faults /\ lock' = lock
  <2>1. PICK x \in Perms : x.group = "family" /\ perm' = [perm EXCEPT ![path] = x]
    <3>1. perm[path] \in Perms
      BY <1>3 DEF IInv, TypeOK
    <3>2. [perm[path] EXCEPT !.group = "family"] \in Perms
      BY <3>1 DEF Perms
    <3>3. perm' = [perm EXCEPT ![path] = [perm[path] EXCEPT !.group = "family"]]
      BY <1>3, <1>4 DEF IInv, TypeOK
    <3> QED BY <3>1, <3>2, <3>3 DEF Perms
  <2>2. perm' \in [Inodes -> Perms] /\ perm'[path] = x
    BY <1>3, <2>1, PermIs DEF IInv, TypeOK
  <2> DEFINE s == [v[p] EXCEPT !.pc = "chmod", !.fd = path]
  <2>3. s \in Sessions
    <3>1. path \in 0 .. MaxInodes /\ "chmod" \in PCs
      BY DEF IInv, TypeOK, PCs
    <3> QED BY <1>2, <3>1 DEF Sessions
  <2>4. /\ s.pc = "chmod" /\ s.fd = path
        /\ s.op = v[p].op /\ s.key = v[p].key /\ s.val = v[p].val /\ s.sentinel = v[p].sentinel /\ s.snap = v[p].snap /\ s.host = v[p].host /\ s.body = v[p].body /\ s.whole = v[p].whole /\ s.late = v[p].late /\ s.prior = v[p].prior
    BY <1>1, <1>2, <1>3, <1>4, <2>1, <2>2 DEF Sessions
  <2>5. v' = [v EXCEPT ![p] = s] /\ lock' = p
    BY <1>2, <1>4 DEF Grouped, IInv, TypeOK
  <2> HIDE DEF s
  <2>6. /\ v' \in [Procs -> Sessions] /\ v'[p] = s
        /\ \A q \in Procs : q # p => v'[q] = v[q]
    BY <1>1, <1>2, <1>3, <1>4, <2>1, <2>2, <2>3, <2>5, SessionIs DEF IInv, TypeOK
  <2>7. TypeOK'
    BY <1>1, <1>2, <1>3, <1>4, <2>1, <2>2, <2>3, <2>4, <2>5, <2>6 DEF IInv, TypeOK
  <2>8. FileInv'
    BY <1>1, <1>2, <1>3, <1>4, <2>1, <2>2, <2>3, <2>4, <2>5, <2>6 DEF IInv, FileInv, Live
  <2>9. AcceptedIsWhole'
    BY <1>1, <1>2, <1>3, <1>4, <2>1, <2>2, <2>3, <2>4, <2>5, <2>6 DEF IInv, AcceptedIsWhole
  <2>10. ProductInv(p)'
    BY <1>1, <1>2, <1>3, <1>4, <2>1, <2>2, <2>3, <2>4, <2>5, <2>6 DEF ProductInv, At, Before, After, Wanted, Live
  <2>11. HostInv(p)'
    BY <1>1, <1>2, <1>3, <1>4, <2>1, <2>2, <2>3, <2>4, <2>5, <2>6 DEF HostInv, At
  <2>12. s.pc = "told" => s.late \/ Wanted(p)'
    BY <1>1, <1>2, <1>3, <1>4, <2>1, <2>2, <2>4
  <2> QED BY <1>1, <1>2, <1>3, <1>4, <2>1, <2>2, <2>3, <2>4, <2>5, <2>7, <2>8, <2>9, <2>10, <2>11, <2>12, OwnKeeps
<1>5. CASE Fault /\ Goto(p, "fallback") /\ UNCHANGED perm /\ lock' = lock
  <2>1. faults' \in 0 .. MaxFaults
    BY <1>5 DEF Fault, IInv, TypeOK
  <2> DEFINE s == [v[p] EXCEPT !.pc = "fallback"]
  <2>2. s \in Sessions
    BY <1>1, <1>2, <1>3, <1>5, <2>1 DEF Sessions, PCs, Bodies
  <2>3. /\ s.pc = "fallback"
        /\ s.op = v[p].op /\ s.key = v[p].key /\ s.val = v[p].val /\ s.sentinel = v[p].sentinel /\ s.snap = v[p].snap /\ s.host = v[p].host /\ s.body = v[p].body /\ s.whole = v[p].whole /\ s.fd = v[p].fd /\ s.late = v[p].late /\ s.prior = v[p].prior
    BY <1>1, <1>2, <1>3, <1>5, <2>1 DEF Sessions
  <2>4. v' = [v EXCEPT ![p] = s] /\ lock' = p
    BY <1>1, <1>2, <1>3, <1>5, <2>1 DEF Chown, Goto, IInv, TypeOK
  <2> HIDE DEF s
  <2>5. /\ v' \in [Procs -> Sessions] /\ v'[p] = s
        /\ \A q \in Procs : q # p => v'[q] = v[q]
    BY <1>1, <1>2, <1>3, <1>5, <2>1, <2>2, <2>4, SessionIs DEF IInv, TypeOK
  <2>6. TypeOK'
    BY <1>1, <1>2, <1>3, <1>5, <2>1, <2>2, <2>3, <2>4, <2>5 DEF IInv, TypeOK
  <2>7. FileInv'
    BY <1>1, <1>2, <1>3, <1>5, <2>1, <2>2, <2>3, <2>4, <2>5 DEF IInv, FileInv, Live
  <2>8. AcceptedIsWhole'
    BY <1>1, <1>2, <1>3, <1>5, <2>1, <2>2, <2>3, <2>4, <2>5 DEF IInv, AcceptedIsWhole
  <2>9. ProductInv(p)'
    BY <1>1, <1>2, <1>3, <1>5, <2>1, <2>2, <2>3, <2>4, <2>5 DEF ProductInv, At, Before, After, Wanted, Live
  <2>10. HostInv(p)'
    BY <1>1, <1>2, <1>3, <1>5, <2>1, <2>2, <2>3, <2>4, <2>5 DEF HostInv, At
  <2>11. s.pc = "told" => s.late \/ Wanted(p)'
    BY <1>1, <1>2, <1>3, <1>5, <2>1, <2>3
  <2> QED BY <1>1, <1>2, <1>3, <1>5, <2>1, <2>2, <2>3, <2>4, <2>6, <2>7, <2>8, <2>9, <2>10, <2>11, OwnKeeps
<1> QED BY <1>4, <1>5 DEF Chown

\* Where a verb ends by the mode of the file alone.
LEMMA EndPerm ==
    ASSUME IInv, NEW p \in Procs, ~At(p, "idle"), End(p), perm' \in [Inodes -> Perms],
           UNCHANGED <<path, inode, last, family, view, ui, saves>>, faults' \in 0 .. MaxFaults
    PROVE  IInv'
<1>1. lock' = Nobody
  BY DEF End
<1>2. v' \in [Procs -> Sessions] => TypeOK'
  BY <1>1 DEF IInv, TypeOK
<1>3. (\A q \in Procs : v'[q].whole) => FileInv'
  BY DEF IInv, FileInv, Live
<1>4. AcceptedIsWhole'
  BY DEF IInv, AcceptedIsWhole
<1> QED BY <1>2, <1>3, <1>4, EndKeeps

LEMMA FallbackKeeps == ASSUME IInv, NEW p \in Procs, Fallback(p) PROVE IInv'
<1>1. At(p, "fallback") /\ ~At(p, "idle") /\ UNCHANGED <<path, inode, last, family, view, ui, saves>>
  BY DEF Fallback, At, product, Calm
<1>2. /\ lock = p /\ v[p] \in Sessions /\ v[p].whole /\ ProductInv(p) /\ HostInv(p)
      /\ \A q \in Procs : q # p => At(q, "idle")
  BY <1>1, MineIs
<1>3. path \in Inodes
  BY <1>1, <1>2 DEF ProductInv, IInv, TypeOK, Inodes, At, After
<1>4. perm' \in [Inodes -> Perms]
  <2>1. CASE perm' = [perm EXCEPT ![path].shared = FALSE]
    BY <1>3, <2>1 DEF IInv, TypeOK, Perms
  <2> QED BY <2>1 DEF Fallback, IInv, TypeOK
<1>5. faults' \in 0 .. MaxFaults /\ End(p)
  BY DEF Fallback, Fault, IInv, TypeOK
<1> QED BY <1>1, <1>4, <1>5, EndPerm

LEMMA ChmodKeeps == ASSUME IInv, NEW p \in Procs, Chmod(p) PROVE IInv'
<1>1. At(p, "chmod") /\ ~At(p, "idle") /\ UNCHANGED <<path, inode, last, family, view, ui, saves>>
  BY DEF Chmod, At, product, Calm
<1>2. /\ lock = p /\ v[p] \in Sessions /\ v[p].whole /\ ProductInv(p) /\ HostInv(p)
      /\ \A q \in Procs : q # p => At(q, "idle")
  BY <1>1, MineIs
<1>3. path \in Inodes /\ path # 0
  BY <1>1, <1>2 DEF ProductInv, IInv, TypeOK, Inodes, At, After
<1>4. CASE /\ perm' = [perm EXCEPT ![path].shared = TRUE] /\ UNCHANGED <<faults, lock>>
           /\ v' = [v EXCEPT ![p].pc = "told", ![p].fd = 0]
  <2>1. perm' \in [Inodes -> Perms]
    BY <1>3, <1>4 DEF IInv, TypeOK, Perms
  <2> DEFINE s == [v[p] EXCEPT !.pc = "told", !.fd = 0]
  <2>2. s \in Sessions
    BY <1>2, ZeroIs DEF Sessions, PCs, Bodies
  <2>3. /\ s.pc = "told" /\ s.fd = 0
        /\ s.op = v[p].op /\ s.key = v[p].key /\ s.val = v[p].val /\ s.sentinel = v[p].sentinel /\ s.snap = v[p].snap /\ s.host = v[p].host /\ s.body = v[p].body /\ s.whole = v[p].whole /\ s.late = v[p].late /\ s.prior = v[p].prior
    BY <1>1, <1>2, <1>3, <1>4, <2>1 DEF Sessions
  <2>4. v' = [v EXCEPT ![p] = s] /\ lock' = p
    BY <1>2, <1>4 DEF IInv, TypeOK
  <2> HIDE DEF s
  <2>5. /\ v' \in [Procs -> Sessions] /\ v'[p] = s
        /\ \A q \in Procs : q # p => v'[q] = v[q]
    BY <1>1, <1>2, <1>3, <1>4, <2>1, <2>2, <2>4, SessionIs DEF IInv, TypeOK
  <2>6. TypeOK'
    BY <1>1, <1>2, <1>3, <1>4, <2>1, <2>2, <2>3, <2>4, <2>5 DEF IInv, TypeOK
  <2>7. FileInv'
    BY <1>1, <1>2, <1>3, <1>4, <2>1, <2>2, <2>3, <2>4, <2>5 DEF IInv, FileInv, Live
  <2>8. AcceptedIsWhole'
    BY <1>1, <1>2, <1>3, <1>4, <2>1, <2>2, <2>3, <2>4, <2>5 DEF IInv, AcceptedIsWhole
  <2>9. ProductInv(p)'
    BY <1>1, <1>2, <1>3, <1>4, <2>1, <2>2, <2>3, <2>4, <2>5 DEF ProductInv, At, Before, After
  <2>10. HostInv(p)'
    BY <1>1, <1>2, <1>3, <1>4, <2>1, <2>2, <2>3, <2>4, <2>5 DEF HostInv, At
  <2>11. s.pc = "told" => s.late \/ Wanted(p)'
    BY <1>1, <1>2, <1>3, <1>4, <2>1, <2>2, <2>3, <2>4, <2>5 DEF ProductInv, At, After, Wanted, Live
  <2> QED BY <1>1, <1>2, <1>3, <1>4, <2>1, <2>2, <2>3, <2>4, <2>6, <2>7, <2>8, <2>9, <2>10, <2>11, OwnKeeps
<1>5. CASE Fault /\ End(p) /\ UNCHANGED perm
  <2>1. faults' \in 0 .. MaxFaults /\ perm' \in [Inodes -> Perms]
    BY <1>5 DEF Fault, IInv, TypeOK
  <2> QED BY <1>1, <1>5, <2>1, EndPerm
<1> QED BY <1>4, <1>5 DEF Chmod

LEMMA HostReadKeeps == ASSUME IInv, NEW p \in Procs, HostRead(p) PROVE IInv'
<1>1. At(p, "read") /\ ~At(p, "idle") /\ UNCHANGED <<path, inode, perm, last, family, view, ui, saves, faults>>
  BY DEF HostRead, At, product, Calm
<1>2. /\ lock = p /\ v[p] \in Sessions /\ v[p].whole /\ ProductInv(p) /\ HostInv(p)
      /\ \A q \in Procs : q # p => At(q, "idle")
  BY <1>1, MineIs
<1>3. PICK k \in {Fixed, Bind}, val \in HostValues :
         IF family[Bind] # Unset \/ family[k] \notin {Unset, val}
         THEN End(p)
         ELSE /\ v' = [v EXCEPT ![p].pc = IF family[k] = Unset THEN "hostcompare" ELSE "again",
                                ![p].key = k, ![p].val = val,
                                ![p].host = family, ![p].body = With(family, k, val)]
              /\ UNCHANGED lock
  BY DEF HostRead
<1>4. CASE End(p)
  BY <1>1, <1>4, EndQuiet DEF IInv, TypeOK
<1>5. CASE ~End(p)
  <2> DEFINE place == IF family[k] = Unset THEN "hostcompare" ELSE "again"
             wanted == With(family, k, val)
  <2>1. /\ family \in Host /\ wanted \in Host
        /\ place \in {"hostcompare", "again"} /\ (place = "again" => family[k] = val)
        /\ place = "hostcompare" => family[k] = Unset
    BY <1>3, <1>5, HostWithIs DEF IInv, TypeOK
  <2>2. /\ v' = [v EXCEPT ![p].pc = place, ![p].key = k, ![p].val = val, ![p].host = family,
                          ![p].body = wanted]
        /\ lock' = lock
    BY <1>3, <1>5
  <2>3. wanted = With(family, k, val)
    OBVIOUS
  <2> HIDE DEF place, wanted
  <2> DEFINE s == [v[p] EXCEPT !.pc = place, !.key = k, !.val = val, !.host = family, !.body = wanted]
  <2>4. s \in Sessions
    BY <1>1, <1>2, <2>1, <2>2, <2>3 DEF Sessions, PCs, Bodies
  <2>5. /\ s.pc = place /\ s.key = k /\ s.val = val /\ s.host = family /\ s.body = wanted
        /\ s.op = v[p].op /\ s.sentinel = v[p].sentinel /\ s.snap = v[p].snap /\ s.whole = v[p].whole /\ s.fd = v[p].fd /\ s.late = v[p].late /\ s.prior = v[p].prior
    BY <1>1, <1>2, <2>1, <2>2, <2>3 DEF Sessions
  <2>6. v' = [v EXCEPT ![p] = s] /\ lock' = p
    BY <1>1, <1>2, <2>1, <2>2, <2>3 DEF HostRead, Goto, IInv, TypeOK
  <2> HIDE DEF s
  <2>7. /\ v' \in [Procs -> Sessions] /\ v'[p] = s
        /\ \A q \in Procs : q # p => v'[q] = v[q]
    BY <1>1, <1>2, <2>1, <2>2, <2>3, <2>4, <2>6, SessionIs DEF IInv, TypeOK
  <2>8. TypeOK'
    BY <1>1, <1>2, <2>1, <2>2, <2>3, <2>4, <2>5, <2>6, <2>7 DEF IInv, TypeOK
  <2>9. FileInv'
    BY <1>1, <1>2, <2>1, <2>2, <2>3, <2>4, <2>5, <2>6, <2>7 DEF IInv, FileInv, Live
  <2>10. AcceptedIsWhole'
    BY <1>1, <1>2, <2>1, <2>2, <2>3, <2>4, <2>5, <2>6, <2>7 DEF IInv, AcceptedIsWhole
  <2>11. ProductInv(p)'
    BY <1>1, <1>2, <2>1, <2>2, <2>3, <2>4, <2>5, <2>6, <2>7 DEF ProductInv, At, Before, After
  <2>12. HostInv(p)'
    BY <1>1, <1>2, <2>1, <2>3, <2>5, <2>7 DEF HostInv, At
  <2>13. s.pc = "told" => s.late \/ Wanted(p)'
    BY <1>1, <1>2, <2>1, <2>2, <2>3, <2>5
  <2> QED BY <1>1, <1>2, <2>1, <2>2, <2>3, <2>4, <2>5, <2>6, <2>8, <2>9, <2>10, <2>11, <2>12, <2>13, OwnKeeps
<1> QED BY <1>4, <1>5

LEMMA AgainKeeps == ASSUME IInv, NEW p \in Procs, Again(p) PROVE IInv'
<1>1. At(p, "again") /\ ~At(p, "idle") /\ UNCHANGED <<path, inode, perm, last, family, view, ui, saves, faults>>
  BY DEF Again, At, product, Calm
<1>2. /\ lock = p /\ v[p] \in Sessions /\ v[p].whole /\ ProductInv(p) /\ HostInv(p)
      /\ \A q \in Procs : q # p => At(q, "idle")
  BY <1>1, MineIs
<1>3. CASE End(p)
  BY <1>1, <1>3, EndQuiet DEF IInv, TypeOK
<1>4. CASE /\ family = v[p].host /\ lock' = lock
           /\ v' = [v EXCEPT ![p].pc = "told", ![p].late = FALSE, ![p].host = Idle.host,
                             ![p].body = Empty]
  <2>1. Idle.host \in Host /\ Empty \in Settings
    BY IdleIs, TextsAre
  <2> DEFINE s == [v[p] EXCEPT !.pc = "told", !.late = FALSE, !.host = Idle.host, !.body = Empty]
  <2>2. s \in Sessions
    BY <1>1, <1>2, <1>4, <2>1 DEF Sessions, PCs, Bodies
  <2>3. /\ s.pc = "told" /\ s.late = FALSE /\ s.host = Idle.host /\ s.body = Empty
        /\ s.op = v[p].op /\ s.key = v[p].key /\ s.val = v[p].val /\ s.sentinel = v[p].sentinel /\ s.snap = v[p].snap /\ s.whole = v[p].whole /\ s.fd = v[p].fd /\ s.prior = v[p].prior
    BY <1>1, <1>2, <1>4, <2>1 DEF Sessions
  <2>4. v' = [v EXCEPT ![p] = s] /\ lock' = p
    BY <1>1, <1>2, <1>4, <2>1 DEF Again, Goto, IInv, TypeOK
  <2> HIDE DEF s
  <2>5. /\ v' \in [Procs -> Sessions] /\ v'[p] = s
        /\ \A q \in Procs : q # p => v'[q] = v[q]
    BY <1>1, <1>2, <1>4, <2>1, <2>2, <2>4, SessionIs DEF IInv, TypeOK
  <2>6. TypeOK'
    BY <1>1, <1>2, <1>4, <2>1, <2>2, <2>3, <2>4, <2>5 DEF IInv, TypeOK
  <2>7. FileInv'
    BY <1>1, <1>2, <1>4, <2>1, <2>2, <2>3, <2>4, <2>5 DEF IInv, FileInv, Live
  <2>8. AcceptedIsWhole'
    BY <1>1, <1>2, <1>4, <2>1, <2>2, <2>3, <2>4, <2>5 DEF IInv, AcceptedIsWhole
  <2>9. ProductInv(p)'
    BY <1>1, <1>2, <1>4, <2>1, <2>2, <2>3, <2>4, <2>5 DEF ProductInv, At, Before, After
  <2>10. HostInv(p)'
    BY <1>1, <1>2, <1>4, <2>1, <2>2, <2>3, <2>4, <2>5 DEF HostInv, At
  <2>11. s.pc = "told" => s.late \/ Wanted(p)'
    BY <1>1, <1>2, <1>4, <2>1, <2>2, <2>3, <2>4, <2>5 DEF HostInv, At, Wanted
  <2> QED BY <1>1, <1>2, <1>4, <2>1, <2>2, <2>3, <2>4, <2>6, <2>7, <2>8, <2>9, <2>10, <2>11, OwnKeeps
<1> QED BY <1>3, <1>4 DEF Again

LEMMA HostCompareKeeps == ASSUME IInv, NEW p \in Procs, HostCompare(p) PROVE IInv'
<1>1. At(p, "hostcompare") /\ ~At(p, "idle") /\ UNCHANGED <<path, inode, perm, last, family, view, ui, saves, faults>>
  BY DEF HostCompare, At, product, Calm
<1>2. /\ lock = p /\ v[p] \in Sessions /\ v[p].whole /\ ProductInv(p) /\ HostInv(p)
      /\ \A q \in Procs : q # p => At(q, "idle")
  BY <1>1, MineIs
<1>3. CASE End(p)
  BY <1>1, <1>3, EndQuiet DEF IInv, TypeOK
<1>4. CASE /\ family = v[p].host /\ lock' = lock
           /\ v' = [v EXCEPT ![p].pc = "replace", ![p].late = FALSE, ![p].host = Idle.host]
  <2>1. Idle.host \in Host /\ v[p].key \in {Fixed, Bind} /\ v[p].op = "hostadd"
    BY <1>1, <1>2, IdleIs DEF HostInv, At
  <2>2. /\ v[p].body \in Host /\ v[p].body[v[p].key] = v[p].val
        /\ family[v[p].key] = Unset
        /\ \A j \in {Fixed, Bind} : j # v[p].key => v[p].body[j] = family[j]
    <3>1. /\ v[p].body = With(family, v[p].key, v[p].val) /\ family[v[p].key] = Unset
          /\ v[p].val \in HostValues /\ family \in Host
      BY <1>1, <1>2, <1>4 DEF HostInv, At, IInv, TypeOK
    <3> QED BY <2>1, <3>1, HostWithIs
  <2>3. Keeps(v[p].body, family)
    BY <2>2 DEF Keeps, IInv, TypeOK, Host
  <2> DEFINE s == [v[p] EXCEPT !.pc = "replace", !.late = FALSE, !.host = Idle.host]
  <2>4. s \in Sessions
    BY <1>2, <2>1 DEF Sessions, PCs, Bodies
  <2>5. /\ s.pc = "replace" /\ s.late = FALSE /\ s.host = Idle.host
        /\ s.op = v[p].op /\ s.key = v[p].key /\ s.val = v[p].val /\ s.sentinel = v[p].sentinel /\ s.snap = v[p].snap /\ s.body = v[p].body /\ s.whole = v[p].whole /\ s.fd = v[p].fd /\ s.prior = v[p].prior
    BY <1>1, <1>2, <1>4, <2>1, <2>2, <2>3 DEF Sessions
  <2>6. v' = [v EXCEPT ![p] = s] /\ lock' = p
    BY <1>1, <1>2, <1>4, <2>1, <2>2, <2>3 DEF HostCompare, Goto, IInv, TypeOK
  <2> HIDE DEF s
  <2>7. /\ v' \in [Procs -> Sessions] /\ v'[p] = s
        /\ \A q \in Procs : q # p => v'[q] = v[q]
    BY <1>1, <1>2, <1>4, <2>1, <2>2, <2>3, <2>4, <2>6, SessionIs DEF IInv, TypeOK
  <2>8. TypeOK'
    BY <1>1, <1>2, <1>4, <2>1, <2>2, <2>3, <2>4, <2>5, <2>6, <2>7 DEF IInv, TypeOK
  <2>9. FileInv'
    BY <1>1, <1>2, <1>4, <2>1, <2>2, <2>3, <2>4, <2>5, <2>6, <2>7 DEF IInv, FileInv, Live
  <2>10. AcceptedIsWhole'
    BY <1>1, <1>2, <1>4, <2>1, <2>2, <2>3, <2>4, <2>5, <2>6, <2>7 DEF IInv, AcceptedIsWhole
  <2>11. ProductInv(p)'
    BY <1>1, <1>2, <1>4, <2>1, <2>2, <2>3, <2>4, <2>5, <2>6, <2>7 DEF ProductInv, At, Before, After
  <2>12. HostInv(p)'
    BY <1>1, <1>2, <1>4, <2>1, <2>2, <2>3, <2>4, <2>5, <2>6, <2>7 DEF HostInv, At
  <2>13. s.pc = "told" => s.late \/ Wanted(p)'
    BY <1>1, <1>2, <1>4, <2>1, <2>2, <2>3, <2>5
  <2> QED BY <1>1, <1>2, <1>4, <2>1, <2>2, <2>3, <2>4, <2>5, <2>6, <2>8, <2>9, <2>10, <2>11, <2>12, <2>13, OwnKeeps
<1> QED BY <1>3, <1>4 DEF HostCompare

LEMMA MoveGetKeeps == ASSUME IInv, NEW p \in Procs, MoveGet(p) PROVE IInv'
<1>1. At(p, "get") /\ ~At(p, "idle") /\ UNCHANGED <<path, inode, perm, last, family, view, ui, saves, faults>>
  BY DEF MoveGet, At, product, Calm
<1>2. /\ lock = p /\ v[p] \in Sessions /\ v[p].whole /\ ProductInv(p) /\ HostInv(p)
      /\ \A q \in Procs : q # p => At(q, "idle")
  BY <1>1, MineIs
<1>3. CASE End(p)
  BY <1>1, <1>3, EndQuiet DEF IInv, TypeOK
<1>4. CASE ~End(p)
  <2>1. PICK val \in HostValues, pc \in {"reread", "told"} :
           /\ v' = [v EXCEPT ![p].pc = pc, ![p].key = Bind, ![p].val = val,
                             ![p].prior = family[Bind], ![p].late = FALSE]
           /\ lock' = lock /\ (pc = "told" => family[Bind] = val)
    BY <1>4, ZenonT(30) DEF MoveGet
  <2>2. family[Bind] \in HostValues \cup {Unset} /\ v[p].op = "move"
    BY <1>1, <1>2 DEF IInv, TypeOK, Host, HostInv, At
  <2> DEFINE s == [v[p] EXCEPT !.pc = pc, !.key = Bind, !.val = val, !.prior = family[Bind], !.late = FALSE]
  <2>3. s \in Sessions
    BY <1>1, <1>2, <2>1, <2>2 DEF Sessions, PCs, Bodies
  <2>4. /\ s.pc = pc /\ s.key = Bind /\ s.val = val /\ s.prior = family[Bind] /\ s.late = FALSE
        /\ s.op = v[p].op /\ s.sentinel = v[p].sentinel /\ s.snap = v[p].snap /\ s.host = v[p].host /\ s.body = v[p].body /\ s.whole = v[p].whole /\ s.fd = v[p].fd
    BY <1>1, <1>2, <2>1, <2>2 DEF Sessions
  <2>5. v' = [v EXCEPT ![p] = s] /\ lock' = p
    BY <1>1, <1>2, <2>1, <2>2 DEF MoveGet, Goto, IInv, TypeOK
  <2> HIDE DEF s
  <2>6. /\ v' \in [Procs -> Sessions] /\ v'[p] = s
        /\ \A q \in Procs : q # p => v'[q] = v[q]
    BY <1>1, <1>2, <2>1, <2>2, <2>3, <2>5, SessionIs DEF IInv, TypeOK
  <2>7. TypeOK'
    BY <1>1, <1>2, <2>1, <2>2, <2>3, <2>4, <2>5, <2>6 DEF IInv, TypeOK
  <2>8. FileInv'
    BY <1>1, <1>2, <2>1, <2>2, <2>3, <2>4, <2>5, <2>6 DEF IInv, FileInv, Live
  <2>9. AcceptedIsWhole'
    BY <1>1, <1>2, <2>1, <2>2, <2>3, <2>4, <2>5, <2>6 DEF IInv, AcceptedIsWhole
  <2>10. ProductInv(p)'
    BY <1>1, <1>2, <2>1, <2>2, <2>3, <2>4, <2>5, <2>6 DEF ProductInv, At, Before, After
  <2>11. HostInv(p)'
    BY <1>1, <1>2, <2>1, <2>2, <2>3, <2>4, <2>5, <2>6 DEF HostInv, At
  <2>12. s.pc = "told" => s.late \/ Wanted(p)'
    BY <1>1, <1>2, <2>1, <2>2, <2>3, <2>4, <2>5, <2>6 DEF Wanted
  <2> QED BY <1>1, <1>2, <2>1, <2>2, <2>3, <2>4, <2>5, <2>7, <2>8, <2>9, <2>10, <2>11, <2>12, OwnKeeps
<1> QED BY <1>3, <1>4

LEMMA MoveRereadKeeps == ASSUME IInv, NEW p \in Procs, MoveReread(p) PROVE IInv'
<1>1. At(p, "reread") /\ ~At(p, "idle") /\ UNCHANGED <<path, inode, perm, last, family, view, ui, saves, faults>>
  BY DEF MoveReread, At, product, Calm
<1>2. /\ lock = p /\ v[p] \in Sessions /\ v[p].whole /\ ProductInv(p) /\ HostInv(p)
      /\ \A q \in Procs : q # p => At(q, "idle")
  BY <1>1, MineIs
<1>3. CASE End(p)
  BY <1>1, <1>3, EndQuiet DEF IInv, TypeOK
<1>4. CASE /\ family[Bind] = v[p].prior /\ lock' = lock
           /\ v' = [v EXCEPT ![p].pc = "replace", ![p].late = FALSE,
                             ![p].body = With(family, Bind, v[p].val)]
  <2> DEFINE wanted == With(family, Bind, v[p].val)
  <2>1. v[p].key = Bind /\ v[p].op = "move" /\ v[p].val \in HostValues /\ family \in Host
    BY <1>1, <1>2 DEF HostInv, At, IInv, TypeOK
  <2>2. wanted \in Host /\ wanted[Bind] = v[p].val /\ wanted[Fixed] = family[Fixed]
    BY <2>1, HostWithIs DEF Fixed, Bind
  <2>3. Keeps(wanted, With(family, Bind, Unset))
    <3>1. /\ With(family, Bind, Unset) \in Host /\ With(family, Bind, Unset)[Bind] = Unset
          /\ With(family, Bind, Unset)[Fixed] = family[Fixed]
      BY <2>1, HostWithIs DEF Fixed, Bind
    <3> QED BY <2>2, <3>1 DEF Keeps, Host
  <2> HIDE DEF wanted
  <2>4. v' = [v EXCEPT ![p].pc = "replace", ![p].late = FALSE, ![p].body = wanted]
    BY <1>4 DEF wanted
  <2> DEFINE s == [v[p] EXCEPT !.pc = "replace", !.late = FALSE, !.body = wanted]
  <2>5. s \in Sessions
    BY <1>1, <1>2, <1>4, <2>1, <2>2, <2>3, <2>4 DEF Sessions, PCs, Bodies
  <2>6. /\ s.pc = "replace" /\ s.late = FALSE /\ s.body = wanted
        /\ s.op = v[p].op /\ s.key = v[p].key /\ s.val = v[p].val /\ s.sentinel = v[p].sentinel /\ s.snap = v[p].snap /\ s.host = v[p].host /\ s.whole = v[p].whole /\ s.fd = v[p].fd /\ s.prior = v[p].prior
    BY <1>1, <1>2, <1>4, <2>1, <2>2, <2>3, <2>4 DEF Sessions
  <2>7. v' = [v EXCEPT ![p] = s] /\ lock' = p
    BY <1>1, <1>2, <1>4, <2>1, <2>2, <2>3, <2>4 DEF MoveReread, Goto, IInv, TypeOK
  <2> HIDE DEF s
  <2>8. /\ v' \in [Procs -> Sessions] /\ v'[p] = s
        /\ \A q \in Procs : q # p => v'[q] = v[q]
    BY <1>1, <1>2, <1>4, <2>1, <2>2, <2>3, <2>4, <2>5, <2>7, SessionIs DEF IInv, TypeOK
  <2>9. TypeOK'
    BY <1>1, <1>2, <1>4, <2>1, <2>2, <2>3, <2>4, <2>5, <2>6, <2>7, <2>8 DEF IInv, TypeOK
  <2>10. FileInv'
    BY <1>1, <1>2, <1>4, <2>1, <2>2, <2>3, <2>4, <2>5, <2>6, <2>7, <2>8 DEF IInv, FileInv, Live
  <2>11. AcceptedIsWhole'
    BY <1>1, <1>2, <1>4, <2>1, <2>2, <2>3, <2>4, <2>5, <2>6, <2>7, <2>8 DEF IInv, AcceptedIsWhole
  <2>12. ProductInv(p)'
    BY <1>1, <1>2, <1>4, <2>1, <2>2, <2>3, <2>4, <2>5, <2>6, <2>7, <2>8 DEF ProductInv, At, Before, After
  <2>13. HostInv(p)'
    BY <1>1, <1>4, <2>1, <2>2, <2>3, <2>6, <2>8 DEF HostInv, At
  <2>14. s.pc = "told" => s.late \/ Wanted(p)'
    BY <1>1, <1>2, <1>4, <2>1, <2>2, <2>3, <2>4, <2>6
  <2> QED BY <1>1, <1>2, <1>4, <2>1, <2>2, <2>3, <2>4, <2>5, <2>6, <2>7, <2>9, <2>10, <2>11, <2>12, <2>13, <2>14, OwnKeeps
<1> QED BY <1>3, <1>4 DEF MoveReread

LEMMA ReplaceKeeps == ASSUME IInv, NEW p \in Procs, Replace(p) PROVE IInv'
<1>1. At(p, "replace") /\ ~At(p, "idle") /\ UNCHANGED <<path, inode, perm, last, view, ui, saves>>
  BY DEF Replace, At, product, Calm
<1>2. /\ lock = p /\ v[p] \in Sessions /\ v[p].whole /\ ProductInv(p) /\ HostInv(p)
      /\ \A q \in Procs : q # p => At(q, "idle")
  BY <1>1, MineIs
<1>3. CASE /\ family' = v[p].body /\ v' = [v EXCEPT ![p].pc = "told", ![p].body = Empty]
           /\ UNCHANGED <<faults, lock>>
  <2>1. /\ v[p].op \in {"hostadd", "move"} /\ family' \in Host /\ family'[v[p].key] = v[p].val
        /\ Empty \in Settings
    BY <1>1, <1>2, <1>3, TextsAre DEF HostInv, At
  <2> DEFINE s == [v[p] EXCEPT !.pc = "told", !.body = Empty]
  <2>2. s \in Sessions
    BY <1>1, <1>2, <1>3, <2>1 DEF Sessions, PCs, Bodies
  <2>3. /\ s.pc = "told" /\ s.body = Empty
        /\ s.op = v[p].op /\ s.key = v[p].key /\ s.val = v[p].val /\ s.sentinel = v[p].sentinel /\ s.snap = v[p].snap /\ s.host = v[p].host /\ s.whole = v[p].whole /\ s.fd = v[p].fd /\ s.late = v[p].late /\ s.prior = v[p].prior
    BY <1>1, <1>2, <1>3, <2>1 DEF Sessions
  <2>4. v' = [v EXCEPT ![p] = s] /\ lock' = p
    BY <1>1, <1>2, <1>3, <2>1 DEF Replace, Goto, IInv, TypeOK
  <2> HIDE DEF s
  <2>5. /\ v' \in [Procs -> Sessions] /\ v'[p] = s
        /\ \A q \in Procs : q # p => v'[q] = v[q]
    BY <1>1, <1>2, <1>3, <2>1, <2>2, <2>4, SessionIs DEF IInv, TypeOK
  <2>6. TypeOK'
    BY <1>1, <1>2, <1>3, <2>1, <2>2, <2>3, <2>4, <2>5 DEF IInv, TypeOK
  <2>7. FileInv'
    BY <1>1, <1>2, <1>3, <2>1, <2>2, <2>3, <2>4, <2>5 DEF IInv, FileInv, Live
  <2>8. AcceptedIsWhole'
    BY <1>1, <1>2, <1>3, <2>1, <2>2, <2>3, <2>4, <2>5 DEF IInv, AcceptedIsWhole
  <2>9. ProductInv(p)'
    BY <1>1, <1>2, <1>3, <2>1, <2>2, <2>3, <2>4, <2>5 DEF ProductInv, At, Before, After
  <2>10. HostInv(p)'
    BY <1>1, <1>2, <1>3, <2>1, <2>2, <2>3, <2>4, <2>5 DEF HostInv, At
  <2>11. s.pc = "told" => s.late \/ Wanted(p)'
    BY <1>1, <1>2, <1>3, <2>1, <2>2, <2>3, <2>4, <2>5 DEF Wanted
  <2> QED BY <1>1, <1>2, <1>3, <2>1, <2>2, <2>3, <2>4, <2>6, <2>7, <2>8, <2>9, <2>10, <2>11, OwnKeeps
<1>4. CASE Fault /\ End(p) /\ UNCHANGED family
  BY <1>1, <1>4, EndQuiet DEF Fault, IInv, TypeOK
<1> QED BY <1>3, <1>4 DEF Replace

LEMMA EndsKeep == ASSUME IInv, NEW p \in Procs, Release(p) \/ Dies(p) PROVE IInv'
<1>1. ~At(p, "idle") /\ End(p) /\ UNCHANGED <<path, inode, perm, last, family, view, ui, saves>>
  BY DEF Release, Dies, At, product, Calm
<1>2. faults' \in 0 .. MaxFaults
  BY DEF Release, Dies, Fault, IInv, TypeOK
<1> QED BY <1>1, <1>2, EndQuiet

-----------------------------------------------------------------------------
(* Others take no session's place; a save marks those it touches as late.   *)

Places ==
    /\ v' \in [Procs -> Sessions] /\ lock' = lock
    /\ \A p \in Procs :
          /\ v'[p].pc = v[p].pc /\ v'[p].op = v[p].op /\ v'[p].key = v[p].key /\ v'[p].val = v[p].val
          /\ v'[p].prior = v[p].prior /\ v'[p].sentinel = v[p].sentinel /\ v'[p].snap = v[p].snap
          /\ v'[p].host = v[p].host /\ v'[p].body = v[p].body /\ v'[p].whole = v[p].whole
          /\ v'[p].fd = v[p].fd /\ (v[p].late => v'[p].late)

Marks(ops) == \A p \in Procs : ~At(p, "idle") /\ v[p].op \in ops => v'[p].late

\* A step of others on <product>.conf, and on mythical.conf.
ProductStands == UNCHANGED <<path, last, perm>> /\ (path # 0 => inode'[path] = inode[path])
ProductSaved  == Marks({"ensure", "add"}) /\ (path # 0 => path' # 0) /\ UNCHANGED perm
HostStands    == UNCHANGED family
HostSaved     == Marks({"hostadd", "move"})

LEMMA LandsIs ==
    ASSUME IInv, NEW ops, Lands(ops), lock' = lock
    PROVE  Places /\ Marks(ops)
<1>1. v \in [Procs -> Sessions]
  BY DEF IInv, TypeOK
<1>2. ASSUME NEW p \in Procs
      PROVE  /\ v'[p] \in Sessions
             /\ v'[p].pc = v[p].pc /\ v'[p].op = v[p].op /\ v'[p].key = v[p].key /\ v'[p].val = v[p].val
             /\ v'[p].prior = v[p].prior /\ v'[p].sentinel = v[p].sentinel /\ v'[p].snap = v[p].snap
             /\ v'[p].host = v[p].host /\ v'[p].body = v[p].body /\ v'[p].whole = v[p].whole
             /\ v'[p].fd = v[p].fd /\ (v[p].late => v'[p].late)
             /\ (~At(p, "idle") /\ v[p].op \in ops => v'[p].late)
  <2>1. PICK late \in BOOLEAN :
           /\ v'[p] = [v[p] EXCEPT !.late = late]
           /\ late <=> v[p].late \/ (~At(p, "idle") /\ v[p].op \in ops)
    BY DEF Lands
  <2>2. v[p] \in Sessions
    BY <1>1
  <2>3. [v[p] EXCEPT !.late = late] \in Sessions
    BY <2>2 DEF Sessions
  <2> QED BY <2>1, <2>2, <2>3 DEF Sessions
<1>3. v' \in [Procs -> Sessions]
  BY <1>2 DEF Lands
<1> QED BY <1>2, <1>3 DEF Places, Marks

LEMMA SamePlaces == ASSUME IInv, UNCHANGED <<v, lock>> PROVE Places
BY DEF IInv, TypeOK, Places

LEMMA OthersKeepProduct ==
    ASSUME IInv, Places, ProductStands \/ ProductSaved
    PROVE  \A p \in Procs : ProductInv(p)'
<1> SUFFICES ASSUME NEW p \in Procs PROVE ProductInv(p)'
  OBVIOUS
<1>1. ProductInv(p)
  BY DEF IInv
<1>2. CASE ProductStands
  BY <1>1, <1>2 DEF Places, ProductStands, ProductInv, At, Before, After, Wanted, Live
<1>3. CASE ProductSaved
  <2>1. v[p].pc \in {"ensure", "look"} \cup Before \cup After => v'[p].late
    BY <1>1, <1>3 DEF ProductInv, ProductSaved, Marks, At, Before, After
  <2> QED BY <1>1, <1>3, <2>1 DEF Places, ProductSaved, ProductInv, At, Before, After
<1> QED BY <1>2, <1>3

LEMMA OthersKeepHost ==
    ASSUME IInv, Places, HostStands \/ HostSaved
    PROVE  \A p \in Procs : HostInv(p)'
<1> SUFFICES ASSUME NEW p \in Procs PROVE HostInv(p)'
  OBVIOUS
<1>1. HostInv(p)
  BY DEF IInv
<1>2. CASE HostStands
  BY <1>1, <1>2 DEF Places, HostStands, HostInv, At
<1>3. CASE HostSaved
  <2>1. At(p, "replace") => v'[p].late
    BY <1>1, <1>3 DEF HostInv, HostSaved, Marks, At
  <2> QED BY <1>1, <2>1 DEF Places, HostInv, At
<1> QED BY <1>2, <1>3

LEMMA OthersKeepTold ==
    ASSUME IInv, Places, ProductStands \/ ProductSaved, HostStands \/ HostSaved
    PROVE  ToldIsSet'
<1> SUFFICES ASSUME NEW p \in Procs, At(p, "told")', ~v'[p].late PROVE Wanted(p)'
  BY DEF ToldIsSet
<1>1. At(p, "told") /\ ~At(p, "idle") /\ ~v[p].late /\ Wanted(p) /\ v[p].op \in Ops
  BY DEF Places, At, IInv, ToldIsSet, TypeOK, Sessions
<1>2. CASE v[p].op \in {"ensure", "add"}
  <2>1. ProductStands
    BY <1>1, <1>2 DEF ProductSaved, Marks
  <2> QED BY <1>1, <1>2, <2>1 DEF ProductStands, Places, Wanted, Live, Loads, NoText
<1>3. CASE v[p].op \notin {"ensure", "add"}
  <2>1. HostStands
    BY <1>1, <1>3 DEF HostSaved, Marks, Ops
  <2> QED BY <1>1, <1>3, <2>1 DEF HostStands, Places, Wanted
<1> QED BY <1>2, <1>3

LEMMA OthersKeepThese ==
    ASSUME IInv, Places, ProductStands \/ ProductSaved, HostStands \/ HostSaved,
           TypeOK', FileInv', AcceptedIsWhole'
    PROVE  IInv'
<1>1. LockInv'
  BY DEF Places, IInv, LockInv, At
<1> QED BY <1>1, OthersKeepProduct, OthersKeepHost, OthersKeepTold DEF IInv

LEMMA LaunchKeeps == IInv /\ Launch => IInv'
<1> SUFFICES ASSUME IInv, Launch PROVE IInv'
  OBVIOUS
<1>1. UNCHANGED <<path, inode, perm, last, family, lock, v, ui, faults, saves>> /\ view' = path
  BY DEF Launch, product
<1>2. TypeOK' /\ FileInv' /\ AcceptedIsWhole'
  BY <1>1 DEF IInv, TypeOK, FileInv, Live, AcceptedIsWhole
<1>3. Places /\ ProductStands /\ HostStands
  BY <1>1, SamePlaces DEF ProductStands, HostStands
<1> QED BY <1>2, <1>3, OthersKeepThese

LEMMA ScreenOpensKeeps == IInv /\ ScreenOpens => IInv'
<1> SUFFICES ASSUME IInv, ScreenOpens PROVE IInv'
  OBVIOUS
<1>1. /\ UNCHANGED <<path, perm, last, view, family, lock, faults>> /\ view \in Inodes
      /\ inode' = [inode EXCEPT ![view] = Cut]
  BY DEF ScreenOpens, Save, IInv, TypeOK, Inodes
<1>2. /\ inode' \in [Inodes -> Texts] /\ inode'[view] = Cut
      /\ \A j \in Inodes : j # view => inode'[j] = inode[j]
  BY <1>1, InodeIs, TextsAre DEF IInv, TypeOK
<1>3. Places /\ (view = path => Marks({"ensure", "add"}))
  BY <1>1, LandsIs, SamePlaces DEF ScreenOpens, OnProduct
<1>4. ui' \in [ino : 0 .. MaxInodes, body : Settings] /\ saves' \in 0 .. MaxSaves
  <2>1. saves' \in 0 .. MaxSaves
    BY DEF ScreenOpens, Save, IInv, TypeOK
  <2>2. PICK k \in Keys, val \in Values :
           ui' = [ino |-> view,
                  body |-> With(IF Loads(inode[view]) THEN inode[view].body ELSE Empty, k, val)]
    BY DEF ScreenOpens
  <2>3. inode[view].body \in Settings /\ Empty \in Settings
    BY <1>1, TextsAre DEF IInv, TypeOK, Texts
  <2>4. With(IF Loads(inode[view]) THEN inode[view].body ELSE Empty, k, val) \in Settings
    BY <2>3, WithIs
  <2>5. view \in 0 .. MaxInodes
    BY DEF IInv, TypeOK
  <2> QED BY <2>1, <2>2, <2>4, <2>5
<1>5. TypeOK'
  BY <1>1, <1>2, <1>3, <1>4 DEF Places, IInv, TypeOK
<1>6. FileInv'
  BY <1>1, <1>2, <1>3, TextsAre DEF Places, IInv, FileInv, Live, Loads, TypeOK, Inodes
<1>7. AcceptedIsWhole'
  BY <1>2, TextsAre DEF IInv, AcceptedIsWhole, Loads
<1>8. ProductStands \/ ProductSaved
  BY <1>1, <1>2, <1>3 DEF ProductStands, ProductSaved, IInv, TypeOK, Inodes
<1>9. HostStands
  BY <1>1 DEF HostStands
<1> QED BY <1>3, <1>5, <1>6, <1>7, <1>8, <1>9, OthersKeepThese

LEMMA ScreenWritesKeeps == IInv /\ ScreenWrites => IInv'
<1> SUFFICES ASSUME IInv, ScreenWrites PROVE IInv'
  OBVIOUS
<1>1. /\ UNCHANGED <<path, perm, view, family, lock, faults, saves>>
      /\ ui.ino \in Inodes /\ ui.body \in Settings /\ ui' = [ino |-> 0, body |-> Empty]
  BY DEF ScreenWrites, IInv, TypeOK, Inodes
<1> DEFINE t == Over(inode[ui.ino], Whole(ui.body, TRUE))
<1>2. /\ t \in Texts /\ t.mark # "none"
      /\ Loads(t) => t.body = ui.body
      /\ Loads(t) => t.whole
  <2>1. inode[ui.ino] \in Texts
    BY <1>1 DEF IInv, TypeOK
  <2>2. Whole(ui.body, TRUE) \in Texts /\ Whole(ui.body, TRUE).mark = "ok"
        /\ Whole(ui.body, TRUE).body = ui.body /\ Whole(ui.body, TRUE).whole
    BY <1>1, TextsAre
  <2> QED BY <2>1, <2>2, OverIs
<1>3. inode' = [inode EXCEPT ![ui.ino] = t]
  BY DEF ScreenWrites
<1> HIDE DEF t
<1>4. /\ inode' \in [Inodes -> Texts] /\ inode'[ui.ino] = t
      /\ \A j \in Inodes : j # ui.ino => inode'[j] = inode[j]
  BY <1>1, <1>2, <1>3, InodeIs DEF IInv, TypeOK
<1>5. /\ Places /\ (ui.ino = path => Marks({"ensure", "add"}) /\ last' = ui.body)
      /\ ui.ino # path => last' = last
  BY <1>1, LandsIs, SamePlaces DEF ScreenWrites, OnProduct
<1>6. ui' \in [ino : 0 .. MaxInodes, body : Settings] /\ last' \in Settings
  BY <1>1, <1>5, ZeroIs DEF IInv, TypeOK
<1>7. TypeOK'
  BY <1>1, <1>4, <1>5, <1>6 DEF Places, IInv, TypeOK
<1>8. FileInv'
  BY <1>1, <1>2, <1>4, <1>5 DEF Places, IInv, FileInv, Live, TypeOK, Inodes
<1>9. AcceptedIsWhole'
  BY <1>2, <1>4 DEF IInv, AcceptedIsWhole
<1>10. ProductStands \/ ProductSaved
  BY <1>1, <1>4, <1>5 DEF ProductStands, ProductSaved, IInv, TypeOK, Inodes
<1>11. HostStands
  BY <1>1 DEF HostStands
<1> QED BY <1>5, <1>7, <1>8, <1>9, <1>10, <1>11, OthersKeepThese

LEMMA ScreenDiesKeeps == IInv /\ ScreenDies => IInv'
<1> SUFFICES ASSUME IInv, ScreenDies PROVE IInv'
  OBVIOUS
<1>1. /\ UNCHANGED <<path, inode, perm, last, view, family, lock, v, saves>>
      /\ ui' \in [ino : 0 .. MaxInodes, body : Settings] /\ faults' \in 0 .. MaxFaults
  BY ZeroIs DEF ScreenDies, product, Fault, IInv, TypeOK
<1>2. TypeOK' /\ FileInv' /\ AcceptedIsWhole'
  BY <1>1 DEF IInv, TypeOK, FileInv, Live, AcceptedIsWhole
<1>3. Places /\ ProductStands /\ HostStands
  BY <1>1, SamePlaces DEF ProductStands, HostStands
<1> QED BY <1>2, <1>3, OthersKeepThese

LEMMA EditorSavesKeeps == IInv /\ EditorSaves => IInv'
<1> SUFFICES ASSUME IInv, EditorSaves PROVE IInv'
  OBVIOUS
<1>1. UNCHANGED <<perm, view, family, lock, ui, faults>> /\ saves' \in 0 .. MaxSaves
  BY DEF EditorSaves, Save, IInv, TypeOK
<1>2. PICK i \in Inodes, k \in Keys, val \in Values \cup {Unset}, mark \in {"ok", "torn"} :
         LET b == With(Live.body, k, val) IN
         /\ path' = i /\ last' = b
         /\ inode' = [inode EXCEPT ![i] = [body |-> b, mark |-> mark, whole |-> TRUE]]
  BY DEF EditorSaves
<1>3. PICK b \in Settings : b = With(Live.body, k, val)
  <2>1. Live.body \in Settings
    BY LiveIs DEF IInv, Texts
  <2> QED BY <2>1, WithIs
<1>4. PICK t \in Texts : t.body = b /\ t.mark # "none" /\ t.whole /\ inode' = [inode EXCEPT ![i] = t]
  <2>1. [body |-> b, mark |-> mark, whole |-> TRUE] \in Texts
    BY DEF Texts
  <2> QED BY <1>2, <1>3, <2>1
<1>5. /\ path' = i /\ last' = b /\ i # 0 /\ i \in 0 .. MaxInodes
      /\ inode' \in [Inodes -> Texts] /\ inode'[i] = t
      /\ \A j \in Inodes : j # i => inode'[j] = inode[j]
  <2>1. path' = i /\ last' = b /\ i # 0 /\ i \in 0 .. MaxInodes
    BY <1>2, <1>3 DEF Inodes
  <2> QED BY <1>4, <2>1, InodeIs DEF IInv, TypeOK
<1>6. Places /\ Marks({"ensure", "add"})
  BY <1>1, LandsIs DEF EditorSaves, OnProduct
<1>7. TypeOK'
  BY <1>1, <1>5, <1>6 DEF Places, IInv, TypeOK
<1>8. FileInv'
  BY <1>4, <1>5, <1>6 DEF Places, IInv, FileInv, Live
<1>9. AcceptedIsWhole'
  BY <1>4, <1>5 DEF IInv, AcceptedIsWhole
<1>10. ProductSaved /\ HostStands
  BY <1>1, <1>5, <1>6 DEF ProductSaved, HostStands
<1> QED BY <1>6, <1>7, <1>8, <1>9, <1>10, OthersKeepThese

LEMMA HostSavesKeeps == IInv /\ HostSaves => IInv'
<1> SUFFICES ASSUME IInv, HostSaves PROVE IInv'
  OBVIOUS
<1>1. UNCHANGED <<path, inode, perm, last, view, lock, ui, faults>> /\ saves' \in 0 .. MaxSaves
  BY DEF HostSaves, product, Save, IInv, TypeOK
<1>2. family' \in Host
  BY HostWithIs DEF HostSaves, IInv, TypeOK
<1>3. Places /\ Marks({"hostadd", "move"})
  BY <1>1, LandsIs DEF HostSaves, OnHost
<1>4. TypeOK' /\ FileInv' /\ AcceptedIsWhole'
  BY <1>1, <1>2, <1>3 DEF Places, IInv, TypeOK, FileInv, Live, AcceptedIsWhole
<1>5. ProductStands /\ HostSaved
  BY <1>1, <1>3 DEF ProductStands, HostSaved
<1> QED BY <1>3, <1>4, <1>5, OthersKeepThese

-----------------------------------------------------------------------------
(* The theorems.                                                            *)

LEMMA InitHolds == Init => IInv
<1> SUFFICES ASSUME Init PROVE IInv
  OBVIOUS
<1>1. \A p \in Procs : v[p] = Idle
  BY DEF Init
<1>2. v \in [Procs -> Sessions]
  BY IdleIs DEF Init
<1>3. family \in Host /\ ui \in [ino : 0 .. MaxInodes, body : Settings]
  BY ZeroIs DEF Init, Host
<1>4. inode \in [Inodes -> Texts] /\ perm \in [Inodes -> Perms]
  BY TextsAre DEF Init, Perms, Private
<1>5. TypeOK
  BY <1>2, <1>3, <1>4, ZeroIs DEF Init, TypeOK
<1>6. LockInv /\ ToldIsSet
  BY <1>1, IdleIs DEF Init, LockInv, ToldIsSet, At, Nobody
<1>7. FileInv /\ AcceptedIsWhole
  BY <1>1, IdleIs, TextsAre DEF Init, FileInv, AcceptedIsWhole, Live, Loads
<1>8. \A p \in Procs : ProductInv(p) /\ HostInv(p)
  BY <1>1, IdleIs DEF ProductInv, HostInv, At, Before, After
<1> QED BY <1>5, <1>6, <1>7, <1>8 DEF IInv

LEMMA VerbKeeps == ASSUME IInv, NEW p \in Procs, Verb(p) PROVE IInv'
<1>1. CASE ProductEnsure(p) \/ Snapshot(p) \/ Compare(p) \/ Create(p) \/ Truncate(p) \/ Write(p)
  BY <1>1, ProductEnsureKeeps, SnapshotKeeps, CompareKeeps, CreateKeeps, TruncateKeeps, WriteKeeps
<1>2. CASE WriteCut(p) \/ Chown(p) \/ Fallback(p) \/ Chmod(p) \/ Release(p) \/ Dies(p)
  BY <1>2, WriteCutKeeps, ChownKeeps, FallbackKeeps, ChmodKeeps, EndsKeep
<1>3. CASE HostRead(p) \/ Again(p) \/ HostCompare(p) \/ MoveGet(p) \/ MoveReread(p) \/ Replace(p)
  BY <1>3, HostReadKeeps, AgainKeeps, HostCompareKeeps, MoveGetKeeps, MoveRereadKeeps, ReplaceKeeps
<1> QED BY <1>1, <1>2, <1>3 DEF Verb

LEMMA NextKeeps == IInv /\ [Next]_vars => IInv'
<1> SUFFICES ASSUME IInv, [Next]_vars PROVE IInv'
  OBVIOUS
<1>1. CASE \E p \in Procs : Acquire(p) \/ Verb(p)
  BY <1>1, AcquireKeeps, VerbKeeps
<1>2. CASE Others
  BY <1>2, LaunchKeeps, ScreenOpensKeeps, ScreenWritesKeeps, ScreenDiesKeeps, EditorSavesKeeps,
     HostSavesKeeps DEF Others
<1>3. CASE UNCHANGED vars
  <2>1. TypeOK' /\ LockInv' /\ FileInv' /\ AcceptedIsWhole'
    BY <1>3 DEF vars, IInv, TypeOK, LockInv, FileInv, AcceptedIsWhole, Live, At
  <2>2. Places /\ ProductStands /\ HostStands
    BY <1>3, SamePlaces DEF vars, ProductStands, HostStands
  <2> QED BY <2>1, <2>2, OthersKeepThese
<1> QED BY <1>1, <1>2, <1>3 DEF Next

\* The inductive invariant, and with it the types of all the variables.
THEOREM Invariance == Spec => []IInv
BY InitHolds, NextKeeps, PTL DEF Spec

\* A <product>.conf that loads is never a cut write, two writes over each
\* other, or a merge into such a file, whoever wrote and died.
THEOREM WhatLoadsIsWhole == Spec => []AcceptedIsWhole
<1>1. IInv => AcceptedIsWhole
  BY DEF IInv
<1> QED BY <1>1, Invariance, PTL

\* A setting a verb reports as set is set, unless a save has landed since it
\* last compared the file.
THEOREM WhatIsToldIsSet == Spec => []ToldIsSet
<1>1. IInv => ToldIsSet
  BY DEF IInv
<1> QED BY <1>1, Invariance, PTL

-----------------------------------------------------------------------------
(* The steps that change a file under a session.                            *)

\* A session at a place takes the step of that place, or ends.
LEMMA StepAt ==
    ASSUME IInv, NEW p \in Procs, [Next]_vars, v'[p].pc # v[p].pc, ~At(p, "idle")
    PROVE  Verb(p)
<1>1. \A q \in Procs : q # p => At(q, "idle")
  BY MineIs
<1>2. ASSUME NEW q \in Procs, Acquire(q) \/ Verb(q) PROVE q = p \/ Acquire(q)
  BY <1>1, <1>2 DEF Verb, At, ProductEnsure, Snapshot, Compare, Create, Truncate, Write, WriteCut, Chown,
     Fallback, Chmod, HostRead, Again, HostCompare, MoveGet, MoveReread, Replace, Release, Dies
<1>3. ASSUME NEW q \in Procs, Acquire(q) PROVE FALSE
  BY <1>3, MineIs DEF Acquire, Nobody
<1>4. CASE Others
  <2>1. Places
    BY <1>4, LandsIs, SamePlaces DEF Others, Launch, ScreenOpens, ScreenWrites, ScreenDies, EditorSaves,
       HostSaves, OnProduct, OnHost
  <2> QED BY <2>1 DEF Places
<1> QED BY <1>2, <1>3, <1>4 DEF Next, vars

\* A step of another verb is not a step of this one.
LEMMA NotMine ==
    ASSUME IInv, NEW p \in Procs, NEW q \in Procs, q # p, Acquire(q) \/ Verb(q)
    PROVE  v'[p] = v[p]
<1>1. v \in [Procs -> Sessions]
  BY DEF IInv, TypeOK
<1>2. CASE Acquire(q) \/ ProductEnsure(q) \/ Compare(q) \/ Create(q) \/ Truncate(q) \/ Write(q) \/ WriteCut(q)
  BY <1>1, <1>2 DEF Acquire, ProductEnsure, Compare, Compared, Create, Truncate, Write, WriteCut, End, Goto
<1>3. CASE Chown(q) \/ Fallback(q) \/ Chmod(q) \/ Release(q) \/ Dies(q)
  BY <1>1, <1>3 DEF Chown, Grouped, Fallback, Chmod, Release, Dies, End, Goto
<1>4. CASE HostRead(q) \/ Again(q) \/ HostCompare(q) \/ MoveReread(q) \/ Replace(q)
  BY <1>1, <1>4 DEF HostRead, Again, HostCompare, MoveReread, Replace, End
<1>5. CASE MoveGet(q)
  BY <1>1, <1>5 DEF MoveGet, End
<1>6. CASE Snapshot(q)
  <2>1. CASE End(q)
    BY <1>1, <2>1 DEF End
  <2>2. CASE ~End(q)
    <3>1. \E f : v' = [v EXCEPT ![q] = f]
      BY <1>1, <1>6, <2>2 DEF Snapshot
    <3> QED BY <1>1, <3>1
  <2> QED BY <2>1, <2>2
<1> QED BY <1>2, <1>3, <1>4, <1>5, <1>6 DEF Verb

\* What a verb does to <product>.conf it does at four places.
LEMMA FileSteps ==
    ASSUME NEW p \in Procs, Acquire(p) \/ Verb(p)
    PROVE  UNCHANGED <<path, inode, last>> \/ Create(p) \/ Truncate(p) \/ Write(p) \/ WriteCut(p)
BY DEF Verb, Acquire, product, ProductEnsure, Snapshot, Compare, Chown, Fallback, Chmod, HostRead, Again,
   HostCompare, MoveGet, MoveReread, Replace, Release, Dies

\* What loads after a step of a verb holds all that was last saved, and the
\* storage key of a migration changes from the value cleared, unless a save has
\* landed since the verb last compared the file.  Only the emptying of the file
\* makes it not load.
THEOREM WhatLoadsKeepsWhatWasSaved == Spec => AddsOnly
<1> DEFINE Adds ==
       \A p \in Procs : ~v[p].late /\ v'[p].pc # v[p].pc =>
         /\ Loads(Live)' => Keeps(Live'.body, last)
         /\ Loads(Live) /\ ~Loads(Live)' => At(p, "truncate")
         /\ At(p, "replace") /\ family' # family =>
              IF v[p].op = "move"
              THEN family[Bind] = v[p].prior /\ Keeps(family', With(family, Bind, Unset))
              ELSE Keeps(family', family)
<1>1. ASSUME IInv, [Next]_vars, NEW p \in Procs, ~v[p].late, v'[p].pc # v[p].pc
      PROVE  /\ Loads(Live)' => Keeps(Live'.body, last)
             /\ Loads(Live) /\ ~Loads(Live)' => At(p, "truncate")
  <2>1. Acquire(p) \/ Verb(p)
    <3>1. CASE Others
      <4>1. Places
        BY <1>1, <3>1, LandsIs, SamePlaces DEF Others, Launch, ScreenOpens, ScreenWrites, ScreenDies,
           EditorSaves, HostSaves, OnProduct, OnHost
      <4> QED BY <1>1, <4>1 DEF Places
    <3> QED BY <1>1, <3>1, NotMine DEF Next, vars
  <2>2. FileInv /\ FileInv' /\ ProductInv(p)
    BY <1>1, NextKeeps DEF IInv
  <2>3. Keeps(last, last)
    BY DEF Keeps
  <2>4. Live.mark = "ok" => path # 0
    BY TextsAre DEF Live
  <2>5. CASE UNCHANGED <<path, inode, last>>
    <3>1. Live' = Live /\ last' = last
      BY <2>5 DEF Live
    <3> QED BY <2>2, <2>3, <3>1 DEF FileInv, Loads
  <2>6. CASE Write(p)
    <3>1. Keeps(v[p].body, last) /\ v[p].fd = path /\ inode[path] = Cut /\ last' = v[p].body
      BY <1>1, <2>2, <2>6 DEF Write, ProductInv, At
    <3>2. ~Loads(Live)
      BY <2>4, <3>1, TextsAre DEF Loads, Live
    <3> QED BY <2>2, <3>1, <3>2 DEF FileInv
  <2>7. CASE Create(p) \/ Truncate(p) \/ WriteCut(p)
    <3>1. last' = last
      BY <2>7 DEF Create, Truncate, WriteCut
    <3>2. Loads(Live) /\ ~Loads(Live)' => At(p, "truncate")
      <4>1. CASE Create(p)
        <5>1. CASE path = 0
          BY <2>4, <5>1 DEF Loads
        <5>2. CASE path # 0
          BY <4>1, <5>2 DEF Create, Live
        <5> QED BY <5>1, <5>2
      <4>2. CASE Truncate(p)
        BY <4>2 DEF Truncate
      <4>3. CASE WriteCut(p)
        <5>1. inode[path] = Cut
          BY <1>1, <2>2, <4>3 DEF WriteCut, ProductInv, At
        <5> QED BY <2>4, <5>1, TextsAre DEF Loads, Live
      <4> QED BY <2>7, <4>1, <4>2, <4>3
    <3> QED BY <2>2, <2>3, <3>1, <3>2 DEF FileInv
  <2> QED BY <2>1, <2>5, <2>6, <2>7, FileSteps
<1>2. ASSUME IInv, [Next]_vars, NEW p \in Procs, ~v[p].late, v'[p].pc # v[p].pc,
             At(p, "replace"), family' # family
      PROVE  IF v[p].op = "move"
             THEN family[Bind] = v[p].prior /\ Keeps(family', With(family, Bind, Unset))
             ELSE Keeps(family', family)
  <2>1. Replace(p)
    BY <1>2, StepAt DEF At, Verb, ProductEnsure, Snapshot, Compare, Create, Truncate, Write, WriteCut,
       Chown, Fallback, Chmod, HostRead, Again, HostCompare, MoveGet, MoveReread, Release, Dies
  <2>2. family' = v[p].body
    BY <1>2, <2>1 DEF Replace
  <2>3. HostInv(p)
    BY <1>2 DEF IInv
  <2> QED BY <1>2, <2>2, <2>3 DEF HostInv, At
<1>3. IInv /\ [Next]_vars => [Adds]_vars
  BY <1>1, <1>2
<1> QED BY <1>3, Invariance, PTL DEF Spec, AddsOnly

\* The mode of <product>.conf is opened to its group only where the file has
\* just been given the family group, unless another file was put at its path.
THEOREM OpenedToTheFamilyOnly == Spec => SharedWithFamily
<1> DEFINE Shared == \A p \in Procs : At(p, "chmod") /\ perm' # perm /\ v[p].fd = path =>
         perm'[path] = [group |-> "family", shared |-> TRUE]
<1>1. IInv /\ [Next]_vars => [Shared]_vars
  <2> SUFFICES ASSUME IInv, [Next]_vars, NEW p \in Procs, At(p, "chmod"), perm' # perm, v[p].fd = path
               PROVE  perm'[path] = [group |-> "family", shared |-> TRUE]
    OBVIOUS
  <2>1. perm[path].group = "family" /\ path # 0
    BY DEF IInv, ProductInv, At, After
  <2>2. lock = p /\ \A q \in Procs : q # p => At(q, "idle")
    BY MineIs DEF At
  <2>3. ~Others
    BY DEF Others, Launch, ScreenOpens, ScreenWrites, ScreenDies, EditorSaves, HostSaves, product
  <2>4. Chmod(p)
    <3>1. PICK q \in Procs : Acquire(q) \/ Verb(q)
      BY <2>3 DEF Next, vars
    <3>2. q = p /\ Verb(p)
      BY <2>2, <3>1 DEF Acquire, product, Nobody, Verb, At, ProductEnsure, Snapshot, Compare, Create,
         Truncate, Write, WriteCut, Chown, Fallback, Chmod, HostRead, Again, HostCompare, MoveGet,
         MoveReread, Replace, Release, Dies
    <3> QED BY <3>2 DEF Verb, At, product, ProductEnsure, Snapshot, Compare, Create, Truncate, Write,
         WriteCut, Chown, Fallback, HostRead, Again, HostCompare, MoveGet, MoveReread, Replace, Release, Dies
  <2>5. perm' = [perm EXCEPT ![path].shared = TRUE]
    BY <2>4 DEF Chmod
  <2>6. path \in Inodes /\ perm[path] \in Perms
    BY <2>1 DEF IInv, TypeOK, Inodes
  <2> QED BY <2>1, <2>5, <2>6 DEF IInv, TypeOK, Perms
<1> QED BY <1>1, Invariance, PTL DEF Spec, SharedWithFamily
================================================================================
