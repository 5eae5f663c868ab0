---------------------------- MODULE CopyFill_proofs ----------------------------
(***************************************************************************)
(* Proofs about CopyFill, for every finite set of paths at any depths, any *)
(* link targets, and every bound on the faults and on the acts of others.  *)
(***************************************************************************)
EXTENDS CopyFill, FiniteSetTheorems, FunctionTheorems, WellFoundedInduction, TLAPS

-----------------------------------------------------------------------------
(* The escape rule.                                                         *)

\* The natural numbers are well-founded, and a set that holds zero and with
\* every number the next holds them all: induction without an operator.
Below == {ss \in Nat \X Nat : ss[1] < ss[2]}
LEMMA BelowIsWellFounded == IsWellFoundedOn(Below, Nat)
BY NatLessThanWellFounded DEF OpToRel, Below

LEMMA SetInduction ==
    ASSUME NEW S, 0 \in S, \A n \in Nat : n \in S => n + 1 \in S
    PROVE  Nat \subseteq S
<1> SUFFICES ASSUME ~(Nat \subseteq S) PROVE FALSE
  OBVIOUS
<1> DEFINE T == {n \in Nat : n \notin S}
<1>1. T \subseteq Nat /\ T # {}
  OBVIOUS
<1>2. PICK n \in T : \A m \in T : <<m, n>> \notin Below
  <2> HIDE DEF T
  <2> QED BY <1>1, BelowIsWellFounded, WFMin
<1>3. n \in Nat /\ n \notin S /\ n # 0
  OBVIOUS
<1>4. n - 1 \in Nat /\ n - 1 < n
  BY <1>3
<1>5. n - 1 \in S
  BY <1>2, <1>3, <1>4 DEF Below
<1> QED BY <1>3, <1>4, <1>5

LEMMA TargetIs ==
    ASSUME NEW to \in Targets
    PROVE  Len(to) \in Nat /\ \A i \in 1 .. Len(to) : to[i] \in {"up", "down", "slash"}
BY CopyConstants

\* One more step, and one more of its kind.
LEMMA StepsGrow ==
    ASSUME NEW to \in Targets, NEW step, NEW i \in Nat, i < Len(to)
    PROVE  /\ Steps(to, 0, step) = 0 /\ Steps(to, i, step) \in Nat
           /\ Steps(to, i + 1, step) = Steps(to, i, step) + (IF to[i + 1] = step THEN 1 ELSE 0)
<1> DEFINE S(k) == {j \in 1 .. k : to[j] = step}
<1>1. S(0) = {}
  OBVIOUS
<1>2. IsFiniteSet(S(i))
  <2>1. IsFiniteSet(1 .. i)
    BY FS_Interval
  <2> QED BY <2>1, FS_Subset
<1>3. Cardinality(S(i)) \in Nat
  BY <1>2, FS_CardinalityType
<1>4. /\ Steps(to, 0, step) = Cardinality(S(0)) /\ Steps(to, i, step) = Cardinality(S(i))
      /\ Steps(to, i + 1, step) = Cardinality(S(i + 1))
  BY DEF Steps
<1>5. Steps(to, 0, step) = 0
  BY <1>1, <1>4, FS_EmptySet
<1>6. CASE to[i + 1] = step
  <2>1. S(i + 1) = S(i) \cup {i + 1} /\ i + 1 \notin S(i)
    BY <1>6
  <2> HIDE DEF S
  <2>2. Cardinality(S(i) \cup {i + 1}) = Cardinality(S(i)) + 1
    BY <1>2, <2>1, FS_AddElement
  <2>3. Steps(to, i + 1, step) = Steps(to, i, step) + 1
    BY <1>4, <2>1, <2>2
  <2> QED BY <1>3, <1>4, <1>5, <1>6, <2>3
<1>7. CASE to[i + 1] # step
  <2>1. S(i + 1) = S(i)
    BY <1>7
  <2> HIDE DEF S
  <2>2. Steps(to, i + 1, step) = Steps(to, i, step)
    BY <1>4, <2>1
  <2> QED BY <1>3, <1>4, <1>5, <1>7, <2>2
<1> QED BY <1>6, <1>7

\* The depth the code follows step by step is the depth of the entry with the
\* steps down added and the steps up taken off, after any number of steps.
LEMMA ClimbIs ==
    ASSUME NEW p \in Paths, NEW to \in Targets, NEW i \in 0 .. Len(to)
    PROVE  Climb(p, to)[i] = Depth[p] + Steps(to, i, "down") - Steps(to, i, "up")
<1> DEFINE n == Len(to)
           Sum(k) == Depth[p] + Steps(to, k, "down") - Steps(to, k, "up")
           Next1(f, k) == IF k = 0 THEN Depth[p] ELSE f[k - 1] + Down[to[k]]
           g == [k \in 0 .. n |-> Sum(k)]
           c == Climb(p, to)
<1>1. n \in Nat /\ Depth[p] \in Nat
  BY CopyConstants, TargetIs
<1>2. \A k \in 0 .. n : Sum(k) \in Int
  <2> SUFFICES ASSUME NEW k \in 0 .. n PROVE Sum(k) \in Int
    OBVIOUS
  <2>1. IsFiniteSet(1 .. k)
    BY <1>1, FS_Interval
  <2>2. \A step : Steps(to, k, step) \in Nat
    BY <2>1, FS_Subset, FS_CardinalityType DEF Steps
  <2> QED BY <1>1, <2>2
<1>3. Sum(0) = Depth[p]
  <2>1. \A step : Steps(to, 0, step) = 0
    <3>1. \A step : {j \in 1 .. 0 : to[j] = step} = {}
      OBVIOUS
    <3> QED BY <3>1, FS_EmptySet DEF Steps
  <2> QED BY <1>1, <2>1
<1>4. ASSUME NEW k \in Nat, k < n
      PROVE  Sum(k + 1) = Sum(k) + Down[to[k + 1]]
  <2>1. to[k + 1] \in {"up", "down", "slash"}
    BY <1>1, <1>4, TargetIs
  <2>2. /\ Steps(to, k, "up") \in Nat /\ Steps(to, k, "down") \in Nat
        /\ Steps(to, k + 1, "up") = Steps(to, k, "up") + (IF to[k + 1] = "up" THEN 1 ELSE 0)
        /\ Steps(to, k + 1, "down") = Steps(to, k, "down") + (IF to[k + 1] = "down" THEN 1 ELSE 0)
    BY <1>4, StepsGrow
  <2>3. Down["up"] = -1 /\ Down["down"] = 1 /\ Down["slash"] = 0
    BY DEF Down
  <2>4. CASE to[k + 1] = "up"
    BY <1>1, <2>2, <2>3, <2>4
  <2>5. CASE to[k + 1] = "down"
    BY <1>1, <2>2, <2>3, <2>5
  <2>6. CASE to[k + 1] = "slash"
    BY <1>1, <2>2, <2>3, <2>6
  <2> QED BY <2>1, <2>4, <2>5, <2>6
<1> HIDE DEF Sum
<1>5. g = [k \in 0 .. n |-> Next1(g, k)]
  <2>1. ASSUME NEW k \in 0 .. n PROVE g[k] = Next1(g, k)
    <3>1. CASE k = 0
      BY <1>3, <3>1
    <3>2. CASE k # 0
      <4>1. k - 1 \in Nat /\ k - 1 < n /\ k - 1 \in 0 .. n /\ (k - 1) + 1 = k
        BY <1>1, <3>2
      <4> QED BY <1>4, <3>2, <4>1
    <3> QED BY <3>1, <3>2
  <2> QED BY <2>1
<1>6. c = CHOOSE f : f = [k \in 0 .. n |-> Next1(f, k)]
  BY DEF Climb
<1>7. c = [k \in 0 .. n |-> Next1(c, k)]
  BY <1>5, <1>6
<1> HIDE DEF c
<1> DEFINE S == {k \in Nat : k <= n => c[k] = Sum(k)}
<1>8. 0 \in S
  BY <1>1, <1>3, <1>7
<1>9. \A k \in Nat : k \in S => k + 1 \in S
  <2> SUFFICES ASSUME NEW k \in Nat, k \in S, k + 1 <= n PROVE c[k + 1] = Sum(k + 1)
    OBVIOUS
  <2>1. k < n /\ k + 1 \in 0 .. n /\ k + 1 # 0 /\ (k + 1) - 1 = k
    BY <1>1
  <2>2. c[k] = Sum(k)
    BY <1>1, <2>1
  <2>3. c[k + 1] = c[k] + Down[to[k + 1]]
    BY <1>7, <2>1
  <2> QED BY <1>4, <2>1, <2>2, <2>3
<1>10. i \in S
  <2> HIDE DEF S
  <2> QED BY <1>1, <1>8, <1>9, SetInduction
<1> QED BY <1>1, <1>10 DEF c, Sum

\* The walk finds every link that leads outside.
LEMMA EscapesIsOutside ==
    ASSUME NEW p \in Paths, NEW e \in Entries
    PROVE  Outside(p, e) <=> Escapes(p, e)
<1>1. CASE e.kind # "link"
  <2>1. Len(e.to) = 0
    BY <1>1 DEF Entries, Entry, Link
  <2> QED BY <1>1, <2>1 DEF Outside, Absolute, Escapes
<1>2. CASE e.kind = "link"
  <2>1. e.to \in Targets
    BY <1>2 DEF Entries, Entry, Link
  <2>2. Len(e.to) \in Nat /\ Depth[p] \in Nat
    BY <2>1, TargetIs, CopyConstants
  <2>3. ASSUME NEW i \in 1 .. Len(e.to)
        PROVE  Steps(e.to, i, "up") > Depth[p] + Steps(e.to, i, "down") <=> Climb(p, e.to)[i] < 0
    <3>1. i \in 0 .. Len(e.to) /\ i \in Nat
      BY <2>2
    <3>2. Climb(p, e.to)[i] = Depth[p] + Steps(e.to, i, "down") - Steps(e.to, i, "up")
      BY <2>1, <3>1, ClimbIs
    <3>3. IsFiniteSet(1 .. i)
      BY <3>1, FS_Interval
    <3>4. \A step : Steps(e.to, i, step) \in Nat
      BY <3>3, FS_Subset, FS_CardinalityType DEF Steps
    <3> QED BY <2>2, <3>2, <3>4
  <2> QED BY <1>2, <2>3 DEF Outside, Escapes, LinkEscapes
<1> QED BY <1>1, <1>2


-----------------------------------------------------------------------------
(* Transcripts.  Only which lines a transcript has matters here.            *)

LEMMA BagLines ==
    /\ DOMAIN EmptyBag = {}
    /\ \A S : DOMAIN SetToBag(S) = S
    /\ \A a, b : DOMAIN (a (+) b) = DOMAIN a \cup DOMAIN b
BY DEF EmptyBag, SetToBag, (+)

LEMMA SumLines ==
    \A S, T : DOMAIN (SetToBag(S) (+) SetToBag(T)) = S \cup T
BY DEF SetToBag, (+)

LEMMA Silence ==
    ASSUME out = EmptyBag
    PROVE  Lines = {} /\ (\A key : Of(key) = {} /\ ~HasKey(key)) /\ Listed = {} /\ ~Ended
<1>1. Lines = {}
  BY BagLines DEF Lines, BagToSet
<1>2. \A key : Of(key) = {} /\ ~HasKey(key)
  BY <1>1 DEF Of, HasKey
<1> QED BY <1>1, <1>2 DEF Listed, Ended

LEMMA SilenceNext ==
    ASSUME out' = EmptyBag
    PROVE  (\A key : Of(key)' = {} /\ ~HasKey(key)') /\ Listed' = {} /\ ~Ended'
<1>1. Lines' = {}
  BY BagLines DEF Lines, BagToSet
<1>2. \A key : Of(key)' = {} /\ ~HasKey(key)'
  BY <1>1 DEF Of, HasKey
<1> QED BY <1>1, <1>2 DEF Listed, Ended

LEMMA SameLines ==
    ASSUME out' = out
    PROVE  /\ \A key : Of(key)' = Of(key) /\ (HasKey(key)' <=> HasKey(key))
           /\ Listed' = Listed /\ (Ended' <=> Ended)
<1>1. Lines' = Lines
  BY DEF Lines
<1>2. \A key : Of(key)' = Of(key) /\ (HasKey(key)' <=> HasKey(key))
  BY <1>1 DEF Of, HasKey
<1> QED BY <1>2 DEF Listed, Ended

LEMMA MoreLines ==
    ASSUME NEW bag, Emits(bag)
    PROVE  \A key : Of(key)' = Of(key) \cup {l \in DOMAIN bag : l.key = key}
<1>1. Lines' = Lines \cup DOMAIN bag
  BY BagLines DEF Lines, BagToSet, Emits
<1> QED BY <1>1 DEF Of

\* What is said of other things changes neither the list nor its end.
LEMMA OtherLines ==
    ASSUME NEW bag, Emits(bag), NEW key, \A l \in DOMAIN bag : l.key # key
    PROVE  /\ Of(key)' = Of(key) /\ (HasKey(key)' <=> HasKey(key))
           /\ key = "entry" => Listed' = Listed
           /\ key = "done" => (Ended' <=> Ended)
<1>1. Of(key)' = Of(key)
  BY MoreLines
<1>2. HasKey(key)' <=> HasKey(key)
  BY <1>1 DEF HasKey
<1>3. key = "entry" => Listed' = Listed
  BY <1>1 DEF Listed
<1> QED BY <1>1, <1>2, <1>3 DEF Ended

\* What an honest copier says of one entry.
LEMMA HonestLines ==
    ASSUME NEW p \in Paths, NEW l \in Honest(p)
    PROVE  /\ l.key \in {"entry", "linktarget", "refused"} /\ l.path = p /\ l.spelling = 0
           /\ l.key = "entry" => src[p] # NoEntry /\ l.val = TypeOf(src[p])
BY DEF Honest, Where, Enumerates, Discloses, Refuses, Rec

LEMMA HonestEnumerates ==
    ASSUME NEW p \in Paths, src[p] # NoEntry
    PROVE  \E l \in Honest(p) : l.key = "entry" /\ l.path = p
<1>1. Enumerates(p, TypeOf(src[p])) \in Honest(p)
  BY DEF Honest, Where
<1>2. /\ Enumerates(p, TypeOf(src[p])).key = "entry"
      /\ Enumerates(p, TypeOf(src[p])).path = p
  BY DEF Enumerates, Rec
<1> QED BY <1>1, <1>2

LEMMA TypeIsTold ==
    ASSUME NEW p \in Paths
    PROVE  src[p].kind = "special" => TypeOf(src[p]) = "special"
BY DEF TypeOf

\* A regressed copier says nothing of other entries, and of a special one
\* nothing that a check would take for a file or a link.
LEMMA RegressedLines ==
    ASSUME NEW p \in Paths, NEW bag \in Regressed(p), NEW l \in DOMAIN bag
    PROVE  /\ l.key \in {"entry", "linktarget", "refused"}
           /\ l.key = "entry" /\ src[p] # NoEntry => l.path = p /\ ~Disguised(l)
<1>1. l \in Honest(p) \cup {Respells(p, "file"), Garbles(p), Enumerates(p, "fifo")}
  <2> DEFINE H == Honest(p)
             Odd == {Respells(p, "file"), Garbles(p), Enumerates(p, "fifo")}
  <2>1. \/ bag \in {EmptyBag, SetToBag(H) (+) SetToBag(H), SetToBag(H) (+) SetToBag({Respells(p, "file")})}
        \/ \E part \in SUBSET (H \cup Odd) : bag = SetToBag(part)
    <3>1. /\ {k \in H : k.key = "entry"} \subseteq H \cup Odd
          /\ {k \in H : k.key = "entry"} \cup {Garbles(p)} \subseteq H \cup Odd
          /\ {k \in H : k.key # "refused"} \subseteq H \cup Odd
          /\ {Enumerates(p, "fifo")} \subseteq H \cup Odd
      OBVIOUS
    <3> QED BY <3>1 DEF Regressed
  <2> HIDE DEF H
  <2>2. DOMAIN bag \subseteq H \cup Odd
    <3>1. /\ DOMAIN EmptyBag = {} /\ DOMAIN SetToBag(H) = H
          /\ DOMAIN (SetToBag(H) (+) SetToBag(H)) = H
          /\ DOMAIN (SetToBag(H) (+) SetToBag({Respells(p, "file")})) = H \cup {Respells(p, "file")}
      <4>1. DOMAIN EmptyBag = {} /\ DOMAIN SetToBag(H) = H
        BY BagLines
      <4>2. DOMAIN (SetToBag(H) (+) SetToBag(H)) = H \cup H
        BY SumLines
      <4>3. DOMAIN (SetToBag(H) (+) SetToBag({Respells(p, "file")})) = H \cup {Respells(p, "file")}
        BY SumLines
      <4> QED BY <4>1, <4>2, <4>3
    <3>2. \A part \in SUBSET (H \cup Odd) : DOMAIN SetToBag(part) \subseteq H \cup Odd
      BY BagLines
    <3> QED BY <2>1, <3>1, <3>2
  <2> QED BY <2>2 DEF H
<1>2. CASE l \in Honest(p)
  BY <1>2, HonestLines, TypeIsTold DEF Disguised
<1>3. CASE l \in {Respells(p, "file"), Garbles(p), Enumerates(p, "fifo")}
  BY <1>3 DEF Respells, Garbles, Enumerates, Rec, Disguised
<1> QED BY <1>1, <1>2, <1>3

LEMMA SaysLines ==
    ASSUME NEW key, NEW val
    PROVE  Says(key, val).key = key
BY DEF Says, Rec

-----------------------------------------------------------------------------
(* Trees.                                                                   *)

LEMMA NoEntryIs ==
    NoEntry \in Entries /\ NoEntry.kind = "none" /\ Bare \in [Paths -> Entries]
    /\ \A p \in Paths : Bare[p] = NoEntry
BY DEF Entries, NoEntry, Entry, Bare

LEMMA LinksAre == \A to \in Targets : Link(to) \in Entries /\ Link(to).kind = "link"
BY DEF Entries, Link

LEMMA FilesAre == Entry("file") \in Entries /\ Entry("file").kind = "file" /\ Entry("file") # NoEntry
BY DEF Entries, Entry, NoEntry

LEMMA PathsAreFinite ==
    ASSUME NEW V \in SUBSET Paths
    PROVE  IsFiniteSet(V) /\ Cardinality(V) \in Nat
BY CopyConstants, FS_Subset, FS_CardinalityType

-----------------------------------------------------------------------------
(* The host's steps.                                                        *)

LEMMA BeginStep == ASSUME IInv, Begin PROVE IInv'
<1> USE DEF IInv, Begin, Launch
<1>1. TypeOK'
  BY NoEntryIs DEF TypeOK, Jobs
<1>2. CallInv'
  BY DEF CallInv, Jobs
<1>3. TreesInv'
  BY NoEntryIs DEF TreesInv
<1>4. CopyInv' /\ VerifyInv' /\ AcceptInv'
  BY DEF CopyInv, VerifyInv, AcceptInv
<1> QED BY <1>1, <1>2, <1>3, <1>4

LEMMA PreflightStep == ASSUME IInv, Preflight PROVE IInv'
<1> USE DEF IInv, Preflight, Answered, Launch, Ends
<1>1. pc = "preflight" /\ call = "answered" /\ pc' \in {"copy", "refused"}
  OBVIOUS
<1>2. UNCHANGED <<src, dst, granted, planted, holds, same, expect, bent, faults, hands, strays, seen>>
  BY DEF trees
<1>3. TypeOK'
  <2>1. /\ call' \in {"none", "create"} /\ box' \in {box, "none"} /\ todo' \in {todo, {}} /\ code' \in {code, 0}
        /\ checked' \in {checked, 0} /\ ran' \in {ran, TRUE}
    OBVIOUS
  <2>2. TypeOK
    OBVIOUS
  <2>3. checked' \in Nat /\ code' \in {0, 1} /\ todo' \subseteq Paths
    BY <2>1, <2>2 DEF TypeOK
  <2>4. ran' \in BOOLEAN
    BY <2>1, <2>2 DEF TypeOK
  <2> HIDE DEF IInv, Preflight
  <2> QED BY <1>1, <1>2, <2>1, <2>2, <2>3, <2>4 DEF TypeOK, Jobs
<1>4. CallInv'
  BY <1>1 DEF CallInv, Jobs
<1>5. TreesInv'
  BY <1>1, <1>2 DEF TreesInv, Bare, NoEntry
<1>6. CopyInv'
  <2>1. CASE pc' = "refused"
    BY <2>1 DEF CopyInv
  <2>2. CASE pc' = "copy"
    <3>1. call' = "create" /\ out' = EmptyBag /\ code' = 0
      BY <2>2
    <3>2. ~Ended'
      BY <3>1, SilenceNext
    <3> QED BY <3>1, <3>2 DEF CopyInv
  <2> QED BY <1>1, <2>1, <2>2
<1>7. VerifyInv' /\ AcceptInv'
  BY <1>1 DEF VerifyInv, AcceptInv
<1> QED BY <1>3, <1>4, <1>5, <1>6, <1>7

\* What the host concludes of an accepted transcript of the copy: the number
\* it carries on is that of the paths enumerated.
LEMMA CountIsOfPaths ==
    ASSUME EntryPathsOK, Listed \subseteq Paths
    PROVE  CountOf("entry") = Cardinality(Listed)
<1> DEFINE line == [p \in Listed |-> CHOOSE l \in Of("entry") : l.path = p]
<1>1. \A p \in Listed : line[p] \in Of("entry") /\ line[p].path = p
  BY DEF Listed
<1>2. \A l, k \in Of("entry") : l.path = k.path => l = k
  BY DEF EntryPathsOK
<1>3. \A l \in Of("entry") : l.path \in Listed /\ line[l.path] = l
  BY <1>1, <1>2 DEF Listed
<1>4. line \in [Listed -> Of("entry")]
  BY <1>1
<1> HIDE DEF line
<1>5. line \in Bijection(Listed, Of("entry"))
  <2>1. \A p, q \in Listed : line[p] = line[q] => p = q
    BY <1>1
  <2>2. \A l \in Of("entry") : \E p \in Listed : line[p] = l
    BY <1>3
  <2> QED BY <1>4, <2>1, <2>2, Fun_IsBij
<1>6. ExistsBijection(Listed, Of("entry"))
  BY <1>5 DEF ExistsBijection
<1>7. IsFiniteSet(Listed)
  BY PathsAreFinite
<1> QED BY <1>6, <1>7, FS_Bijection DEF CountOf

LEMMA CopyIsExpected ==
    ASSUME IInv, Copy, CopyOK
    PROVE  planted = {} /\ Expected'
<1>1. pc = "copy" /\ call = "answered" /\ ran /\ code = 0 /\ HasKey("done") /\ EntryPathsOK
  BY DEF Copy, Answered, CopyOK, Stated, HasKey
<1>2. planted = {}
  BY <1>1 DEF IInv, CopyInv, Ended
<1>3. UNCHANGED <<src, dst, bent>> /\ expect' = CountOf("entry")
  BY DEF Copy, trees
<1>4. CASE bent = "copy"
  <2>1. \A l \in Of("entry") : l.path \in Has(src) /\ ~Disguised(l)
    BY <1>1, <1>4 DEF IInv, CopyInv
  <2>2. Listed \subseteq Has(src) /\ Has(src) \subseteq Paths
    BY <2>1 DEF Listed, Has
  <2>3. \A l \in Of("entry") : l.val \in {"file", "symlink"}
    <3> SUFFICES ASSUME NEW l \in Of("entry"), l.val \notin {"file", "symlink"} PROVE FALSE
      OBVIOUS
    <3>1. Refusals = {}
      BY DEF CopyOK
    <3>2. CASE l.val = "special"
      <4>1. <<l.path, "special-entry">> \in Refusals
        BY <3>2 DEF Refusals
      <4> QED BY <3>1, <4>1
    <3>3. CASE l.val # "special"
      <4>1. <<l.path, "unknown-entry-type">> \in Refusals
        BY <3>3 DEF Refusals
      <4> QED BY <3>1, <4>1
    <3> QED BY <3>2, <3>3
  <2>4. \A l \in Of("entry") : src[l.path].kind # "special"
    BY <1>1, <2>1, <2>3 DEF Disguised, EntryPathsOK
  <2>5. \A p \in Listed : src[p].kind # "special"
    BY <2>4 DEF Listed
  <2>6. expect' = Cardinality(Listed)
    BY <1>1, <1>3, <2>2, CountIsOfPaths
  <2>7. Listed \in SUBSET Has(src)' /\ \A p \in Listed : src'[p].kind # "special"
    BY <1>3, <2>2, <2>5 DEF Has
  <2> HIDE DEF Listed
  <2>8. \E L \in SUBSET Has(src)' : expect' = Cardinality(L) /\ \A p \in L : src'[p].kind # "special"
    BY <2>6, <2>7
  <2>9. Expected'
    BY <1>3, <1>4, <2>8 DEF Expected
  <2> QED BY <1>2, <2>9
<1>5. CASE bent # "copy"
  <2>1. Listed = Has(dst)
    BY <1>1, <1>2, <1>5 DEF IInv, CopyInv
  <2>2. expect' = Cardinality(Has(dst))
    BY <1>1, <1>3, <2>1, CountIsOfPaths DEF Has
  <2>3. Has(dst)' = Has(dst)
    BY <1>3 DEF Has
  <2> QED BY <1>2, <1>3, <1>5, <2>2, <2>3 DEF Expected
<1> QED BY <1>4, <1>5

LEMMA CopyStep == ASSUME IInv, Copy PROVE IInv'
<1>1. /\ pc = "copy" /\ call = "answered"
      /\ UNCHANGED <<src, dst, granted, planted, holds, same, bent, faults, hands, strays, seen>>
  BY DEF Copy, Answered, Launch, Ends, trees
<1>2. CASE CopyOK
  <2>1. /\ pc' = "verify" /\ call' = "create" /\ box' = "none" /\ todo' = {} /\ out' = EmptyBag
        /\ code' = 0 /\ checked' = 0 /\ ran' = TRUE /\ expect' = CountOf("entry")
    BY <1>2 DEF Copy, Launch
  <2>2. planted = {} /\ Expected'
    BY <1>2, CopyIsExpected
  <2>3. expect' \in Nat
    <3>1. CASE bent = "copy"
      <4>1. PICK L \in SUBSET Has(src)' : expect' = Cardinality(L)
        BY <1>1, <2>2, <3>1 DEF Expected
      <4> QED BY <4>1, PathsAreFinite DEF Has
    <3>2. CASE bent # "copy"
      <4>1. expect' = Cardinality(Has(dst)')
        BY <1>1, <2>2, <3>2 DEF Expected
      <4> QED BY <4>1, PathsAreFinite DEF Has
    <3> QED BY <3>1, <3>2
  <2>4. TypeOK'
    BY <1>1, <2>1, <2>3 DEF IInv, TypeOK, Jobs
  <2>5. CallInv'
    BY <2>1 DEF CallInv, Jobs
  <2>6. TreesInv'
    BY <1>1, <2>1 DEF IInv, TreesInv
  <2>7. ~Ended'
    BY <2>1, SilenceNext
  <2>8. VerifyInv'
    <3>1. seen' = Bare'
      BY <1>1 DEF IInv, TreesInv, Bare, NoEntry
    <3> QED BY <1>1, <2>1, <2>2, <2>7, <3>1 DEF VerifyInv
  <2>9. CopyInv' /\ AcceptInv'
    BY <2>1 DEF CopyInv, AcceptInv
  <2> QED BY <2>4, <2>5, <2>6, <2>8, <2>9 DEF IInv
<1>3. CASE ~CopyOK
  <2>1. pc' = "refused" /\ call' = "none" /\ UNCHANGED <<box, todo, out, code, checked, ran, expect>>
    BY <1>3 DEF Copy, Ends
  <2>2. TypeOK'
    BY <1>1, <2>1 DEF IInv, TypeOK
  <2>3. CallInv' /\ TreesInv' /\ CopyInv' /\ VerifyInv' /\ AcceptInv'
    BY <1>1, <2>1 DEF IInv, CallInv, TreesInv, CopyInv, VerifyInv, AcceptInv
  <2> QED BY <2>2, <2>3 DEF IInv
<1> QED BY <1>2, <1>3

\* What the host may conclude of an accepted verification: every path that
\* was compared has an entry in both trees, and no other path has any.
LEMMA VerifiedIsWhole ==
    ASSUME IInv, Verify, VerifyOK
    PROVE  /\ \A p \in Paths : dst[p] = seen[p] \/ (dst[p] = NoEntry /\ bent = "verify")
           /\ \A p \in Paths : dst[p].kind # "special"
<1>1. /\ pc = "verify" /\ call = "answered" /\ ran /\ HasKey("done") /\ ~HasKey("mismatch")
      /\ checked = expect
  BY DEF Verify, Answered, VerifyOK, Stated, HasKey
<1>2. todo = {} /\ planted = {} /\ Expected
  BY <1>1 DEF IInv, VerifyInv, Ended
<1>3. PICK V \in SUBSET Paths : Compared(V)
  BY <1>1 DEF IInv, VerifyInv
<1>4. \A p \in V : dst[p] = seen[p] /\ dst[p] # NoEntry
  BY <1>1, <1>3 DEF Compared
<1>5. expect = Cardinality(V)
  BY <1>1, <1>3 DEF Compared
<1>6. bent # "verify" => \A p \in Paths \ V : seen[p] = NoEntry
  BY <1>3 DEF Compared
<1>7. CASE bent = "copy"
  <2>1. V = Has(src)
    BY <1>2, <1>3, <1>7 DEF Compared
  <2>2. PICK L \in SUBSET Has(src) : expect = Cardinality(L) /\ \A p \in L : src[p].kind # "special"
    BY <1>2, <1>7 DEF Expected
  <2>3. L = V
    BY <1>5, <2>1, <2>2, PathsAreFinite, FS_Subset
  <2>4. \A p \in Paths : dst[p] \in {NoEntry, src[p]}
    BY <1>7 DEF IInv, TreesInv
  <2>5. \A p \in Paths \ V : src[p] = NoEntry
    BY <2>1 DEF Has
  <2>6. \A p \in Paths : dst[p].kind # "special"
    <3> SUFFICES ASSUME NEW p \in Paths PROVE dst[p].kind # "special"
      OBVIOUS
    <3>1. CASE p \in V
      BY <2>2, <2>3, <2>4, <3>1, NoEntryIs
    <3>2. CASE p \notin V
      BY <2>4, <2>5, <3>2, NoEntryIs
    <3> QED BY <3>1, <3>2
  <2>7. \A p \in Paths : dst[p] = seen[p]
    <3> SUFFICES ASSUME NEW p \in Paths PROVE dst[p] = seen[p]
      OBVIOUS
    <3>1. CASE p \in V
      BY <1>4, <3>1
    <3>2. CASE p \notin V
      BY <1>6, <1>7, <2>4, <2>5, <3>2
    <3> QED BY <3>1, <3>2
  <2> QED BY <2>6, <2>7
<1>8. CASE bent # "copy"
  <2>1. V \subseteq Has(dst) /\ Has(dst) \subseteq Paths
    BY <1>4 DEF Has
  <2>2. Cardinality(V) = Cardinality(Has(dst))
    BY <1>2, <1>5, <1>8 DEF Expected
  <2>3. V = Has(dst)
    BY <2>1, <2>2, PathsAreFinite, FS_Subset
  <2>4. \A p \in Paths \ V : dst[p] = NoEntry
    BY <2>3 DEF Has
  <2>5. \A p \in Paths : dst[p].kind # "special"
    BY <1>8 DEF IInv, TreesInv
  <2> QED BY <1>4, <1>6, <2>4, <2>5
<1> QED BY <1>7, <1>8

LEMMA VerifyStep == ASSUME IInv, Verify PROVE IInv'
<1>1. /\ pc = "verify" /\ call = "answered"
      /\ UNCHANGED <<src, dst, granted, planted, holds, same, expect, bent, faults, hands, strays, seen>>
  BY DEF Verify, Answered, Launch, Ends, trees
<1>2. \/ /\ pc' = "access" /\ call' = "create" /\ box' = "none" /\ todo' = {} /\ code' = 0
         /\ checked' = 0 /\ ran' = TRUE
      \/ /\ pc' \in {"walk", "refused"} /\ call' = "none"
         /\ UNCHANGED <<box, todo, code, checked, ran>>
  BY DEF Verify, Launch, Ends
<1>3. pc' # "refused" => VerifyOK
  BY DEF Verify, Ends
<1>4. TypeOK'
  <2>1. CASE pc' = "access"
    BY <1>1, <1>2, <2>1 DEF IInv, TypeOK, Jobs
  <2>2. CASE pc' \in {"walk", "refused"}
    <3>1. UNCHANGED <<box, todo, code, checked, ran>> /\ call' = "none"
      BY <1>2, <2>2
    <3> QED BY <1>1, <2>2, <3>1 DEF IInv, TypeOK
  <2> QED BY <1>2, <2>1, <2>2
<1>5. CallInv'
  BY <1>1, <1>2 DEF IInv, CallInv, Jobs
<1>6. TreesInv'
  BY <1>1, <1>2 DEF IInv, TreesInv
<1>7. CopyInv' /\ VerifyInv'
  BY <1>2 DEF CopyInv, VerifyInv
<1>8. AcceptInv'
  <2>1. CASE VerifyOK
    <3>1. \A p \in Paths : dst'[p] = seen'[p] \/ (dst'[p] = NoEntry /\ bent' = "verify")
      BY <1>1, <2>1, VerifiedIsWhole
    <3>2. \A p \in Paths : dst'[p].kind # "special"
      BY <1>1, <2>1, VerifiedIsWhole
    <3> QED BY <1>2, <3>1, <3>2 DEF AcceptInv, NoEntry
  <2>2. CASE ~VerifyOK
    BY <1>2, <1>3, <2>2 DEF AcceptInv
  <2> QED BY <2>1, <2>2
<1> QED BY <1>4, <1>5, <1>6, <1>7, <1>8 DEF IInv

LEMMA AccessCheckStep == ASSUME IInv, AccessCheck PROVE IInv'
<1>1. /\ pc = "access" /\ call = "answered" /\ pc' \in {"walk", "refused"} /\ call' = "none"
      /\ UNCHANGED <<src, dst, granted, planted, holds, same, expect, bent, faults, hands, strays, seen>>
      /\ UNCHANGED <<box, todo, code, checked, ran>>
  BY DEF AccessCheck, Answered, Ends, trees
<1>2. TypeOK'
  BY <1>1 DEF IInv, TypeOK
<1>3. CallInv' /\ TreesInv' /\ CopyInv' /\ VerifyInv'
  BY <1>1 DEF IInv, CallInv, TreesInv, CopyInv, VerifyInv
<1>4. AcceptInv'
  BY <1>1 DEF IInv, AcceptInv, NoEntry
<1> QED BY <1>2, <1>3, <1>4 DEF IInv

LEMMA HostWalkStep == ASSUME IInv, HostWalk PROVE IInv'
<1>1. /\ pc = "walk" /\ pc' \in {"done", "refused"} /\ call' = "none"
      /\ pc' = "done" => \A p \in Paths : ~Escapes(p, dst[p])
      /\ UNCHANGED <<src, dst, granted, planted, holds, same, expect, bent, faults, hands, strays, seen>>
      /\ UNCHANGED <<box, todo, code, checked, ran>>
  BY DEF HostWalk, Ends, trees
<1>2. TypeOK'
  BY <1>1 DEF IInv, TypeOK
<1>3. CallInv' /\ TreesInv' /\ CopyInv' /\ VerifyInv'
  <2>1. call # "wait"
    BY <1>1 DEF IInv, CallInv, Jobs
  <2> QED BY <1>1, <2>1 DEF IInv, CallInv, TreesInv, CopyInv, VerifyInv
<1>4. AcceptInv'
  <2>1. pc' = "done" => \A p \in Paths : ~Escapes(p, dst'[p])
    BY <1>1
  <2> QED BY <1>1, <2>1 DEF IInv, AcceptInv, NoEntry
<1> QED BY <1>2, <1>3, <1>4 DEF IInv

-----------------------------------------------------------------------------
(* The steps of HelperRun.                                                  *)

\* The trees, what was accepted of them, and where the migration is.
LEMMA QuietKeeps ==
    ASSUME IInv, Quiet
    PROVE  /\ AcceptInv' /\ (Expected' <=> Expected)
           /\ UNCHANGED <<src, dst, granted, planted, holds, same, pc, expect, bent, seen, hands>>
<1>1. UNCHANGED <<src, dst, granted, planted, holds, same, pc, expect, bent, seen, hands>>
  BY DEF Quiet, trees
<1>2. AcceptInv'
  BY <1>1 DEF IInv, AcceptInv, NoEntry
<1>3. Expected' <=> Expected
  BY <1>1 DEF Expected, Has, NoEntry
<1> QED BY <1>1, <1>2, <1>3

\* A call that goes from waited for to answered with all it had said.
LEMMA SameCallKeeps ==
    ASSUME IInv, Quiet, UNCHANGED <<todo, out, code, checked, ran>>,
           call \in {"wait", "answered"}, call' \in {"wait", "answered"}
    PROVE  CopyInv' /\ VerifyInv'
<1>1. UNCHANGED <<src, dst, granted, planted, holds, same, pc, expect, bent, seen, hands>>
  BY QuietKeeps
<1>2. /\ \A key : Of(key)' = Of(key) /\ (HasKey(key)' <=> HasKey(key))
      /\ Listed' = Listed /\ (Ended' <=> Ended)
  BY SameLines
<1>3. Has(src)' = Has(src) /\ Has(dst)' = Has(dst) /\ (Expected' <=> Expected)
  BY <1>1, QuietKeeps DEF Has, NoEntry
<1>4. CopyInv'
  BY <1>1, <1>2, <1>3 DEF IInv, CopyInv, Disguised, NoEntry
<1>5. VerifyInv'
  <2>1. \A V : Compared(V)' <=> Compared(V)
    BY <1>1, <1>2, <1>3 DEF Compared, NoEntry
  <2> QED BY <1>1, <1>2, <1>3, <2>1 DEF IInv, VerifyInv
<1> QED BY <1>4, <1>5

LEMMA CreateBoxStep == ASSUME IInv, CreateBox PROVE IInv'
<1>1. /\ call = "create" /\ call' = "start" /\ box' = "created"
      /\ UNCHANGED <<strays, todo, out, code, checked, ran, faults>> /\ Quiet
  BY DEF CreateBox
<1>2. UNCHANGED <<src, dst, granted, planted, holds, same, pc, expect, bent, seen, hands>>
  BY <1>1, QuietKeeps
<1>3. TypeOK'
  BY <1>1, <1>2 DEF IInv, TypeOK
<1>4. CallInv'
  BY <1>1, <1>2 DEF IInv, CallInv
<1>5. TreesInv'
  BY <1>1, <1>2 DEF IInv, TreesInv, Bare, NoEntry
<1>6. CopyInv'
  <2>1. Ended' <=> Ended
    BY <1>1, SameLines
  <2> QED BY <1>1, <1>2, <2>1 DEF IInv, CopyInv
<1>7. VerifyInv'
  <2>1. (Ended' <=> Ended) /\ (Expected' <=> Expected)
    BY <1>1, SameLines, QuietKeeps
  <2> QED BY <1>1, <1>2, <2>1 DEF IInv, VerifyInv, Bare, NoEntry
<1> QED BY <1>1, <1>3, <1>4, <1>5, <1>6, <1>7, QuietKeeps DEF IInv

\* A run that failed has no transcript.
LEMMA FailedStep ==
    ASSUME IInv, RunFailed, Quiet, Fault, call \in {"create", "start", "wait"}
    PROVE  IInv'
<1>1. UNCHANGED <<src, dst, granted, planted, holds, same, pc, expect, bent, seen, hands>>
  BY QuietKeeps
<1>2. /\ call' = "answered" /\ ran' = FALSE /\ out' = EmptyBag /\ box' = "none"
      /\ strays' \in {strays, strays + 1} /\ UNCHANGED <<todo, code, checked>>
  BY DEF RunFailed
<1>3. TypeOK'
  <2>1. strays \in Nat /\ faults \in Nat
    BY DEF IInv, TypeOK
  <2>2. strays' \in Nat /\ faults' \in Nat
    BY <1>2, <2>1 DEF Fault
  <2> QED BY <1>1, <1>2, <2>2 DEF IInv, TypeOK
<1>4. CallInv'
  BY <1>1, <1>2 DEF IInv, CallInv
<1>5. TreesInv'
  BY <1>1, <1>2 DEF IInv, TreesInv, Bare, NoEntry
<1>6. ~Ended' /\ (Expected' <=> Expected)
  BY <1>2, SilenceNext, QuietKeeps
<1>7. CopyInv'
  BY <1>2, <1>6 DEF CopyInv
<1>8. VerifyInv'
  BY <1>1, <1>2, <1>6 DEF IInv, VerifyInv
<1> QED BY <1>3, <1>4, <1>5, <1>7, <1>8, QuietKeeps DEF IInv

LEMMA StartBoxStep == ASSUME IInv, StartBox PROVE IInv'
<1>1. /\ call = "start" /\ call' = "wait" /\ box' = "running"
      /\ todo' = (IF pc \in {"copy", "verify"} THEN Has(src) ELSE {})
      /\ UNCHANGED <<strays, out, code, checked, ran, faults>> /\ Quiet
  BY DEF StartBox
<1>2. UNCHANGED <<src, dst, granted, planted, holds, same, pc, expect, bent, seen, hands>>
  BY <1>1, QuietKeeps
<1>3. TypeOK'
  <2>1. todo' \subseteq Paths
    BY <1>1 DEF Has
  <2> QED BY <1>1, <1>2, <2>1 DEF IInv, TypeOK
<1>4. CallInv'
  BY <1>1, <1>2 DEF IInv, CallInv
<1>5. TreesInv'
  BY <1>1, <1>2 DEF IInv, TreesInv, Bare, NoEntry
<1>6. CopyInv'
  <2> SUFFICES ASSUME pc = "copy" PROVE CopyInv'
    BY <1>2 DEF CopyInv
  <2>1. out' = EmptyBag
    BY <1>1 DEF IInv, CopyInv
  <2>2. (\A key : Of(key)' = {}) /\ Listed' = {} /\ ~Ended'
    BY <2>1, SilenceNext
  <2>3. planted = {} => Has(dst)' = {} /\ \A p \in Paths : dst'[p] = NoEntry'
    <3> SUFFICES ASSUME planted = {} PROVE Has(dst)' = {} /\ \A p \in Paths : dst'[p] = NoEntry'
      OBVIOUS
    <3>1. dst = Bare
      BY <1>1 DEF IInv, TreesInv
    <3> QED BY <1>2, <3>1, NoEntryIs DEF Has, NoEntry
  <2>4. todo' \subseteq Paths
    BY <1>3 DEF TypeOK
  <2>5. CASE bent = "copy"
    BY <1>1, <1>2, <2>2, <2>5 DEF CopyInv
  <2>6. CASE bent # "copy"
    BY <1>1, <1>2, <2>2, <2>3, <2>4, <2>6 DEF CopyInv
  <2> QED BY <2>5, <2>6
<1>7. VerifyInv'
  <2> SUFFICES ASSUME pc = "verify" PROVE VerifyInv'
    BY <1>2 DEF VerifyInv
  <2>1. out' = EmptyBag /\ seen' = Bare /\ checked' = 0 /\ planted' = {} /\ Expected'
    BY <1>1, <1>2, QuietKeeps DEF IInv, VerifyInv
  <2>2. ~Ended'
    BY <2>1, SilenceNext
  <2>3. todo' = Has(src)'
    BY <1>1, <1>2 DEF Has, NoEntry
  <2>4. Compared({})'
    BY <2>1, <2>3, NoEntryIs, FS_EmptySet DEF Compared, NoEntry
  <2>5. \E V \in SUBSET Paths : Compared(V)'
    BY <2>4
  <2> QED BY <1>1, <2>1, <2>2, <2>5 DEF VerifyInv
<1> QED BY <1>1, <1>3, <1>4, <1>5, <1>6, <1>7, QuietKeeps DEF IInv

LEMMA ReadsStep == ASSUME IInv, Reads PROVE IInv'
<1>1. /\ call = "wait" /\ call' = "answered" /\ box' = "none"
      /\ UNCHANGED <<strays, todo, out, code, checked, ran, faults>> /\ Quiet
  BY DEF Reads
<1>2. UNCHANGED <<src, dst, granted, planted, holds, same, pc, expect, bent, seen, hands>>
  BY <1>1, QuietKeeps
<1>3. TypeOK'
  BY <1>1, <1>2 DEF IInv, TypeOK
<1>4. CallInv'
  BY <1>1, <1>2 DEF IInv, CallInv
<1>5. TreesInv'
  BY <1>1, <1>2 DEF IInv, TreesInv, Bare, NoEntry
<1>6. CopyInv' /\ VerifyInv'
  <2>1. call \in {"wait", "answered"} /\ call' \in {"wait", "answered"}
    BY <1>1
  <2> QED BY <1>1, <1>2, <2>1, SameCallKeeps
<1> QED BY <1>1, <1>3, <1>4, <1>5, <1>6, QuietKeeps DEF IInv

LEMMA RemoveFailsStep == ASSUME IInv, RemoveFails PROVE IInv'
<1>1. /\ call = "wait" /\ call' = "answered" /\ box' = "none" /\ ran' = FALSE
      /\ strays' = strays + 1 /\ faults' = faults + 1
      /\ UNCHANGED <<todo, out, code, checked>> /\ Quiet
  BY DEF RemoveFails, Fault
<1>2. UNCHANGED <<src, dst, granted, planted, holds, same, pc, expect, bent, seen, hands>>
  BY <1>1, QuietKeeps
<1>3. TypeOK'
  <2>1. strays \in Nat /\ faults \in Nat
    BY DEF IInv, TypeOK
  <2>2. strays' \in Nat /\ faults' \in Nat
    BY <1>1, <2>1
  <2> QED BY <1>1, <1>2, <2>2 DEF IInv, TypeOK
<1>4. CallInv'
  BY <1>1, <1>2 DEF IInv, CallInv
<1>5. TreesInv'
  BY <1>1, <1>2 DEF IInv, TreesInv, Bare, NoEntry
<1>6. (Ended' <=> Ended) /\ (Expected' <=> Expected)
  BY <1>1, SameLines, QuietKeeps
<1>7. CopyInv'
  BY <1>1, <1>2, <1>6 DEF IInv, CopyInv
<1>8. VerifyInv'
  BY <1>1, <1>2, <1>6 DEF IInv, VerifyInv
<1> QED BY <1>1, <1>3, <1>4, <1>5, <1>7, <1>8, QuietKeeps DEF IInv

LEMMA DiesStep == ASSUME IInv, Dies PROVE IInv'
<1>1. /\ pc' = "refused" /\ call' = "none" /\ box' = "none" /\ faults' = faults + 1
      /\ strays' = strays + (IF box = "none" THEN 0 ELSE 1)
      /\ UNCHANGED <<src, dst, granted, planted, holds, same, todo, code, checked, ran, expect, bent, seen, hands>>
  BY DEF Dies, Fault, trees
<1>2. TypeOK'
  <2>1. strays \in Nat /\ faults \in Nat
    BY DEF IInv, TypeOK
  <2>2. strays' \in Nat /\ faults' \in Nat
    BY <1>1, <2>1
  <2> QED BY <1>1, <2>2 DEF IInv, TypeOK
<1>3. CallInv' /\ TreesInv' /\ CopyInv' /\ VerifyInv' /\ AcceptInv'
  BY <1>1 DEF IInv, CallInv, TreesInv, CopyInv, VerifyInv, AcceptInv
<1> QED BY <1>2, <1>3 DEF IInv

-----------------------------------------------------------------------------
(* The steps of the helper.                                                 *)

\* A helper that works is waited for, and its run has not failed.
LEMMA WaitedFor ==
    ASSUME IInv, box \in {"running", "exited"}
    PROVE  call = "wait" /\ ran
BY DEF IInv, CallInv

LEMMA CopyEntryStep ==
    ASSUME IInv, NEW p \in Paths, CopyEntry(p)
    PROVE  IInv'
<1>1. /\ pc = "copy" /\ p \in todo /\ planted = {} /\ todo' = todo \ {p}
      /\ Emits(SetToBag(Honest(p)))
      /\ dst' = (IF Copyable(p) THEN [dst EXCEPT ![p] = src[p]] ELSE dst)
      /\ code' = (IF Copyable(p) THEN code ELSE 1)
      /\ UNCHANGED <<src, granted, planted, box, checked, seen>>
      /\ UNCHANGED <<holds, same, pc, call, strays, ran, expect, bent, faults, hands>>
  BY DEF CopyEntry, Works, Still
<1>2. call = "wait" /\ ran
  BY WaitedFor DEF CopyEntry, Works
<1>3. src \in [Paths -> Entries] /\ dst \in [Paths -> Entries] /\ todo \subseteq Paths
  BY DEF IInv, TypeOK
<1>4. dst' \in [Paths -> Entries]
  BY <1>1, <1>3
<1>5. \A q \in Paths \ {p} : dst'[q] = dst[q]
  BY <1>1, <1>3
<1>6. dst'[p] \in {dst[p], src[p]} /\ (Copyable(p) => dst'[p] = src[p])
  BY <1>1, <1>3
<1>7. \A q \in Paths : dst'[q] \in {dst[q]} \cup (IF q = p /\ Copyable(p) THEN {src[p]} ELSE {})
  BY <1>1, <1>3
<1>8. TypeOK'
  <2>1. code' \in {0, 1}
    BY <1>1 DEF IInv, TypeOK
  <2>2. todo' \subseteq Paths
    BY <1>1, <1>3
  <2> QED BY <1>1, <1>4, <2>1, <2>2 DEF IInv, TypeOK
<1>9. CallInv'
  BY <1>1 DEF IInv, CallInv
<1>10. TreesInv'
  <2>1. CASE bent = "copy"
    <3>1. \A q \in Paths : dst'[q] \in {NoEntry, src[q]}
      BY <1>7, <2>1 DEF IInv, TreesInv
    <3> QED BY <1>1, <1>2, <2>1, <3>1 DEF IInv, TreesInv, Bare, NoEntry
  <2>2. CASE bent # "copy"
    <3>1. \A q \in Paths : dst'[q].kind # "special"
      BY <1>7, <2>2 DEF IInv, TreesInv, Copyable
    <3> QED BY <1>1, <1>2, <2>2, <3>1 DEF IInv, TreesInv, Bare, NoEntry
  <2> QED BY <2>1, <2>2
<1>11. CopyInv'
  <2>1. DOMAIN SetToBag(Honest(p)) = Honest(p)
    BY BagLines
  <2>2. Of("entry")' = Of("entry") \cup {l \in Honest(p) : l.key = "entry"}
    BY <1>1, <2>1, MoreLines
  <2>3. CASE bent = "copy"
    <3>1. \A l \in Of("entry") : l.path \in Has(src) /\ ~Disguised(l)
      BY <1>1, <1>2, <2>3 DEF IInv, CopyInv
    <3>2. \A l \in Honest(p) : l.key = "entry" => l.path \in Has(src) /\ ~Disguised(l)
      BY HonestLines, TypeIsTold DEF Has, Disguised
    <3>3. \A l \in Of("entry")' : l.path \in Has(src) /\ ~Disguised(l)
      BY <2>2, <3>1, <3>2
    <3>4. \A l \in Of("entry")' : l.path \in Has(src)' /\ ~Disguised(l)'
      BY <1>1, <3>3 DEF Has, Disguised, NoEntry
    <3> QED BY <1>1, <1>2, <2>3, <3>4 DEF CopyInv
  <2>4. CASE bent # "copy"
    <3> SUFFICES ASSUME code' = 0 PROVE CopyInv'
      BY <1>1, <1>2, <2>4 DEF CopyInv
    <3>1. Copyable(p) /\ code = 0
      BY <1>1
    <3>2. Listed = Has(dst) /\ \A q \in todo : dst[q] = NoEntry
      BY <1>1, <1>2, <2>4, <3>1 DEF IInv, CopyInv
    <3>3. dst[p] = NoEntry /\ dst'[p] = src[p]
      BY <1>1, <1>6, <3>1, <3>2
    <3>4. Listed' = Listed \cup (IF src[p] # NoEntry THEN {p} ELSE {})
      <4>1. CASE src[p] # NoEntry
        <5>1. {l.path : l \in {k \in Honest(p) : k.key = "entry"}} = {p}
          BY <4>1, HonestLines, HonestEnumerates
        <5> QED BY <2>2, <4>1, <5>1 DEF Listed
      <4>2. CASE src[p] = NoEntry
        <5>1. {k \in Honest(p) : k.key = "entry"} = {}
          BY <4>2, HonestLines
        <5> QED BY <2>2, <4>2, <5>1 DEF Listed
      <4> QED BY <4>1, <4>2
    <3>5. Has(dst)' = Has(dst) \cup (IF src[p] # NoEntry THEN {p} ELSE {})
      BY <1>5, <3>3 DEF Has, NoEntry
    <3>6. \A q \in todo' : dst'[q] = NoEntry'
      BY <1>1, <1>3, <1>5, <3>2 DEF NoEntry
    <3>7. Listed' = Has(dst)'
      BY <3>2, <3>4, <3>5
    <3> QED BY <1>1, <1>2, <2>4, <3>6, <3>7 DEF CopyInv
  <2> QED BY <2>3, <2>4
<1>12. VerifyInv' /\ AcceptInv'
  BY <1>1 DEF VerifyInv, AcceptInv
<1> QED BY <1>8, <1>9, <1>10, <1>11, <1>12 DEF IInv

LEMMA CopyRegressedStep ==
    ASSUME IInv, NEW p \in Paths, CopyRegressed(p)
    PROVE  IInv'
<1>1. /\ pc = "copy" /\ bent = "copy" /\ p \in todo /\ src[p] # NoEntry /\ todo' = todo \ {p}
      /\ UNCHANGED <<src, granted, planted, box, code, checked, seen>>
      /\ UNCHANGED <<holds, same, pc, call, strays, ran, expect, bent, faults, hands>>
  BY DEF CopyRegressed, Works, Still
<1>2. PICK bag \in Regressed(p) : Emits(bag)
  BY DEF CopyRegressed
<1>3. PICK e \in {NoEntry, src[p]} : dst' = [dst EXCEPT ![p] = e]
  BY DEF CopyRegressed
<1>4. call = "wait" /\ ran
  BY WaitedFor DEF CopyRegressed, Works
<1>5. src \in [Paths -> Entries] /\ dst \in [Paths -> Entries] /\ todo \subseteq Paths
  BY DEF IInv, TypeOK
<1>6. dst' \in [Paths -> Entries] /\ todo' \subseteq Paths
  BY <1>1, <1>3, <1>5, NoEntryIs
<1>7. TypeOK'
  BY <1>1, <1>6 DEF IInv, TypeOK
<1>8. CallInv'
  BY <1>1 DEF IInv, CallInv
<1>9. TreesInv'
  <2>1. \A q \in Paths : dst'[q] \in {NoEntry, src[q]}
    BY <1>1, <1>3, <1>5 DEF IInv, TreesInv
  <2> QED BY <1>1, <1>4, <2>1 DEF IInv, TreesInv, Bare, NoEntry
<1>10. CopyInv'
  <2>1. Of("entry")' = Of("entry") \cup {l \in DOMAIN bag : l.key = "entry"}
    BY <1>2, MoreLines
  <2>2. \A l \in Of("entry") : l.path \in Has(src) /\ ~Disguised(l)
    BY <1>1, <1>4 DEF IInv, CopyInv
  <2>3. \A l \in DOMAIN bag : l.key = "entry" => l.path \in Has(src) /\ ~Disguised(l)
    BY <1>1, RegressedLines DEF Has
  <2>4. \A l \in Of("entry")' : l.path \in Has(src)' /\ ~Disguised(l)'
    BY <1>1, <2>1, <2>2, <2>3 DEF Has, Disguised, NoEntry
  <2>5. planted' = {}
    BY <1>1 DEF IInv, TreesInv
  <2> QED BY <1>1, <1>4, <2>4, <2>5 DEF CopyInv
<1>11. VerifyInv' /\ AcceptInv'
  BY <1>1 DEF VerifyInv, AcceptInv
<1> QED BY <1>7, <1>8, <1>9, <1>10, <1>11 DEF IInv

LEMMA CopyDoneStep == ASSUME IInv, CopyDone PROVE IInv'
<1>1. /\ pc = "copy" /\ planted = {} /\ box' = "exited" /\ code' = code
      /\ UNCHANGED <<src, dst, planted, todo, checked, seen>>
      /\ UNCHANGED <<holds, same, pc, call, strays, ran, expect, bent, faults, hands>>
  BY DEF CopyDone, Works, Exits, Still
<1>2. PICK bag \in {SetToBag({Says("done", "ok")}), EmptyBag} : Emits(bag)
  BY DEF CopyDone
<1>3. granted' \in BOOLEAN
  BY DEF CopyDone, IInv, TypeOK
<1>4. call = "wait" /\ ran
  BY WaitedFor DEF CopyDone, Works
<1>5. TypeOK'
  BY <1>1, <1>3 DEF IInv, TypeOK
<1>6. CallInv'
  BY <1>1, <1>4 DEF IInv, CallInv
<1>7. TreesInv'
  BY <1>1 DEF IInv, TreesInv, Bare, NoEntry
<1>8. CopyInv'
  <2>1. \A l \in DOMAIN bag : l.key # "entry"
    BY <1>2, BagLines, SaysLines
  <2>2. Of("entry")' = Of("entry") /\ Listed' = Listed
    BY <1>2, <2>1, OtherLines
  <2> QED BY <1>1, <1>4, <2>2 DEF IInv, CopyInv, Has, Disguised, NoEntry
<1>9. VerifyInv' /\ AcceptInv'
  BY <1>1 DEF VerifyInv, AcceptInv
<1> QED BY <1>5, <1>6, <1>7, <1>8, <1>9 DEF IInv

LEMMA CopyNonEmptyStep == ASSUME IInv, CopyNonEmpty PROVE IInv'
<1>1. /\ pc = "copy" /\ planted # {} /\ box' = "exited" /\ code' = 1
      /\ UNCHANGED <<src, dst, granted, planted, todo, checked, seen>>
      /\ UNCHANGED <<holds, same, pc, call, strays, ran, expect, bent, faults, hands>>
      /\ Emits(SetToBag({Refuses(p, "staging-nonempty") : p \in planted}))
  BY DEF CopyNonEmpty, Works, Exits, Still, trees
<1>2. call = "wait" /\ ran
  BY WaitedFor DEF CopyNonEmpty, Works
<1>3. TypeOK'
  BY <1>1 DEF IInv, TypeOK
<1>4. CallInv'
  BY <1>1, <1>2 DEF IInv, CallInv
<1>5. TreesInv'
  BY <1>1 DEF IInv, TreesInv, Bare, NoEntry
<1>6. CopyInv'
  <2>1. \A l \in DOMAIN SetToBag({Refuses(p, "staging-nonempty") : p \in planted}) : l.key # "done"
    BY BagLines DEF Refuses, Rec
  <2>2. Ended' <=> Ended
    BY <1>1, <2>1, OtherLines
  <2>3. bent # "copy"
    BY <1>1 DEF IInv, TreesInv
  <2> QED BY <1>1, <1>2, <2>2, <2>3 DEF IInv, CopyInv
<1>7. VerifyInv' /\ AcceptInv'
  BY <1>1 DEF VerifyInv, AcceptInv
<1> QED BY <1>3, <1>4, <1>5, <1>6, <1>7 DEF IInv

\* One entry more is compared.
LEMMA VerifyEntryStep ==
    ASSUME IInv, NEW p \in Paths, VerifyEntry(p)
    PROVE  IInv'
<1> DEFINE bag == IF Matches(p) THEN EmptyBag ELSE SetToBag({Mismatches(p)})
<1>1. /\ pc = "verify" /\ p \in todo /\ todo' = todo \ {p} /\ Emits(bag)
      /\ checked' = checked + 1 /\ seen' = [seen EXCEPT ![p] = src[p]]
      /\ UNCHANGED <<src, dst, granted, planted, box, code>>
      /\ UNCHANGED <<holds, same, pc, call, strays, ran, expect, bent, faults, hands>>
  BY DEF VerifyEntry, Works, Still, trees
<1>2. call = "wait" /\ ran
  BY WaitedFor DEF VerifyEntry, Works
<1>3. src \in [Paths -> Entries] /\ seen \in [Paths -> Entries] /\ todo \subseteq Paths /\ checked \in Nat
  BY DEF IInv, TypeOK
<1>4. TypeOK'
  <2>1. checked' \in Nat /\ todo' \subseteq Paths /\ seen' \in [Paths -> Entries]
    BY <1>1, <1>3
  <2> QED BY <1>1, <2>1 DEF IInv, TypeOK
<1>5. CallInv'
  BY <1>1 DEF IInv, CallInv
<1>6. TreesInv' /\ CopyInv' /\ AcceptInv'
  BY <1>1 DEF IInv, TreesInv, CopyInv, AcceptInv, NoEntry
<1>7. DOMAIN bag = IF Matches(p) THEN {} ELSE {Mismatches(p)}
  BY BagLines
<1>8. Mismatches(p).key = "mismatch"
  BY DEF Mismatches, Rec
<1>9. HasKey("mismatch")' <=> HasKey("mismatch") \/ ~Matches(p)
  <2> HIDE DEF bag
  <2>1. Of("mismatch")' = Of("mismatch") \cup {l \in DOMAIN bag : l.key = "mismatch"}
    BY <1>1, MoreLines
  <2> QED BY <1>7, <1>8, <2>1 DEF HasKey
<1>10. ~Ended /\ (Ended' <=> Ended)
  <2>1. ~Ended
    BY <1>1 DEF IInv, VerifyInv
  <2>2. \A l \in DOMAIN bag : l.key # "done"
    BY <1>7, <1>8
  <2> HIDE DEF bag
  <2> QED BY <1>1, <2>1, <2>2, OtherLines
<1>11. PICK V \in SUBSET Paths : Compared(V)
  BY <1>1, <1>2 DEF IInv, VerifyInv
<1> DEFINE W == V \cup {p}
<1>12. p \notin V /\ W \in SUBSET Paths
  BY <1>1, <1>11 DEF Compared
<1>13. seen'[p] = src[p] /\ \A q \in Paths \ {p} : seen'[q] = seen[q]
  BY <1>1, <1>3
<1>14. Compared(W)'
  <2>1. W \cap todo' = {}
    BY <1>1, <1>11 DEF Compared
  <2>2. checked' = Cardinality(W)
    <3>1. Cardinality(W) = Cardinality(V) + 1
      BY <1>12, PathsAreFinite, FS_AddElement
    <3> QED BY <1>1, <1>11, <3>1 DEF Compared
  <2>3. ~HasKey("mismatch")' => \A q \in W : dst'[q] = seen'[q] /\ dst'[q] # NoEntry
    <3> SUFFICES ASSUME ~HasKey("mismatch")', NEW q \in W PROVE dst'[q] = seen'[q] /\ dst'[q] # NoEntry
      OBVIOUS
    <3>1. ~HasKey("mismatch") /\ Matches(p)
      BY <1>9
    <3>2. CASE q = p
      BY <1>1, <1>13, <3>1, <3>2 DEF Matches
    <3>3. CASE q # p
      BY <1>1, <1>11, <1>13, <3>1, <3>3 DEF Compared
    <3> QED BY <3>2, <3>3
  <2>4. bent' # "verify" => \A q \in Paths \ W : seen'[q] = NoEntry
    BY <1>1, <1>11, <1>13 DEF Compared
  <2>5. bent' = "copy" => W \cup todo' = Has(src)'
    BY <1>1, <1>11 DEF Compared, Has, NoEntry
  <2> HIDE DEF W
  <2> QED BY <2>1, <2>2, <2>3, <2>4, <2>5 DEF Compared, NoEntry
<1>15. VerifyInv'
  <2>1. \E X \in SUBSET Paths : Compared(X)'
    <3> HIDE DEF W
    <3> QED BY <1>12, <1>14
  <2>2. Expected'
    BY <1>1 DEF IInv, VerifyInv, Expected, Has, NoEntry
  <2> QED BY <1>1, <1>2, <1>10, <2>1, <2>2 DEF IInv, VerifyInv
<1> QED BY <1>4, <1>5, <1>6, <1>15 DEF IInv

LEMMA VerifyRegressedStep ==
    ASSUME IInv, NEW p \in Paths, VerifyRegressed(p)
    PROVE  IInv'
<1>1. /\ pc = "verify" /\ bent = "verify" /\ p \in todo /\ todo' = todo \ {p} /\ Emits(EmptyBag)
      /\ seen' = [seen EXCEPT ![p] = src[p]]
      /\ UNCHANGED <<src, dst, granted, planted, box, code, checked>>
      /\ UNCHANGED <<holds, same, pc, call, strays, ran, expect, bent, faults, hands>>
  BY DEF VerifyRegressed, Works, Still, trees
<1>2. call = "wait" /\ ran
  BY WaitedFor DEF VerifyRegressed, Works
<1>3. src \in [Paths -> Entries] /\ seen \in [Paths -> Entries] /\ todo \subseteq Paths
  BY DEF IInv, TypeOK
<1>4. TypeOK'
  <2>1. todo' \subseteq Paths /\ seen' \in [Paths -> Entries]
    BY <1>1, <1>3
  <2> QED BY <1>1, <2>1 DEF IInv, TypeOK
<1>5. CallInv'
  BY <1>1 DEF IInv, CallInv
<1>6. TreesInv' /\ CopyInv' /\ AcceptInv'
  BY <1>1 DEF IInv, TreesInv, CopyInv, AcceptInv, NoEntry
<1>7. /\ HasKey("mismatch")' <=> HasKey("mismatch")
      /\ Ended' <=> Ended
  <2>1. \A key : \A l \in DOMAIN EmptyBag : l.key # key
    BY BagLines
  <2> QED BY <1>1, <2>1, OtherLines
<1>8. PICK V \in SUBSET Paths : Compared(V)
  BY <1>1, <1>2 DEF IInv, VerifyInv
<1>9. p \notin V
  BY <1>1, <1>8 DEF Compared
<1>10. \A q \in Paths \ {p} : seen'[q] = seen[q]
  BY <1>1, <1>3
<1>11. Compared(V)'
  <2>1. V \cap todo' = {} /\ checked' = Cardinality(V)
    BY <1>1, <1>8 DEF Compared
  <2>2. ~HasKey("mismatch")' => \A q \in V : dst'[q] = seen'[q] /\ dst'[q] # NoEntry
    BY <1>1, <1>7, <1>8, <1>9, <1>10 DEF Compared
  <2> QED BY <1>1, <2>1, <2>2 DEF Compared, NoEntry
<1>12. VerifyInv'
  <2>1. Expected'
    BY <1>1 DEF IInv, VerifyInv, Expected, Has, NoEntry
  <2>2. Ended' => todo' = {}
    BY <1>1, <1>7 DEF IInv, VerifyInv
  <2> QED BY <1>1, <1>2, <1>11, <2>1, <2>2 DEF IInv, VerifyInv
<1> QED BY <1>4, <1>5, <1>6, <1>12 DEF IInv

\* What a verifier says at its end is no word on any entry.
LEMMA VerifyDoneStep == ASSUME IInv, VerifyDone PROVE IInv'
<1>1. /\ pc = "verify" /\ todo = {} /\ box' = "exited" /\ code' = 0
      /\ UNCHANGED <<src, dst, granted, planted, todo, checked, seen>>
      /\ UNCHANGED <<holds, same, pc, call, strays, ran, expect, bent, faults, hands>>
  BY DEF VerifyDone, Works, Exits, Still, trees
<1>2. \E acl : Emits(SetToBag({Says("done", "ok"), Says("acl", acl)}))
  BY DEF VerifyDone
<1>3. PICK acl : Emits(SetToBag({Says("done", "ok"), Says("acl", acl)}))
  BY <1>2
<1>4. call = "wait" /\ ran
  BY WaitedFor DEF VerifyDone, Works
<1>5. TypeOK'
  BY <1>1 DEF IInv, TypeOK
<1>6. CallInv'
  BY <1>1, <1>4 DEF IInv, CallInv
<1>7. TreesInv' /\ CopyInv' /\ AcceptInv'
  BY <1>1 DEF IInv, TreesInv, CopyInv, AcceptInv, NoEntry
<1>8. HasKey("mismatch")' <=> HasKey("mismatch")
  <2>1. \A l \in DOMAIN SetToBag({Says("done", "ok"), Says("acl", acl)}) : l.key # "mismatch"
    BY BagLines, SaysLines
  <2> QED BY <1>3, <2>1, OtherLines
<1>9. VerifyInv'
  <2>1. PICK V \in SUBSET Paths : Compared(V)
    BY <1>1, <1>4 DEF IInv, VerifyInv
  <2>2. Compared(V)'
    BY <1>1, <1>8, <2>1 DEF Compared, Has, NoEntry
  <2>3. Expected'
    BY <1>1 DEF IInv, VerifyInv, Expected, Has, NoEntry
  <2> QED BY <1>1, <1>4, <2>2, <2>3 DEF IInv, VerifyInv
<1> QED BY <1>5, <1>6, <1>7, <1>9 DEF IInv

LEMMA OtherDoneStep ==
    ASSUME IInv, PreflightDone \/ AccessDone
    PROVE  IInv'
<1>1. /\ pc \in {"preflight", "access"} /\ box = "running" /\ box' = "exited" /\ code' = 0
      /\ UNCHANGED <<src, dst, granted, planted, todo, checked, seen>>
      /\ UNCHANGED <<holds, same, pc, call, strays, ran, expect, bent, faults, hands>>
  BY DEF PreflightDone, AccessDone, Works, Exits, Still, trees
<1>2. call = "wait" /\ ran
  BY <1>1, WaitedFor
<1>3. TypeOK'
  BY <1>1 DEF IInv, TypeOK
<1>4. CallInv'
  BY <1>1, <1>2 DEF IInv, CallInv
<1>5. TreesInv' /\ CopyInv' /\ VerifyInv' /\ AcceptInv'
  BY <1>1 DEF IInv, TreesInv, CopyInv, VerifyInv, AcceptInv, Bare, NoEntry
<1> QED BY <1>3, <1>4, <1>5 DEF IInv

\* A helper that stops where it is: with status 0 only if it is a regressed one.
LEMMA StopsStep ==
    ASSUME IInv, Silent \/ HelperDies
    PROVE  IInv'
<1>1. /\ box = "running" /\ box' = "exited" /\ code' \in {0, 1} /\ (code' = 0 => pc = bent)
      /\ faults' \in {faults, faults + 1}
      /\ UNCHANGED <<src, dst, granted, planted, todo, out, checked, seen>>
      /\ UNCHANGED <<holds, same, pc, call, strays, ran, expect, bent, hands>>
  BY DEF Silent, HelperDies, Fault, Exits, Still, trees
<1>2. call = "wait" /\ ran
  BY <1>1, WaitedFor
<1>3. TypeOK'
  <2>1. faults \in Nat
    BY DEF IInv, TypeOK
  <2>2. faults' \in Nat
    BY <1>1, <2>1
  <2> QED BY <1>1, <2>2 DEF IInv, TypeOK
<1>4. CallInv'
  BY <1>1, <1>2 DEF IInv, CallInv
<1>5. TreesInv' /\ AcceptInv'
  BY <1>1 DEF IInv, TreesInv, AcceptInv, Bare, NoEntry
<1>6. /\ \A key : Of(key)' = Of(key) /\ (HasKey(key)' <=> HasKey(key))
      /\ Listed' = Listed /\ (Ended' <=> Ended)
  BY <1>1, SameLines
<1>7. CopyInv'
  BY <1>1, <1>2, <1>6 DEF IInv, CopyInv, Has, Disguised, NoEntry
<1>8. VerifyInv'
  <2>1. \A V : Compared(V)' <=> Compared(V)
    BY <1>1, <1>6 DEF Compared, Has, NoEntry
  <2>2. Expected' <=> Expected
    BY <1>1 DEF Expected, Has, NoEntry
  <2> QED BY <1>1, <1>2, <1>6, <2>1, <2>2 DEF IInv, VerifyInv
<1> QED BY <1>3, <1>4, <1>5, <1>7, <1>8 DEF IInv

-----------------------------------------------------------------------------
(* The steps of others.                                                     *)

\* With a copier that keeps its contract, nothing rests on what the source is.
LEMMA SourceWrittenStep == ASSUME IInv, SourceWritten PROVE IInv'
<1>1. /\ bent # "copy" /\ hands' = hands + 1
      /\ UNCHANGED <<dst, planted, granted, holds, same, pc, call, box, strays, todo, out, code, checked, ran, seen,
                     expect, bent, faults>>
  BY DEF SourceWritten, Hand, Aside, helper
<1>2. TypeOK'
  <2>1. src \in [Paths -> Entries] /\ hands \in Nat
    BY DEF IInv, TypeOK
  <2>2. src' \in [Paths -> Entries] /\ hands' \in Nat
    BY <1>1, <2>1 DEF SourceWritten
  <2> QED BY <1>1, <2>2 DEF IInv, TypeOK
<1>3. CallInv'
  BY <1>1 DEF IInv, CallInv
<1>4. TreesInv' /\ AcceptInv'
  BY <1>1 DEF IInv, TreesInv, AcceptInv, Bare, NoEntry
<1>5. /\ \A key : Of(key)' = Of(key) /\ (HasKey(key)' <=> HasKey(key))
      /\ Listed' = Listed /\ (Ended' <=> Ended)
  BY <1>1, SameLines
<1>6. Has(dst)' = Has(dst)
  BY <1>1 DEF Has, NoEntry
<1>7. CopyInv'
  BY <1>1, <1>5, <1>6 DEF IInv, CopyInv, NoEntry
<1>8. VerifyInv'
  <2>1. \A V : Compared(V)' <=> Compared(V)
    BY <1>1, <1>5 DEF Compared, NoEntry
  <2>2. Expected' <=> Expected
    BY <1>1, <1>6 DEF Expected
  <2> QED BY <1>1, <1>5, <2>1, <2>2 DEF IInv, VerifyInv, Bare, NoEntry
<1> QED BY <1>2, <1>3, <1>4, <1>7, <1>8 DEF IInv

LEMMA StagingWrittenStep == ASSUME IInv, StagingWritten PROVE IInv'
<1>1. /\ bent # "copy" /\ hands' = hands + 1
      /\ UNCHANGED <<src, granted, holds, same, pc, call, box, strays, todo, out, code, checked, ran, seen,
                     expect, bent, faults>>
  BY DEF StagingWritten, Hand, Aside, helper
<1>2. PICK p \in Paths :
         \/ /\ pc = "preflight" \/ (pc = "copy" /\ call = "create")
            /\ dst' = [dst EXCEPT ![p] = Entry("file")] /\ planted' = planted \cup {p}
         \/ /\ pc \in {"access", "walk"} /\ planted' = planted \cup {p}
            /\ \E to \in Targets : dst' = [dst EXCEPT ![p] = Link(to)]
  BY DEF StagingWritten
<1>3. PICK e \in Entries : e.kind # "special" /\ dst' = [dst EXCEPT ![p] = e]
  BY <1>2, FilesAre, LinksAre
<1>4. planted' = planted \cup {p}
  BY <1>2
<1>5. \/ pc = "preflight" \/ (pc = "copy" /\ call = "create")
      \/ pc \in {"access", "walk"}
  BY <1>2
<1>6. dst \in [Paths -> Entries] /\ planted \subseteq Paths /\ hands \in Nat
  BY DEF IInv, TypeOK
<1>7. dst' \in [Paths -> Entries] /\ planted' \subseteq Paths /\ hands' \in Nat
  BY <1>1, <1>3, <1>4, <1>6
<1>8. dst'[p] = e /\ \A q \in Paths \ {p} : dst'[q] = dst[q]
  BY <1>3, <1>6
<1>9. TypeOK'
  BY <1>1, <1>7 DEF IInv, TypeOK
<1>10. CallInv'
  BY <1>1 DEF IInv, CallInv
<1>11. TreesInv'
  <2>1. \A q \in Paths : dst'[q].kind # "special"
    BY <1>1, <1>3, <1>8 DEF IInv, TreesInv
  <2> QED BY <1>1, <1>4, <2>1 DEF IInv, TreesInv, Bare, NoEntry
<1>12. CopyInv' /\ VerifyInv'
  <2>1. CASE pc = "copy"
    <3>1. call = "create" /\ out = EmptyBag /\ code = 0
      BY <1>5, <2>1 DEF IInv, CopyInv
    <3>2. ~Ended'
      BY <1>1, <3>1, SilenceNext
    <3> QED BY <1>1, <2>1, <3>1, <3>2 DEF CopyInv, VerifyInv
  <2>2. CASE pc # "copy"
    BY <1>1, <1>5, <2>2 DEF CopyInv, VerifyInv
  <2> QED BY <2>1, <2>2
<1>13. AcceptInv'
  <2> SUFFICES ASSUME pc \in {"access", "walk"} PROVE AcceptInv'
    BY <1>1, <1>5 DEF AcceptInv
  <2>1. \A q \in Paths : dst'[q].kind # "special"
    BY <1>3, <1>8 DEF IInv, AcceptInv
  <2>2. \A q \in Paths \ planted' :
           dst'[q] = seen'[q] \/ (dst'[q] = NoEntry /\ bent' = "verify")
    BY <1>1, <1>4, <1>8 DEF IInv, AcceptInv
  <2> QED BY <1>1, <2>1, <2>2 DEF AcceptInv, NoEntry
<1> QED BY <1>9, <1>10, <1>11, <1>12, <1>13 DEF IInv

\* Neither the operator's clearing of the gate nor a step that changes nothing.
LEMMA AsideStep ==
    ASSUME IInv, Cleared \/ UNCHANGED vars
    PROVE  IInv'
<1>1. UNCHANGED <<src, dst, granted, planted, holds, same, pc, call, box, todo, out, code, checked, ran,
                  expect, bent, seen, faults, hands>>
  BY DEF Cleared, vars, trees, helper
<1>2. TypeOK'
  <2>1. strays \in Nat
    BY DEF IInv, TypeOK
  <2>2. strays' \in Nat
    BY <2>1 DEF Cleared, vars, helper
  <2> QED BY <1>1, <2>2 DEF IInv, TypeOK
<1>3. CallInv' /\ TreesInv' /\ AcceptInv'
  BY <1>1 DEF IInv, CallInv, TreesInv, AcceptInv, Bare, NoEntry
<1>4. /\ \A key : Of(key)' = Of(key) /\ (HasKey(key)' <=> HasKey(key))
      /\ Listed' = Listed /\ (Ended' <=> Ended)
  BY <1>1, SameLines
<1>5. CopyInv'
  BY <1>1, <1>4 DEF IInv, CopyInv, Has, Disguised, NoEntry
<1>6. VerifyInv'
  <2>1. \A V : Compared(V)' <=> Compared(V)
    BY <1>1, <1>4 DEF Compared, Has, NoEntry
  <2>2. Expected' <=> Expected
    BY <1>1 DEF Expected, Has, NoEntry
  <2> QED BY <1>1, <1>4, <2>1, <2>2 DEF IInv, VerifyInv, Bare, NoEntry
<1> QED BY <1>2, <1>3, <1>5, <1>6 DEF IInv

-----------------------------------------------------------------------------
(* The theorems.                                                            *)

LEMMA InitHolds == Init => IInv
<1> SUFFICES ASSUME Init PROVE IInv
  OBVIOUS
<1>1. TypeOK
  <2>1. src \in [Paths -> Entries] /\ dst \in [Paths -> Entries] /\ seen \in [Paths -> Entries]
    BY NoEntryIs DEF Init
  <2>2. faults \in Nat
    BY DEF Init
  <2>3. {granted, holds, same, ran} \subseteq BOOLEAN
    BY DEF Init
  <2>4. {strays, checked, expect, faults, hands} \subseteq Nat
    BY <2>2 DEF Init
  <2>5. pc = "idle" /\ call = "none" /\ box = "none" /\ code = 0 /\ bent \in Jobs \cup {"none"}
    BY DEF Init
  <2>6. planted = {} /\ todo = {}
    BY DEF Init
  <2> QED BY <2>1, <2>3, <2>4, <2>5, <2>6 DEF TypeOK
<1>2. CallInv /\ CopyInv /\ VerifyInv /\ AcceptInv
  BY DEF Init, CallInv, CopyInv, VerifyInv, AcceptInv, Jobs
<1>3. TreesInv
  BY NoEntryIs DEF Init, TreesInv
<1> QED BY <1>1, <1>2, <1>3 DEF IInv

LEMMA StepHolds == IInv /\ [Next]_vars => IInv'
<1> SUFFICES ASSUME IInv, [Next]_vars PROVE IInv'
  OBVIOUS
<1>1. CASE HostStep
  BY <1>1, BeginStep, PreflightStep, CopyStep, VerifyStep, AccessCheckStep, HostWalkStep, CreateBoxStep,
     StartBoxStep, ReadsStep DEF HostStep
<1>2. CASE HelperStep
  <2>1. CASE \E p \in Paths : CopyEntry(p) \/ CopyRegressed(p) \/ VerifyEntry(p) \/ VerifyRegressed(p)
    BY <2>1, CopyEntryStep, CopyRegressedStep, VerifyEntryStep, VerifyRegressedStep
  <2>2. CASE CopyDone \/ CopyNonEmpty \/ VerifyDone \/ PreflightDone \/ AccessDone \/ Silent
    BY <2>2, CopyDoneStep, CopyNonEmptyStep, VerifyDoneStep, OtherDoneStep, StopsStep
  <2> QED BY <1>2, <2>1, <2>2 DEF HelperStep
<1>3. CASE CreateLost
  BY <1>3, FailedStep DEF CreateLost
<1>4. CASE StartFails
  BY <1>4, FailedStep DEF StartFails
<1>5. CASE WaitFails
  BY <1>5, FailedStep DEF WaitFails
<1>6. CASE RemoveFails \/ HelperDies \/ Dies
  BY <1>6, RemoveFailsStep, StopsStep, DiesStep
<1>7. CASE SourceWritten \/ StagingWritten \/ Cleared \/ UNCHANGED vars
  BY <1>7, SourceWrittenStep, StagingWrittenStep, AsideStep
<1> QED BY <1>1, <1>2, <1>3, <1>4, <1>5, <1>6, <1>7 DEF Next

\* The inductive invariant: what each transcript, each count and the two trees
\* have to do with each other at every call of every helper.
THEOREM Invariance == Spec => []IInv
BY InitHolds, StepHolds, PTL DEF Spec

\* An accepted copy (Copier.Run and RunVerify without an error) holds what the
\* verifier met in the source and nothing more, whichever helper is regressed
\* (AcceptedIsWhole).
THEOREM WhatIsAcceptedIsWhole == Spec => []AcceptedIsWhole
<1>1. IInv => AcceptedIsWhole
  BY DEF IInv, AcceptInv, AcceptedIsWhole
<1> QED BY <1>1, Invariance, PTL

\* No accepted copy holds a device or a link that leads outside the tree,
\* outside being defined apart from linkEscapes (AcceptedIsContained).
THEOREM WhatIsAcceptedIsContained == Spec => []AcceptedIsContained
<1>1. IInv => AcceptedIsContained
  <2> SUFFICES ASSUME IInv, pc = "done", NEW p \in Paths
               PROVE  dst[p].kind # "special" /\ ~Outside(p, dst[p])
    BY DEF AcceptedIsContained
  <2>1. dst[p].kind # "special" /\ ~Escapes(p, dst[p]) /\ dst[p] \in Entries
    BY DEF IInv, AcceptInv, TypeOK
  <2> QED BY <2>1, EscapesIsOutside
<1> QED BY <1>1, Invariance, PTL

\* linkEscapes decides containment: for a link at any depth and a target of
\* any length, it says the link escapes if and only if the target is absolute
\* or, after some of its steps, has gone up more often than it was down.
THEOREM EscapeRuleIsExact ==
    ASSUME NEW p \in Paths, NEW to \in Targets
    PROVE  LinkEscapes(p, to) <=> Outside(p, Link(to))
<1>1. Link(to) \in Entries /\ Link(to).kind = "link" /\ Link(to).to = to
  BY DEF Entries, Link
<1> QED BY <1>1, EscapesIsOutside DEF Escapes
================================================================================
