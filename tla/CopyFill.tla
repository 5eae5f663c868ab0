------------------------------- MODULE CopyFill -------------------------------
(***************************************************************************)
(* The copy of a volume into a staging directory (internal/copyfill, called *)
(* by the storage migration): preflight, copy, verification, access check  *)
(* and the host's own walk for escaping links, each but the last run by a  *)
(* pinned helper container through engine.HelperRun.  The host sees the    *)
(* trees only through the helper's transcript.  The helper may die, its    *)
(* calls may be lost, one of the four may be a regressed one that leaves   *)
(* out, repeats or does not disclose what it met, and others write to the  *)
(* source and to the staging directory meanwhile.                          *)
(***************************************************************************)
EXTENDS Integers, Sequences, FiniteSets, Bags

CONSTANTS
    Paths,      \* the entries the source may have
    Depth,      \* how many directories below the root each one sits
    Targets,    \* link targets, as steps "up", "down" and "slash", an empty name
    MaxFaults,  \* regressed helpers, deaths, lost answers and calls that fail
    MaxHands    \* acts of others on the two trees

ASSUME CopyConstants ==
    /\ IsFiniteSet(Paths) /\ Depth \in [Paths -> Nat] /\ \A to \in Targets : to \in Seq({"up", "down", "slash"})
    /\ MaxFaults \in Nat /\ MaxHands \in Nat

VARIABLES
    src,      \* the volume: its entry at each path
    dst,      \* the staging directory
    granted,  \* the access entries of both principals are on the copied tree
    holds,    \* the destination's file system can hold them
    same,     \* the product's runtime uid is the operator's
    pc,       \* the step of the migration that runs
    call,     \* the call of HelperRun in flight
    box,      \* the helper container of this run
    strays,   \* helper containers that outlived their run
    todo,     \* what the helper has still to walk
    out,      \* its transcript, as a bag of records
    code,     \* its exit status
    checked,  \* how many entries the verifier says it compared
    ran,      \* HelperRun returned no error
    expect,   \* the count the copy enumerated
    bent,     \* which helper is a regressed one, "none" when none is
    seen,     \* the source entries as the verifier met them
    planted,  \* paths of the staging directory another hand wrote
    faults, hands

trees  == <<src, dst, granted, planted>>
helper == <<box, strays, todo, out, code, checked, ran, seen>>
vars   == <<trees, holds, same, pc, call, helper, expect, bent, faults, hands>>

-----------------------------------------------------------------------------
(* The trees and the escape rule.                                           *)

Entry(kind) == [kind |-> kind, to |-> <<>>]
Link(to)    == [kind |-> "link", to |-> to]
NoEntry     == Entry("none")
Entries     == {Entry(k) : k \in {"none", "file", "newer", "special"}} \cup {Link(to) : to \in Targets}

Has(tree)  == {p \in Paths : tree[p] # NoEntry}
Bare       == [p \in Paths |-> NoEntry]

\* An absolute target begins with a slash; a slash after that adds nothing.
Absolute(to) == Len(to) > 0 /\ to[1] = "slash"
Down == [up |-> -1, down |-> 1, slash |-> 0]
\* The depth below the root after each step of the target.
Climb(p, to) ==
    LET at[i \in 0 .. Len(to)] == IF i = 0 THEN Depth[p] ELSE at[i - 1] + Down[to[i]] IN at
LinkEscapesAtRoot(p, to) == Absolute(to) \/ \E i \in 1 .. Len(to) : Climb(p, to)[i] <= 0
LinkEscapes(p, to) == Absolute(to) \/ \E i \in 1 .. Len(to) : Climb(p, to)[i] < 0
Escapes(p, e) == e.kind = "link" /\ LinkEscapes(p, e.to)

-----------------------------------------------------------------------------
(* Transcripts.  A record names its path in a spelling, 0 the canonical one. *)

Rec(key, val, p, spelling, to) == [key |-> key, val |-> val, path |-> p, spelling |-> spelling, to |-> to]
Says(key, val) == Rec(key, val, CHOOSE p \in Paths : TRUE, 0, <<>>)
Enumerates(p, type) == Rec("entry", type, p, 0, <<>>)
Respells(p, type)   == Rec("entry", type, p, 1, <<>>)
Discloses(p, to)    == Rec("linktarget", "link", p, 0, to)
Garbles(p)          == Rec("linktarget", "link", p, 1, <<>>)    \* it does not split into two strings
Refuses(p, reason)  == Rec("refused", reason, p, 0, <<>>)
Mismatches(p)       == Rec("mismatch", "digest", p, 0, <<>>)

Lines == BagToSet(out)
Of(key) == {l \in Lines : l.key = key}
HasKey(key) == Of(key) # {}
GrammarOK(keys) == \A l \in Lines : l.key \in keys
\* The one value of an observation; one stated twice states nothing.
Stated(key, val) == \E l \in Of(key) : l.val = val /\ Of(key) = {l} /\ out[l] = 1

SymPaths == {l.path : l \in {e \in Of("entry") : e.val = "symlink"}}

\* Everything in the transcript that states a refusal or amounts to one.
Refusals ==
    {<<l.path, l.val>> : l \in Of("refused")}
    \cup {<<l.path, "unassociated-linktarget">> : l \in {k \in Of("linktarget") : k.path \notin SymPaths}}
    \cup {<<l.path, "duplicate-linktarget">> :
              l \in {k \in Of("linktarget") :
                        out[k] > 1 \/ \E m \in Of("linktarget") \ {k} : m.path = k.path}}
    \cup {<<l.path, "unreadable-linktarget">> : l \in {k \in Of("linktarget") : k.spelling = 1}}
    \cup {<<l.path, "escaping-symlink">> : l \in {k \in Of("linktarget") : LinkEscapes(k.path, k.to)}}
    \cup {<<l.path, "special-entry">> : l \in {e \in Of("entry") : e.val = "special"}}
    \cup {<<p, "missing-linktarget">> : p \in SymPaths \ {l.path : l \in Of("linktarget")}}
    \cup {<<l.path, "unknown-entry-type">> :
              l \in {e \in Of("entry") : e.val \notin {"file", "symlink", "special"}}}

EntryPathsCounted == Of("entry") # {}
\* Distinct, canonical and at least one.
EntryPathsOK ==
    /\ \A l \in Of("entry") : l.spelling = 0 /\ out[l] = 1
    /\ \A l, k \in Of("entry") : l.path = k.path => l = k
    /\ Of("entry") # {}

CopyOK ==
    /\ GrammarOK({"entry", "linktarget", "refused", "mismatch", "done"})
    /\ Refusals = {} /\ ~HasKey("mismatch")
    /\ ran /\ code = 0 /\ Stated("done", "ok")
    /\ EntryPathsOK

\* The entries enumerated, counted once all of them are known to be distinct.
CountOf(key) == Cardinality(Of(key))

\* An observation that may be skipped only where the two principals are one.
AclOK == Stated("acl", "ok") \/ (Stated("acl", "skipped") /\ same)

PreflightOK ==
    /\ GrammarOK({"ownership", "acl"}) /\ Stated("ownership", "ok") /\ AclOK
    /\ ran /\ code = 0

VerifyUnbound ==
    /\ GrammarOK({"mismatch", "refused", "acl", "done"})
    /\ ~HasKey("mismatch") /\ ~HasKey("refused")
    /\ ran /\ code = 0 /\ Stated("done", "ok") /\ AclOK
VerifyOK ==
    /\ GrammarOK({"mismatch", "refused", "acl", "done"})
    /\ ~HasKey("mismatch") /\ ~HasKey("refused")
    /\ ran /\ code = 0 /\ Stated("done", "ok")
    /\ checked = expect /\ AclOK

AccessOK == GrammarOK({"write"}) /\ Stated("write", "ok") /\ ran /\ code = 0

-----------------------------------------------------------------------------
(* The host.                                                                *)

Jobs == {"preflight", "copy", "verify", "access"}
Running == pc \in Jobs \cup {"walk"}

Fault == faults < MaxFaults /\ faults' = faults + 1

Init ==
    /\ src \in [Paths -> Entries \ {Entry("newer")}]
    /\ dst = Bare /\ granted = FALSE /\ planted = {}
    /\ holds \in BOOLEAN /\ same \in BOOLEAN
    /\ pc = "idle" /\ call = "none" /\ box = "none" /\ strays = 0
    /\ todo = {} /\ out = EmptyBag /\ code = 0 /\ checked = 0 /\ ran = TRUE
    /\ expect = 0 /\ bent \in Jobs \cup {"none"} /\ seen = Bare
    /\ faults = (IF bent = "none" THEN 0 ELSE 1) /\ hands = 0

\* The next helper run: nothing of the last one's answer is left.
Launch(job) ==
    /\ pc' = job /\ call' = "create"
    /\ box' = "none" /\ todo' = {} /\ out' = EmptyBag /\ code' = 0 /\ checked' = 0 /\ ran' = TRUE

Ends(how) ==
    /\ pc' = how /\ call' = "none"
    /\ UNCHANGED <<box, strays, todo, out, code, checked, ran, seen>>

\* A verb passes the gate only when no container of ours is unaccounted for,
\* and every attempt stages into a directory of its own.
Begin ==
    /\ pc \in {"idle", "refused"} /\ strays = 0
    /\ dst' = Bare /\ granted' = FALSE /\ planted' = {} /\ seen' = Bare /\ expect' = 0
    /\ Launch("preflight")
    /\ UNCHANGED <<src, holds, same, strays, bent, faults, hands>>

Answered(job) == pc = job /\ call = "answered"

Preflight ==
    /\ Answered("preflight")
    /\ IF PreflightOK THEN Launch("copy") /\ UNCHANGED <<strays, seen>> ELSE Ends("refused")
    /\ UNCHANGED <<trees, holds, same, expect, bent, faults, hands>>

Copy ==
    /\ Answered("copy")
    /\ IF CopyOK THEN Launch("verify") /\ expect' = CountOf("entry") /\ UNCHANGED <<strays, seen>>
                 ELSE Ends("refused") /\ UNCHANGED expect
    /\ UNCHANGED <<trees, holds, same, bent, faults, hands>>

Verify ==
    /\ Answered("verify")
    /\ \/ VerifyOK /\ ~same /\ Launch("access") /\ UNCHANGED <<strays, seen>>
       \/ VerifyOK /\ same /\ Ends("walk")
       \/ ~VerifyOK /\ Ends("refused")
    /\ UNCHANGED <<trees, holds, same, expect, bent, faults, hands>>

AccessCheck ==
    /\ Answered("access")
    /\ Ends(IF AccessOK THEN "walk" ELSE "refused")
    /\ UNCHANGED <<trees, holds, same, expect, bent, faults, hands>>

\* VerifyNoEscapingSymlinks, just before the commit.
HostWalk ==
    /\ pc = "walk"
    /\ Ends(IF \E p \in Paths : Escapes(p, dst[p]) THEN "refused" ELSE "done")
    /\ UNCHANGED <<trees, holds, same, expect, bent, faults, hands>>


-----------------------------------------------------------------------------
(* HelperRun: create, start, wait, read, remove.                            *)

Quiet == UNCHANGED <<trees, holds, same, pc, expect, bent, seen, hands>>

\* The run failed: whatever was created is removed, and the removal may fail.
RunFailed ==
    /\ call' = "answered" /\ ran' = FALSE /\ out' = EmptyBag /\ box' = "none"
    /\ strays' \in {strays, strays + 1}
    /\ UNCHANGED <<todo, code, checked>>

CreateBox ==
    /\ call = "create" /\ call' = "start" /\ box' = "created"
    /\ UNCHANGED <<strays, todo, out, code, checked, ran, faults>> /\ Quiet

\* The sweep by name finds the container and removes it, or finds nothing
\* where the create is still to be carried out.
CreateLost == call = "create" /\ Fault /\ RunFailed /\ Quiet

StartBox ==
    /\ call = "start" /\ call' = "wait" /\ box' = "running"
    /\ todo' = IF pc \in {"copy", "verify"} THEN Has(src) ELSE {}
    /\ UNCHANGED <<strays, out, code, checked, ran, faults>> /\ Quiet

StartFails == call = "start" /\ Fault /\ RunFailed /\ Quiet

\* The exit status and the logs are read, and the container is removed.
Reads ==
    /\ call = "wait" /\ box = "exited"
    /\ call' = "answered" /\ box' = "none"
    /\ UNCHANGED <<strays, todo, out, code, checked, ran, faults>> /\ Quiet

WaitFails == call = "wait" /\ Fault /\ RunFailed /\ Quiet

RemoveFails ==
    /\ call = "wait" /\ box = "exited" /\ Fault
    /\ call' = "answered" /\ box' = "none" /\ strays' = strays + 1 /\ ran' = FALSE
    /\ UNCHANGED <<todo, out, code, checked>> /\ Quiet

\* The process is killed: nobody removes the helper container.
Dies ==
    /\ Running /\ Fault
    /\ pc' = "refused" /\ call' = "none" /\ box' = "none"
    /\ strays' = strays + (IF box = "none" THEN 0 ELSE 1)
    /\ UNCHANGED <<trees, holds, same, todo, out, code, checked, ran, expect, bent, seen, hands>>

-----------------------------------------------------------------------------
(* The helper in its container.                                             *)

Works(job) == pc = job /\ box = "running"
Emits(bag) == out' = out (+) bag
Still == UNCHANGED <<holds, same, pc, call, strays, ran, expect, bent, faults, hands>>
Exits(status) == box' = "exited" /\ code' = status

\* What a copier that keeps its contract says of an entry.
TypeOf(e) == IF e.kind = "link" THEN "symlink"
             ELSE IF e.kind = "special" THEN "special" ELSE "file"
Where(b, l) == IF b THEN {l} ELSE {}
Honest(p) ==
    LET e == src[p] IN
    Where(e # NoEntry, Enumerates(p, TypeOf(e)))
    \cup Where(e.kind = "link", Discloses(p, e.to))
    \cup Where(e.kind = "special", Refuses(p, "special-entry"))
    \cup Where(Escapes(p, e), Refuses(p, "escaping-symlink"))
Copyable(p) == src[p].kind # "special" /\ ~Escapes(p, src[p])

CopyEntry(p) ==
    /\ Works("copy") /\ p \in todo /\ planted = {} /\ todo' = todo \ {p}
    /\ Emits(SetToBag(Honest(p)))
    /\ dst' = IF Copyable(p) THEN [dst EXCEPT ![p] = src[p]] ELSE dst
    /\ code' = IF Copyable(p) THEN code ELSE 1
    /\ UNCHANGED <<src, granted, planted, box, checked, seen>> /\ Still

\* What a regressed copier says of it: nothing, the same twice, a second
\* spelling of it, a link without its target or with a garbled one, a type outside the vocabulary,
\* what it should have refused.
Regressed(p) ==
    {EmptyBag,
     SetToBag(Honest(p)) (+) SetToBag(Honest(p)),
     SetToBag(Honest(p)) (+) SetToBag({Respells(p, "file")}),
     SetToBag({l \in Honest(p) : l.key = "entry"}),
     SetToBag({l \in Honest(p) : l.key = "entry"} \cup {Garbles(p)}),
     SetToBag({l \in Honest(p) : l.key # "refused"}),
     SetToBag({Enumerates(p, "fifo")})}

CopyRegressed(p) ==
    /\ Works("copy") /\ bent = "copy" /\ p \in todo /\ src[p] # NoEntry /\ todo' = todo \ {p}
    /\ \E bag \in Regressed(p) : Emits(bag)
    /\ \E e \in {NoEntry, src[p]} : dst' = [dst EXCEPT ![p] = e]
    /\ UNCHANGED <<src, granted, planted, box, code, checked, seen>> /\ Still

CopyDone ==
    /\ Works("copy") /\ todo = {} /\ planted = {}
    /\ Emits(IF code = 0 THEN SetToBag({Says("done", "ok")}) ELSE EmptyBag) /\ Exits(code)
    /\ granted' \in {holds} \cup (IF bent = "copy" THEN {FALSE} ELSE {})
    /\ UNCHANGED <<src, dst, planted, todo, checked, seen>> /\ Still

\* The staging directory is not empty when the copier reaches it.
CopyNonEmpty ==
    /\ Works("copy") /\ planted # {}
    /\ Emits(SetToBag({Refuses(p, "staging-nonempty") : p \in planted})) /\ Exits(1)
    /\ UNCHANGED <<trees, todo, checked, seen>> /\ Still

\* An entry of the listing that is gone when it is reached does not match.
Matches(p) == src[p] # NoEntry /\ dst[p] = src[p]

VerifyEntry(p) ==
    /\ Works("verify") /\ p \in todo /\ todo' = todo \ {p}
    /\ Emits(IF Matches(p) THEN EmptyBag ELSE SetToBag({Mismatches(p)}))
    /\ checked' = checked + 1 /\ seen' = [seen EXCEPT ![p] = src[p]]
    /\ UNCHANGED <<trees, box, code>> /\ Still

\* A regressed verifier passes an entry by, or stops short.
VerifyRegressed(p) ==
    /\ Works("verify") /\ bent = "verify" /\ p \in todo /\ todo' = todo \ {p}
    /\ Emits(EmptyBag) /\ seen' = [seen EXCEPT ![p] = src[p]]
    /\ UNCHANGED <<trees, box, code, checked>> /\ Still

VerifyDone ==
    /\ Works("verify") /\ todo = {} /\ Exits(0)
    /\ \E acl \in {IF same THEN "skipped" ELSE IF granted THEN "ok" ELSE "fail"}
                  \cup (IF bent = "verify" THEN {"skipped"} ELSE {}) :
           Emits(SetToBag({Says("done", "ok"), Says("acl", acl)}))
    /\ UNCHANGED <<trees, todo, checked, seen>> /\ Still

PreflightDone ==
    /\ Works("preflight") /\ Exits(0)
    /\ \E acl \in {IF same THEN "skipped" ELSE IF holds THEN "ok" ELSE "fail"}
                  \cup (IF bent = "preflight" THEN {"skipped"} ELSE {}) :
           Emits(SetToBag({Says("ownership", "ok"), Says("acl", acl)}))
    /\ UNCHANGED <<trees, todo, checked, seen>> /\ Still

AccessDone ==
    /\ Works("access") /\ Exits(0)
    /\ Emits(SetToBag({Says("write", IF granted THEN "ok" ELSE "fail")}))
    /\ UNCHANGED <<trees, todo, checked, seen>> /\ Still

\* A regressed helper that says nothing and exits 0.
Silent ==
    /\ pc = bent /\ box = "running" /\ Exits(0)
    /\ UNCHANGED <<trees, todo, out, checked, seen>> /\ Still

\* The helper dies with part of its transcript written.
HelperDies ==
    /\ box = "running" /\ Fault /\ Exits(1)
    /\ UNCHANGED <<trees, holds, same, pc, call, strays, todo, out, checked, ran, expect, bent, seen, hands>>

-----------------------------------------------------------------------------
(* Others.                                                                  *)

\* Nobody writes to the trees while the copier is a regressed one: no check
\* answers for an entry it neither enumerated nor finds in the source later.
Hand == bent # "copy" /\ hands < MaxHands /\ hands' = hands + 1
Aside == UNCHANGED <<granted, holds, same, pc, call, helper, expect, bent, faults>>

SourceWritten ==
    /\ Hand /\ \E p \in Paths, e \in Entries : src[p] # e /\ src' = [src EXCEPT ![p] = e]
    /\ UNCHANGED <<dst, planted>> /\ Aside

\* Something appears in the staging directory before the copier reaches it,
\* or a copied entry is replaced by a link once it was verified.
StagingWritten ==
    /\ Hand
    /\ \E p \in Paths :
          \/ /\ pc = "preflight" \/ (pc = "copy" /\ call = "create")
             /\ dst' = [dst EXCEPT ![p] = Entry("file")] /\ planted' = planted \cup {p}
          \/ /\ pc \in {"access", "walk"} /\ planted' = planted \cup {p}
             /\ \E to \in Targets : dst' = [dst EXCEPT ![p] = Link(to)]
    /\ UNCHANGED src /\ Aside

\* The operator removes a container the gate named.
Cleared ==
    /\ strays > 0 /\ strays' = strays - 1
    /\ UNCHANGED <<trees, holds, same, pc, call, box, todo, out, code, checked, ran, expect, bent, seen,
                   faults, hands>>

-----------------------------------------------------------------------------
(* The specification.                                                       *)

HelperStep ==
    \/ \E p \in Paths : CopyEntry(p) \/ CopyRegressed(p) \/ VerifyEntry(p) \/ VerifyRegressed(p)
    \/ CopyDone \/ CopyNonEmpty \/ VerifyDone \/ PreflightDone \/ AccessDone \/ Silent

HostStep ==
    \/ Begin \/ Preflight \/ Copy \/ Verify \/ AccessCheck \/ HostWalk
    \/ CreateBox \/ StartBox \/ Reads

Next ==
    \/ HostStep \/ HelperStep
    \/ CreateLost \/ StartFails \/ WaitFails \/ RemoveFails \/ HelperDies \/ Dies
    \/ SourceWritten \/ StagingWritten \/ Cleared

Spec == Init /\ [][Next]_vars

\* The helper and the host go on, and an operator whose migration was refused
\* clears what the gate names and runs it again.
FairSpec == Spec /\ WF_vars(HostStep) /\ WF_vars(HelperStep) /\ WF_vars(Cleared)

-----------------------------------------------------------------------------
(* Properties.                                                              *)

TypeOK ==
    /\ src \in [Paths -> Entries] /\ dst \in [Paths -> Entries] /\ seen \in [Paths -> Entries]
    /\ {granted, holds, same, ran} \subseteq BOOLEAN /\ planted \subseteq Paths /\ todo \subseteq Paths
    /\ pc \in Jobs \cup {"idle", "walk", "done", "refused"}
    /\ call \in {"none", "create", "start", "wait", "answered"}
    /\ box \in {"none", "created", "running", "exited"} /\ code \in {0, 1}
    /\ {strays, checked, expect, faults, hands} \subseteq Nat
    /\ bent \in Jobs \cup {"none"}

\* What the escape rule has to decide: the target starts outside, or somewhere
\* on its way it has gone up more often than it was down.
Steps(to, i, step) == Cardinality({j \in 1 .. i : to[j] = step})
Outside(p, e) ==
    \/ Absolute(e.to)
    \/ \E i \in 1 .. Len(e.to) : Steps(e.to, i, "up") > Depth[p] + Steps(e.to, i, "down")

\* An accepted copy holds every entry of the source as the verifier met it and
\* nothing more, whichever one of the four helpers is a regressed one, whatever
\* died on the way, and however the source was written while it was copied.
\* Only an entry that appeared meanwhile can be missed, by a verifier that
\* passes it by.
AcceptedIsWhole ==
    pc = "done" =>
        \A p \in Paths \ planted :
            dst[p] = seen[p] \/ (dst[p] = NoEntry /\ bent = "verify")

\* No accepted copy holds a device or a link whose target is absolute or climbs
\* out of the tree, though the copier neither refused nor disclosed it, or a link was put
\* into the staging directory after the verification.
AcceptedIsContained ==
    pc = "done" => \A p \in Paths : dst[p].kind # "special" /\ ~Outside(p, dst[p])

\* A healthy source on a destination that can hold it is copied in the end,
\* however often a helper died or a call was lost: no check refuses an honest
\* transcript.
Healthy ==
    /\ bent = "none" /\ (holds \/ same) /\ Has(src) # {}
    /\ \A p \in Paths : src[p].kind # "special" /\ ~Outside(p, src[p])
HealthyIsCopied == Healthy ~> pc = "done" \/ ~Healthy

\* Once its verb has ended, no helper container of ours stands that nothing
\* accounts for.
HelpersAccounted == ~Running => strays = 0

-----------------------------------------------------------------------------
(* The inductive invariant behind the two safety properties.                *)

CallInv ==
    /\ call # "none" => pc \in Jobs
    /\ box \in {"running", "exited"} => call = "wait"
    /\ call \in {"create", "start", "wait"} => ran

\* What the two trees may hold, by whether the copier is a regressed one.
TreesInv ==
    /\ bent = "copy" => planted = {} /\ \A p \in Paths : dst[p] \in {NoEntry, src[p]}
    /\ bent # "copy" => \A p \in Paths : dst[p].kind # "special"
    /\ (pc = "preflight" \/ (pc = "copy" /\ call \in {"create", "start"})) /\ planted = {} =>
          dst = Bare
    /\ pc \in {"preflight", "copy"} => seen = Bare

\* The copier's transcript enumerates what it copied; a regressed one leaves
\* entries out, but says of no special entry that it is another.
Listed == {l.path : l \in Of("entry")}
Ended  == HasKey("done")
Disguised(l) == src[l.path].kind = "special" /\ l.spelling = 0 /\ l.val \in {"file", "symlink"}
CopyInv ==
    pc = "copy" =>
        /\ call \in {"create", "start"} => out = EmptyBag /\ code = 0
        /\ Ended => planted = {}
        /\ call \in {"wait", "answered"} /\ ran =>
              IF bent = "copy"
              THEN \A l \in Of("entry") : l.path \in Has(src) /\ ~Disguised(l)
              ELSE planted = {} /\ code = 0 =>
                      /\ Listed = Has(dst)
                      /\ \A p \in todo : dst[p] = NoEntry

\* The paths the verifier compared, and what the count of the copy stands for.
Compared(V) ==
    /\ V \cap todo = {} /\ checked = Cardinality(V)
    /\ ~HasKey("mismatch") => \A p \in V : dst[p] = seen[p] /\ dst[p] # NoEntry
    /\ bent # "verify" => \A p \in Paths \ V : seen[p] = NoEntry
    /\ bent = "copy" => V \cup todo = Has(src)
Expected ==
    IF bent = "copy"
    THEN \E L \in SUBSET Has(src) : /\ expect = Cardinality(L)
                                    /\ \A p \in L : src[p].kind # "special"
    ELSE expect = Cardinality(Has(dst))
VerifyInv ==
    pc = "verify" =>
        /\ planted = {} /\ Expected
        /\ call \in {"create", "start"} => seen = Bare /\ checked = 0 /\ out = EmptyBag
        /\ call \in {"wait", "answered"} /\ ran => \E V \in SUBSET Paths : Compared(V)
        /\ Ended => todo = {}

\* What stands once the verifier was believed.
AcceptInv ==
    /\ pc \in {"access", "walk", "done"} =>
          /\ \A p \in Paths \ planted :
                dst[p] = seen[p] \/ (dst[p] = NoEntry /\ bent = "verify")
          /\ \A p \in Paths : dst[p].kind # "special"
    /\ pc = "done" => \A p \in Paths : ~Escapes(p, dst[p])

IInv == TypeOK /\ CallInv /\ TreesInv /\ CopyInv /\ VerifyInv /\ AcceptInv
=============================================================================
