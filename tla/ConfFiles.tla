----------------------------- MODULE ConfFiles -------------------------------
(***************************************************************************)
(* The two settings files of a family home and the lock their writers hold *)
(* (internal/conf, internal/famlock).  <product>.conf is bind-mounted as a *)
(* single file and written in place, by this installer under the family    *)
(* lock and by the product's own settings screen under none; a digest of   *)
(* the settings is the last thing written.  mythical.conf is replaced by a *)
(* rename.  The operator's editor saves either one at any moment, and the  *)
(* installer dies or fails at any step.                                    *)
(***************************************************************************)
EXTENDS Integers, FiniteSets

CONSTANTS
    Procs,      \* processes that run a verb
    Keys,       \* of the product's schema
    Values,     \* of its settings
    HostValues, \* of those of mythical.conf
    MaxInodes,  \* files ever created at the path of <product>.conf
    MaxFaults,  \* deaths and failed calls
    MaxSaves    \* saves by the product and by the operator

ASSUME ConfConstants ==
    /\ MaxInodes \in Nat \ {0} /\ MaxFaults \in Nat /\ MaxSaves \in Nat
    /\ IsFiniteSet(Keys) /\ "nobody" \notin Procs

VARIABLES
    path,    \* the inode <product>.conf names, 0 when there is none
    inode,   \* what each inode holds
    perm,    \* and its group and mode
    view,    \* the inode the running container has mounted, 0 when none runs
    family,  \* the settings mythical.conf holds
    lock,    \* the process that holds the family lock
    v,       \* what each process is doing
    ui,      \* what the product's settings screen is writing
    last,    \* the settings last saved whole at the path of <product>.conf
    faults, saves

vars == <<path, inode, perm, view, family, lock, v, ui, last, faults, saves>>
product == <<path, inode, perm, last>>

-----------------------------------------------------------------------------
(* Data.  A digest is as good as the settings it was computed from.         *)

Fixed  == "net"          \* a core key of mythical.conf
Bind   == "bind"         \* the one key migrate-storage may change there
Unset  == "unset"
Nobody == "nobody"

Settings == [Keys -> Values \cup {Unset}]
Empty    == [k \in Keys |-> Unset]
Host     == [{Fixed, Bind} -> HostValues \cup {Unset}]
Keeps(new, old) == \A k \in DOMAIN old : old[k] # Unset => new[k] = old[k]
Bodies   == Settings \cup Host
Held(b)  == {k \in DOMAIN b : b[k] # Unset}
With(b, k, val) == [b EXCEPT ![k] = val]

\* The text of <product>.conf: settings, the digest on its last line (its own
\* settings when they match, "torn" otherwise), and whether those settings are
\* all that some writer meant to save.
Texts   == [body : Settings, mark : {"ok", "torn", "none"}, whole : BOOLEAN]
Cut     == [body |-> Empty, mark |-> "torn", whole |-> FALSE]
Whole(b, w) == [body |-> b, mark |-> "ok", whole |-> w]
NoText  == [body |-> Empty, mark |-> "none", whole |-> TRUE]     \* no file

Inodes  == 1 .. MaxInodes
Perms   == [group : {"own", "family"}, shared : BOOLEAN]
Private == [group |-> "own", shared |-> FALSE]

Ops == {"ensure", "add", "hostadd", "move"}
PCs == {"idle", "ensure", "look", "compare", "create", "truncate", "write", "chown", "fallback",
        "chmod", "read", "again", "hostcompare", "get", "reread", "replace", "told"}
Sessions == [pc : PCs, op : Ops, key : Keys \cup {Fixed, Bind}, val : Values \cup HostValues \cup {Unset},
             prior : HostValues \cup {Unset}, sentinel : BOOLEAN,
             snap : Texts, host : Host, body : Bodies, whole : BOOLEAN,
             fd : 0 .. MaxInodes, \* the file being written; then the one whose group was just set
             late : BOOLEAN]      \* a save has landed since it last compared its file
Idle == [pc |-> "idle", op |-> "ensure", key |-> Fixed, val |-> Unset, prior |-> Unset,
         sentinel |-> FALSE, snap |-> NoText,
         host |-> [k \in {Fixed, Bind} |-> Unset], body |-> Empty, whole |-> TRUE, fd |-> 0, late |-> FALSE]

At(p, pc)    == v[p].pc = pc
Goto(p, pc)  == v' = [v EXCEPT ![p].pc = pc]
\* Release: the token dies first, and closing the file drops the lock.
End(p)       == v' = [v EXCEPT ![p] = Idle] /\ lock' = Nobody
Fault == faults < MaxFaults /\ faults' = faults + 1
Save  == saves < MaxSaves /\ saves' = saves + 1 /\ UNCHANGED faults
Calm  == UNCHANGED <<view, ui, saves>>

Live == IF path = 0 THEN NoText ELSE inode[path]
New(i) == inode[i] = NoText /\ \A j \in 1 .. i - 1 : inode[j] # NoText

Init ==
    /\ path = 0 /\ inode = [i \in Inodes |-> NoText] /\ perm = [i \in Inodes |-> Private]
    /\ view = 0 /\ family = [k \in {Fixed, Bind} |-> Unset]
    /\ lock = Nobody /\ v = [p \in Procs |-> Idle]
    /\ ui = [ino |-> 0, body |-> Empty]
    /\ last = Empty /\ faults = 0 /\ saves = 0

-----------------------------------------------------------------------------
(* A verb takes the family lock, or is told it is busy and ends.  What it is *)
(* to set is chosen where it is first looked at.                            *)

First == [ensure |-> "ensure", add |-> "look", hostadd |-> "read", move |-> "get"]

Acquire(p) ==
    /\ At(p, "idle") /\ lock = Nobody
    /\ lock' = p
    /\ \E op \in Ops : v' = [v EXCEPT ![p].op = op, ![p].pc = First[op]]
    /\ UNCHANGED <<product, family, faults>> /\ Calm

-----------------------------------------------------------------------------
(* <product>.conf.                                                          *)

\* ProductEnsure: a file that exists is left exactly as found.
ProductEnsure(p) ==
    /\ At(p, "ensure")
    /\ IF path # 0 THEN End(p) ELSE Goto(p, "look") /\ UNCHANGED lock
    /\ UNCHANGED <<product, family, faults>> /\ Calm

LoadsUnmarked(t) == t # Cut
\* loadSnapshot: the digest decides before anything is parsed.
Loads(t) == t.mark = "ok"

\* The group id that tells chown to change nothing is refused; the policy
\* index may carry it.
Usable(sentinel) == ~sentinel

\* ProductAdd up to its comparison: one snapshot gives the settings, the
\* additive gate and the baseline.  The schema an ensure passes has no keys: a
\* file that appeared since it looked is off it unless it holds none.
Snapshot(p) ==
    /\ At(p, "look")
    /\ \E k \in Keys, val \in Values, sentinel \in BOOLEAN :
         LET b == IF v[p].op = "ensure" THEN Live.body ELSE With(Live.body, k, val) IN
         IF /\ Usable(sentinel) /\ (path # 0 => Loads(Live)) /\ Keeps(b, Live.body)
            /\ v[p].op = "ensure" => Live.body = Empty
         THEN v' = [v EXCEPT ![p].pc = "compare", ![p].key = IF v[p].op = "add" THEN k ELSE Fixed,
                             ![p].val = IF v[p].op = "add" THEN val ELSE Unset,
                             ![p].sentinel = sentinel, ![p].snap = Live,
                             ![p].body = b, ![p].whole = Live.whole] /\ UNCHANGED lock
         ELSE End(p)
    /\ UNCHANGED <<product, family, faults>> /\ Calm

\* The bytes read must be the bytes there.  Settings that are already right are
\* not rewritten.
Compared(p) ==
    v' = [v EXCEPT ![p].late = FALSE, ![p].snap = NoText,
                   ![p].pc = IF path = 0 THEN "create"
                             ELSE IF v[p].body = v[p].snap.body THEN "chown" ELSE "truncate"]
CompareNothing(p) ==
    /\ At(p, "compare")
    /\ Compared(p)
    /\ UNCHANGED <<product, family, faults, lock>> /\ Calm
Compare(p) ==
    /\ At(p, "compare")
    /\ IF Live # v[p].snap THEN End(p)
       ELSE Compared(p) /\ UNCHANGED lock
    /\ UNCHANGED <<product, family, faults>> /\ Calm

Create(p) ==
    /\ At(p, "create")
    /\ \/ path # 0 /\ End(p) /\ UNCHANGED <<path, inode>>
       \/ /\ path = 0
          /\ \E i \in Inodes : New(i) /\ path' = i /\ inode' = [inode EXCEPT ![i] = Cut]
          /\ Goto(p, "truncate") /\ UNCHANGED lock
    /\ UNCHANGED <<perm, last, family, faults>> /\ Calm

\* os.WriteFile opens the path and empties what it names.
Truncate(p) ==
    /\ At(p, "truncate")
    /\ inode' = [inode EXCEPT ![path] = Cut]
    /\ v' = [v EXCEPT ![p].pc = "write", ![p].fd = path]
    /\ UNCHANGED <<path, perm, last, family, lock, faults>> /\ Calm

\* A text written from the start of a file that another writer has filled
\* meanwhile: what is longer shows behind it, its digest line last.
Over(old, new) ==
    IF Cardinality(Held(old.body)) > Cardinality(Held(new.body))
    THEN [body |-> new.body, mark |-> "torn", whole |-> FALSE] ELSE new

Write(p) ==
    /\ At(p, "write")
    /\ inode' = [inode EXCEPT ![v[p].fd] = Over(@, Whole(v[p].body, v[p].whole))]
    /\ last' = IF v[p].fd = path THEN v[p].body ELSE last
    /\ v' = [v EXCEPT ![p].pc = "chown", ![p].body = Empty, ![p].fd = 0]
    /\ UNCHANGED <<path, perm, family, lock, faults>> /\ Calm

\* The write lands in part, cut between lines or inside one, and fails or dies.
WriteCut(p) ==
    /\ At(p, "write") /\ Fault
    /\ \E b \in Settings :
         /\ Held(b) \subseteq Held(v[p].body) /\ \A k \in Held(b) : b[k] = v[p].body[k]
         /\ inode' = [inode EXCEPT ![v[p].fd] = [body |-> b, mark |-> "torn", whole |-> FALSE]]
    /\ End(p)
    /\ UNCHANGED <<path, perm, last, family>> /\ Calm

\* Owner, family group, 0660: the group first, and without it the mode is
\* forced to 0600.  Both calls take the path.
Grouped(p) == v' = [v EXCEPT ![p].pc = "chmod", ![p].fd = path]
ChownIgnored(p) ==
    /\ At(p, "chown")
    /\ \/ perm' = [perm EXCEPT ![path].group = "family"] /\ UNCHANGED faults
       \/ Fault /\ UNCHANGED perm
    /\ Grouped(p)
    /\ UNCHANGED <<path, inode, last, family, lock>> /\ Calm
Chown(p) ==
    /\ At(p, "chown")
    /\ \/ /\ perm' = [perm EXCEPT ![path].group = IF v[p].sentinel THEN @ ELSE "family"]
          /\ Grouped(p) /\ UNCHANGED faults
       \/ /\ Fault /\ Goto(p, "fallback") /\ UNCHANGED perm
    /\ UNCHANGED <<path, inode, last, family, lock>> /\ Calm

Fallback(p) ==
    /\ At(p, "fallback")
    /\ \/ perm' = [perm EXCEPT ![path].shared = FALSE] /\ UNCHANGED faults
       \/ Fault /\ UNCHANGED perm
    /\ End(p)
    /\ UNCHANGED <<path, inode, last, family>> /\ Calm

Chmod(p) ==
    /\ At(p, "chmod")
    /\ \/ /\ perm' = [perm EXCEPT ![path].shared = TRUE]
          /\ v' = [v EXCEPT ![p].pc = "told", ![p].fd = 0] /\ UNCHANGED <<faults, lock>>
       \/ Fault /\ End(p) /\ UNCHANGED perm
    /\ UNCHANGED <<path, inode, last, family>> /\ Calm

-----------------------------------------------------------------------------
(* mythical.conf.                                                           *)

\* FamilyAdd of a core key or of a storage key: additive, and over a file that
\* loads against the core schema, which one with a storage key does not.
HostRead(p) ==
    /\ At(p, "read")
    /\ \E k \in {Fixed, Bind}, val \in HostValues :
         LET was == family[k] IN
         IF family[Bind] # Unset \/ was \notin {Unset, val}
         THEN End(p)
         ELSE /\ v' = [v EXCEPT ![p].pc = IF was = Unset THEN "hostcompare" ELSE "again",
                                ![p].key = k, ![p].val = val,
                                ![p].host = family, ![p].body = With(family, k, val)]
              /\ UNCHANGED lock
    /\ UNCHANGED <<product, family, faults>> /\ Calm

\* "Already set" is told only of the bytes there now.
AgainTrusting(p) ==
    /\ At(p, "again")
    /\ v' = [v EXCEPT ![p].pc = "told", ![p].late = FALSE, ![p].host = Idle.host,
                           ![p].body = Empty]
    /\ UNCHANGED <<product, family, faults, lock>> /\ Calm
Again(p) ==
    /\ At(p, "again")
    /\ IF family = v[p].host
       THEN v' = [v EXCEPT ![p].pc = "told", ![p].late = FALSE, ![p].host = Idle.host,
                               ![p].body = Empty] /\ UNCHANGED lock
       ELSE End(p)
    /\ UNCHANGED <<product, family, faults>> /\ Calm

HostCompare(p) ==
    /\ At(p, "hostcompare")
    /\ IF family = v[p].host
       THEN v' = [v EXCEPT ![p].pc = "replace", ![p].late = FALSE, ![p].host = Idle.host] /\ UNCHANGED lock
       ELSE End(p)
    /\ UNCHANGED <<product, family, faults>> /\ Calm

\* FamilyCAS: the key is absent or holds the prior value; after a write that
\* was begun, anything but the new value is the operator's to discard.
MoveGet(p) ==
    /\ At(p, "get")
    /\ \E val \in HostValues, prior \in HostValues \cup {Unset}, started \in BOOLEAN :
         LET was == family[Bind]
             Go(pc) == /\ v' = [v EXCEPT ![p].pc = pc, ![p].key = Bind, ![p].val = val,
                                         ![p].prior = was, ![p].late = FALSE]
                       /\ UNCHANGED lock
         IN /\ val # prior
            /\ \/ was = prior /\ ~started /\ Go("reread")
               \/ was = val /\ started /\ Go("told")
               \/ was # val /\ started /\ Go("reread")
               \/ was # (IF started THEN val ELSE prior) /\ End(p)
    /\ UNCHANGED <<product, family, faults>> /\ Calm

\* The rewrite reads the file again and holds the line to what was cleared.
MoveReread(p) ==
    /\ At(p, "reread")
    /\ IF family[Bind] # v[p].prior THEN End(p)
       ELSE /\ v' = [v EXCEPT ![p].pc = "replace", ![p].late = FALSE,
                            ![p].body = With(family, Bind, v[p].val)]
            /\ UNCHANGED lock
    /\ UNCHANGED <<product, family, faults>> /\ Calm
\* atomicReplace: a temporary file and a rename; what fails or dies before the
\* rename leaves the file as it was.
Replace(p) ==
    /\ At(p, "replace")
    /\ \/ family' = v[p].body /\ v' = [v EXCEPT ![p].pc = "told", ![p].body = Empty]
          /\ UNCHANGED <<faults, lock>>
       \/ Fault /\ End(p) /\ UNCHANGED family
    /\ UNCHANGED <<product>> /\ Calm

-----------------------------------------------------------------------------
(* The lock, and death.                                                     *)

Release(p) ==
    /\ At(p, "told") /\ End(p)
    /\ UNCHANGED <<product, family, faults>> /\ Calm

Dies(p) ==
    /\ v[p].pc \notin {"idle", "told"} /\ Fault
    /\ End(p)
    /\ UNCHANGED <<product, family>> /\ Calm

-----------------------------------------------------------------------------
(* Others.  The settings screen writes what it has mounted, as the published *)
(* format says: in place, the digest last.  The editor replaces the file.    *)

Lands(ops) ==
    v' = [p \in Procs |-> [v[p] EXCEPT !.late = @ \/ (~At(p, "idle") /\ v[p].op \in ops)]]
OnProduct == Lands({"ensure", "add"})
OnHost    == Lands({"hostadd", "move"})

Launch ==
    /\ path # 0 /\ view # path
    /\ view' = path
    /\ UNCHANGED <<product, family, lock, v, ui, faults, saves>>

ScreenOpens ==
    /\ view # 0 /\ ui.ino = 0 /\ Save
    /\ \E k \in Keys, val \in Values :
         ui' = [ino |-> view,
                body |-> With(IF Loads(inode[view]) THEN inode[view].body ELSE Empty, k, val)]
    /\ inode' = [inode EXCEPT ![view] = Cut]
    /\ IF view = path THEN OnProduct ELSE UNCHANGED v
    /\ UNCHANGED <<path, perm, last, view, family, lock>>

ScreenWrites ==
    /\ ui.ino # 0
    /\ inode' = [inode EXCEPT ![ui.ino] = Over(@, Whole(ui.body, TRUE))]
    /\ last' = IF ui.ino = path THEN ui.body ELSE last
    /\ IF ui.ino = path THEN OnProduct ELSE UNCHANGED v
    /\ ui' = [ino |-> 0, body |-> Empty]
    /\ UNCHANGED <<path, perm, view, family, lock, faults, saves>>

ScreenDies ==
    /\ ui.ino # 0 /\ Fault
    /\ ui' = [ino |-> 0, body |-> Empty]
    /\ UNCHANGED <<product, view, family, lock, v, saves>>

\* One setting changed, with the digest recomputed or not.
EditorSaves ==
    /\ Save
    /\ \E i \in Inodes, k \in Keys, val \in Values \cup {Unset}, mark \in {"ok", "torn"} :
         LET b == With(Live.body, k, val) IN
         /\ New(i) /\ path' = i
         /\ inode' = [inode EXCEPT ![i] = [body |-> b, mark |-> mark, whole |-> TRUE]]
         /\ last' = b
    /\ OnProduct
    /\ UNCHANGED <<perm, view, family, lock, ui>>

HostSaves ==
    /\ Save
    /\ \E k \in {Fixed, Bind}, val \in HostValues \cup {Unset} :
         family[k] # val /\ family' = With(family, k, val)
    /\ OnHost
    /\ UNCHANGED <<product, view, lock, ui>>

Verb(p) ==
    \/ ProductEnsure(p) \/ Snapshot(p) \/ Compare(p) \/ Create(p) \/ Truncate(p) \/ Write(p)
    \/ WriteCut(p) \/ Chown(p) \/ Fallback(p) \/ Chmod(p)
    \/ HostRead(p) \/ Again(p) \/ HostCompare(p) \/ MoveGet(p) \/ MoveReread(p) \/ Replace(p)
    \/ Release(p) \/ Dies(p)

Others == Launch \/ ScreenOpens \/ ScreenWrites \/ ScreenDies \/ EditorSaves \/ HostSaves

Next == (\E p \in Procs : Acquire(p) \/ Verb(p)) \/ Others

Spec == Init /\ [][Next]_vars

-----------------------------------------------------------------------------
(* Properties.                                                              *)

TypeOK ==
    /\ path \in 0 .. MaxInodes /\ view \in 0 .. MaxInodes
    /\ inode \in [Inodes -> Texts] /\ perm \in [Inodes -> Perms]
    /\ family \in Host /\ lock \in Procs \cup {Nobody}
    /\ v \in [Procs -> Sessions]
    /\ ui \in [ino : 0 .. MaxInodes, body : Settings] /\ last \in Settings
    /\ faults \in 0 .. MaxFaults /\ saves \in 0 .. MaxSaves

\* A <product>.conf that loads holds everything some writer meant to save:
\* never the part of a write that was cut, two writes over each other, or such
\* a part merged into and given a fresh digest.
AcceptedIsWhole ==
    \A i \in Inodes : Loads(inode[i]) => inode[i].whole

\* No step of a verb leaves a <product>.conf that loads without a setting last
\* saved in it, or a mythical.conf without one it held, unless a save has landed
\* since the verb last compared the file; the storage key of a migration changes
\* from the value cleared.  What takes settings away is the emptying of the file
\* an in-place write begins with, and what it leaves, for as long as the write
\* is not done and for good when it fails or dies, does not load.
AddsOnly ==
    [][\A p \in Procs : ~v[p].late /\ v'[p].pc # v[p].pc =>
         /\ Loads(Live)' => Keeps(Live'.body, last)
         /\ Loads(Live) /\ ~Loads(Live)' => At(p, "truncate")
         /\ At(p, "replace") /\ family' # family =>
              IF v[p].op = "move"
              THEN family[Bind] = v[p].prior /\ Keeps(family', With(family, Bind, Unset))
              ELSE Keeps(family', family)]_vars

\* A setting reported as set is set, unless a save has landed since.
Wanted(p) ==
    IF v[p].op \in {"ensure", "add"}
    THEN Loads(Live) /\ (v[p].op = "add" => Live.body[v[p].key] = v[p].val)
    ELSE family[v[p].key] = v[p].val
ToldIsSet ==
    \A p \in Procs : At(p, "told") => v[p].late \/ Wanted(p)

\* The mode of <product>.conf is opened to its group only where the call just
\* before gave the file the family group, unless another file was put at the
\* path between the two calls.
SharedWithFamily ==
    [][\A p \in Procs : At(p, "chmod") /\ perm' # perm /\ v[p].fd = path =>
         perm'[path] = [group |-> "family", shared |-> TRUE]]_vars

-----------------------------------------------------------------------------
(* The inductive invariant behind the four.                                 *)

\* The one verb under way holds the lock.
LockInv == \A p \in Procs : lock = p <=> ~At(p, "idle")

\* What loads at the path is what was last saved there whole, and what a verb
\* is to write was read from such a file.
FileInv ==
    /\ path = 0 => last = Empty
    /\ path # 0 => inode[path].mark # "none"
    /\ Loads(Live) => Live.body = last
    /\ \A p \in Procs : v[p].whole

Before == {"compare", "create", "truncate", "write"}     \* <product>.conf is written
After  == {"chown", "fallback", "chmod"}

\* ProductAdd, by its place.
ProductInv(p) ==
    /\ v[p].pc \in {"ensure", "look"} \cup Before \cup After => v[p].op \in {"ensure", "add"}
    /\ v[p].pc \in Before => /\ v[p].body \in Settings
                             /\ v[p].op = "add" => v[p].body[v[p].key] = v[p].val
    /\ v[p].pc \in Before \cup {"chown"} => ~v[p].sentinel
    /\ At(p, "compare") => /\ v[p].snap = NoText \/ Loads(v[p].snap)
                           /\ Keeps(v[p].body, v[p].snap.body)
    /\ v[p].pc \in {"create", "truncate", "write"} /\ ~v[p].late => Keeps(v[p].body, last)
    /\ v[p].pc \in {"truncate", "write"} \cup After => path # 0
    /\ At(p, "write") => v[p].fd # 0 /\ (~v[p].late => v[p].fd = path /\ inode[path] = Cut)
    /\ v[p].pc \in After /\ ~v[p].late => Wanted(p)
    /\ At(p, "chmod") => v[p].fd # 0 /\ perm[v[p].fd].group = "family"

\* FamilyAdd and FamilyCAS, by their places.
HostInv(p) ==
    /\ v[p].pc \in {"read", "again", "hostcompare"} => v[p].op = "hostadd"
    /\ v[p].pc \in {"get", "reread"} => v[p].op = "move"
    /\ v[p].pc \in {"again", "hostcompare"} => v[p].key \in {Fixed, Bind}
    /\ v[p].pc \in {"again", "hostcompare", "reread"} => v[p].val \in HostValues
    /\ At(p, "again") => v[p].host[v[p].key] = v[p].val
    /\ At(p, "hostcompare") => /\ v[p].host[v[p].key] = Unset
                               /\ v[p].body = With(v[p].host, v[p].key, v[p].val)
    /\ At(p, "reread") => v[p].key = Bind
    /\ At(p, "replace") => /\ v[p].op \in {"hostadd", "move"} /\ v[p].body \in Host
                           /\ v[p].body[v[p].key] = v[p].val
    /\ At(p, "replace") /\ v[p].op = "hostadd" /\ ~v[p].late => Keeps(v[p].body, family)
    /\ At(p, "replace") /\ v[p].op = "move" /\ ~v[p].late =>
          /\ family[Bind] = v[p].prior
          /\ Keeps(v[p].body, With(family, Bind, Unset))

IInv ==
    /\ TypeOK /\ LockInv /\ FileInv /\ AcceptedIsWhole
    /\ \A p \in Procs : ProductInv(p) /\ HostInv(p)
    /\ ToldIsSet
=============================================================================
