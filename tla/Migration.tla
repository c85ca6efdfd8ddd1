------------------------------ MODULE Migration ------------------------------
(***************************************************************************)
(* The explicit Legacy Layout Migration of one Workflow: Preview, Prepare, *)
(* Execute (internal/app/migrate.go, internal/layout, the migration rows   *)
(* of internal/store and their classification by internal/recovery).       *)
(*                                                                         *)
(* Every managed directory is a unit of the ordered move list.  A unit has *)
(* a legacy path (src) and an aggregated path (dst), and may end up inside *)
(* a directory that appeared at the latter (inner); what lies at a path is *)
(* a content number, so that drift, foreign files and dangling symbolic    *)
(* links can be told from what the user confirmed.  The process may die    *)
(* between any two durable steps; the database, the files and the Git      *)
(* registry survive, the confirmation on the user's screen does not.       *)
(***************************************************************************)
EXTENDS Naturals, Sequences, FiniteSets

CONSTANTS
    Kind,        \* the kind of every unit, in the order of the move list
    MaxContent,  \* bound on the contents a path can hold
    MaxVersion,  \* bound on the aggregate version
    MaxFaults    \* bound on process deaths and outside interference together

ASSUME KindAssumption ==
    /\ Kind \in Seq({"planning", "integration", "artifact", "task"})
    /\ Len(Kind) >= 2 /\ Kind[1] = "planning" /\ Kind[2] = "integration"

ASSUME BoundsAssumption ==
    MaxContent \in Nat \ {0} /\ MaxVersion \in Nat \ {0} /\ MaxFaults \in Nat

VARIABLES
    disk,       \* unit -> what lies at its legacy path, at its aggregated
                \*         path and under its name inside the latter
    registry,   \* unit -> the path the Git worktree registry names for it
    db,         \* the Workflow row: layout, aggregate version, recorded heads
    row,        \* the layout_migrations row
    intent,     \* the layout-migration Effect of the ledger
    backups,    \* preview -> the state of its database backup file
    manifests,  \* preview -> the bytes of its manifest file
    shown,      \* the preview on the user's screen
    cmd,        \* the command in progress and where it stands
    faults

vars == <<disk, registry, db, row, intent, backups, manifests, shown, cmd, faults>>
-----------------------------------------------------------------------------
(***************************************************************************)
(* Units, contents and the move list.                                      *)
(***************************************************************************)
Units == 1 .. Len(Kind)
Planning == 1
Integration == 2
IsWorktree(u) == Kind[u] # "artifact"

NoFile == 0
Foreign == MaxContent + 1      \* a file or directory the program did not make
DanglingLink == MaxContent + 2 \* a symbolic link to nothing
Contents == 1 .. MaxContent
Previews == [Units -> Contents]

NoHash == <<>>
NoCmd == [op |-> "none", step |-> "idle", preview |-> NoHash, version |-> 0, at |-> 0]
NoRow == [status |-> "NONE", preview |-> NoHash, manifest |-> NoHash]
NoIntent == [status |-> "NONE", preview |-> NoHash, manifest |-> NoHash]
NoShown == [status |-> "NONE", preview |-> NoHash]

\* The two questions the code asks of a path.  Execute asks for the entry
\* itself (os.Lstat, pathPresent), Recovery for what it leads to (os.Stat,
\* pathExists); only a dangling link tells them apart.
Present(u, side) == disk[u][side] # NoFile
Reachable(u, side) == disk[u][side] \notin {NoFile, DanglingLink}

\* What the move of unit u binds: the recorded heads for the two worktrees the
\* Workflow row knows, the observed head or digest for every other unit.
BoundContent(u) ==
    CASE u = Planning -> db.base
      [] u = Integration -> db.head
      [] OTHER -> disk[u].src

Preview == [u \in Units |-> BoundContent(u)]

\* A task worktree must be registered at its legacy path and an artifact must
\* be there to be digested.
PreviewOK ==
    /\ db.layout = 1
    /\ \A u \in Units \ {Planning, Integration} :
          /\ disk[u].src \in Contents
          /\ IsWorktree(u) => registry[u] = "src"

\* verifyMigrationMove: the unit at that path is the one the move binds.
Verified(u, side, preview) ==
    /\ disk[u][side] = preview[u]
    /\ IsWorktree(u) => registry[u] = side

\* preflightMigrationMoves: only a landed prefix followed by a pending suffix is
\* a state of the moves; nothing may be pending once the database has advanced.
PreflightOK(preview, dbAdvanced) ==
    /\ \A u \in Units : Present(u, "src") # Present(u, "dst")
    /\ \A u \in Units : Present(u, "src") => ~dbAdvanced /\ Verified(u, "src", preview)
    /\ \A u \in Units : Present(u, "dst") => Verified(u, "dst", preview)
    /\ \A u, v \in Units : u < v /\ Present(u, "src") => ~Present(v, "dst")

Pending == {u \in Units : Present(u, "src")}
FirstPending == IF Pending = {} THEN Len(Kind) + 1
                ELSE CHOOSE u \in Pending : \A v \in Pending : u <= v

-----------------------------------------------------------------------------
(***************************************************************************)
(* The immutable evidence of a Prepare.                                    *)
(***************************************************************************)
HasBackup(p) == p \in DOMAIN backups
HasManifest(p) == p \in DOMAIN manifests

Put(f, p, v) == [q \in DOMAIN f \union {p} |-> IF q = p THEN v ELSE f[q]]

\* The bytes of a manifest: the aggregate version it was prepared against, the
\* identity of its backup, and the integration head it will install.
ManifestOf(version, p) == [version |-> version, backup |-> backups[p], head |-> db.head]
Torn == [version |-> 0, backup |-> 0, head |-> 0]

\* A backup file is named by the aggregate version it holds; 0 is the empty
\* scratch file, PartialBackup one whose pages were only partly streamed.
EmptyBackup == 0
PartialBackup == MaxVersion + 1
BackupIntact(p) == HasBackup(p) /\ backups[p] \in 1 .. MaxVersion

\* readMigrationManifest: the recorded hash, the backup's identity and its
\* integrity all hold.
ManifestReadable(p, m) ==
    /\ HasManifest(p) /\ manifests[p] = m /\ m # Torn
    /\ BackupIntact(p) /\ backups[p] = m.backup

\* persistedMigrationIntent: the pending Effect is the one the row records.
IntentMatchesRow ==
    /\ intent.status = "PENDING"
    /\ intent.preview = row.preview /\ intent.manifest = row.manifest
-----------------------------------------------------------------------------
(***************************************************************************)
(* Recovery's classification of the pending migration, which every command *)
(* of the Workflow must pass.                                              *)
(***************************************************************************)
RecoveryFatal ==
    \/ ~(IntentMatchesRow /\ row.status = "PREPARED")
    \/ ~ManifestReadable(row.preview, row.manifest)
    \/ db.version # row.manifest.version + (IF db.layout = 2 THEN 2 ELSE 1)
    \/ db.head # row.manifest.head

\* What Recovery takes for a unit that is still to move.
RecoveryPending == {u \in Units : Reachable(u, "src")}

\* Mutant: Recovery checks where a unit is, not what it is.
MoveDriftedByPlace(u) ==
    \/ Reachable(u, "src") = Reachable(u, "dst")
    \/ db.layout = 2 /\ Reachable(u, "src")
    \/ Reachable(u, "dst") /\ \E v \in RecoveryPending : v < u

\* The moves as Recovery reads them: one path of the two leads somewhere, what
\* is there is what the move binds, and what landed is a prefix.
MoveDrifted(u) ==
    \/ Reachable(u, "src") = Reachable(u, "dst")
    \/ LET side == IF Reachable(u, "dst") THEN "dst" ELSE "src"
       IN  ~Verified(u, side, row.preview)
    \/ db.layout = 2 /\ Reachable(u, "src")
    \/ Reachable(u, "dst") /\ \E v \in RecoveryPending : v < u

Disposition ==
    IF RecoveryFatal THEN "fatal_invariant"
    ELSE IF \E u \in Units : MoveDrifted(u) THEN "blocked_drift"
    ELSE IF RecoveryPending # {} THEN "safe_to_retry" ELSE "already_completed"

RecoveryAccepts ==
    intent.status = "PENDING" => Disposition \in {"safe_to_retry", "already_completed"}
-----------------------------------------------------------------------------
Init ==
    /\ disk = [u \in Units |-> [src |-> 1, dst |-> NoFile, inner |-> NoFile]]
    /\ registry = [u \in Units |-> "src"]
    /\ db = [layout |-> 1, version |-> 1, base |-> 1, head |-> 1]
    /\ row = NoRow /\ intent = NoIntent
    /\ backups = <<>> /\ manifests = <<>>
    /\ shown = NoShown /\ cmd = NoCmd /\ faults = 0

Files == <<backups, manifests>>
Rows == <<row, intent>>
Tree == <<disk, registry>>

At(op, step) == cmd.op = op /\ cmd.step = step
GoTo(step) == cmd' = [cmd EXCEPT !.step = step]
Return == cmd' = NoCmd

\* The read-only preview query: a pending migration is shown from its
\* manifest, otherwise the moves are derived from the current facts.
QueryPreview ==
    /\ cmd = NoCmd
    /\ \/ /\ intent.status = "PENDING"
          /\ IntentMatchesRow /\ row.status = "PREPARED"
          /\ ManifestReadable(row.preview, row.manifest)
          /\ row.manifest.head = db.head /\ row.manifest.version + 1 = db.version
          /\ shown' = [status |-> "PREPARED", preview |-> row.preview]
       \/ /\ intent.status # "PENDING" /\ PreviewOK
          /\ shown' = [status |-> "PREVIEW", preview |-> Preview]
    /\ UNCHANGED <<disk, registry, db, row, intent, backups, manifests, cmd, faults>>

\* PrepareLayoutMigrationCommand: the confirmed preview is compared before the
\* locks are taken, then Recovery must accept the Workflow.
BeginPrepare ==
    /\ cmd = NoCmd /\ shown.status = "PREVIEW"
    /\ PreviewOK /\ Preview = shown.preview
    /\ RecoveryAccepts
    /\ cmd' = [NoCmd EXCEPT !.op = "prepare", !.step = "view", !.preview = shown.preview]
    /\ UNCHANGED <<Tree, db, Rows, Files, shown, faults>>

\* Under the locks: the same comparison again, and the whole move list must
\* still be pending.
PrepareView ==
    /\ At("prepare", "view")
    /\ IF PreviewOK /\ Preview = cmd.preview
          /\ PreflightOK(cmd.preview, FALSE) /\ FirstPending = 1
       THEN cmd' = [cmd EXCEPT !.step = "backup", !.version = db.version]
       ELSE Return
    /\ UNCHANGED <<Tree, db, Rows, Files, shown, faults>>

\* BackupLayoutMigration: an absent or an empty backup file is created afresh,
\* an intact one is reused, anything else blocks.
PrepareBackup ==
    /\ At("prepare", "backup")
    /\ \/ /\ HasBackup(cmd.preview) => backups[cmd.preview] = EmptyBackup
          /\ backups' = Put(backups, cmd.preview, EmptyBackup) /\ GoTo("stream")
       \/ /\ BackupIntact(cmd.preview) /\ GoTo("manifest") /\ UNCHANGED backups
       \/ /\ HasBackup(cmd.preview) /\ backups[cmd.preview] = PartialBackup
          /\ Return /\ UNCHANGED backups
    /\ UNCHANGED <<Tree, db, Rows, manifests, shown, faults>>

\* The online backup streams the live database into the scratch file.
PrepareStream ==
    /\ At("prepare", "stream")
    /\ backups' = Put(backups, cmd.preview, db.version) /\ GoTo("manifest")
    /\ UNCHANGED <<Tree, db, Rows, manifests, shown, faults>>

\* A Prepare that repeats one whose Effect is already pending excludes that
\* Effect's own commit, so that it reproduces the same bytes.
SnapshotVersion ==
    IF intent.status = "PENDING" /\ intent.preview = cmd.preview
    THEN cmd.version - 1 ELSE cmd.version

\* writeMigrationManifest: an existing manifest must carry the same bytes.
PrepareManifest ==
    /\ At("prepare", "manifest")
    /\ \/ /\ ~HasManifest(cmd.preview)
          /\ manifests' = Put(manifests, cmd.preview, Torn) /\ GoTo("write")
       \/ /\ HasManifest(cmd.preview) /\ UNCHANGED manifests
          /\ IF manifests[cmd.preview] = ManifestOf(SnapshotVersion, cmd.preview)
             THEN GoTo("record") ELSE Return
    /\ UNCHANGED <<Tree, db, Rows, backups, shown, faults>>

PrepareWrite ==
    /\ At("prepare", "write")
    /\ manifests' = Put(manifests, cmd.preview, ManifestOf(SnapshotVersion, cmd.preview))
    /\ GoTo("record")
    /\ UNCHANGED <<Tree, db, Rows, backups, shown, faults>>

\* RecordLayoutMigration: one row per Workflow, never rewritten.
PrepareRecord ==
    /\ At("prepare", "record")
    /\ \/ /\ row = NoRow
          /\ row' = [status |-> "PREPARED", preview |-> cmd.preview,
                     manifest |-> manifests[cmd.preview]]
          /\ GoTo("intent")
       \/ /\ row # NoRow /\ UNCHANGED row
          /\ IF row.preview = cmd.preview /\ row.manifest = manifests[cmd.preview]
             THEN GoTo("intent") ELSE Return
    /\ UNCHANGED <<Tree, db, intent, Files, shown, faults>>

\* The Effect commits under the aggregate version the command read; a repeated
\* Prepare finds it pending and stops.
PrepareIntent ==
    /\ At("prepare", "intent")
    /\ IF intent.status # "PENDING" /\ db.version = cmd.version /\ db.layout = 1
       THEN /\ intent' = [status |-> "PENDING", preview |-> row.preview,
                          manifest |-> row.manifest]
            /\ db' = [db EXCEPT !.version = @ + 1]
       ELSE UNCHANGED <<intent, db>>
    /\ Return
    /\ UNCHANGED <<Tree, row, Files, shown, faults>>

\* ExecuteLayoutMigrationCommand: Recovery must accept, and the sweep that
\* precedes every command may commit a Decision of its own.
BeginExecute(sweep) ==
    /\ cmd = NoCmd /\ shown.status # "NONE"
    /\ RecoveryAccepts
    /\ sweep => db.version < MaxVersion
    /\ db' = [db EXCEPT !.version = IF sweep THEN @ + 1 ELSE @]
    /\ cmd' = [NoCmd EXCEPT !.op = "execute", !.step = "check", !.preview = shown.preview]
    /\ UNCHANGED <<Tree, Rows, Files, shown, faults>>

\* Mutant: the moves resume one past the first pending unit.
ExecuteCheckLate ==
    /\ At("execute", "check")
    /\ IF /\ row # NoRow /\ IntentMatchesRow /\ row.status = "PREPARED"
          /\ cmd.preview = row.preview
          /\ ManifestReadable(row.preview, row.manifest) /\ row.manifest.head = db.head
          /\ PreflightOK(row.preview, db.layout = 2)
       THEN cmd' = [cmd EXCEPT !.step = "move", !.at = FirstPending + 1, !.version = db.version]
       ELSE Return
    /\ UNCHANGED <<Tree, db, Rows, Files, shown, faults>>

\* The row, the Effect, the confirmation, the manifest and the whole move list
\* are checked before the first move.
ExecuteCheck ==
    /\ At("execute", "check")
    /\ IF /\ row # NoRow /\ IntentMatchesRow /\ row.status = "PREPARED"
          /\ cmd.preview = row.preview
          /\ ManifestReadable(row.preview, row.manifest) /\ row.manifest.head = db.head
          /\ PreflightOK(row.preview, db.layout = 2)
       THEN cmd' = [cmd EXCEPT !.step = "move", !.at = FirstPending, !.version = db.version]
       ELSE Return
    /\ UNCHANGED <<Tree, db, Rows, Files, shown, faults>>

MoveTo(u, place) == disk' = [disk EXCEPT ![u][place] = disk[u].src, ![u].src = NoFile]

\* An artifact is moved by one rename that never replaces; an artifact that is
\* gone is left to the verification.
MoveArtifact(u) ==
    /\ ~IsWorktree(u)
    /\ \/ ~Reachable(u, "src") /\ GoTo("verify") /\ UNCHANGED disk
       \/ Reachable(u, "src") /\ ~Present(u, "dst") /\ MoveTo(u, "dst") /\ GoTo("verify")
       \/ Reachable(u, "src") /\ Present(u, "dst") /\ Return /\ UNCHANGED disk

\* A worktree is moved by Git, once its destination was seen to be free and
\* its source to be registered.
CheckWorktree(u) ==
    /\ IsWorktree(u) /\ UNCHANGED disk
    /\ IF Present(u, "dst") \/ registry[u] # "src" THEN Return ELSE GoTo("git")

\* One move: a link at the source is refused, whatever the unit is.
ExecuteMove ==
    /\ At("execute", "move") /\ cmd.at \in Units
    /\ \/ disk[cmd.at].src = DanglingLink /\ Return /\ UNCHANGED disk
       \/ disk[cmd.at].src # DanglingLink /\ (MoveArtifact(cmd.at) \/ CheckWorktree(cmd.at))
    /\ UNCHANGED <<registry, db, Rows, Files, shown, faults>>

\* git worktree move looks at the destination again: it refuses a file or a
\* link, and it moves the worktree into a directory that appeared there.
ExecuteGitMove ==
    /\ At("execute", "git")
    /\ LET u == cmd.at IN
       \/ Present(u, "src") /\ ~Present(u, "dst") /\ MoveTo(u, "dst") /\ GoTo("register")
       \/ Present(u, "src") /\ disk[u].dst = Foreign /\ MoveTo(u, "inner") /\ GoTo("register")
       \/ (~Present(u, "src") \/ Present(u, "dst")) /\ Return /\ UNCHANGED disk
    /\ UNCHANGED <<registry, db, Rows, Files, shown, faults>>

\* Git's registry follows the rename.
ExecuteRegister ==
    /\ At("execute", "register")
    /\ registry' = [registry EXCEPT ![cmd.at] = IF Present(cmd.at, "inner") THEN "inner" ELSE "dst"]
    /\ GoTo("verify")
    /\ UNCHANGED <<disk, db, Rows, Files, shown, faults>>

\* Mutant: a move that does not verify is undone by deleting what landed.
ExecuteVerifyUndo ==
    /\ At("execute", "verify")
    /\ IF Verified(cmd.at, "dst", row.preview)
       THEN cmd' = [cmd EXCEPT !.step = "move", !.at = @ + 1] /\ UNCHANGED disk
       ELSE disk' = [disk EXCEPT ![cmd.at].dst = NoFile] /\ Return
    /\ UNCHANGED <<registry, db, Rows, Files, shown, faults>>

\* The move must have settled, and the unit must still be the confirmed one.
ExecuteVerify ==
    /\ At("execute", "verify")
    /\ IF Present(cmd.at, "dst") /\ ~Present(cmd.at, "src")
          /\ Verified(cmd.at, "dst", row.preview)
       THEN cmd' = [cmd EXCEPT !.step = "move", !.at = @ + 1]
       ELSE Return
    /\ UNCHANGED <<Tree, db, Rows, Files, shown, faults>>

\* Mutant: the Layout transaction expects the version the manifest names.
ExecuteCommitManifestVersion ==
    /\ At("execute", "move") /\ cmd.at \notin Units
    /\ IF db.layout = 2 THEN GoTo("mark") /\ UNCHANGED db
       ELSE IF db.version = row.manifest.version
       THEN db' = [db EXCEPT !.layout = 2, !.version = @ + 1] /\ GoTo("mark")
       ELSE Return /\ UNCHANGED db
    /\ UNCHANGED <<Tree, Rows, Files, shown, faults>>

\* The Layout facts advance in one transaction; a second Execute after a crash
\* finds them advanced and only settles the markers.
ExecuteCommit ==
    /\ At("execute", "move") /\ cmd.at \notin Units
    /\ IF db.layout = 2 THEN GoTo("mark") /\ UNCHANGED db
       ELSE IF db.version = cmd.version
       THEN db' = [db EXCEPT !.layout = 2, !.version = @ + 1] /\ GoTo("mark")
       ELSE Return /\ UNCHANGED db
    /\ UNCHANGED <<Tree, Rows, Files, shown, faults>>

\* MarkLayoutMigrationCompleted: row and Effect settle in one transaction.
ExecuteMark ==
    /\ At("execute", "mark")
    /\ row' = [row EXCEPT !.status = "COMPLETED"]
    /\ intent' = [intent EXCEPT !.status = "RESULTED"]
    /\ shown' = NoShown
    /\ Return
    /\ UNCHANGED <<Tree, db, Files, faults>>

\* Any other command of the Workflow that Recovery lets through commits at
\* least one Decision; a merge on the legacy layout also advances the
\* integration head together with its worktree.
OtherCommand(merge) ==
    /\ cmd = NoCmd /\ RecoveryAccepts
    /\ db.version < MaxVersion
    /\ merge => /\ db.layout = 1 /\ db.head < MaxContent
                /\ disk[Integration].src = db.head
    /\ db' = [db EXCEPT !.version = @ + 1, !.head = IF merge THEN @ + 1 ELSE @]
    /\ disk' = IF merge THEN [disk EXCEPT ![Integration].src = @ + 1] ELSE disk
    /\ UNCHANGED <<registry, Rows, Files, shown, cmd, faults>>

\* Someone edits a managed directory, or puts a file, a directory or a dangling
\* link at a path of a unit where nothing is.
Drift(u) ==
    /\ \E side \in {"src", "dst"} :
       \/ /\ disk[u][side] \in 1 .. MaxContent - 1
          /\ u # Integration
          /\ disk' = [disk EXCEPT ![u][side] = @ + 1]
       \/ /\ disk[u][side] = NoFile
          /\ \E thing \in {Foreign, DanglingLink} : disk' = [disk EXCEPT ![u][side] = thing]
    /\ faults < MaxFaults /\ faults' = faults + 1
    /\ UNCHANGED <<registry, db, Rows, Files, shown, cmd>>

\* The process dies: its command and the user's screen are gone, a backup being
\* streamed may be left with some of its pages.
Crash ==
    /\ faults < MaxFaults /\ (cmd # NoCmd \/ shown # NoShown)
    /\ faults' = faults + 1
    /\ cmd' = NoCmd /\ shown' = NoShown
    /\ \/ UNCHANGED backups
       \/ /\ At("prepare", "stream")
          /\ backups' = Put(backups, cmd.preview, PartialBackup)
    /\ UNCHANGED <<Tree, db, Rows, manifests>>

PrepareStep ==
    \/ PrepareView \/ PrepareBackup \/ PrepareStream \/ PrepareManifest
    \/ PrepareWrite \/ PrepareRecord \/ PrepareIntent

ExecuteStep ==
    \/ ExecuteCheck \/ ExecuteMove \/ ExecuteGitMove \/ ExecuteRegister
    \/ ExecuteVerify \/ ExecuteCommit \/ ExecuteMark

Next ==
    \/ QueryPreview \/ BeginPrepare \/ PrepareStep
    \/ \E sweep \in BOOLEAN : BeginExecute(sweep)
    \/ ExecuteStep
    \/ \E merge \in BOOLEAN : OtherCommand(merge)
    \/ \E u \in Units : Drift(u)
    \/ Crash

\* A started command runs on, and a user who has an unfinished migration
\* queries its preview and confirms Execute.
Fairness ==
    /\ WF_vars(PrepareStep) /\ WF_vars(ExecuteStep)
    /\ SF_vars(QueryPreview /\ intent.status = "PENDING" /\ shown' # shown)
    /\ SF_vars(BeginExecute(FALSE) /\ shown.status = "PREPARED")

Spec == Init /\ [][Next]_vars /\ Fairness
-----------------------------------------------------------------------------
TypeOK ==
    /\ disk \in [Units -> [src : 0 .. DanglingLink, dst : 0 .. DanglingLink,
                           inner : Contents \union {NoFile}]]
    /\ registry \in [Units -> {"src", "dst", "inner"}]
    /\ db \in [layout : {1, 2}, version : 1 .. MaxVersion + 2, base : {1}, head : Contents]
    /\ db.version <= MaxVersion + db.layout
    /\ row.status \in {"NONE", "PREPARED", "COMPLETED"}
    /\ intent.status \in {"NONE", "PENDING", "RESULTED"}
    /\ DOMAIN backups \subseteq Previews /\ DOMAIN manifests \subseteq DOMAIN backups
    /\ shown.status \in {"NONE", "PREVIEW", "PREPARED"}
    /\ faults \in 0 .. MaxFaults

\* No step of the migration, faults included, loses a managed directory: it is
\* at one of its two paths, or where Git put it.
NothingLost == \A u \in Units : \E place \in {"src", "dst", "inner"} : disk[u][place] \in Contents

\* The database never says "aggregated layout" of a Workflow with a unit still
\* at its legacy path or a worktree Git looks for elsewhere.
AdvancedMeansLanded ==
    db.layout = 2 => \A u \in Units :
        /\ disk[u].src \notin Contents /\ disk[u].dst \in Contents
        /\ IsWorktree(u) => registry[u] = "dst"

\* A dangling link stands at a path of the migration.
LinkInTheWay == \E u \in Units, side \in {"src", "dst"} : disk[u][side] = DanglingLink

\* Two implementations of the same question agree but for the one entry they
\* read differently: of a pending migration that Recovery lets through, Execute
\* refuses the moves exactly if a dangling link is in the way, and goes on from
\* the same unit otherwise.
RecoveryAgreesWithExecute ==
    cmd = NoCmd /\ intent.status = "PENDING" /\ RecoveryAccepts =>
        /\ ManifestReadable(row.preview, row.manifest)
        /\ PreflightOK(row.preview, db.layout = 2) <=> ~LinkInTheWay
        /\ ~LinkInTheWay => (Disposition = "already_completed" <=> FirstPending \notin Units)

\* A pending migration that Recovery accepts is carried through, unless a
\* dangling link is in the way, or Recovery comes to refuse it (a drift, a
\* foreign file, another command).
PreparedAdvances ==
    intent.status = "PENDING" /\ db.layout = 1 /\ RecoveryAccepts /\ ~LinkInTheWay
        ~> db.layout = 2 \/ ~RecoveryAccepts \/ LinkInTheWay

=============================================================================
