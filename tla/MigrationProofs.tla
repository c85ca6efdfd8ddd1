-------------------------- MODULE MigrationProofs --------------------------
(***************************************************************************)
(* The Legacy Layout Migration, for any list of units and any number of    *)
(* contents, versions, deaths and drifts: no managed directory is lost,    *)
(* the database advances only over a tree that has landed, and of what     *)
(* Recovery lets through Execute refuses exactly the moves a dangling link *)
(* stands in the way of.                                                   *)
(*                                                                         *)
(* The advance is the delicate one.  The moves happen one by one, each a   *)
(* step of its own; the invariant says that everything before the cursor   *)
(* of Execute has landed and that nobody but Execute takes it back.        *)
(***************************************************************************)
EXTENDS Migration, RowLemmas, TLAPS

Places == [src : 0 .. DanglingLink, dst : 0 .. DanglingLink, inner : Contents \union {NoFile}]
Registries == [Units -> {"src", "dst", "inner"}]

Shape ==
    /\ disk \in [Units -> Places]
    /\ registry \in Registries
    /\ db \in [layout : {1, 2}, version : Nat, base : {1}, head : Contents]
    /\ cmd = [op |-> cmd.op, step |-> cmd.step, preview |-> cmd.preview,
              version |-> cmd.version, at |-> cmd.at]

(* The unit is at its aggregated path, for Git too.                        *)
Landed(u) ==
    /\ disk[u].src \notin Contents /\ disk[u].dst \in Contents
    /\ IsWorktree(u) => registry[u] = "dst"

Moving == {"move", "git", "register", "verify"}

(* A managed directory is at one of its two paths or where Git put it, and  *)
(* Git puts a worktree into a foreign directory only.                      *)
Kept(d, r) == \A u \in Units :
    /\ d[u].src \in Contents \/ d[u].dst \in Contents \/ d[u].inner \in Contents
    /\ d[u].inner # NoFile => d[u].dst = Foreign /\ IsWorktree(u) /\ r[u] # "dst"

(* What the check of a worktree established for Git's move.                *)
GitReady(c, d, r) ==
    c.step = "git" => c.at \in Units /\ IsWorktree(c.at) /\ r[c.at] = "src" /\ d[c.at].inner = NoFile

(* Everything before the cursor has landed; nothing is left to land once   *)
(* the Layout facts have advanced.                                         *)
Cursor ==
    /\ cmd.step \in Moving =>
         /\ cmd.at \in Units \/ (cmd.step = "move" /\ cmd.at = Len(Kind) + 1)
         /\ \A u \in Units : u < cmd.at => Landed(u)
    /\ GitReady(cmd, disk, registry)
    /\ db.layout = 2 => \A u \in Units : Landed(u)

MigrationInv == Shape /\ Kept(disk, registry) /\ Cursor

-----------------------------------------------------------------------------
(* The contents of a directory are numbers, and a foreign file is none of  *)
(* the program's.                                                          *)
LEMMA Numbers ==
    /\ Units = 1 .. Len(Kind) /\ Len(Kind) \in Nat /\ Len(Kind) >= 2
    /\ Contents \subseteq Nat /\ 1 \in Contents /\ NoFile \notin Contents
    /\ Foreign \in 0 .. DanglingLink /\ Foreign \notin Contents /\ Foreign # NoFile
    /\ DanglingLink \in Nat /\ DanglingLink \notin Contents
    /\ DanglingLink \notin {NoFile, Foreign}
    /\ NoFile \in 0 .. DanglingLink /\ Contents \subseteq 0 .. DanglingLink
  <1>1. Len(Kind) \in Nat
    BY KindAssumption, LenProperties
  <1> QED BY <1>1, KindAssumption, BoundsAssumption DEF Units, Contents, NoFile, Foreign, DanglingLink

(* A step that takes nothing back.                                         *)
LEMMA TreeGrows ==
    ASSUME MigrationInv,
           disk' \in [Units -> Places], registry' \in Registries, Kept(disk', registry'),
           GitReady(cmd', disk', registry'),
           \A u \in Units : Landed(u) => Landed(u)',
           db' \in [layout : {1, 2}, version : Nat, base : {1}, head : Contents],
           cmd' = [op |-> cmd'.op, step |-> cmd'.step, preview |-> cmd'.preview,
                   version |-> cmd'.version, at |-> cmd'.at],
           cmd'.step \in Moving =>
             /\ cmd'.at \in Units \/ (cmd'.step = "move" /\ cmd'.at = Len(Kind) + 1)
             /\ \A u \in Units : u < cmd'.at => Landed(u),
           db'.layout = 2 => \A u \in Units : Landed(u)
    PROVE  MigrationInv'
  <1>1. Shape'
    BY DEF Shape
  <1>2. Kept(disk', registry')
    OBVIOUS
  <1>3. Cursor'
    BY DEF Cursor
  <1> QED BY <1>1, <1>2, <1>3 DEF MigrationInv

(* A step that moves no directory.                                         *)
LEMMA TreeStays ==
    ASSUME MigrationInv, UNCHANGED <<disk, registry>>, GitReady(cmd', disk, registry),
           db' \in [layout : {1, 2}, version : Nat, base : {1}, head : Contents],
           cmd' = [op |-> cmd'.op, step |-> cmd'.step, preview |-> cmd'.preview,
                   version |-> cmd'.version, at |-> cmd'.at],
           cmd'.step \in Moving =>
             /\ cmd'.at \in Units \/ (cmd'.step = "move" /\ cmd'.at = Len(Kind) + 1)
             /\ \A u \in Units : u < cmd'.at => Landed(u),
           db'.layout = 2 => \A u \in Units : Landed(u)
    PROVE  MigrationInv'
  <1>1. /\ Kept(disk', registry') /\ GitReady(cmd', disk', registry')
        /\ disk' \in [Units -> Places] /\ registry' \in Registries
    BY DEF MigrationInv, Shape
  <1>2. \A u \in Units : Landed(u) => Landed(u)'
    BY DEF Landed
  <1> QED BY <1>1, <1>2, TreeGrows

(* A command that goes on with no move in progress, or returns.            *)
LEMMA CommandGoesOn ==
    ASSUME MigrationInv, UNCHANGED <<disk, registry>>, db' = db,
           \/ cmd' = NoCmd \/ cmd' = cmd
           \/ \E step : step \notin Moving /\ cmd' = [cmd EXCEPT !.step = step]
           \/ \E step, v : step \notin Moving /\ cmd' = [cmd EXCEPT !.step = step, !.version = v]
           \/ \E op, step, p : step \notin Moving
                /\ cmd' = [NoCmd EXCEPT !.op = op, !.step = step, !.preview = p]
    PROVE  MigrationInv'
  <1>1. cmd = [op |-> cmd.op, step |-> cmd.step, preview |-> cmd.preview,
               version |-> cmd.version, at |-> cmd.at]
    BY DEF MigrationInv, Shape
  <1> DEFINE IsCommand(c) == c = [op |-> c.op, step |-> c.step, preview |-> c.preview,
                                  version |-> c.version, at |-> c.at]
  <1>2. IsCommand(cmd') /\ (cmd' = cmd \/ cmd'.step \notin Moving)
    <2>1. CASE cmd' = cmd
      BY <1>1, <2>1
    <2>2. CASE cmd' = NoCmd
      BY <2>2 DEF NoCmd, Moving
    <2>3. ASSUME NEW step, step \notin Moving, cmd' = [cmd EXCEPT !.step = step]
          PROVE  IsCommand(cmd') /\ cmd'.step \notin Moving
      <3>1. cmd' = [op |-> cmd.op, step |-> step, preview |-> cmd.preview,
                    version |-> cmd.version, at |-> cmd.at]
        BY <1>1, <2>3
      <3> QED BY <2>3, <3>1
    <2>4. ASSUME NEW step, NEW v, step \notin Moving,
                 cmd' = [cmd EXCEPT !.step = step, !.version = v]
          PROVE  IsCommand(cmd') /\ cmd'.step \notin Moving
      <3>1. cmd' = [op |-> cmd.op, step |-> step, preview |-> cmd.preview,
                    version |-> v, at |-> cmd.at]
        BY <1>1, <2>4
      <3> QED BY <2>4, <3>1
    <2>5. ASSUME NEW op, NEW step, NEW p, step \notin Moving,
                 cmd' = [NoCmd EXCEPT !.op = op, !.step = step, !.preview = p]
          PROVE  IsCommand(cmd') /\ cmd'.step \notin Moving
      <3>1. cmd' = [op |-> op, step |-> step, preview |-> p, version |-> 0, at |-> 0]
        BY <2>5 DEF NoCmd
      <3> QED BY <2>5, <3>1
    <2> QED BY <2>1, <2>2, <2>3, <2>4, <2>5
  <1>3. cmd' = cmd \/ cmd'.step \notin Moving
    BY <1>2
  <1>4. cmd'.step \in Moving =>
          /\ cmd'.at \in Units \/ (cmd'.step = "move" /\ cmd'.at = Len(Kind) + 1)
          /\ \A u \in Units : u < cmd'.at => Landed(u)
    BY <1>3 DEF MigrationInv, Cursor
  <1>5. db' \in [layout : {1, 2}, version : Nat, base : {1}, head : Contents]
        /\ (db'.layout = 2 => \A u \in Units : Landed(u))
    BY DEF MigrationInv, Shape, Cursor
  <1>6. GitReady(cmd', disk, registry)
    BY <1>3 DEF MigrationInv, Cursor, GitReady, Moving
  <1> QED BY <1>2, <1>4, <1>5, <1>6, TreeStays

(* What Execute checks before it moves.                                    *)
LEMMA FirstPendingIsFirst ==
    ASSUME Shape
    PROVE  /\ FirstPending \in 1 .. Len(Kind) + 1
           /\ \A u \in Units : u < FirstPending => ~Present(u, "src")
           /\ FirstPending \in Units <=> Pending # {}
  <1>1. CASE Pending = {}
    BY <1>1, Numbers DEF FirstPending, Pending
  <1>2. CASE Pending # {}
    <2>1. Pending \subseteq Units /\ Units \subseteq Nat
      BY Numbers DEF Pending
    <2>2. \E x \in Pending : \A y \in Pending : x <= y
      BY <1>2, <2>1, FirstRow
    <2>3. FirstPending \in Pending /\ \A v \in Pending : FirstPending <= v
      BY <1>2, <2>2 DEF FirstPending
    <2>4. \A u \in Units : u < FirstPending => u \notin Pending
      BY <2>1, <2>3
    <2> QED BY <1>2, <2>1, <2>3, <2>4, Numbers DEF Pending
  <1> QED BY <1>1, <1>2

(* A unit that is verified at its aggregated path and not at the legacy one *)
(* has landed.                                                             *)
LEMMA VerifiedLanded ==
    ASSUME MigrationInv, NEW p, NEW u \in Units, ~Present(u, "src"), Verified(u, "dst", p)
    PROVE  Landed(u)
  <1>1. disk[u].src = NoFile /\ (IsWorktree(u) => registry[u] = "dst")
    BY DEF Present, Verified
  <1>2. disk[u].inner = NoFile
    BY <1>1 DEF MigrationInv, Kept
  <1> QED BY <1>1, <1>2, Numbers DEF MigrationInv, Kept, Landed

(* A unit the preflight finds at its aggregated path has landed.           *)
LEMMA PreflightLanded ==
    ASSUME MigrationInv, NEW p, NEW adv, PreflightOK(p, adv), NEW u \in Units, ~Present(u, "src")
    PROVE  Landed(u)
  <1>1. Verified(u, "dst", p)
    BY DEF PreflightOK, Present
  <1> QED BY <1>1, VerifiedLanded

(* The checks of Execute set the cursor behind what has landed.            *)
LEMMA ExecuteCheckSound ==
    ASSUME MigrationInv, ExecuteCheck
    PROVE  MigrationInv'
  <1>1. CASE cmd' = NoCmd
    BY <1>1, CommandGoesOn DEF ExecuteCheck, Tree
  <1>2. CASE cmd' # NoCmd
    <2>1. /\ PreflightOK(row.preview, db.layout = 2)
          /\ cmd' = [cmd EXCEPT !.step = "move", !.at = FirstPending, !.version = db.version]
          /\ UNCHANGED <<disk, registry, db>>
      BY <1>2 DEF ExecuteCheck, Return, Tree
    <2>2. cmd' = [op |-> cmd.op, step |-> "move", preview |-> cmd.preview,
                  version |-> db.version, at |-> FirstPending]
      BY <2>1 DEF MigrationInv, Shape
    <2>3. \A u \in Units : u < FirstPending => Landed(u)
      <3>1. \A u \in Units : u < FirstPending => ~Present(u, "src")
        BY FirstPendingIsFirst DEF MigrationInv
      <3> QED BY <2>1, <3>1, PreflightLanded
    <2>4. FirstPending \in Units \/ FirstPending = Len(Kind) + 1
      BY FirstPendingIsFirst, Numbers DEF MigrationInv
    <2>5. db' \in [layout : {1, 2}, version : Nat, base : {1}, head : Contents]
          /\ (db'.layout = 2 => \A u \in Units : Landed(u))
      BY <2>1 DEF MigrationInv, Shape, Cursor
    <2>6. GitReady(cmd', disk, registry)
      BY <2>2 DEF GitReady
    <2> QED BY <2>1, <2>2, <2>3, <2>4, <2>5, <2>6, TreeStays
  <1> QED BY <1>1, <1>2

(* The command goes on at the same unit.                                   *)
LEMMA SameUnit ==
    ASSUME MigrationInv, NEW step, cmd' = [cmd EXCEPT !.step = step]
    PROVE  /\ cmd'.at = cmd.at /\ cmd'.step = step
           /\ cmd' = [op |-> cmd'.op, step |-> cmd'.step, preview |-> cmd'.preview,
                      version |-> cmd'.version, at |-> cmd'.at]
  <1>1. cmd' = [op |-> cmd.op, step |-> step, preview |-> cmd.preview,
                version |-> cmd.version, at |-> cmd.at]
    BY DEF MigrationInv, Shape
  <1> QED BY <1>1

(* One rename: the directory is where its move puts it, at the aggregated   *)
(* path or inside a foreign directory there.                               *)
LEMMA RenameSound ==
    ASSUME MigrationInv, cmd.step \in Moving, NEW at \in Units, at = cmd.at,
           disk[at].dst \notin Contents, disk[at].inner = NoFile,
           NEW place \in {"dst", "inner"}, MoveTo(at, place),
           place = "inner" => disk[at].dst = Foreign /\ IsWorktree(at) /\ registry[at] # "dst",
           NEW step \in {"register", "verify"}, cmd' = [cmd EXCEPT !.step = step],
           UNCHANGED <<registry, db>>
    PROVE  MigrationInv'
  <1>1. /\ disk \in [Units -> Places] /\ Kept(disk, registry) /\ registry \in Registries
        /\ \A u \in Units : u < at => Landed(u)
        /\ db.layout = 2 => \A u \in Units : Landed(u)
        /\ db \in [layout : {1, 2}, version : Nat, base : {1}, head : Contents]
    BY DEF MigrationInv, Shape, Cursor
  <1>2. disk[at] \in Places /\ disk[at].src \in Contents
    BY <1>1, Numbers DEF Kept
  <1>3. \E new \in Places :
          /\ disk' = [disk EXCEPT ![at] = new] /\ new.src = NoFile
          /\ \/ new.dst = disk[at].src /\ new.inner = NoFile
             \/ new.dst = disk[at].dst /\ new.inner = disk[at].src /\ place = "inner"
    <2>1. CASE place = "dst"
      <3> DEFINE new == [disk[at] EXCEPT !.dst = disk[at].src, !.src = NoFile]
      <3>1. disk' = [disk EXCEPT ![at] = new]
        BY <1>1, <2>1 DEF MoveTo
      <3>2. new \in Places /\ new.src = NoFile /\ new.dst = disk[at].src /\ new.inner = NoFile
        BY <1>2, Numbers DEF Places
      <3> HIDE DEF new
      <3> QED BY <3>1, <3>2
    <2>2. CASE place = "inner"
      <3> DEFINE new == [disk[at] EXCEPT !.inner = disk[at].src, !.src = NoFile]
      <3>1. disk' = [disk EXCEPT ![at] = new]
        BY <1>1, <2>2 DEF MoveTo
      <3>2. /\ new \in Places /\ new.src = NoFile /\ new.dst = disk[at].dst
            /\ new.inner = disk[at].src
        BY <1>2, Numbers DEF Places
      <3> HIDE DEF new
      <3> QED BY <2>2, <3>1, <3>2
    <2> QED BY <2>1, <2>2
  <1>4. PICK new \in Places :
          /\ disk' = [disk EXCEPT ![at] = new] /\ new.src = NoFile
          /\ \/ new.dst = disk[at].src /\ new.inner = NoFile
             \/ new.dst = disk[at].dst /\ new.inner = disk[at].src /\ place = "inner"
    BY <1>3
  <1>5. /\ disk' \in [Units -> Places] /\ disk'[at] = new
        /\ \A u \in Units \ {at} : disk'[u] = disk[u]
    BY <1>1, <1>4
  <1>6. Kept(disk', registry')
    BY <1>1, <1>2, <1>4, <1>5 DEF Kept
  <1>7. \A u \in Units : Landed(u) => Landed(u)'
    BY <1>5 DEF Landed
  <1>8. /\ cmd'.at = at /\ cmd'.step = step
        /\ cmd' = [op |-> cmd'.op, step |-> cmd'.step, preview |-> cmd'.preview,
                   version |-> cmd'.version, at |-> cmd'.at]
    BY SameUnit
  <1>9. GitReady(cmd', disk', registry')
    BY <1>8 DEF GitReady
  <1> QED BY <1>1, <1>5, <1>6, <1>7, <1>8, <1>9, TreeGrows

(* The move of an artifact, and the check before the move of a worktree.   *)
LEMMA ExecuteMoveSound ==
    ASSUME MigrationInv, ExecuteMove
    PROVE  MigrationInv'
  <1>0. /\ cmd.at \in Units /\ cmd.step = "move" /\ cmd.step \in Moving
        /\ \A u \in Units : u < cmd.at => Landed(u)
        /\ db.layout = 2 => \A u \in Units : Landed(u)
        /\ UNCHANGED <<registry, db>> /\ Kept(disk, registry)
        /\ db \in [layout : {1, 2}, version : Nat, base : {1}, head : Contents]
    BY DEF MigrationInv, Shape, Cursor, ExecuteMove, At, Moving
  <1>1. CASE cmd' = NoCmd /\ UNCHANGED disk
    BY <1>0, <1>1, CommandGoesOn
  <1>2. CASE cmd' = [cmd EXCEPT !.step = "verify"] /\ UNCHANGED disk
    <2>1. GitReady(cmd', disk, registry)
      BY <1>2, SameUnit DEF GitReady
    <2> QED BY <1>0, <1>2, <2>1, SameUnit, TreeStays
  <1>3. CASE IsWorktree(cmd.at) /\ cmd' # NoCmd /\ CheckWorktree(cmd.at)
    <2>1. /\ ~Present(cmd.at, "dst") /\ registry[cmd.at] = "src"
          /\ cmd' = [cmd EXCEPT !.step = "git"] /\ UNCHANGED disk
      BY <1>3 DEF CheckWorktree, Return, GoTo
    <2>2. disk[cmd.at].inner = NoFile
      BY <1>0, <2>1, Numbers DEF Kept, Present
    <2>3. GitReady(cmd', disk, registry)
      BY <1>0, <1>3, <2>1, <2>2, SameUnit DEF GitReady
    <2> QED BY <1>0, <2>1, <2>3, SameUnit, TreeStays
  <1>4. CASE /\ ~IsWorktree(cmd.at) /\ ~Present(cmd.at, "dst") /\ MoveTo(cmd.at, "dst")
             /\ cmd' = [cmd EXCEPT !.step = "verify"]
    <2>1. disk[cmd.at].dst \notin Contents /\ disk[cmd.at].inner = NoFile
      BY <1>0, <1>4, Numbers DEF Kept, Present
    <2> QED BY <1>0, <1>4, <2>1, RenameSound
  <1> QED BY <1>1, <1>2, <1>3, <1>4 DEF ExecuteMove, MoveArtifact, CheckWorktree, Return, GoTo

(* Git's move of a worktree: to its path, or into what appeared there.     *)
LEMMA ExecuteGitMoveSound ==
    ASSUME MigrationInv, ExecuteGitMove
    PROVE  MigrationInv'
  <1>0. /\ cmd.at \in Units /\ cmd.step \in Moving /\ IsWorktree(cmd.at)
        /\ registry[cmd.at] = "src" /\ disk[cmd.at].inner = NoFile
        /\ UNCHANGED <<registry, db>>
    BY DEF MigrationInv, Cursor, ExecuteGitMove, At, Moving, GitReady
  <1>1. CASE cmd' = NoCmd /\ UNCHANGED disk
    BY <1>0, <1>1, CommandGoesOn
  <1>2. CASE /\ ~Present(cmd.at, "dst") /\ MoveTo(cmd.at, "dst")
             /\ cmd' = [cmd EXCEPT !.step = "register"]
    <2>1. disk[cmd.at].dst \notin Contents
      BY <1>2, Numbers DEF Present
    <2> QED BY <1>0, <1>2, <2>1, RenameSound
  <1>3. CASE /\ disk[cmd.at].dst = Foreign /\ MoveTo(cmd.at, "inner")
             /\ cmd' = [cmd EXCEPT !.step = "register"]
    BY <1>0, <1>3, Numbers, RenameSound
  <1> QED BY <1>1, <1>2, <1>3 DEF ExecuteGitMove, Return, GoTo

(* Git is told where the worktree is.                                      *)
LEMMA ExecuteRegisterSound ==
    ASSUME MigrationInv, ExecuteRegister
    PROVE  MigrationInv'
  <1> DEFINE at == cmd.at
             place == IF Present(at, "inner") THEN "inner" ELSE "dst"
  <1>0. /\ disk' \in [Units -> Places] /\ disk' = disk /\ cmd.step \in Moving
        /\ cmd' = [cmd EXCEPT !.step = "verify"]
        /\ at \in Units /\ \A u \in Units : u < at => Landed(u)
        /\ db.layout = 2 => \A u \in Units : Landed(u)
        /\ UNCHANGED db /\ Kept(disk, registry)
        /\ registry \in Registries
        /\ registry' = [registry EXCEPT ![at] = place]
        /\ db \in [layout : {1, 2}, version : Nat, base : {1}, head : Contents]
    BY DEF MigrationInv, Shape, Cursor, ExecuteRegister, At, Moving, GoTo
  <1>1. /\ registry' \in Registries /\ registry'[at] = place
        /\ \A u \in Units \ {at} : registry'[u] = registry[u]
    BY <1>0 DEF Registries
  <1>2. Kept(disk', registry')
    BY <1>0, <1>1 DEF Kept, Present
  <1>3. \A u \in Units : Landed(u) => Landed(u)'
    BY <1>0, <1>1 DEF Landed, Kept, Present
  <1>4. /\ cmd'.at = at /\ cmd'.step = "verify"
        /\ cmd' = [op |-> cmd'.op, step |-> cmd'.step, preview |-> cmd'.preview,
                   version |-> cmd'.version, at |-> cmd'.at]
    BY <1>0, SameUnit
  <1>5. GitReady(cmd', disk', registry')
    BY <1>4 DEF GitReady
  <1> HIDE DEF at, place
  <1> QED BY <1>0, <1>1, <1>2, <1>3, <1>4, <1>5, TreeGrows

(* The verified unit has landed, and the cursor goes on.                   *)
LEMMA ExecuteVerifySound ==
    ASSUME MigrationInv, ExecuteVerify
    PROVE  MigrationInv'
  <1> DEFINE at == cmd.at
  <1>0. /\ UNCHANGED <<disk, registry, db>> /\ cmd.step = "verify"
        /\ cmd = [op |-> cmd.op, step |-> cmd.step, preview |-> cmd.preview,
                  version |-> cmd.version, at |-> at]
        /\ at \in Units /\ \A u \in Units : u < at => Landed(u)
        /\ db.layout = 2 => \A u \in Units : Landed(u)
        /\ db \in [layout : {1, 2}, version : Nat, base : {1}, head : Contents]
    BY DEF MigrationInv, Shape, Cursor, ExecuteVerify, At, Moving, Tree
  <1>1. CASE cmd' = NoCmd
    BY <1>0, <1>1, CommandGoesOn
  <1>2. CASE cmd' # NoCmd
    <2>1. /\ Present(at, "dst") /\ ~Present(at, "src") /\ Verified(at, "dst", row.preview)
          /\ cmd' = [cmd EXCEPT !.step = "move", !.at = @ + 1]
      BY <1>2 DEF ExecuteVerify, Return
    <2>2. at \in Units => Landed(at)
      BY <2>1, VerifiedLanded
    <2>3. cmd' = [op |-> cmd.op, step |-> "move", preview |-> cmd.preview,
                  version |-> cmd.version, at |-> at + 1]
      BY <1>0, <2>1
    <2> HIDE DEF at
    <2>4. (at + 1 \in Units \/ at + 1 = Len(Kind) + 1) /\ \A u \in Units : u < at + 1 => Landed(u)
      BY <1>0, <2>2, Numbers
    <2>5. cmd'.at = at + 1 /\ cmd'.step = "move"
          /\ cmd' = [op |-> cmd'.op, step |-> cmd'.step, preview |-> cmd'.preview,
                     version |-> cmd'.version, at |-> cmd'.at]
      BY <2>3
    <2>6. GitReady(cmd', disk, registry)
      BY <2>5 DEF GitReady
    <2> QED BY <1>0, <2>4, <2>5, <2>6, TreeStays
  <1> QED BY <1>1, <1>2

(* The Layout facts advance behind the last unit.                          *)
LEMMA ExecuteCommitSound ==
    ASSUME MigrationInv, ExecuteCommit
    PROVE  MigrationInv'
  <1>0. /\ UNCHANGED <<disk, registry>> /\ cmd.step = "move" /\ cmd.at = Len(Kind) + 1
        /\ cmd = [op |-> cmd.op, step |-> cmd.step, preview |-> cmd.preview,
                  version |-> cmd.version, at |-> cmd.at]
        /\ \A u \in Units : u < cmd.at => Landed(u)
        /\ db \in [layout : {1, 2}, version : Nat, base : {1}, head : Contents]
    BY DEF MigrationInv, Shape, Cursor, ExecuteCommit, At, Moving, Tree
  <1>1. \A u \in Units : Landed(u)
    BY <1>0, Numbers
  <1>2. db' \in [layout : {1, 2}, version : Nat, base : {1}, head : Contents]
    <2>1. db' = db \/ db' = [db EXCEPT !.layout = 2, !.version = db.version + 1]
      BY <1>0 DEF ExecuteCommit
    <2> DEFINE v == db.version + 1
    <2>2. v \in Nat
      BY <1>0
    <2>3. db' = db \/ db' = [db EXCEPT !.layout = 2, !.version = v]
      BY <2>1
    <2> HIDE DEF v
    <2> QED BY <1>0, <2>2, <2>3
  <1>3. cmd' = NoCmd \/ cmd' = [cmd EXCEPT !.step = "mark"]
    BY DEF ExecuteCommit, Return, GoTo
  <1>4. /\ cmd'.step \notin Moving
        /\ cmd' = [op |-> cmd'.op, step |-> cmd'.step, preview |-> cmd'.preview,
                   version |-> cmd'.version, at |-> cmd'.at]
    <2>1. CASE cmd' = NoCmd
      BY <2>1 DEF NoCmd, Moving
    <2>2. CASE cmd' = [cmd EXCEPT !.step = "mark"]
      <3>1. cmd' = [op |-> cmd.op, step |-> "mark", preview |-> cmd.preview,
                    version |-> cmd.version, at |-> cmd.at]
        BY <1>0, <2>2
      <3> QED BY <3>1 DEF Moving
    <2> QED BY <1>3, <2>1, <2>2
  <1>5. GitReady(cmd', disk, registry)
    BY <1>4 DEF GitReady, Moving
  <1> QED BY <1>0, <1>1, <1>2, <1>4, <1>5, TreeStays

(* A Decision of the Workflow outside the moves: the version goes on, and   *)
(* the command returns or begins.                                           *)
LEMMA VersionGoesOn ==
    ASSUME MigrationInv, UNCHANGED <<disk, registry>>, NEW v \in Nat,
           db' = [db EXCEPT !.version = v],
           \/ cmd' = NoCmd
           \/ \E op, step, p : step \notin Moving
                /\ cmd' = [NoCmd EXCEPT !.op = op, !.step = step, !.preview = p]
    PROVE  MigrationInv'
  <1>1. /\ db' \in [layout : {1, 2}, version : Nat, base : {1}, head : Contents]
        /\ db'.layout = 2 => \A u \in Units : Landed(u)
    BY DEF MigrationInv, Shape, Cursor
  <1>2. /\ cmd'.step \notin Moving
        /\ cmd' = [op |-> cmd'.op, step |-> cmd'.step, preview |-> cmd'.preview,
                   version |-> cmd'.version, at |-> cmd'.at]
    <2>1. CASE cmd' = NoCmd
      BY <2>1 DEF NoCmd, Moving
    <2>2. ASSUME NEW op, NEW step, NEW p, step \notin Moving,
                 cmd' = [NoCmd EXCEPT !.op = op, !.step = step, !.preview = p]
          PROVE  /\ cmd'.step \notin Moving
                 /\ cmd' = [op |-> cmd'.op, step |-> cmd'.step, preview |-> cmd'.preview,
                            version |-> cmd'.version, at |-> cmd'.at]
      <3>1. cmd' = [op |-> op, step |-> step, preview |-> p, version |-> 0, at |-> 0]
        BY <2>2 DEF NoCmd
      <3> QED BY <2>2, <3>1
    <2> QED BY <2>1, <2>2
  <1>3. GitReady(cmd', disk, registry)
    BY <1>2 DEF GitReady, Moving
  <1> QED BY <1>1, <1>2, <1>3, TreeStays

(* The steps of Prepare move no directory.                                 *)
LEMMA PrepareSound ==
    ASSUME MigrationInv, BeginPrepare \/ PrepareStep
    PROVE  MigrationInv'
  <1>1. CASE PrepareIntent
    <2>1. db \in [layout : {1, 2}, version : Nat, base : {1}, head : Contents]
          /\ UNCHANGED <<disk, registry>> /\ cmd' = NoCmd
      BY <1>1 DEF MigrationInv, Shape, PrepareIntent, Tree, Return
    <2>2. CASE db' = db
      BY <2>1, <2>2, CommandGoesOn
    <2>3. CASE db' = [db EXCEPT !.version = @ + 1]
      BY <2>1, <2>3, VersionGoesOn
    <2> QED BY <1>1, <2>2, <2>3 DEF PrepareIntent
  <1>2. CASE BeginPrepare
    <2>1. UNCHANGED <<disk, registry, db>>
          /\ cmd' = [NoCmd EXCEPT !.op = "prepare", !.step = "view", !.preview = shown.preview]
      BY <1>2 DEF BeginPrepare, Tree
    <2>2. "view" \notin Moving
      BY DEF Moving
    <2> QED BY <2>1, <2>2, CommandGoesOn
  <1>3. CASE PrepareView
    <2>1. UNCHANGED <<disk, registry, db>>
          /\ (cmd' = NoCmd \/ cmd' = [cmd EXCEPT !.step = "backup", !.version = db.version])
      BY <1>3 DEF PrepareView, Tree, Return
    <2>2. "backup" \notin Moving
      BY DEF Moving
    <2> QED BY <2>1, <2>2, CommandGoesOn
  <1>4. CASE PrepareBackup \/ PrepareStream \/ PrepareManifest \/ PrepareWrite \/ PrepareRecord
    <2>1. /\ UNCHANGED <<disk, registry, db>>
          /\ \/ cmd' = NoCmd
             \/ \E step \in {"stream", "manifest", "write", "record", "intent"} :
                  cmd' = [cmd EXCEPT !.step = step]
      BY <1>4 DEF PrepareBackup, PrepareStream, PrepareManifest, PrepareWrite, PrepareRecord,
                  Tree, Return, GoTo
    <2>2. \A step \in {"stream", "manifest", "write", "record", "intent"} : step \notin Moving
      BY DEF Moving
    <2> QED BY <2>1, <2>2, CommandGoesOn
  <1> QED BY <1>1, <1>2, <1>3, <1>4 DEF PrepareStep

(* Another command may merge on the legacy layout.                         *)
LEMMA OtherCommandSound ==
    ASSUME MigrationInv, NEW merge \in BOOLEAN, OtherCommand(merge)
    PROVE  MigrationInv'
  <1>0. /\ db \in [layout : {1, 2}, version : Nat, base : {1}, head : Contents]
        /\ cmd' = NoCmd /\ UNCHANGED registry /\ disk \in [Units -> Places]
        /\ registry \in Registries /\ Kept(disk, registry) /\ Integration \in Units
    BY Numbers DEF MigrationInv, Shape, OtherCommand, Integration
  <1>1. CASE merge = FALSE
    <2>1. db' = [db EXCEPT !.version = db.version + 1] /\ disk' = disk
      BY <1>0, <1>1 DEF OtherCommand
    <2> QED BY <1>0, <2>1, VersionGoesOn
  <1>2. CASE merge = TRUE
    <2>1. /\ db.layout = 1 /\ db.head < MaxContent /\ disk[Integration].src = db.head
          /\ db' = [db EXCEPT !.version = db.version + 1, !.head = db.head + 1]
          /\ disk' = [disk EXCEPT ![Integration].src = db.head + 1]
      BY <1>0, <1>2 DEF OtherCommand
    <2>2. db.head + 1 \in Contents /\ db.head + 1 \in 0 .. DanglingLink
      BY <1>0, <2>1, BoundsAssumption, Numbers DEF Contents
    <2>3. /\ db' \in [layout : {1, 2}, version : Nat, base : {1}, head : Contents]
          /\ db'.layout = 1
      <3> DEFINE v == db.version + 1
                 h == db.head + 1
      <3>1. v \in Nat /\ h \in Contents /\ db' = [db EXCEPT !.version = v, !.head = h]
        BY <1>0, <2>1, <2>2
      <3> HIDE DEF v, h
      <3> QED BY <1>0, <2>1, <3>1
    <2>4. /\ disk' \in [Units -> Places] /\ disk'[Integration].src = db.head + 1
          /\ disk'[Integration].inner = disk[Integration].inner
          /\ disk'[Integration].dst = disk[Integration].dst
          /\ \A u \in Units \ {Integration} : disk'[u] = disk[u]
      BY <1>0, <2>1, <2>2 DEF Places
    <2>5. Kept(disk', registry')
      BY <1>0, <2>2, <2>4 DEF Kept
    <2>6. ~Landed(Integration)
      BY <1>0, <2>1, Numbers DEF Landed
    <2>7. \A u \in Units : Landed(u) => Landed(u)'
      BY <1>0, <2>4, <2>6 DEF Landed
    <2>8. /\ cmd'.step \notin Moving
          /\ cmd' = [op |-> cmd'.op, step |-> cmd'.step, preview |-> cmd'.preview,
                     version |-> cmd'.version, at |-> cmd'.at]
      BY <1>0 DEF NoCmd, Moving
    <2>9. GitReady(cmd', disk', registry')
      BY <2>8 DEF GitReady, Moving
    <2> QED BY <1>0, <2>3, <2>4, <2>5, <2>7, <2>8, <2>9, TreeGrows
  <1> QED BY <1>1, <1>2

(* Outside interference adds and edits; it does not delete, and leaves what *)
(* lies inside a foreign directory alone.                                  *)
LEMMA DriftSound ==
    ASSUME MigrationInv, NEW u \in Units, Drift(u)
    PROVE  MigrationInv'
  <1>0. /\ db \in [layout : {1, 2}, version : Nat, base : {1}, head : Contents]
        /\ UNCHANGED <<registry, db, cmd>> /\ disk \in [Units -> Places]
        /\ registry \in Registries /\ Kept(disk, registry)
    BY DEF MigrationInv, Shape, Drift
  <1>1. disk[u] \in Places /\ disk[u].src \in Nat /\ disk[u].dst \in Nat
    BY <1>0, Numbers DEF Places
  <1>2. PICK side \in {"src", "dst"} :
          \/ disk[u][side] \in 1 .. MaxContent - 1 /\ disk' = [disk EXCEPT ![u][side] = @ + 1]
          \/ /\ disk[u][side] = NoFile
             /\ \E thing \in {Foreign, DanglingLink} : disk' = [disk EXCEPT ![u][side] = thing]
    BY DEF Drift
  <1>3. \E v \in 0 .. DanglingLink :
          /\ disk' = [disk EXCEPT ![u][side] = v]
          /\ disk[u][side] \in Contents <=> v \in Contents
          /\ disk[u][side] \in Contents \union {NoFile}
    <2>1. CASE /\ disk[u][side] \in 1 .. MaxContent - 1
               /\ disk' = [disk EXCEPT ![u][side] = @ + 1]
      <3>1. /\ disk[u][side] + 1 \in Contents /\ disk[u][side] \in Contents
        BY <1>1, <2>1, BoundsAssumption DEF Contents
      <3>2. disk' = [disk EXCEPT ![u][side] = disk[u][side] + 1]
        BY <1>0, <2>1
      <3> QED BY <3>1, <3>2, Numbers
    <2>2. CASE /\ disk[u][side] = NoFile
               /\ \E thing \in {Foreign, DanglingLink} : disk' = [disk EXCEPT ![u][side] = thing]
      <3>1. {Foreign, DanglingLink} \subseteq 0 .. DanglingLink
        BY Numbers
      <3> QED BY <2>2, <3>1, Numbers
    <2> QED BY <1>2, <2>1, <2>2
  <1>4. PICK v \in 0 .. DanglingLink :
          /\ disk' = [disk EXCEPT ![u][side] = v]
          /\ disk[u][side] \in Contents <=> v \in Contents
          /\ disk[u][side] \in Contents \union {NoFile}
    BY <1>3
  <1>5. \E new \in Places :
          /\ disk' = [disk EXCEPT ![u] = new] /\ new.inner = disk[u].inner
          /\ new.src \in Contents <=> disk[u].src \in Contents
          /\ new.dst \in Contents <=> disk[u].dst \in Contents
          /\ disk[u].dst = Foreign => new.dst = Foreign
    <2>1. CASE side = "src"
      <3> DEFINE new == [disk[u] EXCEPT !.src = v]
      <3>1. disk' = [disk EXCEPT ![u] = new]
        BY <1>0, <1>4, <2>1
      <3>2. /\ new \in Places /\ new.src = v /\ new.dst = disk[u].dst
            /\ new.inner = disk[u].inner
        BY <1>1 DEF Places
      <3>3. disk[u].src \in Contents <=> v \in Contents
        BY <1>4, <2>1
      <3> HIDE DEF new
      <3> QED BY <3>1, <3>2, <3>3
    <2>2. CASE side = "dst"
      <3> DEFINE new == [disk[u] EXCEPT !.dst = v]
      <3>1. disk' = [disk EXCEPT ![u] = new]
        BY <1>0, <1>4, <2>2
      <3>2. /\ new \in Places /\ new.dst = v /\ new.src = disk[u].src
            /\ new.inner = disk[u].inner
        BY <1>1 DEF Places
      <3>3. (disk[u].dst \in Contents <=> v \in Contents) /\ disk[u].dst # Foreign
        BY <1>4, <2>2, Numbers
      <3> HIDE DEF new
      <3> QED BY <3>1, <3>2, <3>3
    <2> QED BY <2>1, <2>2
  <1>6. PICK new \in Places :
          /\ disk' = [disk EXCEPT ![u] = new] /\ new.inner = disk[u].inner
          /\ new.src \in Contents <=> disk[u].src \in Contents
          /\ new.dst \in Contents <=> disk[u].dst \in Contents
          /\ disk[u].dst = Foreign => new.dst = Foreign
    BY <1>5
  <1>7. /\ disk' \in [Units -> Places] /\ disk'[u] = new
        /\ \A w \in Units \ {u} : disk'[w] = disk[w]
    BY <1>0, <1>6
  <1>8. Kept(disk', registry')
    BY <1>0, <1>6, <1>7 DEF Kept
  <1>9. \A w \in Units : Landed(w) => Landed(w)'
    BY <1>0, <1>6, <1>7 DEF Landed
  <1>10. /\ cmd' = [op |-> cmd'.op, step |-> cmd'.step, preview |-> cmd'.preview,
                    version |-> cmd'.version, at |-> cmd'.at]
         /\ cmd'.step \in Moving =>
              /\ cmd'.at \in Units \/ (cmd'.step = "move" /\ cmd'.at = Len(Kind) + 1)
              /\ \A w \in Units : w < cmd'.at => Landed(w)
         /\ db'.layout = 2 => \A w \in Units : Landed(w)
    BY <1>0 DEF MigrationInv, Shape, Cursor
  <1>11. GitReady(cmd', disk', registry')
    <2>1. \A w \in Units : disk'[w].inner = disk[w].inner
      BY <1>6, <1>7
    <2> QED BY <1>0, <2>1 DEF MigrationInv, Cursor, GitReady
  <1> QED BY <1>0, <1>7, <1>8, <1>9, <1>10, <1>11, TreeGrows

-----------------------------------------------------------------------------
(* The start.                                                              *)
LEMMA InitSound == Init => MigrationInv
  <1> SUFFICES ASSUME Init PROVE MigrationInv
    OBVIOUS
  <1>1. Shape
    BY Numbers DEF Init, Shape, Places, Registries, NoCmd
  <1>2. Kept(disk, registry)
    BY Numbers DEF Init, Kept
  <1>3. Cursor
    BY DEF Init, Cursor, GitReady, NoCmd, Moving
  <1> QED BY <1>1, <1>2, <1>3 DEF MigrationInv

(* Every step keeps the invariant.                                         *)
LEMMA NextSound == MigrationInv /\ [Next]_vars => MigrationInv'
  <1> SUFFICES ASSUME MigrationInv, [Next]_vars PROVE MigrationInv'
    OBVIOUS
  <1>1. CASE UNCHANGED vars \/ QueryPreview
    <2>1. UNCHANGED <<disk, registry, db, cmd>>
      BY <1>1 DEF vars, QueryPreview
    <2> QED BY <2>1, CommandGoesOn
  <1>2. CASE BeginPrepare \/ PrepareStep
    BY <1>2, PrepareSound
  <1>3. ASSUME NEW sweep \in BOOLEAN, BeginExecute(sweep) PROVE MigrationInv'
    <2> DEFINE v == IF sweep THEN db.version + 1 ELSE db.version
    <2>1. /\ UNCHANGED <<disk, registry>> /\ db' = [db EXCEPT !.version = v]
          /\ cmd' = [NoCmd EXCEPT !.op = "execute", !.step = "check", !.preview = shown.preview]
      BY <1>3 DEF BeginExecute, Tree
    <2>2. v \in Nat /\ "check" \notin Moving
      BY DEF MigrationInv, Shape, Moving
    <2> HIDE DEF v
    <2> QED BY <2>1, <2>2, VersionGoesOn
  <1>4. CASE ExecuteStep
    <2>1. CASE ExecuteMark
      BY <2>1, CommandGoesOn DEF ExecuteMark, Return, Tree
    <2> QED BY <1>4, <2>1, ExecuteCheckSound, ExecuteMoveSound, ExecuteGitMoveSound,
               ExecuteRegisterSound, ExecuteVerifySound, ExecuteCommitSound DEF ExecuteStep
  <1>5. ASSUME NEW merge \in BOOLEAN, OtherCommand(merge) PROVE MigrationInv'
    BY <1>5, OtherCommandSound
  <1>6. ASSUME NEW u \in Units, Drift(u) PROVE MigrationInv'
    BY <1>6, DriftSound
  <1>7. CASE Crash
    BY <1>7, CommandGoesOn DEF Crash, Tree
  <1> QED BY <1>1, <1>2, <1>3, <1>4, <1>5, <1>6, <1>7 DEF Next

(* The invariant of the migration.                                         *)
THEOREM MigrationInvariant == Spec => []MigrationInv
  BY InitSound, NextSound, PTL DEF Spec

(* No step of the migration, faults included, loses a managed directory    *)
(* (movePath never replaces, Git moves into what it finds, and a failed    *)
(* move undoes nothing).                                                   *)
THEOREM DirectoriesSurvive == Spec => []NothingLost
  <1>1. MigrationInv => NothingLost
    BY DEF MigrationInv, Kept, NothingLost
  <1> QED BY <1>1, MigrationInvariant, PTL

(* The Layout facts advance only over a tree that has landed, however often *)
(* the moves were interrupted (executeLayoutMigration).                     *)
THEOREM AdvanceIsLanded == Spec => []AdvancedMeansLanded
  <1>1. MigrationInv => AdvancedMeansLanded
    BY DEF MigrationInv, Cursor, Landed, AdvancedMeansLanded
  <1> QED BY <1>1, MigrationInvariant, PTL

(* Recovery asks os.Stat and Execute os.Lstat of the same paths             *)
(* (classifyLayoutMigration, preflightMigrationMoves).  On every reachable  *)
(* state the two answers differ only by a dangling link: of a migration     *)
(* Recovery lets through, Execute accepts the moves, and goes on from the    *)
(* same unit, exactly if no such link stands at a path of a unit.           *)
THEOREM RecoveryIsExecute == Spec => []RecoveryAgreesWithExecute
  <1>1. ASSUME MigrationInv, intent.status = "PENDING", RecoveryAccepts
        PROVE  /\ ManifestReadable(row.preview, row.manifest)
               /\ PreflightOK(row.preview, db.layout = 2) <=> ~LinkInTheWay
               /\ ~LinkInTheWay => (Disposition = "already_completed" <=> FirstPending \notin Units)
    <2>1. ~RecoveryFatal /\ \A u \in Units : ~MoveDrifted(u)
      BY <1>1 DEF RecoveryAccepts, Disposition
    <2>2. ManifestReadable(row.preview, row.manifest)
      BY <2>1 DEF RecoveryFatal
    <2>3. Disposition = "already_completed" <=> RecoveryPending = {}
      BY <2>1 DEF Disposition
    <2>4. ASSUME LinkInTheWay PROVE ~PreflightOK(row.preview, db.layout = 2)
      <3>1. PICK u \in Units, side \in {"src", "dst"} : disk[u][side] = DanglingLink
        BY <2>4 DEF LinkInTheWay
      <3>2. Reachable(u, "src") # Reachable(u, "dst")
        BY <2>1 DEF MoveDrifted
      <3>3. Present(u, "src") /\ Present(u, "dst")
        BY <3>1, <3>2, Numbers DEF Reachable, Present
      <3> QED BY <3>3 DEF PreflightOK
    <2>5. ASSUME ~LinkInTheWay
          PROVE  /\ PreflightOK(row.preview, db.layout = 2)
                 /\ Disposition = "already_completed" <=> FirstPending \notin Units
      <3>1. \A u \in Units : /\ Reachable(u, "src") <=> Present(u, "src")
                             /\ Reachable(u, "dst") <=> Present(u, "dst")
        BY <2>5 DEF LinkInTheWay, Reachable, Present
      <3>2. RecoveryPending = Pending
        BY <3>1 DEF RecoveryPending, Pending
      <3>3. ASSUME NEW u \in Units
            PROVE  /\ Present(u, "src") # Present(u, "dst")
                   /\ Present(u, "src") => db.layout # 2 /\ Verified(u, "src", row.preview)
                   /\ Present(u, "dst") => Verified(u, "dst", row.preview)
                   /\ \A v \in Units : v < u /\ Present(v, "src") => ~Present(u, "dst")
        <4>1. /\ ~MoveDrifted(u)
              /\ (Reachable(u, "src") <=> Present(u, "src"))
              /\ (Reachable(u, "dst") <=> Present(u, "dst"))
          BY <2>1, <3>1
        <4>2. \A v \in Units : v \in RecoveryPending <=> Present(v, "src")
          BY <3>1 DEF RecoveryPending
        <4>3. /\ Reachable(u, "src") # Reachable(u, "dst")
              /\ Reachable(u, "dst") => Verified(u, "dst", row.preview)
              /\ ~Reachable(u, "dst") => Verified(u, "src", row.preview)
              /\ ~(db.layout = 2 /\ Reachable(u, "src"))
              /\ ~(Reachable(u, "dst") /\ \E v \in RecoveryPending : v < u)
          BY <4>1 DEF MoveDrifted
        <4>4. Reachable(u, "src") \in BOOLEAN /\ Reachable(u, "dst") \in BOOLEAN
          BY DEF Reachable
        <4> QED BY <4>1, <4>2, <4>3, <4>4
      <3>4. PreflightOK(row.preview, db.layout = 2)
        BY <3>3 DEF PreflightOK
      <3> QED BY <1>1, <2>3, <3>2, <3>4, FirstPendingIsFirst DEF MigrationInv
    <2> QED BY <2>2, <2>4, <2>5
  <1>2. MigrationInv => RecoveryAgreesWithExecute
    BY <1>1 DEF RecoveryAgreesWithExecute
  <1> QED BY <1>2, MigrationInvariant, PTL

=============================================================================
