----------------------------- MODULE UpdateRun ------------------------------
(***************************************************************************)
(* Update runs of crates/fl-engine/src/pipeline on the save files of one   *)
(* machine: lock, read, validate, fetch, rounds of planning and applying,  *)
(* verify, back up, publish, record.  Several runs, the user's cancel      *)
(* request, crashes, and other programs that write the same files (the     *)
(* game, a file manager) take steps between any two steps of a run.        *)
(*                                                                         *)
(* Bytes are abstracted to identities: a content is one that others wrote  *)
(* (Foreign) or the result of run r, named r; a digest is the content it   *)
(* was taken of.  Paths are resolved paths, and a save is locked by the    *)
(* lock that SaveLock models, here as its promise.                         *)
(***************************************************************************)
EXTENDS Naturals, Sequences

CONSTANTS
    Runs,        \* update runs, each a RunSession or a CLI invocation
    Paths,       \* save files, by resolved path
    Foreign,     \* contents that other programs write
    Absent,      \* no file at a path
    Torn,        \* part of a content: a copy that was cut short
    Never,       \* history: this run has published nothing
    None,        \* no run holds the lock
    Requests,    \* what a run can be asked to do
    MaxRounds,   \* MAX_ROUNDS, 16 in the source
    MaxBackups   \* MAX_BACKUPS, 10 in the source

Content == Foreign \cup Runs
File == Content \cup {Absent}

ASSUME RunAssumption ==
    /\ Absent \notin Content /\ Torn \notin File /\ Never \notin File
    /\ Foreign \cap Runs = {}
    /\ None \notin Runs
    /\ Requests \subseteq [edit : Paths, target : Paths, dry : BOOLEAN]
    /\ MaxRounds \in Nat \ {0}
    /\ MaxBackups \in Nat \ {0}

VARIABLES
    req,       \* the request of each run; never changes
    pc,        \* where each run is in the pipeline
    token,     \* the CancelToken of each run
    lock,      \* the run that holds the SaveLock of each path
    disk,      \* the save files
    seen,      \* digests taken at the start: of the input, of the output
    mem,       \* the bytes of the run's EditFile
    sound,     \* they have no integrity error the input did not have
    round,     \* the current round of planning and applying
    backups,   \* the backups of each target, oldest first
    stateDir,  \* runs that wrote to the state directory
    logged,    \* runs whose records are in the transfer log
    result,    \* how each run ended
    replaced,  \* history: what the run's rename replaced
    raced      \* history: files of the run others wrote after it checked them

asked == <<req, token>>
view == <<seen, mem, round>>
kept == <<backups, stateDir, logged>>
past == <<replaced, raced>>
vars == <<asked, pc, lock, disk, view, sound, kept, result, past>>

-----------------------------------------------------------------------------
Edit(r) == req[r].edit

(* Mutant: a separate output is forgotten.                                 *)
TargetIsInput(r) == req[r].edit

Target(r) == req[r].target
Dry(r) == req[r].dry
InPlace(r) == Edit(r) = Target(r)

Init ==
    /\ req \in [Runs -> Requests]
    /\ token = [r \in Runs |-> "idle"]
    /\ pc = [r \in Runs |-> "start"]
    /\ lock = [p \in Paths |-> None]
    /\ disk \in [Paths -> Foreign \cup {Absent}]
    /\ seen = [r \in Runs |-> [input |-> Absent, output |-> Absent]]
    /\ mem = [r \in Runs |-> Absent]
    /\ sound = [r \in Runs |-> TRUE]
    /\ round = [r \in Runs |-> 1]
    /\ backups = [p \in Paths |-> <<>>]
    /\ stateDir = {}
    /\ logged = {}
    /\ result = [r \in Runs |-> "running"]
    /\ replaced = [r \in Runs |-> Never]
    /\ raced = [r \in Runs |-> {}]

-----------------------------------------------------------------------------
(* CancelToken: a request is accepted until the run has begun to commit.   *)
RequestCancel(r) ==
    /\ pc[r] # "done"
    /\ token[r] = "idle"
    /\ token' = [token EXCEPT ![r] = "requested"]
    /\ UNCHANGED <<req, pc, lock, disk, view, sound, kept, result, past>>

(* The stages that begin with cancel.check.                                *)
Checkpoints == {"start", "decode", "fetch", "plan", "apply", "leagues", "verified"}

At(r, stage) ==
    /\ pc[r] = stage
    /\ stage \in Checkpoints => token[r] # "requested"

Goto(r, stage) == pc' = [pc EXCEPT ![r] = stage]

NothingSeen == [input |-> Absent, output |-> Absent]

(* The run returns, or dies: its memory and its lock are gone, and nobody  *)
(* asks any more which of its checks still hold.                           *)
End(r, outcome) ==
    /\ Goto(r, "done")
    /\ result' = [result EXCEPT ![r] = outcome]
    /\ lock' = [p \in Paths |-> IF lock[p] = r THEN None ELSE lock[p]]
    /\ seen' = [seen EXCEPT ![r] = NothingSeen]
    /\ mem' = [mem EXCEPT ![r] = Absent]
    /\ round' = [round EXCEPT ![r] = 1]
    /\ raced' = [raced EXCEPT ![r] = {}]

(* What happens to a run that goes on.                                     *)
GoOn == UNCHANGED <<lock, view, result, raced>>

Cancelled(r) ==
    /\ pc[r] \in Checkpoints
    /\ token[r] = "requested"
    /\ End(r, "Cancelled")
    /\ UNCHANGED <<asked, disk, sound, kept, replaced>>

(* SaveNotFound, a lock file that cannot be made, InvalidSave, game files  *)
(* that do not fit, a failed fetch or round, an encryption or write error: *)
(* the run stops.  What rollback restores is memory that the run drops.    *)
Fails(r) ==
    /\ pc[r] \in {"start", "read", "readout", "decode", "fetch", "plan", "apply",
                  "leagues", "backup", "rename"}
    /\ At(r, pc[r])
    /\ End(r, "Failed")
    /\ UNCHANGED <<asked, disk, sound, kept, replaced>>

-----------------------------------------------------------------------------
(* Stage 1, prepare: a dry run takes no lock.                              *)
Begin(r) ==
    /\ At(r, "start")
    /\ disk[Edit(r)] # Absent
    /\ Dry(r) \/ lock[Target(r)] = None
    /\ lock' = IF Dry(r) THEN lock ELSE [lock EXCEPT ![Target(r)] = r]
    /\ Goto(r, "read")
    /\ UNCHANGED <<asked, disk, view, sound, kept, result, past>>

Locked(r) ==
    /\ At(r, "start")
    /\ disk[Edit(r)] # Absent
    /\ ~Dry(r) /\ lock[Target(r)] # None
    /\ End(r, "SaveLocked")
    /\ UNCHANGED <<asked, disk, sound, kept, replaced>>

ReadInput(r) ==
    /\ At(r, "read")
    /\ disk[Edit(r)] # Absent
    /\ seen' = [seen EXCEPT ![r] = [input |-> disk[Edit(r)], output |-> disk[Edit(r)]]]
    /\ Goto(r, IF InPlace(r) THEN "decode" ELSE "readout")
    /\ UNCHANGED <<asked, lock, disk, mem, round, sound, kept, result, past>>

ReadOutput(r) ==
    /\ At(r, "readout")
    /\ seen' = [seen EXCEPT ![r].output = disk[Target(r)]]
    /\ Goto(r, "decode")
    /\ UNCHANGED <<asked, lock, disk, mem, round, sound, kept, result, past>>

(* What run r writes in the state directory stays there (that a write may  *)
(* fail, or not be due, leaves less).  It is guarded by nothing: whether a *)
(* preview gets here each place decides for itself.                        *)
Keep(r) == stateDir' = stateDir \cup {r}

(* team_catalog::load: the club list that was downloaded is stored.        *)
StoreClubList(r) == IF Dry(r) THEN UNCHANGED stateDir ELSE Keep(r)

(* Decrypt, load and validate the bytes read, load the game's databases    *)
(* and the club list.                                                      *)
Load(r) ==
    /\ At(r, "decode")
    /\ mem' = [mem EXCEPT ![r] = seen[r].input]
    /\ StoreClubList(r)
    /\ Goto(r, "fetch")
    /\ UNCHANGED <<asked, lock, disk, seen, round, sound, backups, logged,
                   result, past>>

(* Where the caches of the scrape are.                                     *)
CacheDir(r) == IF Dry(r) THEN "scratch" ELSE "state"

(* Stage 2: what the web says is fetched, and cached as it comes in; a     *)
(* scratch directory goes when the fetch returns.                          *)
FetchWeb(r) ==
    /\ At(r, "fetch")
    /\ IF CacheDir(r) = "state" THEN Keep(r) ELSE UNCHANGED stateDir
    /\ Goto(r, "plan")
    /\ GoOn
    /\ UNCHANGED <<asked, disk, sound, backups, logged, replaced>>

(* The club identities learned from the squads fetched are saved.          *)
SaveIdentities(r) == IF Dry(r) THEN UNCHANGED stateDir ELSE Keep(r)

(* Stage 3, in every round: learn club identities, match and plan.         *)
PlanRound(r) ==
    /\ At(r, "plan")
    /\ SaveIdentities(r)
    /\ Goto(r, "apply")
    /\ GoOn
    /\ UNCHANGED <<asked, disk, sound, backups, logged, replaced>>

(* Mutant: the bound is checked one round late.                            *)
LastRoundMissed(r) == round[r] > MaxRounds

LastRound(r) == round[r] = MaxRounds

(* Stage 4: a round that changes the save is followed by another, up to    *)
(* MaxRounds; whether the change adds integrity errors is open.            *)
EffectiveRound(r) ==
    /\ At(r, "apply")
    /\ mem' = [mem EXCEPT ![r] = r]
    /\ \E ok \in BOOLEAN : sound' = [sound EXCEPT ![r] = ok]
    /\ IF LastRound(r)
       THEN Goto(r, "leagues") /\ UNCHANGED round
       ELSE Goto(r, "plan") /\ round' = [round EXCEPT ![r] = @ + 1]
    /\ UNCHANGED <<asked, lock, disk, seen, kept, result, past>>

SettledRound(r) ==
    /\ At(r, "apply")
    /\ Goto(r, "leagues")
    /\ GoOn
    /\ UNCHANGED <<asked, disk, sound, kept, replaced>>

(* Club swaps between divisions, if that part was asked for.               *)
LeagueMoves(r) ==
    /\ At(r, "leagues")
    /\ mem' = [mem EXCEPT ![r] = r]
    /\ \E ok \in BOOLEAN : sound' = [sound EXCEPT ![r] = ok]
    /\ Goto(r, "checkinput")
    /\ UNCHANGED <<asked, lock, disk, seen, round, kept, result, past>>

NoLeagueMoves(r) ==
    /\ At(r, "leagues")
    /\ mem[r] = r
    /\ Goto(r, "checkinput")
    /\ GoOn
    /\ UNCHANGED <<asked, disk, sound, kept, replaced>>

(* The not-applied report; that it could not be written is a warning.      *)
NotAppliedReport(r) == IF Dry(r) THEN UNCHANGED stateDir ELSE Keep(r)

(* A run that changed nothing ends with that report.                       *)
Unchanged(r) ==
    /\ At(r, "leagues")
    /\ mem[r] # r
    /\ NotAppliedReport(r)
    /\ End(r, "NoChanges")
    /\ UNCHANGED <<asked, disk, sound, backups, logged, replaced>>

-----------------------------------------------------------------------------
(* Mutant: every error counts as one the input had.                        *)
NewErrorsMissed(r) == FALSE

NewErrors(r) == ~sound[r]

(* Mutant: an output that appeared counts as unchanged.                    *)
OutputAsReadOrNew(r) == seen[r].output \in {disk[Target(r)], Absent}

InputAsRead(r) == disk[Edit(r)] = seen[r].input
OutputAsRead(r) == disk[Target(r)] = seen[r].output

(* Stage 5, verify: the integrity of the bytes in memory, the input file,  *)
(* then a separate output file.                                            *)
IntegrityFails(r) ==
    /\ pc[r] = "checkinput"
    /\ NewErrors(r)
    /\ End(r, "Failed")
    /\ UNCHANGED <<asked, disk, sound, kept, replaced>>

CheckInput(r) ==
    /\ pc[r] = "checkinput"
    /\ ~NewErrors(r)
    /\ IF InputAsRead(r)
       THEN Goto(r, IF InPlace(r) THEN "verified" ELSE "checkoutput") /\ GoOn
       ELSE End(r, "InputChanged")
    /\ UNCHANGED <<asked, disk, sound, kept, replaced>>

CheckOutput(r) ==
    /\ pc[r] = "checkoutput"
    /\ IF OutputAsRead(r)
       THEN Goto(r, "verified") /\ GoOn
       ELSE End(r, "InputChanged")
    /\ UNCHANGED <<asked, disk, sound, kept, replaced>>

(* A preview returns here, before anything is published: what follows does *)
(* not ask again.                                                          *)
Preview(r) ==
    /\ At(r, "verified")
    /\ Dry(r)
    /\ End(r, "Preview")
    /\ UNCHANGED <<asked, disk, sound, kept, replaced>>

-----------------------------------------------------------------------------
(* Mutant: that begin_commit was refused is not looked at.                 *)
FreezeAnyway(r) == TRUE

(* CancelToken::begin_commit: a request that came first wins.              *)
CanFreeze(r) == token[r] # "requested"

(* Stage 6, commit: from here on a cancel request has no effect.           *)
BeginCommit(r) ==
    /\ pc[r] = "verified"
    /\ ~Dry(r)
    /\ CanFreeze(r)
    /\ token' = [token EXCEPT ![r] = IF @ = "idle" THEN "committing" ELSE @]
    /\ Goto(r, "backup")
    /\ GoOn
    /\ UNCHANGED <<req, disk, sound, kept, replaced>>

BackupSource(r) ==
    IF ~InPlace(r) /\ seen[r].output # Absent THEN Target(r) ELSE Edit(r)

AddBackup(p, c) == backups' = [backups EXCEPT ![p] = Append(@, c)]

CopyBackup(r) ==
    /\ pc[r] = "backup"
    /\ disk[BackupSource(r)] # Absent
    /\ AddBackup(Target(r), disk[BackupSource(r)])
    /\ Keep(r)
    /\ Goto(r, "compare")
    /\ GoOn
    /\ UNCHANGED <<asked, disk, sound, logged, replaced>>

(* fs::copy stops part way: what it wrote stays in the directory.          *)
CopyBackupFails(r) ==
    /\ pc[r] = "backup"
    /\ AddBackup(Target(r), Torn)
    /\ Keep(r)
    /\ End(r, "Failed")
    /\ UNCHANGED <<asked, disk, sound, logged, replaced>>

Newest(s) == s[Len(s)]
WithoutNewest(s) == SubSeq(s, 1, Len(s) - 1)

(* Mutant: sorted the other way round.                                     *)
PruneNewest(s) == IF Len(s) > MaxBackups THEN SubSeq(s, 1, MaxBackups) ELSE s

(* All but the newest MaxBackups go, never the one just made.  (Saves have *)
(* one file name, so a directory's copies share it, and clocks go on.)     *)
Prune(s) == IF Len(s) > MaxBackups
            THEN SubSeq(s, Len(s) - MaxBackups + 1, Len(s))
            ELSE s

(* Source and copy are read again; a copy that differs is removed, one     *)
(* whose source cannot be read any more stays.                             *)
CompareBackup(r) ==
    LET copies == backups[Target(r)]
        source == disk[BackupSource(r)] IN
    /\ pc[r] = "compare"
    /\ IF source = Newest(copies)
       THEN /\ backups' = [backups EXCEPT ![Target(r)] = Prune(copies)]
            /\ Goto(r, "rename")
            /\ GoOn
       ELSE /\ backups' = [backups EXCEPT ![Target(r)] =
                   IF source = Absent THEN copies ELSE WithoutNewest(copies)]
            /\ End(r, "Failed")
    /\ UNCHANGED <<asked, disk, sound, stateDir, logged, replaced>>

AfterInput == {"checkoutput", "verified", "backup", "compare", "rename"}
AfterOutput == {"verified", "backup", "compare", "rename"}

(* History: what a write of path p by another does to the checks that run  *)
(* r has made.                                                             *)
Outdates(p, r) ==
    (IF \/ p = Edit(r) /\ pc[r] \in AfterInput
        \/ p = Target(r) /\ pc[r] \in AfterOutput
     THEN {"checked"} ELSE {})
    \cup (IF p = BackupSource(r) /\ pc[r] = "rename" THEN {"backedup"} ELSE {})

(* encrypt_to_file: the bytes go to a temporary sibling, which is renamed  *)
(* over the target.                                                        *)
Rename(r) ==
    /\ pc[r] = "rename"
    /\ disk' = [disk EXCEPT ![Target(r)] = mem[r]]
    /\ replaced' = [replaced EXCEPT ![r] = disk[Target(r)]]
    /\ raced' = [s \in Runs |->
                   IF s = r THEN raced[s] ELSE raced[s] \cup Outdates(Target(r), s)]
    /\ Goto(r, "log")
    /\ UNCHANGED <<asked, lock, view, sound, kept, result>>

(* publish_records: a failure is a warning.                                *)
AppendLog(r) ==
    /\ pc[r] = "log"
    /\ \/ logged' = logged \cup {r} /\ Keep(r)
       \/ UNCHANGED <<logged, stateDir>>
    /\ Goto(r, "report")
    /\ GoOn
    /\ UNCHANGED <<asked, disk, sound, backups, replaced>>

WriteReports(r) ==
    /\ pc[r] = "report"
    /\ Keep(r)
    /\ End(r, "Updated")
    /\ UNCHANGED <<asked, disk, sound, backups, logged, replaced>>

-----------------------------------------------------------------------------
(* The process dies: the system gives up its lock.                         *)
Crash(r) ==
    /\ pc[r] \notin {"start", "done"}
    /\ End(r, "crashed")
    /\ \/ UNCHANGED backups
       \/ pc[r] = "backup" /\ AddBackup(Target(r), Torn)
    /\ UNCHANGED <<asked, disk, sound, stateDir, logged, replaced>>

(* The game saves, or someone copies, restores or deletes the file.        *)
OthersWrite(p) ==
    /\ \E c \in (Foreign \cup {Absent}) \ {disk[p]} : disk' = [disk EXCEPT ![p] = c]
    /\ raced' = [r \in Runs |-> raced[r] \cup Outdates(p, r)]
    /\ UNCHANGED <<asked, pc, lock, view, sound, kept, result, replaced>>

RunStep(r) ==
    \/ Cancelled(r) \/ Fails(r)
    \/ Begin(r) \/ Locked(r) \/ ReadInput(r) \/ ReadOutput(r) \/ Load(r)
    \/ FetchWeb(r) \/ PlanRound(r) \/ EffectiveRound(r) \/ SettledRound(r)
    \/ LeagueMoves(r) \/ NoLeagueMoves(r) \/ Unchanged(r)
    \/ IntegrityFails(r) \/ CheckInput(r) \/ CheckOutput(r) \/ Preview(r)
    \/ BeginCommit(r) \/ CopyBackup(r) \/ CopyBackupFails(r) \/ CompareBackup(r)
    \/ Rename(r) \/ AppendLog(r) \/ WriteReports(r)

Next ==
    \/ \E r \in Runs : RunStep(r) \/ RequestCancel(r) \/ Crash(r)
    \/ \E p \in Paths : OthersWrite(p)

Spec == Init /\ [][Next]_vars

-----------------------------------------------------------------------------
Stages == {"start", "read", "readout", "decode", "fetch", "plan", "apply",
           "leagues", "checkinput", "checkoutput", "verified",
           "backup", "compare", "rename", "log", "report", "done"}

Results == {"running", "Cancelled", "Failed", "SaveLocked", "InputChanged",
            "NoChanges", "Preview", "Updated", "crashed"}

TypeOK ==
    /\ req \in [Runs -> Requests]
    /\ token \in [Runs -> {"idle", "requested", "committing"}]
    /\ pc \in [Runs -> Stages]
    /\ lock \in [Paths -> Runs \cup {None}]
    /\ disk \in [Paths -> File]
    /\ seen \in [Runs -> [input : File, output : File]]
    /\ mem \in [Runs -> File]
    /\ sound \in [Runs -> BOOLEAN]
    /\ round \in [Runs -> 1 .. MaxRounds]
    /\ backups \in [Paths -> Seq(File \cup {Torn})]
    /\ stateDir \subseteq Runs
    /\ logged \subseteq Runs
    /\ result \in [Runs -> Results]
    /\ replaced \in [Runs -> File \cup {Never}]
    /\ raced \in [Runs -> SUBSET {"checked", "backedup"}]

Published(r) == replaced[r] # Never

Frozen == {"backup", "compare", "rename", "log", "report"}
Verified == {"checkoutput", "verified"} \cup Frozen

(* What is true of a run at each stage, and makes the properties below     *)
(* hold at the next.                                                       *)
StageFacts(r) ==
    /\ pc[r] # "done" => result[r] = "running"
    /\ pc[r] \in {"checkinput"} \cup Verified => mem[r] = r
    /\ pc[r] \in Verified => sound[r]
    /\ pc[r] \in Frozen => token[r] = "committing" /\ ~Dry(r)
    /\ pc[r] \in {"log", "report"} => Published(r)

(* What a run that has replaced a file has gone through.                   *)
PublishedFacts(r) ==
    Published(r) =>
        /\ token[r] = "committing" /\ ~Dry(r) /\ sound[r]
        /\ \/ pc[r] \in {"log", "report"}
           \/ pc[r] = "done" /\ result[r] \in {"Updated", "crashed"}

(* Only a run that has replaced a file is in a file or in the log.         *)
TraceFacts(r) ==
    /\ r \in logged => Published(r)
    /\ \A p \in Paths : disk[p] = r => Published(r) /\ p = Target(r)
    /\ Dry(r) => r \notin stateDir /\ \A p \in Paths : lock[p] # r

(* From its first step to its last a run that writes holds the lock of its *)
(* target, so that no other run touches the backups made for it.           *)
LockFacts(r) ==
    pc[r] \notin {"start", "done"} /\ ~Dry(r) => lock[Target(r)] = r

(* From each check to the rename the files are as they were read, unless   *)
(* others wrote them after the check.                                      *)
CheckFacts(r) ==
    /\ pc[r] = "readout" => ~InPlace(r)
    /\ InPlace(r) => seen[r].output = seen[r].input
    /\ "checked" \notin raced[r] =>
           /\ pc[r] \in AfterInput => disk[Edit(r)] = seen[r].input
           /\ pc[r] \in AfterOutput => disk[Target(r)] = seen[r].output

(* What the newest backup is from its copying to the end of the run.       *)
BackupFacts(r) ==
    LET copies == backups[Target(r)]
        backedUp == "backedup" \notin raced[r] IN
    /\ pc[r] \in {"compare", "rename", "log", "report"} => copies # <<>>
    /\ pc[r] \in {"rename", "log", "report"} => Len(copies) <= MaxBackups
    /\ pc[r] = "rename" /\ backedUp => Newest(copies) = disk[BackupSource(r)]
    /\ pc[r] \in {"log", "report"} /\ backedUp /\ seen[r].output # Absent
           => Newest(copies) = replaced[r]

(* The type invariant, and the strengthening the proofs use.               *)
IInv ==
    /\ TypeOK
    /\ \A r \in Runs : StageFacts(r) /\ PublishedFacts(r) /\ TraceFacts(r)
    /\ \A r \in Runs : LockFacts(r) /\ CheckFacts(r) /\ BackupFacts(r)

(* "A cancel request raced the commit: it wins, nothing is written yet"    *)
(* (commit.rs:46) and "Nothing was written when this returns Err"          *)
(* (commit.rs:36): a run that accepted a cancel request, or that reported  *)
(* an error, has changed no save file and no record says that it did.      *)
StoppedRunsWriteNothing ==
    \A r \in Runs :
        \/ token[r] = "requested"
        \/ result[r] \in {"Cancelled", "Failed", "SaveLocked", "InputChanged"}
        => /\ ~Published(r)
           /\ r \notin logged
           /\ \A p \in Paths : disk[p] # r

(* "Your save is checked before and after every update. If anything looks  *)
(* wrong, nothing is written" (README.md:107): a result that is on disk    *)
(* has no integrity error its input did not have, it is where the request  *)
(* put it, and the request was no preview.                                 *)
OnlySoundResultsOnDisk ==
    \A r \in Runs, p \in Paths :
        disk[p] = r => sound[r] /\ p = Target(r) /\ ~Dry(r)

(* "Timestamped backups of the save a run is about to overwrite"           *)
(* (backup.rs:1): while a run that has replaced a file still holds its     *)
(* lock, the newest backup is, byte for byte, what it replaced, and it is  *)
(* among at most MaxBackups, unless another program wrote the file after   *)
(* the backup was compared.                                                *)
ReplacedIsBackedUp ==
    \A r \in Runs :
        LET copies == backups[Target(r)] IN
        /\ pc[r] \in {"log", "report"}
        /\ "backedup" \notin raced[r]
        /\ seen[r].output # Absent
        => /\ copies # <<>>
           /\ Newest(copies) = replaced[r]
           /\ Len(copies) <= MaxBackups

Publishes(r) == ~Published(r) /\ Published(r)'

FilesAsRead(r) ==
    /\ disk[Edit(r)] = seen[r].input
    /\ disk[Target(r)] = seen[r].output

(* "The input must be byte-identical to what the run read; the output must *)
(* not have appeared, vanished or changed (a concurrent writer wins)"      *)
(* (verify.rs:128): when a run replaces the file, both files are as it     *)
(* read them, unless others wrote between its last check and the rename.   *)
OnlyLateWritersLose ==
    [][\A r \in Runs :
        Publishes(r) /\ "checked" \notin raced[r] => FilesAsRead(r)]_vars

Moves(r) == pc[r] # pc'[r]

(* "Plan and report without writing anything (no save, log, cache,        *)
(* backup)" (api.rs:34), "it neither needs the lock nor may leave a lock   *)
(* file or directories behind" (prepare.rs:131): no step of a preview,     *)
(* from the first to the one that ends it by result, error, cancel or      *)
(* death, changes a save file, a lock, a backup, the state directory or    *)
(* the log, though the stages of the commit ask nothing.                   *)
PreviewsLeaveNoTrace ==
    [][\A r \in Runs : Dry(r) /\ Moves(r) => UNCHANGED <<disk, lock, kept>>]_vars

-----------------------------------------------------------------------------
(* The run implements what it promises.                                    *)
Status(r) ==
    CASE Published(r) -> "published"
      [] ~Published(r) /\ pc[r] = "done" -> "ended"
      [] ~Published(r) /\ pc[r] # "done" /\ token[r] = "requested" -> "cancelled"
      [] OTHER -> "open"

Promise == INSTANCE SaveUpdate WITH status <- [r \in Runs |-> Status(r)]

(* Every step of a run is a step of SaveUpdate or invisible to it.         *)
KeepsPromise == Promise!Spec
=============================================================================
