# FL Daily Edit in TLA+

FL Daily Edit brings a football game's save file up to date: it reads the
encrypted save, fetches transfers, shirt numbers, captains, tactics and league
tables from the web, plans and applies changes, checks the result, makes a
backup and replaces the file. It is a desktop app (egui) and a command line
program in Rust, six crates under `src/crates`; paths below are relative to
`src/crates` unless they begin with `src/`.

This directory holds TLA+ modules of the parts where order, concurrency,
failure and history decide whether a save survives, the TLC configurations
that check them on small instances, and TLAPS proofs of their main invariants.

Contents: [1 The system](#1-the-system) · [2 Modules](#2-modules) ·
[3 Runs](#3-runs) · [4 Proofs](#4-proofs) · [5 Disagreements
found](#5-disagreements-found) · [6 Not modelled](#6-not-modelled) ·
[7 Plan](#7-plan)

## 1 The system

### Parts that keep state or run beside others

| Part | Code | State | Operations | What makes it correct |
|---|---|---|---|---|
| Per-save lock | `fl-engine/src/lock.rs` | a hidden sibling file, an advisory lock on it | acquire, drop | two updates of one save exclude each other, whatever is created, removed, or dies in between |
| Update pipeline | `fl-engine/src/pipeline/` | bytes read, digests, the edited save, the round, the cancel token | prepare, fetch, plan and apply in rounds, leagues, verify, commit | a run that stops leaves no trace in the save; a result is sound; a file changed meanwhile is not overwritten; previews write nothing |
| Backups, atomic writes | `fl-engine/src/backup.rs`, `fl-fs/src/lib.rs` | backup directory, temporary siblings | copy, compare, prune; write and rename | the newest backup is what was replaced |
| Transfer window and history | `pipeline/window.rs`, `planning/skipped.rs`, `log.rs`, `report.rs` | transfer log, skipped-transfer file | resolve the window, append, rewrite rows | no transfer falls between two runs |
| Executable swap | `fl-update/src/replace.rs`, `update.rs` | the executable, `.old`, `.new` | copy, two renames, roll back, clean up at launch | the last complete executable is never lost |
| App window | `fl-app/src/gui/mod.rs`, `session.rs`, `selfupdate.rs` | run, token, self-update state, close flags | frames; workers answer through channels | no answer is lost, no window closes under a commit, and it does close |
| Roster and lineups | `fl-save/src/roster/` | team rosters, shirts, game plans, the session's transfers | move, add, release, shirt numbers, repair, starters | a player has one club, slots are compact, shirts are unique, an error changes nothing |
| Planning a round | `fl-engine/src/planning/` | simulated roster, history of earlier rounds | match, decide, order actions | the plan can be applied to the save as planned; rounds converge |
| HTTP client | `fl-sources/src/http.rs` | cancel flag and its waiters, host permits, back-off | execute, sleep, cancel | every request ends; a cancel is noticed; no permit leaks |
| Provider caches | `fl-sources/src/fotmob/cache.rs`, `fl-engine/src/club_identity.rs` | documents with dates and validators | load, update, touch, save | stale data is not used as fresh, a failure does not replace good data |
| App: probe and detection | `fl-app/src/gui/mod.rs`, `setup.rs` | chosen folders, a generation of probes | choose, probe, detect | an old answer does not overwrite a newer choice |
| App: its own update | `fl-update/src/` | releases, the staging directory | release, check, download, stage | what is installed is what was released, and newer |
| Providers | `fl-sources/src/*.rs`, one file each | pages, readers, searches and queries of a scan | ask, read, go on or stop | a scan hands on what the site shows, once, and all of it |
| Tactics | `fl-sources/src/tactics.rs` | a file of league statistics | read leagues and metrics, decide settings | settings come from one recent, whole table |
| Clubs' identities | `fl-engine/src/club_identity.rs` | an index of FotMob teams and clubs, a cache file per state directory | build, learn, save | two clubs are never one team; what squads taught is kept |
| Reconciliation | `fl-sources/src/reconcile.rs`, `model.rs` | batches of events, one per provider | merge, aliases, routes, agreeing providers | nothing is invented, a verified move is not lost |
| Leagues | `pipeline/leagues.rs`, `fl-save/src/league.rs` | the league lists of the save | ask, resolve, swap | clubs move only to the division of their league |

Sequential parts: save format and encryption (`fl-save/src/edit_file.rs`,
`crypto/`), game archives (`cpk/`, `native/`), decoding of the providers'
documents, similarity of names (`fl-text`), catalog, ratings, release policy,
settings, command line, drawing of screens. `PROJECT.json` lists all of them
with the state of their model.

### How they interact

The app's window (or the command line) builds a request and starts a worker
thread with a `RunSession`: one `CancelToken` shared with the UI, one channel
back. The worker runs the pipeline, which takes the save lock, reads and
decrypts the save, asks the history where its window begins, fetches through
the HTTP client and its caches, plans against a simulated roster, applies to
the save in memory, repeats until nothing changes, verifies, and commits:
backup, rename, log, reports. The token is the only thing that flows back into
a run; it is refused once the commit has begun. Files are the only thing
shared between processes: the save, its lock file, the backup and state
directories, and the executable with its two siblings.

### What is hard

* other programs (the game, a file manager, a second run) write the save
  between any two steps of a run;
* a cancel request or a close request races the beginning of a commit;
* a process is closed or dies between two file operations;
* the meaning of a run depends on records of earlier runs, some partial, some
  cut short;
* the UI acts only in frames: an answer that nobody wakes it for stays unseen.

`PROJECT.json` "hazards" lists each of these at the line where it bites, with
the property that would catch it, or why there is none yet.

## 2 Modules

### SaveLock, with MCSaveLock and SaveLockProofs

`SaveLock` follows `SaveLock::acquire` and `Drop` one system call at a time:
open or create, `try_lock`, write the pid; on Unix remove the name and then
close, elsewhere close and then remove. A *name* (`entry`) and the *file* it
refers to (`Inodes`) are different things, since a process can hold and lock
a file whose name is gone. Every attempt may die at any step.

External: `try_lock` never waits, closing releases, and what `remove_file` does
to a file that is open, which is what the two orders are about. `system` chooses
among four: `"unix"` takes the name at once; so do current Windows systems
(`"unlinks"`), as std opens files with a sharing mode that lets others delete
them; older ones mark the file and delete it with its last handle (`"pends"`);
and one that refuses (`"keeps"`) is what "Elsewhere an open file cannot be
removed" (`lock.rs:75`) supposes. `overtaken` is history: the attempts whose
open file lost its name to the drop of another.

### UpdateRun and SaveUpdate, with MCUpdateRun and UpdateRunProofs

`UpdateRun` is the pipeline. `pc` names the stages; an action is a stage, or a
file operation of one.

| Actions | Code |
|---|---|
| `Begin`, `Locked`, `ReadInput`, `ReadOutput`, `Load` | stage 1 (`prepare.rs`, `context.rs`) |
| `FetchWeb` | stage 2, `Run::fetch` |
| `PlanRound`, `EffectiveRound`, `SettledRound`, `LastRound` | stages 3 and 4, the loop of `pipeline/mod.rs` |
| `LeagueMoves`, `NoLeagueMoves`, `Unchanged` | `leagues.rs` and the run without changes |
| `IntegrityFails`, `CheckInput`, `CheckOutput`, `Preview` | stage 5, `verify.rs` |
| `BeginCommit`, `CopyBackup`, `CompareBackup`, `Prune`, `Rename`, `AppendLog`, `WriteReports` | stage 6, `commit.rs`, `backup.rs`, `fl-fs` |
| `Cancelled`, `Fails`, `Crash`, `RequestCancel` | the error paths, `CancelToken` |
| `OthersWrite` | any other program |

Bytes are identities: a content that others wrote (`Foreign`), or the result
of run `r`, named `r`. What a round plans is a free choice with two
consequences that the later stages look at: whether it changed anything and
whether the change adds integrity errors (`sound`). The lock is atomic here,
which is what it promises; `SaveLock` says when it does not keep this.

That a preview writes nothing is not one decision of the code but six, each its
own definition or guard here: it takes no lock (`Begin`, `prepare.rs:133`), does
not store the club list (`StoreClubList`, `team_catalog.rs:124`), caches in a
scratch directory (`CacheDir`, `mod.rs:480`), does not save the identities of any
round (`SaveIdentities`, `mod.rs:603`) or a not-applied report
(`NotAppliedReport`, `mod.rs:395`), and returns before the commit (`Preview`,
`mod.rs:316`), whose actions write without asking. Forgetting any one of them
breaks `PreviewsLeaveNoTrace`.

`replaced` and `raced` are history variables: what a run's rename replaced,
and which of its files others wrote after it had checked them. No action
reads them in a guard.

`SaveUpdate` is the promise in five actions: accept a cancel, publish, stop,
and others write. A run replaces the file it was asked to write at most once
and as a whole, never after an accepted cancel, never as a preview, and no
other file. `Promise == INSTANCE SaveUpdate WITH status <- ...` in `UpdateRun`
is the refinement mapping: published once the rename has happened, ended when
the run is done without it, cancelled while an accepted request is pending.

### WindowHistory, with MCWindowHistory and WindowHistoryProofs

The automatic window of each run begins where the log and the skipped rows of
earlier runs say. `WindowHistory` keeps of the log the day of its latest record
that counts (`window::applied_times`), of the skipped file the events worth
another try, and lets runs of every kind (automatic, `--since`, `--window`,
`--club`, with and without transfers, in place or not) decide freely about
each event they are shown. `SaveSince` is `window::save_since_date`. A
run's steps are publish, log, reports, with a failure, a crash or midnight in
between. An append that is cut short leaves a `tail`: part of a line, or a line
without its end, which the next append (of any save: the log is common) joins
to its own first record, so that neither is read (`log.rs:185-235`). A run to
another file does not ask the history where to begin, and what it reads has
dealt with anything (`Known`). Any event may be missed by any run: a supplemental
source that does not answer is a warning and an empty batch (`scrape.rs:145`),
and the run goes on without its events. `dealt`, `owed`, `hidden` (the listed
events the last run that looked was not shown), `slip` and `gaps` are history
variables.

### ExeSwap, with MCExeSwap and AppProofs

`replace_current_exe` on Windows: remove stale `.old` and `.new`, copy, flush,
move the executable aside, move the new one in, roll back if that fails. Any
number of instances of the app do this at once, each with its launch-time
clean-up on a thread of its own, and each may be closed at any step. A file
that is executing can be renamed but neither removed nor replaced
(`replace.rs:3-5`), and a file that is being written is opened by nobody else.

### Setup, AppUpdate and AppSession, with MCAppSession, AppProofs and FoldInduction

`Setup` is the setup screen: the choices, the verdicts of their checks, the
generation that tells which probe's answer is still wanted, the probe threads,
the thread that looks for saves and a game folder, and the channel both answer
in. A path stands for what a probe finds there.

`AppUpdate` is the app's own update and the release that it finds: a release is
drafted, signed and published in steps (`release.rs`), the worker asks for the
manifest and, in a second request, for its signature, then reads the executable
of the release the manifest names chunk by chunk up to its size, compares size
and digest, and stages or discards it. A manifest has its version, size and
digest as fields; an answer may be damaged.

`AppSession` extends both with the window's frame in three steps (`Logic` answers
the close button, `Poll` takes the workers' answers, `Act` draws and carries
out one click), the screens, the save update's worker, the self-update's
worker, and the wake-ups between them. A run takes its request from the setup
screen, or from the preview whose result is shown.
External, as used by the code: `request_repaint` is worth two frames,
`request_repaint_after` one; the Close command comes back as the next frame's
close request; a frame with a close request nobody cancelled ends the process;
a widget can be clicked once a frame has drawn it.

### Roster and RosterOps, with MCRosterOps, RosterOpsProofs and FoldInduction

`Roster` has the pure operators on one club and on a save: slots, lineups,
captains, shirts, moves, additions, releases, overflow, and the repairs of game
plans, as `fl-save/src/roster/` computes them from one byte array after another.
Functions that iterate over a hash map or solve an assignment give the *set* of
results the code may return. `RosterOps` applies any of the operations in any
order, with every casualty the code allows. A session begins with any save
that passes the integrity check's rules on rosters (`validate.rs:486-516`) and
has nobody at two clubs (`SavesAssumption`); number 0 is no number, and several
players may have none.

`PosOf` is the registered position: the native record's, the catalog's for a
player without a record (`Native` has those whose record names one). A signing
goes by `Effective` until the operation ends: the native position, then the feed's
label, even when it names none or another than the catalog's, then the
catalog's (`ops.rs:437-461`, `620-637`). `signing` is a history variable with the
player the last step signed and that position; nothing reads it but
`LineupsStaySound`. In `Round` the label is the event's position (`apply.rs:308`,
`325`); one the planner cannot read may be an empty label or a meaningless one.

### PlayerNames, ClubNames, LiveSquads, Matching, Planner and Round, with MCRound

`PlayerNames` finds the player a name means (`matcher/player.rs`): exact names
narrowed by position, nation and age, then similar ones, whose score has a bonus
for what agrees and which win only by a margin. `ClubNames` finds the club of a
name or id: identity index, team matcher, agreement of both
(`matcher/team.rs`, `planning/teams.rs`). `LiveSquads` identifies the members of
the squads that FotMob lists (`planning/identity.rs`) and drops those that two
squads or two members claim. How similar two strings are is an input (`Alike`,
`ClubAlike`); all that is made of it is computed.

`Matching` turns the events of a feed, the live squads and the log into
matched items in order (`planning/matching.rs`, `snapshots.rs`,
`history.rs`, `shirts.rs`). `Planner` decides each item against a simulated
roster (`roster_actions.rs`, `roster_sim.rs`). `Round` runs plan, apply, shirts,
repair, captains and formations, as far as the run was asked for these parts of
the save (`UpdateParts`), round after round until one changes nothing,
and then the integrity check's rules on rosters and game plans (`validate.rs`).
`Roster` is the save both sides speak of, so that what was planned on the
simulation is applied with the save's own rules.

### TeamCache, Listings, Scans, Tactics, Reconcile and Fetch, with ScanPromises, MCFetch, FetchProofs and FoldInduction

`Fetch` is the fetch stage: the order of the providers, one request at a time
or several club pages at once; a request tries, waits for a permit, is sent,
backs off or cools down, and ends; `CancelToken` is a flag and its waiters,
in two steps. `TeamCache` is the cache of club pages: what is fresh, what is
revalidated, what a failed refresh leaves; `Fetch` keeps when each document
of a club went live. `Reconcile` is the pure half: what
the batches of all providers become.

`Scans` reads a provider one request at a time: pages until one is empty, seen
before or too old; readers and a mirror tried in turn; searches and feeds of
several clubs at once; queries that say where to go on; chunks of titles and
the names their codes stand for. A request may come to nothing at any step,
which for most is an answer like another: what was collected stays. `Listings`
turns the rows of an answer into transfers as each adapter does: which rows
count, what a heading or a spanning cell lends to the rows below, which name
stands for which club. Rows are records of what the cells read; how Markdown,
HTML, JSON and wikitext become cells is left out. `Tactics` derives settings of
a game plan from the statistics of a league (quartiles, a slider, shares of the
passes, teams with few matches left out) and keeps the tables in a file.
`ScanPromises` says, of a whole site, what a scan of it should hand on.

As the code does it: a cancelled request of Sofascore or Soccerway counts as a
failed one and the scrape ends only with the check before the next provider; an
optional provider gets one attempt per request, Wikipedia's interface up to
`ApiAttempts`, FotMob `Attempts`. Concurrent requests of Soccerway and of the
leagues are single requests in any order; `missed` in a scan is a history
variable, read by properties only.

### ClubIdentity and Leagues, with MCLeagues, LeaguesProofs and FoldInduction

`ClubIdentity` is the index that says which FotMob team a club of the save is:
built from names in tiers, from a cache of earlier runs and from a table of old
ids, and corrected by the squads a run sees (`club_identity.rs`). In `Leagues` a
run opens the index, learns from squads, writes the cache, and then asks for
leagues; another run, or damage, may change the cache file in between.

The league step of a run is one action, a season that passes another. What a run is
told is an input: clubs that do not answer or are listed under a cup, tables
that do not load. A club's league is a slot in the real world that two clubs
exchange, so that leagues keep their size; some come from a league the save has
no division for.

### Composition

`UpdateRun` takes `SaveLock`'s exclusion as one atomic step; `WindowHistory`
takes `UpdateRun`'s stages publish, log, report with their failures and
crashes; `AppSession` takes `UpdateRun`'s token (idle, requested, committing)
and its end; `ExeSwap`'s `Exit` at any step is what `AppSession` allows, whose
window waits for a save update and not for a self-update. `Round` is what
`UpdateRun` leaves free in `EffectiveRound` and `SettledRound`, and `Leagues`
what it leaves free in `LeagueMoves`; `Fetch` is its `Load`, whose cancel and
failure it has as `Cancelled` and `Fails`.

## 3 Runs

Times are with two workers.

| Run | Instance | Shows |
|---|---|---|
| `save_lock` | 4 attempts, 5 files, 4 kinds of system | what is left of exclusion, and all of it where open files keep their names |
| `save_lock_unix` | 3 attempts, Unix | violation of `MutualExclusion` (section 5) |
| `update_run` | 2 runs, 2 saves, 2 foreign contents, 3 kinds of request, 2 rounds, 1 backup; 2.4 million states, 2¼ minutes | the safety properties below, and the refinement |
| `window_history` | 2 events, 4 days, season of 2, margin 1; 9.4 million states, 1¾ minutes | the window's properties |
| `window_history_crash` | the same | violation of `NeverLaterThanRetryable` |
| `exe_swap` | 3 instances, 3 copies; 1.9 million states, half a minute | the swap's properties |
| `exe_swap_torn` | 2 instances, 2 copies | violation of `InstalledIsWhole` |
| `app_session` | 2 save updates, 2 pending wake-ups, 2 saves and a game folder, 2 changes of mind, 2 releases of 3 sizes | the properties of window, setup screen and self-update, with liveness |
| `roster_ops` | 2 clubs of 5 slots with a starting XI of 3, 9 players, labels that agree with the catalog, contradict it or name nothing, 3 operations; 132 thousand states, 2 minutes | rosters, lineups, captains and goalkeepers stay consistent |
| `round` | 8 choices of parts, 3 clubs of 4 slots, feeds of up to 2 of 20 events or 3 of 8, namesakes, nicknames and second teams, 4 sets of live squads, 2 logs; 6 rounds | the rounds come to rest in order and are accepted |
| `fetch` | 2 clubs over one cache in 2 scrapes, one with 3 documents; a league's statistics in 2 scrapes over 2 days; 3 scrapes of all providers with sites of up to 3 pages that agree, contradict and mislead; 314 thousand states, 2 minutes | the fetch stage's properties, with liveness |
| `leagues` | 3 divisions of 5 clubs, one of 3, a club from outside, kindred teams and 4 squads; 1 season, 1 fault | clubs are bound as seen, the swaps are right and are made |

Every property of a passing run has a mutant in `PROJECT.json`: a definition
next to the original, marked "Mutant" and used nowhere, that changes it as a
plausible bug would, under which TLC finds the property violated.

### The properties

*SaveLock.* `ExclusiveUnlessOvertaken`: two guards of one save exist together only
if the file of one lost its name to the drop of a third while it was open, so
that no crash, failure or refused attempt breaks the lock; where open files keep
their names, two guards never exist together (`MutualExclusion`).

*UpdateRun.* `StoppedRunsWriteNothing`: a run that accepted a cancel, failed,
was refused the lock or met a changed file has replaced nothing and logged
nothing. `OnlySoundResultsOnDisk`: a result on disk has no new integrity
error, is at the requested target, and is no preview's.
`PreviewsLeaveNoTrace`: no step of a preview, whatever it ends by, changes a save
file, a lock, a backup, the state directory or the log. `ReplacedIsBackedUp`: when a run has replaced an
existing file, the newest backup is what it replaced, unless it was written
after the backup was compared. `OnlyLateWritersLose`: the only writes of
others that a run overwrites unseen are those after its last check.
`KeepsPromise`: the refinement. `IInv`: the inductive strengthening.

*WindowHistory.* `PicksUpWhereItStopped`: an event that is due, was listed
within the safety margin, has not been dealt with, and was not hidden by a
source that did not answer the last run that looked, is inside the next
automatic window, as long as all runs were full runs that wrote their rows;
records that are lost with a torn line never move the window forward. Runs to
another file that check no transfers, or change nothing and only rewrite that
file's rows (`pipeline/mod.rs:401`), are not full runs: TLC shows that after
them an event can fall behind.
`NeverLaterIfReported`: what the previous run left for a retry is inside the
next window.

*ExeSwap.* `RecoverableExe`: a complete executable is at the app's path or at
`.old`, always. `SwapAlone`: one instance at most is between the two renames
and its own image is at `.old`. `RollbackRestores`: a roll-back that puts
anything back puts back the running executable.

*AppSession.* `CommitOutlivesNoWindow`: the process never goes away under a
commit. `InStep`: a run and a self-update have one worker each and answers
reach the state that asked. `ClosesByItself`: once it was decided to close
when idle, the window closes with no further input. `RunsAreReported`: every
run ends on the screen or with the window. `ChecksAreCurrent`: the verdict on
the screen is one of the choices on the screen, and what a run starts on was
checked. `InstallsWhatWasReleased`: what is installed is the executable of a
published release, whole and newer than the one that runs, whichever release
was published between two requests. `ChecksEnd`: "Checking" ends by itself. (Not promised, as the code
does it: a choice that turns out invalid while the detection is still at work
is replaced by the save found, also if the user has just made it; whether a
remembered save that is gone is replaced depends on which answer comes first.)

*RosterOps.* `RostersSound`: one club per player, no gaps, one player per
shirt number, other than 0. `LineupsStaySound`: an operation that finds a standard lineup leaves
one, and of those that change a club's roster or lineup none ends with a known
outfield player in goal while the club has a goalkeeper. Who is one is judged by
the position a signing goes by and the registered one of the others: a feed that
calls a catalog's goalkeeper a forward keeps him out of the goal, and one that
calls a forward a goalkeeper puts him there, until the next change goes by the
catalog. `PartsFollowPlayers`: the armband stays with its player through
renumbered slots, and an outfield starter who stays keeps his role when others
come and go, except the last one of a squad without a bench.
`RepairSettles`: a plan that is in order after one repair is not changed by the
next.

*Round.* `AcceptedAsMade`: what the planner lets through, the save's rules and
the integrity check accept, unless the save refused to give away a last
goalkeeper (a rule the planner does not know; then a club may be left too small
and the run is rejected as a whole, `roster_actions.rs:614-617`,
`apply.rs:27-42`). `Settles`: the rounds come to rest before the last one.
`PlanHolds`: each step finds the save as it was planned. `EventsInOrder`: no
event undoes a later one, other than of a player whose identity is contested
(`matching.rs:178-243`), where a later round may apply an older event.
`LiveSquadStays`: nobody in the live squad of a club is released to make room.
`IdentityAgrees`: what is logged about a provider's player is about the player
the live squads bind him to. Named exception: a name of one word. Once the run
has signed a second player with exactly that name, the next round takes him for
the member of the squad, since rosters come before similar names.
`OnlyThePartsAsked`: "Disabled parts are neither fetched, planned nor written"
(`api.rs:46`): without transfers no roster changes, without shirt numbers those
who stay keep theirs, without captains a captain who stays keeps the armband,
without lineups a club whose players stay keeps its XI, and without formations
their codes stay, over all rounds, in a save whose formations name one
goalkeeper, in role 1 (the repair mends others).

*Fetch.* `ResultsAreCurrent`: what is handed on about a club is live or gave way
to a newer document less than the time to live ago, however many newer ones
there are, and the formation with it is of that document's match. `CancelEnds`: a cancelled scrape ends even if nothing
answers and no timer fires. `ScrapeEnds`: every scrape ends. `NothingInvented`:
every event handed on is a complete route, a dated signal or the word of two
weak providers, and each source it names reported that player at that club. A
batch is first merged within itself, by the one FotMob id a spelling goes with
(`OneReport`): two spellings that are unlike each other can so be one report, and
the event may bear the name of the other one. `ScansAreFaithful`: a finished scan hands on nothing the site does not
show in the range of days, an event once, and everything if all requests were
answered and the site keeps the order its reader counts on (newest first, no
page twice); and settings are those that one recent table of the league
justifies, a part of it only if a request came to nothing. `TrustedMovesKept`: each complete route has an event to its
destination within a day from a provider at least as strong, or a stronger one
contradicts it, or (named exception `Shadowed`) a weaker provider's row of the
same route represents it: `prefer_primary_routes` (`reconcile.rs:663-735`)
keeps the priority of the first row it sees of a route, so that a route a
strong provider reports as well can be dropped with the weak one's priority.

*Leagues.* `BoundAsSeen`: a team whose complete squad a run has seen stays bound
to that squad's club, through names, kindred teams and the cache.
`MovesAreRight`: a run moves a club only to the division of its league and
reports what it moved, as long as three fifths of a division's clubs still play
in its league. `SwapsAreMade`: with every answer at hand, swaps
that balance are made.

### Bounds and why they are enough

* Two runs and two saves give every way two runs can meet: the same target,
  one writes what the other reads, a preview beside an update. A third run
  adds no pair. Two foreign contents tell "changed" from "changed back" and
  from absent. `MaxRounds` 2 (16 in the code) has a last round and one before.
  `MaxBackups` 1 (10) makes every second backup prune.
* Four attempts on one lock: one that drops, one that opened before, one that
  opens between, one after. The proof covers any number.
* After a run whose rows were lost neither property of `WindowHistory` says
  anything, so `window_history` goes no further (`CONSTRAINT`); the run
  `window_history_crash` does. A run on another save appends, in the model, only
  where this save's log is about to be used.
* Two events and four days contain a season change, the margin, an event
  listed late, a future event, and three or more runs in sequence; `MaxSlip` 1
  lets one midnight pass within a run.
* Three instances of the app: one between the renames, one that launches and
  cleans up, one that starts to install meanwhile. `MaxCopies` 3 gives each
  its copy.
* Two save updates in a session: one that is reported and a second one after
  it, with old flags left by the first. `MaxWakes` 2 lets both workers have
  answered and not yet woken the UI. `Users` splits what one user might do in
  one session in two: leave early, or change the choices; together they only
  multiply the states, as they share nothing but the frame.
* Two clubs of five slots: the smallest in which one is full, lineups have a
  bench, and a release moves a player over the gap. Three operations reach
  every pair of them with a repair after it.
* Three clubs and three events: a player who goes on from where he came, and
  one who returns. Six rounds: feeds that contradict squads need four. The
  parts are all, each one alone, and all but transfers or lineups.
* Providers of `Fetch` offer up to two rows about one player and one more of
  a like name: enough for two that agree, two that contradict, and a third
  that decides. Two attempts, two clubs at work at once, one permit to the host they share.
  A page may change twice while its club is read and while a document of it is kept
  by `Ttl` 1; one club starts with an outdated entry, one with a damaged file.
* Sites have a row of each kind a reader tells apart: too new, in the range, too
  old, undated, repeated, without a club, under another spelling; three pages
  reach a third one behind a repeated or misleading second.
* One league of four teams is the least in which quartiles leave teams out; two
  days with `StatsTtl` 1 make a table expire.
* Three neighbouring divisions: the one in the middle swaps with both.

Symmetry is used for identities no property names, and only in runs without
liveness. Deadlock is not checked except in `leagues`: runs, attempts,
sessions, operations, rounds, scrapes and the clock end by their bounds, and a
state in which all have ended has no successor.

### Fairness

`AppSession` assumes weak fairness of `Frame`
(the event loop runs the frames it owes), `EndRun` and `EndUpdate` (every
worker ends: requests have time-outs, rounds have a bound, a panic is caught
and answered), and `Wake` (a worker that has sent its answer goes on to its
next statement), and strong fairness of `EndCheck` (a probe ends, it reads
files): the bound `MaxWakes` disables it now and then, which the code does not.
Nothing is assumed of the user, who may click, close and move
the mouse for ever; only the number of save updates is bounded (`MaxRuns`),
without which a user could keep a window open that was asked to close, by
starting the next run in the frame between its own Close command and the close
request that this command comes back as.

`Fetch` assumes for `CancelEnds` only what a cancelled task does by itself
(`Prompt`: neither servers nor timers), and for `ScrapeEnds` in addition that
requests are answered or time out and that timers fire (`Timed`), which the
client's time-outs give. A crash needs no fairness and may always happen.

## 4 Proofs

| Theorem | Says, for every value of the constants |
|---|---|
| `SaveLockProofs!Inductive`, `Exclusive` | `[]IInv`, `[]ExclusiveUnlessOvertaken` |
| `UpdateRunProofs!Inductive` | `[]IInv` |
| `UpdateRunProofs!Stopped`, `Sound`, `Previewed` | `[]StoppedRunsWriteNothing`, `[]OnlySoundResultsOnDisk`, `PreviewsLeaveNoTrace` |
| `UpdateRunProofs!BackedUp`, `LateWritersOnly` | `[]ReplacedIsBackedUp`, `[]OnlyLateWritersLose` |
| `UpdateRunProofs!Implements` | `UpdateRun` implements `SaveUpdate` |
| `AppProofs!SwapAlways`, `Recoverable`, `Alone`, `Restores` | `[]SwapInv`, `[]RecoverableExe`, `[]SwapAlone`, `RollbackRestores` |
| `WindowHistoryProofs!RowsHoldTheWindow`, `NothingFallsBehind` | `[]NeverLaterIfReported`, `[]PicksUpWhereItStopped` |
| `AppProofs!SessionInStep`, `CommitKeepsWindow`, `ChecksStayCurrent` | `[]InStep`, `[]CommitOutlivesNoWindow`, `[]ChecksAreCurrent` |
| `AppProofs!OnlyReleasesInstalled` | `[]InstallsWhatWasReleased` |
| `RosterOpsProofs!RostersStaySound` | `[]RostersSound` |
| `RosterOpsProofs!LineupsKeepSound`, `PartsKeepPlayers` | `LineupsStaySound`, `PartsFollowPlayers` |
| `RosterOpsProofs!RepairsMend` | a repair gives each player in use one role, and a keeper the goal, whatever it found |
| `FetchProofs!CacheIsSound`, `HandsOnWhatIsCurrent` | `[]IInv`, `ResultsAreCurrent` |
| `FetchProofs!CancelIsHeard` | once the token was told, every waiting task is woken or about to look |
| `FetchProofs!NothingIsInvented` | `[]NothingInvented` |
| `LeaguesProofs!BoundStaysAsSeen`, `MovesStayRight` | `[]BoundAsSeen`, `MovesAreRight` |
| `FoldInduction!FoldInvariant`, `SetFoldInvariant` | a loop invariant of a left fold, for every sequence, and of a fold over a finite set, in any order |

Assumptions are the `ASSUME`s of the modules: the special values are none of
the ordinary ones, bounds are natural numbers, the tables of players and the
initial saves are what `RosterAssumption` and `SavesAssumption` say, the cache
holds at first documents that were live by then (`InitialDisksAssumption`), the
pages of a provider are tables of rows (`IsTable`, `IsSite`) and a club's page
gives reports that name a player and a club (`SitesAssumption`), and two dates a
day apart are within the tolerance of corroboration (`ReconcileAssumption`). For the
leagues they also say that no club is in two divisions and no league is that of
two (`ListsAssumption`), that no two teams are one club, and that a squad which
tells its team is found to be that of its club, while the save has it, and any other
of none (`SquadsAssumption`). TLC
evaluates them in every run, and it checked each inductive invariant below as
an invariant of its run before it was proved.

*SaveLock.* Exclusion is not inductive: two processes could hold locks of two
files. The invariant adds that every open handle is of the named file, so there
is only one file to lock, unless its attempt is `overtaken`; that a holder owns its
file's lock; and that nobody is overtaken where open files keep their names.
`RemoveKeeps` is the step that matters: whoever else has the file open when its
name goes is noted.

*UpdateRun.* `IInv` says per run what each stage knows (`StageFacts`: the bytes
in memory are the run's own once it is past the checks, they are sound, the
token is frozen and the run no preview from `BeginCommit` on), what having
published implies, and where a run's traces can be (a result at its target
only, the log only after publication, nothing of a preview). Two invariants
follow from it at once. `PreviewsLeaveNoTrace` is about every step a preview can
take: it holds no lock that its end could give up, the stages before the commit
each spare what is kept, and it is never at a stage of the commit, none of whose
actions asks. `ReplacedIsBackedUp` and `OnlyLateWritersLose` need what is true between
two steps of a commit while others write: a run between begin and end has its
target's lock and no other run has it (`LockFacts`), so that only other
programs touch what it compares; a file is what was checked unless it was
written after the check (`CheckFacts`); and from the comparison to the rename
the newest backup of the target is what the comparison saw, through the pruning
of older ones (`BackupFacts`). For the refinement each action is shown to be a
step of `SaveUpdate` or to change none of `req`, `disk` and `status`;
`EndKeepsPromise` and `MoveKeepsPromise` do this for all the actions that end a
run or move it on.

*ExeSwap.* `RecoverableExe` alone is not inductive: nothing would stop the
second rename from overwriting the last complete file. `SwapInv` adds that every
running instance executes a complete file that is at one of the two names:
then a name that is removed or replaced is not that file, as a running file is
held. `SwapAlone` is inductive relative to it; `RollbackRestores` follows.

*WindowHistory.* Both properties speak of the next run's window, so they break
or hold at a run's beginning; in between, rows and log are partly the previous
run's, partly this one's. `HistoryInv` therefore has two halves. Until a run
has decided, the rows and the log say what they said of the run before, as
long as nothing was lost. After it, everything it was shown is recorded,
dealt with, or in the rows it will write, what it was not shown is hidden, and
the day it records is at most
`slip` days from the one it began on. The run's own steps then turn the second
half into the first.

*AppSession.* The session is proved in parts that meet in `AppInv`:
`WindowFacts` (which flags, workers and owed frames belong to which screen, and
that a run's request was checked), `SetupFacts` (the verdicts shown are of the
choices shown, and so will be those of the one probe whose answer is still
wanted), `ReleaseFacts` (at each step of the self-update, how far the manifest
and the bytes read so far are known to be a release's) and `JobInStep` (the
step of its worker fits the state on the screen). Setup, release and window are
proved by themselves, as an action of one leaves the others alone. `Poll` takes a whole mailbox of answers in one frame: the loop is
a fold, and what it keeps is shown for one answer and lifted to all of them by
`FoldInvariant`.

*FoldInduction.* The library's induction rules take an operator as a parameter,
which the provers cannot instantiate. `FoldInvariant` is proved instead in a
module whose operator and invariant are CONSTANTS, from the least element of a
nonempty set of natural numbers, and used by INSTANCE. Operator and invariant have
an argument for what a loop leaves alone, so that the loops of a run can speak of
its state, and a merge of the names that are safe. `FoldLeftStates` says that
a fold has a function of intermediate states, `SetFoldInvariant` that an
invariant kept whichever member comes next is one of a fold over a finite set.

*RosterOps.* `RosterFacts` adds to `RostersSound` only that every club is a
record with an array of players and one of numbers. The operations on game plans
change neither, which has to be shown of each of them, as `Moved` and `Left` rewrite
lineup, formation and captain on the way (`CompactedRoster`,
`ExtendedRoster`, `RepairedRoster`). That a move into a full club finds a
casualty needs that the first of a finite nonempty set by lexicographic keys
exists (`LexOrders`, `FirstExists`); that a signing finds a free number needs
that there are more numbers than slots (`ShirtIsFree`, with `MaxNumber >=
Size`: 99 and 40 in the code); that a batch of numbers gives none twice follows
from the intermediate states of its fold and the guard that checked all requests
first (`RenumberedRoster`).

`LineupFacts` adds only that every lineup is a function of the roles: the
property speaks of a standard lineup before *and* after a step, so that no
lineup has to be sound for the induction. What the steps need is that each
operator makes a permutation. `Enumerates` says it of a sequence, and
`RanksEnumerate` derives it for the sorts and filters, whose results are built
from positions; `Orders` of a lineup, kept by taking a slot out and
closing the gap (`CompactedOrders`), by a new slot (`ExtendedOrders`), by giving
the goal to a keeper (`KeeperPermutes`, a fold of swaps) and by a new order of the
bench (`BenchHead`). `RepairedPlan` needs nothing of the lineup it finds, which
gives `RepairsMend`. Every lemma on the goal has the position of a signing as a
parameter, and needs nothing of it: the repair that ends an operation looks
for goalkeepers the way the property does (`KeeperPermutes`), and at every other
club the signing is nobody (`SigningElsewhere`). For `PartsFollowPlayers`, a role in use names one player
(`RoleFound`); a departure moves at most the last of a squad without a bench
(`KeptInPlace`), a signing moves nobody (`JoinedStarters`), also when a
full squad, which has a bench, releases someone first (`SignedStarters`). The captain byte is followed through both
(`LeftCaptain`, `JoinedCaptain`).

*Fetch.* That what is handed on is current says nothing of the cache, where
documents may be of any age. `IInv` adds that an entry, on disk or in memory,
was read or revalidated before the document after its own went live
(`EntryOk`). So an entry that is fresh by the clock has a document that gave
way less than the time to live ago, if at all; and a 304 can only be about the
document that is live, as a document without a validator is never asked about.
From there on a task has a recent document (`ReqOk`), which it keeps because
the clock of the model stands still within a scrape, as the code reads it once
per scrape. That the formation is of this document's match needs that the cache
stores it with its page, which survives an update of the entry. The steps that
go on to a provider or end the scrape are shown once (`GoOnOk`, `ProceedOk`,
`LeaveOk`, `FailOk`), for whatever a provider reported: nothing of `Scans` or
`Reconcile` is expanded. `CancelIsHeard` is the safety half of `CancelEnds`,
which stays with TLC: the tasks that listen are those that wait, and after the
notice none is left that registered before it and was not woken.

`NothingIsInvented` is about what the providers' rows become, over any pages and
any order of answers. It has two parts. `Fed` is the invariant of the scans: every
batch, and what a scan has found so far, is a sequence of reports as an adapter
makes them (`IsBatch`, `ScanOk`); each reader is shown to keep it at each of its
requests (`FeedReadOk` to `OpenedOk`). `NothingInventedOf` then speaks of pure
functions, as a chain of loops. Merging the reports of one batch, an entry of the
list stands for one of them and names the sources of those with the same key
(`Stands`, `MergeTransfersOk`). Merging across providers, an entry that takes in
a report shares a name or an id with it, has its destination and its day, give or
take the tolerance (`Meets`): what an entry takes from a report, ids and gaps, never cuts the
tie to what it took before, since an id it has is never replaced and names are
never changed (`MeetsMore`, `TakenIn`). So an entry is `Grounded` in a complete
report and every source it names meets it; that is kept by routes
(`RoutesKeep`), signals (`SignalsKeep`) and corroborators. A cluster of
corroborators holds only reports that agree pairwise, so an event made of it meets
each of them whichever of them it is made of, and the two independent sources are two
of `Routes` (`Attested`). Leaving out routes that contradict others (`Keep`)
takes nothing away from the rest.

*Leagues.* For `MovesAreRight`, a league that three fifths of a division's clubs
play in is the division's own, as two such majorities have a club in common
(`ResolvedRight`). A swap exchanges two clubs, so those of one plan must not
touch each other: clubs are paired in the order of the lists (`AboveTells`), so
each takes part in one swap (`SwapsAreApart`). Then what swapping some of
them makes of the lists is known whichever comes next (`Placed`, `SwapsPlace`),
and the result is saved if it names no club twice, which keeps
the lists sound for the next season (`MovesInv`).

For `BoundAsSeen`, `IdentityInv` says three things. The index binds clubs and teams
one to one (`TwoWay`). All that any run took for learned, be it in the index, in the
cache or in a copy on its way there, is of squads that tell and is right. And what
this run knows of clubs that are still in the save is in the index. A new
binding takes away whatever was bound to its club or its team (`BindKeeps`); as teams are
different clubs, that is never something learned (`LearnKeeps`). The index is
rebuilt from names and the cache in any order (`BuiltOk`) and corrected by squads one after
the other (`LearntOk`). The cache of another save never matters, and a damaged one
is read as empty (`EmptyOk`, `CacheWritten`).

Only model-checked, of safety:

* `RepairSettles`. `RepairsMend` is its first half for every save; the second,
  that a repair finds nothing to do after another, rests on the optimum of the
  assignment of players to roles, over all ways to assign them.
* The rounds. Their properties rest on what the planner's and the matcher's
  folds collect over all events, and on saves like those of the run:
  `OnlyThePartsAsked`, for one, is false of a save whose formations a repair has to mend.
* `SwapsAreMade`: that nothing is left to swap needs, beside what
  `MovesAreRight` does, that the few clubs that are asked decide for the division as
  all of them would, which is counting over samples taken from sorted lists.
* `TrustedMovesKept` and `ScansAreFaithful`: that nothing is lost, other than
  that nothing is invented, depends on all rows at once: which route came first, which
  candidates were ambiguous, what the pages before showed.

Liveness is out of the prover's
reach, as are `ENABLED`, what a recursive definition computes for every input,
and RECURSIVE operators.

## 5 Disagreements found

Each of these is a run that TLC finds violated by what the code does.

1. `lock.rs:80`, run `save_lock_unix`. On Unix the guard removes the name and
   then closes. A second attempt that opens the file between the two gets a
   lock on a file without a name, a third creates a new file: two updates at
   once. The other order (`lock.rs:84-85`) does not help on current Windows,
   where the name of an open file goes, too: an attempt that locks the file
   between the two is left with a file without a name. With `Systems =
   {"unlinks"}` the same run shows that.
2. `commit.rs:125`, run `window_history_crash`. The log is written before the
   skipped rows. If the reports fail, the next automatic window may open after
   an event the run meant to retry, although `window.rs:52` says never.
3. `replace.rs:86`, run `exe_swap_torn`. Two instances share `.new`; one may
   install what the other has only half copied, and report success. The
   previous executable stays at `.old`.

Others are stated by properties that hold, as what these leave out.

* "Each run picks up where the last one stopped" (`README.md:65-66`): a run goes
  on without a supplemental source that does not answer (`scrape.rs:145-156`),
  logs what it did and rewrites its rows (`pipeline/mod.rs:304-342`). With time
  between the runs, an event that only this source lists is behind the next
  automatic window. `PicksUpWhereItStopped` therefore leaves out what is `hidden`;
  without that, TLC finds it violated.
* "Elsewhere an open file cannot be removed" (`lock.rs:75`): only where that is
  so, or the name stays until the last handle closes, does
  `ExclusiveUnlessOvertaken` say that the lock is exclusive.
* "A concurrent writer wins" (`verify.rs:128-129`) only until the check: what is
  written between the check and the rename is lost, or at best is in the backup
  (`OnlyLateWritersLose`).
* "Drop lower-trust routes that contradict a stronger same-day event"
  (`reconcile.rs:663`) also drops a route a strong provider reports, when a weak
  one reports it earlier with another type (`Shadowed` in `TrustedMovesKept`).

## 6 Not modelled

* Data without control: save layout, cipher, archives, the decoding of the
  providers' documents into rows, ratings, the similarity of strings. The modules take from
  them what they decide: readable or not, alike or not, a rating.
* Paths that are links: the lock is taken by the path as given, digests and
  backups by the resolved one. In `UpdateRun` a path is a resolved path.
* Keys, hashes and the JSON of a release manifest; a signature is right or not.
* Rendering of screens, reports and log lines; settings; command line.
* In `Fetch`: processes that share a cache directory, the pacing of requests
  to one host, the number of Soccerway's
  concurrent requests, the order of dated groups in `prefer_primary_routes`, links
  and fees of transfers, and the error of an empty club list; FotMob's club ids stand for names, and a
  validator is assumed to identify its document.
* In `Round`: tactics and leagues among the parts, runs that may not release for
  overflow, and orders of iteration other than one where the code's is
  arbitrary. Events without a date never enter the feeds.
* In `Leagues`: the abort of the fetch, which stops the run before anything
  is changed (`UpdateRun!Fails`).

## 7 Plan

Done, in this order: `SaveLock`, `SaveUpdate` and `UpdateRun`,
`WindowHistory`, `ExeSwap`, `AppSession`, `Roster` and `RosterOps`,
`Matching`, `Planner` and `Round`, `TeamCache`, `Reconcile` and `Fetch`,
`Setup`, `Leagues`, `PlayerNames`, `ClubNames` and `LiveSquads`,
`AppUpdate`, `ClubIdentity`, `Listings`, `Scans` and `Tactics`.

Proofs, in this order: `SaveLock`, `UpdateRun` with its refinement, `ExeSwap`,
`UpdateRun`'s backups, `AppSession`, `WindowHistory`, `RosterOps`' rosters,
`Fetch`'s cache and cancel token, `RosterOps`' lineups, captains and starters,
`Leagues`' moves and bindings.

Open: the second half of `RepairSettles`; what a round may assume of a plan
(`PlanHolds`) for any feed; the assignment (`hungarian.rs`) and the similarity
(`fl-text/indel.rs`) against reference definitions.
