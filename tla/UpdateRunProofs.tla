-------------------------- MODULE UpdateRunProofs ---------------------------
(***************************************************************************)
(* What holds of UpdateRun for any number of runs, save files and requests *)
(* and any bounds: type correctness, that a run which was cancelled or     *)
(* which failed has written nothing, that only verified results reach the  *)
(* disk, that a preview leaves no trace, and that the pipeline implements  *)
(* the promise SaveUpdate states.                                          *)
(***************************************************************************)
EXTENDS UpdateRun, SequenceTheorems, TLAPS

-----------------------------------------------------------------------------
(* Backup lists stay lists under what create_backup and prune do to them.  *)
LEMMA BackupLists ==
    ASSUME NEW S, NEW s \in Seq(S)
    PROVE  /\ Prune(s) \in Seq(S)
           /\ WithoutNewest(s) \in Seq(S)
<1>1. Len(s) \in Nat /\ \A i \in 1 .. Len(s) : s[i] \in S
  BY LenProperties, ElementOfSeq
<1>2. Prune(s) \in Seq(S)
  <2>1. CASE Len(s) > MaxBackups
    <3>1. /\ Len(s) - MaxBackups + 1 \in Int
          /\ \A i \in Len(s) - MaxBackups + 1 .. Len(s) : s[i] \in S
      BY <1>1, <2>1, RunAssumption
    <3>2. SubSeq(s, Len(s) - MaxBackups + 1, Len(s)) \in Seq(S)
      BY <1>1, <3>1, SubSeqProperties
    <3>3. QED BY <2>1, <3>2 DEF Prune
  <2>2. CASE ~(Len(s) > MaxBackups)
    BY <2>2 DEF Prune
  <2>3. QED BY <2>1, <2>2
<1>3. WithoutNewest(s) \in Seq(S)
  <2>1. Len(s) - 1 \in Int /\ \A i \in 1 .. Len(s) - 1 : s[i] \in S
    BY <1>1
  <2>2. QED BY <2>1, SubSeqProperties DEF WithoutNewest
<1>4. QED BY <1>2, <1>3

(* The variables of a run that End resets keep their types.                *)
LEMMA EndTyped ==
    ASSUME TypeOK, NEW r \in Runs, NEW o \in Results, End(r, o)
    PROVE  /\ pc' \in [Runs -> Stages]
           /\ result' \in [Runs -> Results]
           /\ lock' \in [Paths -> Runs \cup {None}]
           /\ seen' \in [Runs -> [input : File, output : File]]
           /\ mem' \in [Runs -> File]
           /\ round' \in [Runs -> 1 .. MaxRounds]
           /\ raced' \in [Runs -> SUBSET {"checked", "backedup"}]
<1>1. pc' \in [Runs -> Stages]
  BY DEF End, Goto, TypeOK, Stages
<1>2. mem' \in [Runs -> File] /\ seen' \in [Runs -> [input : File, output : File]]
  BY DEF End, TypeOK, File, NothingSeen
<1>3. round' \in [Runs -> 1 .. MaxRounds]
  BY RunAssumption DEF End, TypeOK
<1>4. /\ result' \in [Runs -> Results]
      /\ lock' \in [Paths -> Runs \cup {None}]
      /\ raced' \in [Runs -> SUBSET {"checked", "backedup"}]
  BY DEF End, TypeOK
<1>5. QED BY <1>1, <1>2, <1>3, <1>4

(* A request names two paths, so what is read there is a file.             *)
LEMMA EditTyped ==
    ASSUME TypeOK, NEW r \in Runs
    PROVE  /\ Edit(r) \in Paths /\ disk[Edit(r)] \in File
           /\ Target(r) \in Paths /\ disk[Target(r)] \in File
<1>1. req[r] \in [edit : Paths, target : Paths, dry : BOOLEAN]
  BY RunAssumption DEF TypeOK
<1>2. QED BY <1>1 DEF Edit, Target, TypeOK

LEMMA BackupAdded ==
    ASSUME TypeOK, NEW p \in Paths, NEW c \in File \cup {Torn}, AddBackup(p, c)
    PROVE  backups' \in [Paths -> Seq(File \cup {Torn})]
<1>1. Append(backups[p], c) \in Seq(File \cup {Torn})
  BY AppendProperties DEF TypeOK
<1>2. QED BY <1>1 DEF AddBackup, TypeOK

(* TypeOK is inductive: every step of a run, a cancel request, a crash and *)
(* a write by another program keep every variable in its type.             *)
THEOREM Typed == Spec => []TypeOK
<1>1. Init => TypeOK
  BY RunAssumption
  DEF Init, TypeOK, Stages, Results, File, Content
<1>2. TypeOK /\ [Next]_vars => TypeOK'
  <2> SUFFICES ASSUME TypeOK, [Next]_vars PROVE TypeOK'
    OBVIOUS
  <2> USE DEF asked, view, kept, past
  <2>1. ASSUME NEW r \in Runs, RequestCancel(r) PROVE TypeOK'
    BY <2>1 DEF RequestCancel, TypeOK
  <2>2. ASSUME NEW r \in Runs, Cancelled(r) PROVE TypeOK'
    BY <2>2, EndTyped DEF Cancelled, TypeOK, Results
  <2>3. ASSUME NEW r \in Runs, Fails(r) PROVE TypeOK'
    BY <2>3, EndTyped DEF Fails, TypeOK, Results
  <2>4. ASSUME NEW r \in Runs, Begin(r) PROVE TypeOK'
    BY <2>4 DEF Begin, Goto, TypeOK, Stages
  <2>5. ASSUME NEW r \in Runs, Locked(r) PROVE TypeOK'
    BY <2>5, EndTyped DEF Locked, TypeOK, Results
  <2>6. ASSUME NEW r \in Runs, ReadInput(r) PROVE TypeOK'
    BY <2>6, EditTyped DEF ReadInput, Goto, TypeOK, Stages
  <2>7. ASSUME NEW r \in Runs, ReadOutput(r) PROVE TypeOK'
    BY <2>7, EditTyped, ZenonT(60) DEF ReadOutput, Goto, TypeOK, Stages
  <2>8. ASSUME NEW r \in Runs, Load(r) PROVE TypeOK'
    BY <2>8 DEF Load, StoreClubList, Keep, Goto, TypeOK, Stages
  <2>9. ASSUME NEW r \in Runs, EffectiveRound(r) PROVE TypeOK'
    <3>1. round' \in [Runs -> 1 .. MaxRounds]
      <4>1. CASE LastRound(r)
        BY <2>9, <4>1 DEF EffectiveRound, TypeOK
      <4>2. CASE ~LastRound(r)
        <5>1. round[r] + 1 \in 1 .. MaxRounds
          BY <4>2, RunAssumption DEF LastRound, TypeOK
        <5>2. round' = [round EXCEPT ![r] = round[r] + 1]
          BY <2>9, <4>2 DEF EffectiveRound
        <5>3. QED BY <5>1, <5>2 DEF TypeOK
      <4>3. QED BY <4>1, <4>2
    <3>2. mem' \in [Runs -> File] /\ sound' \in [Runs -> BOOLEAN]
      BY <2>9 DEF EffectiveRound, TypeOK, File, Content
    <3>3. QED BY <2>9, <3>1, <3>2 DEF EffectiveRound, Goto, TypeOK, Stages
  <2>10. ASSUME NEW r \in Runs, SettledRound(r) PROVE TypeOK'
    BY <2>10 DEF SettledRound, GoOn, Goto, TypeOK, Stages
  <2>11. ASSUME NEW r \in Runs, LeagueMoves(r) PROVE TypeOK'
    BY <2>11 DEF LeagueMoves, Goto, TypeOK, Stages, File, Content
  <2>12. ASSUME NEW r \in Runs, NoLeagueMoves(r) PROVE TypeOK'
    BY <2>12 DEF NoLeagueMoves, GoOn, Goto, TypeOK, Stages
  <2>13. ASSUME NEW r \in Runs, Unchanged(r) PROVE TypeOK'
    BY <2>13, EndTyped DEF Unchanged, NotAppliedReport, Keep, TypeOK, Results
  <2>14. ASSUME NEW r \in Runs, IntegrityFails(r) PROVE TypeOK'
    BY <2>14, EndTyped DEF IntegrityFails, TypeOK, Results
  <2>15. ASSUME NEW r \in Runs, CheckInput(r) PROVE TypeOK'
    <3>1. CASE InputAsRead(r)
      BY <2>15, <3>1 DEF CheckInput, GoOn, Goto, TypeOK, Stages
    <3>2. CASE ~InputAsRead(r)
      BY <2>15, <3>2, EndTyped DEF CheckInput, TypeOK, Results
    <3>3. QED BY <3>1, <3>2
  <2>16. ASSUME NEW r \in Runs, CheckOutput(r) PROVE TypeOK'
    <3>1. CASE OutputAsRead(r)
      BY <2>16, <3>1 DEF CheckOutput, GoOn, Goto, TypeOK, Stages
    <3>2. CASE ~OutputAsRead(r)
      BY <2>16, <3>2, EndTyped DEF CheckOutput, TypeOK, Results
    <3>3. QED BY <3>1, <3>2
  <2>17. ASSUME NEW r \in Runs, Preview(r) PROVE TypeOK'
    BY <2>17, EndTyped DEF Preview, TypeOK, Results
  <2>18. ASSUME NEW r \in Runs, BeginCommit(r) PROVE TypeOK'
    BY <2>18 DEF BeginCommit, GoOn, Goto, TypeOK, Stages
  <2>19. ASSUME NEW r \in Runs, CopyBackup(r) PROVE TypeOK'
    <3>1. Target(r) \in Paths /\ disk[BackupSource(r)] \in File
      BY EditTyped DEF BackupSource, TypeOK
    <3>2. backups' \in [Paths -> Seq(File \cup {Torn})]
      BY <2>19, <3>1, BackupAdded DEF CopyBackup
    <3>3. QED BY <2>19, <3>2 DEF CopyBackup, GoOn, Keep, Goto, TypeOK, Stages
  <2>20. ASSUME NEW r \in Runs, CopyBackupFails(r) PROVE TypeOK'
    <3>1. backups' \in [Paths -> Seq(File \cup {Torn})]
      BY <2>20, EditTyped, BackupAdded DEF CopyBackupFails
    <3>2. QED BY <2>20, <3>1, EndTyped DEF CopyBackupFails, Keep, TypeOK, Results
  <2>21. ASSUME NEW r \in Runs, CompareBackup(r) PROVE TypeOK'
    <3> DEFINE copies == backups[Target(r)]
    <3>1. copies \in Seq(File \cup {Torn})
      BY EditTyped DEF TypeOK
    <3>2. backups' \in [Paths -> Seq(File \cup {Torn})]
      <4>1. Prune(copies) \in Seq(File \cup {Torn})
        BY <3>1, BackupLists
      <4>2. WithoutNewest(copies) \in Seq(File \cup {Torn})
        BY <3>1, BackupLists
      <4>3. \E s \in Seq(File \cup {Torn}) : backups' = [backups EXCEPT ![Target(r)] = s]
        BY <2>21, <3>1, <4>1, <4>2 DEF CompareBackup
      <4>4. QED BY <4>3 DEF TypeOK
    <3>3. CASE disk[BackupSource(r)] = Newest(copies)
      BY <2>21, <3>2, <3>3 DEF CompareBackup, GoOn, Goto, TypeOK, Stages
    <3>4. CASE disk[BackupSource(r)] # Newest(copies)
      BY <2>21, <3>2, <3>4, EndTyped DEF CompareBackup, TypeOK, Results
    <3>5. QED BY <3>3, <3>4
  <2>22. ASSUME NEW r \in Runs, Rename(r) PROVE TypeOK'
    <3>1. disk' \in [Paths -> File] /\ replaced' \in [Runs -> File \cup {Never}]
      BY <2>22, EditTyped DEF Rename, TypeOK
    <3>2. raced' \in [Runs -> SUBSET {"checked", "backedup"}]
      BY <2>22 DEF Rename, Outdates, TypeOK
    <3>3. QED BY <2>22, <3>1, <3>2 DEF Rename, Goto, TypeOK, Stages
  <2>23. ASSUME NEW r \in Runs, AppendLog(r) PROVE TypeOK'
    BY <2>23 DEF AppendLog, GoOn, Keep, Goto, TypeOK, Stages
  <2>24. ASSUME NEW r \in Runs, WriteReports(r) PROVE TypeOK'
    BY <2>24, EndTyped DEF WriteReports, Keep, TypeOK, Results
  <2>25. ASSUME NEW r \in Runs, Crash(r) PROVE TypeOK'
    <3>1. backups' \in [Paths -> Seq(File \cup {Torn})]
      BY <2>25, EditTyped, BackupAdded DEF Crash, TypeOK
    <3>2. QED BY <2>25, <3>1, EndTyped DEF Crash, TypeOK, Results
  <2>26. ASSUME NEW p \in Paths, OthersWrite(p) PROVE TypeOK'
    <3>1. raced' \in [Runs -> SUBSET {"checked", "backedup"}]
      BY <2>26 DEF OthersWrite, Outdates, TypeOK
    <3>2. QED BY <2>26, <3>1 DEF OthersWrite, TypeOK, File, Content
  <2>27. CASE UNCHANGED vars
    BY <2>27 DEF vars, TypeOK
  <2>28. ASSUME NEW r \in Runs, FetchWeb(r) PROVE TypeOK'
    BY <2>28 DEF FetchWeb, Keep, GoOn, Goto, TypeOK, Stages
  <2>29. ASSUME NEW r \in Runs, PlanRound(r) PROVE TypeOK'
    BY <2>29 DEF PlanRound, SaveIdentities, Keep, GoOn, Goto, TypeOK, Stages
  <2>30. QED
    BY <2>1, <2>2, <2>3, <2>4, <2>5, <2>6, <2>7, <2>8, <2>9, <2>10, <2>11,
       <2>12, <2>13, <2>14, <2>15, <2>16, <2>17, <2>18, <2>19, <2>20, <2>21,
       <2>22, <2>23, <2>24, <2>25, <2>26, <2>27, <2>28, <2>29
    DEF Next, RunStep
<1>3. QED BY <1>1, <1>2, PTL DEF Spec

-----------------------------------------------------------------------------
(* How a step of run r leaves the facts about every run s true: Facts      *)
(* collects them, Step opens what they and the steps are made of.          *)
Facts(s) == StageFacts(s) /\ PublishedFacts(s) /\ TraceFacts(s)
AllFacts == \A s \in Runs : Facts(s)

(* A run may end anywhere with a result that fits what it has done.        *)
LEMMA EndFacts ==
    ASSUME TypeOK, AllFacts, NEW r \in Runs, NEW s \in Runs,
           NEW o \in Results, End(r, o),
           UNCHANGED <<req, token, disk, sound, logged, replaced>>,
           stateDir' = stateDir \/ Keep(r), Dry(r) => stateDir' = stateDir,
           Published(r) => o \in {"Updated", "crashed"}
    PROVE  Facts(s)'
<1>1. /\ s = r => pc'[s] = "done" /\ result'[s] = o
      /\ s # r => pc'[s] = pc[s] /\ result'[s] = result[s] /\ mem'[s] = mem[s]
  BY DEF End, Goto, TypeOK
<1>2. \A p \in Paths : lock'[p] = s => lock[p] = s
  BY RunAssumption DEF End, TypeOK
<1>3. Facts(s)
  BY DEF AllFacts
<1>4. StageFacts(s)'
  BY <1>1, <1>3 DEF Facts, StageFacts, Published, Verified, Frozen, Dry
<1>5. PublishedFacts(s)'
  BY <1>1, <1>3 DEF Facts, PublishedFacts, Published, Dry
<1>6. s \in stateDir' => s \in stateDir \/ ~Dry(s)
  BY DEF Keep
<1>7. TraceFacts(s)'
  BY <1>2, <1>3, <1>6 DEF Facts, TraceFacts, Published, Dry, Target
<1>8. QED BY <1>4, <1>5, <1>7 DEF Facts


(* A run that has published is recording it, or has ended.                 *)
LEMMA NotYetPublished ==
    ASSUME AllFacts, NEW r \in Runs, pc[r] \notin {"log", "report", "done"}
    PROVE  ~Published(r)
BY DEF AllFacts, Facts, PublishedFacts

(* A run that commits is no preview, so that commit need not ask.          *)
LEMMA FrozenIsNoPreview ==
    ASSUME AllFacts, NEW r \in Runs, pc[r] \in Frozen
    PROVE  ~Dry(r)
BY DEF AllFacts, Facts, StageFacts

(* The facts about stages, publishing and traces are inductive.  A step of *)
(* run r moves only r, and it adds r to the disk, the log or the state     *)
(* directory only when r has the facts of its stage; the writes of others  *)
(* put no run's result on disk.                                            *)
LEMMA Staged == Spec => []AllFacts
<1>1. Init => AllFacts
  BY RunAssumption
  DEF Init, AllFacts, Facts, StageFacts, PublishedFacts, TraceFacts, Published,
      Verified, Frozen, Content, File
<1>2. TypeOK /\ AllFacts /\ [Next]_vars => AllFacts'
  <2> SUFFICES ASSUME TypeOK, AllFacts, [Next]_vars, NEW s \in Runs
               PROVE  Facts(s)'
    BY DEF AllFacts
  <2> USE DEF asked, view, kept, past
  <2> USE DEF AllFacts, Facts, StageFacts, PublishedFacts, TraceFacts,
              Published, Verified, Frozen, Dry, Target, TypeOK
  <2>1. ASSUME NEW r \in Runs, RequestCancel(r) PROVE Facts(s)'
    BY <2>1 DEF RequestCancel, Goto, At, Checkpoints
  <2>2. ASSUME NEW r \in Runs, Begin(r) PROVE Facts(s)'
    BY <2>2 DEF Begin, Goto, At, Checkpoints
  <2>3. ASSUME NEW r \in Runs, ReadInput(r) PROVE Facts(s)'
    BY <2>3 DEF ReadInput, Goto, At, Checkpoints
  <2>4. ASSUME NEW r \in Runs, ReadOutput(r) PROVE Facts(s)'
    BY <2>4 DEF ReadOutput, Goto, At, Checkpoints
  <2>5. ASSUME NEW r \in Runs, Load(r) PROVE Facts(s)'
    BY <2>5 DEF Load, Goto, At, Checkpoints, StoreClubList, Keep
  <2>6. ASSUME NEW r \in Runs, EffectiveRound(r) PROVE Facts(s)'
    BY <2>6 DEF EffectiveRound, Goto, At, Checkpoints
  <2>7. ASSUME NEW r \in Runs, SettledRound(r) PROVE Facts(s)'
    BY <2>7 DEF SettledRound, Goto, At, Checkpoints, GoOn
  <2>8. ASSUME NEW r \in Runs, LeagueMoves(r) PROVE Facts(s)'
    BY <2>8 DEF LeagueMoves, Goto, At, Checkpoints
  <2>9. ASSUME NEW r \in Runs, NoLeagueMoves(r) PROVE Facts(s)'
    BY <2>9 DEF NoLeagueMoves, Goto, At, Checkpoints, GoOn
  <2>10. ASSUME NEW r \in Runs, BeginCommit(r) PROVE Facts(s)'
    BY <2>10 DEF BeginCommit, Goto, At, Checkpoints, GoOn, CanFreeze
  <2>11. ASSUME NEW r \in Runs, CopyBackup(r) PROVE Facts(s)'
    BY <2>11 DEF CopyBackup, Goto, At, Checkpoints, GoOn, Keep
  <2>12. ASSUME NEW r \in Runs, AppendLog(r) PROVE Facts(s)'
    BY <2>12 DEF AppendLog, Goto, At, Checkpoints, GoOn, Keep
  <2>13. ASSUME NEW r \in Runs, Rename(r) PROVE Facts(s)'
    <3>1. disk[Target(r)] # Never
      BY EditTyped, RunAssumption
    <3>2. QED BY <2>13, <3>1 DEF Rename, Goto
  <2>14. ASSUME NEW p \in Paths, OthersWrite(p) PROVE Facts(s)'
    BY <2>14, RunAssumption DEF OthersWrite, Content, File
  <2>15. CASE UNCHANGED vars
    BY <2>15 DEF vars
  <2>16. ASSUME NEW r \in Runs, CheckInput(r), InputAsRead(r) PROVE Facts(s)'
    BY <2>16 DEF CheckInput, NewErrors, GoOn, Goto
  <2>17. ASSUME NEW r \in Runs, CheckOutput(r), OutputAsRead(r) PROVE Facts(s)'
    BY <2>17 DEF CheckOutput, GoOn, Goto
  <2>18. ASSUME NEW r \in Runs, CompareBackup(r),
               disk[BackupSource(r)] = Newest(backups[Target(r)])
        PROVE  Facts(s)'
    BY <2>18 DEF CompareBackup, GoOn, Goto
  <2> HIDE DEF AllFacts, Facts, StageFacts, PublishedFacts, TraceFacts,
               Published, Verified, Frozen, Dry, Target, TypeOK
  <2>19. ASSUME NEW r \in Runs, Cancelled(r) PROVE Facts(s)'
    BY <2>19, EndFacts, NotYetPublished DEF Cancelled, Results, Checkpoints
  <2>20. ASSUME NEW r \in Runs, Fails(r) PROVE Facts(s)'
    BY <2>20, EndFacts, NotYetPublished DEF Fails, Results
  <2>21. ASSUME NEW r \in Runs, Locked(r) PROVE Facts(s)'
    BY <2>21, EndFacts, NotYetPublished DEF Locked, Results, At
  <2>22. ASSUME NEW r \in Runs, Unchanged(r) PROVE Facts(s)'
    BY <2>22, EndFacts, NotYetPublished
    DEF Unchanged, NotAppliedReport, Results, At
  <2>23. ASSUME NEW r \in Runs, IntegrityFails(r) PROVE Facts(s)'
    BY <2>23, EndFacts, NotYetPublished DEF IntegrityFails, Results
  <2>24. ASSUME NEW r \in Runs, Preview(r) PROVE Facts(s)'
    BY <2>24, EndFacts, NotYetPublished DEF Preview, Results, At
  <2>25. ASSUME NEW r \in Runs, CopyBackupFails(r) PROVE Facts(s)'
    BY <2>25, EndFacts, NotYetPublished, FrozenIsNoPreview
    DEF CopyBackupFails, Results, Frozen
  <2>26. ASSUME NEW r \in Runs, WriteReports(r) PROVE Facts(s)'
    BY <2>26, EndFacts, FrozenIsNoPreview DEF WriteReports, Results, Frozen
  <2>27. ASSUME NEW r \in Runs, Crash(r) PROVE Facts(s)'
    BY <2>27, EndFacts DEF Crash, Results
  <2>28. ASSUME NEW r \in Runs, CheckInput(r), ~InputAsRead(r) PROVE Facts(s)'
    BY <2>28, EndFacts, NotYetPublished DEF CheckInput, Results
  <2>29. ASSUME NEW r \in Runs, CheckOutput(r), ~OutputAsRead(r) PROVE Facts(s)'
    BY <2>29, EndFacts, NotYetPublished DEF CheckOutput, Results
  <2>30. ASSUME NEW r \in Runs, CompareBackup(r),
               disk[BackupSource(r)] # Newest(backups[Target(r)])
        PROVE  Facts(s)'
    BY <2>30, EndFacts, NotYetPublished DEF CompareBackup, Results
  <2>31. ASSUME NEW r \in Runs, FetchWeb(r) PROVE Facts(s)'
    BY <2>31 DEF FetchWeb, CacheDir, Keep, GoOn, Goto, At, Checkpoints,
                 AllFacts, Facts, StageFacts, PublishedFacts, TraceFacts,
                 Published, Verified, Frozen, Dry, Target, TypeOK
  <2>32. ASSUME NEW r \in Runs, PlanRound(r) PROVE Facts(s)'
    BY <2>32 DEF PlanRound, SaveIdentities, Keep, GoOn, Goto, At, Checkpoints,
                 AllFacts, Facts, StageFacts, PublishedFacts, TraceFacts,
                 Published, Verified, Frozen, Dry, Target, TypeOK
  <2>33. QED
    BY <2>1, <2>2, <2>3, <2>4, <2>5, <2>6, <2>7, <2>8, <2>9, <2>10, <2>11,
       <2>12, <2>13, <2>14, <2>15, <2>16, <2>17, <2>18, <2>19, <2>20,
       <2>21, <2>22, <2>23, <2>24, <2>25, <2>26, <2>27, <2>28, <2>29,
       <2>30, <2>31, <2>32
    DEF Next, RunStep
<1>3. QED BY <1>1, <1>2, Typed, PTL DEF Spec

-----------------------------------------------------------------------------
(* What the commit of every run s rests on: its lock, its checks and the   *)
(* backup it has made.                                                     *)
CommitFacts(s) == LockFacts(s) /\ CheckFacts(s) /\ BackupFacts(s)
AllCommitFacts == \A s \in Runs : CommitFacts(s)

(* Pruning keeps the newest backup and at most MaxBackups.                 *)
LEMMA PruneKeepsNewest ==
    ASSUME NEW S, NEW s \in Seq(S), s # <<>>
    PROVE  /\ Prune(s) # <<>>
           /\ Len(Prune(s)) <= MaxBackups
           /\ Newest(Prune(s)) = Newest(s)
<1>1. Len(s) \in Nat \ {0} /\ MaxBackups \in Nat \ {0}
  BY EmptySeq, RunAssumption
<1>2. CASE Len(s) > MaxBackups
  <2> DEFINE m == Len(s) - MaxBackups + 1
  <2>1. m \in Int /\ m >= 1 /\ m <= Len(s) /\ Len(s) - m + 1 = MaxBackups
    BY <1>1, <1>2
  <2>2. \A i \in m .. Len(s) : s[i] \in S
    BY <1>1, <2>1, ElementOfSeq
  <2>3. /\ Len(SubSeq(s, m, Len(s))) = MaxBackups
        /\ SubSeq(s, m, Len(s)) \in Seq(S)
        /\ SubSeq(s, m, Len(s))[MaxBackups] = s[Len(s)]
    BY <1>1, <2>1, <2>2, SubSeqProperties
  <2>4. Prune(s) = SubSeq(s, m, Len(s))
    BY <1>2 DEF Prune
  <2>5. Len(Prune(s)) = MaxBackups /\ Prune(s)[MaxBackups] = s[Len(s)]
    BY <2>3, <2>4
  <2>6. Prune(s) # <<>>
    BY <1>1, <2>5, Len(<<>>) = 0
  <2>7. QED BY <1>1, <2>5, <2>6 DEF Newest
<1>3. CASE ~(Len(s) > MaxBackups)
  BY <1>1, <1>3 DEF Prune
<1>4. QED BY <1>2, <1>3

(* Two runs that commit have different targets: each holds its lock.       *)
LEMMA CommitsAlone ==
    ASSUME AllFacts, AllCommitFacts, NEW r \in Runs, NEW s \in Runs, r # s,
           pc[r] \in Frozen, pc[s] \in Frozen
    PROVE  Target(r) # Target(s)
<1>1. ~Dry(r) /\ ~Dry(s)
  BY DEF AllFacts, Facts, StageFacts
<1>2. lock[Target(r)] = r /\ lock[Target(s)] = s
  BY <1>1 DEF AllCommitFacts, CommitFacts, LockFacts, Frozen
<1>3. QED BY <1>2

(* A step of another run leaves the facts of s as they are, when it keeps  *)
(* the save files, the lock s holds and the backups of a run that commits. *)
LEMMA OtherRunMoves ==
    ASSUME TypeOK, AllFacts, AllCommitFacts, NEW s \in Runs,
           UNCHANGED <<req, disk>>,
           pc'[s] = pc[s], seen'[s] = seen[s], raced'[s] = raced[s],
           replaced'[s] = replaced[s],
           lock[Target(s)] = s => lock'[Target(s)] = s,
           pc[s] \in Frozen => backups'[Target(s)] = backups[Target(s)]
    PROVE  CommitFacts(s)'
<1>1. CommitFacts(s)
  BY DEF AllCommitFacts
<1>2. Target(s)' = Target(s) /\ Edit(s)' = Edit(s) /\ Dry(s)' = Dry(s)
  BY DEF Target, Edit, Dry
<1>3. InPlace(s)' = InPlace(s)
  BY <1>2 DEF InPlace
<1>4. BackupSource(s)' = BackupSource(s)
  BY <1>2, <1>3 DEF BackupSource
<1>5. LockFacts(s)'
  BY <1>1, <1>2 DEF CommitFacts, LockFacts
<1>6. CheckFacts(s)'
  BY <1>1, <1>2, <1>3 DEF CommitFacts, CheckFacts
<1>7. BackupFacts(s)'
  BY <1>1, <1>2, <1>4 DEF CommitFacts, BackupFacts, Frozen
<1>8. QED BY <1>5, <1>6, <1>7 DEF CommitFacts

(* A run that ends has nothing to answer for, and gives up only its lock.  *)
LEMMA EndCommits ==
    ASSUME TypeOK, AllFacts, AllCommitFacts, NEW r \in Runs, NEW s \in Runs,
           NEW o, End(r, o), UNCHANGED <<req, disk, replaced>>,
           \/ UNCHANGED backups
           \/ /\ pc[r] \in Frozen
              /\ \A p \in Paths \ {Target(r)} : backups'[p] = backups[p]
    PROVE  CommitFacts(s)'
<1>1. Target(s) \in Paths
  BY EditTyped
<1>2. CASE s = r
  <2>1. pc'[s] = "done" /\ seen'[s] = NothingSeen
    BY <1>2 DEF End, Goto, TypeOK
  <2>2. QED
    BY <2>1 DEF CommitFacts, LockFacts, CheckFacts, BackupFacts, AfterInput,
                AfterOutput, NothingSeen
<1>3. CASE s # r
  <2>1. /\ pc'[s] = pc[s] /\ seen'[s] = seen[s] /\ raced'[s] = raced[s]
        /\ lock[Target(s)] = s => lock'[Target(s)] = s
    BY <1>1, <1>3 DEF End, Goto, TypeOK
  <2>2. pc[s] \in Frozen => backups'[Target(s)] = backups[Target(s)]
    BY <1>1, <1>3, CommitsAlone
  <2>3. QED BY <2>1, <2>2, OtherRunMoves
<1>4. QED BY <1>2, <1>3

(* A run that goes on without touching files, lock or backups.             *)
LEMMA MoveCommits ==
    ASSUME TypeOK, AllFacts, AllCommitFacts, NEW r \in Runs, NEW s \in Runs,
           NEW stage \in Stages \ {"rename", "log", "start"}, Goto(r, stage),
           UNCHANGED <<req, disk, lock, backups, seen, raced, replaced>>,
           pc[r] \notin {"start", "done"},
           stage = "readout" => ~InPlace(r),
           stage \in AfterInput => pc[r] \in AfterInput \/ InputAsRead(r),
           stage \in AfterOutput => pc[r] \in AfterOutput \/ OutputAsRead(r),
           stage = "compare" => backups[Target(r)] # <<>>,
           stage = "report" => pc[r] = "log"
    PROVE  CommitFacts(s)'
<1>1. CASE s # r
  <2>1. pc'[s] = pc[s]
    BY <1>1 DEF Goto, TypeOK
  <2>2. QED BY <2>1, OtherRunMoves
<1>2. CASE s = r
  <2>1. CommitFacts(r) /\ pc'[r] = stage
    BY DEF AllCommitFacts, Goto, TypeOK
  <2>2. Target(r)' = Target(r) /\ Edit(r)' = Edit(r) /\ Dry(r)' = Dry(r)
    BY DEF Target, Edit, Dry
  <2>3. LockFacts(r)'
    BY <2>1, <2>2 DEF CommitFacts, LockFacts
  <2>4. CheckFacts(r)'
    BY <2>1, <2>2 DEF CommitFacts, CheckFacts, InPlace, InputAsRead, OutputAsRead
  <2>5. BackupFacts(r)'
    BY <2>1, <2>2 DEF CommitFacts, BackupFacts
  <2>6. QED BY <1>2, <2>3, <2>4, <2>5 DEF CommitFacts
<1>3. QED BY <1>1, <1>2

(* What the others write makes a check of theirs outdated, or nothing.     *)
LEMMA OtherWritesNoted ==
    ASSUME TypeOK, AllCommitFacts, NEW p \in Paths, NEW s \in Runs,
           \A q \in Paths \ {p} : disk'[q] = disk[q],
           raced'[s] = raced[s] \cup Outdates(p, s),
           UNCHANGED <<req, lock, backups, seen>>,
           pc'[s] = pc[s], replaced'[s] = replaced[s]
    PROVE  CommitFacts(s)'
<1>1. CommitFacts(s) /\ Edit(s) \in Paths /\ Target(s) \in Paths
  BY EditTyped DEF AllCommitFacts
<1>2. Target(s)' = Target(s) /\ Edit(s)' = Edit(s) /\ Dry(s)' = Dry(s)
  BY DEF Target, Edit, Dry
<1>3. BackupSource(s)' = BackupSource(s) /\ InPlace(s)' = InPlace(s)
  BY <1>2 DEF BackupSource, InPlace
<1>4. LockFacts(s)'
  BY <1>1, <1>2 DEF CommitFacts, LockFacts
<1>5. CheckFacts(s)'
  BY <1>1, <1>2, <1>3 DEF CommitFacts, CheckFacts, Outdates
<1>6. BackupFacts(s)'
  <2>1. pc[s] = "rename" /\ "backedup" \notin raced'[s] => BackupSource(s) # p
    BY DEF Outdates
  <2>2. BackupSource(s) \in Paths
    BY <1>1 DEF BackupSource
  <2>3. "backedup" \notin raced'[s] => "backedup" \notin raced[s]
    OBVIOUS
  <2>4. QED BY <1>1, <1>2, <1>3, <2>1, <2>2, <2>3 DEF CommitFacts, BackupFacts
<1>7. QED BY <1>4, <1>5, <1>6 DEF CommitFacts

(* IInv is inductive: beside the facts of its stage, a run that writes     *)
(* keeps its lock, so the backups of its target are its own to change, and *)
(* every write to a file it has checked or backed up is either noted in    *)
(* raced or its own rename.                                                *)
THEOREM Inductive == Spec => []IInv
<1>1. Init => AllCommitFacts
  BY DEF Init, AllCommitFacts, CommitFacts, LockFacts, CheckFacts, BackupFacts,
         AfterInput, AfterOutput
<1>2. TypeOK /\ AllFacts /\ AllCommitFacts /\ [Next]_vars => AllCommitFacts'
  <2> SUFFICES ASSUME TypeOK, AllFacts, AllCommitFacts, [Next]_vars,
                      NEW s \in Runs
               PROVE  CommitFacts(s)'
    BY DEF AllCommitFacts
  <2> USE DEF asked, view, kept, past
  <2>1. ASSUME NEW r \in Runs, RequestCancel(r) PROVE CommitFacts(s)'
    BY <2>1, OtherRunMoves DEF RequestCancel
  <2>2. ASSUME NEW r \in Runs, Begin(r) PROVE CommitFacts(s)'
    <3>1. pc[r] = "start" /\ pc' = [pc EXCEPT ![r] = "read"]
      BY <2>2 DEF Begin, At, Goto
    <3>2. CASE s # r
      <4>1. Target(s) \in Paths
        BY EditTyped
      <4>2. lock[Target(s)] = s => lock'[Target(s)] = s
        BY <2>2, <3>2, <4>1, RunAssumption DEF Begin, TypeOK
      <4>3. QED BY <2>2, <3>1, <3>2, <4>2, OtherRunMoves DEF Begin, TypeOK
    <3>3. CASE s = r
      <4>1. pc'[r] = "read" /\ Target(r) \in Paths
        BY <3>1, EditTyped DEF TypeOK
      <4>2. LockFacts(r)'
        BY <2>2, <4>1 DEF Begin, LockFacts, Dry, Target, TypeOK
      <4>3. CheckFacts(r)' /\ BackupFacts(r)'
        BY <2>2, <4>1 DEF Begin, CheckFacts, BackupFacts, AfterInput, AfterOutput,
                          AllCommitFacts, CommitFacts, InPlace, Edit, Target
      <4>4. QED BY <3>3, <4>2, <4>3 DEF CommitFacts
    <3>4. QED BY <3>2, <3>3
  <2>3. ASSUME NEW r \in Runs, ReadInput(r) \/ ReadOutput(r)
        PROVE  CommitFacts(s)'
    <3>1. CASE s # r
      BY <2>3, <3>1, OtherRunMoves DEF ReadInput, ReadOutput, Goto, TypeOK
    <3>2. CASE s = r
      <4>1. /\ pc'[r] \in {"readout", "decode"}
            /\ pc[r] \in {"read", "readout"}
        BY <2>3 DEF ReadInput, ReadOutput, At, Goto, TypeOK
      <4>2. LockFacts(r)' /\ BackupFacts(r)'
        BY <2>3, <4>1 DEF ReadInput, ReadOutput, LockFacts, BackupFacts,
                          AllCommitFacts, CommitFacts, Dry, Target
      <4>3. CheckFacts(r)'
        BY <2>3, <4>1 DEF ReadInput, ReadOutput, At, Goto, TypeOK, CheckFacts,
                          AllCommitFacts, CommitFacts, AfterInput, AfterOutput,
                          InPlace, Edit, Target
      <4>4. QED BY <3>2, <4>2, <4>3 DEF CommitFacts
    <3>3. QED BY <3>1, <3>2
  <2>4. ASSUME NEW r \in Runs,
               Load(r) \/ FetchWeb(r) \/ PlanRound(r) \/ SettledRound(r)
        PROVE  CommitFacts(s)'
    BY <2>4, MoveCommits
    DEF Load, FetchWeb, PlanRound, SettledRound, At, GoOn, Stages, AfterInput,
        AfterOutput
  <2>5. ASSUME NEW r \in Runs, LeagueMoves(r) \/ NoLeagueMoves(r)
        PROVE  CommitFacts(s)'
    BY <2>5, MoveCommits
    DEF LeagueMoves, NoLeagueMoves, At, GoOn, Stages, AfterInput, AfterOutput
  <2>6. ASSUME NEW r \in Runs, EffectiveRound(r) PROVE CommitFacts(s)'
    <3>1. PICK stage \in {"plan", "leagues"} : Goto(r, stage)
      BY <2>6 DEF EffectiveRound
    <3>2. QED BY <2>6, <3>1, MoveCommits
              DEF EffectiveRound, At, Stages, AfterInput, AfterOutput
  <2>7. ASSUME NEW r \in Runs, CheckInput(r), InputAsRead(r)
        PROVE  CommitFacts(s)'
    <3>1. InPlace(r) => OutputAsRead(r)
      BY <2>7 DEF AllCommitFacts, CommitFacts, CheckFacts, InPlace, InputAsRead,
                  OutputAsRead
    <3>2. QED BY <2>7, <3>1, MoveCommits
              DEF CheckInput, GoOn, Stages, AfterInput, AfterOutput
  <2>8. ASSUME NEW r \in Runs, CheckOutput(r), OutputAsRead(r)
        PROVE  CommitFacts(s)'
    BY <2>8, MoveCommits DEF CheckOutput, GoOn, Stages, AfterInput, AfterOutput
  <2>9. ASSUME NEW r \in Runs, BeginCommit(r) PROVE CommitFacts(s)'
    BY <2>9, MoveCommits DEF BeginCommit, GoOn, Stages, AfterInput, AfterOutput
  <2>10. ASSUME NEW r \in Runs, AppendLog(r) PROVE CommitFacts(s)'
    BY <2>10, MoveCommits DEF AppendLog, GoOn, Stages, AfterInput, AfterOutput
  <2>11. ASSUME NEW r \in Runs, CopyBackup(r) PROVE CommitFacts(s)'
    <3> DEFINE c == disk[BackupSource(r)]
    <3>1. /\ pc[r] = "backup" /\ pc' = [pc EXCEPT ![r] = "compare"]
          /\ backups' = [backups EXCEPT ![Target(r)] = Append(backups[Target(r)], c)]
          /\ UNCHANGED <<req, disk, lock, seen, raced, replaced>>
      BY <2>11 DEF CopyBackup, AddBackup, GoOn, Goto
    <3>2. Target(r) \in Paths /\ Target(s) \in Paths /\ c \in File
      BY EditTyped DEF BackupSource, TypeOK
    <3>3. CASE s # r
      <4>1. pc[s] \in Frozen => backups'[Target(s)] = backups[Target(s)]
        BY <3>1, <3>2, <3>3, CommitsAlone DEF Frozen, TypeOK
      <4>2. QED BY <3>1, <3>3, <4>1, OtherRunMoves DEF TypeOK
    <3>4. CASE s = r
      <4>1. pc'[r] = "compare" /\ Target(r)' = Target(r)
        BY <3>1 DEF Target, TypeOK
      <4>2. backups'[Target(r)] # <<>>
        BY <3>1, <3>2, AppendProperties, EmptySeq DEF TypeOK
      <4>3. LockFacts(r)' /\ BackupFacts(r)'
        BY <3>1, <4>1, <4>2 DEF LockFacts, BackupFacts, AllCommitFacts, CommitFacts, Dry
      <4>4. CheckFacts(r)'
        BY <3>1, <4>1 DEF CheckFacts, AllCommitFacts, CommitFacts, AfterInput,
                          AfterOutput, InPlace, Edit
      <4>5. QED BY <3>4, <4>3, <4>4 DEF CommitFacts
    <3>5. QED BY <3>3, <3>4
  <2>12. ASSUME NEW r \in Runs, CompareBackup(r),
                disk[BackupSource(r)] = Newest(backups[Target(r)])
         PROVE  CommitFacts(s)'
    <3> DEFINE copies == backups[Target(r)]
    <3>1. /\ pc[r] = "compare" /\ pc' = [pc EXCEPT ![r] = "rename"]
          /\ backups' = [backups EXCEPT ![Target(r)] = Prune(copies)]
          /\ UNCHANGED <<req, disk, lock, seen, raced, replaced>>
      BY <2>12 DEF CompareBackup, Goto, GoOn
    <3>2. /\ Target(r) \in Paths /\ Target(s) \in Paths
          /\ copies \in Seq(File \cup {Torn})
      BY EditTyped DEF TypeOK
    <3>3. CASE s # r
      <4>1. pc[s] \in Frozen => backups'[Target(s)] = backups[Target(s)]
        BY <3>1, <3>2, <3>3, CommitsAlone DEF Frozen, TypeOK
      <4>2. QED BY <3>1, <3>3, <4>1, OtherRunMoves DEF TypeOK
    <3>4. CASE s = r
      <4>1. pc'[r] = "rename" /\ Target(r)' = Target(r)
        BY <3>1 DEF Target, TypeOK
      <4>2. BackupSource(r)' = BackupSource(r)
        BY <3>1 DEF BackupSource, InPlace, Edit, Target
      <4>3. copies # <<>>
        BY <3>1 DEF AllCommitFacts, CommitFacts, BackupFacts
      <4>4. /\ backups'[Target(r)] = Prune(copies)
            /\ Prune(copies) # <<>> /\ Len(Prune(copies)) <= MaxBackups
            /\ Newest(Prune(copies)) = disk[BackupSource(r)]
        BY <2>12, <3>1, <3>2, <4>3, PruneKeepsNewest DEF TypeOK
      <4>5. LockFacts(r)' /\ BackupFacts(r)'
        BY <3>1, <4>1, <4>2, <4>4
        DEF LockFacts, BackupFacts, AllCommitFacts, CommitFacts, Dry
      <4>6. CheckFacts(r)'
        BY <3>1, <4>1 DEF CheckFacts, AllCommitFacts, CommitFacts, AfterInput,
                          AfterOutput, InPlace, Edit
      <4>7. QED BY <3>4, <4>5, <4>6 DEF CommitFacts
    <3>5. QED BY <3>3, <3>4
  <2>13. ASSUME NEW r \in Runs, Rename(r) PROVE CommitFacts(s)'
    <3>1. Target(r) \in Paths
      BY EditTyped
    <3>2. CASE s # r
      <4>1. /\ pc'[s] = pc[s] /\ replaced'[s] = replaced[s]
            /\ raced'[s] = raced[s] \cup Outdates(Target(r), s)
            /\ \A q \in Paths \ {Target(r)} : disk'[q] = disk[q]
        BY <2>13, <3>2 DEF Rename, Goto, TypeOK
      <4>2. QED BY <2>13, <3>1, <4>1, OtherWritesNoted DEF Rename
    <3>3. CASE s = r
      <4>1. /\ pc[r] = "rename" /\ pc'[r] = "log" /\ Target(r)' = Target(r)
            /\ replaced'[r] = disk[Target(r)] /\ raced'[r] = raced[r]
        BY <2>13 DEF Rename, Goto, Target, TypeOK
      <4>2. LockFacts(r)'
        BY <2>13, <4>1 DEF Rename, LockFacts, AllCommitFacts, CommitFacts, Dry
      <4>3. CheckFacts(r)'
        BY <2>13, <4>1 DEF Rename, CheckFacts, AllCommitFacts, CommitFacts,
                           AfterInput, AfterOutput, InPlace, Edit
      <4>4. seen[r].output # Absent => BackupSource(r) = Target(r)
        BY DEF BackupSource, InPlace
      <4>5. BackupFacts(r)'
        BY <2>13, <4>1, <4>4 DEF Rename, BackupFacts, AllCommitFacts, CommitFacts
      <4>6. QED BY <3>3, <4>2, <4>3, <4>5 DEF CommitFacts
    <3>4. QED BY <3>2, <3>3
  <2>14. ASSUME NEW p \in Paths, OthersWrite(p) PROVE CommitFacts(s)'
    <3>1. /\ \A q \in Paths \ {p} : disk'[q] = disk[q]
          /\ raced'[s] = raced[s] \cup Outdates(p, s)
      BY <2>14 DEF OthersWrite, TypeOK
    <3>2. QED BY <2>14, <3>1, OtherWritesNoted DEF OthersWrite
  <2>15. CASE UNCHANGED vars
    BY <2>15, OtherRunMoves DEF vars
  <2>16. ASSUME NEW r \in Runs,
                \/ Cancelled(r) \/ Fails(r) \/ Locked(r) \/ Unchanged(r)
                \/ IntegrityFails(r) \/ Preview(r) \/ WriteReports(r)
         PROVE  CommitFacts(s)'
    BY <2>16, EndCommits DEF Cancelled, Fails, Locked, Unchanged, IntegrityFails,
                             Preview, WriteReports
  <2>17. ASSUME NEW r \in Runs, CopyBackupFails(r) \/ Crash(r)
         PROVE  CommitFacts(s)'
    BY <2>17, EndCommits DEF CopyBackupFails, Crash, AddBackup, Frozen, TypeOK
  <2>18. ASSUME NEW r \in Runs,
                \/ CheckInput(r) /\ ~InputAsRead(r)
                \/ CheckOutput(r) /\ ~OutputAsRead(r)
         PROVE  CommitFacts(s)'
    BY <2>18, EndCommits DEF CheckInput, CheckOutput
  <2>19. ASSUME NEW r \in Runs, CompareBackup(r),
                disk[BackupSource(r)] # Newest(backups[Target(r)])
         PROVE  CommitFacts(s)'
    BY <2>19, EndCommits DEF CompareBackup, Frozen, TypeOK
  <2>20. QED
    BY <2>1, <2>2, <2>3, <2>4, <2>5, <2>6, <2>7, <2>8, <2>9, <2>10, <2>11,
       <2>12, <2>13, <2>14, <2>15, <2>16, <2>17, <2>18, <2>19
    DEF Next, RunStep
<1>3. Spec => []AllCommitFacts
  BY <1>1, <1>2, Typed, Staged, PTL DEF Spec
<1>4. TypeOK /\ AllFacts /\ AllCommitFacts => IInv
  BY DEF IInv, AllFacts, Facts, AllCommitFacts, CommitFacts
<1>5. QED BY <1>3, <1>4, Typed, Staged, PTL

-----------------------------------------------------------------------------
(* A run that accepted a cancel request or reported an error wrote nothing *)
(* (commit.rs:36, commit.rs:46), however its steps interleave with those   *)
(* of other runs and of other programs.                                    *)
THEOREM Stopped == Spec => []StoppedRunsWriteNothing
<1>1. IInv => StoppedRunsWriteNothing
  BY DEF IInv, StageFacts, PublishedFacts, TraceFacts, StoppedRunsWriteNothing
<1>2. QED BY <1>1, Inductive, PTL

(* Only a result that passed verification is ever in a save file, and only *)
(* in the file that was asked for (README.md:107).                         *)
THEOREM Sound == Spec => []OnlySoundResultsOnDisk
<1>1. IInv => OnlySoundResultsOnDisk
  BY DEF IInv, PublishedFacts, TraceFacts, OnlySoundResultsOnDisk
<1>2. QED BY <1>1, Inductive, PTL

(* A step of a preview changes no save file, lock, backup, state directory *)
(* or log (README.md:64, prepare.rs:131): the stages before the commit each *)
(* spare it, it holds no lock that ending could give up, and no path leads *)
(* it into the commit, whose stages do not ask.                            *)
THEOREM Previewed == Spec => PreviewsLeaveNoTrace
<1> DEFINE Traceless == \A r \in Runs :
                            Dry(r) /\ Moves(r) => UNCHANGED <<disk, lock, kept>>
<1> USE DEF asked, view, kept, past
<1>1. ASSUME IInv, [Next]_vars, NEW r \in Runs, Dry(r), Moves(r)
      PROVE  UNCHANGED <<disk, lock, kept>>
  <2>1. pc[r] \notin Frozen
    BY <1>1 DEF IInv, StageFacts
  <2>2. ASSUME NEW o, End(r, o)
        PROVE  UNCHANGED lock
    BY <1>1, <2>2 DEF IInv, TypeOK, TraceFacts, End
  <2>3. RunStep(r) \/ Crash(r)
    <3>1. pc'[r] # pc[r]
      BY <1>1 DEF Moves
    <3>2. PICK q \in Runs : RunStep(q) \/ Crash(q)
      BY <1>1, <3>1 DEF Next, vars, RequestCancel, OthersWrite
    <3>3. \E stage : Goto(q, stage)
      BY <3>2
      DEF RunStep, Cancelled, Fails, Begin, Locked, ReadInput, ReadOutput, Load,
          FetchWeb, PlanRound, EffectiveRound, SettledRound, LeagueMoves,
          NoLeagueMoves, Unchanged, IntegrityFails, CheckInput, CheckOutput,
          Preview, BeginCommit, CopyBackup, CopyBackupFails, CompareBackup,
          Rename, AppendLog, WriteReports, Crash, End
    <3>4. q = r
      BY <1>1, <3>1, <3>3 DEF Goto, IInv, TypeOK
    <3>5. QED BY <3>2, <3>4
  <2>4. CASE \/ Cancelled(r) \/ Fails(r) \/ Locked(r) \/ IntegrityFails(r)
             \/ Preview(r)
    BY <2>2, <2>4 DEF Cancelled, Fails, Locked, IntegrityFails, Preview
  <2>5. CASE \/ Begin(r) \/ ReadInput(r) \/ ReadOutput(r) \/ EffectiveRound(r)
             \/ SettledRound(r) \/ LeagueMoves(r) \/ NoLeagueMoves(r)
    BY <1>1, <2>5
    DEF Begin, ReadInput, ReadOutput, EffectiveRound, SettledRound, LeagueMoves,
        NoLeagueMoves, GoOn
  <2>6. CASE Load(r) \/ FetchWeb(r) \/ PlanRound(r)
    BY <1>1, <2>6
    DEF Load, StoreClubList, FetchWeb, CacheDir, PlanRound, SaveIdentities, GoOn
  <2>7. CASE Unchanged(r)
    BY <1>1, <2>2, <2>7 DEF Unchanged, NotAppliedReport
  <2>8. CASE CheckInput(r) \/ CheckOutput(r)
    BY <2>2, <2>8 DEF CheckInput, CheckOutput, GoOn
  <2>9. CASE BeginCommit(r)
    BY <1>1, <2>9 DEF BeginCommit
  <2>10. CASE \/ CopyBackup(r) \/ CopyBackupFails(r) \/ CompareBackup(r)
              \/ Rename(r) \/ AppendLog(r) \/ WriteReports(r)
    BY <2>1, <2>10
    DEF CopyBackup, CopyBackupFails, CompareBackup, Rename, AppendLog,
        WriteReports, Frozen
  <2>11. CASE Crash(r)
    BY <2>1, <2>2, <2>11 DEF Crash, Frozen
  <2>12. QED
    BY <2>3, <2>4, <2>5, <2>6, <2>7, <2>8, <2>9, <2>10, <2>11 DEF RunStep
<1>2. IInv /\ [Next]_vars => [Traceless]_vars
  BY <1>1
<1>3. QED BY <1>2, Inductive, PTL DEF Spec, PreviewsLeaveNoTrace

(* While a run that has replaced a file still holds its lock, the newest   *)
(* backup is what it replaced and is among at most MaxBackups              *)
(* (backup.rs:1), for any number of runs that share the target.            *)
THEOREM BackedUp == Spec => []ReplacedIsBackedUp
<1>1. IInv => ReplacedIsBackedUp
  BY DEF IInv, BackupFacts, ReplacedIsBackedUp
<1>2. QED BY <1>1, Inductive, PTL

(* No step replaces a file that others changed before the run's last check *)
(* of it (verify.rs:128): only a rename publishes, and what CheckInput and *)
(* CheckOutput saw still holds then unless raced says otherwise.           *)
THEOREM LateWritersOnly == Spec => OnlyLateWritersLose
<1> DEFINE Careful == \A r \in Runs : Publishes(r) /\ "checked" \notin raced[r]
                                          => FilesAsRead(r)
<1>1. ASSUME IInv, [Next]_vars, NEW r \in Runs, Publishes(r),
             "checked" \notin raced[r]
      PROVE  FilesAsRead(r)
  <2>1. Rename(r)
    <3> USE DEF asked, view, kept, past
    <3>1. replaced'[r] # replaced[r]
      BY <1>1 DEF Publishes, Published
    <3>2. ~ UNCHANGED replaced
      BY <3>1
    <3>3. \E q \in Runs : Rename(q)
      BY <1>1, <3>2
      DEF Next, vars, RunStep, RequestCancel, Cancelled, Fails, Begin, Locked,
          ReadInput, ReadOutput, Load, FetchWeb, PlanRound, EffectiveRound,
          SettledRound, LeagueMoves, NoLeagueMoves, Unchanged, IntegrityFails, CheckInput, CheckOutput,
          Preview, BeginCommit, CopyBackup, CopyBackupFails, CompareBackup,
          AppendLog, WriteReports, Crash, OthersWrite
    <3>4. PICK q \in Runs : Rename(q)
      BY <3>3
    <3>5. q = r
      BY <3>1, <3>4 DEF Rename, IInv, TypeOK
    <3>6. QED BY <3>4, <3>5
  <2>2. pc[r] = "rename" /\ CheckFacts(r)
    BY <1>1, <2>1 DEF Rename, IInv
  <2>3. QED BY <1>1, <2>2 DEF CheckFacts, AfterInput, AfterOutput, FilesAsRead
<1>2. IInv /\ [Next]_vars => [Careful]_vars
  BY <1>1
<1>3. QED BY <1>2, Inductive, PTL DEF Spec, OnlyLateWritersLose

-----------------------------------------------------------------------------
(* What SaveUpdate sees of a run.                                          *)
status == [r \in Runs |-> Status(r)]

(* A run that ends is one that stops, or had published before.             *)
LEMMA EndKeepsPromise ==
    ASSUME IInv, NEW r \in Runs, NEW o, End(r, o), pc[r] # "done",
           UNCHANGED <<req, token, disk, replaced>>
    PROVE  Promise!Stop(r) \/ UNCHANGED <<req, disk, status>>
<1>1. pc' = [pc EXCEPT ![r] = "done"] /\ pc \in [Runs -> Stages]
  BY DEF End, Goto, IInv, TypeOK
<1>2. \A s \in Runs \ {r} : Status(s)' = Status(s)
  BY <1>1 DEF Status, Published
<1>3. CASE Published(r)
  <2>1. Status(r)' = Status(r)
    BY <1>3 DEF Status, Published
  <2>2. QED BY <1>2, <2>1 DEF status
<1>4. CASE ~Published(r)
  <2>1. Status(r)' = "ended"
    BY <1>1, <1>4 DEF Status, Published
  <2>2. Status(r) \in {"open", "cancelled"}
    BY <1>4 DEF Status
  <2>3. status' = [status EXCEPT ![r] = "ended"]
    BY <1>2, <2>1 DEF status
  <2>4. QED BY <2>2, <2>3 DEF status, Promise!Stop
<1>5. QED BY <1>3, <1>4

(* A step that only moves a run along is invisible.                        *)
LEMMA MoveKeepsPromise ==
    ASSUME IInv, NEW r \in Runs, NEW stage, Goto(r, stage),
           pc[r] # "done", stage # "done",
           \A s \in Runs : token'[s] = "requested" <=> token[s] = "requested",
           UNCHANGED <<req, disk, replaced>>
    PROVE  UNCHANGED <<req, disk, status>>
<1>1. \A s \in Runs : pc'[s] = "done" <=> pc[s] = "done"
  BY DEF Goto, IInv, TypeOK
<1>2. \A s \in Runs : Status(s)' = Status(s)
  BY <1>1 DEF Status, Published
<1>3. QED BY <1>2 DEF status

(* The pipeline implements its promise: a save file changes at most once   *)
(* per run, as a whole, never for a preview, never after an accepted       *)
(* cancel request, and only in the file that was asked for.                *)
THEOREM Implements == Spec => KeepsPromise
<1>1. Init => Promise!Init
  BY RunAssumption DEF Init, Promise!Init, Status, Published
<1>2. IInv /\ [Next]_vars => [Promise!Next]_<<req, disk, status>>
  <2> SUFFICES ASSUME IInv, [Next]_vars
               PROVE  Promise!Next \/ UNCHANGED <<req, disk, status>>
    OBVIOUS
  <2> USE DEF asked, view, kept, past
  <2>1. ASSUME NEW r \in Runs, RequestCancel(r)
        PROVE  Promise!AcceptCancel(r)
    <3>1. ~Published(r)
      BY <2>1 DEF RequestCancel, IInv, PublishedFacts
    <3>2. Status(r) = "open" /\ Status(r)' = "cancelled"
      BY <2>1, <3>1 DEF RequestCancel, Status, Published, IInv, TypeOK
    <3>3. \A s \in Runs \ {r} : Status(s)' = Status(s)
      BY <2>1 DEF RequestCancel, Status, Published, IInv, TypeOK
    <3>4. status' = [status EXCEPT ![r] = "cancelled"]
      BY <3>2, <3>3 DEF status
    <3>5. QED BY <2>1, <3>2, <3>4 DEF RequestCancel, status, Promise!AcceptCancel
  <2>2. ASSUME NEW r \in Runs, Rename(r)
        PROVE  Promise!Publish(r)
    <3>1. /\ pc[r] = "rename" /\ ~Published(r) /\ mem[r] = r
          /\ token[r] = "committing" /\ ~Dry(r)
      BY <2>2 DEF Rename, IInv, StageFacts, PublishedFacts, Verified, Frozen
    <3>2. disk[Target(r)] # Never
      BY EditTyped, RunAssumption DEF IInv
    <3>3. Status(r) = "open" /\ Status(r)' = "published"
      BY <2>2, <3>1, <3>2 DEF Rename, Status, Published, IInv, TypeOK
    <3>4. \A s \in Runs \ {r} : Status(s)' = Status(s)
      BY <2>2 DEF Rename, Goto, Status, Published, IInv, TypeOK
    <3>5. status' = [status EXCEPT ![r] = "published"]
      BY <3>3, <3>4 DEF status
    <3>6. disk' = [disk EXCEPT ![req[r].target] = r] /\ UNCHANGED req
      BY <2>2, <3>1 DEF Rename, Target
    <3>7. QED BY <3>1, <3>3, <3>5, <3>6 DEF status, Dry, Promise!Publish
  <2>3. ASSUME NEW p \in Paths, OthersWrite(p)
        PROVE  Promise!OthersWrite(p)
    <3>1. \A s \in Runs : Status(s)' = Status(s)
      BY <2>3 DEF OthersWrite, Status, Published
    <3>2. QED BY <2>3, <3>1 DEF OthersWrite, status, Promise!OthersWrite
  <2>4. ASSUME NEW r \in Runs,
               \/ Begin(r) \/ ReadInput(r) \/ ReadOutput(r) \/ Load(r)
               \/ FetchWeb(r) \/ PlanRound(r)
        PROVE  UNCHANGED <<req, disk, status>>
    BY <2>4, MoveKeepsPromise
    DEF Begin, ReadInput, ReadOutput, Load, FetchWeb, PlanRound, GoOn, At
  <2>5. ASSUME NEW r \in Runs, EffectiveRound(r)
        PROVE  UNCHANGED <<req, disk, status>>
    BY <2>5, MoveKeepsPromise DEF EffectiveRound, At
  <2>6. ASSUME NEW r \in Runs,
               SettledRound(r) \/ LeagueMoves(r) \/ NoLeagueMoves(r)
        PROVE  UNCHANGED <<req, disk, status>>
    BY <2>6, MoveKeepsPromise
    DEF SettledRound, LeagueMoves, NoLeagueMoves, At
  <2>7. ASSUME NEW r \in Runs, BeginCommit(r)
        PROVE  UNCHANGED <<req, disk, status>>
    <3>1. \A s \in Runs : token'[s] = "requested" <=> token[s] = "requested"
      BY <2>7 DEF BeginCommit, CanFreeze, IInv, TypeOK
    <3>2. QED BY <2>7, <3>1, MoveKeepsPromise DEF BeginCommit
  <2>8. ASSUME NEW r \in Runs, CopyBackup(r) \/ AppendLog(r)
        PROVE  UNCHANGED <<req, disk, status>>
    BY <2>8, MoveKeepsPromise DEF CopyBackup, AppendLog
  <2>9. ASSUME NEW r \in Runs,
               CheckInput(r) \/ CheckOutput(r) \/ CompareBackup(r)
        PROVE  Promise!Stop(r) \/ UNCHANGED <<req, disk, status>>
    <3>1. CASE CheckInput(r)
      BY <3>1, MoveKeepsPromise, EndKeepsPromise DEF CheckInput
    <3>2. CASE CheckOutput(r)
      BY <3>2, MoveKeepsPromise, EndKeepsPromise DEF CheckOutput
    <3>3. CASE CompareBackup(r)
      BY <3>3, MoveKeepsPromise, EndKeepsPromise DEF CompareBackup
    <3>4. QED BY <2>9, <3>1, <3>2, <3>3
  <2>10. ASSUME NEW r \in Runs, Cancelled(r) \/ Fails(r) \/ Locked(r)
         PROVE  Promise!Stop(r) \/ UNCHANGED <<req, disk, status>>
    BY <2>10, EndKeepsPromise DEF Cancelled, Checkpoints, Fails, Locked, At
  <2>11. ASSUME NEW r \in Runs, Unchanged(r) \/ IntegrityFails(r) \/ Preview(r)
         PROVE  Promise!Stop(r) \/ UNCHANGED <<req, disk, status>>
    BY <2>11, EndKeepsPromise DEF Unchanged, IntegrityFails, Preview, At
  <2>12. ASSUME NEW r \in Runs,
                CopyBackupFails(r) \/ WriteReports(r) \/ Crash(r)
         PROVE  Promise!Stop(r) \/ UNCHANGED <<req, disk, status>>
    BY <2>12, EndKeepsPromise DEF CopyBackupFails, WriteReports, Crash
  <2>13. CASE UNCHANGED vars
    BY <2>13 DEF vars, status, Status, Published
  <2>14. QED
    BY <2>1, <2>2, <2>3, <2>4, <2>5, <2>6, <2>7, <2>8, <2>9, <2>10, <2>11,
       <2>12, <2>13
    DEF Next, RunStep, Promise!Next
<1>3. Promise!Spec <=> Promise!Init /\ [][Promise!Next]_<<req, disk, status>>
  BY DEF Promise!Spec, Promise!vars, status
<1>4. QED BY <1>1, <1>2, <1>3, Inductive, PTL DEF Spec, KeepsPromise

=============================================================================
