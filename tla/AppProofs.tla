----------------------------- MODULE AppProofs ------------------------------
(***************************************************************************)
(* What holds of the app, AppSession and ExeSwap.                          *)
(*                                                                         *)
(* AppSession, for any number of saves, game folders, runs, releases and   *)
(* waiting workers: the window and its workers stay in step, no window     *)
(* closes under a commit, what the setup screen says is about the choice   *)
(* there is, and what replaces the app is all of a release that was        *)
(* offered.                                                                *)
(*                                                                         *)
(* ExeSwap, for any number of instances and copies: every instance         *)
(* executes a complete file that is named by the executable's path or by   *)
(* .old (ImagesKept).  A step that would drop the file under one of the    *)
(* two names is one the file system refuses while that file executes, so   *)
(* the acting instance's own image must be under the other name.           *)
(***************************************************************************)
EXTENDS AppSession, ExeSwap, SequenceTheorems, TLAPS

-----------------------------------------------------------------------------
(* The setup: one operation after the other.                               *)

(* A choice that is probed is being checked, by the newest probe; what was *)
(* on its way is older now.                                                *)
LEMMA ProbedSound ==
    ASSUME NEW s, SoundSetup(s), NEW c \in PathPairs
    PROVE  /\ SoundSetup(Probed(s, c))
           /\ Probed(s, c).generation = s.generation + 1
           /\ \A a \in Answer : CurrentAnswer(s, a) => CurrentAnswer(Probed(s, c), a)
<1> DEFINE t == Probed(s, c)
<1>1. /\ t.choice = c /\ t.verdict = Checking(c) /\ t.generation = s.generation + 1
      /\ t.probes = s.probes \cup {[generation |-> s.generation + 1, choice |-> c]}
  BY DEF Probed
<1>2. s.generation \in Nat /\ t.generation \in Nat
  BY <1>1 DEF SoundSetup
<1>3. \A p \in s.probes : p \in Probe /\ CurrentProbe(s, p)
  BY DEF SoundSetup
<1>4. t.probes \subseteq Probe
  BY <1>1, <1>2, <1>3 DEF Probe
<1>5. ASSUME NEW p \in t.probes PROVE CurrentProbe(t, p)
  <2>1. CASE p \in s.probes
    <3>1. p.generation \in Nat /\ p.generation <= s.generation
      BY <1>3, <2>1 DEF Probe, CurrentProbe
    <3>2. QED BY <1>1, <1>2, <3>1 DEF CurrentProbe
  <2>2. CASE p = [generation |-> s.generation + 1, choice |-> c]
    BY <1>1, <1>2, <2>2 DEF CurrentProbe
  <2>3. QED BY <1>1, <2>1, <2>2
<1>6. SoundSetup(t)
  BY <1>1, <1>2, <1>4, <1>5 DEF SoundSetup
<1>7. ASSUME NEW a \in Answer, CurrentAnswer(s, a) PROVE CurrentAnswer(t, a)
  BY <1>1, <1>2, <1>7 DEF CurrentAnswer, Answer
<1>8. QED BY <1>1, <1>6, <1>7

(* State is what SoundSetup speaks of.                                     *)
LEMMA StateFields ==
    /\ State.choice = choice /\ State.verdict = verdict
    /\ State.generation = generation /\ State.probes = probes
BY DEF State

IsSetup(s) ==
    \E c, v, g, p : s = [choice |-> c, verdict |-> v, generation |-> g, probes |-> p]

(* A message keeps the setup sound: the answer of the newest probe is the  *)
(* verdict of the choice, an older one is ignored, and the detection makes *)
(* a new choice, which is probed.                                          *)
LEMMA ReceivedSound ==
    ASSUME NEW s, SoundSetup(s), NEW a \in Answer, CurrentAnswer(s, a),
           IsSetup(s)
    PROVE  /\ SoundSetup(Received(s, a)) /\ IsSetup(Received(s, a))
           /\ \/ Received(s, a).generation = s.generation
              \/ /\ a.kind = "detected"
                 /\ Received(s, a).generation = s.generation + 1
           /\ \A b \in Answer :
                 CurrentAnswer(s, b) => CurrentAnswer(Received(s, a), b)
<1> DEFINE t == Received(s, a)
<1>1. CASE a.kind = "detected"
  <2>1. a.found \in PathPairs
    BY <1>1, SetupAssumption DEF Answer
  <2>2. t = Detected(s, a.found)
    BY <1>1 DEF Received
  <2>3. t = s \/ \E c \in PathPairs : t = Probed(s, c)
    BY <2>1, <2>2 DEF Detected, PathPairs, SoundSetup
  <2>4. CASE t = s
    BY <2>4
  <2>5. CASE \E c \in PathPairs : t = Probed(s, c)
    <3>0. PICK c \in PathPairs : t = Probed(s, c)
      BY <2>5
    <3>1. IsSetup(t)
      BY <3>0 DEF Probed, IsSetup
    <3>2. QED BY <1>1, <3>0, <3>1, ProbedSound
  <2>6. QED BY <2>3, <2>4, <2>5
<1>2. CASE a.kind # "detected"
  <2>1. a.kind = "probed"
    BY <1>2 DEF Answer
  <2>2. CASE ~Wanted(s, a)
    BY <1>2, <2>2 DEF Received
  <2>3. CASE Wanted(s, a)
    <3>1. t = [s EXCEPT !.verdict = a.verdict]
      BY <1>2, <2>3 DEF Received
    <3>2. a.verdict = Verdict(s.choice)
      BY <2>1, <2>3 DEF CurrentAnswer, Wanted
    <3>3. /\ IsSetup(t)
          /\ t.choice = s.choice /\ t.verdict = a.verdict
          /\ t.generation = s.generation /\ t.probes = s.probes
      BY <3>1 DEF IsSetup
    <3>4. QED BY <3>2, <3>3 DEF SoundSetup, CurrentAnswer, CurrentProbe
  <2>4. QED BY <2>2, <2>3
<1>3. QED BY <1>1, <1>2

(* What holds when App::poll has taken i messages: the setup is sound, the *)
(* answers still to come are about its choice or older, and the generation *)
(* has grown by no more than the detection that has come by.               *)
Waiting(i) == i + 1 .. Len(mailbox)
DetectionWaits(i) == \E j \in Waiting(i) : DetectedAt(j)

PolledFacts(i, s) ==
    /\ SoundSetup(s) /\ IsSetup(s)
    /\ \A j \in Waiting(i) : CurrentAnswer(s, mailbox[j])
    /\ s.generation >= generation
    /\ s.generation + (IF DetectionWaits(i) THEN 1 ELSE 0)
           <= generation + (IF DetectionWaits(0) THEN 1 ELSE 0)

Polling == INSTANCE FoldInduction WITH Op <- LAMBDA e, s, x : Received(s, x), Inv <- LAMBDA e, i, s : PolledFacts(i, s)

LEMMA PollTurn ==
    ASSUME SetupFacts, generation \in Nat, NEW i \in 1 .. Len(mailbox),
           NEW s, PolledFacts(i - 1, s)
    PROVE  PolledFacts(i, Received(s, mailbox[i]))
<1> DEFINE t == Received(s, mailbox[i])
<1>1. Len(mailbox) \in Nat /\ \A j \in 1 .. Len(mailbox) : mailbox[j] \in Answer
  BY LenProperties, ElementOfSeq DEF SetupFacts, MailboxFacts
<1>2. /\ i \in Waiting(i - 1)
      /\ Waiting(i - 1) = {i} \cup Waiting(i)
      /\ Waiting(i) \subseteq 1 .. Len(mailbox)
  BY <1>1 DEF Waiting
<1>3. SoundSetup(s) /\ IsSetup(s) /\ CurrentAnswer(s, mailbox[i])
  BY <1>2 DEF PolledFacts
<1>4. /\ SoundSetup(t) /\ IsSetup(t)
      /\ \/ t.generation = s.generation
         \/ DetectedAt(i) /\ t.generation = s.generation + 1
      /\ \A b \in Answer : CurrentAnswer(s, b) => CurrentAnswer(t, b)
  BY <1>1, <1>3, ReceivedSound DEF DetectedAt
<1>5. \A j \in Waiting(i) : CurrentAnswer(t, mailbox[j])
  BY <1>1, <1>2, <1>4 DEF PolledFacts
<1>6. DetectedAt(i) => ~DetectionWaits(i) /\ DetectionWaits(i - 1)
  <2>1. ASSUME DetectedAt(i), NEW j \in Waiting(i), DetectedAt(j) PROVE FALSE
    <3>1. i \in DOMAIN mailbox /\ j \in DOMAIN mailbox /\ i # j
      BY <1>1, <1>2, LenProperties DEF SetupFacts, MailboxFacts, Waiting
    <3>2. QED BY <2>1, <3>1 DEF SetupFacts, MailboxFacts
  <2>2. QED BY <1>2, <2>1 DEF DetectionWaits
<1>7. ~DetectedAt(i) => (DetectionWaits(i - 1) <=> DetectionWaits(i))
  BY <1>2 DEF DetectionWaits
<1>8. s.generation \in Nat /\ t.generation \in Nat
  BY <1>3, <1>4 DEF SoundSetup
<1>9. /\ t.generation + (IF DetectionWaits(i) THEN 1 ELSE 0)
             <= generation + (IF DetectionWaits(0) THEN 1 ELSE 0)
      /\ t.generation >= generation
  BY <1>4, <1>6, <1>7, <1>8 DEF PolledFacts
<1>10. QED BY <1>4, <1>5, <1>9 DEF PolledFacts

(* The two ways of speaking of a detection that is on its way.             *)
LEMMA DetectionOnItsWay ==
    ASSUME mailbox \in Seq(Answer)
    PROVE  DetectionWaits(0) <=> \E i \in DOMAIN mailbox : DetectedAt(i)
<1>1. Waiting(0) = DOMAIN mailbox
  BY LenProperties DEF Waiting
<1>2. QED BY <1>1 DEF DetectionWaits

(* App::poll keeps the setup sound whatever is in the channel and in which *)
(* order, and empties it.                                                  *)
LEMMA PollSound ==
    ASSUME SetupFacts, generation \in Nat, TakeAnswers
    PROVE  /\ SetupFacts' /\ generation' \in Nat /\ generation' >= generation
           /\ generation' + (IF Undetected' THEN 1 ELSE 0)
                  <= generation + (IF Undetected THEN 1 ELSE 0)
<1> DEFINE s == FoldLeft(Received, State, mailbox)
<1>1. /\ mailbox \in Seq(Answer) /\ Len(mailbox) \in Nat
      /\ DOMAIN mailbox = 1 .. Len(mailbox)
  BY LenProperties DEF SetupFacts, MailboxFacts
<1>2. PolledFacts(0, State)
  <2>1. IsSetup(State)
    BY DEF IsSetup, State
  <2>2. \A j \in Waiting(0) : CurrentAnswer(State, mailbox[j])
    BY <1>1 DEF Waiting, SetupFacts, MailboxFacts
  <2>3. QED BY <2>1, <2>2, StateFields DEF PolledFacts, SetupFacts
<1>3. PolledFacts(Len(mailbox), s)
  <2>1. \A i \in 1 .. Len(mailbox) : \A t :
           PolledFacts(i - 1, t) => PolledFacts(i, Received(t, mailbox[i]))
    BY PollTurn
  <2>2. PolledFacts(Len(mailbox), Polling!Fold(0, State, mailbox))
    BY <1>1, <1>2, <2>1, Polling!FoldInvariant
  <2>3. QED BY <2>2
        DEF Polling!Fold, FoldLeft, Polling!FoldLeft, MapThenFoldSet, Polling!MapThenFoldSet,
            Max, Polling!Max
<1> HIDE DEF s
<1>4. State' = [choice |-> s.choice, verdict |-> s.verdict,
                generation |-> s.generation, probes |-> s.probes]
  BY DEF TakeAnswers, Becomes, State, s
<1>5. State' = s
  BY <1>3, <1>4 DEF PolledFacts, IsSetup
<1>6. mailbox' = <<>> /\ detecting' = detecting
  BY DEF TakeAnswers
<1>7. SoundSetup(State)'
  BY <1>3, <1>5 DEF PolledFacts, SoundSetup, CurrentProbe
<1>8. MailboxFacts'
  BY <1>6 DEF MailboxFacts
<1>9. generation' = s.generation /\ s.generation \in Nat
  BY <1>3, <1>4 DEF PolledFacts, SoundSetup, State
<1>10. ~DetectionWaits(Len(mailbox))
  BY <1>1 DEF DetectionWaits, Waiting
<1>11. Undetected' <=> detecting
  BY <1>6 DEF Undetected
<1>12. Undetected <=> detecting \/ DetectionWaits(0)
  BY <1>1, DetectionOnItsWay DEF Undetected
<1>13. detecting => ~DetectionWaits(0)
  BY <1>1, DetectionOnItsWay DEF SetupFacts, MailboxFacts
<1>14. /\ s.generation <= generation + (IF DetectionWaits(0) THEN 1 ELSE 0)
       /\ s.generation >= generation
  BY <1>3, <1>9, <1>10 DEF PolledFacts
<1>15. QED
  BY <1>7, <1>8, <1>9, <1>11, <1>12, <1>13, <1>14 DEF SetupFacts

(* A choice that is probed again, by the user or on the way back.          *)
LEMMA ProbedAgain ==
    ASSUME SetupFacts, NEW c \in PathPairs, Becomes(Probed(State, c)),
           UNCHANGED <<detecting, mailbox>>
    PROVE  SetupFacts' /\ generation' = generation + 1 /\ Undetected' = Undetected
<1> DEFINE t == Probed(State, c)
<1>1. /\ SoundSetup(t) /\ t.generation = generation + 1 /\ IsSetup(t)
      /\ \A a \in Answer : CurrentAnswer(State, a) => CurrentAnswer(t, a)
  BY ProbedSound, StateFields DEF SetupFacts, IsSetup, Probed
<1>2. State' = t
  BY <1>1 DEF Becomes, State, IsSetup, Probed
<1> HIDE DEF t
<1>3. SoundSetup(State)'
  BY <1>1, <1>2 DEF SoundSetup, CurrentProbe
<1>4. \A i \in DOMAIN mailbox : CurrentAnswer(State', mailbox[i])
  <2>1. \A i \in DOMAIN mailbox : mailbox[i] \in Answer
    BY LenProperties, ElementOfSeq DEF SetupFacts, MailboxFacts
  <2>2. QED BY <1>1, <1>2, <2>1 DEF SetupFacts, MailboxFacts
<1>5. MailboxFacts'
  BY <1>4 DEF SetupFacts, MailboxFacts, CurrentAnswer, DetectedAt
<1>6. generation' = generation + 1
  BY <1>1 DEF Becomes, t
<1>7. Undetected' = Undetected
  BY DEF Undetected, DetectedAt
<1>8. QED BY <1>3, <1>5, <1>6, <1>7 DEF SetupFacts

LEMMA ChooseSound ==
    ASSUME SetupFacts, Choose
    PROVE  SetupFacts' /\ generation' = generation + 1 /\ Undetected' = Undetected
<1>1. PICK c \in PathPairs : Becomes(Probed(State, c))
  BY DEF Choose
<1>2. QED BY <1>1, ProbedAgain DEF Choose

(* On the way back from a result the choice is probed once or, with a game *)
(* folder chosen in the same call, twice.                                  *)
LEMMA BackSound ==
    ASSUME SetupFacts, CheckAgain \/ ChooseAnotherGame
    PROVE  /\ SetupFacts' /\ Undetected' = Undetected
           /\ generation' \in {generation + 1, generation + 2}
<1>1. choice \in PathPairs /\ generation \in Nat
  BY StateFields DEF SetupFacts, SoundSetup
<1>2. CASE CheckAgain
  BY <1>1, <1>2, ProbedAgain DEF CheckAgain
<1>3. CASE ChooseAnotherGame
  <2>1. PICK g \in Games :
           Becomes(Probed(Probed(State, choice), [choice EXCEPT !.game = g]))
    BY <1>3 DEF ChooseAnotherGame
  <2> DEFINE s == Probed(State, choice)
             c == [choice EXCEPT !.game = g]
             t == Probed(s, c)
  <2>2. c \in PathPairs
    BY <1>1 DEF PathPairs
  <2>3. /\ SoundSetup(s) /\ s.generation = generation + 1
        /\ \A a \in Answer : CurrentAnswer(State, a) => CurrentAnswer(s, a)
    BY <1>1, ProbedSound, StateFields DEF SetupFacts
  <2>4. IsSetup(t)
    BY DEF IsSetup, Probed
  <2> HIDE DEF s, c
  <2>5. /\ SoundSetup(t) /\ t.generation = generation + 2
        /\ \A a \in Answer : CurrentAnswer(State, a) => CurrentAnswer(t, a)
    BY <1>1, <2>2, <2>3, ProbedSound
  <2> USE DEF s, c
  <2>6. State' = t
    BY <2>1, <2>4 DEF Becomes, State, IsSetup, Probed
  <2> HIDE DEF t
  <2>7. SoundSetup(State)'
    BY <2>5, <2>6 DEF SoundSetup, CurrentProbe
  <2>8. \A i \in DOMAIN mailbox : CurrentAnswer(State', mailbox[i])
    <3>1. \A i \in DOMAIN mailbox : mailbox[i] \in Answer
      BY LenProperties, ElementOfSeq DEF SetupFacts, MailboxFacts
    <3>2. QED BY <2>5, <2>6, <3>1 DEF SetupFacts, MailboxFacts
  <2>9. MailboxFacts' /\ Undetected' = Undetected
    BY <1>3, <2>8 DEF ChooseAnotherGame, SetupFacts, MailboxFacts, CurrentAnswer,
                      DetectedAt, Undetected
  <2>10. generation' = generation + 2
    BY <2>1, <2>5 DEF Becomes, t
  <2>11. QED BY <2>7, <2>9, <2>10 DEF SetupFacts
<1>4. QED BY <1>2, <1>3

(* What a worker sends is about the choice it was started on.              *)
LEMMA AnswerArrives ==
    ASSUME SetupFacts, NEW a \in Answer, mailbox' = Append(mailbox, a),
           CurrentAnswer(State, a), UNCHANGED <<choice, verdict, generation>>,
           probes' \subseteq probes,
           \/ a.kind = "probed" /\ detecting' = detecting
           \/ a.kind = "detected" /\ detecting /\ ~detecting'
    PROVE  SetupFacts' /\ Undetected' = Undetected
<1>1. mailbox \in Seq(Answer) /\ Len(mailbox) \in Nat
  BY LenProperties DEF SetupFacts, MailboxFacts
<1>2. /\ mailbox' \in Seq(Answer) /\ Len(mailbox') = Len(mailbox) + 1
      /\ \A i \in 1 .. Len(mailbox) : mailbox'[i] = mailbox[i]
      /\ mailbox'[Len(mailbox) + 1] = a
  BY <1>1, AppendProperties
<1>3. /\ DOMAIN mailbox = 1 .. Len(mailbox)
      /\ DOMAIN mailbox' = 1 .. Len(mailbox) + 1
  BY <1>1, <1>2, LenProperties
<1>4. SoundSetup(State)'
  BY DEF SetupFacts, SoundSetup, State, CurrentProbe
<1>5. \A i \in DOMAIN mailbox' : CurrentAnswer(State', mailbox'[i])
  BY <1>1, <1>2, <1>3 DEF SetupFacts, MailboxFacts, CurrentAnswer, State
<1>6. CASE a.kind = "probed"
  <2>1. \A i \in DOMAIN mailbox' :
           DetectedAt(i)' <=> i \in DOMAIN mailbox /\ DetectedAt(i)
    BY <1>1, <1>2, <1>3, <1>6 DEF DetectedAt
  <2>2. MailboxFacts'
    BY <1>2, <1>3, <1>5, <1>6, <2>1 DEF SetupFacts, MailboxFacts
  <2>3. Undetected' = Undetected
    BY <1>1, <1>3, <1>6, <2>1 DEF Undetected
  <2>4. QED BY <1>4, <2>2, <2>3 DEF SetupFacts
<1>7. CASE a.kind = "detected"
  <2>1. \A i \in DOMAIN mailbox : ~DetectedAt(i)
    BY <1>7 DEF SetupFacts, MailboxFacts
  <2>2. \A i \in DOMAIN mailbox' : DetectedAt(i)' <=> i = Len(mailbox) + 1
    BY <1>1, <1>2, <1>3, <1>7, <2>1 DEF DetectedAt
  <2>3. MailboxFacts'
    BY <1>2, <1>5, <1>7, <2>2 DEF MailboxFacts
  <2>4. Undetected' /\ Undetected
    BY <1>1, <1>3, <1>7, <2>2 DEF Undetected
  <2>5. QED BY <1>4, <2>3, <2>4 DEF SetupFacts
<1>8. QED BY <1>6, <1>7

LEMMA CheckAnswered ==
    ASSUME SetupFacts, DetectionAnswers \/ \E p \in probes : ProbeAnswers(p)
    PROVE  SetupFacts' /\ generation' = generation /\ Undetected' = Undetected
<1>1. CASE DetectionAnswers
  <2>1. PICK f \in Found :
           mailbox' = Append(mailbox, [kind |-> "detected", found |-> f])
    BY <1>1 DEF DetectionAnswers
  <2> DEFINE a == [kind |-> "detected", found |-> f]
  <2>2. a \in Answer /\ CurrentAnswer(State, a) /\ a.kind = "detected"
    BY DEF Answer, CurrentAnswer
  <2>3. QED BY <1>1, <2>1, <2>2, AnswerArrives DEF DetectionAnswers
<1>2. ASSUME NEW p \in probes, ProbeAnswers(p)
      PROVE  SetupFacts' /\ generation' = generation /\ Undetected' = Undetected
  <2> DEFINE a == [kind |-> "probed", generation |-> p.generation,
                   verdict |-> Verdict(p.choice)]
  <2>1. p \in Probe /\ CurrentProbe(State, p)
    BY StateFields DEF SetupFacts, SoundSetup
  <2>2. a \in Answer /\ a.kind = "probed"
    BY <2>1 DEF Answer, Probe
  <2>3. CurrentAnswer(State, a)
    BY <2>1 DEF CurrentAnswer, CurrentProbe
  <2>4. QED BY <1>2, <2>2, <2>3, AnswerArrives DEF ProbeAnswers
<1>3. QED BY <1>1, <1>2

LEMMA SetupStutters ==
    ASSUME SetupFacts, UNCHANGED setup
    PROVE  SetupFacts' /\ generation' = generation /\ Undetected' = Undetected
BY DEF setup, SetupFacts, SoundSetup, MailboxFacts, State, CurrentProbe,
       CurrentAnswer, DetectedAt, Undetected

-----------------------------------------------------------------------------
(* The update of the app itself.                                           *)

LEMMA PublishedManifests ==
    ASSUME JobFacts
    PROVE  /\ \A m \in Range(published) : m \in Manifest
           /\ published # <<>> => Last(published) \in Range(published)
           /\ offer # <<>> => Head(offer) \in Range(offer)
<1>1. published \in Seq(Manifest) /\ offer \in Seq(Manifest)
  BY DEF JobFacts
<1>2. \A m \in Range(published) : m \in Manifest
  BY <1>1, LenProperties, ElementOfSeq DEF Range
<1>3. published # <<>> => Last(published) \in Range(published)
  BY <1>1, LenProperties, EmptySeq DEF Last, Range
<1>4. offer # <<>> => Head(offer) \in Range(offer)
  BY <1>1, LenProperties, EmptySeq DEF Range
<1>5. QED BY <1>2, <1>3, <1>4

ReleaseFacts == JobFacts /\ InstallsWhatWasReleased

LEMMA ReleaseStutters ==
    ASSUME ReleaseFacts, UNCHANGED release
    PROVE  ReleaseFacts'
BY DEF release, releasing, downloading, ReleaseFacts, JobFacts, Released,
       InstallsWhatWasReleased

(* What was released once stays released, so whatever comes out between    *)
(* two requests of the worker takes nothing from what it holds.            *)
LEMMA ReleasesStay ==
    ASSUME ReleaseFacts, UNCHANGED downloading, draft' \in Seq(Manifest),
           published' \in Seq(Manifest),
           \A m \in Range(published) : m \in Range(published'),
           published # <<>> => published' # <<>>
    PROVE  ReleaseFacts'
BY DEF downloading, ReleaseFacts, JobFacts, Released, InstallsWhatWasReleased

LEMMA ReleaseMade ==
    ASSUME ReleaseFacts, BuildRelease \/ PublishRelease
    PROVE  ReleaseFacts' /\ UNCHANGED downloading
<1>1. published \in Seq(Manifest) /\ draft \in Seq(Manifest)
  BY DEF ReleaseFacts, JobFacts
<1>2. CASE BuildRelease
  <2>1. PICK size \in Sizes :
           draft' \in {<<>>, <<[version |-> Planned[Len(published) + 1], size |-> size]>>}
    BY <1>2 DEF BuildRelease
  <2>2. Planned[Len(published) + 1] \in Version
    <3>1. /\ Len(published) \in Nat /\ Len(published) < Len(Planned)
          /\ Planned \in Seq(Version)
      BY <1>1, <1>2, UpdateAssumption, LenProperties DEF BuildRelease
    <3>2. QED BY <3>1, ElementOfSeq, LenProperties
  <2>3. draft' \in Seq(Manifest)
    <3>1. [version |-> Planned[Len(published) + 1], size |-> size] \in Manifest
      BY <2>2 DEF Manifest
    <3>2. CASE draft' = <<>>
      BY <3>2, EmptySeq
    <3>3. CASE draft' = <<[version |-> Planned[Len(published) + 1], size |-> size]>>
      <4> DEFINE m == [version |-> Planned[Len(published) + 1], size |-> size]
      <4>1. draft' = <<m>> /\ m \in Manifest
        BY <3>1, <3>3
      <4> HIDE DEF m
      <4>2. QED BY <4>1
    <3>4. QED BY <2>1, <3>2, <3>3
  <2>4. QED BY <1>2, <1>1, <2>3, ReleasesStay DEF BuildRelease
<1>3. CASE PublishRelease
  <2>1. published' \in {published, published \o draft} /\ draft' = <<>>
    BY <1>3 DEF PublishRelease
  <2>2. /\ published \o draft \in Seq(Manifest)
        /\ Len(published \o draft) = Len(published) + Len(draft)
        /\ \A i \in 1 .. Len(published) : (published \o draft)[i] = published[i]
    BY <1>1, ConcatProperties, LenProperties
  <2>3. \A m \in Range(published) : m \in Range(published \o draft)
    <3>1. /\ DOMAIN published = 1 .. Len(published) /\ Len(published) \in Nat
          /\ DOMAIN (published \o draft) = 1 .. Len(published) + Len(draft)
          /\ Len(draft) \in Nat
      BY <1>1, <2>2, LenProperties
    <3>2. QED BY <2>2, <3>1 DEF Range
  <2>4. published # <<>> => published \o draft # <<>>
    BY <1>1, <2>2, EmptySeq, LenProperties
  <2>5. draft' \in Seq(Manifest) /\ published' \in Seq(Manifest)
    <3>1. draft' \in Seq(Manifest)
      BY <2>1, EmptySeq
    <3>2. published' = published \/ published' = published \o draft
      BY <2>1
    <3>3. QED BY <1>1, <2>2, <3>1, <3>2
  <2>6. /\ \A m \in Range(published) : m \in Range(published')
        /\ published # <<>> => published' # <<>>
    BY <2>1, <2>3, <2>4
  <2>7. QED BY <1>3, <2>5, <2>6, ReleasesStay DEF PublishRelease
<1>4. QED BY <1>2, <1>3

(* The steps of a check and of an installation, and what each answers.     *)
CheckStep(a) ==
    \/ a = "nothing" /\ job'.step = "signature"
    \/ a \in {"newer", "notNewer"} /\ job'.step = "answer"

InstallStep(a) ==
    \/ a = "nothing" /\ job'.step \in {"body", "swap"}
    \/ a \in {"installed", "installFailed"} /\ job'.step = "answer"

LEMMA FailedStep ==
    ASSUME JobFacts, InstallsWhatWasReleased, NEW a, NEW what, Failed(a, what),
           UNCHANGED <<releasing, offer, installed>>
    PROVE  ReleaseFacts' /\ job'.step = "answer" /\ a = what
<1>1. job' \in Job /\ job'.step = "answer" /\ staging' = "none"
  BY DEF Failed, NoJob, Job, Steps
<1>2. QED
  BY <1>1 DEF Failed, releasing, ReleaseFacts, JobFacts, Released,
              InstallsWhatWasReleased

LEMMA CheckWorks ==
    ASSUME ReleaseFacts, NEW a, FetchManifest(a) \/ FetchSignature(a)
    PROVE  /\ ReleaseFacts' /\ CheckStep(a)
           /\ a = "newer" => offer' # <<>>
           /\ job.step \in {"manifest", "signature"}
           /\ UNCHANGED releasing
<1> USE DEF ReleaseFacts
<1>1. CASE FetchManifest(a)
  <2>1. CASE Failed(a, "notNewer")
    BY <1>1, <2>1, FailedStep DEF FetchManifest, CheckStep
  <2>2. CASE ~Failed(a, "notNewer")
    <3>1. PICK d \in {Last(published), Damaged} :
             job' = [job EXCEPT !.step = "signature", !.document = d]
      BY <1>1, <2>2 DEF FetchManifest
    <3>2. /\ published # <<>> /\ a = "nothing" /\ job.step = "manifest"
          /\ UNCHANGED <<releasing, offer, installed, staging>>
      BY <1>1, <2>2 DEF FetchManifest
    <3>3. d \in Range(published) \cup {Damaged} /\ d \in Manifest \cup {Damaged}
      BY <3>2, PublishedManifests
    <3>4. job' \in Job /\ job'.step = "signature" /\ job'.document = d
      BY <3>1, <3>3 DEF JobFacts, Job, Steps
    <3>5. JobFacts'
      BY <3>2, <3>3, <3>4 DEF JobFacts, releasing
    <3>6. InstallsWhatWasReleased'
      BY <3>2, <3>4 DEF InstallsWhatWasReleased, Released, releasing
    <3>7. QED BY <3>2, <3>4, <3>5, <3>6 DEF CheckStep
  <2>3. QED BY <2>1, <2>2
<1>2. CASE FetchSignature(a)
  <2>1. CASE Failed(a, "notNewer") /\ UNCHANGED offer
    BY <1>2, <2>1, FailedStep DEF FetchSignature, CheckStep
  <2>2. CASE ~(Failed(a, "notNewer") /\ UNCHANGED offer)
    <3>1. PICK signed \in {Last(published), Damaged} :
             IF Verified(job.document, signed) /\ Newer(job.document.version, Current)
             THEN a = "newer" /\ offer' = <<job.document>>
             ELSE a = "notNewer" /\ UNCHANGED offer
      BY <1>2, <2>2 DEF FetchSignature
    <3>2. /\ job.step = "signature" /\ job' = [NoJob EXCEPT !.step = "answer"]
          /\ UNCHANGED <<releasing, installed, staging>>
      BY <1>2, <2>2 DEF FetchSignature
    <3>3. job' \in Job /\ job'.step = "answer"
      BY <3>2 DEF NoJob, Job, Steps
    <3>4. \/ UNCHANGED offer /\ a = "notNewer"
          \/ /\ Released(job.document) /\ job.document \in Manifest
             /\ offer' = <<job.document>> /\ a = "newer"
      BY <3>1, <3>2, PublishedManifests DEF Verified, JobFacts, Released
    <3>5. CASE UNCHANGED offer /\ a = "notNewer"
      BY <3>2, <3>3, <3>5 DEF JobFacts, InstallsWhatWasReleased, Released,
                              releasing, CheckStep
    <3>6. CASE /\ Released(job.document) /\ job.document \in Manifest
               /\ offer' = <<job.document>> /\ a = "newer"
      <4>1. offer' \in Seq(Manifest) /\ offer' # <<>>
        BY <3>6
      <4>2. Range(offer') = {job.document}
        BY <3>6 DEF Range
      <4>3. JobFacts'
        BY <3>2, <3>3, <4>1 DEF JobFacts, releasing
      <4>4. InstallsWhatWasReleased'
        BY <3>2, <3>3, <3>6, <4>2 DEF InstallsWhatWasReleased, Released, releasing
      <4>5. QED BY <3>2, <3>3, <3>6, <4>1, <4>3, <4>4 DEF CheckStep
    <3>7. QED BY <3>4, <3>5, <3>6
  <2>3. QED BY <2>1, <2>2
<1>3. QED BY <1>1, <1>2

LEMMA InstallWorks ==
    ASSUME ReleaseFacts, NEW a,
           RequestExecutable(a) \/ ReadBody(a) \/ SwapIn(a)
    PROVE  /\ ReleaseFacts' /\ InstallStep(a)
           /\ job.step \in {"request", "body", "swap"}
           /\ UNCHANGED <<releasing, offer>>
<1> USE DEF ReleaseFacts
<1>1. CASE RequestExecutable(a)
  <2>1. CASE Failed(a, "installFailed")
    BY <1>1, <2>1, FailedStep DEF RequestExecutable, InstallStep
  <2>2. CASE ~Failed(a, "installFailed")
    <3>1. /\ job.step = "request" /\ a = "nothing" /\ staging' = "partial"
          /\ job' = [job EXCEPT !.step = "body", !.document = Head(offer)]
          /\ UNCHANGED <<releasing, offer, installed>>
      BY <1>1, <2>2 DEF RequestExecutable
    <3>2. Released(Head(offer)) /\ Head(offer) \in Manifest
      BY <3>1, PublishedManifests DEF JobFacts, InstallsWhatWasReleased, Released
    <3>3. job' \in Job /\ job'.step = "body" /\ job'.document = Head(offer)
      BY <3>1, <3>2 DEF JobFacts, Job, Steps
    <3>4. QED BY <3>1, <3>2, <3>3 DEF JobFacts, InstallsWhatWasReleased, Released,
                                      releasing, InstallStep
  <2>3. QED BY <2>1, <2>2
<1>2. CASE ReadBody(a)
  <2>1. CASE Failed(a, "installFailed")
    BY <1>2, <2>1, FailedStep DEF ReadBody, InstallStep
  <2>2. CASE Whole(job) /\ a = "nothing" /\ job' = [job EXCEPT !.step = "swap"]
             /\ staging' = "staged"
    <3>1. job.step = "body" /\ UNCHANGED <<releasing, offer, installed>>
      BY <1>2 DEF ReadBody
    <3>2. /\ job' \in Job /\ job'.step = "swap" /\ job'.document = job.document
          /\ job'.chunks = job.chunks /\ job'.intact = job.intact
      BY <2>2 DEF JobFacts, Job, Steps
    <3>3. Whole(job') /\ Released(job.document)
      BY <2>2, <3>1, <3>2 DEF Whole, JobFacts
    <3>4. QED BY <2>2, <3>1, <3>2, <3>3 DEF JobFacts, InstallsWhatWasReleased,
                                           Released, releasing, InstallStep
  <2>3. CASE /\ a = "nothing" /\ UNCHANGED staging
             /\ \E good \in BOOLEAN :
                   job' = [job EXCEPT !.chunks = @ + 1, !.intact = @ /\ good]
    <3>1. job.step = "body" /\ UNCHANGED <<releasing, offer, installed>>
      BY <1>2 DEF ReadBody
    <3>2. job' \in Job /\ job'.step = "body" /\ job'.document = job.document
      <4>1. PICK good \in BOOLEAN :
               job' = [job EXCEPT !.chunks = @ + 1, !.intact = @ /\ good]
        BY <2>3
      <4>2. /\ job \in Job /\ job.chunks + 1 \in Nat
        BY DEF JobFacts, Job
      <4> DEFINE n == job.chunks + 1
                 b == job.intact /\ good
      <4>3. job' = [job EXCEPT !.chunks = n, !.intact = b]
        BY <4>1
      <4>4. n \in Nat /\ b \in BOOLEAN
        BY <4>2
      <4> HIDE DEF n, b
      <4>5. QED BY <3>1, <4>2, <4>3, <4>4 DEF Job, Steps
    <3>3. QED BY <2>3, <3>1, <3>2 DEF JobFacts, InstallsWhatWasReleased, Released,
                                     releasing, InstallStep
  <2>4. QED BY <1>2, <2>1, <2>2, <2>3 DEF ReadBody
<1>3. CASE SwapIn(a)
  <2>1. CASE Failed(a, "installFailed") /\ UNCHANGED installed
    BY <1>3, <2>1, FailedStep DEF SwapIn, InstallStep
  <2>2. CASE ~(Failed(a, "installFailed") /\ UNCHANGED installed)
    <3> DEFINE i == [manifest |-> job.document, chunks |-> job.chunks,
                     intact |-> job.intact]
    <3>1. /\ job.step = "swap" /\ a \in {"installed", "installFailed"}
          /\ installed' = <<i>> /\ staging' = "none"
          /\ job' = [NoJob EXCEPT !.step = "answer"]
          /\ UNCHANGED <<releasing, offer>>
      BY <1>3, <2>2 DEF SwapIn
    <3>2. job' \in Job /\ job'.step = "answer"
      BY <3>1 DEF NoJob, Job, Steps
    <3>3. Range(installed') = {i}
      BY <3>1 DEF Range
    <3>4. /\ Released(job.document) /\ i.intact /\ i.chunks = i.manifest.size
          /\ i.manifest = job.document
      BY <3>1 DEF JobFacts, Whole
    <3>5. QED BY <3>1, <3>2, <3>3, <3>4 DEF JobFacts, InstallsWhatWasReleased,
                                           Released, releasing, InstallStep
  <2>3. QED BY <2>1, <2>2
<1>4. QED BY <1>1, <1>2, <1>3
-----------------------------------------------------------------------------
(* The window and its workers.  Setup, release and window are proved apart *)
(* for each step: here is the window, which needs of the setup only how    *)
(* far the generation goes, and of the release nothing.                    *)

(* What a run is started on was checked as a pair.                         *)
RequestFacts ==
    \/ request = NoRequest
    \/ \E s \in Readable, g \in Games, dry \in BOOLEAN :
          <<s, g>> \in Fitting /\ request = [save |-> s, game |-> g, dry |-> dry]

WindowFacts ==
    /\ TypeOK /\ RunInStep /\ UpdateInStep /\ FrameInStep
    /\ CommitOutlivesNoWindow /\ RequestFacts

(* A step of the window that leaves the setup alone, or a worker of it     *)
(* that answers.                                                           *)
LEMMA QuietStep ==
    ASSUME WindowFacts, SetupFacts', generation' = generation, Undetected' = Undetected,
           \/ Logic \/ Input \/ CloseButton \/ BeginCommit \/ EndRun \/ UpdateGoesOn
           \/ EndCheck \/ Wake
    PROVE  WindowFacts'
<1>1. /\ MaxChoices \in Nat /\ MaxRuns \in Nat /\ MaxWakes \in Nat \ {0}
      /\ TypeOK /\ RunInStep /\ UpdateInStep /\ FrameInStep
      /\ CommitOutlivesNoWindow /\ RequestFacts
  BY SetupAssumption, SessionAssumption DEF WindowFacts
<1>2. choice' \in PathPairs
  BY StateFields DEF SetupFacts, SoundSetup, State
<1>3. UNCHANGED pages /\ runs' = runs
  BY DEF Logic, Input, CloseButton, BeginCommit, EndRun, UpdateGoesOn, EndCheck, Wake
<1>4. RequestFacts'
  BY <1>1, <1>3 DEF RequestFacts, pages
<1> DEFINE Owed == generation + (IF Undetected THEN 1 ELSE 0)
           Allowed == MaxChoices + 1 + 2 * (IF screen = "setup" THEN runs ELSE runs - 1)
<1>5. Owed <= Allowed /\ Owed' = Owed /\ Allowed' = Allowed
  BY <1>1, <1>3 DEF FrameInStep, pages
<1> HIDE DEF Owed, Allowed
<1>6. Owed' <= Allowed'
  BY <1>5
<1> USE DEF Owed, Allowed
<1>7. CASE Logic
  <2>1. TypeOK'
    <3>1. {leaving, closeEvent, closeWhenIdle}' \subseteq BOOLEAN
      BY <1>7 DEF Logic
    <3>2. repaints' \in 0 .. 2 /\ token' \in {"idle", "requested", "committing"}
      BY <1>1, <1>7 DEF Logic, TypeOK, Requested
    <3>3. timer' \in BOOLEAN /\ phase' = "poll" /\ generation' = generation
      BY <1>7 DEF Logic
    <3>4. UNCHANGED <<user, screen, drawn, window, run, engine, finished, update, updater,
                      answer, wakes, runs>>
      BY <1>7 DEF Logic, pages, updating
    <3>5. QED BY <1>1, <1>2, <3>1, <3>2, <3>3, <3>4 DEF TypeOK
  <2>2. RunInStep' /\ UpdateInStep' /\ CommitOutlivesNoWindow'
    BY <1>1, <1>7 DEF Logic, RunInStep, UpdateInStep, FrameInStep,
                       CommitOutlivesNoWindow, pages, updating, Requested, HoldsWindow
  <2>3. /\ (window = "closed" => phase = "logic")'
        /\ (phase # "logic" /\ leaving => ~run)'
        /\ (screen # "setup" => runs > 0)'
    BY <1>1, <1>7 DEF Logic, FrameInStep, pages, updating, Requested, HoldsWindow
  <2>4. QED BY <1>4, <1>6, <2>1, <2>2, <2>3 DEF WindowFacts, FrameInStep
<1>8. CASE Input
  <2>1. TypeOK'
    BY <1>1, <1>2, <1>8 DEF Input, TypeOK, pages, updating, closing, saving
  <2>2. RunInStep' /\ UpdateInStep' /\ CommitOutlivesNoWindow'
    BY <1>1, <1>8 DEF Input, RunInStep, UpdateInStep, FrameInStep,
                       CommitOutlivesNoWindow, pages, updating, closing, saving
  <2>3. /\ (window = "closed" => phase = "logic")'
        /\ (phase # "logic" /\ leaving => ~run)'
        /\ (screen # "setup" => runs > 0)'
    BY <1>1, <1>8 DEF Input, FrameInStep, pages, updating, closing, saving
  <2>4. QED BY <1>4, <1>6, <2>1, <2>2, <2>3 DEF WindowFacts, FrameInStep
<1>9. CASE CloseButton
  <2>1. TypeOK'
    BY <1>1, <1>2, <1>9 DEF CloseButton, TypeOK, pages, updating, painting, saving
  <2>2. RunInStep' /\ UpdateInStep' /\ CommitOutlivesNoWindow'
    BY <1>1, <1>9 DEF CloseButton, RunInStep, UpdateInStep, FrameInStep,
                       CommitOutlivesNoWindow, pages, updating, painting, saving
  <2>3. /\ (window = "closed" => phase = "logic")'
        /\ (phase # "logic" /\ leaving => ~run)'
        /\ (screen # "setup" => runs > 0)'
    BY <1>1, <1>9 DEF CloseButton, FrameInStep, pages, updating, painting, saving
  <2>4. QED BY <1>4, <1>6, <2>1, <2>2, <2>3 DEF WindowFacts, FrameInStep
<1>10. CASE BeginCommit
  <2>1. TypeOK'
    BY <1>1, <1>2, <1>10 DEF BeginCommit, TypeOK, pages, updating, painting, closing
  <2>2. RunInStep' /\ UpdateInStep' /\ CommitOutlivesNoWindow'
    BY <1>1, <1>10 DEF BeginCommit, RunInStep, UpdateInStep, FrameInStep,
                       CommitOutlivesNoWindow, pages, updating, painting, closing
  <2>3. /\ (window = "closed" => phase = "logic")'
        /\ (phase # "logic" /\ leaving => ~run)'
        /\ (screen # "setup" => runs > 0)'
    BY <1>1, <1>10 DEF BeginCommit, FrameInStep, pages, updating, painting, closing
  <2>4. QED BY <1>4, <1>6, <2>1, <2>2, <2>3 DEF WindowFacts, FrameInStep
<1>11. CASE EndRun
  <2>1. TypeOK'
    BY <1>1, <1>2, <1>11 DEF EndRun, TypeOK, pages, updating, painting, closing
  <2>2. RunInStep' /\ UpdateInStep' /\ CommitOutlivesNoWindow'
    BY <1>1, <1>11 DEF EndRun, RunInStep, UpdateInStep, FrameInStep,
                       CommitOutlivesNoWindow, pages, updating, painting, closing
  <2>3. /\ (window = "closed" => phase = "logic")'
        /\ (phase # "logic" /\ leaving => ~run)'
        /\ (screen # "setup" => runs > 0)'
    BY <1>1, <1>11 DEF EndRun, FrameInStep, pages, updating, painting, closing
  <2>4. QED BY <1>4, <1>6, <2>1, <2>2, <2>3 DEF WindowFacts, FrameInStep
<1>12. CASE UpdateGoesOn
  <2>1. TypeOK'
    BY <1>1, <1>2, <1>12 DEF UpdateGoesOn, TypeOK, pages, painting, closing, saving
  <2>2. RunInStep' /\ UpdateInStep' /\ CommitOutlivesNoWindow'
    BY <1>1, <1>12 DEF UpdateGoesOn, RunInStep, UpdateInStep, FrameInStep,
                       CommitOutlivesNoWindow, pages, painting, closing, saving
  <2>3. /\ (window = "closed" => phase = "logic")'
        /\ (phase # "logic" /\ leaving => ~run)'
        /\ (screen # "setup" => runs > 0)'
    BY <1>1, <1>12 DEF UpdateGoesOn, FrameInStep, pages, painting, closing, saving
  <2>4. QED BY <1>4, <1>6, <2>1, <2>2, <2>3 DEF WindowFacts, FrameInStep
<1>13. CASE EndCheck
  <2>1. TypeOK'
    BY <1>1, <1>2, <1>13 DEF EndCheck, TypeOK, pages, updating, painting, closing, saving
  <2>2. RunInStep' /\ UpdateInStep' /\ CommitOutlivesNoWindow'
    BY <1>1, <1>13 DEF EndCheck, RunInStep, UpdateInStep, FrameInStep,
                       CommitOutlivesNoWindow, pages, updating, painting, closing, saving
  <2>3. /\ (window = "closed" => phase = "logic")'
        /\ (phase # "logic" /\ leaving => ~run)'
        /\ (screen # "setup" => runs > 0)'
    BY <1>1, <1>13 DEF EndCheck, FrameInStep, pages, updating, painting, closing, saving
  <2>4. QED BY <1>4, <1>6, <2>1, <2>2, <2>3 DEF WindowFacts, FrameInStep
<1>14. CASE Wake
  <2>1. TypeOK'
    BY <1>1, <1>2, <1>14 DEF Wake, TypeOK, pages, updating, closing, saving
  <2>2. RunInStep' /\ UpdateInStep' /\ CommitOutlivesNoWindow'
    BY <1>1, <1>14 DEF Wake, RunInStep, UpdateInStep, FrameInStep,
                       CommitOutlivesNoWindow, pages, updating, closing, saving
  <2>3. /\ (window = "closed" => phase = "logic")'
        /\ (phase # "logic" /\ leaving => ~run)'
        /\ (screen # "setup" => runs > 0)'
    BY <1>1, <1>14 DEF Wake, FrameInStep, pages, updating, closing, saving
  <2>4. QED BY <1>4, <1>6, <2>1, <2>2, <2>3 DEF WindowFacts, FrameInStep
<1>15. QED BY <1>7, <1>8, <1>9, <1>10, <1>11, <1>12, <1>13, <1>14

(* A frame, and the answer of the worker of the app's update.              *)
LEMMA PollStep ==
    ASSUME WindowFacts, SetupFacts, Poll
    PROVE  WindowFacts' /\ SetupFacts'
<1>1. /\ MaxChoices \in Nat /\ MaxRuns \in Nat /\ MaxWakes \in Nat \ {0}
      /\ TypeOK /\ RunInStep /\ UpdateInStep /\ FrameInStep
      /\ CommitOutlivesNoWindow /\ RequestFacts
      /\ generation \in Nat /\ generation >= 1
  BY SetupAssumption, SessionAssumption DEF WindowFacts, TypeOK
<1>2. /\ SetupFacts' /\ generation' \in Nat /\ generation' >= generation
      /\ generation' + (IF Undetected' THEN 1 ELSE 0)
             <= generation + (IF Undetected THEN 1 ELSE 0)
  BY <1>1, PollSound DEF Poll
<1>3. choice' \in PathPairs
  BY <1>2, StateFields DEF SetupFacts, SoundSetup, State
<1>4. RequestFacts'
  BY <1>1 DEF RequestFacts, Poll
<1>5. runs \in 0 .. MaxRuns /\ runs' = runs
  BY <1>1 DEF TypeOK, Poll
<1>6. screen' = "setup" => screen = "setup"
  BY DEF Poll
<1>7. screen # "setup" => runs > 0
  BY <1>1 DEF FrameInStep
<1>8. screen' # "setup" => screen # "setup"
  BY <1>1 DEF Poll, RunInStep
<1> DEFINE before == IF Undetected THEN 1 ELSE 0
           after == IF Undetected' THEN 1 ELSE 0
           done == IF screen = "setup" THEN runs ELSE runs - 1
           done2 == IF screen' = "setup" THEN runs' ELSE runs' - 1
<1>9. /\ before \in {0, 1} /\ after \in {0, 1} /\ done \in Int /\ done <= runs
      /\ done2 = done /\ runs \in Int /\ runs <= MaxRuns
  BY <1>1, <1>5, <1>6, <1>8
<1>10. /\ generation + before <= MaxChoices + 1 + 2 * done
       /\ generation' + after <= generation + before
  BY <1>1, <1>2 DEF FrameInStep
<1> HIDE DEF before, after, done, done2
<1> DEFINE later == generation'
<1>16. /\ later + after <= MaxChoices + 1 + 2 * done2
       /\ later \in 1 .. MaxChoices + 1 + 2 * MaxRuns
  <2>1. later \in Int /\ later >= generation /\ later + after <= generation + before
    BY <1>2, <1>10
  <2> HIDE DEF later
  <2>2. QED BY <1>1, <1>9, <1>10, <2>1
<1> USE DEF before, after, done, done2
<1>11. UpdateInStep' /\ update' \in {"quiet", "available", "checking", "downloading", "restarting"}
  BY <1>1 DEF Poll, Answered, UpdateInStep, TypeOK, Answers
<1>12. RunInStep' /\ CommitOutlivesNoWindow'
  BY <1>1 DEF Poll, RunInStep, CommitOutlivesNoWindow
<1>13. TypeOK'
  <2>1. {leaving, closeEvent, closeWhenIdle, run, finished, timer}' \subseteq BOOLEAN
    BY <1>1 DEF Poll, TypeOK, Busy
  <2>2. /\ UNCHANGED <<window, user, drawn, token, engine, updater, repaints, wakes, runs>>
        /\ phase' = "act" /\ answer' = "nothing" /\ screen' \in {"result", screen}
    BY DEF Poll
  <2>3. QED BY <1>1, <1>3, <1>16, <1>11, <2>1, <2>2 DEF TypeOK
<1>14. FrameInStep'
  BY <1>1, <1>5, <1>7, <1>8, <1>16 DEF FrameInStep, Poll
<1>15. QED BY <1>2, <1>4, <1>11, <1>12, <1>13, <1>14 DEF WindowFacts

LEMMA EndUpdateStep ==
    ASSUME WindowFacts, SetupFacts', generation' = generation, Undetected' = Undetected,
           EndUpdate,
           answer' \in IF updater = "checking" THEN {"newer", "notNewer"}
                       ELSE {"installed", "installFailed"}
    PROVE  WindowFacts'
<1>1. /\ MaxChoices \in Nat /\ MaxRuns \in Nat /\ MaxWakes \in Nat \ {0}
      /\ TypeOK /\ RunInStep /\ UpdateInStep /\ FrameInStep
      /\ CommitOutlivesNoWindow /\ RequestFacts
  BY SetupAssumption, SessionAssumption DEF WindowFacts
<1>2. choice' \in PathPairs
  BY StateFields DEF SetupFacts, SoundSetup, State
<1>3. /\ UNCHANGED <<window, phase, closing, saving, update, painting, pages, runs>>
      /\ updater # "none" /\ updater' = "none" /\ wakes < MaxWakes /\ wakes' = wakes + 1
  BY DEF EndUpdate
<1>4. answer' \in Answers \ {"nothing"}
  BY DEF Answers
<1>5. TypeOK'
  BY <1>1, <1>2, <1>3, <1>4 DEF TypeOK, closing, saving, painting, pages
<1>6. UpdateInStep'
  BY <1>1, <1>3 DEF UpdateInStep, TypeOK
<1>7. RunInStep' /\ CommitOutlivesNoWindow' /\ RequestFacts'
  BY <1>1, <1>3 DEF RunInStep, CommitOutlivesNoWindow, RequestFacts, saving, pages
<1>8. FrameInStep'
  BY <1>1, <1>3 DEF FrameInStep, saving, pages, closing
<1>9. QED BY <1>5, <1>6, <1>7, <1>8 DEF WindowFacts

(* A click may start a run, which raises the bound of the generation, or   *)
(* change or check the choice, which uses some of it up.                   *)
LEMMA GenerationInAct ==
    ASSUME WindowFacts, SetupFacts, Act
    PROVE  /\ SetupFacts' /\ choice' \in PathPairs
           /\ generation' \in 1 .. MaxChoices + 1 + 2 * MaxRuns
           /\ generation' + (IF Undetected' THEN 1 ELSE 0)
                  <= MaxChoices + 1 + 2 * (IF screen' = "setup" THEN runs' ELSE runs' - 1)
<1> DEFINE before == IF Undetected THEN 1 ELSE 0
           after == IF Undetected' THEN 1 ELSE 0
           done == IF screen = "setup" THEN runs ELSE runs - 1
           done2 == IF screen' = "setup" THEN runs' ELSE runs' - 1
           later == generation'
<1>1. /\ MaxChoices \in Nat /\ MaxRuns \in Nat /\ TypeOK /\ FrameInStep
      /\ generation \in Nat /\ generation >= 1 /\ runs \in 0 .. MaxRuns
      /\ before \in {0, 1}
  BY SetupAssumption, SessionAssumption DEF WindowFacts, TypeOK
<1>2. generation + before <= MaxChoices + 1 + 2 * done
  BY <1>1 DEF FrameInStep
<1>3. CASE ActNothing \/ ActCancel \/ ActCheck \/ ActInstall
  <2>1. UNCHANGED <<setup, screen, runs>>
    BY <1>3 DEF ActNothing, ActCancel, ActCheck, ActInstall
  <2>2. SetupFacts' /\ later = generation /\ after = before /\ done2 = done
    BY <2>1, SetupStutters
  <2>3. done <= runs /\ done \in Int
    BY <1>1
  <2> HIDE DEF before, after, done, done2, later
  <2>4. later \in 1 .. MaxChoices + 1 + 2 * MaxRuns /\ later + after <= MaxChoices + 1 + 2 * done2
    BY <1>1, <1>2, <2>2, <2>3
  <2> USE DEF before, after, done, done2, later
  <2>5. QED BY <2>2, <2>4, StateFields DEF SetupFacts, SoundSetup, State
<1>4. CASE ActStart \/ ActAfterPreview
  <2>1. UNCHANGED setup /\ screen' = "running" /\ runs' = runs + 1 /\ runs < MaxRuns
    BY <1>4 DEF ActStart, ActAfterPreview, BeginRun
  <2>2. SetupFacts' /\ later = generation /\ after = before /\ done2 = runs
    BY <1>1, <2>1, SetupStutters
  <2>3. done <= runs /\ done \in Int
    BY <1>1
  <2> HIDE DEF before, after, done, done2, later
  <2>4. later \in 1 .. MaxChoices + 1 + 2 * MaxRuns /\ later + after <= MaxChoices + 1 + 2 * done2
    BY <1>1, <1>2, <2>2, <2>3
  <2> USE DEF before, after, done, done2, later
  <2>5. QED BY <2>2, <2>4, StateFields DEF SetupFacts, SoundSetup, State
<1>5. CASE ActChoose
  <2>1. /\ Choose /\ generation < MaxChoices
        /\ screen = "setup" /\ screen' = "setup" /\ runs' = runs
    BY <1>5 DEF ActChoose, Choose, Shows
  <2>2. SetupFacts' /\ later = generation + 1 /\ after = before /\ done2 = runs
    BY <2>1, ChooseSound
  <2> HIDE DEF before, after, done, done2, later
  <2>3. later \in 1 .. MaxChoices + 1 + 2 * MaxRuns /\ later + after <= MaxChoices + 1 + 2 * done2
    BY <1>1, <2>1, <2>2
  <2> USE DEF before, after, done, done2, later
  <2>4. QED BY <2>2, <2>3, StateFields DEF SetupFacts, SoundSetup, State
<1>6. CASE ActBack
  <2>1. /\ CheckAgain \/ ChooseAnotherGame
        /\ screen = "result" /\ screen' = "setup" /\ runs' = runs
    BY <1>6 DEF ActBack, Shows
  <2>2. /\ SetupFacts' /\ later \in {generation + 1, generation + 2} /\ after = before
        /\ done2 = runs /\ done = runs - 1
    BY <2>1, BackSound
  <2> HIDE DEF before, after, done, done2, later
  <2>3. later \in 1 .. MaxChoices + 1 + 2 * MaxRuns /\ later + after <= MaxChoices + 1 + 2 * done2
    BY <1>1, <1>2, <2>2
  <2> USE DEF before, after, done, done2, later
  <2>4. QED BY <2>2, <2>3, StateFields DEF SetupFacts, SoundSetup, State
<1>7. QED BY <1>3, <1>4, <1>5, <1>6 DEF Act

(* The screen is ready for a run when the newest check of both choices is  *)
(* in: the save can be read and goes with the game.                        *)
LEMMA ReadyChecked ==
    ASSUME SetupFacts, Ready(State)
    PROVE  /\ Request(State).save \in Readable /\ Request(State).game \in Games
           /\ <<Request(State).save, Request(State).game>> \in Fitting
<1>1. verdict \in {Checking(choice), Verdict(choice)} /\ choice \in PathPairs
  BY StateFields DEF SetupFacts, SoundSetup
<1>2. verdict.save = "ready" /\ verdict.game = "usable"
  BY StateFields DEF Ready
<1>3. verdict = Verdict(choice)
  BY <1>1, <1>2 DEF Checking
<1>4. /\ choice.save \in Readable /\ verdict.path = choice.save
      /\ choice.game # Nothing /\ <<choice.save, choice.game>> \in Fitting
  BY <1>2, <1>3 DEF Verdict
<1>5. QED BY <1>1, <1>4, StateFields DEF Request, PathPairs

LEMMA ActStep ==
    ASSUME WindowFacts, SetupFacts, Act
    PROVE  WindowFacts' /\ SetupFacts'
<1>1. /\ MaxRuns \in Nat /\ MaxWakes \in Nat \ {0}
      /\ TypeOK /\ RunInStep /\ UpdateInStep /\ FrameInStep
      /\ CommitOutlivesNoWindow /\ RequestFacts
  BY SessionAssumption DEF WindowFacts
<1>2. /\ phase = "act" /\ phase' = "logic" /\ drawn' = screen
      /\ window' = (IF leaving THEN "closed" ELSE "open")
      /\ UNCHANGED <<leaving, closeEvent, closeWhenIdle, timer, wakes>>
  BY DEF Act, ActNothing, ActCancel, ActCheck, ActInstall, ActStart,
         ActAfterPreview, ActChoose, ActBack, EndFrame
<1>3. /\ SetupFacts' /\ choice' \in PathPairs
      /\ generation' \in 1 .. MaxChoices + 1 + 2 * MaxRuns
      /\ generation' + (IF Undetected' THEN 1 ELSE 0)
             <= MaxChoices + 1 + 2 * (IF screen' = "setup" THEN runs' ELSE runs' - 1)
  BY GenerationInAct
<1>4. leaving => engine = "none" /\ ~run
  BY <1>1, <1>2 DEF FrameInStep, RunInStep
<1>5. SUFFICES /\ {run, finished}' \subseteq BOOLEAN
               /\ user' = user /\ screen' \in {"setup", "running", "result"}
               /\ token' \in {"idle", "requested", "committing"}
               /\ engine' \in {"none", "working", "committing"}
               /\ update' \in {"quiet", "available", "checking", "downloading", "restarting"}
               /\ updater' \in {"none", "checking", "installing"}
               /\ answer' = answer /\ repaints' \in 0 .. 2 /\ runs' \in 0 .. MaxRuns
               /\ RunInStep' /\ UpdateInStep' /\ RequestFacts'
               /\ (screen # "setup" => runs > 0)'
               /\ engine' = "committing" => engine = "committing"
  <2>1. TypeOK'
    BY <1>1, <1>2, <1>3, <1>5 DEF TypeOK
  <2>2. FrameInStep' /\ CommitOutlivesNoWindow'
    BY <1>2, <1>3, <1>4, <1>5 DEF FrameInStep, CommitOutlivesNoWindow
  <2>3. QED BY <1>3, <1>5, <2>1, <2>2 DEF WindowFacts
<1>6. CASE ActNothing
  <2>2. RequestFacts'
    BY <1>1, <1>6 DEF ActNothing, RequestFacts
  <2>3. /\ {run, finished}' \subseteq BOOLEAN
        /\ user' = user /\ screen' \in {"setup", "running", "result"}
        /\ token' \in {"idle", "requested", "committing"}
        /\ engine' \in {"none", "working", "committing"}
        /\ update' \in {"quiet", "available", "checking", "downloading", "restarting"}
        /\ updater' \in {"none", "checking", "installing"}
        /\ answer' = answer /\ repaints' \in 0 .. 2 /\ runs' \in 0 .. MaxRuns
        /\ engine' = "committing" => engine = "committing"
    BY <1>1, <1>6 DEF ActNothing, TypeOK, saving, updating
  <2>4. RunInStep' /\ UpdateInStep' /\ (screen # "setup" => runs > 0)'
    BY <1>1, <1>6 DEF ActNothing, TypeOK, RunInStep, UpdateInStep, FrameInStep, saving, updating
  <2>5. QED BY <2>2, <2>3, <2>4
<1>7. CASE ActCancel
  <2>2. RequestFacts'
    BY <1>1, <1>7 DEF ActCancel, RequestFacts
  <2>3. /\ {run, finished}' \subseteq BOOLEAN
        /\ user' = user /\ screen' \in {"setup", "running", "result"}
        /\ token' \in {"idle", "requested", "committing"}
        /\ engine' \in {"none", "working", "committing"}
        /\ update' \in {"quiet", "available", "checking", "downloading", "restarting"}
        /\ updater' \in {"none", "checking", "installing"}
        /\ answer' = answer /\ repaints' \in 0 .. 2 /\ runs' \in 0 .. MaxRuns
        /\ engine' = "committing" => engine = "committing"
    BY <1>1, <1>7 DEF ActCancel, TypeOK, updating, Requested, Shows
  <2>4. RunInStep' /\ UpdateInStep' /\ (screen # "setup" => runs > 0)'
    BY <1>1, <1>7 DEF ActCancel, TypeOK, RunInStep, UpdateInStep, FrameInStep, updating, Requested, Shows
  <2>5. QED BY <2>2, <2>3, <2>4
<1>8. CASE ActCheck
  <2>2. RequestFacts'
    BY <1>1, <1>8 DEF ActCheck, RequestFacts
  <2>3. /\ {run, finished}' \subseteq BOOLEAN
        /\ user' = user /\ screen' \in {"setup", "running", "result"}
        /\ token' \in {"idle", "requested", "committing"}
        /\ engine' \in {"none", "working", "committing"}
        /\ update' \in {"quiet", "available", "checking", "downloading", "restarting"}
        /\ updater' \in {"none", "checking", "installing"}
        /\ answer' = answer /\ repaints' \in 0 .. 2 /\ runs' \in 0 .. MaxRuns
        /\ engine' = "committing" => engine = "committing"
    BY <1>1, <1>8 DEF ActCheck, TypeOK, saving, CanCheck, FootShown, Busy
  <2>4. RunInStep' /\ UpdateInStep' /\ (screen # "setup" => runs > 0)'
    <3>1. answer \notin {"newer", "notNewer", "installed", "installFailed"} /\ answer' = answer
      BY <1>1, <1>8 DEF ActCheck, CanCheck, Busy, UpdateInStep
    <3>2. update' = "checking" /\ updater' = "checking" /\ answer' = "nothing"
      BY <1>1, <1>8, <3>1 DEF ActCheck, TypeOK, Answers
    <3>3. UpdateInStep'
      BY <3>2 DEF UpdateInStep
    <3>4. RunInStep' /\ (screen # "setup" => runs > 0)'
      BY <1>1, <1>8 DEF ActCheck, RunInStep, FrameInStep, saving
    <3>5. QED BY <3>3, <3>4
  <2>5. QED BY <2>2, <2>3, <2>4
<1>9. CASE ActInstall
  <2>2. RequestFacts'
    BY <1>1, <1>9 DEF ActInstall, RequestFacts
  <2>3. /\ {run, finished}' \subseteq BOOLEAN
        /\ user' = user /\ screen' \in {"setup", "running", "result"}
        /\ token' \in {"idle", "requested", "committing"}
        /\ engine' \in {"none", "working", "committing"}
        /\ update' \in {"quiet", "available", "checking", "downloading", "restarting"}
        /\ updater' \in {"none", "checking", "installing"}
        /\ answer' = answer /\ repaints' \in 0 .. 2 /\ runs' \in 0 .. MaxRuns
        /\ engine' = "committing" => engine = "committing"
    BY <1>1, <1>9 DEF ActInstall, TypeOK, saving, FootShown
  <2>4. RunInStep' /\ UpdateInStep' /\ (screen # "setup" => runs > 0)'
    <3>1. answer \notin {"newer", "notNewer", "installed", "installFailed"} /\ answer' = answer
      BY <1>1, <1>9 DEF ActInstall, UpdateInStep
    <3>2. update' = "downloading" /\ updater' = "installing" /\ answer' = "nothing"
      BY <1>1, <1>9, <3>1 DEF ActInstall, TypeOK, Answers
    <3>3. UpdateInStep'
      BY <3>2 DEF UpdateInStep
    <3>4. RunInStep' /\ (screen # "setup" => runs > 0)'
      BY <1>1, <1>9 DEF ActInstall, RunInStep, FrameInStep, saving
    <3>5. QED BY <3>3, <3>4
  <2>5. QED BY <2>2, <2>3, <2>4
<1>10. CASE ActStart
  <2>1. PICK dry \in BOOLEAN :
           BeginRun([save |-> Request(State).save, game |-> Request(State).game, dry |-> dry])
    BY <1>10 DEF ActStart
  <2>2. RequestFacts'
    BY <1>10, <2>1, ReadyChecked DEF ActStart, BeginRun, RequestFacts
  <2>3. /\ {run, finished}' \subseteq BOOLEAN
        /\ user' = user /\ screen' \in {"setup", "running", "result"}
        /\ token' \in {"idle", "requested", "committing"}
        /\ engine' \in {"none", "working", "committing"}
        /\ update' \in {"quiet", "available", "checking", "downloading", "restarting"}
        /\ updater' \in {"none", "checking", "installing"}
        /\ answer' = answer /\ repaints' \in 0 .. 2 /\ runs' \in 0 .. MaxRuns
        /\ engine' = "committing" => engine = "committing"
    BY <1>1, <1>10 DEF ActStart, TypeOK, BeginRun, Shows, updating, Ready
  <2>4. RunInStep' /\ UpdateInStep' /\ (screen # "setup" => runs > 0)'
    BY <1>1, <1>10 DEF ActStart, TypeOK, RunInStep, UpdateInStep, FrameInStep, BeginRun, Shows, updating, Ready
  <2>5. QED BY <2>2, <2>3, <2>4
<1>11. CASE ActAfterPreview
  <2>1. request # NoRequest /\ request' = [request EXCEPT !.dry = FALSE]
    BY <1>11 DEF ActAfterPreview, BeginRun, NoRequest
  <2>2. RequestFacts'
    <3>1. PICK s \in Readable, g \in Games, dry \in BOOLEAN :
             <<s, g>> \in Fitting /\ request = [save |-> s, game |-> g, dry |-> dry]
      BY <1>1, <2>1 DEF RequestFacts
    <3>2. request' = [save |-> s, game |-> g, dry |-> FALSE]
      BY <2>1, <3>1
    <3>3. QED BY <3>1, <3>2 DEF RequestFacts
  <2>3. /\ {run, finished}' \subseteq BOOLEAN
        /\ user' = user /\ screen' \in {"setup", "running", "result"}
        /\ token' \in {"idle", "requested", "committing"}
        /\ engine' \in {"none", "working", "committing"}
        /\ update' \in {"quiet", "available", "checking", "downloading", "restarting"}
        /\ updater' \in {"none", "checking", "installing"}
        /\ answer' = answer /\ repaints' \in 0 .. 2 /\ runs' \in 0 .. MaxRuns
        /\ engine' = "committing" => engine = "committing"
    BY <1>1, <1>11 DEF ActAfterPreview, TypeOK, BeginRun, Shows, updating
  <2>4. RunInStep' /\ UpdateInStep' /\ (screen # "setup" => runs > 0)'
    BY <1>1, <1>11 DEF ActAfterPreview, TypeOK, RunInStep, UpdateInStep, FrameInStep, BeginRun, Shows, updating
  <2>5. QED BY <2>2, <2>3, <2>4
<1>12. CASE ActChoose
  <2>2. RequestFacts'
    BY <1>1, <1>12 DEF ActChoose, RequestFacts
  <2>3. /\ {run, finished}' \subseteq BOOLEAN
        /\ user' = user /\ screen' \in {"setup", "running", "result"}
        /\ token' \in {"idle", "requested", "committing"}
        /\ engine' \in {"none", "working", "committing"}
        /\ update' \in {"quiet", "available", "checking", "downloading", "restarting"}
        /\ updater' \in {"none", "checking", "installing"}
        /\ answer' = answer /\ repaints' \in 0 .. 2 /\ runs' \in 0 .. MaxRuns
        /\ engine' = "committing" => engine = "committing"
    BY <1>1, <1>12 DEF ActChoose, TypeOK, saving, updating, Shows
  <2>4. RunInStep' /\ UpdateInStep' /\ (screen # "setup" => runs > 0)'
    BY <1>1, <1>12 DEF ActChoose, TypeOK, RunInStep, UpdateInStep, FrameInStep, saving, updating, Shows
  <2>5. QED BY <2>2, <2>3, <2>4
<1>13. CASE ActBack
  <2>2. RequestFacts'
    BY <1>13 DEF ActBack, RequestFacts, NoRequest
  <2>3. /\ {run, finished}' \subseteq BOOLEAN
        /\ user' = user /\ screen' \in {"setup", "running", "result"}
        /\ token' \in {"idle", "requested", "committing"}
        /\ engine' \in {"none", "working", "committing"}
        /\ update' \in {"quiet", "available", "checking", "downloading", "restarting"}
        /\ updater' \in {"none", "checking", "installing"}
        /\ answer' = answer /\ repaints' \in 0 .. 2 /\ runs' \in 0 .. MaxRuns
        /\ engine' = "committing" => engine = "committing"
    BY <1>1, <1>13 DEF ActBack, TypeOK, saving, updating, Shows
  <2>4. RunInStep' /\ UpdateInStep' /\ (screen # "setup" => runs > 0)'
    BY <1>1, <1>13 DEF ActBack, TypeOK, RunInStep, UpdateInStep, FrameInStep, saving, updating, Shows
  <2>5. QED BY <2>2, <2>3, <2>4
<1>14. QED BY <1>6, <1>7, <1>8, <1>9, <1>10, <1>11, <1>12, <1>13 DEF Act

-----------------------------------------------------------------------------
(* All of it together.                                                     *)
AppInv == WindowFacts /\ SetupFacts /\ ReleaseFacts /\ JobInStep

(* A click hands the worker a job it can do: a new check withdraws the     *)
(* offer, and what is installed has been offered.                          *)
LEMMA JobHandedOut ==
    ASSUME AppInv, ActCheck \/ ActInstall
    PROVE  ReleaseFacts' /\ JobInStep'
<1>1. TypeOK /\ UpdateInStep /\ JobFacts /\ InstallsWhatWasReleased /\ JobInStep
  BY DEF AppInv, WindowFacts, ReleaseFacts
<1>2. CASE ActCheck
  <2>1. /\ user' = user /\ update' = "checking" /\ updater' = "checking" /\ answer' = answer
        /\ offer' = <<>> /\ UNCHANGED <<releasing, staging, installed>>
        /\ job' = IF user = "updates" THEN CheckJob ELSE NoJob
        /\ ~Busy(update)
    BY <1>2 DEF ActCheck, CanCheck
  <2>2. answer # "newer" /\ updater = "none"
    BY <1>1, <2>1 DEF UpdateInStep, Busy, TypeOK
  <2>3. staging = "none"
    BY <1>1, <2>2 DEF JobInStep, InstallsWhatWasReleased
  <2>4. job' \in Job /\ job'.step \in {"none", "manifest"}
    BY <2>1 DEF CheckJob, NoJob, Job, Steps
  <2>5. offer' \in Seq(Manifest) /\ Range(offer') = {}
    BY <2>1, EmptySeq DEF Range
  <2>6. JobFacts'
    BY <1>1, <2>1, <2>4, <2>5 DEF JobFacts, releasing
  <2>7. InstallsWhatWasReleased'
    BY <1>1, <2>1, <2>3, <2>5 DEF InstallsWhatWasReleased, Released, releasing
  <2>8. JobInStep'
    BY <2>1, <2>2 DEF JobInStep, CheckJob, NoJob
  <2>9. QED BY <2>6, <2>7, <2>8 DEF ReleaseFacts
<1>3. CASE ActInstall
  <2>1. /\ user' = user /\ update' = "downloading" /\ updater' = "installing" /\ answer' = answer
        /\ UNCHANGED <<releasing, offer, staging, installed>>
        /\ job' = IF user = "updates" THEN InstallJob ELSE NoJob
        /\ update = "available"
    BY <1>3 DEF ActInstall
  <2>2. answer # "newer" /\ updater = "none"
    BY <1>1, <2>1 DEF UpdateInStep, TypeOK
  <2>3. staging = "none" /\ (user = "updates" => offer # <<>>)
    BY <1>1, <2>1, <2>2 DEF JobInStep, InstallsWhatWasReleased
  <2>4. job' \in Job /\ job'.step \in {"none", "request"}
    BY <2>1 DEF InstallJob, NoJob, Job, Steps
  <2>5. job'.step = "request" => offer # <<>>
    BY <2>1, <2>3 DEF NoJob
  <2>6. JobFacts'
    BY <1>1, <2>1, <2>4, <2>5 DEF JobFacts, releasing
  <2>7. InstallsWhatWasReleased'
    BY <1>1, <2>1, <2>3 DEF InstallsWhatWasReleased, Released, releasing
  <2>8. JobInStep'
    BY <2>1, <2>2 DEF JobInStep, InstallJob, NoJob
  <2>9. QED BY <2>6, <2>7, <2>8 DEF ReleaseFacts
<1>4. QED BY <1>2, <1>3

LEMMA JobGoesOn ==
    ASSUME AppInv, UpdateGoesOn
    PROVE  ReleaseFacts' /\ JobInStep'
<1>1. TypeOK /\ UpdateInStep /\ ReleaseFacts /\ JobInStep
  BY DEF AppInv, WindowFacts
<1>2. user = "updates" /\ UNCHANGED <<user, update, updater, answer>>
  BY DEF UpdateGoesOn, pages
<1>3. CASE BuildRelease \/ PublishRelease
  <2>1. ReleaseFacts' /\ UNCHANGED <<job, offer>>
    BY <1>1, <1>3, ReleaseMade DEF downloading
  <2>2. QED BY <1>1, <1>2, <2>1 DEF JobInStep
<1>4. CASE updater # "none" /\ Work("nothing")
  <2>1. CASE FetchManifest("nothing") \/ FetchSignature("nothing")
    <3>1. /\ ReleaseFacts' /\ job'.step = "signature"
          /\ job.step \in {"manifest", "signature"}
      BY <1>1, <2>1, CheckWorks DEF CheckStep
    <3>2. updater = "checking" /\ update = "checking" /\ answer = "nothing"
      BY <1>1, <1>2, <1>4, <3>1 DEF JobInStep, TypeOK, UpdateInStep
    <3>3. QED BY <1>2, <3>1, <3>2 DEF JobInStep
  <2>2. CASE RequestExecutable("nothing") \/ ReadBody("nothing") \/ SwapIn("nothing")
    <3>1. /\ ReleaseFacts' /\ job'.step \in {"body", "swap"}
          /\ job.step \in {"request", "body", "swap"}
      BY <1>1, <2>2, InstallWorks DEF InstallStep
    <3>2. updater = "installing" /\ update = "downloading" /\ answer = "nothing"
      BY <1>1, <1>2, <1>4, <3>1 DEF JobInStep, TypeOK, UpdateInStep
    <3>3. QED BY <1>2, <3>1, <3>2 DEF JobInStep
  <2>3. QED BY <1>4, <2>1, <2>2 DEF Work
<1>5. QED BY <1>3, <1>4 DEF UpdateGoesOn

(* The answer fits what was asked: a check is answered as a check, an      *)
(* installation as an installation.                                        *)
LEMMA JobAnswered ==
    ASSUME AppInv, EndUpdate
    PROVE  /\ ReleaseFacts' /\ JobInStep'
           /\ answer' \in IF updater = "checking" THEN {"newer", "notNewer"}
                          ELSE {"installed", "installFailed"}
<1>1. TypeOK /\ UpdateInStep /\ ReleaseFacts /\ JobInStep
  BY DEF AppInv, WindowFacts
<1>2. /\ UNCHANGED <<user, update>> /\ updater # "none" /\ updater' = "none"
  BY DEF EndUpdate, pages
<1>3. update # "available"
  BY <1>1, <1>2 DEF UpdateInStep, TypeOK
<1>4. CASE user # "updates"
  <2>1. /\ UNCHANGED release
        /\ answer' \in IF updater = "checking" THEN {"newer", "notNewer"}
                       ELSE {"installed", "installFailed"}
    BY <1>4 DEF EndUpdate
  <2>2. ReleaseFacts' /\ job' = job
    BY <1>1, <2>1, ReleaseStutters DEF release, downloading
  <2>3. job' = NoJob /\ job'.step = "none"
    BY <1>1, <1>4, <2>2 DEF JobInStep, NoJob
  <2>4. JobInStep'
    BY <1>2, <1>4, <2>3 DEF JobInStep
  <2>5. QED BY <2>1, <2>2, <2>4
<1>5. CASE user = "updates"
  <2>1. Work(answer') /\ answer' # "nothing"
    BY <1>5 DEF EndUpdate
  <2>2. CASE FetchManifest(answer') \/ FetchSignature(answer')
    <3>1. /\ ReleaseFacts' /\ job'.step = "answer" /\ answer' \in {"newer", "notNewer"}
          /\ answer' = "newer" => offer' # <<>>
          /\ job.step \in {"manifest", "signature"}
      BY <1>1, <2>1, <2>2, CheckWorks DEF CheckStep
    <3>2. updater = "checking"
      BY <1>1, <1>2, <1>5, <3>1 DEF JobInStep, TypeOK
    <3>3. QED BY <1>2, <1>3, <1>5, <3>1, <3>2 DEF JobInStep
  <2>3. CASE RequestExecutable(answer') \/ ReadBody(answer') \/ SwapIn(answer')
    <3>1. /\ ReleaseFacts' /\ job'.step = "answer"
          /\ answer' \in {"installed", "installFailed"}
          /\ job.step \in {"request", "body", "swap"}
      BY <1>1, <2>1, <2>3, InstallWorks DEF InstallStep
    <3>2. updater = "installing"
      BY <1>1, <1>2, <1>5, <3>1 DEF JobInStep, TypeOK
    <3>3. QED BY <1>2, <1>3, <1>5, <3>1, <3>2 DEF JobInStep
  <2>4. QED BY <2>1, <2>2, <2>3 DEF Work
<1>6. QED BY <1>4, <1>5

(* The first frame, with the settings probed or everything checked.        *)
LEMMA AppStarts == Init => AppInv
<1> SUFFICES ASSUME Init PROVE AppInv
  OBVIOUS
<1>1. MaxChoices \in Nat \ {0} /\ MaxRuns \in Nat /\ MaxWakes \in Nat \ {0}
  BY SetupAssumption, SessionAssumption
<1>2. /\ choice \in PathPairs /\ generation = 1 /\ mailbox = <<>>
      /\ verdict \in {Checking(choice), Verdict(choice)}
      /\ probes \in {{}, {[generation |-> 1, choice |-> choice]}}
  BY SetupAssumption DEF Init, SetupInit, SettledInit
<1>3. SetupFacts
  <2>1. probes \subseteq Probe /\ \A p \in probes : CurrentProbe(State, p)
    BY <1>2, StateFields DEF Probe, CurrentProbe
  <2>2. SoundSetup(State)
    BY <1>2, <2>1, StateFields DEF SoundSetup
  <2>3. mailbox \in Seq(Answer) /\ DOMAIN mailbox = {}
    BY <1>2, EmptySeq
  <2>4. QED BY <2>2, <2>3 DEF SetupFacts, MailboxFacts
<1>4. RunInStep /\ UpdateInStep /\ CommitOutlivesNoWindow /\ RequestFacts
  BY DEF Init, RunInStep, UpdateInStep, CommitOutlivesNoWindow, RequestFacts
<1>5. FrameInStep
  BY <1>1, <1>2 DEF Init, FrameInStep
<1>6. TypeOK
  <2>1. /\ choice \in PathPairs /\ generation \in 1 .. MaxChoices + 1 + 2 * MaxRuns
        /\ wakes \in 0 .. MaxWakes /\ runs \in 0 .. MaxRuns /\ repaints \in 0 .. 2
    BY <1>1, <1>2 DEF Init
  <2>2. {leaving, closeEvent, closeWhenIdle, run, finished, timer} \subseteq BOOLEAN
    BY DEF Init
  <2>3. /\ user \in Users /\ window = "open" /\ phase = "logic" /\ screen = "setup"
        /\ drawn = "none" /\ token = "idle" /\ engine = "none" /\ answer = "nothing"
        /\ update \in {"quiet", "checking"} /\ updater \in {"none", "checking"}
    BY DEF Init
  <2>4. QED BY <2>1, <2>2, <2>3 DEF TypeOK
<1>7. ReleaseFacts
  <2>1. /\ draft = <<>> /\ published = <<>> /\ offer = <<>> /\ installed = <<>>
        /\ staging = "none" /\ job \in {NoJob, CheckJob}
    BY DEF Init, ReleaseInit
  <2>2. job \in Job /\ job.step \in {"none", "manifest"}
    <3>1. NoJob \in Job /\ NoJob.step = "none"
      BY DEF NoJob, Job, Steps
    <3>2. CheckJob \in Job /\ CheckJob.step = "manifest"
      BY <3>1 DEF CheckJob, Job, Steps
    <3>3. QED BY <2>1, <3>1, <3>2
  <2>3. Range(offer) = {} /\ Range(installed) = {} /\ <<>> \in Seq(Manifest)
    BY <2>1, EmptySeq DEF Range
  <2>4. QED BY <2>1, <2>2, <2>3 DEF ReleaseFacts, JobFacts, InstallsWhatWasReleased
<1>8. JobInStep
  BY DEF Init, JobInStep, NoJob, CheckJob
<1>9. QED BY <1>3, <1>4, <1>5, <1>6, <1>7, <1>8 DEF AppInv, WindowFacts

LEMMA AppSteps == AppInv /\ [Next]_vars => AppInv'
<1> SUFFICES ASSUME AppInv, [Next]_vars PROVE AppInv'
  OBVIOUS
<1>1. WindowFacts /\ SetupFacts /\ ReleaseFacts /\ JobInStep /\ UpdateInStep /\ TypeOK
  BY DEF AppInv, WindowFacts
<1>2. CASE Logic \/ Input \/ CloseButton \/ BeginCommit \/ EndRun \/ Wake \/ EndCheck
  <2>1. UNCHANGED <<user, updating>>
    BY <1>2 DEF Logic, Input, CloseButton, BeginCommit, EndRun, Wake, EndCheck, pages
  <2>2. SetupFacts' /\ generation' = generation /\ Undetected' = Undetected
    BY <1>1, <1>2, SetupStutters, CheckAnswered
       DEF Logic, Input, CloseButton, BeginCommit, EndRun, Wake, EndCheck
  <2>3. WindowFacts'
    BY <1>1, <1>2, <2>2, QuietStep
  <2>4. ReleaseFacts' /\ JobInStep'
    BY <1>1, <2>1, ReleaseStutters DEF updating, release, downloading, JobInStep
  <2>5. QED BY <2>2, <2>3, <2>4 DEF AppInv
<1>3. CASE UpdateGoesOn
  <2>1. SetupFacts' /\ generation' = generation /\ Undetected' = Undetected
    BY <1>1, <1>3, SetupStutters DEF UpdateGoesOn
  <2>2. QED BY <1>1, <1>3, <2>1, QuietStep, JobGoesOn DEF AppInv
<1>4. CASE EndUpdate
  <2>1. SetupFacts' /\ generation' = generation /\ Undetected' = Undetected
    BY <1>1, <1>4, SetupStutters DEF EndUpdate
  <2>2. QED BY <1>1, <1>4, <2>1, EndUpdateStep, JobAnswered DEF AppInv
<1>5. CASE Poll
  <2>1. WindowFacts' /\ SetupFacts'
    BY <1>1, <1>5, PollStep
  <2>2. /\ UNCHANGED <<release, user, updater>> /\ answer' = "nothing"
        /\ update' = "available" => update = "available" \/ answer = "newer"
    BY <1>1, <1>5 DEF Poll, Answered, TypeOK, Answers
  <2>3. ReleaseFacts' /\ JobInStep'
    BY <1>1, <2>2, ReleaseStutters DEF release, downloading, JobInStep
  <2>4. QED BY <2>1, <2>3 DEF AppInv
<1>6. CASE Act
  <2>1. WindowFacts' /\ SetupFacts'
    BY <1>1, <1>6, ActStep
  <2>2. CASE ActCheck \/ ActInstall
    BY <2>1, <2>2, JobHandedOut DEF AppInv
  <2>3. CASE ActNothing \/ ActStart \/ ActAfterPreview \/ ActChoose \/ ActBack \/ ActCancel
    <3>1. UNCHANGED <<user, updating>>
      BY <2>3 DEF ActNothing, ActStart, ActAfterPreview, ActChoose, ActBack, ActCancel, BeginRun
    <3>2. ReleaseFacts' /\ JobInStep'
      BY <1>1, <3>1, ReleaseStutters DEF updating, release, downloading, JobInStep
    <3>3. QED BY <2>1, <3>2 DEF AppInv
  <2>4. QED BY <1>6, <2>2, <2>3 DEF Act
<1>7. CASE UNCHANGED vars
  <2>1. UNCHANGED <<setup, updating, release, pages>>
    BY <1>7 DEF vars, updating, release
  <2>2. SetupFacts' /\ generation' = generation /\ Undetected' = Undetected
    BY <1>1, <2>1, SetupStutters
  <2>3. ReleaseFacts' /\ JobInStep'
    BY <1>1, <2>1, ReleaseStutters DEF updating, release, downloading, JobInStep, pages
  <2>4. WindowFacts'
    <3>1. TypeOK'
      BY <1>1, <1>7
      DEF TypeOK, vars, setup, closing, saving, updating, painting, pages
    <3>5. CommitOutlivesNoWindow' /\ RequestFacts'
      BY <1>1, <1>7
      DEF WindowFacts, CommitOutlivesNoWindow, RequestFacts, vars, saving, pages
    <3>2. RunInStep' /\ UpdateInStep'
      BY <1>1, <1>7
      DEF WindowFacts, RunInStep, UpdateInStep, vars, saving, updating, pages
    <3>3. FrameInStep'
      BY <1>1, <1>7, <2>2
      DEF WindowFacts, FrameInStep, vars, closing, saving, pages
    <3>4. QED BY <3>1, <3>2, <3>3, <3>5 DEF WindowFacts
  <2>5. QED BY <2>2, <2>3, <2>4 DEF AppInv
<1>8. QED BY <1>2, <1>3, <1>4, <1>5, <1>6, <1>7 DEF Next, Frame

LEMMA AppAlways == Spec => []AppInv
BY AppStarts, AppSteps, PTL DEF Spec

(* The window, its one run, its one update worker and the checks of the    *)
(* setup screen stay in step at every interleaving, and the generation of  *)
(* the checks within its bound.                                            *)
THEOREM SessionInStep == Spec => []InStep
<1>1. AppInv => InStep
  BY DEF AppInv, WindowFacts, ReleaseFacts, InStep
<1>2. QED BY <1>1, AppAlways, PTL

(* No window closes under a commit (session.rs and handle_close_request).  *)
THEOREM CommitKeepsWindow == Spec => []CommitOutlivesNoWindow
<1>1. AppInv => CommitOutlivesNoWindow
  BY DEF AppInv, WindowFacts
<1>2. QED BY <1>1, AppAlways, PTL

(* What the setup screen says is about the choice there is, whatever order *)
(* older checks and the detection answer in, and a run starts on a pair    *)
(* that was checked (App::poll, begin).                                    *)
THEOREM ChecksStayCurrent == Spec => []ChecksAreCurrent
<1>1. AppInv => ChecksAreCurrent
  <2> SUFFICES ASSUME AppInv PROVE ChecksAreCurrent
    OBVIOUS
  <2>1. verdict \in {Checking(choice), Verdict(choice)}
    BY StateFields DEF AppInv, SetupFacts, SoundSetup
  <2>2. request # NoRequest =>
           request.save \in Readable /\ <<request.save, request.game>> \in Fitting
    <3>1. RequestFacts
      BY DEF AppInv, WindowFacts
    <3>2. CASE request # NoRequest
      <4>1. PICK s \in Readable, g \in Games, dry \in BOOLEAN :
               <<s, g>> \in Fitting /\ request = [save |-> s, game |-> g, dry |-> dry]
        BY <3>1, <3>2 DEF RequestFacts
      <4>2. QED BY <4>1
    <3>3. QED BY <3>2
  <2>3. QED BY <2>1, <2>2 DEF ChecksAreCurrent
<1>2. QED BY <1>1, AppAlways, PTL

(* Only a published release that is newer is offered, and all of it, as it *)
(* was published, is what takes the place of the executable.               *)
THEOREM OnlyReleasesInstalled == Spec => []InstallsWhatWasReleased
<1>1. AppInv => InstallsWhatWasReleased
  BY DEF AppInv, ReleaseFacts
<1>2. QED BY <1>1, AppAlways, PTL

-----------------------------------------------------------------------------
(* The swap of the executable.                                             *)

USE DEF Files

(* The types are kept by every step.                                       *)
LEMMA TypeStep == SwapTypeOK /\ [SwapNext]_swapVars => SwapTypeOK'
<1> SUFFICES ASSUME SwapTypeOK, [SwapNext]_swapVars PROVE SwapTypeOK'
  OBVIOUS
<1> USE SwapAssumption
<1>1. CASE UNCHANGED swapVars
  BY <1>1 DEF SwapTypeOK, swapVars, files
<1>2. ASSUME NEW p \in Procs, Launch(p) PROVE SwapTypeOK'
  BY <1>2 DEF SwapTypeOK, Launch, Launched, Goto, SwapSteps, files
<1>3. ASSUME NEW p \in Procs, CleanOld(p) \/ CleanNew(p) PROVE SwapTypeOK'
  BY <1>3 DEF SwapTypeOK, CleanOld, CleanNew, Removed
<1>4. ASSUME NEW p \in Procs, Begin(p) \/ RemoveOld(p) \/ RemoveNew(p)
      PROVE  SwapTypeOK'
  BY <1>4 DEF SwapTypeOK, Begin, RemoveOld, RemoveNew, Removed, Goto, SwapSteps, files
<1>5. ASSUME NEW p \in Procs, StartCopy(p) PROVE SwapTypeOK'
  BY <1>5 DEF SwapTypeOK, StartCopy, Goto, SwapSteps
<1>6. ASSUME NEW p \in Procs, EndCopy(p) PROVE SwapTypeOK'
  <2>1. whole' \subseteq Files
    BY <1>6 DEF SwapTypeOK, EndCopy
  <2>2. QED
    BY <1>6, <2>1 DEF SwapTypeOK, EndCopy, Goto, SwapSteps, files
<1>7. ASSUME NEW p \in Procs, Flush(p) \/ PrepareFails(p) \/ Undo(p)
      PROVE  SwapTypeOK'
  BY <1>7 DEF SwapTypeOK, Flush, PrepareFails, Undo, Removed, Goto, SwapSteps, files
<1>8. ASSUME NEW p \in Procs, Aside(p) \/ Install(p) \/ Rollback(p)
      PROVE  SwapTypeOK'
  BY <1>8 DEF SwapTypeOK, Aside, Install, Rollback, Goto, SwapSteps
<1>9. ASSUME NEW p \in Procs, NEW q \in Procs, Restart(p, q) PROVE SwapTypeOK'
  BY <1>9 DEF SwapTypeOK, Restart, Launched, SwapSteps, files
<1>10. ASSUME NEW p \in Procs, RestartFails(p) \/ Exit(p) PROVE SwapTypeOK'
  BY <1>10 DEF SwapTypeOK, RestartFails, Exit, Goto, SwapSteps, files
<1>11. QED
  BY <1>1, <1>2, <1>3, <1>4, <1>5, <1>6, <1>7, <1>8, <1>9, <1>10 DEF SwapNext

(* No step takes the executable of a living instance away: a name that     *)
(* loses its file refers to one that is not executing.                     *)
LEMMA ImagesStep == SwapTypeOK /\ ImagesKept /\ [SwapNext]_swapVars => ImagesKept'
<1> SUFFICES ASSUME SwapTypeOK, ImagesKept, [SwapNext]_swapVars PROVE ImagesKept'
  OBVIOUS
<1> USE SwapAssumption DEF SwapTypeOK, ImagesKept
<1>1. CASE UNCHANGED swapVars
  BY <1>1 DEF swapVars, files
<1>2. ASSUME NEW p \in Procs, Launch(p) PROVE ImagesKept'
  BY <1>2 DEF Launch, Launched, Goto, files
<1>3. ASSUME NEW p \in Procs, CleanOld(p) \/ CleanNew(p) PROVE ImagesKept'
  BY <1>3 DEF CleanOld, CleanNew, Removed, Held, Running
<1>4. ASSUME NEW p \in Procs, Begin(p) \/ RemoveOld(p) \/ RemoveNew(p)
      PROVE  ImagesKept'
  BY <1>4 DEF Begin, RemoveOld, RemoveNew, Removed, Held, Running, Goto, files
<1>5. ASSUME NEW p \in Procs, StartCopy(p) PROVE ImagesKept'
  BY <1>5 DEF StartCopy, Goto
<1>6. ASSUME NEW p \in Procs,
             EndCopy(p) \/ Flush(p) \/ PrepareFails(p) \/ Undo(p)
      PROVE  ImagesKept'
  BY <1>6 DEF EndCopy, Flush, PrepareFails, Undo, Goto, files
<1>7. ASSUME NEW p \in Procs, Aside(p) PROVE ImagesKept'
  BY <1>7 DEF Aside, Held, Running, Goto
<1>8. ASSUME NEW p \in Procs, Install(p) PROVE ImagesKept'
  BY <1>8 DEF Install, Held, Running, Goto
<1>9. ASSUME NEW p \in Procs, Rollback(p) PROVE ImagesKept'
  BY <1>9 DEF Rollback, Held, Running, Goto
<1>10. ASSUME NEW p \in Procs, NEW q \in Procs, Restart(p, q)
       PROVE  ImagesKept'
  BY <1>10 DEF Restart, Launched, files
<1>11. ASSUME NEW p \in Procs, RestartFails(p) \/ Exit(p) PROVE ImagesKept'
  BY <1>11 DEF RestartFails, Exit, Goto, files
<1>12. QED
  BY <1>1, <1>2, <1>3, <1>4, <1>5, <1>6, <1>7, <1>8, <1>9, <1>10, <1>11
     DEF SwapNext

(* A complete executable stays under one of the two names.  While the      *)
(* acting instance lives, ImagesKept says which; the other steps do not    *)
(* touch the two names.                                                    *)
LEMMA RecoverableStep ==
    SwapTypeOK /\ ImagesKept /\ RecoverableExe /\ [SwapNext]_swapVars => RecoverableExe'
<1> SUFFICES ASSUME SwapTypeOK, ImagesKept, RecoverableExe, [SwapNext]_swapVars
             PROVE  RecoverableExe'
  OBVIOUS
<1>1. ImagesKept'
  BY ImagesStep
<1>2. ASSUME NEW p \in Procs, pc[p] # "off", pc'[p] # "off"
      PROVE  RecoverableExe'
  BY <1>1, <1>2 DEF ImagesKept, RecoverableExe
<1>3. CASE UNCHANGED swapVars
  BY <1>3 DEF RecoverableExe, swapVars, files
<1>4. ASSUME NEW p \in Procs, Launch(p) \/ Exit(p) PROVE RecoverableExe'
  BY <1>4 DEF RecoverableExe, Launch, Exit, files
<1>5. ASSUME NEW p \in Procs, CleanOld(p) \/ CleanNew(p)
      PROVE  RecoverableExe'
  BY <1>2, <1>5 DEF CleanOld, CleanNew
<1>6. ASSUME NEW p \in Procs,
             \/ Begin(p) \/ RemoveOld(p) \/ RemoveNew(p)
             \/ StartCopy(p) \/ EndCopy(p) \/ Flush(p) \/ PrepareFails(p)
      PROVE  RecoverableExe'
  <2>1. pc[p] # "off" /\ pc'[p] # "off"
    BY <1>6 DEF SwapTypeOK, Begin, RemoveOld, RemoveNew, StartCopy, EndCopy,
                Flush, PrepareFails, Goto
  <2>2. QED
    BY <1>2, <2>1
<1>7. ASSUME NEW p \in Procs,
             Aside(p) \/ Install(p) \/ Rollback(p) \/ Undo(p) \/ RestartFails(p)
      PROVE  RecoverableExe'
  <2>1. pc[p] # "off" /\ pc'[p] # "off"
    BY <1>7 DEF SwapTypeOK, Aside, Install, Rollback, Undo, RestartFails, Goto
  <2>2. QED
    BY <1>2, <2>1
<1>8. ASSUME NEW p \in Procs, NEW q \in Procs, Restart(p, q)
      PROVE  RecoverableExe'
  BY <1>8 DEF RecoverableExe, Restart, files
<1>9. QED
  BY <1>3, <1>4, <1>5, <1>6, <1>7, <1>8 DEF SwapNext

(* SwapInv is an inductive invariant of ExeSwap.                              *)
THEOREM SwapAlways == SwapSpec => []SwapInv
<1>1. SwapInit => SwapInv
  BY SwapAssumption DEF SwapInit, SwapInv, SwapTypeOK, ImagesKept, RecoverableExe, SwapSteps
<1>2. SwapInv /\ [SwapNext]_swapVars => SwapInv'
  BY TypeStep, ImagesStep, RecoverableStep DEF SwapInv
<1>3. QED
  BY <1>1, <1>2, PTL DEF SwapSpec

(* Whatever instances do, and wherever they die, a complete executable is  *)
(* at its path or at .old (replace.rs:79-101, 166-168).                    *)
THEOREM Recoverable == SwapSpec => []RecoverableExe
<1>1. SwapInv => RecoverableExe
  BY DEF SwapInv
<1>2. QED
  BY <1>1, SwapAlways, PTL

(* The step from the invariant: whoever moves the executable aside finds   *)
(* its own image at the path, and until it is done nobody else can move or *)
(* remove either name.                                                     *)
LEMMA AloneStep ==
    SwapTypeOK /\ ImagesKept /\ SwapAlone /\ [SwapNext]_swapVars => SwapAlone'
<1> SUFFICES ASSUME SwapTypeOK, ImagesKept, SwapAlone, [SwapNext]_swapVars
             PROVE  SwapAlone'
  OBVIOUS
<1> USE SwapAssumption DEF SwapTypeOK, ImagesKept, SwapAlone, Between
<1>1. CASE UNCHANGED swapVars
  BY <1>1 DEF swapVars, files
<1>2. ASSUME NEW p \in Procs, Launch(p) PROVE SwapAlone'
  <2>1. Between = {}
    BY <1>2 DEF Launch, Launched
  <2>2. Between' = {}
    BY <1>2, <2>1 DEF Launch, Launched, Goto
  <2>3. QED
    BY <2>2
<1>3. ASSUME NEW p \in Procs, CleanOld(p) \/ CleanNew(p) PROVE SwapAlone'
  BY <1>3 DEF CleanOld, CleanNew, Removed, Held, Running
<1>4. ASSUME NEW p \in Procs,
             \/ Begin(p) \/ RemoveNew(p) \/ StartCopy(p) \/ EndCopy(p)
             \/ Flush(p) \/ PrepareFails(p) \/ Undo(p) \/ RestartFails(p)
      PROVE  SwapAlone'
  <2>1. UNCHANGED <<cur, old, image>>
    BY <1>4 DEF Begin, RemoveNew, StartCopy, EndCopy, Flush, PrepareFails,
                Undo, RestartFails, files
  <2>2. Between' = Between
    BY <1>4 DEF Begin, RemoveNew, StartCopy, EndCopy, Flush, PrepareFails,
                Undo, RestartFails, Goto
  <2>3. QED
    BY <2>1, <2>2
<1>5. ASSUME NEW p \in Procs, RemoveOld(p) PROVE SwapAlone'
  <2>1. Between' = Between
    BY <1>5 DEF RemoveOld, Goto
  <2>2. QED
    BY <1>5, <2>1 DEF RemoveOld, Removed, Held, Running
<1>6. ASSUME NEW p \in Procs, Aside(p) PROVE SwapAlone'
  <2>1. CASE UNCHANGED <<cur, old>>
    <3>1. Between' = Between
      BY <1>6, <2>1 DEF Aside, Goto
    <3>2. QED
      BY <1>6, <2>1, <3>1 DEF Aside
  <2>2. CASE cur # None /\ ~Held(old) /\ old' = cur /\ cur' = None
    <3>1. Between = {}
      BY <2>2
    <3>2. image[p] = cur
      BY <1>6, <2>2 DEF Aside, Held, Running
    <3>3. Between' = {p}
      BY <1>6, <2>2, <3>1 DEF Aside, Goto
    <3>4. QED
      BY <1>6, <2>2, <3>2, <3>3 DEF Aside
  <2>3. QED
    BY <1>6, <2>1, <2>2 DEF Aside
<1>7. ASSUME NEW p \in Procs, Install(p) PROVE SwapAlone'
  <2>1. Between = {p}
    BY <1>7 DEF Install
  <2>2. CASE UNCHANGED <<cur, new>>
    <3>1. Between' = {p}
      BY <1>7, <2>1, <2>2 DEF Install, Goto
    <3>2. QED
      BY <1>7, <2>1, <2>2, <3>1 DEF Install
  <2>3. CASE cur' = new /\ new' = None /\ Goto(p, "installed")
    <3>1. Between' = {}
      BY <1>7, <2>1, <2>3 DEF Install, Goto
    <3>2. QED
      BY <3>1
  <2>4. QED
    BY <1>7, <2>2, <2>3 DEF Install
<1>8. ASSUME NEW p \in Procs, Rollback(p) PROVE SwapAlone'
  <2>1. Between = {p}
    BY <1>8 DEF Rollback
  <2>2. Between' = {}
    BY <1>8, <2>1 DEF Rollback, Goto
  <2>3. QED
    BY <2>2
<1>9. ASSUME NEW p \in Procs, NEW q \in Procs, Restart(p, q) PROVE SwapAlone'
  <2>1. Between = {}
    BY <1>9 DEF Restart, Launched
  <2>2. Between' = {}
    BY <1>9, <2>1 DEF Restart, Launched
  <2>3. QED
    BY <2>2
<1>10. ASSUME NEW p \in Procs, Exit(p) PROVE SwapAlone'
  <2>1. Between' = Between \ {p}
    BY <1>10 DEF Exit, Goto
  <2>2. \A q \in Procs \ {p} : image'[q] = image[q]
    BY <1>10 DEF Exit
  <2>3. QED
    BY <1>10, <2>1, <2>2 DEF Exit, files
<1>11. QED
  BY <1>1, <1>2, <1>3, <1>4, <1>5, <1>6, <1>7, <1>8, <1>9, <1>10 DEF SwapNext

(* Between its two renames an instance has both names for itself           *)
(* (replace.rs:79-98).                                                     *)
THEOREM Alone == SwapSpec => []SwapAlone
<1>1. SwapInit => SwapAlone
  BY DEF SwapInit, SwapAlone, Between
<1>2. SwapInv /\ SwapAlone /\ [SwapNext]_swapVars => SwapAlone'
  BY AloneStep DEF SwapInv
<1>3. QED
  BY <1>1, <1>2, SwapAlways, PTL DEF SwapSpec

(* A roll-back restores the executable that is running (replace.rs:47).    *)
THEOREM Restores == SwapSpec => RollbackRestores
<1>1. SwapInv /\ SwapAlone /\ [SwapNext]_swapVars =>
        [\A p \in Procs :
            pc[p] = "rollback" /\ pc'[p] = "undo" /\ cur' # None =>
                cur' = image[p]]_swapVars
  <2> SUFFICES ASSUME SwapInv, SwapAlone, [SwapNext]_swapVars,
                      NEW p \in Procs,
                      pc[p] = "rollback", pc'[p] = "undo", cur' # None
               PROVE  cur' = image[p]
    OBVIOUS
  <2>1. cur = None /\ old = image[p] /\ Between = {p}
    BY DEF SwapAlone, Between
  <2>2. pc \in [Procs -> SwapSteps]
    BY DEF SwapInv, SwapTypeOK
  <2>3. Rollback(p)
    BY <2>1, <2>2
       DEF SwapNext, swapVars, Launch, Launched, CleanOld, CleanNew, Begin, RemoveOld,
           RemoveNew, StartCopy, EndCopy, Flush, PrepareFails, Aside, Install,
           Rollback, Undo, Restart, RestartFails, Exit, Goto, SwapSteps, Between
  <2>4. QED
    BY <2>1, <2>3 DEF Rollback
<1>2. QED
  BY <1>1, SwapAlways, Alone, PTL DEF SwapSpec, RollbackRestores
=============================================================================
