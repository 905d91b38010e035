---------------------------- MODULE FetchProofs ----------------------------
(***************************************************************************)
(* What a scrape hands on about a club, for any number of clubs, documents *)
(* and scrapes, any permits, any providers and whatever they answer: it    *)
(* was live less than the time to live ago.  That the cancel token reaches *)
(* every task that waits.  And that no provider, in no order of answers,   *)
(* makes the reconciled list name a player and a club no source named.     *)
(*                                                                         *)
(* An entry of the cache, on disk or in memory, knows when its document    *)
(* was live at the latest: an older document was read or revalidated       *)
(* before the next one went live.  From then on a task that goes by an     *)
(* entry only needs the clock to stand still until its scrape is over.     *)
(*                                                                         *)
(* Every batch a scan hands over is made of reports as the adapters make   *)
(* them (IsReport, Fed).  Whatever reconcile makes of them stands for      *)
(* reports of one event: a merge adds sources and fills gaps (Stands), a   *)
(* cluster only takes in what meets what it holds (Meets, Grounded), and a *)
(* confirmed transfer names the sources of its cluster (Attested).         *)
(***************************************************************************)
EXTENDS Fetch, FiniteSetTheorems, TLAPS

WorldOk ==
    /\ now \in Nat /\ live \in [Clubs -> Docs] /\ since \in [Clubs -> [Docs -> Nat]]
    /\ agenda \in Seq(Asked) /\ agenda # <<>>
    /\ stage \in Nat

\* The world of one club: the document l is live, each document d is or was
\* live from s[d] on, and it is n o'clock.

\* A document the club has, or had before another one.
Known(l, d) == d \in Docs /\ d <= l /\ (d # l => d + 1 \in Docs)

EntryOk(l, s, n, e) ==
    e # NoEntry =>
        /\ e \in CacheEntries /\ e.tag = TagOf(e.doc) /\ e.at <= n
        /\ Known(l, e.doc)
        /\ e.doc # l => e.at <= s[e.doc + 1]

DiskOk ==
    /\ DOMAIN disk = Clubs
    /\ \A c \in Clubs : disk[c] # Foreign => EntryOk(live[c], since[c], now, disk[c])

EntriesOk ==
    /\ entries \in [Clubs -> CacheEntries \cup {NoEntry}]
    /\ \A c \in Clubs : EntryOk(live[c], since[c], now, entries[c])

\* What a scrape may hand on about the club.
Recent(l, s, n, d) == Known(l, d) /\ (d # l => n - s[d + 1] < Ttl)

Forms == {NoForm} \cup {Form[p] : p \in MatchPages}
FormOf(d) == {NoForm} \cup (IF d \in NeedsSheet THEN {Form[PageOf[d]]} ELSE {})

Requests ==
    [at : {"off", "slot", "check", "try", "permit", "sent", "backoff", "cooldown", "done"},
     want : {"team", "sheet"}, tries : Int, net : BOOLEAN,
     doc : Docs \cup {0}, form : Forms]

\* A task that has the club's document, one that reads its formation.
ReqOk(l, s, n, r) ==
    /\ r.at = "slot" => ~r.net
    /\ r.at \in {"cooldown", "done"} => Recent(l, s, n, r.doc) /\ r.form \in FormOf(r.doc)
    /\ r.at \in {"try", "permit", "sent", "backoff"} /\ r.want = "sheet" =>
           Recent(l, s, n, r.doc) /\ r.doc \in NeedsSheet

TasksOk ==
    /\ stage = Over => req = Resting
    /\ req \in [Tasks -> Requests]
    /\ \A c \in Clubs : ReqOk(live[c], since[c], now, req[c])

\* The tasks that wait for an answer or a timer are those that listen, to a
\* token that has not been told.
Waiting(r) == r.at \in {"sent", "backoff", "cooldown"}

EarsOk ==
    /\ ear \in [Tasks -> {"deaf", "open", "listening", "woken"}]
    /\ \A t \in Tasks : Waiting(req[t]) <=> ear[t] # "deaf"
    /\ token = "told" => \A t \in Tasks : ear[t] # "listening"

IInv == WorldOk /\ DiskOk /\ EntriesOk /\ TasksOk /\ EarsOk

-----------------------------------------------------------------------------
(* The cache of one club.                                                  *)

LEMMA DocsAreNumbers == Docs \subseteq Nat \ {0} /\ Ttl \in Nat \ {0} /\ Tagged \subseteq Docs
BY TeamCacheAssumption

LEMMA PagesAndTags ==
    ASSUME NEW d \in Docs
    PROVE  /\ PageOf[d] \in MatchPages
           /\ [page |-> PageOf[d], form |-> Form[PageOf[d]]] \in Sheets
           /\ TagOf(d) \in Docs \cup {NoTag}
BY DEF MatchPages, Sheets, TagOf

LEMMA LiveIsRecent ==
    ASSUME NEW l \in Docs, NEW s, NEW n
    PROVE  Known(l, l) /\ Recent(l, s, n, l)
BY DocsAreNumbers DEF Known, Recent

(* A fresh entry has a document that may be handed on.                     *)
LEMMA FreshIsRecent ==
    ASSUME NEW l \in Docs, NEW s \in [Docs -> Nat], NEW n \in Nat,
           NEW e, EntryOk(l, s, n, e), Fresh(e, n)
    PROVE  Recent(l, s, n, e.doc)
<1>1. /\ e \in CacheEntries /\ e.at <= n /\ n - e.at < Ttl /\ Known(l, e.doc)
      /\ e.doc # l => e.at <= s[e.doc + 1]
  BY DEF EntryOk, Fresh
<1>2. CASE e.doc = l
  BY <1>1, <1>2 DEF Recent
<1>3. CASE e.doc # l
  <2>1. e.doc + 1 \in Docs /\ e.at \in Int
    BY <1>1, <1>3 DEF Known, CacheEntries
  <2>2. \A d \in Docs : s[d] \in Int
    OBVIOUS
  <2> DEFINE k == e.doc + 1
  <2>3. s[k] \in Int /\ Ttl \in Int
    <3>1. Ttl \in Int
      BY DocsAreNumbers
    <3>2. k \in Docs
      BY <2>1
    <3> HIDE DEF k
    <3>3. QED BY <2>2, <3>1, <3>2
  <2>4. n - s[e.doc + 1] < Ttl
    BY <1>1, <1>3, <2>1, <2>3
  <2>5. QED BY <1>1, <1>3, <2>4 DEF Recent
<1>4. QED BY <1>2, <1>3

LEMMA UpdatedOk ==
    ASSUME NEW l \in Docs, NEW s, NEW n \in Nat, NEW e, EntryOk(l, s, n, e)
    PROVE  /\ Updated(e, l, n) \in CacheEntries /\ Updated(e, l, n).doc = l
           /\ EntryOk(l, s, n, Updated(e, l, n))
<1> DEFINE u == Updated(e, l, n)
<1>1. Known(l, l) /\ n <= n
  BY LiveIsRecent
<1>2. (IF e = NoEntry THEN NoSheet ELSE e.sheet) \in Sheets
  BY DEF EntryOk, CacheEntries, Sheets
<1>3. u \in CacheEntries /\ u.doc = l /\ u.tag = TagOf(l) /\ u.at = n
  <2> DEFINE sheet == IF e = NoEntry THEN NoSheet ELSE e.sheet
             tag == TagOf(l)
  <2>1. sheet \in Sheets
    BY <1>2
  <2>2. tag \in Docs \cup {NoTag}
    BY PagesAndTags
  <2>3. u = [doc |-> l, tag |-> tag, at |-> n, sheet |-> sheet]
    BY DEF Updated
  <2> HIDE DEF sheet, tag
  <2>4. n \in Int
    OBVIOUS
  <2>5. QED BY <2>1, <2>2, <2>3, <2>4 DEF CacheEntries, tag
<1>4. QED BY <1>1, <1>3 DEF EntryOk

(* 304: the validator names the document that is live, which is not told   *)
(* by a document that came without one.                                    *)
LEMMA TouchedOk ==
    ASSUME NEW l \in Docs, NEW s, NEW n \in Nat, NEW e, EntryOk(l, s, n, e),
           Conditional(e), e.tag = TagOf(l)
    PROVE  /\ Touched(e, n) \in CacheEntries /\ Touched(e, n).doc = l
           /\ EntryOk(l, s, n, Touched(e, n))
<1> DEFINE u == [e EXCEPT !.at = n]
<1>1. e \in CacheEntries /\ e.tag = TagOf(e.doc) /\ e.tag # NoTag
  BY DEF EntryOk, Conditional
<1>2. e.doc = l
  BY <1>1 DEF TagOf, NoTag
<1>3. u \in CacheEntries /\ u.doc = e.doc /\ u.tag = e.tag /\ u.at = n
  BY <1>1 DEF CacheEntries
<1>4. Touched(e, n) = u
  BY DEF Touched
<1>5. Known(l, l) /\ n <= n
  BY LiveIsRecent
<1> HIDE DEF u
<1>6. QED BY <1>1, <1>2, <1>3, <1>4, <1>5 DEF EntryOk

LEMMA WithSheetOk ==
    ASSUME NEW l, NEW s, NEW n, NEW e, EntryOk(l, s, n, e), NEW d \in Docs
    PROVE  /\ WithSheet(e, d, Form[PageOf[d]]) \in CacheEntries \cup {NoEntry}
           /\ EntryOk(l, s, n, WithSheet(e, d, Form[PageOf[d]]))
<1> DEFINE sheet == [page |-> PageOf[d], form |-> Form[PageOf[d]]]
           u == [e EXCEPT !.sheet = sheet]
<1>1. CASE e = NoEntry
  BY <1>1 DEF WithSheet
<1>2. CASE e # NoEntry
  <2>1. sheet \in Sheets /\ e \in CacheEntries
    BY <1>2, PagesAndTags DEF EntryOk
  <2>2. u \in CacheEntries /\ u.doc = e.doc /\ u.tag = e.tag /\ u.at = e.at
    BY <2>1 DEF CacheEntries
  <2>3. WithSheet(e, d, Form[PageOf[d]]) = u
    BY <1>2 DEF WithSheet
  <2> HIDE DEF u
  <2>4. EntryOk(l, s, n, u)
    BY <1>2, <2>2 DEF EntryOk
  <2>5. QED BY <2>2, <2>3, <2>4
<1>3. QED BY <1>1, <1>2

(* The next document goes live, or time passes.                            *)
LEMMA OlderOk ==
    ASSUME NEW l \in Docs, NEW s \in [Docs -> Nat], NEW n \in Nat, l + 1 \in Docs
    PROVE  LET after == [s EXCEPT ![l + 1] = n]
           IN  /\ \A e : EntryOk(l, s, n, e) => EntryOk(l + 1, after, n, e)
               /\ \A d : Recent(l, s, n, d) => Recent(l + 1, after, n, d)
<1> DEFINE after == [s EXCEPT ![l + 1] = n]
<1>1. l \in Nat /\ Docs \subseteq Nat /\ Ttl \in Nat /\ 0 < Ttl
  BY DocsAreNumbers
<1>2. after[l + 1] = n /\ \A d \in Docs : d # l + 1 => after[d] = s[d]
  OBVIOUS
<1>3. \A d : Known(l, d) => Known(l + 1, d) /\ d # l + 1 /\ (d + 1 = l + 1 <=> d = l)
  BY <1>1 DEF Known
<1> HIDE DEF after
<1>4. ASSUME NEW e, EntryOk(l, s, n, e) PROVE EntryOk(l + 1, after, n, e)
  <2>1. CASE e = NoEntry
    BY <2>1 DEF EntryOk
  <2>2. CASE e # NoEntry
    <3>1. /\ e \in CacheEntries /\ e.tag = TagOf(e.doc) /\ e.at <= n /\ Known(l, e.doc)
          /\ e.doc # l => e.at <= s[e.doc + 1]
      BY <1>4, <2>2 DEF EntryOk
    <3>2. e.at <= after[e.doc + 1]
      <4>1. CASE e.doc = l
        BY <1>2, <3>1, <4>1
      <4>2. CASE e.doc # l
        <5>1. e.doc + 1 \in Docs /\ e.doc + 1 # l + 1
          BY <1>3, <3>1, <4>2 DEF Known
        <5>2. QED BY <1>2, <3>1, <4>2, <5>1
      <4>3. QED BY <4>1, <4>2
    <3>3. QED BY <1>3, <3>1, <3>2 DEF EntryOk
  <2>3. QED BY <2>1, <2>2
<1>5. ASSUME NEW d, Recent(l, s, n, d) PROVE Recent(l + 1, after, n, d)
  <2>1. Known(l, d) /\ (d # l => n - s[d + 1] < Ttl)
    BY <1>5 DEF Recent
  <2>2. CASE d = l
    <3>1. after[d + 1] = n /\ n - n < Ttl
      BY <1>1, <1>2, <2>2
    <3>2. QED BY <1>3, <2>1, <3>1 DEF Recent
  <2>3. CASE d # l
    <3>1. d + 1 \in Docs /\ d + 1 # l + 1
      BY <1>3, <2>1, <2>3 DEF Known
    <3>2. QED BY <1>2, <1>3, <2>1, <2>3, <3>1 DEF Recent
  <2>4. QED BY <2>2, <2>3
<1>6. QED BY <1>4, <1>5 DEF after

LEMMA LaterOk ==
    ASSUME NEW l, NEW s, NEW n \in Nat, NEW e, EntryOk(l, s, n, e)
    PROVE  EntryOk(l, s, n + 1, e)
<1>1. e \in CacheEntries /\ e.at <= n => e.at <= n + 1
  BY DEF CacheEntries
<1>2. QED BY <1>1 DEF EntryOk

-----------------------------------------------------------------------------
(* What a task goes on with.                                               *)

LEMMA AskingOk ==
    ASSUME NEW r \in Requests, NEW want \in {"team", "sheet"}
    PROVE  /\ Asking(r, want) \in Requests
           /\ Asking(r, want).at = "try" /\ Asking(r, want).want = want
           /\ Asking(r, want).doc = r.doc
<1> DEFINE a == [r EXCEPT !.at = "try"]
           w == [a EXCEPT !.want = want]
           u == [w EXCEPT !.tries = 0]
<1>1. a \in Requests /\ a.at = "try" /\ a.doc = r.doc
  BY DEF Requests
<1> HIDE DEF a
<1>2. w \in Requests /\ w.at = "try" /\ w.want = want /\ w.doc = r.doc
  BY <1>1 DEF Requests
<1> HIDE DEF w
<1>3. u \in Requests /\ u.at = "try" /\ u.want = want /\ u.doc = r.doc
  BY <1>2 DEF Requests
<1>4. Asking(r, want) = u
  BY DEF Asking, a, w
<1>5. QED BY <1>3, <1>4

LEMMA ServedOk ==
    ASSUME NEW r \in Requests, NEW form \in Forms
    PROVE  /\ Served(r, form) \in Requests
           /\ Served(r, form).at = IF r.net THEN "cooldown" ELSE "done"
           /\ Served(r, form).form = form /\ Served(r, form).doc = r.doc
BY DEF Served, Requests

LEMMA WithDocOk ==
    ASSUME NEW l, NEW s, NEW n, NEW r \in Requests, NEW e \in CacheEntries,
           NEW d, Recent(l, s, n, d)
    PROVE  /\ WithDoc(r, d, e) \in Requests /\ ReqOk(l, s, n, WithDoc(r, d, e))
           /\ WithDoc(r, d, e).at \in {"cooldown", "done", "try"}
           /\ WithDoc(r, d, e).at = "cooldown" => r.net
<1> DEFINE got == [r EXCEPT !.doc = d]
<1>1. d \in Docs
  BY DEF Recent, Known
<1>2. got \in Requests /\ got.doc = d /\ got.net = r.net
  BY <1>1 DEF Requests
<1> HIDE DEF got
<1>3. CASE d \notin NeedsSheet
  <2>1. NoForm \in Forms /\ WithDoc(r, d, e) = Served(got, NoForm)
    BY <1>3 DEF WithDoc, got, Forms
  <2>2. QED BY <1>2, <2>1, ServedOk DEF ReqOk, FormOf
<1>4. CASE d \in NeedsSheet /\ KnowsSheet(e, d)
  <2>1. e.sheet \in Sheets /\ e.sheet # NoSheet /\ e.sheet.page = PageOf[d]
    BY <1>4 DEF KnowsSheet, CacheEntries
  <2>2. e.sheet.form = Form[PageOf[d]] /\ e.sheet.form \in Forms
    BY <2>1 DEF Sheets, Forms
  <2>3. WithDoc(r, d, e) = Served(got, e.sheet.form)
    BY <1>4 DEF WithDoc, got
  <2>4. QED BY <1>2, <1>4, <2>2, <2>3, ServedOk DEF ReqOk, FormOf
<1>5. CASE d \in NeedsSheet /\ ~KnowsSheet(e, d)
  <2>1. WithDoc(r, d, e) = Asking(got, "sheet")
    BY <1>5 DEF WithDoc, got
  <2>2. QED BY <1>2, <1>5, <2>1, AskingOk DEF ReqOk
<1>6. QED BY <1>3, <1>4, <1>5

-----------------------------------------------------------------------------
(* How the tasks go on.                                                    *)

World == <<now, live, since, agenda, token>>

LEMMA OverIsAStage == Over \in Nat /\ 0 # Over /\ Over = 9 /\ Tactics = 8
BY DEF Over, Providers, Tactics

LEMMA OffOk ==
    /\ Off \in Requests /\ ~Waiting(Off) /\ ~Off.net
    /\ \A l, s, n : ReqOk(l, s, n, Off)
<1>1. Off \in Requests
  BY DEF Off, Requests, Forms
<1>2. QED BY <1>1 DEF Off, Waiting, ReqOk

(* No club's task has anything to do.                                      *)
Quiet(r) ==
    /\ r \in [Tasks -> Requests]
    /\ \A t \in Tasks : ~Waiting(r[t])
    /\ \A c \in Clubs : r[c] = Off

LEMMA RestingIsQuiet ==
    /\ Quiet(Resting)
    /\ \A at \in {"check", "try"} : Quiet([Resting EXCEPT ![Source].at = at])
<1>1. Source \in Tasks /\ Source \notin Clubs /\ Clubs \subseteq Tasks
  BY FetchAssumption DEF Tasks
<1>2. Resting = [t \in Tasks |-> Off]
  BY DEF Resting
<1>3. Quiet(Resting)
  BY <1>1, <1>2, OffOk DEF Quiet
<1>4. ASSUME NEW at \in {"check", "try"}
      PROVE  Quiet([Resting EXCEPT ![Source].at = at])
  <2> DEFINE r == [Off EXCEPT !.at = at]
  <2>1. r \in Requests /\ ~Waiting(r)
    BY OffOk DEF Requests, Waiting
  <2>2. [Resting EXCEPT ![Source].at = at] = [Resting EXCEPT ![Source] = r]
    BY <1>1, <1>2
  <2> HIDE DEF r
  <2>3. QED BY <1>1, <1>2, <2>1, <2>2, OffOk DEF Quiet
<1>5. QED BY <1>3, <1>4

LEMMA QuietOk ==
    ASSUME Quiet(req'), ear' = Deaf, stage' = Over => req' = Resting
    PROVE  TasksOk' /\ EarsOk'
<1>1. Deaf = [t \in Tasks |-> "deaf"]
  BY DEF Deaf
<1>2. TasksOk'
  BY OffOk DEF Quiet, TasksOk
<1>3. EarsOk'
  BY <1>1 DEF Quiet, EarsOk
<1>4. QED BY <1>2, <1>3

LEMMA EntriesStay ==
    ASSUME EntriesOk, UNCHANGED World, entries' \in {entries, NoEntries}
    PROVE  EntriesOk'
<1>1. CASE entries' = entries
  BY <1>1 DEF EntriesOk, World
<1>2. CASE entries' = NoEntries
  BY <1>2 DEF EntriesOk, NoEntries, EntryOk
<1>3. QED BY <1>1, <1>2

LEMMA DiskStays ==
    ASSUME DiskOk, UNCHANGED <<World, disk>>
    PROVE  DiskOk'
BY DEF DiskOk, World

LEMMA SavedOk ==
    ASSUME DiskOk, EntriesOk, UNCHANGED World, SaveCache(entries, dirty)
    PROVE  DiskOk'
<1>1. PICK written : disk' = Save(disk, entries, dirty, written)
  BY DEF SaveCache
<1>2. disk' = [c \in DOMAIN disk |-> IF c \in dirty \cap written /\ entries[c] # NoEntry
                                     THEN entries[c] ELSE disk[c]]
  BY <1>1 DEF Save
<1>3. DOMAIN disk' = Clubs /\ \A c \in Clubs : disk'[c] \in {entries[c], disk[c]}
  BY <1>2 DEF DiskOk
<1>4. QED BY <1>3 DEF DiskOk, EntriesOk, World

LEMMA WorldStays ==
    ASSUME WorldOk, UNCHANGED World, stage' \in Nat
    PROVE  WorldOk'
BY DEF WorldOk, World

LEMMA LeaveOk ==
    ASSUME IInv, UNCHANGED World, DiskOk', NEW why, Leave(why)
    PROVE  IInv'
<1>1. req' = Resting /\ ear' = Deaf /\ entries' = NoEntries /\ stage' = Over
  BY DEF Leave
<1>2. QED BY <1>1, OverIsAStage, RestingIsQuiet, QuietOk, EntriesStay, WorldStays DEF IInv

LEMMA GoOnOk ==
    ASSUME IInv, UNCHANGED World, DiskOk', NEW found, NEW s, GoOn(found, s)
    PROVE  IInv'
<1> DEFINE over == After(stage) = Over \/ (After(stage) = Tactics /\ ~(Plan.tactics /\ Plan.clubs # {}))
<1>1. CASE over
  BY <1>1, LeaveOk DEF GoOn
<1>2. CASE ~over
  <2>1. /\ stage' = After(stage) /\ stage' # Over /\ ear' = Deaf /\ entries' = NoEntries
        /\ req' = [Resting EXCEPT ![Source].at = "check"]
    BY <1>2 DEF GoOn
  <2>2. stage' \in Nat
    BY <2>1, OverIsAStage DEF After, IInv, WorldOk
  <2>3. QED BY <2>1, <2>2, RestingIsQuiet, QuietOk, EntriesStay, WorldStays DEF IInv
<1>3. QED BY <1>1, <1>2

LEMMA ProceedOk ==
    ASSUME IInv, UNCHANGED World, UNCHANGED disk, stage # Over, NEW s, Proceed(s)
    PROVE  IInv'
<1>1. DiskOk'
  BY DiskStays DEF IInv
<1>2. CASE s.end = "no"
  <2>1. /\ req' = [Resting EXCEPT ![Source].at = "try"] /\ ear' = Deaf
        /\ stage' = stage /\ entries' = entries
    BY <1>2 DEF Proceed
  <2>2. stage' \in Nat /\ stage' # Over
    BY <2>1 DEF IInv, WorldOk
  <2>3. QED BY <1>1, <2>1, <2>2, RestingIsQuiet, QuietOk, EntriesStay, WorldStays DEF IInv
<1>3. CASE s.end # "no" /\ (s.end = "done" \/ (s.end = "failed" /\ s.p # "feed"))
  BY <1>1, <1>3, GoOnOk DEF Proceed
<1>4. CASE s.end # "no" /\ ~(s.end = "done" \/ (s.end = "failed" /\ s.p # "feed"))
  BY <1>1, <1>4, LeaveOk DEF Proceed, End
<1>5. QED BY <1>2, <1>3, <1>4

(* One task does something else, and hears or does not.                    *)
LEMMA TaskStep ==
    ASSUME IInv, UNCHANGED World, UNCHANGED stage, stage # Over,
           NEW t \in Tasks, NEW r \in Requests, req' = [req EXCEPT ![t] = r],
           t \in Clubs => ReqOk(live[t], since[t], now, r),
           NEW x \in {"deaf", "open", "woken"}, ear' = [ear EXCEPT ![t] = x],
           Waiting(r) <=> x # "deaf"
    PROVE  WorldOk' /\ TasksOk' /\ EarsOk'
<1>1. WorldOk'
  BY WorldStays DEF IInv, WorldOk
<1>2. TasksOk'
  BY DEF IInv, TasksOk, World
<1>3. EarsOk'
  BY DEF IInv, TasksOk, EarsOk, World
<1>4. QED BY <1>1, <1>2, <1>3

(* A request that failed or was cancelled.                                 *)
LEMMA FailOk ==
    ASSUME IInv, UNCHANGED World, NEW t \in Tasks, NEW why, Fail(t, why),
           req[t].at \in {"try", "sent", "backoff"} \/ (req[t].at = "cooldown" /\ why # "failed")
    PROVE  IInv'
<1>0. stage # Over
  <2>1. req[t].at # "off"
    OBVIOUS
  <2>2. Resting[t].at = "off"
    BY DEF Resting, Off
  <2>3. QED BY <2>1, <2>2 DEF IInv, TasksOk
<1>1. CASE t = Source
  BY <1>0, <1>1, ProceedOk DEF Fail
<1>2. CASE t # Source /\ req[t].want = "sheet" /\ why = "failed"
  <2> DEFINE r == Served(req[t], NoForm)
             x == Hearing(r)
  <2>1. t \in Clubs /\ req[t] \in Requests
    BY <1>2 DEF Tasks, IInv, TasksOk
  <2>2. ReqOk(live[t], since[t], now, req[t])
    BY <2>1 DEF IInv, TasksOk
  <2>3. Recent(live[t], since[t], now, req[t].doc)
    BY <1>2, <2>2 DEF ReqOk
  <2>4. NoForm \in Forms /\ NoForm \in FormOf(req[t].doc)
    BY DEF Forms, FormOf
  <2>5. /\ r \in Requests /\ r.at \in {"cooldown", "done"}
        /\ r.doc = req[t].doc /\ r.form = NoForm
    BY <2>1, <2>4, ServedOk
  <2>6. /\ req' = [req EXCEPT ![t] = r] /\ ear' = [ear EXCEPT ![t] = Hearing(req'[t])]
        /\ UNCHANGED <<disk, stage, entries>>
    BY <1>2 DEF Fail
  <2> HIDE DEF r
  <2>7. req'[t] = r
    BY <2>6 DEF IInv, TasksOk
  <2>8. ReqOk(live[t], since[t], now, r)
    BY <2>3, <2>4, <2>5 DEF ReqOk
  <2>9. x \in {"deaf", "open"} /\ (Waiting(r) <=> x # "deaf")
    BY <2>5 DEF Hearing, Waiting
  <2>10. WorldOk' /\ TasksOk' /\ EarsOk'
    <3>1. ear' = [ear EXCEPT ![t] = x]
      BY <2>6, <2>7
    <3> HIDE DEF x
    <3>2. QED BY <1>0, <2>5, <2>6, <2>8, <2>9, <3>1, TaskStep
  <2>11. QED BY <2>6, <2>10, EntriesStay, DiskStays DEF IInv
<1>3. CASE t # Source /\ ~(req[t].want = "sheet" /\ why = "failed")
  <2>1. End(why) /\ SaveCache(entries, dirty)
    BY <1>3 DEF Fail
  <2>2. DiskOk'
    BY <2>1, SavedOk DEF IInv
  <2>3. QED BY <2>1, <2>2, LeaveOk DEF End
<1>4. QED BY <1>1, <1>2, <1>3

-----------------------------------------------------------------------------
(* The steps.                                                              *)

LEMMA InitOk == Init => IInv
<1> SUFFICES ASSUME Init PROVE IInv
  OBVIOUS
<1>1. WorldOk
  BY FetchAssumption, OverIsAStage DEF Init, WorldOk
<1>2. EntriesOk
  BY DEF Init, EntriesOk, NoEntries, EntryOk
<1>3. TasksOk /\ EarsOk
  <2>1. req = Resting /\ ear = [t \in Tasks |-> "deaf"] /\ token # "told"
    BY DEF Init, Deaf
  <2>2. TasksOk
    BY <2>1, RestingIsQuiet, OffOk DEF Quiet, TasksOk
  <2>3. EarsOk
    BY <2>1, RestingIsQuiet DEF Quiet, EarsOk
  <2>4. QED BY <2>2, <2>3
<1>4. DiskOk
  <2>1. DOMAIN disk = Clubs
    BY InitialDisksAssumption DEF Init
  <2>2. ASSUME NEW c \in Clubs, disk[c] # Foreign, disk[c] # NoEntry
        PROVE  EntryOk(live[c], since[c], now, disk[c])
    <3> DEFINE e == disk[c]
    <3>1. /\ e \in CacheEntries /\ e.tag = TagOf(e.doc) /\ e.at <= 0
          /\ e.doc # live[c] => e.doc < live[c] /\ e.doc + 1 \in Docs
      BY <2>2, InitialDisksAssumption DEF Init
    <3>2. now = 0 /\ since[c] = [d \in Docs |-> 0] /\ live[c] \in Docs
      BY FetchAssumption DEF Init
    <3>3. e.doc \in Docs /\ e.doc \in Nat /\ live[c] \in Nat
      BY <3>1, <3>2, DocsAreNumbers DEF CacheEntries
    <3> HIDE DEF e
    <3>4. Known(live[c], e.doc)
      BY <3>1, <3>3 DEF Known
    <3>5. QED BY <3>1, <3>2, <3>4 DEF EntryOk, e
  <2>3. ASSUME NEW c \in Clubs, disk[c] = NoEntry
        PROVE  EntryOk(live[c], since[c], now, disk[c])
    BY <2>3 DEF EntryOk
  <2>4. QED BY <2>1, <2>2, <2>3 DEF DiskOk
<1>5. QED BY <1>1, <1>2, <1>3, <1>4 DEF IInv

LEMMA StartScrapeOk == IInv /\ StartScrape => IInv'
<1> SUFFICES ASSUME IInv, StartScrape PROVE IInv'
  OBVIOUS
<1>1. /\ UNCHANGED <<now, live, since, disk, req, ear, entries>>
      /\ stage' = 0 /\ token' = "idle" /\ req = Resting
  BY DEF StartScrape, IInv, TasksOk
<1>2. agenda' \in Seq(Asked) /\ agenda' # <<>>
  <2>1. CASE agenda' = agenda
    BY <2>1 DEF IInv, WorldOk
  <2>2. CASE agenda' = Tail(agenda) /\ Len(agenda) > 1
    <3>1. agenda \in Seq(Asked)
      BY DEF IInv, WorldOk
    <3>2. Tail(agenda) \in Seq(Asked) /\ Len(Tail(agenda)) = Len(agenda) - 1
      BY <2>2, <3>1
    <3>3. Tail(agenda) # <<>>
      BY <2>2, <3>1, <3>2
    <3>4. QED BY <2>2, <3>2, <3>3
  <2>3. QED BY <2>1, <2>2 DEF StartScrape, More
<1>3. WorldOk'
  BY <1>1, <1>2 DEF IInv, WorldOk
<1>4. DiskOk' /\ EntriesOk'
  BY <1>1 DEF IInv, DiskOk, EntriesOk
<1>5. TasksOk'
  BY <1>1 DEF IInv, TasksOk
<1>6. EarsOk'
  BY <1>1 DEF IInv, EarsOk
<1>7. QED BY <1>3, <1>4, <1>5, <1>6 DEF IInv

LEMMA CancelOk == IInv /\ (RequestCancel \/ StoreFlag) => IInv'
<1> SUFFICES ASSUME IInv, RequestCancel \/ StoreFlag PROVE IInv'
  OBVIOUS
<1>1. /\ UNCHANGED <<world, disk, stage, req, ear, entries>>
      /\ token' # "told"
  BY DEF RequestCancel, StoreFlag
<1>2. WorldOk' /\ DiskOk' /\ EntriesOk' /\ TasksOk'
  BY <1>1 DEF IInv, WorldOk, DiskOk, EntriesOk, TasksOk, world
<1>3. EarsOk'
  BY <1>1 DEF IInv, EarsOk
<1>4. QED BY <1>2, <1>3 DEF IInv

LEMMA NotifyOk == IInv /\ NotifyWaiters => IInv'
<1> SUFFICES ASSUME IInv, NotifyWaiters PROVE IInv'
  OBVIOUS
<1>1. /\ UNCHANGED <<world, disk, stage, req, entries>>
      /\ ear' = [t \in Tasks |-> IF ear[t] = "listening" THEN "woken" ELSE ear[t]]
  BY DEF NotifyWaiters
<1>2. WorldOk' /\ DiskOk' /\ EntriesOk' /\ TasksOk'
  BY <1>1 DEF IInv, WorldOk, DiskOk, EntriesOk, TasksOk, world
<1>3. EarsOk'
  BY <1>1 DEF IInv, EarsOk
<1>4. QED BY <1>2, <1>3 DEF IInv

LEMMA LookOk == ASSUME IInv, NEW t \in Tasks, Look(t) PROVE IInv'
<1>1. /\ UNCHANGED <<world, disk, stage, req, entries, token>> /\ ear[t] = "open"
      /\ ear' = [ear EXCEPT ![t] = IF Flagged THEN "woken" ELSE "listening"]
  BY DEF Look
<1>2. WorldOk' /\ DiskOk' /\ EntriesOk' /\ TasksOk'
  BY <1>1 DEF IInv, WorldOk, DiskOk, EntriesOk, TasksOk, world
<1>3. EarsOk'
  BY <1>1 DEF IInv, EarsOk, Flagged
<1>4. QED BY <1>2, <1>3 DEF IInv

LEMMA PlanOk == WorldOk => Plan \in Asked /\ Plan.clubs \subseteq Clubs
BY FetchAssumption DEF WorldOk, Plan

LEMMA OpenClubsOk == IInv /\ OpenClubs => IInv'
<1> SUFFICES ASSUME IInv, OpenClubs PROVE IInv'
  OBVIOUS
<1>1. UNCHANGED World /\ UNCHANGED disk /\ req = Resting /\ stage = 0
  BY DEF OpenClubs, World, world
<1>2. DiskOk'
  BY <1>1, DiskStays DEF IInv
<1>3. CASE Cancelled
  BY <1>1, <1>2, <1>3, LeaveOk DEF OpenClubs, End
<1>4. CASE ~Cancelled
  <2> DEFINE slot == [Off EXCEPT !.at = "slot"]
  <2>1. /\ req' = [t \in Tasks |-> IF t \in Plan.clubs THEN slot ELSE Off]
        /\ entries' = [c \in Clubs |-> Load(disk[c])]
        /\ UNCHANGED <<stage, ear>>
    BY <1>4 DEF OpenClubs
  <2>2. slot \in Requests /\ ~Waiting(slot) /\ \A l, s, n : ReqOk(l, s, n, slot)
    <3>1. slot \in Requests /\ slot.at = "slot" /\ ~slot.net
      BY OffOk DEF Requests
    <3>2. QED BY <3>1 DEF Waiting, ReqOk
  <2> HIDE DEF slot
  <2>3. TasksOk'
    BY <1>1, <2>1, <2>2, OffOk, OverIsAStage DEF TasksOk, Tasks
  <2>4. EarsOk'
    <3>1. \A t \in Tasks : ear[t] = "deaf" /\ ~Waiting(req'[t])
      BY <1>1, <2>1, <2>2, OffOk, RestingIsQuiet DEF IInv, EarsOk, Quiet
    <3>2. QED BY <1>1, <2>1, <3>1 DEF IInv, EarsOk, World
  <2>5. EntriesOk'
    <3>1. ASSUME NEW c \in Clubs
          PROVE  /\ Load(disk[c]) \in CacheEntries \cup {NoEntry}
                 /\ EntryOk(live[c], since[c], now, Load(disk[c]))
      BY DEF IInv, DiskOk, Load, EntryOk
    <3>2. QED BY <1>1, <2>1, <3>1 DEF EntriesOk, World
  <2>6. WorldOk'
    BY <1>1, <2>1, WorldStays DEF IInv, WorldOk
  <2>7. QED BY <1>2, <2>3, <2>4, <2>5, <2>6 DEF IInv
<1>5. QED BY <1>3, <1>4

LEMMA NotOver ==
    ASSUME TasksOk, NEW t \in Tasks, req[t].at # "off"
    PROVE  stage # Over
<1>1. Resting[t].at = "off"
  BY DEF Resting, Off
<1>2. QED BY <1>1 DEF TasksOk

LEMMA ClubTask ==
    ASSUME IInv, NEW c \in Clubs
    PROVE  /\ c \in Tasks /\ req[c] \in Requests
           /\ ReqOk(live[c], since[c], now, req[c])
           /\ entries[c] \in CacheEntries \cup {NoEntry}
           /\ EntryOk(live[c], since[c], now, entries[c])
           /\ live[c] \in Docs /\ since[c] \in [Docs -> Nat] /\ now \in Nat
BY DEF IInv, TasksOk, EntriesOk, WorldOk, Tasks

LEMMA TakeSlotOk == ASSUME IInv, NEW c \in Clubs, TakeSlot(c) PROVE IInv'
<1> DEFINE r == IF Fresh(entries[c], now) THEN WithDoc(req[c], entries[c].doc, entries[c])
                ELSE [Asking(req[c], "team") EXCEPT !.net = TRUE]
<1>1. /\ req[c].at = "slot" /\ UNCHANGED World /\ UNCHANGED <<disk, stage, ear, entries>>
      /\ req' = [req EXCEPT ![c] = r]
  BY DEF TakeSlot, World, world
<1>2. r \in Requests /\ ReqOk(live[c], since[c], now, r) /\ ~Waiting(r)
  <2>1. CASE Fresh(entries[c], now)
    <3>1. entries[c] \in CacheEntries
      BY <2>1, ClubTask DEF Fresh
    <3>2. Recent(live[c], since[c], now, entries[c].doc)
      BY <2>1, ClubTask, FreshIsRecent
    <3>3. ~req[c].net
      BY <1>1, ClubTask DEF ReqOk
    <3>4. r = WithDoc(req[c], entries[c].doc, entries[c])
      BY <2>1
    <3> HIDE DEF r
    <3>5. /\ r \in Requests /\ ReqOk(live[c], since[c], now, r)
          /\ r.at \in {"cooldown", "done", "try"} /\ (r.at = "cooldown" => req[c].net)
      BY <3>1, <3>2, <3>4, ClubTask, WithDocOk
    <3>6. QED BY <3>3, <3>5 DEF Waiting
  <2>2. CASE ~Fresh(entries[c], now)
    <3> DEFINE a == Asking(req[c], "team")
    <3>1. a \in Requests /\ a.at = "try" /\ a.want = "team"
      BY ClubTask, AskingOk
    <3>2. r = [a EXCEPT !.net = TRUE]
      BY <2>2
    <3> HIDE DEF a, r
    <3>3. r \in Requests /\ r.at = "try" /\ r.want = "team"
      BY <3>1, <3>2 DEF Requests
    <3>4. QED BY <3>3 DEF ReqOk, Waiting
  <2>3. QED BY <2>1, <2>2
<1> HIDE DEF r
<1>3. ear[c] = "deaf" /\ ear' = [ear EXCEPT ![c] = "deaf"]
  BY <1>1, ClubTask DEF IInv, EarsOk, Waiting
<1>4. stage # Over
  BY <1>1, ClubTask, NotOver DEF IInv
<1>5. WorldOk' /\ TasksOk' /\ EarsOk'
  BY <1>1, <1>2, <1>3, <1>4, ClubTask, TaskStep
<1>6. QED BY <1>1, <1>5, EntriesStay, DiskStays DEF IInv

LEMMA RestOk == ASSUME IInv, NEW c \in Clubs, Rest(c) PROVE IInv'
<1> DEFINE r == [req[c] EXCEPT !.at = "done"]
<1>1. /\ req[c].at = "cooldown" /\ UNCHANGED World /\ UNCHANGED <<disk, stage, entries>>
      /\ req' = [req EXCEPT ![c].at = "done"] /\ ear' = [ear EXCEPT ![c] = "deaf"]
  BY DEF Rest, World, world
<1>2. /\ r \in Requests /\ r.at = "done" /\ r.doc = req[c].doc /\ r.form = req[c].form
      /\ req' = [req EXCEPT ![c] = r]
  BY <1>1, ClubTask DEF Requests
<1> HIDE DEF r
<1>3. ReqOk(live[c], since[c], now, r) /\ ~Waiting(r)
  BY <1>1, <1>2, ClubTask DEF ReqOk, Waiting
<1>4. stage # Over
  BY <1>1, ClubTask, NotOver DEF IInv
<1>5. WorldOk' /\ TasksOk' /\ EarsOk'
  BY <1>1, <1>2, <1>3, <1>4, ClubTask, TaskStep
<1>6. QED BY <1>1, <1>5, EntriesStay, DiskStays DEF IInv

LEMMA ClubsDoneOk == IInv /\ ClubsDone => IInv'
<1> SUFFICES ASSUME IInv, ClubsDone PROVE IInv'
  OBVIOUS
<1>1. /\ SaveCache(entries, dirty) /\ UNCHANGED World
      /\ \E found \in Plan.reports : GoOn([batches EXCEPT !["clubs"] = found], NoScan)
  BY DEF ClubsDone, World, world
<1>2. DiskOk'
  BY <1>1, SavedOk DEF IInv
<1>3. QED BY <1>1, <1>2, GoOnOk

LEMMA SourceTask == Source \in Tasks
BY DEF Tasks

LEMMA CheckOk == IInv /\ Check => IInv'
<1> SUFFICES ASSUME IInv, Check PROVE IInv'
  OBVIOUS
<1>1. UNCHANGED World /\ UNCHANGED disk /\ req[Source].at = "check"
  BY DEF Check, World, world
<1>2. stage # Over
  BY <1>1, SourceTask, NotOver DEF IInv
<1>3. CASE Cancelled
  <2>1. DiskOk'
    BY <1>1, DiskStays DEF IInv
  <2>2. QED BY <1>1, <1>3, <2>1, LeaveOk DEF Check, End
<1>4. CASE ~Cancelled
  <2>1. \E s : Proceed(s)
    BY <1>4 DEF Check
  <2>2. QED BY <1>1, <1>2, <2>1, ProceedOk
<1>5. QED BY <1>3, <1>4

(* A task whose request goes to its next state.                            *)
LEMMA MoveOn ==
    ASSUME IInv, UNCHANGED World, UNCHANGED <<disk, stage, entries>>, NEW t \in Tasks,
           req[t].at \in {"try", "permit", "sent", "backoff"},
           NEW at \in {"try", "permit", "sent", "backoff"}, NEW tries \in Int,
           req' = [req EXCEPT ![t] = [[req[t] EXCEPT !.at = at] EXCEPT !.tries = tries]],
           NEW x \in {"deaf", "open"}, ear' = [ear EXCEPT ![t] = x],
           at \in {"sent", "backoff"} <=> x # "deaf"
    PROVE  IInv'
<1> DEFINE r == [[req[t] EXCEPT !.at = at] EXCEPT !.tries = tries]
<1>1. req[t] \in Requests
  BY DEF IInv, TasksOk
<1>2. r \in Requests /\ r.at = at /\ r.want = req[t].want /\ r.doc = req[t].doc
  BY <1>1 DEF Requests
<1>3. req' = [req EXCEPT ![t] = r]
  OBVIOUS
<1> HIDE DEF r
<1>4. t \in Clubs => ReqOk(live[t], since[t], now, r)
  BY <1>2, ClubTask DEF ReqOk
<1>5. Waiting(r) <=> x # "deaf"
  BY <1>2 DEF Waiting
<1>6. stage # Over
  <2>1. req[t].at # "off"
    OBVIOUS
  <2>2. QED BY <2>1, NotOver DEF IInv
<1>7. WorldOk' /\ TasksOk' /\ EarsOk'
  BY <1>2, <1>3, <1>4, <1>5, <1>6, TaskStep
<1>8. QED BY <1>7, EntriesStay, DiskStays DEF IInv

LEMMA SameTries ==
    ASSUME TasksOk, NEW t \in Tasks, NEW at
    PROVE  /\ req[t].tries \in Int
           /\ [req EXCEPT ![t].at = at]
                = [req EXCEPT ![t] = [[req[t] EXCEPT !.at = at] EXCEPT !.tries = req[t].tries]]
<1>1. req[t] \in Requests
  BY DEF TasksOk
<1>2. [req[t] EXCEPT !.at = at]
        = [[req[t] EXCEPT !.at = at] EXCEPT !.tries = req[t].tries]
  BY <1>1 DEF Requests
<1>3. QED BY <1>1, <1>2 DEF TasksOk, Requests

LEMMA DeafOrNot ==
    ASSUME EarsOk, NEW t \in Tasks, ~Waiting(req[t])
    PROVE  ear = [ear EXCEPT ![t] = "deaf"]
BY DEF EarsOk

LEMMA TryOk == ASSUME IInv, NEW t \in Tasks, Try(t) PROVE IInv'
<1>1. req[t].at = "try" /\ UNCHANGED World
  BY DEF Try, World, world
<1>2. CASE Flagged
  BY <1>1, <1>2, FailOk DEF Try
<1>3. CASE ~Flagged
  <2>1. req' = [req EXCEPT ![t].at = "permit"] /\ UNCHANGED <<disk, stage, ear, entries>>
    BY <1>3 DEF Try
  <2>2. ear' = [ear EXCEPT ![t] = "deaf"]
    BY <1>1, <2>1, DeafOrNot DEF IInv, Waiting
  <2>3. /\ req[t].tries \in Int
        /\ req' = [req EXCEPT ![t] = [[req[t] EXCEPT !.at = "permit"] EXCEPT !.tries = req[t].tries]]
    BY <1>1, <2>1, SameTries DEF IInv
  <2>4. QED BY <1>1, <2>1, <2>2, <2>3, MoveOn
<1>4. QED BY <1>2, <1>3

LEMMA AcquireOk == ASSUME IInv, NEW t \in Tasks, Acquire(t) PROVE IInv'
<1>1. /\ req[t].at = "permit" /\ UNCHANGED World /\ UNCHANGED <<disk, stage, entries>>
      /\ req' = [req EXCEPT ![t].at = "sent"] /\ ear' = [ear EXCEPT ![t] = "open"]
  BY DEF Acquire, World, world
<1>2. /\ req[t].tries \in Int
      /\ req' = [req EXCEPT ![t] = [[req[t] EXCEPT !.at = "sent"] EXCEPT !.tries = req[t].tries]]
  BY <1>1, SameTries DEF IInv
<1>3. QED BY <1>1, <1>2, MoveOn

LEMMA WakeUpOk == ASSUME IInv, NEW t \in Tasks, WakeUp(t) PROVE IInv'
<1>1. /\ req[t].at = "backoff" /\ UNCHANGED World /\ UNCHANGED <<disk, stage, entries>>
      /\ req' = [req EXCEPT ![t].at = "try"] /\ ear' = [ear EXCEPT ![t] = "deaf"]
  BY DEF WakeUp, World, world
<1>2. /\ req[t].tries \in Int
      /\ req' = [req EXCEPT ![t] = [[req[t] EXCEPT !.at = "try"] EXCEPT !.tries = req[t].tries]]
  BY <1>1, SameTries DEF IInv
<1>3. QED BY <1>1, <1>2, MoveOn

LEMMA NoAnswerOk == ASSUME IInv, NEW t \in Tasks, NoAnswer(t) PROVE IInv'
<1>1. req[t].at = "sent" /\ UNCHANGED World
  BY DEF NoAnswer, World, world
<1>2. CASE req[t].tries + 1 = Limit(t)
  BY <1>1, <1>2, FailOk DEF NoAnswer
<1>3. CASE req[t].tries + 1 # Limit(t)
  <2> DEFINE tries == req[t].tries + 1
  <2>1. tries \in Int
    BY DEF IInv, TasksOk, Requests
  <2>2. /\ UNCHANGED <<disk, stage, entries>> /\ ear' = [ear EXCEPT ![t] = "open"]
        /\ req' = [req EXCEPT ![t].at = "backoff", ![t].tries = @ + 1]
    BY <1>3 DEF NoAnswer
  <2>3. req' = [req EXCEPT ![t] = [[req[t] EXCEPT !.at = "backoff"] EXCEPT !.tries = tries]]
    BY <2>2 DEF IInv, TasksOk, Requests
  <2> HIDE DEF tries
  <2>4. QED BY <1>1, <2>1, <2>2, <2>3, MoveOn
<1>4. QED BY <1>2, <1>3

LEMMA RefusedOk == ASSUME IInv, NEW t \in Tasks, Refused(t) PROVE IInv'
<1>1. req[t].at = "sent" /\ UNCHANGED World /\ Fail(t, "failed")
  BY DEF Refused, World, world
<1>2. QED BY <1>1, FailOk

LEMMA InterruptedOk == ASSUME IInv, NEW t \in Tasks, Interrupted(t) PROVE IInv'
<1>1. ear[t] = "woken" /\ UNCHANGED World /\ Fail(t, "cancelled")
  BY DEF Interrupted, World, world
<1>2. req[t].at \in {"sent", "backoff", "cooldown"}
  BY <1>1 DEF IInv, EarsOk, Waiting
<1>3. QED BY <1>1, <1>2, FailOk

LEMMA AnswerSourceOk == IInv /\ (AnswerSource \/ Deadline) => IInv'
<1> SUFFICES ASSUME IInv, AnswerSource \/ Deadline PROVE IInv'
  OBVIOUS
<1>1. /\ UNCHANGED World /\ UNCHANGED disk /\ \E s : Proceed(s)
      /\ req[Source].at \in {"try", "permit", "sent"}
  BY DEF AnswerSource, Deadline, World, world
<1>2. stage # Over
  <2>1. req[Source].at # "off"
    BY <1>1
  <2>2. QED BY <2>1, SourceTask, NotOver DEF IInv
<1>3. QED BY <1>1, <1>2, ProceedOk

(* A club has an answer: its cache and its task go on together.            *)
LEMMA ClubStep ==
    ASSUME IInv, UNCHANGED World, UNCHANGED <<disk, stage>>, stage # Over, NEW c \in Clubs,
           NEW e \in CacheEntries \cup {NoEntry}, entries' = [entries EXCEPT ![c] = e],
           EntryOk(live[c], since[c], now, e),
           NEW r \in Requests, req' = [req EXCEPT ![c] = r],
           ReqOk(live[c], since[c], now, r), r.at \in {"cooldown", "done", "try"},
           ear' = [ear EXCEPT ![c] = Hearing(req'[c])]
    PROVE  IInv'
<1> DEFINE x == Hearing(r)
<1>1. x \in {"deaf", "open"} /\ (Waiting(r) <=> x # "deaf")
  BY DEF Hearing, Waiting
<1>2. ear' = [ear EXCEPT ![c] = x]
  BY ClubTask DEF IInv, TasksOk
<1> HIDE DEF x
<1>3. WorldOk' /\ TasksOk' /\ EarsOk'
  BY <1>1, <1>2, ClubTask, TaskStep
<1>4. EntriesOk'
  BY DEF IInv, EntriesOk, World
<1>5. QED BY <1>3, <1>4, DiskStays DEF IInv

LEMMA AnswerTeamOk == ASSUME IInv, NEW c \in Clubs, AnswerTeam(c) PROVE IInv'
<1>1. /\ req[c].at = "sent" /\ UNCHANGED World /\ UNCHANGED <<disk, stage>>
      /\ req' = [req EXCEPT ![c] = WithDoc(req[c], entries'[c].doc, entries'[c])]
      /\ ear' = [ear EXCEPT ![c] = Hearing(req'[c])]
  BY DEF AnswerTeam, World, world
<1>2. PICK e \in CacheEntries : /\ entries' = [entries EXCEPT ![c] = e]
                                /\ EntryOk(live[c], since[c], now, e) /\ e.doc = live[c]
  <2>1. CASE entries' = [entries EXCEPT ![c] = Updated(entries[c], live[c], now)]
    BY <2>1, ClubTask, UpdatedOk, ZenonT(60)
  <2>2. CASE /\ Conditional(entries[c]) /\ entries[c].tag = TagOf(live[c])
             /\ entries' = [entries EXCEPT ![c] = Touched(entries[c], now)]
    <3> DEFINE u == Touched(entries[c], now)
    <3>1. u \in CacheEntries /\ u.doc = live[c] /\ EntryOk(live[c], since[c], now, u)
      BY <2>2, ClubTask, TouchedOk
    <3> HIDE DEF u
    <3>2. entries' = [entries EXCEPT ![c] = u]
      BY <2>2 DEF u
    <3>3. QED BY <3>1, <3>2
  <2>3. QED BY <2>1, <2>2 DEF AnswerTeam
<1>3. entries'[c] = e
  BY <1>2 DEF IInv, EntriesOk
<1> DEFINE r == WithDoc(req[c], e.doc, e)
<1>4. Recent(live[c], since[c], now, e.doc)
  BY <1>2, ClubTask, LiveIsRecent
<1>5. /\ r \in Requests /\ ReqOk(live[c], since[c], now, r)
      /\ r.at \in {"cooldown", "done", "try"}
  BY <1>4, ClubTask, WithDocOk
<1>6. req' = [req EXCEPT ![c] = r]
  BY <1>1, <1>3
<1> HIDE DEF r
<1>7. stage # Over
  BY <1>1, ClubTask, NotOver DEF IInv
<1>8. QED BY <1>1, <1>2, <1>5, <1>6, <1>7, ClubStep

LEMMA AnswerSheetOk == ASSUME IInv, NEW c \in Clubs, AnswerSheet(c) PROVE IInv'
<1> DEFINE d == req[c].doc
           e == WithSheet(entries[c], d, Form[PageOf[d]])
           r == Served(req[c], Form[PageOf[d]])
<1>1. /\ req[c].at = "sent" /\ req[c].want = "sheet"
      /\ UNCHANGED World /\ UNCHANGED <<disk, stage>>
      /\ entries' = [entries EXCEPT ![c] = e] /\ req' = [req EXCEPT ![c] = r]
      /\ ear' = [ear EXCEPT ![c] = Hearing(req'[c])]
  BY DEF AnswerSheet, World, world
<1>2. Recent(live[c], since[c], now, d) /\ d \in NeedsSheet /\ d \in Docs
  BY <1>1, ClubTask DEF ReqOk, Recent, Known
<1>3. e \in CacheEntries \cup {NoEntry} /\ EntryOk(live[c], since[c], now, e)
  BY <1>2, ClubTask, WithSheetOk
<1>4. Form[PageOf[d]] \in Forms /\ Form[PageOf[d]] \in FormOf(d)
  BY <1>2, PagesAndTags DEF Forms, FormOf
<1>5. /\ r \in Requests /\ r.at \in {"cooldown", "done"}
      /\ r.doc = d /\ r.form = Form[PageOf[d]]
  BY <1>4, ClubTask, ServedOk
<1> HIDE DEF d, e, r
<1>6. ReqOk(live[c], since[c], now, r)
  BY <1>2, <1>4, <1>5 DEF ReqOk
<1>7. stage # Over
  BY <1>1, ClubTask, NotOver DEF IInv
<1>8. QED BY <1>1, <1>3, <1>5, <1>6, <1>7, ClubStep

LEMMA GoLiveOk == ASSUME IInv, NEW c \in Clubs, GoLive(c) PROVE IInv'
<1> DEFINE l == live[c] + 1
           after == [since[c] EXCEPT ![l] = now]
<1>1. /\ l \in Docs /\ live' = [live EXCEPT ![c] = l] /\ since' = [since EXCEPT ![c] = after]
      /\ UNCHANGED <<now, disk, agenda, token, stage, req, ear, entries>>
  <2>1. /\ l \in Docs /\ live' = [live EXCEPT ![c] = @ + 1] /\ since' = [since EXCEPT ![c][l] = now]
        /\ UNCHANGED <<now, disk, agenda, token, stage, req, ear, entries>>
    BY DEF GoLive
  <2>2. QED BY <2>1, ClubTask
<1>2. after \in [Docs -> Nat] /\ l \in Docs
  BY <1>1, ClubTask
<1>3. /\ \A e : EntryOk(live[c], since[c], now, e) => EntryOk(l, after, now, e)
      /\ \A d : Recent(live[c], since[c], now, d) => Recent(l, after, now, d)
  BY <1>1, ClubTask, OlderOk
<1>4. \A r : ReqOk(live[c], since[c], now, r) => ReqOk(l, after, now, r)
  BY <1>3 DEF ReqOk
<1>5. /\ live' \in [Clubs -> Docs] /\ live'[c] = l /\ since' \in [Clubs -> [Docs -> Nat]] /\ since'[c] = after
      /\ \A k \in Clubs \ {c} : live'[k] = live[k] /\ since'[k] = since[k]
  BY <1>1, <1>2 DEF IInv, WorldOk
<1> HIDE DEF l, after
<1>6. WorldOk'
  BY <1>1, <1>5 DEF IInv, WorldOk
<1>7. DiskOk'
  BY <1>1, <1>3, <1>5 DEF IInv, DiskOk
<1>8. EntriesOk'
  BY <1>1, <1>3, <1>5 DEF IInv, EntriesOk
<1>9. TasksOk'
  BY <1>1, <1>4, <1>5 DEF IInv, TasksOk
<1>10. EarsOk'
  BY <1>1 DEF IInv, EarsOk
<1>11. QED BY <1>6, <1>7, <1>8, <1>9, <1>10 DEF IInv

LEMMA TickOk == IInv /\ Tick => IInv'
<1> SUFFICES ASSUME IInv, Tick PROVE IInv'
  OBVIOUS
<1>1. /\ now' = now + 1 /\ stage = Over /\ req = Resting
      /\ UNCHANGED <<live, since, disk, agenda, token, stage, req, ear, entries>>
  BY DEF Tick, IInv, TasksOk
<1>2. WorldOk'
  BY <1>1 DEF IInv, WorldOk
<1>3. DiskOk' /\ EntriesOk'
  BY <1>1, LaterOk DEF IInv, WorldOk, DiskOk, EntriesOk
<1>4. Quiet(req')
  BY <1>1, RestingIsQuiet
<1>5. TasksOk'
  BY <1>1, <1>4, OffOk DEF Quiet, TasksOk
<1>6. EarsOk'
  BY <1>1 DEF IInv, EarsOk
<1>7. QED BY <1>2, <1>3, <1>5, <1>6 DEF IInv

LEMMA CrashOk == IInv /\ Crash => IInv'
<1> SUFFICES ASSUME IInv, Crash PROVE IInv'
  OBVIOUS
<1>1. UNCHANGED World /\ UNCHANGED disk /\ Leave("crashed")
  BY DEF Crash, End, World, world
<1>2. QED BY <1>1, DiskStays, LeaveOk DEF IInv

LEMMA StepOk == IInv /\ [Next]_vars => IInv'
<1> SUFFICES ASSUME IInv, [Next]_vars PROVE IInv'
  OBVIOUS
<1>1. CASE Prompt
  BY <1>1, OpenClubsOk, ClubsDoneOk, CheckOk, CancelOk, NotifyOk, TakeSlotOk, TryOk,
     AcquireOk, LookOk, InterruptedOk DEF Prompt
<1>2. CASE StartScrape \/ RequestCancel \/ AnswerSource \/ Deadline \/ Tick \/ Crash
  BY <1>2, StartScrapeOk, CancelOk, AnswerSourceOk, TickOk, CrashOk
<1>3. CASE \E c \in Clubs : AnswerTeam(c) \/ AnswerSheet(c) \/ Rest(c) \/ GoLive(c)
  BY <1>3, AnswerTeamOk, AnswerSheetOk, RestOk, GoLiveOk
<1>4. CASE \E t \in Tasks : Refused(t) \/ NoAnswer(t) \/ WakeUp(t)
  BY <1>4, RefusedOk, NoAnswerOk, WakeUpOk
<1>5. CASE UNCHANGED vars
  BY <1>5 DEF IInv, WorldOk, DiskOk, EntriesOk, TasksOk, EarsOk, vars
<1>6. QED BY <1>1, <1>2, <1>3, <1>4, <1>5 DEF Next

THEOREM CacheIsSound == Spec => []IInv
<1>1. QED BY InitOk, StepOk, PTL DEF Spec

-----------------------------------------------------------------------------
(* Only the end of the clubs hands anything on.                            *)
LEMMA HandedOn ==
    ASSUME IInv, [Next]_vars, squads' # squads
    PROVE  AllCurrent'
<1>1. StartScrape \/ ClubsDone
  BY DEF Next, Prompt, OpenClubs, Check, StoreFlag, NotifyWaiters, TakeSlot, Try, Acquire, Look,
     Interrupted, RequestCancel, AnswerSource, Deadline, Tick, Crash, AnswerTeam, AnswerSheet,
     Rest, GoLive, Refused, NoAnswer, WakeUp, vars
<1>2. CASE StartScrape
  BY <1>2 DEF StartScrape, AllCurrent
<1>3. CASE ClubsDone
  <2>1. /\ UNCHANGED World /\ \A c \in Plan.clubs : req[c].at = "done"
        /\ squads' = [c \in Plan.clubs |-> [doc |-> req[c].doc, form |-> req[c].form]]
    BY <1>3 DEF ClubsDone, World, world
  <2>2. ASSUME NEW c \in Plan.clubs
        PROVE  Current(c, squads[c])'
    <3> DEFINE d == req[c].doc
    <3>1. c \in Clubs
      BY PlanOk DEF IInv
    <3>2. Recent(live[c], since[c], now, d) /\ req[c].form \in FormOf(d)
      BY <2>1, <3>1, ClubTask DEF ReqOk
    <3>3. d = live[c] \/ (d < live[c] /\ now - since[c][d + 1] < Ttl)
      <4>1. d \in Nat /\ live[c] \in Nat /\ d <= live[c]
        BY <3>1, <3>2, ClubTask, DocsAreNumbers DEF Recent, Known
      <4>2. QED BY <3>2, <4>1 DEF Recent
    <3>4. squads'[c] = [doc |-> d, form |-> req[c].form]
      BY <2>1
    <3>5. QED BY <2>1, <3>2, <3>3, <3>4 DEF Current, FormOf, World
  <2>3. QED BY <2>1, <2>2 DEF AllCurrent
<1>4. QED BY <1>1, <1>2, <1>3

(* What a scrape hands on about a club was live less than the cache's time *)
(* to live ago, whatever earlier scrapes left in the cache.                *)
THEOREM HandsOnWhatIsCurrent == Spec => ResultsAreCurrent
<1>1. IInv /\ [Next]_vars => [squads' # squads => AllCurrent']_vars
  BY HandedOn
<1>2. QED BY <1>1, CacheIsSound, PTL DEF Spec, ResultsAreCurrent

(* Once the token has been told, every task that waits is about to look at *)
(* it or has been woken: none sleeps through a cancel (http.rs:577-598,    *)
(* 772-828), however its registration and the notice interleave.           *)
NobodySleepsThrough ==
    token = "told" => \A t \in Tasks : Waiting(req[t]) => ear[t] \in {"open", "woken"}

THEOREM CancelIsHeard == Spec => []NobodySleepsThrough
<1>1. IInv => NobodySleepsThrough
  BY DEF IInv, EarsOk, NobodySleepsThrough
<1>2. QED BY <1>1, CacheIsSound, PTL

-----------------------------------------------------------------------------
(***************************************************************************)
(* Loops over rows and reports.                                            *)
(***************************************************************************)
KeepOne(S, kept, x) == IF x \in S THEN Append(kept, x) ELSE kept
JoinOne(S, all, part) == all \o part
\* env is the items and their keys.
FirstOne(env, kept, i) ==
    IF \E j \in 1 .. (i - 1) : env[2][j] = env[2][i] THEN kept ELSE Append(kept, env[1][i])

Keeping == INSTANCE FoldInduction WITH Op <- KeepOne, Inv <- LAMBDA S, i, s : s \in Seq(S)
Joining == INSTANCE FoldInduction WITH Op <- JoinOne, Inv <- LAMBDA S, i, s : s \in Seq(S)
Sifting == INSTANCE FoldInduction
           WITH Op <- FirstOne, Inv <- LAMBDA env, i, s : s \in Seq(Range(env[1]))

LEMMA KeepOk ==
    ASSUME NEW items, NEW n \in Nat, DOMAIN items = 1 .. n, NEW S
    PROVE  Keep(items, S) \in Seq(S)
<1>1. \A i \in 1 .. n : \A s : s \in Seq(S) => KeepOne(S, s, items[i]) \in Seq(S)
  BY DEF KeepOne
<1>2. <<>> \in Seq(S)
  OBVIOUS
<1>3. Keeping!Fold(S, <<>>, items) \in Seq(S)
  BY <1>1, <1>2, Keeping!FoldInvariant
<1>4. QED BY <1>3 DEF Keep, KeepOne, Keeping!Fold, FoldLeft, Keeping!FoldLeft,
                      MapThenFoldSet, Keeping!MapThenFoldSet, Max, Keeping!Max

LEMMA JoinedOk ==
    ASSUME NEW parts, NEW n \in Nat, DOMAIN parts = 1 .. n, NEW S,
           \A i \in 1 .. n : parts[i] \in Seq(S)
    PROVE  Joined(parts) \in Seq(S)
<1>1. \A i \in 1 .. n : \A s : s \in Seq(S) => JoinOne(S, s, parts[i]) \in Seq(S)
  BY DEF JoinOne
<1>2. <<>> \in Seq(S)
  OBVIOUS
<1>3. Joining!Fold(S, <<>>, parts) \in Seq(S)
  BY <1>1, <1>2, Joining!FoldInvariant
<1>4. QED BY <1>3 DEF Joined, JoinOne, Joining!Fold, FoldLeft, Joining!FoldLeft,
                      MapThenFoldSet, Joining!MapThenFoldSet, Max, Joining!Max

LEMMA FirstsOk ==
    ASSUME NEW items, NEW keys, NEW n \in Nat, DOMAIN items = 1 .. n
    PROVE  Firsts(items, keys) \in Seq(Range(items))
<1> DEFINE env == <<items, keys>>
           places == [i \in DOMAIN items |-> i]
           S == Range(items)
<1>1. \A i \in 1 .. n : \A s : s \in Seq(S) => FirstOne(env, s, places[i]) \in Seq(S)
  <2>1. \A i \in 1 .. n : places[i] = i /\ env[1][i] = items[i] /\ items[i] \in S
    BY DEF Range
  <2> HIDE DEF env, places, S
  <2>2. QED BY <2>1 DEF FirstOne
<1>2. <<>> \in Seq(S) /\ Range(env[1]) = S /\ DOMAIN places = 1 .. n
  OBVIOUS
<1> HIDE DEF env, places, S
<1>3. Sifting!Fold(env, <<>>, places) \in Seq(S)
  BY <1>1, <1>2, Sifting!FoldInvariant
<1>4. env[1] = items /\ env[2] = keys
  BY DEF env
<1>5. QED BY <1>3, <1>4 DEF Firsts, FirstOne, places, S, Sifting!Fold, FoldLeft, Sifting!FoldLeft,
                      MapThenFoldSet, Sifting!MapThenFoldSet, Max, Sifting!Max

LEMMA SeqRange ==
    ASSUME NEW S, NEW s \in Seq(S)
    PROVE  /\ Len(s) \in Nat /\ DOMAIN s = 1 .. Len(s)
           /\ Range(s) \subseteq S /\ s \in Seq(Range(s))
           /\ \A i \in DOMAIN s : s[i] \in S /\ s[i] \in Range(s)
BY DEF Range

LEMMA AppendIs ==
    ASSUME NEW L, L \in Seq(Range(L)), NEW t
    PROVE  /\ Append(L, t) \in Seq(Range(Append(L, t)))
           /\ DOMAIN Append(L, t) = 1 .. Len(L) + 1
           /\ Append(L, t)[Len(L) + 1] = t
           /\ \A k \in 1 .. Len(L) : Append(L, t)[k] = L[k]
<1> DEFINE M == Append(L, t)
<1>1. M \in Seq(Range(L) \cup {t}) /\ Len(M) = Len(L) + 1
  <2>1. L \in Seq(Range(L) \cup {t})
    OBVIOUS
  <2>2. QED BY <2>1
<1>2. \A k \in 1 .. Len(L) : M[k] = L[k]
  OBVIOUS
<1>3. M[Len(L) + 1] = t
  OBVIOUS
<1> HIDE DEF M
<1>4. M \in Seq(Range(M)) /\ DOMAIN M = 1 .. Len(L) + 1
  BY <1>1, SeqRange
<1>5. QED BY <1>2, <1>3, <1>4 DEF M

LEMMA ExceptIs ==
    ASSUME NEW L, L \in Seq(Range(L)), NEW k \in 1 .. Len(L), NEW r, NEW M, M = [L EXCEPT ![k] = r]
    PROVE  /\ M \in Seq(Range(M)) /\ Len(M) = Len(L) /\ DOMAIN M = 1 .. Len(L)
           /\ M[k] = r /\ \A j \in 1 .. Len(L) : j # k => M[j] = L[j]
<1>1. M \in Seq(Range(L) \cup {r}) /\ Len(M) = Len(L)
  OBVIOUS
<1>2. QED BY <1>1, SeqRange

-----------------------------------------------------------------------------
(* A report that takes in another stays the report it is, and adds what    *)
(* the other has.                                                          *)
Absorbed(e, d, r) ==
    /\ IsReport(r) /\ r.who = e.who /\ r.to = e.to /\ r.day = e.day
    /\ r.src = e.src \cup d.src
    /\ Ids(e) \subseteq Ids(r) /\ Ids(r) \subseteq Ids(e) \cup Ids(d)

LEMMA FilledOk ==
    ASSUME NEW e, IsReport(e), NEW d, IsReport(d), NEW spaces
    PROVE  LET ids == FilledIds(e, d, spaces)
           IN  /\ DOMAIN ids = IdSpaces
               /\ \A x \in IdSpaces : /\ e.ids[x] # 0 => ids[x] = e.ids[x]
                                      /\ ids[x] \in {e.ids[x], d.ids[x]}
BY DEF FilledIds

LEMMA AbsorbedIs ==
    ASSUME NEW e, IsReport(e), NEW d, IsReport(d), NEW r, NEW spaces,
           DOMAIN r = DOMAIN e, r.who = e.who, r.to = e.to, r.day = e.day,
           r.src = e.src \cup d.src, r.ids = FilledIds(e, d, spaces)
    PROVE  Absorbed(e, d, r)
<1>1. IsReport(r)
  <2>1. IsFiniteSet(r.src)
    <3>1. IsFiniteSet(e.src) /\ IsFiniteSet(d.src)
      BY DEF IsReport
    <3>2. IsFiniteSet(e.src \cup d.src)
      BY <3>1, FS_Union
    <3>3. QED BY <3>2
  <2>2. DOMAIN r.ids = IdSpaces
    BY DEF FilledIds
  <2>3. QED BY <2>1, <2>2 DEF IsReport
<1>2. Ids(e) \subseteq Ids(r) /\ Ids(r) \subseteq Ids(e) \cup Ids(d)
  <2> DEFINE ids == FilledIds(e, d, spaces)
  <2>1. \A x \in IdSpaces : /\ e.ids[x] # 0 => ids[x] = e.ids[x]
                            /\ ids[x] \in {e.ids[x], d.ids[x]}
    BY FilledOk
  <2> HIDE DEF ids
  <2>2. Ids(r) = {<<s, ids[s]>> : s \in {x \in IdSpaces : ids[x] # 0}}
    BY DEF Ids, ids
  <2>3. QED BY <2>1, <2>2 DEF Ids
<1>3. QED BY <1>1, <1>2 DEF Absorbed

LEMMA MergesOk ==
    ASSUME NEW e, IsReport(e), NEW d, IsReport(d)
    PROVE  Absorbed(e, d, MergeDuplicate(e, d)) /\ Absorbed(e, d, MergeProvenance(e, d))
<1>1. Absorbed(e, d, MergeDuplicate(e, d))
  <2> DEFINE r == MergeDuplicate(e, d)
  <2>1. /\ DOMAIN r = DOMAIN e /\ r.who = e.who /\ r.to = e.to /\ r.day = e.day
        /\ r.src = e.src \cup d.src /\ r.ids = FilledIds(e, d, IdSpaces)
    BY DEF MergeDuplicate, IsReport
  <2> HIDE DEF r
  <2>2. QED BY <2>1, AbsorbedIs DEF r
<1>2. Absorbed(e, d, MergeProvenance(e, d))
  <2> DEFINE r == MergeProvenance(e, d)
  <2>1. /\ DOMAIN r = DOMAIN e /\ r.who = e.who /\ r.to = e.to /\ r.day = e.day
        /\ r.src = e.src \cup d.src /\ r.ids = FilledIds(e, d, IdSpaces \ {"fotmob"})
    BY DEF MergeProvenance, IsReport
  <2> HIDE DEF r
  <2>2. QED BY <2>1, AbsorbedIs DEF r
<1>3. QED BY <1>1, <1>2

(* What one report stands for: reports of one event, of which it has the   *)
(* player's name from one, every source and every id from some.            *)
Stands(K, d) ==
    /\ IsReport(d)
    /\ \E t \in K : t.who = d.who
    /\ \A t \in K : t.to = d.to /\ t.day = d.day
    /\ \A s \in d.src : \E t \in K : s \in t.src
    /\ \A i \in Ids(d) : \E t \in K : i \in Ids(t)

LEMMA StandsForItself == ASSUME NEW d, IsReport(d) PROVE Stands({d}, d)
BY DEF Stands

LEMMA StandsForMore ==
    ASSUME NEW K, NEW e, Stands(K, e), NEW t \in K, IsReport(t), NEW r, Absorbed(e, t, r)
    PROVE  Stands(K, r)
BY DEF Stands, Absorbed

ReportsOf(ts, key) == {t \in Range(ts) : EventKey(ts, t) = key}

MergedSo(ts, i, acc) ==
    /\ acc = [list |-> acc.list, slots |-> acc.slots]
    /\ acc.list \in Seq(Range(acc.list))
    /\ \A k \in DOMAIN acc.list : \E key : Stands(ReportsOf(ts, key), acc.list[k])
    /\ \A s \in acc.slots : /\ s.at \in DOMAIN acc.list
                            /\ Stands(ReportsOf(ts, s.key[1]), acc.list[s.at])
    /\ \A s1, s2 \in acc.slots : s1.at = s2.at => s1.key = s2.key

Merging == INSTANCE FoldInduction WITH Op <- AddReport, Inv <- MergedSo

LEMMA MergeTurn ==
    ASSUME NEW ts, \A t \in Range(ts) : IsReport(t), NEW t \in Range(ts), NEW i, NEW acc, MergedSo(ts, i, acc)
    PROVE  MergedSo(ts, i + 1, AddReport(ts, acc, t))
<1> DEFINE L == acc.list
           n == Len(L)
           K == ReportsOf(ts, EventKey(ts, t))
           plain == SlotOf(acc.slots, <<EventKey(ts, t), "any">>)
           typed == \E s \in plain : Apart(acc.list[s.at], t)
           key == <<EventKey(ts, t), IF typed THEN t.type ELSE "any">>
           slot == SlotOf(acc.slots, key)
           s0 == CHOOSE s \in slot : TRUE
           res == AddReport(ts, acc, t)
<1>1. L \in Seq(Range(L)) /\ n \in Nat /\ DOMAIN L = 1 .. n
  BY DEF MergedSo
<1>2. t \in K /\ IsReport(t) /\ \A u \in K : u.to = t.to /\ u.day = t.day
  BY DEF ReportsOf, EventKey
<1>3. Stands(K, t)
  BY <1>2 DEF Stands
<1>4. key[1] = EventKey(ts, t)
  OBVIOUS
<1>5. res = IF slot = {}
            THEN [list |-> Append(L, t), slots |-> acc.slots \cup {[key |-> key, at |-> n + 1]}]
            ELSE [list |-> [L EXCEPT ![s0.at] = MergeDuplicate(L[s0.at], t)], slots |-> acc.slots]
  BY DEF AddReport
<1> HIDE DEF key, K, n, s0
<1>6. CASE slot = {}
  <2> DEFINE M == Append(L, t)
             new == [key |-> key, at |-> n + 1]
  <2>1. res.list = M /\ res.slots = acc.slots \cup {new} /\ res = [list |-> res.list, slots |-> res.slots]
    BY <1>5, <1>6
  <2>2. M \in Seq(Range(M)) /\ DOMAIN M = 1 .. n + 1 /\ M[n + 1] = t /\ \A k \in 1 .. n : M[k] = L[k]
    BY <1>1, AppendIs DEF n
  <2> HIDE DEF M, res
  <2>3. \A k \in DOMAIN M : \E x : Stands(ReportsOf(ts, x), M[k])
    BY <1>1, <1>3, <2>2 DEF MergedSo, K
  <2>4. ASSUME NEW s \in acc.slots \cup {new}
        PROVE  s.at \in DOMAIN M /\ Stands(ReportsOf(ts, s.key[1]), M[s.at])
    <3>1. CASE s = new
      BY <1>1, <1>3, <1>4, <2>2, <3>1 DEF K
    <3>2. CASE s \in acc.slots
      BY <1>1, <2>2, <3>2 DEF MergedSo
    <3>3. QED BY <3>1, <3>2
  <2>5. \A s1, s2 \in acc.slots \cup {new} : s1.at = s2.at => s1.key = s2.key
    <3>1. \A s \in acc.slots : s.at # n + 1
      BY <1>1 DEF MergedSo
    <3>2. QED BY <3>1 DEF MergedSo
  <2>6. MergedSo(ts, i + 1, res)
    BY <2>1, <2>2, <2>3, <2>4, <2>5 DEF MergedSo
  <2>7. QED BY <2>6 DEF res
<1>7. CASE slot # {}
  <2>1. s0 \in acc.slots /\ s0.key = key
    BY <1>7 DEF s0, SlotOf
  <2> DEFINE k0 == s0.at
             r == MergeDuplicate(L[k0], t)
             M == [L EXCEPT ![k0] = r]
  <2>2. res.list = M /\ res.slots = acc.slots /\ res = [list |-> res.list, slots |-> res.slots]
    BY <1>5, <1>7
  <2>3. k0 \in 1 .. n /\ Stands(K, L[k0])
    BY <1>1, <1>4, <2>1 DEF MergedSo, K
  <2>4. Stands(K, r)
    <3>1. Absorbed(L[k0], t, r)
      BY <1>2, <2>3, MergesOk DEF Stands
    <3> HIDE DEF r
    <3>2. QED BY <1>2, <2>3, <3>1, StandsForMore
  <2> HIDE DEF r
  <2>5. DOMAIN M = 1 .. n /\ M[k0] = r /\ (\A k \in 1 .. n : k # k0 => M[k] = L[k]) /\ M \in Seq(Range(M))
    BY <1>1, <2>3, ExceptIs DEF n
  <2> HIDE DEF M, res, k0
  <2>6. \A k \in DOMAIN M : \E x : Stands(ReportsOf(ts, x), M[k])
    BY <1>1, <2>4, <2>5 DEF MergedSo, K
  <2>7. ASSUME NEW s \in acc.slots
        PROVE  s.at \in DOMAIN M /\ Stands(ReportsOf(ts, s.key[1]), M[s.at])
    <3>1. CASE s.at = k0
      <4>1. s.key = key
        BY <2>1, <3>1 DEF MergedSo, k0
      <4>2. QED BY <1>4, <2>3, <2>4, <2>5, <3>1, <4>1 DEF K
    <3>2. CASE s.at # k0
      BY <1>1, <2>5, <3>2 DEF MergedSo
    <3>3. QED BY <3>1, <3>2
  <2>8. MergedSo(ts, i + 1, res)
    BY <2>1, <2>2, <2>5, <2>6, <2>7 DEF MergedSo
  <2>9. QED BY <2>8 DEF res
<1>8. QED BY <1>6, <1>7

(* Every event of a merge stands for the reports of one event.             *)
LEMMA MergeTransfersOk ==
    ASSUME NEW ts, ts \in Seq(Range(ts)), \A t \in Range(ts) : IsReport(t)
    PROVE  /\ MergeTransfers(ts) \in Seq(Range(MergeTransfers(ts)))
           /\ \A e \in Range(MergeTransfers(ts)) : \E key : Stands(ReportsOf(ts, key), e)
<1> DEFINE n == Len(ts)
           none == [list |-> <<>>, slots |-> {}]
<1>1. n \in Nat /\ DOMAIN ts = 1 .. n
  OBVIOUS
<1>2. MergedSo(ts, 0, none)
  <2>1. none.list = <<>> /\ none.slots = {}
    OBVIOUS
  <2>2. QED BY <2>1 DEF MergedSo
<1>3. \A i \in 1 .. n : \A acc : MergedSo(ts, i - 1, acc) => MergedSo(ts, i, AddReport(ts, acc, ts[i]))
  <2>1. \A i \in 1 .. n : ts[i] \in Range(ts) /\ i - 1 + 1 = i
    BY <1>1 DEF Range
  <2> HIDE DEF n
  <2>2. QED BY <2>1, MergeTurn
<1> HIDE DEF n, none
<1>4. MergedSo(ts, n, Merging!Fold(ts, none, ts))
  BY <1>1, <1>2, <1>3, Merging!FoldInvariant
<1>5. Merging!Fold(ts, none, ts).list = MergeTransfers(ts)
  BY DEF MergeTransfers, none, Merging!Fold, FoldLeft, Merging!FoldLeft,
         MapThenFoldSet, Merging!MapThenFoldSet, Max, Merging!Max
<1> DEFINE list == MergeTransfers(ts)
<1>6. list \in Seq(Range(list)) /\ \A k \in DOMAIN list : \E key : Stands(ReportsOf(ts, key), list[k])
  BY <1>4, <1>5 DEF MergedSo
<1> HIDE DEF list
<1>7. QED BY <1>6 DEF Range, list

-----------------------------------------------------------------------------
(* Reports about one player, club and time.                                *)
Meets(t, e) == About(t, e) /\ DaysApart(t, e, Window)

(* A list of events is kept grounded: w has the complete reports (ts, and  *)
(* their set), the signals and all reports that count.                     *)
Paired(ts, t, u) == t = u \/ ({t, u} \subseteq Range(ts) /\ EventKey(ts, t) = EventKey(ts, u))
Names(t, e) == t.who = e.who /\ t.to = e.to /\ t.day = e.day
Sourced(w, e) ==
    \A s \in e.src : \E t, u \in w.all : s \in t.src /\ Paired(w.ts, t, u) /\ Meets(u, e)
Grounded(w, e) ==
    /\ IsReport(e)
    /\ \E t \in w.all : (t \in Range(w.ts) \/ (t \in w.signals /\ t.own)) /\ Names(t, e)
    /\ Sourced(w, e)
AllGrounded(w, list) == list \in Seq(Range(list)) /\ \A k \in DOMAIN list : Grounded(w, list[k])

(* d stands for reports of w that are one.                                 *)
Speaks(w, d) ==
    \E K \in SUBSET w.all : Stands(K, d) /\ \A t, u \in K : Paired(w.ts, t, u)

LEMMA SameNameIs ==
    ASSUME NEW a, NEW b
    PROVE  (SameName(a, b) <=> SameName(b, a)) /\ (a # "" => SameName(a, a))
<1>1. {a, b} = {b, a}
  OBVIOUS
<1>2. QED BY <1>1 DEF SameName

LEMMA DaysNear ==
    ASSUME NEW s, NEW t, s.day \in Nat, t.day \in Nat
    PROVE  /\ DaysApart(s, t, Window) <=> DaysApart(t, s, Window)
           /\ s.day = t.day => Adjacent(s, t)
           /\ Adjacent(s, t) => DaysApart(s, t, Window)
BY ReconcileAssumption DEF DaysApart, Adjacent

LEMMA MeetsIs ==
    ASSUME NEW e, IsReport(e), NEW d, IsReport(d)
    PROVE  /\ Meets(e, d) <=> Meets(d, e)
           /\ Names(e, d) => Meets(e, d)
           /\ SamePlayer(e, d) /\ SameDestination(e, d) /\ Adjacent(e, d) => Meets(e, d)
<1>1. e.day \in Nat /\ d.day \in Nat /\ d.who # "" /\ d.to # ""
  BY DEF IsReport
<1>2. Meets(e, d) <=> Meets(d, e)
  <2>1. SameName(e.who, d.who) <=> SameName(d.who, e.who)
    BY SameNameIs
  <2>2. SameName(e.to, d.to) <=> SameName(d.to, e.to)
    BY SameNameIs
  <2>3. DaysApart(e, d, Window) <=> DaysApart(d, e, Window)
    BY <1>1, DaysNear
  <2>4. QED BY <2>1, <2>2, <2>3 DEF Meets, About, SameDestination
<1>3. Names(e, d) => Meets(e, d)
  BY <1>1, SameNameIs, DaysNear DEF Meets, About, SameDestination, Names
<1>4. SamePlayer(e, d) /\ SameDestination(e, d) /\ Adjacent(e, d) => Meets(e, d)
  BY <1>1, DaysNear DEF Meets, About, SamePlayer
<1>5. QED BY <1>2, <1>3, <1>4

LEMMA MeetsMore ==
    ASSUME NEW e, NEW d, NEW r, Absorbed(e, d, r), NEW u, Meets(u, e)
    PROVE  Meets(u, r)
BY DEF Absorbed, Meets, About, SameDestination, DaysApart

(* What a report says of an event it meets, one of those it stands for     *)
(* says.                                                                   *)
LEMMA OneMeets ==
    ASSUME NEW K, NEW d, Stands(K, d), NEW e, Meets(d, e), NEW r, Ids(e) \subseteq Ids(r),
           r.who = e.who, r.to = e.to, r.day = e.day
    PROVE  \E u \in K : Meets(u, r)
<1>1. CASE Ids(d) \cap Ids(e) # {}
  <2>1. PICK i \in Ids(d) : i \in Ids(e)
    BY <1>1
  <2>2. PICK u \in K : i \in Ids(u)
    BY <2>1 DEF Stands
  <2>3. u.to = d.to /\ u.day = d.day /\ Ids(u) \cap Ids(r) # {}
    BY <2>1, <2>2 DEF Stands
  <2>4. QED BY <2>3 DEF Meets, About, SameDestination, DaysApart
<1>2. CASE SameName(d.who, e.who)
  <2>1. PICK u \in K : u.who = d.who
    BY DEF Stands
  <2>2. u.to = d.to /\ u.day = d.day
    BY DEF Stands
  <2>3. QED BY <1>2, <2>1, <2>2 DEF Meets, About, SameDestination, DaysApart
<1>3. QED BY <1>1, <1>2 DEF Meets, About

LEMMA Takes ==
    ASSUME NEW w, NEW e, Grounded(w, e), NEW d, Speaks(w, d), Meets(d, e), NEW r, Absorbed(e, d, r)
    PROVE  Grounded(w, r)
<1>1. IsReport(r) /\ r.who = e.who /\ r.to = e.to /\ r.day = e.day /\ r.src = e.src \cup d.src
      /\ Ids(e) \subseteq Ids(r)
  BY DEF Absorbed
<1>2. \E t \in w.all : (t \in Range(w.ts) \/ (t \in w.signals /\ t.own)) /\ Names(t, r)
  BY <1>1 DEF Grounded, Names
<1>3. ASSUME NEW s \in e.src
      PROVE  \E t, u \in w.all : s \in t.src /\ Paired(w.ts, t, u) /\ Meets(u, r)
  BY MeetsMore DEF Grounded, Sourced
<1>4. ASSUME NEW s \in d.src
      PROVE  \E t, u \in w.all : s \in t.src /\ Paired(w.ts, t, u) /\ Meets(u, r)
  <2>1. PICK K \in SUBSET w.all : Stands(K, d) /\ \A t, u \in K : Paired(w.ts, t, u)
    BY DEF Speaks
  <2>2. PICK t \in K : s \in t.src
    BY <2>1 DEF Stands
  <2>3. PICK u \in K : Meets(u, r)
    BY <1>1, <2>1, OneMeets
  <2>4. QED BY <2>1, <2>2, <2>3
<1>5. QED BY <1>1, <1>2, <1>3, <1>4 DEF Grounded, Sourced

LEMMA Starts ==
    ASSUME NEW w, NEW d, NEW K \in SUBSET w.all, Stands(K, d), \A t, u \in K : Paired(w.ts, t, u),
           \A t \in K : t \in Range(w.ts) \/ (t \in w.signals /\ t.own)
    PROVE  Grounded(w, d)
<1>1. IsReport(d) /\ Names(d, d)
  BY DEF Stands, Names
<1>2. Meets(d, d)
  BY <1>1, MeetsIs
<1>3. PICK u \in K : Meets(u, d)
  BY <1>2, OneMeets
<1>4. Sourced(w, d)
  BY <1>3 DEF Sourced, Stands
<1>5. \E t \in K : Names(t, d)
  BY DEF Stands, Names
<1>6. QED BY <1>1, <1>4, <1>5 DEF Grounded

LEMMA OnlyOne ==
    ASSUME NEW list, list \in Seq(Range(list)), NEW same \in SUBSET DOMAIN list, Cardinality(same) = 1
    PROVE  Only(same) \in same /\ Only(same) \in 1 .. Len(list)
<1>1. Len(list) \in Nat /\ DOMAIN list = 1 .. Len(list)
  OBVIOUS
<1>2. IsFiniteSet(same)
  <2>1. IsFiniteSet(1 .. Len(list))
    BY <1>1, FS_Interval
  <2>2. QED BY <1>1, <2>1, FS_Subset
<1>3. PICK i : same = {i}
  BY <1>2, FS_Singleton
<1>4. QED BY <1>1, <1>3 DEF Only

LEMMA TakenIn ==
    ASSUME NEW w, NEW list, AllGrounded(w, list), NEW k \in 1 .. Len(list),
           NEW d, IsReport(d), Speaks(w, d), Meets(list[k], d)
    PROVE  AllGrounded(w, [list EXCEPT ![k] = MergeProvenance(list[k], d)])
<1> DEFINE r == MergeProvenance(list[k], d)
           M == [list EXCEPT ![k] = r]
<1>1. list \in Seq(Range(list)) /\ DOMAIN list = 1 .. Len(list)
  BY DEF AllGrounded
<1>2. Grounded(w, list[k])
  BY <1>1 DEF AllGrounded
<1>3. Meets(d, list[k]) /\ Absorbed(list[k], d, r)
  BY <1>2, MeetsIs, MergesOk DEF Grounded
<1> HIDE DEF r
<1>4. Grounded(w, r)
  BY <1>2, <1>3, Takes
<1>5. M \in Seq(Range(M)) /\ DOMAIN M = 1 .. Len(list) /\ M[k] = r
      /\ \A j \in 1 .. Len(list) : j # k => M[j] = list[j]
  BY <1>1, ExceptIs
<1> HIDE DEF M
<1>6. AllGrounded(w, M)
  BY <1>1, <1>4, <1>5 DEF AllGrounded
<1>7. QED BY <1>6 DEF M, r

LEMMA PutIn ==
    ASSUME NEW w, NEW list, AllGrounded(w, list), NEW d, Grounded(w, d)
    PROVE  AllGrounded(w, Append(list, d))
<1> DEFINE M == Append(list, d)
<1>1. list \in Seq(Range(list)) /\ DOMAIN list = 1 .. Len(list) /\ Len(list) \in Nat
  BY DEF AllGrounded
<1>2. /\ M \in Seq(Range(M)) /\ DOMAIN M = 1 .. Len(list) + 1
      /\ M[Len(list) + 1] = d /\ \A k \in 1 .. Len(list) : M[k] = list[k]
  BY <1>1, AppendIs
<1> HIDE DEF M
<1>3. AllGrounded(w, M)
  BY <1>1, <1>2 DEF AllGrounded
<1>4. QED BY <1>3 DEF M

-----------------------------------------------------------------------------
(* The three loops of the reconciliation that take reports into a list of  *)
(* events: complete routes, signals and the routes of corroborators.       *)
LEMMA Candidates ==
    ASSUME NEW list, NEW t, NEW safe
    PROVE  /\ ByRoute(list, t, safe) \subseteq DOMAIN list
           /\ ByDestination(list, t, safe) \subseteq DOMAIN list
BY DEF ByRoute, ByDestination, Decisive

RouteTurn(env, list, t) == AddRoute(env.safe, list, t)
RoutesSo(env, i, list) == AllGrounded(env.w, list)
Routing == INSTANCE FoldInduction WITH Op <- RouteTurn, Inv <- RoutesSo

LEMMA RouteKeeps ==
    ASSUME NEW w, NEW list, AllGrounded(w, list), NEW safe, NEW t, Speaks(w, t), Grounded(w, t)
    PROVE  AllGrounded(w, AddRoute(safe, list, t))
<1> DEFINE same == {i \in ByRoute(list, t, safe) :
                    /\ SamePlayer(list[i], t) /\ CompatibleSource(list[i], t)
                    /\ SameDestination(list[i], t) /\ Adjacent(list[i], t)
                    /\ CompatibleType(list[i], t)}
<1>1. CASE Cardinality(same) = 1
  <2> DEFINE k == Only(same)
  <2>1. list \in Seq(Range(list)) /\ same \in SUBSET DOMAIN list
    BY Candidates DEF AllGrounded
  <2>2. k \in same /\ k \in 1 .. Len(list)
    BY <1>1, <2>1, OnlyOne
  <2>3. SamePlayer(list[k], t) /\ SameDestination(list[k], t) /\ Adjacent(list[k], t)
    BY <2>2
  <2>4. IsReport(t) /\ IsReport(list[k])
    BY <2>1, <2>2 DEF Grounded, AllGrounded
  <2>5. AddRoute(safe, list, t) = [list EXCEPT ![k] = MergeProvenance(list[k], t)]
    BY <1>1 DEF AddRoute
  <2> HIDE DEF k, same
  <2>6. Meets(list[k], t)
    BY <2>3, <2>4, MeetsIs
  <2>7. AllGrounded(w, [list EXCEPT ![k] = MergeProvenance(list[k], t)])
    BY <2>2, <2>4, <2>6, TakenIn
  <2>8. QED BY <2>5, <2>7
<1>2. CASE Cardinality(same) # 1
  BY <1>2, PutIn DEF AddRoute
<1>3. QED BY <1>1, <1>2

Routed(safe, ts) == FoldLeft(LAMBDA list, t : AddRoute(safe, list, t), <<>>, ts)

LEMMA RoutesKeep ==
    ASSUME NEW w, NEW safe, NEW ts, ts \in Seq(Range(ts)),
           \A t \in Range(ts) : Speaks(w, t) /\ Grounded(w, t)
    PROVE  AllGrounded(w, Routed(safe, ts))
<1> DEFINE env == [w |-> w, safe |-> safe]
           n == Len(ts)
<1>1. n \in Nat /\ DOMAIN ts = 1 .. n /\ \A i \in 1 .. n : ts[i] \in Range(ts)
  BY DEF Range
<1>2. RoutesSo(env, 0, <<>>)
  BY DEF RoutesSo, AllGrounded
<1>3. \A i \in 1 .. n : \A list : RoutesSo(env, i - 1, list) => RoutesSo(env, i, RouteTurn(env, list, ts[i]))
  BY <1>1, RouteKeeps DEF RoutesSo, RouteTurn
<1>4. env.safe = safe /\ env.w = w
  OBVIOUS
<1> HIDE DEF n, env
<1>5. RoutesSo(env, n, Routing!Fold(env, <<>>, ts))
  BY <1>1, <1>2, <1>3, Routing!FoldInvariant
<1>6. QED BY <1>4, <1>5 DEF Routed, RoutesSo, RouteTurn, Routing!Fold, FoldLeft, Routing!FoldLeft,
                      MapThenFoldSet, Routing!MapThenFoldSet, Max, Routing!Max

SignalTurn(env, list, t) == AddSignal(env.safe, list, t)
Signing == INSTANCE FoldInduction WITH Op <- SignalTurn, Inv <- RoutesSo

LEMMA SignalKeeps ==
    ASSUME NEW w, NEW list, AllGrounded(w, list), NEW safe, NEW t, IsReport(t), Speaks(w, t),
           t.own => Grounded(w, t)
    PROVE  AllGrounded(w, AddSignal(safe, list, t))
<1> DEFINE same == {i \in ByDestination(list, t, safe) :
                    /\ SamePlayer(list[i], t) /\ SameDestination(list[i], t)
                    /\ Adjacent(list[i], t) /\ CompatibleType(list[i], t)}
<1>1. CASE Cardinality(same) = 1
  <2> DEFINE k == Only(same)
  <2>1. list \in Seq(Range(list)) /\ same \in SUBSET DOMAIN list
    BY Candidates DEF AllGrounded
  <2>2. k \in same /\ k \in 1 .. Len(list)
    BY <1>1, <2>1, OnlyOne
  <2>3. SamePlayer(list[k], t) /\ SameDestination(list[k], t) /\ Adjacent(list[k], t)
    BY <2>2
  <2>4. IsReport(list[k])
    BY <2>1, <2>2 DEF Grounded, AllGrounded
  <2>5. AddSignal(safe, list, t) = [list EXCEPT ![k] = MergeProvenance(list[k], t)]
    BY <1>1 DEF AddSignal
  <2> HIDE DEF k, same
  <2>6. Meets(list[k], t)
    BY <2>3, <2>4, MeetsIs
  <2>7. AllGrounded(w, [list EXCEPT ![k] = MergeProvenance(list[k], t)])
    BY <2>2, <2>4, <2>6, TakenIn
  <2>8. QED BY <2>5, <2>7
<1>2. CASE Cardinality(same) # 1
  BY <1>2, PutIn DEF AddSignal
<1>3. QED BY <1>1, <1>2

LEMMA SignalsKeep ==
    ASSUME NEW w, NEW safe, NEW list, AllGrounded(w, list), NEW ts, ts \in Seq(Range(ts)),
           \A t \in Range(ts) : IsReport(t) /\ Speaks(w, t) /\ (t.own => Grounded(w, t))
    PROVE  AllGrounded(w, WithSignals(list, ts, safe))
<1> DEFINE env == [w |-> w, safe |-> safe]
           n == Len(ts)
<1>1. n \in Nat /\ DOMAIN ts = 1 .. n /\ \A i \in 1 .. n : ts[i] \in Range(ts)
  BY DEF Range
<1>2. RoutesSo(env, 0, list)
  BY DEF RoutesSo
<1>3. \A i \in 1 .. n : \A l : RoutesSo(env, i - 1, l) => RoutesSo(env, i, SignalTurn(env, l, ts[i]))
  BY <1>1, SignalKeeps DEF RoutesSo, SignalTurn
<1>4. env.safe = safe /\ env.w = w
  OBVIOUS
<1> HIDE DEF n, env
<1>5. RoutesSo(env, n, Signing!Fold(env, list, ts))
  BY <1>1, <1>2, <1>3, Signing!FoldInvariant
<1>6. QED BY <1>4, <1>5 DEF RoutesSo, SignalTurn, WithSignals, Signing!Fold, FoldLeft, Signing!FoldLeft,
                      MapThenFoldSet, Signing!MapThenFoldSet, Max, Signing!Max

\* env has the corroborators' routes too.
WordTurn(env, acc, t) == Corroborate(env.safe, acc, t)
WordsSo(env, i, acc) == AllGrounded(env.w, acc.list) /\ acc.left \in Seq(env.routes)
Wording == INSTANCE FoldInduction WITH Op <- WordTurn, Inv <- WordsSo

LEMMA WordKeeps ==
    ASSUME NEW w, NEW acc, AllGrounded(w, acc.list), NEW S, acc.left \in Seq(S),
           NEW safe, NEW t \in S, IsReport(t), Speaks(w, t)
    PROVE  LET next == Corroborate(safe, acc, t) IN AllGrounded(w, next.list) /\ next.left \in Seq(S)
<1> DEFINE list == acc.list
           same == {i \in ByRoute(list, t, safe) :
                    /\ SamePlayer(list[i], t) /\ SameRoute(list[i], t)
                    /\ Adjacent(list[i], t) /\ CompatibleType(list[i], t)}
           next == Corroborate(safe, acc, t)
<1>1. CASE Cardinality(same) = 1
  <2> DEFINE k == Only(same)
  <2>1. list \in Seq(Range(list)) /\ same \in SUBSET DOMAIN list
    BY Candidates DEF AllGrounded
  <2>2. k \in same /\ k \in 1 .. Len(list)
    BY <1>1, <2>1, OnlyOne
  <2>3. SamePlayer(list[k], t) /\ SameDestination(list[k], t) /\ Adjacent(list[k], t)
    BY <2>2 DEF SameRoute
  <2>4. IsReport(list[k])
    BY <2>1, <2>2 DEF Grounded, AllGrounded
  <2>5. next.list = [list EXCEPT ![k] = MergeProvenance(list[k], t)] /\ next.left = acc.left
    BY <1>1 DEF Corroborate
  <2> HIDE DEF k, same, next, list
  <2>6. Meets(list[k], t)
    BY <2>3, <2>4, MeetsIs
  <2>7. AllGrounded(w, next.list)
    BY <2>2, <2>4, <2>5, <2>6, TakenIn DEF list
  <2>8. QED BY <2>5, <2>7 DEF next
<1>2. CASE Cardinality(same) # 1
  <2>1. next.list = list /\ next.left \in {acc.left, Append(acc.left, t)}
    BY <1>2 DEF Corroborate
  <2> HIDE DEF next
  <2>2. QED BY <2>1 DEF next
<1>3. QED BY <1>1, <1>2

LEMMA WordsKeep ==
    ASSUME NEW w, NEW safe, NEW list, AllGrounded(w, list), NEW ts, ts \in Seq(Range(ts)),
           \A t \in Range(ts) : IsReport(t) /\ Speaks(w, t)
    PROVE  LET res == WithRoutes(list, ts, safe)
           IN  AllGrounded(w, res.list) /\ res.left \in Seq(Range(ts))
<1> DEFINE env == [w |-> w, safe |-> safe, routes |-> Range(ts)]
           n == Len(ts)
           none == [list |-> list, left |-> <<>>]
<1>1. n \in Nat /\ DOMAIN ts = 1 .. n /\ \A i \in 1 .. n : ts[i] \in Range(ts)
  BY DEF Range
<1>2. WordsSo(env, 0, none)
  BY DEF WordsSo
<1>3. \A i \in 1 .. n : \A acc : WordsSo(env, i - 1, acc) => WordsSo(env, i, WordTurn(env, acc, ts[i]))
  BY <1>1, WordKeeps DEF WordsSo, WordTurn
<1>4. env.safe = safe /\ env.w = w /\ env.routes = Range(ts)
  OBVIOUS
<1> HIDE DEF n, env, none
<1>5. WordsSo(env, n, Wording!Fold(env, none, ts))
  BY <1>1, <1>2, <1>3, Wording!FoldInvariant
<1>6. Wording!Fold(env, none, ts) = WithRoutes(list, ts, safe)
  BY <1>4 DEF none, WordTurn, WithRoutes, Wording!Fold, FoldLeft, Wording!FoldLeft,
              MapThenFoldSet, Wording!MapThenFoldSet, Max, Wording!Max
<1>7. QED BY <1>4, <1>5, <1>6 DEF WordsSo

LEMMA PreferOk ==
    ASSUME NEW ts, ts \in Seq(Range(ts))
    PROVE  PreferPrimaryRoutes(ts) \in Seq(Range(ts))
<1> DEFINE GroupOf(t) == Keep(ts, {u \in Range(ts) : u.who = t.who /\ u.day = t.day})
           R == {t \in Range(ts) : KeepsRoute(GroupOf(t), t)}
           d == Dated(ts)
           u == Undated(ts)
<1>1. Len(ts) \in Nat /\ DOMAIN ts = 1 .. Len(ts)
  OBVIOUS
<1>2. d \in Seq({t \in Range(ts) : t.day # 0})
  BY <1>1, KeepOk DEF Dated
<1>3. u \in Seq({t \in Range(ts) : t.day = 0})
  BY <1>1, KeepOk DEF Undated
<1> HIDE DEF R, d, u
<1>4. Len(d) \in Nat /\ DOMAIN d = 1 .. Len(d)
  BY <1>2
<1>5. Keep(d, R) \in Seq(R)
  BY <1>4, KeepOk
<1>6. Keep(d, R) \in Seq(Range(ts)) /\ u \in Seq(Range(ts))
  <2>1. R \subseteq Range(ts)
    BY DEF R
  <2>2. QED BY <1>3, <1>5, <2>1
<1>7. PreferPrimaryRoutes(ts) = u \o Keep(d, R)
  BY DEF PreferPrimaryRoutes, u, d, R
<1> HIDE DEF GroupOf
<1>8. QED BY <1>6, <1>7

LEMMA SublistGrounded ==
    ASSUME NEW w, NEW list, AllGrounded(w, list), NEW s \in Seq(Range(list))
    PROVE  AllGrounded(w, s)
<1>1. \A t \in Range(list) : Grounded(w, t)
  BY DEF AllGrounded, Range
<1>2. s \in Seq(Range(s)) /\ \A k \in DOMAIN s : s[k] \in Range(list)
  BY SeqRange
<1>3. QED BY <1>1, <1>2 DEF AllGrounded

(* Each event of the complete routes is grounded in them.                  *)
LEMMA VerifiedGrounded ==
    ASSUME NEW given, NEW w, w.ts = Joined(given), w.ts \in Seq(Range(w.ts)), Range(w.ts) \subseteq w.all,
           \A t \in w.all : IsReport(t)
    PROVE  AllGrounded(w, MergeVerified(given))
<1> DEFINE incoming == MergeTransfers(w.ts)
           safe == SafeNames(incoming)
           list == Routed(safe, incoming)
<1>1. incoming \in Seq(Range(incoming)) /\ \A e \in Range(incoming) : \E key : Stands(ReportsOf(w.ts, key), e)
  BY MergeTransfersOk
<1>2. ASSUME NEW e \in Range(incoming)
      PROVE  Speaks(w, e) /\ Grounded(w, e)
  <2>1. PICK key : Stands(ReportsOf(w.ts, key), e)
    BY <1>1
  <2> DEFINE K == ReportsOf(w.ts, key)
  <2>2. K \in SUBSET w.all /\ K \subseteq Range(w.ts)
    BY DEF ReportsOf
  <2>3. \A t, u \in K : Paired(w.ts, t, u)
    BY DEF ReportsOf, Paired
  <2> HIDE DEF K
  <2>4. Stands(K, e)
    BY <2>1 DEF K
  <2>5. Grounded(w, e)
    BY <2>2, <2>3, <2>4, Starts
  <2>6. QED BY <2>2, <2>3, <2>4, <2>5 DEF Speaks
<1> HIDE DEF incoming, safe
<1>3. AllGrounded(w, list)
  BY <1>1, <1>2, RoutesKeep
<1>4. MergeVerified(given) = PreferPrimaryRoutes(list)
  BY DEF MergeVerified, Routed, incoming, safe
<1> HIDE DEF list
<1>5. PreferPrimaryRoutes(list) \in Seq(Range(list))
  BY <1>3, PreferOk DEF AllGrounded
<1>6. QED BY <1>3, <1>4, <1>5, SublistGrounded

-----------------------------------------------------------------------------
(* Events only corroborators report.                                       *)
LEMMA MinOf ==
    ASSUME NEW T, T \subseteq Nat, T # {}
    PROVE  Min(T) \in T /\ \A n \in T : Min(T) <= n
<1>1. PICK m \in T : \A n \in T : m <= n
  BY Keeping!LeastNatural
<1>2. QED BY <1>1 DEF Min

IsCluster(S, c) == c \in Seq(S) /\ c # <<>> /\ \A i, j \in DOMAIN c : Meets(c[i], c[j])

LEMMA ClusterGrows ==
    ASSUME NEW S, \A t \in S : IsReport(t), NEW c, IsCluster(S, c), NEW t \in S, Agrees(c, t)
    PROVE  IsCluster(S, Append(c, t))
<1> DEFINE M == Append(c, t)
           n == Len(c)
<1>1. c \in Seq(S) /\ c \in Seq(Range(c)) /\ n \in Nat /\ DOMAIN c = 1 .. n
  BY DEF IsCluster, Range
<1>2. M \in Seq(S) /\ M # <<>>
  BY <1>1
<1>3. DOMAIN M = 1 .. n + 1 /\ M[n + 1] = t /\ \A k \in 1 .. n : M[k] = c[k]
  BY <1>1, AppendIs
<1>4. \A k \in 1 .. n : Meets(c[k], t) /\ Meets(t, c[k])
  <2> TAKE k \in 1 .. n
  <2>1. c[k] \in Range(c) /\ IsReport(c[k]) /\ IsReport(t)
    BY <1>1 DEF Range
  <2>2. Meets(c[k], t)
    BY <2>1 DEF Agrees, Meets, About, SamePlayer
  <2>3. QED BY <2>1, <2>2, MeetsIs
<1>5. Meets(t, t)
  BY MeetsIs DEF Names
<1> HIDE DEF M, n
<1>6. \A i, j \in DOMAIN M : Meets(M[i], M[j])
  <2> TAKE i, j \in DOMAIN M
  <2>1. (i \in 1 .. n \/ i = n + 1) /\ (j \in 1 .. n \/ j = n + 1)
    BY <1>1, <1>3
  <2>2. QED BY <1>1, <1>3, <1>4, <1>5, <2>1 DEF IsCluster
<1>7. QED BY <1>2, <1>6 DEF IsCluster, M

ClusterTurn(S, cs, t) == Clustered(cs, t)
ClustersSo(S, i, cs) == cs \in Seq(Range(cs)) /\ \A k \in DOMAIN cs : IsCluster(S, cs[k])
Clustering == INSTANCE FoldInduction WITH Op <- ClusterTurn, Inv <- ClustersSo

LEMMA ClusterKeeps ==
    ASSUME NEW S, \A t \in S : IsReport(t), NEW i, NEW cs, ClustersSo(S, i, cs), NEW t \in S
    PROVE  ClustersSo(S, i + 1, Clustered(cs, t))
<1> DEFINE fits == {k \in DOMAIN cs : Agrees(cs[k], t)}
           n == Len(cs)
<1>1. cs \in Seq(Range(cs)) /\ n \in Nat /\ DOMAIN cs = 1 .. n
  BY DEF ClustersSo
<1>2. CASE fits = {}
  <2> DEFINE c == <<t>>
             M == Append(cs, c)
  <2>1. IsCluster(S, c)
    BY MeetsIs DEF IsCluster, Names
  <2> HIDE DEF c
  <2>2. M \in Seq(Range(M)) /\ DOMAIN M = 1 .. n + 1 /\ M[n + 1] = c /\ \A k \in 1 .. n : M[k] = cs[k]
    BY <1>1, AppendIs
  <2>3. Clustered(cs, t) = M
    BY <1>2 DEF Clustered, c
  <2> HIDE DEF M, n
  <2>4. ClustersSo(S, i + 1, M)
    BY <1>1, <2>1, <2>2 DEF ClustersSo
  <2>5. QED BY <2>3, <2>4
<1>3. CASE fits # {}
  <2> DEFINE k0 == Min(fits)
             c == Append(cs[k0], t)
             M == [cs EXCEPT ![k0] = c]
  <2>1. k0 \in fits
    <3>1. fits \subseteq Nat
      BY <1>1
    <3> HIDE DEF fits
    <3>2. QED BY <1>3, <3>1, MinOf
  <2>2. Clustered(cs, t) = M
    BY <1>3 DEF Clustered
  <2>3. k0 \in 1 .. n /\ IsCluster(S, cs[k0]) /\ Agrees(cs[k0], t)
    BY <1>1, <2>1 DEF ClustersSo
  <2> HIDE DEF k0
  <2>4. IsCluster(S, c)
    BY <2>3, ClusterGrows
  <2> HIDE DEF c
  <2>5. M \in Seq(Range(M)) /\ DOMAIN M = 1 .. n /\ M[k0] = c /\ \A k \in 1 .. n : k # k0 => M[k] = cs[k]
    BY <1>1, <2>3, ExceptIs
  <2> HIDE DEF M, n
  <2>6. ClustersSo(S, i + 1, M)
    BY <1>1, <2>4, <2>5 DEF ClustersSo
  <2>7. QED BY <2>2, <2>6
<1>4. QED BY <1>2, <1>3

LEMMA ClustersOk ==
    ASSUME NEW ts, ts \in Seq(Range(ts)), \A t \in Range(ts) : IsReport(t)
    PROVE  Clusters(ts) \in Seq(Range(Clusters(ts))) /\ \A c \in Range(Clusters(ts)) : IsCluster(Range(ts), c)
<1> DEFINE S == Range(ts)
           n == Len(ts)
           cs == Clustering!Fold(S, <<>>, ts)
<1>1. n \in Nat /\ DOMAIN ts = 1 .. n /\ \A i \in 1 .. n : ts[i] \in S /\ i - 1 + 1 = i
  BY DEF Range
<1>2. ClustersSo(S, 0, <<>>)
  BY DEF ClustersSo
<1> HIDE DEF n, S
<1>3. \A t \in S : IsReport(t)
  BY DEF S
<1>4. \A i \in 1 .. n : \A c : ClustersSo(S, i - 1, c) => ClustersSo(S, i, ClusterTurn(S, c, ts[i]))
  BY <1>1, <1>3, ClusterKeeps DEF ClusterTurn
<1>5. ClustersSo(S, n, cs)
  BY <1>1, <1>2, <1>4, Clustering!FoldInvariant
<1>6. cs = Clusters(ts)
  BY DEF ClusterTurn, Clusters, Clustering!Fold, FoldLeft, Clustering!FoldLeft,
         MapThenFoldSet, Clustering!MapThenFoldSet, Max, Clustering!Max
<1> HIDE DEF cs
<1>7. QED BY <1>5, <1>6 DEF ClustersSo, Range, S

LEMMA PriorityIs == ASSUME NEW t PROVE Priority(t) \in Nat
<1> DEFINE T == {Rank(s) : s \in t.src} \cup {3}
<1>1. T \subseteq Nat /\ T # {}
  BY DEF Rank
<1> HIDE DEF T
<1>2. Min(T) \in Nat
  BY <1>1, MinOf
<1>3. QED BY <1>2 DEF Priority, T

(* The member the event of a cluster is made from is one of its members.   *)
Comes(c, i, j) ==
    LET a == c[i]  b == c[j]
    IN  \/ Priority(a) < Priority(b)
        \/ Priority(a) = Priority(b) /\ (a.day < b.day \/ (a.day = b.day /\ i <= j))

LEMMA SomeComesFirst ==
    ASSUME NEW c, NEW T, T \subseteq Nat, T # {}, \A i \in T : c[i].day \in Nat
    PROVE  \E i \in T : \A j \in T : Comes(c, i, j)
<1> DEFINE P == {Priority(c[i]) : i \in T}
<1>1. PICK p \in P : \A q \in P : p <= q
  <2>1. P \subseteq Nat /\ P # {}
    BY PriorityIs
  <2>2. QED BY <2>1, Keeping!LeastNatural
<1> DEFINE U == {i \in T : Priority(c[i]) = p}
           D == {c[i].day : i \in U}
<1>2. PICK d \in D : \A q \in D : d <= q
  <2>1. D \subseteq Nat /\ D # {}
    BY <1>1
  <2>2. QED BY <2>1, Keeping!LeastNatural
<1> DEFINE V == {i \in U : c[i].day = d}
<1>3. PICK k \in V : \A q \in V : k <= q
  <2>1. V \subseteq Nat /\ V # {}
    BY <1>2
  <2>2. QED BY <2>1, Keeping!LeastNatural
<1>4. ASSUME NEW j \in T PROVE Comes(c, k, j)
  <2>1. k \in T /\ Priority(c[k]) = p /\ c[k].day = d
    BY <1>3
  <2>2. Priority(c[j]) \in Nat /\ p \in Nat /\ p <= Priority(c[j]) /\ d \in Nat /\ c[j].day \in Nat
    BY <1>1, <1>2, <2>1, PriorityIs
  <2>3. CASE Priority(c[j]) # p
    BY <2>1, <2>2, <2>3 DEF Comes
  <2>4. CASE Priority(c[j]) = p
    <3>1. j \in U /\ d <= c[j].day
      BY <1>2, <2>4
    <3>2. c[j].day = d => k <= j
      BY <1>3, <3>1
    <3> HIDE DEF U
    <3>3. QED BY <2>1, <2>2, <2>4, <3>1, <3>2 DEF Comes
  <2>5. QED BY <2>3, <2>4
<1>5. QED BY <1>3, <1>4

\* env is the cluster's member the event is made from, and all of them.
MemberTurn(env, e, d) == MergeProvenance(e, d)
MembersSo(env, i, e) ==
    /\ IsReport(e) /\ Names(env[1], e) /\ Ids(env[1]) \subseteq Ids(e)
    /\ \A s \in e.src : \E u \in env[2] : s \in u.src
Telling == INSTANCE FoldInduction WITH Op <- MemberTurn, Inv <- MembersSo

LEMMA MemberKeeps ==
    ASSUME NEW env, NEW i, NEW e, MembersSo(env, i, e), NEW d \in env[2], IsReport(d), NEW j
    PROVE  MembersSo(env, j, MergeProvenance(e, d))
<1> DEFINE r == MergeProvenance(e, d)
<1>1. Absorbed(e, d, r)
  BY MergesOk DEF MembersSo
<1> HIDE DEF r
<1>2. QED BY <1>1 DEF MembersSo, Absorbed, Names, r

LEMMA EventOfOk ==
    ASSUME NEW S, \A t \in S : IsReport(t), NEW c, IsCluster(S, c)
    PROVE  \E m \in Range(c) : MembersSo(<<m, Range(c)>>, 0, EventOf(c))
<1> DEFINE n == Len(c)
           named == NamesClub(c)
           source == c[IF named = {} THEN 1 ELSE Min(named)]
           dated == {i \in DOMAIN c : c[i].day # 0}
           at == IF dated = {} THEN 1 ELSE CHOOSE i \in dated : \A j \in dated : Comes(c, i, j)
           event == [c[at] EXCEPT !.from = source.from, !.own = FALSE]
           rest == SubSeq(c, 1, at - 1) \o SubSeq(c, at + 1, Len(c))
           env == <<c[at], Range(c)>>
<1>1. n \in Nat /\ n # 0 /\ DOMAIN c = 1 .. n /\ c \in Seq(Range(c)) /\ \A i \in 1 .. n : IsReport(c[i]) /\ c[i] \in Range(c)
  BY DEF IsCluster, Range
<1>2. at \in 1 .. n
  <2>1. CASE dated = {}
    BY <1>1, <2>1
  <2>2. CASE dated # {}
    <3>1. dated \subseteq Nat /\ \A i \in dated : c[i].day \in Nat
      <4>1. \A i \in 1 .. n : c[i].day \in Nat
        BY <1>1 DEF IsReport
      <4>2. dated \subseteq 1 .. n
        BY <1>1
      <4> HIDE DEF dated, n
      <4>3. QED BY <1>1, <4>1, <4>2
    <3>2. \E i \in dated : \A j \in dated : Comes(c, i, j)
      BY <2>2, <3>1, SomeComesFirst
    <3>3. at \in dated
      BY <2>2, <3>2
    <3>4. QED BY <1>1, <3>3
  <2>3. QED BY <2>1, <2>2
<1>3. EventOf(c) = FoldLeft(MergeProvenance, event, rest)
  BY DEF EventOf, Comes
<1> HIDE DEF at, source
<1>4. MembersSo(env, 0, event)
  <2>1. IsReport(c[at]) /\ c[at] \in Range(c) /\ env[1] = c[at] /\ env[2] = Range(c)
    BY <1>1, <1>2
  <2>2. DOMAIN event = DOMAIN c[at] /\ event.who = c[at].who /\ event.to = c[at].to
        /\ event.day = c[at].day /\ event.ids = c[at].ids /\ event.src = c[at].src
    BY <2>1 DEF IsReport
  <2> HIDE DEF event, env
  <2>3. IsReport(event)
    BY <2>1, <2>2 DEF IsReport
  <2>4. QED BY <2>1, <2>2, <2>3 DEF MembersSo, Names, Ids
<1>5. rest \in Seq(Range(c))
  <2>1. SubSeq(c, 1, at - 1) \in Seq(Range(c))
    BY <1>1, <1>2
  <2>2. SubSeq(c, at + 1, Len(c)) \in Seq(Range(c))
    BY <1>1, <1>2
  <2>3. QED BY <2>1, <2>2
<1> HIDE DEF event, rest
<1>6. Len(rest) \in Nat /\ DOMAIN rest = 1 .. Len(rest) /\ \A i \in 1 .. Len(rest) : rest[i] \in Range(c)
  BY <1>5
<1>7. \A i \in 1 .. Len(rest) : \A e : MembersSo(env, i - 1, e) => MembersSo(env, i, MemberTurn(env, e, rest[i]))
  <2>1. env[2] = Range(c) /\ \A u \in Range(c) : IsReport(u)
    BY <1>1 DEF Range
  <2> HIDE DEF env
  <2>2. QED BY <1>6, <2>1, MemberKeeps DEF MemberTurn
<1> HIDE DEF env
<1>8. MembersSo(env, Len(rest), Telling!Fold(env, event, rest))
  BY <1>4, <1>6, <1>7, Telling!FoldInvariant
<1>9. Telling!Fold(env, event, rest) = EventOf(c)
  BY <1>3 DEF MemberTurn, Telling!Fold, FoldLeft, Telling!FoldLeft,
              MapThenFoldSet, Telling!MapThenFoldSet, Max, Telling!Max
<1>10. QED BY <1>1, <1>2, <1>8, <1>9 DEF MembersSo, env

LEMMA RangeFinite == ASSUME NEW s, s \in Seq(Range(s)) PROVE IsFiniteSet(Range(s))
<1> DEFINE n == Len(s)
<1>1. n \in Nat /\ DOMAIN s = 1 .. n
  OBVIOUS
<1>2. s \in Surjection(1 .. n, Range(s))
  BY <1>1 DEF Surjection, Range
<1>3. IsFiniteSet(1 .. n)
  BY <1>1, FS_Interval
<1>4. QED BY <1>2, <1>3, FS_Surjection

\* What two sources at least say of e.
Attested(R, e) ==
    /\ IsReport(e)
    /\ \A s \in e.src : \E u \in R : s \in u.src /\ Meets(u, e)
    /\ Cardinality(UNION {t.src : t \in {u \in R : Meets(u, e)}}) >= 2

LEMMA SourcesCount ==
    ASSUME NEW R, IsFiniteSet(R), \A t \in R : IsReport(t), NEW M \in SUBSET R
    PROVE  IsFiniteSet(UNION {t.src : t \in M})
<1> DEFINE T == {t.src : t \in M}
           f == [t \in M |-> t.src]
<1>1. IsFiniteSet(M)
  BY FS_Subset
<1>2. f \in Surjection(M, T)
  BY DEF Surjection
<1>3. IsFiniteSet(T)
  BY <1>1, <1>2, FS_Surjection
<1>4. \A x \in T : IsFiniteSet(x)
  BY DEF IsReport
<1> HIDE DEF T
<1>5. IsFiniteSet(UNION T)
  BY <1>3, <1>4, FS_UNION
<1>6. QED BY <1>5 DEF T

LEMMA AgreedOk ==
    ASSUME NEW R, IsFiniteSet(R), \A t \in R : IsReport(t), NEW ts \in Seq(R)
    PROVE  /\ AgreedEvents(ts) \in Seq(Range(AgreedEvents(ts)))
           /\ \A e \in Range(AgreedEvents(ts)) : Attested(R, e)
<1> DEFINE cs == Clusters(ts)
           G == {c \in Range(cs) : Independent(c) /\ AgreesOnSource(c)}
           good == Keep(cs, G)
           events == [i \in DOMAIN good |-> EventOf(good[i])]
<1>0. ts \in Seq(Range(ts)) /\ Range(ts) \subseteq R
  BY SeqRange
<1>1. cs \in Seq(Range(cs)) /\ \A c \in Range(cs) : IsCluster(Range(ts), c)
  BY <1>0, ClustersOk
<1> HIDE DEF cs
<1>2. good \in Seq(G)
  <2>1. Len(cs) \in Nat /\ DOMAIN cs = 1 .. Len(cs)
    BY <1>1
  <2> HIDE DEF G
  <2>2. QED BY <2>1, KeepOk
<1>3. AgreedEvents(ts) = events
  BY DEF AgreedEvents, cs
<1>4. \A c \in G : IsCluster(Range(ts), c) /\ Independent(c)
  BY <1>1
<1> HIDE DEF good, G
<1>5. Len(good) \in Nat /\ DOMAIN good = 1 .. Len(good) /\ \A i \in 1 .. Len(good) : good[i] \in G
  BY <1>2
<1>6. events \in Seq(Range(events)) /\ \A e \in Range(events) : \E c \in G : e = EventOf(c)
  <2>1. events \in [1 .. Len(good) -> Range(events)]
    BY <1>5 DEF Range
  <2>2. events \in Seq(Range(events))
    BY <1>5, <2>1
  <2>3. QED BY <1>5, <2>2 DEF Range
<1>7. ASSUME NEW c \in G PROVE Attested(R, EventOf(c))
  <2> DEFINE e == EventOf(c)
             heard == {u \in R : Meets(u, e)}
  <2>1. IsCluster(Range(ts), c) /\ Independent(c)
    BY <1>4
  <2>2. PICK m \in Range(c) : MembersSo(<<m, Range(c)>>, 0, e)
    BY <1>0, <2>1, EventOfOk
  <2>3. IsReport(e) /\ Names(m, e) /\ Ids(m) \subseteq Ids(e) /\ \A s \in e.src : \E u \in Range(c) : s \in u.src
    BY <2>2 DEF MembersSo
  <2> HIDE DEF e
  <2>4. Range(c) \subseteq R /\ \A u \in Range(c) : Meets(u, m)
    <3>1. Range(c) \subseteq Range(ts)
      BY <2>1, SeqRange DEF IsCluster
    <3>2. \A u, v \in Range(c) : Meets(u, v)
      BY <2>1 DEF IsCluster, Range
    <3>3. QED BY <1>0, <3>1, <3>2
  <2>5. \A u \in Range(c) : Meets(u, e)
    BY <2>3, <2>4 DEF Meets, About, SameDestination, DaysApart, Names
  <2>6. Cardinality(UNION {t.src : t \in heard}) >= 2
    <3> DEFINE X == UNION {t.src : t \in Range(c)}
               Y == UNION {t.src : t \in heard}
    <3>1. X \subseteq Y
      BY <2>4, <2>5
    <3>2. IsFiniteSet(Y)
      BY SourcesCount
    <3>3. Cardinality(X) >= 2
      BY <2>1 DEF Independent
    <3> HIDE DEF X, Y
    <3>4. Cardinality(X) <= Cardinality(Y) /\ Cardinality(X) \in Nat /\ Cardinality(Y) \in Nat
      BY <3>1, <3>2, FS_Subset, FS_CardinalityType
    <3>5. Cardinality(Y) >= 2
      BY <3>3, <3>4
    <3>6. QED BY <3>5 DEF Y
  <2>7. QED BY <2>3, <2>4, <2>5, <2>6 DEF Attested, e
<1> HIDE DEF events
<1>8. QED BY <1>3, <1>6, <1>7

(* Every event the reconciliation makes is grounded or attested.           *)
LEMMA ReconcileOk ==
    ASSUME NEW given, NEW signals, NEW routes, NEW w,
           w.ts = Joined(given), w.ts \in Seq(Range(w.ts)),
           signals \in Seq(Range(signals)), routes \in Seq(Range(routes)),
           w.signals = Range(signals), w.all = Range(w.ts) \cup Range(signals) \cup Range(routes),
           \A t \in w.all : IsReport(t)
    PROVE  \A e \in Range(ReconcileTransferSources(given, signals, routes)) :
               Grounded(w, e) \/ Attested(Range(routes), e)
<1> DEFINE verified == MergeVerified(given)
           safe == SafeNames(verified \o signals \o routes)
           signed == WithSignals(verified, signals, safe)
           confirmed == WithRoutes(signed, routes, safe)
           agreed == AgreedEvents(confirmed.left)
<1>1. AllGrounded(w, verified)
  BY VerifiedGrounded
<1>2. ASSUME NEW t \in w.all PROVE IsReport(t) /\ Speaks(w, t) /\ Stands({t}, t)
  <2>1. IsReport(t) /\ Stands({t}, t) /\ {t} \in SUBSET w.all /\ \A x, u \in {t} : Paired(w.ts, x, u)
    BY StandsForItself DEF Paired
  <2>2. QED BY <2>1 DEF Speaks
<1>3. ASSUME NEW t \in Range(signals), t.own PROVE Grounded(w, t)
  <2>1. t \in w.all /\ {t} \in SUBSET w.all /\ Stands({t}, t) /\ \A x, u \in {t} : Paired(w.ts, x, u)
    BY <1>2 DEF Paired
  <2>2. \A x \in {t} : x \in Range(w.ts) \/ (x \in w.signals /\ x.own)
    BY <1>3
  <2>3. QED BY <2>1, <2>2, Starts
<1> HIDE DEF verified, safe
<1>4. AllGrounded(w, signed)
  BY <1>1, <1>2, <1>3, SignalsKeep
<1> HIDE DEF signed
<1>5. AllGrounded(w, confirmed.list) /\ confirmed.left \in Seq(Range(routes))
  BY <1>2, <1>4, WordsKeep
<1> HIDE DEF confirmed
<1>6. agreed \in Seq(Range(agreed)) /\ \A e \in Range(agreed) : Attested(Range(routes), e)
  <2>1. IsFiniteSet(Range(routes)) /\ \A t \in Range(routes) : IsReport(t)
    BY RangeFinite
  <2>2. QED BY <1>5, <2>1, AgreedOk
<1>7. ReconcileTransferSources(given, signals, routes) = confirmed.list \o agreed
  BY DEF ReconcileTransferSources, verified, safe, signed, confirmed
<1> HIDE DEF agreed
<1>8. Range(confirmed.list \o agreed) \subseteq Range(confirmed.list) \cup Range(agreed)
  <2>1. confirmed.list \in Seq(Range(confirmed.list))
    BY <1>5 DEF AllGrounded
  <2> DEFINE T == Range(confirmed.list) \cup Range(agreed)
  <2>2. confirmed.list \in Seq(T) /\ agreed \in Seq(T)
    BY <1>6, <2>1
  <2> HIDE DEF T
  <2>3. confirmed.list \o agreed \in Seq(T)
    BY <2>2
  <2>4. Range(confirmed.list \o agreed) \subseteq T
    BY <2>3, SeqRange
  <2>5. QED BY <2>4 DEF T
<1>9. \A e \in Range(confirmed.list) : Grounded(w, e)
  BY <1>5 DEF AllGrounded, Range
<1>10. QED BY <1>6, <1>7, <1>8, <1>9

-----------------------------------------------------------------------------
(* With reports of the adapters' form in every batch nothing is invented.  *)
IsBatch(b) == b \in Seq(Range(b)) /\ \A t \in Range(b) : IsReport(t)
BatchesOk ==
    /\ DOMAIN batches = {"clubs"} \cup Range(Providers)
    /\ \A p \in DOMAIN batches : IsBatch(batches[p])

LEMMA SubBatch ==
    ASSUME NEW S, \A t \in S : IsReport(t), NEW s \in Seq(S)
    PROVE  IsBatch(s) /\ Range(s) \subseteq S
BY SeqRange DEF IsBatch

LEMMA JoinedBatch ==
    ASSUME NEW s, IsBatch(s), NEW t, IsBatch(t)
    PROVE  IsBatch(s \o t) /\ Range(s \o t) \subseteq Range(s) \cup Range(t)
<1> DEFINE S == Range(s) \cup Range(t)
<1>1. s \in Seq(S) /\ t \in Seq(S) /\ \A x \in S : IsReport(x)
  BY DEF IsBatch
<1> HIDE DEF S
<1>2. s \o t \in Seq(S)
  BY <1>1
<1>3. IsBatch(s \o t) /\ Range(s \o t) \subseteq S
  BY <1>1, <1>2, SubBatch
<1>4. QED BY <1>3 DEF S

LEMMA KeptBatch ==
    ASSUME NEW b, IsBatch(b), NEW S, S \subseteq Range(b)
    PROVE  IsBatch(Keep(b, S)) /\ Range(Keep(b, S)) \subseteq Range(b)
<1>1. Len(b) \in Nat /\ DOMAIN b = 1 .. Len(b) /\ \A t \in Range(b) : IsReport(t)
  BY DEF IsBatch
<1>2. Keep(b, S) \in Seq(S)
  BY <1>1, KeepOk
<1>3. Keep(b, S) \in Seq(Range(b))
  BY <1>2
<1>4. QED BY <1>1, <1>3, SubBatch

LEMMA SplitBatch ==
    ASSUME NEW b, IsBatch(b)
    PROVE  /\ IsBatch(Dated(b)) /\ Range(Dated(b)) \subseteq Range(b)
           /\ IsBatch(Undated(b)) /\ Range(Undated(b)) \subseteq Range(b)
<1>1. {t \in Range(b) : t.day # 0} \subseteq Range(b) /\ {t \in Range(b) : t.day = 0} \subseteq Range(b)
  OBVIOUS
<1>2. QED BY <1>1, KeptBatch DEF Dated, Undated

LEMMA BatchNames ==
    BatchesOk => \A p \in {"clubs", "feed", "wikipedia", "sortitoutsi", "transfermarkt",
                           "besoccer", "sofascore", "soccerway", "tactics"} : IsBatch(batches[p])
BY DEF BatchesOk, Providers, Range

LEMMA CompleteOk ==
    ASSUME BatchesOk
    PROVE  /\ IsBatch(Joined(CompleteBatches)) /\ Range(Joined(CompleteBatches)) \subseteq Complete
           /\ \A t \in Complete : IsReport(t)
<1> DEFINE C == Complete
<1>1. /\ IsBatch(batches["clubs"]) /\ IsBatch(batches["feed"]) /\ IsBatch(batches["transfermarkt"])
      /\ IsBatch(Dated(batches["wikipedia"]))
  BY BatchNames, SplitBatch
<1>2. C = Range(batches["clubs"]) \cup Range(batches["feed"]) \cup Range(batches["transfermarkt"])
            \cup Range(Dated(batches["wikipedia"]))
  BY DEF Complete, Reports
<1>3. CompleteBatches = <<batches["clubs"], batches["feed"], Dated(batches["wikipedia"]), batches["transfermarkt"]>>
  BY DEF CompleteBatches
<1> HIDE DEF C
<1>4. DOMAIN CompleteBatches = 1 .. 4 /\ \A i \in 1 .. 4 : CompleteBatches[i] \in Seq(C)
  BY <1>1, <1>2, <1>3 DEF IsBatch
<1>5. Joined(CompleteBatches) \in Seq(C)
  BY <1>4, JoinedOk
<1>6. \A t \in C : IsReport(t)
  BY <1>1, <1>2 DEF IsBatch
<1>7. IsBatch(Joined(CompleteBatches)) /\ Range(Joined(CompleteBatches)) \subseteq C
  BY <1>5, <1>6, SubBatch
<1>8. QED BY <1>6, <1>7 DEF C

RouteReports == Undated(batches["wikipedia"]) \o batches["besoccer"] \o batches["sofascore"] \o batches["soccerway"]

LEMMA RoutesOk ==
    ASSUME BatchesOk
    PROVE  IsBatch(RouteReports) /\ Range(RouteReports) \subseteq Routes /\ (\A t \in Routes : IsReport(t))
           /\ IsFiniteSet(Routes)
<1> DEFINE a == Undated(batches["wikipedia"])
           b == batches["besoccer"]
           c == batches["sofascore"]
           d == batches["soccerway"]
<1>1. IsBatch(a) /\ IsBatch(b) /\ IsBatch(c) /\ IsBatch(d)
  BY BatchNames, SplitBatch
<1>2. Routes = Range(b) \cup Range(c) \cup Range(d) \cup Range(a)
  BY DEF Routes, Reports
<1>3. RouteReports = a \o b \o c \o d
  BY DEF RouteReports
<1> HIDE DEF a, b, c, d
<1>4. IsBatch(a \o b \o c \o d)
      /\ Range(a \o b \o c \o d) \subseteq Range(a) \cup Range(b) \cup Range(c) \cup Range(d)
  <2>1. IsBatch(a \o b) /\ Range(a \o b) \subseteq Range(a) \cup Range(b)
    BY <1>1, JoinedBatch
  <2>2. IsBatch(a \o b \o c) /\ Range(a \o b \o c) \subseteq Range(a \o b) \cup Range(c)
    BY <1>1, <2>1, JoinedBatch
  <2>3. IsBatch(a \o b \o c \o d) /\ Range(a \o b \o c \o d) \subseteq Range(a \o b \o c) \cup Range(d)
    BY <1>1, <2>2, JoinedBatch
  <2>4. QED BY <2>1, <2>2, <2>3
<1>5. \A t \in Routes : IsReport(t)
  BY <1>1, <1>2 DEF IsBatch
<1>6. IsFiniteSet(Range(a)) /\ IsFiniteSet(Range(b)) /\ IsFiniteSet(Range(c)) /\ IsFiniteSet(Range(d))
  BY <1>1, RangeFinite DEF IsBatch
<1>7. IsFiniteSet(Range(b) \cup Range(c) \cup Range(d) \cup Range(a))
  <2>1. IsFiniteSet(Range(b) \cup Range(c))
    BY <1>6, FS_Union
  <2>2. IsFiniteSet(Range(b) \cup Range(c) \cup Range(d))
    BY <1>6, <2>1, FS_Union
  <2>3. QED BY <1>6, <2>2, FS_Union
<1>8. QED BY <1>2, <1>3, <1>4, <1>5, <1>7

LEMMA GroundedSays ==
    ASSUME NEW w, NEW e, Grounded(w, e), w.all \subseteq Complete \cup Signals \cup Routes,
           Range(w.ts) \subseteq Complete, w.signals \subseteq Signals,
           \A t \in w.all : IsReport(t), \A t, u : Paired(w.ts, t, u) => OneReport(t, u)
    PROVE  /\ \/ \E t \in Complete : About(t, e) /\ Adjacent(t, e)
              \/ \E t \in Signals : About(t, e) /\ Adjacent(t, e) /\ t.own
           /\ \A s \in e.src : \E t, u \in Complete \cup Signals \cup Routes :
                  s \in t.src /\ OneReport(t, u) /\ About(u, e) /\ DaysApart(u, e, Window)
<1>1. PICK t \in w.all : (t \in Range(w.ts) \/ (t \in w.signals /\ t.own)) /\ Names(t, e)
  BY DEF Grounded
<1>2. About(t, e) /\ Adjacent(t, e)
  <2>1. IsReport(t) /\ IsReport(e) /\ Meets(t, e)
    BY <1>1, MeetsIs DEF Grounded
  <2>2. QED BY <1>1, <2>1, DaysNear DEF Meets, Names, IsReport
<1>3. ASSUME NEW s \in e.src
      PROVE  \E x, u \in Complete \cup Signals \cup Routes :
                 s \in x.src /\ OneReport(x, u) /\ About(u, e) /\ DaysApart(u, e, Window)
  <2>1. PICK x \in w.all, u \in w.all : s \in x.src /\ Paired(w.ts, x, u) /\ Meets(u, e)
    BY DEF Grounded, Sourced
  <2>2. QED BY <2>1 DEF Meets
<1>4. QED BY <1>1, <1>2, <1>3

LEMMA AttestedSays ==
    ASSUME NEW R, R \subseteq Routes, IsFiniteSet(Routes), \A t \in Routes : IsReport(t), NEW e, Attested(R, e)
    PROVE  /\ Cardinality(UNION {t.src : t \in {u \in Routes : About(u, e) /\ DaysApart(u, e, Window)}}) >= 2
           /\ \A s \in e.src : \E t, u \in Complete \cup Signals \cup Routes :
                  s \in t.src /\ OneReport(t, u) /\ About(u, e) /\ DaysApart(u, e, Window)
<1> DEFINE heard == {u \in R : Meets(u, e)}
           all == {u \in Routes : About(u, e) /\ DaysApart(u, e, Window)}
           X == UNION {t.src : t \in heard}
           Y == UNION {t.src : t \in all}
<1>1. heard \subseteq all
  BY DEF Meets
<1>2. X \subseteq Y
  BY <1>1
<1>3. IsFiniteSet(Y)
  <2>1. all \in SUBSET Routes
    OBVIOUS
  <2> HIDE DEF all
  <2>2. QED BY <2>1, SourcesCount
<1>4. Cardinality(X) >= 2
  BY DEF Attested
<1> HIDE DEF X, Y
<1>5. Cardinality(X) <= Cardinality(Y) /\ Cardinality(X) \in Nat /\ Cardinality(Y) \in Nat
  BY <1>2, <1>3, FS_Subset, FS_CardinalityType
<1>6. Cardinality(Y) >= 2
  BY <1>4, <1>5
<1>7. ASSUME NEW s \in e.src
      PROVE  \E t, u \in Complete \cup Signals \cup Routes :
                 s \in t.src /\ OneReport(t, u) /\ About(u, e) /\ DaysApart(u, e, Window)
  <2>1. PICK u \in R : s \in u.src /\ Meets(u, e)
    BY DEF Attested
  <2>2. QED BY <2>1 DEF Meets, OneReport
<1>8. QED BY <1>6, <1>7 DEF Y

LEMMA NothingInventedOf == BatchesOk => NothingInvented
<1> SUFFICES ASSUME BatchesOk, NEW e \in Range(Transfers)
             PROVE  /\ \/ \E t \in Complete : About(t, e) /\ Adjacent(t, e)
                       \/ \E t \in Signals : About(t, e) /\ Adjacent(t, e) /\ t.own
                       \/ Cardinality(UNION {t.src : t \in {u \in Routes : About(u, e) /\ DaysApart(u, e, Window)}}) >= 2
                    /\ \A s \in e.src : \E t, u \in Complete \cup Signals \cup Routes :
                           s \in t.src /\ OneReport(t, u) /\ About(u, e) /\ DaysApart(u, e, Window)
  BY DEF NothingInvented
<1>1. CASE Plan.named
  <2> DEFINE ts == batches["clubs"]
             w == [ts |-> ts, signals |-> {}, all |-> Range(ts)]
  <2>1. IsBatch(ts) /\ Range(ts) \subseteq Complete
    BY BatchNames DEF Complete, Reports
  <2>2. Transfers = MergeTransfers(ts)
    BY <1>1 DEF Transfers
  <2>3. \A t, u : Paired(ts, t, u) => OneReport(t, u)
    BY <1>1 DEF Paired, OneReport
  <2>4. w.ts = ts /\ w.signals = {} /\ w.all = Range(ts)
    OBVIOUS
  <2> HIDE DEF ts, w
  <2>5. PICK key : Stands(ReportsOf(ts, key), e)
    BY <2>1, <2>2, MergeTransfersOk DEF IsBatch
  <2> DEFINE K == ReportsOf(ts, key)
  <2>6. K \in SUBSET w.all /\ K \subseteq Range(w.ts) /\ \A t, u \in K : Paired(w.ts, t, u)
    BY <2>4 DEF ReportsOf, Paired
  <2>7. Grounded(w, e)
    BY <2>5, <2>6, Starts
  <2>8. QED
    <3>1. \A t \in w.all : IsReport(t)
      BY <2>1, <2>4 DEF IsBatch
    <3>2. QED BY <2>1, <2>3, <2>4, <2>7, <3>1, GroundedSays
<1>2. CASE ~Plan.named
  <2> DEFINE ts == Joined(CompleteBatches)
             sg == batches["sortitoutsi"]
             rs == RouteReports
             w == [ts |-> ts, signals |-> Range(sg), all |-> Range(ts) \cup Range(sg) \cup Range(rs)]
  <2>1. IsBatch(ts) /\ Range(ts) \subseteq Complete
    BY CompleteOk
  <2>2. IsBatch(sg) /\ Range(sg) = Signals
    BY BatchNames DEF Signals, Reports
  <2>3. IsBatch(rs) /\ Range(rs) \subseteq Routes /\ (\A t \in Routes : IsReport(t)) /\ IsFiniteSet(Routes)
    BY RoutesOk
  <2>4. Transfers = ReconcileTransferSources(CompleteBatches, sg, rs)
    BY <1>2 DEF Transfers, RouteReports
  <2>5. \A t, u : Paired(ts, t, u) => OneReport(t, u)
    BY <1>2 DEF Paired, OneReport
  <2>6. w.ts = ts /\ w.signals = Range(sg) /\ w.all = Range(ts) \cup Range(sg) \cup Range(rs)
    OBVIOUS
  <2>7. ts = Joined(CompleteBatches)
    OBVIOUS
  <2> HIDE DEF ts, sg, rs, w
  <2>8. \A t \in w.all : IsReport(t)
    BY <2>1, <2>2, <2>3, <2>6 DEF IsBatch
  <2>9. Grounded(w, e) \/ Attested(Range(rs), e)
    BY <2>1, <2>2, <2>3, <2>4, <2>6, <2>7, <2>8, ReconcileOk DEF IsBatch
  <2>10. CASE Grounded(w, e)
    <3>1. w.all \subseteq Complete \cup Signals \cup Routes
      BY <2>1, <2>2, <2>3, <2>6
    <3>2. QED BY <2>1, <2>2, <2>5, <2>6, <2>8, <2>10, <3>1, GroundedSays
  <2>11. CASE Attested(Range(rs), e)
    BY <2>3, <2>11, AttestedSays
  <2>12. QED BY <2>9, <2>10, <2>11
<1>3. QED BY <1>1, <1>2

-----------------------------------------------------------------------------
(* Every adapter makes reports of the form IsReport of the rows of a page. *)
LEMMA MoveOk ==
    ASSUME NEW src, NEW row, row.who # "", NEW from, NEW to, to # "", NEW day \in Nat, NEW own
    PROVE  IsReport(Move(src, row, from, to, day, own))
<1>1. IsFiniteSet({src})
  BY FS_Singleton
<1>2. QED BY <1>1 DEF IsReport, Move

LEMMA MadeBatch ==
    ASSUME NEW n \in Nat, NEW f, f = [i \in 1 .. n |-> f[i]], \A i \in 1 .. n : IsReport(f[i])
    PROVE  IsBatch(f)
<1> DEFINE S == Range(f)
<1>1. \A i \in 1 .. n : f[i] \in S
  BY DEF Range
<1>2. \A t \in S : IsReport(t)
  BY DEF Range
<1> HIDE DEF S
<1>3. f \in Seq(S)
  BY <1>1
<1>4. QED BY <1>2, <1>3, SubBatch

LEMMA FirstBatch ==
    ASSUME NEW b, IsBatch(b), NEW keys
    PROVE  IsBatch(Firsts(b, keys))
<1>1. Len(b) \in Nat /\ DOMAIN b = 1 .. Len(b)
  BY DEF IsBatch
<1>2. Firsts(b, keys) \in Seq(Range(b))
  BY <1>1, FirstsOk
<1>3. QED BY <1>2, SubBatch DEF IsBatch

LEMMA NoBatch == IsBatch(<<>>)
BY DEF IsBatch, Range

(* The rows a reader keeps are rows of the page.                           *)
LEMMA KeptRows ==
    ASSUME NEW rows, rows \in Seq(Range(rows)), NEW S
    PROVE  /\ Keep(rows, S) \in Seq(S) /\ Len(Keep(rows, S)) \in Nat
           /\ DOMAIN Keep(rows, S) = 1 .. Len(Keep(rows, S))
           /\ \A i \in DOMAIN Keep(rows, S) : Keep(rows, S)[i] \in S
<1>1. Len(rows) \in Nat /\ DOMAIN rows = 1 .. Len(rows)
  OBVIOUS
<1>2. Keep(rows, S) \in Seq(S)
  BY <1>1, KeepOk
<1>3. QED BY <1>2, SeqRange

LEMMA FeedMovesOk ==
    ASSUME NEW items, IsTable(items)
    PROVE  IsBatch(FeedMoves(items))
<1> DEFINE S == {i \in Range(items) : Parsable(i) /\ Disposition(i.day) = "keep"}
           kept == Keep(items, S)
           f == [k \in DOMAIN kept |-> FeedMove(kept[k])]
<1>1. Len(kept) \in Nat /\ DOMAIN kept = 1 .. Len(kept) /\ \A k \in DOMAIN kept : kept[k] \in S
  BY KeptRows DEF IsTable
<1>2. ASSUME NEW i \in S PROVE IsReport(FeedMove(i))
  <2>1. i.who # "" /\ {"who", "day"} \subseteq DOMAIN i /\ i.day \in Nat
    BY DEF IsTable, Parsable
  <2>2. [i EXCEPT !.type = FeedType(i)].who # "" /\ Club(i.to) # ""
    BY <2>1 DEF Club, FreeAgent
  <2>3. QED BY <2>1, <2>2, MoveOk DEF FeedMove
<1> HIDE DEF S, kept
<1>3. IsBatch(f)
  BY <1>1, <1>2, MadeBatch
<1>4. QED BY <1>3 DEF FeedMoves, kept, S

(* Rows a report can be made of as they are.                               *)
WholeRows(rows) ==
    rows \in Seq(Range(rows)) /\ \A r \in Range(rows) : r.who # "" /\ r.to # "" /\ r.day \in Nat

LEMMA MarketMovesOk ==
    ASSUME NEW rows, WholeRows(rows)
    PROVE  IsBatch(MarketMoves(rows))
<1> DEFINE f == [i \in DOMAIN rows |-> Move("transfermarkt", rows[i], rows[i].from, rows[i].to, rows[i].day, FALSE)]
<1>1. Len(rows) \in Nat /\ DOMAIN rows = 1 .. Len(rows) /\ \A i \in DOMAIN rows : rows[i] \in Range(rows)
  BY SeqRange DEF WholeRows
<1>2. \A i \in DOMAIN rows : IsReport(f[i])
  BY <1>1, MoveOk DEF WholeRows
<1>3. IsBatch(f)
  BY <1>1, <1>2, MadeBatch
<1>4. QED BY <1>3 DEF MarketMoves

LEMMA SomeWholeRows ==
    ASSUME NEW S, \A r \in S : r.who # "" /\ r.to # "" /\ r.day \in Nat, NEW rows \in Seq(S)
    PROVE  WholeRows(rows)
BY SeqRange DEF WholeRows

LEMMA MarketRowsOk ==
    ASSUME NEW rows, IsTable(rows)
    PROVE  WholeRows(MarketRows(rows))
<1> DEFINE S == {r \in Range(rows) : "" \notin {r.who, r.from, r.to} /\ 0 \notin {r.day, r.event}}
           whole == Keep(rows, S)
           keys == [i \in DOMAIN whole |-> whole[i].event]
<1>1. \A r \in S : r.who # "" /\ r.to # "" /\ r.day \in Nat
  BY DEF IsTable
<1>2. whole \in Seq(S) /\ Len(whole) \in Nat /\ DOMAIN whole = 1 .. Len(whole)
  BY KeptRows DEF IsTable
<1> HIDE DEF S, whole, keys
<1>3. Firsts(whole, keys) \in Seq(Range(whole)) /\ Range(whole) \subseteq S
  BY <1>2, FirstsOk, SeqRange
<1>4. Firsts(whole, keys) \in Seq(S)
  BY <1>3
<1>5. QED BY <1>1, <1>4, SomeWholeRows DEF MarketRows, whole, keys, S

LEMMA SofascoreRowsOk ==
    ASSUME NEW rows, IsTable(rows)
    PROVE  IsBatch(SofascoreRows(rows))
<1> DEFINE S == {r \in Range(rows) : /\ r.who # "" /\ InRange(r.day) /\ r.type # "unknown"
                                     /\ ~(r.from = "" /\ r.to = "")}
           good == Keep(rows, S)
           Of(r) == Move("sofascore", r, IF r.from = "" THEN FreeAgent ELSE r.from,
                         IF r.to = "" THEN FreeAgent ELSE r.to, r.day, FALSE)
           moves == [i \in DOMAIN good |-> Of(good[i])]
           Player(i) == IF good[i].id = 0 THEN <<0, moves[i].who>> ELSE <<good[i].id, "">>
           keys == [i \in DOMAIN moves |-> <<Player(i), moves[i].from, moves[i].to, moves[i].day>>]
<1>1. Len(good) \in Nat /\ DOMAIN good = 1 .. Len(good) /\ \A i \in DOMAIN good : good[i] \in S
  BY KeptRows DEF IsTable
<1>2. ASSUME NEW r \in S PROVE IsReport(Of(r))
  <2>1. r.who # "" /\ r.day \in Nat
    BY DEF IsTable
  <2>2. (IF r.to = "" THEN FreeAgent ELSE r.to) # ""
    BY DEF FreeAgent
  <2>3. QED BY <2>1, <2>2, MoveOk
<1> HIDE DEF S, good, Of
<1>3. IsBatch(moves)
  BY <1>1, <1>2, MadeBatch
<1> HIDE DEF moves, Player
<1>4. IsBatch(Firsts(moves, keys))
  BY <1>3, FirstBatch
<1>5. QED BY <1>4 DEF SofascoreRows, good, Of, moves, Player, S

LEMMA ForClubsOk ==
    ASSUME NEW moves, IsBatch(moves), NEW clubs
    PROVE  IsBatch(ForClubs(moves, clubs))
<1> DEFINE wanted == {KeyOf(c) : c \in Range(clubs)}
           S == {t \in Range(moves) : {KeyOf(t.from), KeyOf(t.to)} \cap wanted # {}}
           touching == Keep(moves, S)
           keys == [i \in DOMAIN touching |->
                       <<touching[i].who, KeyOf(touching[i].from), KeyOf(touching[i].to), touching[i].day>>]
<1>1. S \subseteq Range(moves)
  OBVIOUS
<1> HIDE DEF S
<1>2. IsBatch(touching)
  BY <1>1, KeptBatch
<1> HIDE DEF touching
<1>3. IsBatch(Firsts(touching, keys))
  BY <1>2, FirstBatch
<1>4. QED BY <1>3 DEF ForClubs, touching, S

LEMMA SoccerwayMovesOk ==
    ASSUME NEW rows, IsTable(rows), NEW name, name # "", NEW id
    PROVE  IsBatch(SoccerwayMoves(rows, name, id))
<1> DEFINE Other(r) == OtherTeam(r, name, id)
           Good(r) == /\ InRange(r.day) /\ r.who # "" /\ r.dir \in {"in", "out"}
                      /\ Other(r) # "" /\ KeyOf(Other(r)) # KeyOf(name)
           S == {r \in Range(rows) : Good(r)}
           good == Keep(rows, S)
           Of(r) == IF r.dir = "in" THEN Move("soccerway", r, Other(r), name, r.day, FALSE)
                    ELSE Move("soccerway", r, name, Other(r), r.day, FALSE)
           moves == [i \in DOMAIN good |-> Of(good[i])]
<1>1. Len(good) \in Nat /\ DOMAIN good = 1 .. Len(good) /\ \A i \in DOMAIN good : good[i] \in S
  BY KeptRows DEF IsTable
<1>2. ASSUME NEW r \in S PROVE IsReport(Of(r))
  <2>1. r.who # "" /\ r.day \in Nat /\ Other(r) # ""
    BY DEF IsTable
  <2> HIDE DEF Other
  <2>2. QED BY <2>1, MoveOk
<1> HIDE DEF S, good, Of
<1>3. IsBatch(moves)
  BY <1>1, <1>2, MadeBatch
<1> HIDE DEF moves
<1>4. IsBatch(FirstEvents(moves))
  BY <1>3, FirstBatch DEF FirstEvents
<1>5. QED BY <1>4 DEF SoccerwayMoves, good, Of, moves, S

LEMMA Earlier == ASSUME NEW n \in Nat, NEW i \in 1 .. n PROVE 1 .. (i - 1) \subseteq 1 .. n
OBVIOUS

LEMMA LatestIs ==
    ASSUME NEW n \in Nat, NEW T \in SUBSET (1 .. n), T # {}
    PROVE  Max(T) \in T
<1>1. Keeping!Max(T) \in T
  BY Keeping!MaxOf
<1>2. QED BY <1>1 DEF Max, Keeping!Max

LEMMA BesoccerMovesOk ==
    ASSUME NEW lines, IsTable(lines)
    PROVE  IsBatch(BesoccerMoves(lines))
<1> DEFINE Origin(l) == IF l.type = "libre" THEN FreeAgent ELSE l.from
           Good(i) == /\ lines[i].who # "" /\ InRange(BesoccerDay(lines, i))
                      /\ lines[i].type \in {"loan", "free", "libre", "transfer"}
                      /\ "" \notin {Origin(lines[i]), lines[i].to}
           places == [i \in DOMAIN lines |-> i]
           S == {i \in DOMAIN lines : Good(i)}
           good == Keep(places, S)
           Of(i) == Move("besoccer", [lines[i] EXCEPT !.type = IF @ = "libre" THEN "free" ELSE @],
                         Origin(lines[i]), lines[i].to, BesoccerDay(lines, i), FALSE)
           moves == [k \in DOMAIN good |-> Of(good[k])]
<1>1. /\ Len(lines) \in Nat /\ DOMAIN lines = 1 .. Len(lines) /\ \A i \in DOMAIN lines : lines[i] \in Range(lines)
      /\ DOMAIN places = 1 .. Len(lines)
  BY SeqRange DEF IsTable
<1>2. \A i \in DOMAIN lines : lines[i].day \in Nat /\ "who" \in DOMAIN lines[i]
  BY <1>1 DEF IsTable
<1>3. good \in Seq(S)
  BY <1>1, KeepOk
<1>4. Len(good) \in Nat /\ DOMAIN good = 1 .. Len(good) /\ \A k \in DOMAIN good : good[k] \in S
  BY <1>3, SeqRange
<1>5. ASSUME NEW i \in S PROVE IsReport(Of(i))
  <2> DEFINE above == {j \in 1 .. (i - 1) : lines[j].who = "" /\ lines[j].day # 0}
  <2>1. i \in 1 .. Len(lines) /\ lines[i].who # "" /\ lines[i].to # "" /\ "who" \in DOMAIN lines[i]
    BY <1>1, <1>2
  <2>2. BesoccerDay(lines, i) \in Nat
    <3>1. CASE above = {}
      BY <3>1 DEF BesoccerDay
    <3>2. CASE above # {}
      <4>1. above \in SUBSET (1 .. Len(lines))
        BY <2>1, <1>1, Earlier
      <4>2. Max(above) \in above
        BY <3>2, <4>1, <1>1, LatestIs
      <4>3. Max(above) \in DOMAIN lines
        BY <4>1, <4>2, <1>1
      <4>4. QED BY <3>2, <4>3, <1>2 DEF BesoccerDay
    <3>3. QED BY <3>1, <3>2
  <2>3. [lines[i] EXCEPT !.type = IF @ = "libre" THEN "free" ELSE @].who # ""
    BY <2>1
  <2> HIDE DEF above
  <2>4. QED BY <2>1, <2>2, <2>3, MoveOk
<1> HIDE DEF S, good, Of, places
<1>6. IsBatch(moves)
  BY <1>4, <1>5, MadeBatch
<1> HIDE DEF moves
<1>7. IsBatch(FirstEvents(moves))
  BY <1>6, FirstBatch DEF FirstEvents
<1>8. QED BY <1>7 DEF BesoccerMoves, good, Of, moves, S, places

LEMMA SignalMovesOk ==
    ASSUME NEW blocks, IsTable(blocks), \A b \in Range(blocks) : b.starts \in Nat
    PROVE  IsBatch(SignalMoves(blocks))
<1> DEFINE S == {b \in Range(blocks) : Signal(b)}
           good == Keep(blocks, S)
           Of(b) == Move("sortitoutsi", b, "", IF b.type = "free" THEN FreeAgent ELSE b.to, SignalDay(b), b.starts # 0)
           moves == [i \in DOMAIN good |-> Of(good[i])]
<1>1. Len(good) \in Nat /\ DOMAIN good = 1 .. Len(good) /\ \A i \in DOMAIN good : good[i] \in S
  BY KeptRows DEF IsTable
<1>2. ASSUME NEW b \in S PROVE IsReport(Of(b))
  <2>1. b.who # "" /\ SignalDay(b) \in Nat
    BY DEF Signal, SignalDay, IsTable
  <2>2. (IF b.type = "free" THEN FreeAgent ELSE b.to) # ""
    BY DEF Signal, FreeAgent
  <2>3. QED BY <2>1, <2>2, MoveOk
<1> HIDE DEF S, good, Of
<1>3. IsBatch(moves)
  BY <1>1, <1>2, MadeBatch
<1>4. QED BY <1>3 DEF SignalMoves, good, Of, moves, S

\* What has been read of a page's lists.
LineTurn(env, acc, l) == ListLine(acc, l)
ListsSo(env, i, acc) == DOMAIN acc = {"club", "dir", "moves"} /\ IsBatch(acc.moves)
Listing == INSTANCE FoldInduction WITH Op <- LineTurn, Inv <- ListsSo

LEMMA LineKeeps ==
    ASSUME NEW acc, ListsSo(0, 0, acc), NEW l
    PROVE  ListsSo(0, 0, ListLine(acc, l))
<1>1. CASE l.kind = "heading"
  BY <1>1 DEF ListLine, Heading, ListsSo
<1>2. CASE l.kind = "entry" /\ ("" \in {acc.club, acc.dir, l.who, l.club} \/ l.club = acc.club)
  BY <1>2 DEF ListLine, ListEntry
<1>3. CASE l.kind = "entry" /\ ~("" \in {acc.club, acc.dir, l.who, l.club} \/ l.club = acc.club)
  <2> DEFINE m == IF acc.dir = "in" THEN Move("wikipedia", l, l.club, acc.club, 0, FALSE)
                  ELSE Move("wikipedia", l, acc.club, l.club, 0, FALSE)
             next == [acc EXCEPT !.moves = Append(@, m)]
  <2>1. IsReport(m)
    BY <1>3, MoveOk
  <2>2. ListLine(acc, l) = next
    BY <1>3 DEF ListLine, ListEntry
  <2> HIDE DEF m
  <2>3. DOMAIN next = DOMAIN acc /\ next.moves = Append(acc.moves, m)
    BY DEF ListsSo
  <2>4. IsBatch(Append(acc.moves, m))
    <3> DEFINE S == Range(acc.moves) \cup {m}
    <3>1. acc.moves \in Seq(S) /\ m \in S /\ \A t \in S : IsReport(t)
      BY <2>1 DEF IsBatch, ListsSo
    <3> HIDE DEF S
    <3>2. Append(acc.moves, m) \in Seq(S)
      BY <3>1
    <3>3. QED BY <3>1, <3>2, SubBatch
  <2> HIDE DEF next
  <2>5. QED BY <2>2, <2>3, <2>4 DEF ListsSo
<1>4. CASE l.kind \notin {"heading", "entry"}
  BY <1>4 DEF ListLine, ListsSo
<1>5. QED BY <1>1, <1>2, <1>3, <1>4

LEMMA ListMovesOk ==
    ASSUME NEW lines, NEW n \in Nat, DOMAIN lines = 1 .. n
    PROVE  IsBatch(ListMoves(lines))
<1> DEFINE base == [club |-> "", dir |-> "", moves |-> <<>>]
<1>1. ListsSo(0, 0, base)
  BY NoBatch DEF ListsSo
<1>2. \A i \in 1 .. n : \A acc : ListsSo(0, i - 1, acc) => ListsSo(0, i, LineTurn(0, acc, lines[i]))
  BY LineKeeps DEF LineTurn, ListsSo
<1> HIDE DEF base
<1>3. ListsSo(0, n, Listing!Fold(0, base, lines))
  BY <1>1, <1>2, Listing!FoldInvariant
<1>4. Listing!Fold(0, base, lines) = FoldLeft(ListLine, base, lines)
  BY DEF LineTurn, Listing!Fold, FoldLeft, Listing!FoldLeft, MapThenFoldSet, Listing!MapThenFoldSet, Max, Listing!Max
<1>5. QED BY <1>3, <1>4 DEF ListMoves, ListsSo, base

LEMMA TableMovesOk ==
    ASSUME NEW table, NEW n \in Nat, DOMAIN table = 1 .. n, \A i \in 1 .. n : table[i].day \in Nat
    PROVE  IsBatch(TableMoves(table))
<1> DEFINE day(i) == RowDay(table, i)
           Good(i) == /\ day(i) # 0 /\ day(i) <= Today /\ day(i) >= ScanStart
                      /\ "" \notin {table[i].who, table[i].from, table[i].to} /\ table[i].from # table[i].to
           places == [i \in DOMAIN table |-> i]
           S == {i \in DOMAIN table : Good(i)}
           good == Keep(places, S)
           moves == [k \in DOMAIN good |-> Move("wikipedia", table[good[k]], table[good[k]].from, table[good[k]].to,
                                                day(good[k]), FALSE)]
<1>1. good \in Seq(S)
  BY KeepOk
<1>2. Len(good) \in Nat /\ DOMAIN good = 1 .. Len(good) /\ \A k \in DOMAIN good : good[k] \in S
  BY <1>1, SeqRange
<1>3. ASSUME NEW i \in S PROVE IsReport(Move("wikipedia", table[i], table[i].from, table[i].to, day(i), FALSE))
  <2> DEFINE above == {j \in 1 .. (i - 1) : table[j].day # 0}
  <2>1. i \in 1 .. n /\ table[i].who # "" /\ table[i].to # "" /\ table[i].day \in Nat
    OBVIOUS
  <2>2. LastDay(table, i) \in Nat
    <3>1. CASE above = {}
      BY <3>1 DEF LastDay
    <3>2. CASE above # {}
      <4>1. above \in SUBSET (1 .. n)
        BY <2>1, Earlier
      <4>2. Max(above) \in above
        BY <3>2, <4>1, LatestIs
      <4>3. Max(above) \in 1 .. n
        BY <4>1, <4>2
      <4>4. QED BY <3>2, <4>3 DEF LastDay
    <3>3. QED BY <3>1, <3>2
  <2>3. day(i) \in Nat
    BY <2>1, <2>2 DEF RowDay
  <2> HIDE DEF above, day
  <2>4. QED BY <2>1, <2>3, MoveOk
<1> HIDE DEF S, good, places, day
<1>4. IsBatch(moves)
  BY <1>2, <1>3, MadeBatch
<1>5. QED BY <1>4 DEF TableMoves, good, S, places, day

LEMMA PageMovesOk ==
    ASSUME NEW page, DOMAIN page = {"women", "lists", "table", "codes"},
           IsTable(page.table), page.lists \in Seq(Range(page.lists)), NEW names
    PROVE  IsBatch(PageMoves(page, names))
<1> DEFINE In(club) == IF club \in DOMAIN names THEN names[club] ELSE club
           Line(l) == [l EXCEPT !.club = In(@)]
           Row(r) == [r EXCEPT !.from = In(@), !.to = In(@)]
           read == Expanded(page, names)
           lists == [i \in DOMAIN page.lists |-> Line(page.lists[i])]
           table == [i \in DOMAIN page.table |-> Row(page.table[i])]
<1>1. read.lists = lists /\ read.table = table
  BY DEF Expanded
<1>2. IsBatch(ListMoves(lists))
  <2> HIDE DEF Line
  <2>1. Len(page.lists) \in Nat /\ DOMAIN lists = 1 .. Len(page.lists)
    OBVIOUS
  <2> HIDE DEF lists
  <2>2. QED BY <2>1, ListMovesOk
<1>3. IsBatch(TableMoves(table))
  <2>1. /\ Len(page.table) \in Nat /\ DOMAIN page.table = 1 .. Len(page.table)
        /\ \A i \in DOMAIN page.table : "day" \in DOMAIN page.table[i] /\ page.table[i].day \in Nat
    BY SeqRange DEF IsTable
  <2>2. \A i \in DOMAIN page.table : Row(page.table[i]).day \in Nat
    BY <2>1
  <2> HIDE DEF Row
  <2>3. DOMAIN table = 1 .. Len(page.table) /\ \A i \in 1 .. Len(page.table) : table[i].day \in Nat
    BY <2>1, <2>2
  <2> HIDE DEF table
  <2>4. QED BY <2>1, <2>3, TableMovesOk
<1> HIDE DEF lists, table, read
<1>4. QED BY <1>1, <1>2, <1>3, JoinedBatch DEF PageMoves, read

-----------------------------------------------------------------------------
(* A scan collects reports, whatever its provider answers and whichever of *)
(* its requests come to nothing.                                           *)
ClubMem(m) == DOMAIN m = {"at", "page", "id", "moves"} /\ IsBatch(m.moves)
MemOk(p, site, clubs, m) ==
    /\ p = "transfermarkt" => DOMAIN m = {"page", "try", "answered", "rows", "seen"} /\ WholeRows(m.rows)
    /\ p = "sofascore" => m \in 1 .. Len(Places)
    /\ p = "soccerway" =>
           \E n \in Nat : DOMAIN m = 1 .. n /\ \A i \in 1 .. n : clubs[i] # "" /\ ClubMem(m[i])
    /\ p = "wikipedia" =>
           /\ DOMAIN m = {"phase", "todo", "from", "places", "part", "titles", "names"}
           /\ m.titles \in Seq(DOMAIN site.pages) /\ m.part \in Seq(DOMAIN site.pages)
           /\ m.from \in Nat \ {0}

ScanOk(s) ==
    /\ DOMAIN s = {"p", "site", "clubs", "mem", "found", "end", "missed"}
    /\ IsSite(s.p, s.site) /\ (s.p \notin Range(Providers) => s.site = <<>>)
    /\ IsBatch(s.found) /\ MemOk(s.p, s.site, s.clubs, s.mem)

\* A scan of the same site.
GoesOn(s, r) ==
    DOMAIN r = DOMAIN s /\ r.p = s.p /\ r.site = s.site /\ r.clubs = s.clubs

LEMMA StaysOk ==
    ASSUME NEW s, ScanOk(s), NEW r, GoesOn(s, r), IsBatch(r.found), MemOk(s.p, s.site, s.clubs, r.mem)
    PROVE  ScanOk(r)
BY DEF ScanOk, GoesOn

LEMMA DoneOk == ASSUME NEW s, ScanOk(s), NEW found, IsBatch(found) PROVE ScanOk(Done(s, found))
<1> DEFINE r == Done(s, found)
<1>1. GoesOn(s, r) /\ r.found = found /\ r.mem = s.mem
  BY DEF Done, GoesOn, ScanOk
<1> HIDE DEF r
<1>2. QED BY <1>1, StaysOk DEF ScanOk, r

LEMMA BrokenOk == ASSUME NEW s, ScanOk(s), NEW why PROVE ScanOk(Broken(s, why))
<1> DEFINE r == Broken(s, why)
<1>1. GoesOn(s, r) /\ r.found = <<>> /\ r.mem = s.mem
  BY DEF Broken, GoesOn, ScanOk
<1> HIDE DEF r
<1>2. QED BY <1>1, StaysOk, NoBatch DEF ScanOk, r

LEMMA MissingOk == ASSUME NEW s, ScanOk(s) PROVE ScanOk(Missing(s)) /\ Missing(s).p = s.p /\ Missing(s).mem = s.mem
<1> DEFINE r == Missing(s)
<1>1. GoesOn(s, r) /\ r.found = s.found /\ r.mem = s.mem
  BY DEF Missing, GoesOn, ScanOk
<1> HIDE DEF r
<1>2. QED BY <1>1, StaysOk DEF ScanOk, GoesOn, r

LEMMA MemStays ==
    ASSUME NEW s, ScanOk(s), NEW m, MemOk(s.p, s.site, s.clubs, m)
    PROVE  ScanOk([s EXCEPT !.mem = m]) /\ [s EXCEPT !.mem = m].p = s.p
<1> DEFINE r == [s EXCEPT !.mem = m]
<1>1. GoesOn(s, r) /\ r.found = s.found /\ r.mem = m
  BY DEF GoesOn, ScanOk
<1> HIDE DEF r
<1>2. QED BY <1>1, StaysOk DEF ScanOk, GoesOn, r

LEMMA FeedReadOk == ASSUME NEW s, ScanOk(s), s.p = "feed" PROVE ScanOk(FeedRead(s))
<1> DEFINE page == s.mem.page
           items == IF page \in DOMAIN s.site THEN s.site[page] ELSE <<>>
           m == [page |-> page + 1, seen |-> s.mem.seen \cup {items}]
           f == s.found \o FeedMoves(items)
           r == [s EXCEPT !.mem = m, !.found = f]
<1>1. CASE items = <<>> \/ items \in s.mem.seen
  BY <1>1, DoneOk DEF FeedRead, ScanOk
<1>2. CASE ~(items = <<>> \/ items \in s.mem.seen) /\ (Unusable(items) \/ page = PageLimit)
  BY <1>2, BrokenOk DEF FeedRead
<1>3. CASE ~(items = <<>> \/ items \in s.mem.seen) /\ ~(Unusable(items) \/ page = PageLimit)
  <2>1. IsTable(items)
    BY <1>3 DEF ScanOk, IsSite
  <2>2. FeedRead(s) = r
    BY <1>3 DEF FeedRead
  <2> HIDE DEF items
  <2>3. IsBatch(f)
    BY <2>1, FeedMovesOk, JoinedBatch DEF ScanOk
  <2> HIDE DEF f, m
  <2>4. GoesOn(s, r) /\ r.found = f
    BY DEF GoesOn, ScanOk
  <2>5. MemOk(s.p, s.site, s.clubs, r.mem)
    BY DEF MemOk
  <2> HIDE DEF r
  <2>6. QED BY <2>2, <2>3, <2>4, <2>5, StaysOk
<1>4. QED BY <1>1, <1>2, <1>3

LEMMA MarketDoneOk ==
    ASSUME NEW s, ScanOk(s), NEW rows, WholeRows(rows)
    PROVE  ScanOk(MarketDone(s, rows))
BY MarketMovesOk, DoneOk DEF MarketDone

LEMMA MarketNextOk ==
    ASSUME NEW s, ScanOk(s), s.p = "transfermarkt", NEW why
    PROVE  ScanOk(MarketNext(s, why))
<1>1. CASE s.mem.try < Readers(s.mem.page)
  <2> DEFINE m == [s.mem EXCEPT !.try = @ + 1]
  <2>1. MarketNext(s, why) = [s EXCEPT !.mem = m]
    BY <1>1 DEF MarketNext
  <2>2. MemOk(s.p, s.site, s.clubs, m)
    BY DEF MemOk, ScanOk
  <2> HIDE DEF m
  <2>3. QED BY <2>1, <2>2, MemStays
<1>2. CASE ~(s.mem.try < Readers(s.mem.page)) /\ s.mem.page = 1 /\ ~s.mem.answered
  BY <1>2, BrokenOk DEF MarketNext
<1>3. CASE ~(s.mem.try < Readers(s.mem.page)) /\ ~(s.mem.page = 1 /\ ~s.mem.answered)
  <2>1. WholeRows(s.mem.rows)
    BY DEF ScanOk, MemOk
  <2>2. MarketNext(s, why) = MarketDone(s, s.mem.rows)
    BY <1>3 DEF MarketNext
  <2>3. QED BY <2>1, <2>2, MarketDoneOk
<1>4. QED BY <1>1, <1>2, <1>3

LEMMA TurnPageOk ==
    ASSUME NEW s, ScanOk(s), s.p = "transfermarkt", NEW rows, WholeRows(rows), NEW seen
    PROVE  ScanOk(TurnPage(s, rows, seen))
<1>1. CASE s.mem.page = PageLimit
  BY <1>1, MarketDoneOk DEF TurnPage
<1>2. CASE s.mem.page # PageLimit
  <2> DEFINE m == [page |-> s.mem.page + 1, try |-> 1, answered |-> FALSE, rows |-> rows, seen |-> seen]
  <2>1. TurnPage(s, rows, seen) = [s EXCEPT !.mem = m]
    BY <1>2 DEF TurnPage
  <2>2. MemOk(s.p, s.site, s.clubs, m)
    BY DEF MemOk
  <2> HIDE DEF m
  <2>3. QED BY <2>1, <2>2, MemStays
<1>3. QED BY <1>1, <1>2

LEMMA JoinedSeqs ==
    ASSUME NEW a, a \in Seq(Range(a)), NEW b, b \in Seq(Range(b))
    PROVE  a \o b \in Seq(Range(a) \cup Range(b))
<1> DEFINE S == Range(a) \cup Range(b)
<1>1. Range(a) \subseteq S /\ Range(b) \subseteq S
  OBVIOUS
<1> HIDE DEF S
<1>2. a \in Seq(S) /\ b \in Seq(S)
  BY <1>1
<1>3. a \o b \in Seq(S)
  BY <1>2
<1>4. QED BY <1>3 DEF S

LEMMA JoinedRows ==
    ASSUME NEW a, WholeRows(a), NEW b, WholeRows(b)
    PROVE  WholeRows(a \o b)
<1> DEFINE S == Range(a) \cup Range(b)
<1>1. a \o b \in Seq(S)
  BY JoinedSeqs DEF WholeRows
<1>2. \A r \in S : r.who # "" /\ r.to # "" /\ r.day \in Nat
  BY DEF WholeRows
<1> HIDE DEF S
<1>3. QED BY <1>1, <1>2, SomeWholeRows

LEMMA MarketReadOk ==
    ASSUME NEW s, ScanOk(s), s.p = "transfermarkt"
    PROVE  ScanOk(MarketRead(s))
<1> DEFINE batch == MarketPage(s)
           events == {r.event : r \in Range(batch)}
           eligible == Keep(batch, {r \in Range(batch) : InRange(r.day)})
           known == {r.event : r \in Range(s.mem.rows)}
           F == {r \in Range(eligible) : r.event \notin known}
           fresh == Keep(eligible, F)
           t == [s EXCEPT !.mem.answered = TRUE]
<1>1. WholeRows(batch)
  <2> DEFINE pages == Shown(s)
  <2>1. CASE s.mem.page \in DOMAIN pages
    <3>1. IsTable(pages[s.mem.page])
      BY <2>1 DEF Shown, ScanOk, IsSite
    <3>2. QED BY <2>1, <3>1, MarketRowsOk DEF MarketPage
  <2>2. CASE s.mem.page \notin DOMAIN pages
    BY <2>2 DEF MarketPage, WholeRows, Range
  <2>3. QED BY <2>1, <2>2
<1>2. WholeRows(s.mem.rows)
  BY DEF ScanOk, MemOk
<1>3. WholeRows(fresh)
  <2>1. eligible \in Seq(Range(batch))
    <3> DEFINE S == {r \in Range(batch) : InRange(r.day)}
    <3>1. Keep(batch, S) \in Seq(S) /\ S \subseteq Range(batch)
      BY <1>1, KeptRows DEF WholeRows
    <3> HIDE DEF S
    <3>2. Keep(batch, S) \in Seq(Range(batch))
      BY <3>1
    <3>3. QED BY <3>2 DEF S
  <2> HIDE DEF batch, eligible, F
  <2>2. eligible \in Seq(Range(eligible)) /\ Range(eligible) \subseteq Range(batch)
    BY <2>1, SeqRange
  <2>3. fresh \in Seq(F)
    BY <2>2, KeptRows
  <2>4. F \subseteq Range(batch)
    BY <2>2 DEF F
  <2>5. fresh \in Seq(Range(batch))
    BY <2>3, <2>4
  <2>6. QED BY <1>1, <2>5, SomeWholeRows DEF WholeRows
<1>4. ScanOk(MarketNext(t, "failed"))
  <2> DEFINE m == [s.mem EXCEPT !.answered = TRUE]
  <2>1. t = [s EXCEPT !.mem = m]
    OBVIOUS
  <2>2. MemOk(s.p, s.site, s.clubs, m)
    BY DEF ScanOk, MemOk
  <2> HIDE DEF m, t
  <2>3. ScanOk(t) /\ t.p = "transfermarkt"
    BY <2>1, <2>2, MemStays
  <2>4. QED BY <2>3, MarketNextOk
<1>5. ScanOk(MarketDone(s, s.mem.rows))
  BY <1>2, MarketDoneOk
<1> HIDE DEF batch, events, eligible, known, F, fresh, t
<1>6. ScanOk(TurnPage(s, s.mem.rows \o fresh, s.mem.seen \cup events))
  BY <1>2, <1>3, JoinedRows, TurnPageOk
<1>7. MarketRead(s) \in {MarketNext(t, "failed"), MarketDone(s, s.mem.rows),
                         TurnPage(s, s.mem.rows \o fresh, s.mem.seen \cup events)}
  BY DEF MarketRead, batch, events, eligible, known, F, fresh, t
<1>8. QED BY <1>4, <1>5, <1>6, <1>7

LEMMA SofascoreNextOk ==
    ASSUME NEW s, ScanOk(s), s.p = "sofascore"
    PROVE  ScanOk(SofascoreNext(s))
<1>1. CASE s.mem < Len(Places)
  <2>1. MemOk(s.p, s.site, s.clubs, s.mem + 1)
    BY <1>1 DEF MemOk, ScanOk, Places
  <2>2. SofascoreNext(s) = [s EXCEPT !.mem = s.mem + 1]
    BY <1>1 DEF SofascoreNext
  <2>3. QED BY <2>1, <2>2, MemStays
<1>2. CASE ~(s.mem < Len(Places))
  BY <1>2, BrokenOk DEF SofascoreNext
<1>3. QED BY <1>1, <1>2

LEMMA SofascoreReadOk ==
    ASSUME NEW s, ScanOk(s), s.p = "sofascore"
    PROVE  ScanOk(SofascoreRead(s))
<1> DEFINE place == Places[s.mem]
           rows == s.site[place]
<1>1. place \in 1 .. 6
  <2>1. s.mem \in 1 .. 7
    BY DEF ScanOk, MemOk, Places
  <2>2. QED BY <2>1 DEF Places
<1>2. rows = NoPage \/ IsTable(rows)
  BY <1>1 DEF ScanOk, IsSite
<1> HIDE DEF place
<1>3. CASE rows = NoPage
  BY <1>3, SofascoreNextOk DEF SofascoreRead, place
<1>4. CASE rows # NoPage
  <2> DEFINE found == ForClubs(SofascoreRows(rows), s.clubs)
  <2>1. IsBatch(found)
    BY <1>2, <1>4, SofascoreRowsOk, ForClubsOk
  <2>2. SofascoreRead(s) = Done(s, found)
    BY <1>4 DEF SofascoreRead, place
  <2> HIDE DEF found
  <2>3. QED BY <2>1, <2>2, DoneOk
<1>5. QED BY <1>3, <1>4

\* The clubs that are searched and their feeds.
PutClub(s, i, c) == [s EXCEPT !.mem[i] = c]

LEMMA ClubTurn ==
    ASSUME NEW s, ScanOk(s), s.p = "soccerway", NEW i \in DOMAIN s.mem, NEW c, ClubMem(c)
    PROVE  ScanOk(PutClub(s, i, c)) /\ PutClub(s, i, c).p = s.p
<1> DEFINE m == [s.mem EXCEPT ![i] = c]
<1>1. MemOk(s.p, s.site, s.clubs, m)
  <2>1. PICK n \in Nat : DOMAIN s.mem = 1 .. n /\ \A k \in 1 .. n : s.clubs[k] # "" /\ ClubMem(s.mem[k])
    BY DEF ScanOk, MemOk
  <2>2. DOMAIN m = 1 .. n /\ \A k \in 1 .. n : s.clubs[k] # "" /\ ClubMem(m[k])
    BY <2>1
  <2> HIDE DEF m
  <2>3. QED BY <2>2 DEF MemOk
<1>2. PutClub(s, i, c) = [s EXCEPT !.mem = m]
  BY DEF PutClub
<1> HIDE DEF m
<1>3. QED BY <1>1, <1>2, MemStays

LEMMA GatheredOk ==
    ASSUME NEW s, ScanOk(s), s.p = "soccerway"
    PROVE  IsBatch(Gathered(s))
<1> DEFINE part(i) == IF s.mem[i].at = "done" THEN s.mem[i].moves ELSE <<>>
           parts == [i \in DOMAIN s.mem |-> part(i)]
           S == UNION {Range(parts[i]) : i \in DOMAIN s.mem}
<1>1. PICK n \in Nat : DOMAIN s.mem = 1 .. n /\ \A i \in 1 .. n : IsBatch(s.mem[i].moves)
  BY DEF ScanOk, MemOk, ClubMem
<1>2. DOMAIN parts = 1 .. n /\ \A i \in 1 .. n : IsBatch(parts[i])
  BY <1>1, NoBatch
<1>3. ASSUME NEW i \in 1 .. n PROVE parts[i] \in Seq(S)
  <2>1. parts[i] \in Seq(Range(parts[i])) /\ Range(parts[i]) \subseteq S
    BY <1>1, <1>2 DEF IsBatch
  <2> HIDE DEF S, parts
  <2>2. QED BY <2>1
<1>4. \A t \in S : IsReport(t)
  BY <1>1, <1>2 DEF IsBatch
<1> HIDE DEF S, parts
<1>5. Joined(parts) \in Seq(S)
  BY <1>2, <1>3, JoinedOk
<1>6. IsBatch(Joined(parts))
  BY <1>4, <1>5, SubBatch
<1>7. QED BY <1>6, FirstBatch DEF Gathered, FirstEvents, parts

LEMMA SoccerwayDoneOk ==
    ASSUME NEW s, ScanOk(s), s.p = "soccerway"
    PROVE  ScanOk(SoccerwayDone(s))
BY GatheredOk, DoneOk DEF SoccerwayDone

LEMMA ClubIs ==
    ASSUME NEW s, ScanOk(s), s.p = "soccerway", NEW i \in DOMAIN s.mem
    PROVE  ClubMem(s.mem[i]) /\ s.clubs[i] # ""
BY DEF ScanOk, MemOk

Lost(s, i) == [s EXCEPT !.mem[i].at = "lost"]

LEMMA LostOk ==
    ASSUME NEW s, ScanOk(s), s.p = "soccerway", NEW i \in DOMAIN s.mem
    PROVE  ScanOk(Lost(s, i)) /\ Lost(s, i).p = s.p
<1> DEFINE c == [s.mem[i] EXCEPT !.at = "lost"]
<1>1. ClubMem(c)
  BY ClubIs DEF ClubMem
<1>2. Lost(s, i) = PutClub(s, i, c)
  BY DEF Lost, PutClub
<1> HIDE DEF c
<1>3. QED BY <1>1, <1>2, ClubTurn

LEMMA SoccerwayReadOk ==
    ASSUME NEW s, ScanOk(s), s.p = "soccerway", NEW i \in DOMAIN s.mem
    PROVE  ScanOk(SoccerwayRead(s, i))
<1>1. ScanOk(SearchRead(s, i)) /\ SearchRead(s, i).p = "soccerway"
  <2> DEFINE id == CandidateTeam(s.site.search[s.clubs[i]], s.clubs[i])
             c == [at |-> "feed", page |-> 1, id |-> id, moves |-> <<>>]
  <2>1. ClubMem(c)
    BY NoBatch DEF ClubMem
  <2>2. SearchRead(s, i) = IF id = 0 THEN Lost(s, i) ELSE PutClub(s, i, c)
    BY DEF SearchRead, Lost, PutClub
  <2> HIDE DEF id, c
  <2>3. QED BY <2>1, <2>2, ClubTurn, LostOk
<1>2. ScanOk(TeamFeedRead(s, i)) /\ TeamFeedRead(s, i).p = "soccerway"
  <2> DEFINE club == s.mem[i]
             pages == FeedOf(s.site, club.id)
             rows == IF club.page \in DOMAIN pages THEN pages[club.page] ELSE <<>>
             moves == club.moves \o SoccerwayMoves(rows, s.clubs[i], club.id)
             c == [club EXCEPT !.at = "done", !.moves = moves]
             d == [club EXCEPT !.page = @ + 1, !.moves = moves]
             last == rows = <<>> \/ ReachesBack(rows) \/ club.page = FeedPages
  <2>1. IsTable(rows)
    <3>1. IsTable(<<>>)
      BY DEF IsTable, Range
    <3>2. \A k \in DOMAIN pages : IsTable(pages[k])
      BY DEF ScanOk, IsSite, FeedOf
    <3>3. QED BY <3>1, <3>2
  <2> HIDE DEF rows
  <2>2. IsBatch(moves)
    <3>1. IsBatch(SoccerwayMoves(rows, s.clubs[i], club.id))
      BY <2>1, ClubIs, SoccerwayMovesOk
    <3>2. IsBatch(club.moves)
      BY ClubIs DEF ClubMem
    <3>3. QED BY <3>1, <3>2, JoinedBatch
  <2>3. TeamFeedRead(s, i) = IF last THEN PutClub(s, i, c) ELSE PutClub(s, i, d)
    BY DEF TeamFeedRead, rows, PutClub
  <2> HIDE DEF moves
  <2>4. ClubMem(c) /\ ClubMem(d)
    BY <2>2, ClubIs DEF ClubMem
  <2> HIDE DEF c, d, last
  <2>5. QED BY <2>3, <2>4, ClubTurn
<1>3. QED BY <1>1, <1>2, SoccerwayDoneOk DEF SoccerwayRead

LEMMA SoccerwayMissOk ==
    ASSUME NEW s, ScanOk(s), s.p = "soccerway", NEW i \in DOMAIN s.mem
    PROVE  ScanOk(SoccerwayMiss(s, i))
BY LostOk, SoccerwayDoneOk DEF SoccerwayMiss, Lost

LEMMA OutOfTimeOk ==
    ASSUME NEW s, ScanOk(s), s.p = "soccerway"
    PROVE  ScanOk(OutOfTime(s))
<1>1. ScanOk(Missing(s)) /\ IsBatch(Gathered(s))
  BY MissingOk, GatheredOk
<1>2. OutOfTime(s) = Done(Missing(s), Gathered(s))
  BY DEF OutOfTime, Missing
<1>3. QED BY <1>1, <1>2, DoneOk

\* The titles of pages a scan of Wikipedia has.
TitlesOk(site, m) ==
    /\ DOMAIN m = {"phase", "todo", "from", "places", "part", "titles", "names"}
    /\ m.titles \in Seq(DOMAIN site.pages) /\ m.part \in Seq(DOMAIN site.pages)
    /\ m.from \in Nat \ {0}
WikiScan(s) == ScanOk(s) /\ s.p = "wikipedia"

LEMMA PartOf ==
    ASSUME NEW S, NEW s \in Seq(S), NEW m \in Nat \ {0}, NEW n \in Nat, n <= Len(s)
    PROVE  SubSeq(s, m, n) \in Seq(S)
OBVIOUS

LEMMA WikiMemIs == ASSUME NEW s, WikiScan(s) PROVE TitlesOk(s.site, s.mem)
BY DEF WikiScan, ScanOk, MemOk, TitlesOk

LEMMA WikiMemStays ==
    ASSUME NEW s, WikiScan(s), NEW m, TitlesOk(s.site, m)
    PROVE  WikiScan([s EXCEPT !.mem = m])
<1>1. MemOk(s.p, s.site, s.clubs, m)
  BY DEF MemOk, TitlesOk, WikiScan
<1>2. QED BY <1>1, MemStays DEF WikiScan

LEMMA QueryOk == ASSUME NEW site, NEW m, TitlesOk(site, m) PROVE TitlesOk(site, Query(m))
BY DEF Query, TitlesOk

LEMMA ChunkOk ==
    ASSUME NEW S, NEW ts \in Seq(S)
    PROVE  Chunk(ts) \in Seq(S) /\ Later(ts) \in Seq(S)
<1> DEFINE n == Min({ChunkSize, Len(ts)})
<1>1. {ChunkSize, Len(ts)} \subseteq Nat
  BY ScansAssumption
<1>2. n \in {ChunkSize, Len(ts)} /\ n <= Len(ts)
  BY <1>1, MinOf
<1>3. n \in Nat /\ n + 1 \in Nat \ {0} /\ Len(ts) \in Nat
  BY <1>1, <1>2
<1> HIDE DEF n
<1>4. SubSeq(ts, 1, n) \in Seq(S) /\ SubSeq(ts, n + 1, Len(ts)) \in Seq(S)
  BY <1>2, <1>3, PartOf
<1>5. QED BY <1>4 DEF Chunk, Later, n

LEMMA MensPagesOk ==
    ASSUME NEW s, NEW S, NEW titles \in Seq(S)
    PROVE  MensPages(s, titles) \in Seq(S)
<1> DEFINE first == Firsts(titles, titles)
           T == {t \in Range(titles) : ~s.site.pages[t].women}
<1>1. Len(titles) \in Nat /\ DOMAIN titles = 1 .. Len(titles) /\ Range(titles) \subseteq S
  BY SeqRange
<1>2. first \in Seq(Range(titles))
  BY <1>1, FirstsOk
<1>3. first \in Seq(Range(first))
  BY <1>2, SeqRange
<1>4. T \subseteq S
  BY <1>1
<1> HIDE DEF first, T
<1>5. Keep(first, T) \in Seq(T)
  BY <1>3, KeptRows
<1>6. Keep(first, T) \in Seq(S)
  BY <1>4, <1>5
<1>7. QED BY <1>6 DEF MensPages, first, T

LEMMA PagesPhaseOk ==
    ASSUME NEW s, WikiScan(s), NEW m, TitlesOk(s.site, m)
    PROVE  ScanOk(PagesPhase(s, m))
<1>1. CASE m.titles = <<>>
  BY <1>1, DoneOk DEF PagesPhase, WikiScan, ScanOk
<1>2. CASE m.titles # <<>>
  <2> DEFINE n == Query([m EXCEPT !.phase = "pages"])
  <2>1. TitlesOk(s.site, [m EXCEPT !.phase = "pages"])
    BY DEF TitlesOk
  <2>2. TitlesOk(s.site, n)
    BY <2>1, QueryOk
  <2>3. PagesPhase(s, m) = [s EXCEPT !.mem = n]
    BY <1>2 DEF PagesPhase
  <2> HIDE DEF n
  <2>4. QED BY <2>2, <2>3, WikiMemStays DEF WikiScan
<1>3. QED BY <1>1, <1>2

LEMMA EndCategoryOk ==
    ASSUME NEW s, WikiScan(s), NEW titles \in Seq(DOMAIN s.site.pages)
    PROVE  ScanOk(EndCategory(s, titles))
<1> DEFINE all == s.mem.titles \o titles
           m == [s.mem EXCEPT !.todo = Tail(@), !.titles = all]
           n == [m EXCEPT !.titles = MensPages(s, all)]
<1>1. all \in Seq(DOMAIN s.site.pages)
  <2> DEFINE P == DOMAIN s.site.pages
  <2>1. s.mem.titles \in Seq(P)
    BY WikiMemIs DEF TitlesOk
  <2>2. titles \in Seq(P)
    OBVIOUS
  <2> HIDE DEF P
  <2>3. s.mem.titles \o titles \in Seq(P)
    BY <2>1, <2>2
  <2>4. QED BY <2>3 DEF P
<1>2. MensPages(s, all) \in Seq(DOMAIN s.site.pages)
  BY <1>1, MensPagesOk
<1> HIDE DEF all
<1>3. TitlesOk(s.site, m) /\ m.titles = all
  BY <1>1, WikiMemIs DEF TitlesOk
<1>4. TitlesOk(s.site, n)
  BY <1>2, <1>3 DEF TitlesOk
<1>5. TitlesOk(s.site, Query(m))
  BY <1>3, QueryOk
<1>6. EndCategory(s, titles) = IF m.todo # <<>> THEN [s EXCEPT !.mem = Query(m)] ELSE PagesPhase(s, n)
  BY <1>3 DEF EndCategory, all
<1> HIDE DEF m, n
<1>7. QED BY <1>4, <1>5, <1>6, WikiMemStays, PagesPhaseOk DEF WikiScan

LEMMA EndChunkOk ==
    ASSUME NEW s, WikiScan(s), NEW pages \in Seq(DOMAIN s.site.pages), NEW names
    PROVE  ScanOk(EndChunk(s, pages, names))
<1> DEFINE parts == [i \in DOMAIN pages |-> PageMoves(s.site.pages[pages[i]], names)]
           S == UNION {Range(parts[i]) : i \in DOMAIN pages}
           moves == Joined(parts)
           f == s.found \o moves
           r == [s EXCEPT !.found = f]
           m == [s.mem EXCEPT !.titles = Later(@), !.names = names]
<1>1. Len(pages) \in Nat /\ DOMAIN pages = 1 .. Len(pages) /\ DOMAIN parts = 1 .. Len(pages)
  OBVIOUS
<1>2. ASSUME NEW i \in DOMAIN pages PROVE IsBatch(parts[i])
  <2> DEFINE page == s.site.pages[pages[i]]
  <2>1. /\ DOMAIN page = {"women", "lists", "table", "codes"}
        /\ IsTable(page.table) /\ page.lists \in Seq(Range(page.lists))
    <3>1. pages[i] \in DOMAIN s.site.pages
      OBVIOUS
    <3>2. IsSite("wikipedia", s.site)
      BY DEF WikiScan, ScanOk
    <3>3. QED BY <3>1, <3>2 DEF IsSite
  <2> HIDE DEF page
  <2>2. IsBatch(PageMoves(page, names))
    BY <2>1, PageMovesOk
  <2>3. QED BY <2>2 DEF page
<1>3. ASSUME NEW i \in DOMAIN pages PROVE parts[i] \in Seq(S)
  <2>1. parts[i] \in Seq(Range(parts[i])) /\ Range(parts[i]) \subseteq S
    BY <1>2 DEF IsBatch
  <2> HIDE DEF S, parts
  <2>2. QED BY <2>1
<1>4. \A t \in S : IsReport(t)
  BY <1>2 DEF IsBatch
<1> HIDE DEF S, parts
<1>5. moves \in Seq(S)
  BY <1>1, <1>3, JoinedOk
<1>6. IsBatch(moves)
  BY <1>4, <1>5, SubBatch
<1> HIDE DEF moves
<1>7. IsBatch(f)
  BY <1>6, JoinedBatch DEF WikiScan, ScanOk
<1>8. EndChunk(s, pages, names) = PagesPhase(r, m)
  BY DEF EndChunk, parts, moves
<1> HIDE DEF f
<1>9. WikiScan(r) /\ r.site = s.site
  <2>1. GoesOn(s, r) /\ r.found = f /\ r.mem = s.mem
    BY DEF GoesOn, WikiScan, ScanOk
  <2> HIDE DEF r
  <2>2. QED BY <1>7, <2>1, StaysOk DEF WikiScan, ScanOk, GoesOn
<1>10. TitlesOk(s.site, m)
  <2>1. Later(s.mem.titles) \in Seq(DOMAIN s.site.pages)
    BY WikiMemIs, ChunkOk DEF TitlesOk
  <2>2. QED BY <2>1, WikiMemIs DEF TitlesOk
<1> HIDE DEF m, r
<1>11. QED BY <1>8, <1>9, <1>10, PagesPhaseOk

LEMMA EndQueryOk ==
    ASSUME NEW s, WikiScan(s), NEW items \in Seq(DOMAIN s.site.pages)
    PROVE  ScanOk(EndQuery(s, items))
<1>1. CASE s.mem.phase = "category"
  BY <1>1, EndCategoryOk DEF EndQuery
<1>2. CASE s.mem.phase # "category" /\ Codes(s, items) = {}
  BY <1>2, EndChunkOk DEF EndQuery
<1>3. CASE s.mem.phase # "category" /\ Codes(s, items) # {}
  <2> DEFINE m == [s.mem EXCEPT !.phase = "teams", !.part = items]
  <2>1. EndQuery(s, items) = [s EXCEPT !.mem = m]
    BY <1>3 DEF EndQuery
  <2>2. TitlesOk(s.site, m)
    BY WikiMemIs DEF TitlesOk
  <2> HIDE DEF m
  <2>3. QED BY <2>1, <2>2, WikiMemStays DEF WikiScan
<1>4. QED BY <1>1, <1>2, <1>3

LEMMA ListedOk ==
    ASSUME NEW s, WikiScan(s)
    PROVE  Listed(s) \in Seq(DOMAIN s.site.pages)
<1>1. IsSite("wikipedia", s.site) /\ s.mem.titles \in Seq(DOMAIN s.site.pages)
  BY WikiMemIs DEF WikiScan, ScanOk, TitlesOk
<1>2. Members(s) \in Seq(DOMAIN s.site.pages)
  <2>1. \A c \in DOMAIN s.site.members : s.site.members[c] \in Seq(DOMAIN s.site.pages)
    BY <1>1 DEF IsSite
  <2>2. <<>> \in Seq(DOMAIN s.site.pages)
    OBVIOUS
  <2>3. QED BY <2>1, <2>2, Zenon DEF Members
<1>3. Chunk(s.mem.titles) \in Seq(DOMAIN s.site.pages)
  BY <1>1, ChunkOk
<1>4. QED BY <1>2, <1>3 DEF Listed

LEMMA QueryReadOk ==
    ASSUME NEW s, WikiScan(s), NEW upto \in Nat, upto <= Len(Listed(s)), NEW next \in Nat
    PROVE  ScanOk(QueryRead(s, upto, next))
<1> DEFINE part == s.mem.part \o SubSeq(Listed(s), s.mem.from, upto)
           P == DOMAIN s.site.pages
<1>1. part \in Seq(P)
  <2> DEFINE more == SubSeq(Listed(s), s.mem.from, upto)
  <2>1. s.mem.part \in Seq(P) /\ s.mem.from \in Nat \ {0}
    BY WikiMemIs DEF TitlesOk
  <2>2. more \in Seq(P)
    BY <2>1, ListedOk, PartOf
  <2> HIDE DEF more, P
  <2>3. s.mem.part \o more \in Seq(P)
    BY <2>1, <2>2
  <2>4. QED BY <2>3 DEF more
<1> HIDE DEF part
<1>2. CASE next = 0
  BY <1>1, <1>2, EndQueryOk DEF QueryRead, part
<1>3. CASE next # 0
  <2> DEFINE m == [s.mem EXCEPT !.part = part, !.from = next, !.places = @ \cup {next}]
  <2>1. QueryRead(s, upto, next) = [s EXCEPT !.mem = m]
    BY <1>3 DEF QueryRead, part
  <2>2. TitlesOk(s.site, m)
    BY <1>1, <1>3, WikiMemIs DEF TitlesOk
  <2> HIDE DEF m
  <2>3. QED BY <2>1, <2>2, WikiMemStays DEF WikiScan
<1>4. QED BY <1>2, <1>3

LEMMA WikipediaMissOk ==
    ASSUME NEW s, WikiScan(s)
    PROVE  ScanOk(WikipediaMiss(s))
<1>1. <<>> \in Seq(DOMAIN s.site.pages)
  OBVIOUS
<1>2. TitlesOk(s.site, [s.mem EXCEPT !.titles = Later(@)])
  <2>1. Later(s.mem.titles) \in Seq(DOMAIN s.site.pages)
    BY WikiMemIs, ChunkOk DEF TitlesOk
  <2>2. QED BY <2>1, WikiMemIs DEF TitlesOk
<1>3. s.mem.part \in Seq(DOMAIN s.site.pages)
  BY WikiMemIs DEF TitlesOk
<1>4. QED BY <1>1, <1>2, <1>3, EndCategoryOk, PagesPhaseOk, EndChunkOk DEF WikipediaMiss

LEMMA WikipediaReadsOk ==
    ASSUME NEW s, WikiScan(s), NEW r \in WikipediaReads(s)
    PROVE  ScanOk(r)
<1>1. CASE s.mem.phase = "teams"
  <2>1. s.mem.part \in Seq(DOMAIN s.site.pages)
    BY WikiMemIs DEF TitlesOk
  <2>2. r = TeamsRead(s)
    BY <1>1 DEF WikipediaReads
  <2>3. QED BY <2>1, <2>2, EndChunkOk DEF TeamsRead
<1>2. CASE s.mem.phase # "teams"
  <2> DEFINE last == Len(Listed(s))
  <2>1. last \in Nat /\ s.mem.from \in Nat \ {0}
    BY ListedOk, WikiMemIs DEF TitlesOk
  <2> HIDE DEF last
  <2>2. CASE r = QueryRead(s, last, 0)
    BY <2>1, <2>2, QueryReadOk DEF last
  <2>3. CASE \E u \in s.mem.from .. (last - 1) : r = QueryRead(s, u, u + 1)
    <3>1. PICK u \in s.mem.from .. (last - 1) : r = QueryRead(s, u, u + 1)
      BY <2>3
    <3>2. u \in Nat /\ u + 1 \in Nat /\ u <= last
      BY <2>1
    <3>3. QED BY <3>1, <3>2, QueryReadOk DEF last
  <2>4. CASE r = WikipediaMiss(Missing(s))
    BY <2>4, MissingOk, WikipediaMissOk DEF WikiScan
  <2>5. QED BY <1>2, <2>2, <2>3, <2>4 DEF WikipediaReads, last
<1>3. QED BY <1>1, <1>2

LEMMA StatsNextOk ==
    ASSUME NEW s, ScanOk(s), s.p = "tactics", NEW l, NEW nexts, NEW r \in StatsNext(s, l, nexts)
    PROVE  ScanOk(r)
<1>1. PICK next \in nexts : r = StatsDone([s EXCEPT !.mem.asked[l] = next])
  BY DEF StatsNext
<1> DEFINE t == [s EXCEPT !.mem.asked[l] = next]
<1>2. GoesOn(s, t) /\ t.found = s.found
  BY DEF GoesOn, ScanOk
<1> HIDE DEF t
<1>3. MemOk(s.p, s.site, s.clubs, t.mem)
  BY DEF MemOk
<1>4. ScanOk(t)
  BY <1>2, <1>3, StaysOk DEF ScanOk
<1>5. QED BY <1>1, <1>4, DoneOk, NoBatch DEF StatsDone, t

LEMMA PageReadOk ==
    ASSUME NEW s, ScanOk(s), s.p \in {"sortitoutsi", "besoccer"} \/ s.p \notin Range(Providers)
    PROVE  ScanOk(PageRead(s))
<1>1. CASE s.p = "sortitoutsi"
  <2>1. IsTable(s.site) /\ \A b \in Range(s.site) : b.starts \in Nat
    BY <1>1 DEF ScanOk, IsSite
  <2>2. QED BY <1>1, <2>1, SignalMovesOk, DoneOk DEF PageRead
<1>2. CASE s.p # "sortitoutsi"
  <2>1. IsTable(<<>>)
    BY DEF IsTable, Range
  <2>2. IsTable(s.site)
    BY <1>2, <2>1 DEF ScanOk, IsSite
  <2>3. QED BY <1>2, <2>2, BesoccerMovesOk, DoneOk DEF PageRead
<1>3. QED BY <1>1, <1>2

LEMMA ProvidersAre ==
    Range(Providers) = {"feed", "wikipedia", "sortitoutsi", "transfermarkt",
                        "besoccer", "sofascore", "soccerway", "tactics"}
BY DEF Providers, Range

LEMMA ReadsOk ==
    ASSUME NEW s, ScanOk(s), NEW r \in Reads(s)
    PROVE  ScanOk(r)
<1>1. CASE s.p = "feed"
  BY <1>1, FeedReadOk DEF Reads
<1>2. CASE s.p = "transfermarkt"
  BY <1>2, MarketReadOk DEF Reads
<1>3. CASE s.p = "sofascore"
  BY <1>3, SofascoreReadOk DEF Reads
<1>4. CASE s.p = "soccerway"
  BY <1>4, SoccerwayReadOk DEF Reads, Looking
<1>5. CASE s.p = "wikipedia"
  BY <1>5, WikipediaReadsOk DEF Reads, WikiScan
<1>6. CASE s.p = "tactics"
  BY <1>6, StatsNextOk DEF Reads, StatsReads
<1>7. CASE s.p \in {"sortitoutsi", "besoccer"} \/ s.p \notin Range(Providers)
  BY <1>7, ProvidersAre, PageReadOk DEF Reads
<1>8. QED BY <1>1, <1>2, <1>3, <1>4, <1>5, <1>6, <1>7, ProvidersAre

LEMMA MissesOk ==
    ASSUME NEW s, ScanOk(s), NEW why, NEW r \in Misses(s, why)
    PROVE  ScanOk(r)
<1> DEFINE m == Missing(s)
<1>1. ScanOk(m) /\ m.p = s.p /\ m.mem = s.mem
  BY MissingOk
<1> HIDE DEF m
<1>2. CASE s.p = "transfermarkt"
  <2>1. r = MarketNext(m, why)
    BY <1>2 DEF Misses, m
  <2>2. QED BY <1>1, <1>2, <2>1, MarketNextOk
<1>3. CASE s.p = "sofascore"
  <2>1. r = SofascoreNext(m)
    BY <1>3 DEF Misses, m
  <2>2. QED BY <1>1, <1>3, <2>1, SofascoreNextOk
<1>4. CASE s.p = "soccerway"
  <2>1. \E i \in Looking(m) : r = SoccerwayMiss(m, i)
    BY <1>4 DEF Misses, m
  <2>2. QED BY <1>1, <1>4, <2>1, SoccerwayMissOk DEF Looking
<1>5. CASE s.p = "wikipedia" /\ why = "failed"
  <2>1. r = WikipediaMiss(m)
    BY <1>5 DEF Misses, m
  <2>2. QED BY <1>1, <1>5, <2>1, WikipediaMissOk DEF WikiScan
<1>6. CASE s.p = "tactics" /\ why = "failed"
  <2>1. r \in StatsMisses(m)
    BY <1>6 DEF Misses, m
  <2>2. QED BY <1>1, <1>6, <2>1, StatsNextOk DEF StatsMisses
<1>7. CASE ~ \/ s.p \in {"transfermarkt", "sofascore", "soccerway"}
             \/ s.p \in {"wikipedia", "tactics"} /\ why = "failed"
  <2>1. r = Broken(m, why)
    BY <1>7 DEF Misses, m
  <2>2. QED BY <1>1, <2>1, BrokenOk
<1>8. QED BY <1>2, <1>3, <1>4, <1>5, <1>6, <1>7

LEMMA TargetClubsOk ==
    ASSUME NEW ts, ts \in Seq(Range(ts))
    PROVE  /\ TargetClubs(ts) \in Seq(Range(TargetClubs(ts)))
           /\ "" \notin Range(TargetClubs(ts))
<1> DEFINE Of(t) == IF t.to \in NonClubs THEN t.from ELSE t.to
           S == {t \in Range(ts) : t.day # 0 /\ Of(t) # "" /\ Of(t) \notin NonClubs}
           named == Keep(ts, S)
           clubs == [i \in DOMAIN named |-> Of(named[i])]
<1>1. Len(named) \in Nat /\ DOMAIN named = 1 .. Len(named) /\ \A i \in DOMAIN named : named[i] \in S
  BY KeptRows
<1>2. \A i \in DOMAIN named : clubs[i] # ""
  BY <1>1
<1> HIDE DEF S, named, Of
<1>3. DOMAIN clubs = 1 .. Len(named) /\ "" \notin Range(clubs)
  BY <1>1, <1>2 DEF Range
<1> HIDE DEF clubs
<1>4. Firsts(clubs, clubs) \in Seq(Range(clubs))
  BY <1>1, <1>3, FirstsOk
<1>5. TargetClubs(ts) = Firsts(clubs, clubs)
  BY DEF TargetClubs, clubs, named, S, Of
<1>6. QED BY <1>3, <1>4, <1>5, SeqRange

LEMMA FreshScan ==
    ASSUME NEW p \in Range(Providers), NEW site, IsSite(p, site), NEW r, DOMAIN r = DOMAIN NoScan,
           r.p = p, r.site = site, r.found = <<>>, MemOk(p, site, r.clubs, r.mem)
    PROVE  ScanOk(r)
BY NoBatch DEF ScanOk, NoScan

LEMMA NoRows == WholeRows(<<>>)
BY DEF WholeRows, Range

LEMMA MemIs ==
    ASSUME NEW site, NEW clubs
    PROVE  /\ \A m : DOMAIN m = {"page", "try", "answered", "rows", "seen"} /\ m.rows = <<>> =>
                   MemOk("transfermarkt", site, clubs, m)
           /\ MemOk("sofascore", site, clubs, 1)
           /\ \A m : /\ DOMAIN m = {"phase", "todo", "from", "places", "part", "titles", "names"}
                    /\ m.titles = <<>> /\ m.part = <<>> /\ m.from = 1
                    => MemOk("wikipedia", site, clubs, m)
<1>1. <<>> \in Seq(DOMAIN site.pages) /\ 1 \in Nat \ {0} /\ 1 \in 1 .. Len(Places)
  BY DEF Places
<1>2. QED BY <1>1, NoRows DEF MemOk

LEMMA OpenedOk ==
    ASSUME NEW p \in Range(Providers), NEW site, IsSite(p, site),
           NEW clubs, clubs \in Seq(Range(clubs)), "" \notin Range(clubs), NEW todo
    PROVE  ScanOk(Opened(p, site, clubs, todo))
<1> DEFINE s == [NoScan EXCEPT !.p = p, !.site = site, !.clubs = clubs]
           r == Opened(p, site, clubs, todo)
<1>1. CASE p = "feed"
  <2>1. r = [s EXCEPT !.mem = [page |-> 1, seen |-> {}]]
    BY <1>1 DEF Opened
  <2>2. DOMAIN r = DOMAIN NoScan /\ r.p = p /\ r.site = site /\ r.found = <<>>
    BY <2>1 DEF NoScan
  <2>3. MemOk(p, site, r.clubs, r.mem)
    BY <1>1 DEF MemOk
  <2>4. QED BY <2>2, <2>3, FreshScan
<1>2. CASE p = "transfermarkt"
  <2> DEFINE m == [page |-> 1, try |-> 1, answered |-> FALSE, rows |-> <<>>, seen |-> {}]
  <2>1. r = [s EXCEPT !.mem = m]
    BY <1>2 DEF Opened
  <2>2. DOMAIN m = {"page", "try", "answered", "rows", "seen"} /\ m.rows = <<>>
    OBVIOUS
  <2>3. MemOk(p, site, clubs, m)
    <3> HIDE DEF m, s, r
    <3>1. QED BY <1>2, <2>2, MemIs
  <2> HIDE DEF m
  <2>4. DOMAIN r = DOMAIN NoScan /\ r.p = p /\ r.site = site /\ r.found = <<>> /\ r.clubs = clubs /\ r.mem = m
    BY <2>1 DEF NoScan
  <2>5. QED BY <2>3, <2>4, FreshScan
<1>3. CASE p = "sofascore"
  <2> DEFINE t == [s EXCEPT !.mem = 1]
  <2>1. r = IF clubs = <<>> THEN Done(t, <<>>) ELSE t
    BY <1>3 DEF Opened
  <2>2. DOMAIN t = DOMAIN NoScan /\ t.p = p /\ t.site = site /\ t.found = <<>> /\ t.mem = 1
    BY DEF NoScan
  <2> HIDE DEF t
  <2>3. MemOk(p, site, t.clubs, t.mem)
    <3> HIDE DEF r
    <3>1. QED BY <1>3, <2>2, MemIs
  <2>4. ScanOk(t)
    BY <2>2, <2>3, FreshScan
  <2>5. QED BY <2>1, <2>4, NoBatch, DoneOk
<1>4. CASE p = "soccerway"
  <2> DEFINE S == {c \in Range(clubs) : c \notin NonClubs}
             searched == Keep(clubs, S)
             m == [i \in DOMAIN searched |-> [at |-> "search", page |-> 1, id |-> 0, moves |-> <<>>]]
             t == [s EXCEPT !.clubs = searched, !.mem = m]
  <2>1. r = SoccerwayDone(t)
    BY <1>4 DEF Opened
  <2>2. Len(searched) \in Nat /\ DOMAIN searched = 1 .. Len(searched) /\ \A i \in DOMAIN searched : searched[i] \in S
    BY KeptRows
  <2>3. \A c \in S : c # ""
    OBVIOUS
  <2>4. ClubMem([at |-> "search", page |-> 1, id |-> 0, moves |-> <<>>])
    BY NoBatch DEF ClubMem
  <2> HIDE DEF S, searched
  <2>5. MemOk(p, site, searched, m)
    <3>1. DOMAIN m = 1 .. Len(searched) /\ \A i \in 1 .. Len(searched) : searched[i] # "" /\ ClubMem(m[i])
      BY <2>2, <2>3, <2>4
    <3> HIDE DEF m
    <3>2. QED BY <1>4, <2>2, <3>1 DEF MemOk
  <2> HIDE DEF m
  <2>6. /\ DOMAIN t = DOMAIN NoScan /\ t.p = p /\ t.site = site /\ t.found = <<>>
        /\ t.clubs = searched /\ t.mem = m
    BY DEF NoScan
  <2> HIDE DEF t
  <2>7. ScanOk(t)
    BY <2>5, <2>6, FreshScan
  <2>8. QED BY <1>4, <2>1, <2>6, <2>7, SoccerwayDoneOk
<1>5. CASE p = "wikipedia"
  <2> DEFINE m == [phase |-> "category", todo |-> todo, from |-> 1, places |-> {}, part |-> <<>>,
                   titles |-> <<>>, names |-> <<>>]
  <2>1. r = [s EXCEPT !.mem = m]
    BY <1>5 DEF Opened
  <2>2. MemOk(p, site, clubs, m)
    <3>1. /\ DOMAIN m = {"phase", "todo", "from", "places", "part", "titles", "names"}
          /\ m.titles = <<>> /\ m.part = <<>> /\ m.from = 1
      OBVIOUS
    <3> HIDE DEF m, s, r
    <3>2. QED BY <1>5, <3>1, MemIs
  <2> HIDE DEF m
  <2>3. DOMAIN r = DOMAIN NoScan /\ r.p = p /\ r.site = site /\ r.found = <<>> /\ r.clubs = clubs /\ r.mem = m
    BY <2>1 DEF NoScan
  <2>4. QED BY <2>2, <2>3, FreshScan
<1>6. CASE p \in {"sortitoutsi", "besoccer", "tactics"}
  <2>1. r = s
    BY <1>6 DEF Opened
  <2>2. DOMAIN r = DOMAIN NoScan /\ r.p = p /\ r.site = site /\ r.found = <<>>
    BY <2>1 DEF NoScan
  <2>3. MemOk(p, site, r.clubs, r.mem)
    BY <1>6 DEF MemOk
  <2>4. QED BY <2>2, <2>3, FreshScan
<1>7. QED BY <1>1, <1>2, <1>3, <1>4, <1>5, <1>6, ProvidersAre

LEMMA OpenStatsOk ==
    ASSUME NEW site, NEW targets, NEW cache, NEW n
    PROVE  ScanOk(OpenStats(site, targets, cache, n))
<1> DEFINE m == [now |-> n, targets |-> targets, asked |-> AskedFor(Range(targets), cache, n)]
           t == [NoScan EXCEPT !.p = "tactics", !.site = site, !.mem = m]
<1>1. OpenStats(site, targets, cache, n) = StatsDone(t)
  BY DEF OpenStats
<1> HIDE DEF m
<1>2. DOMAIN t = DOMAIN NoScan /\ t.p = "tactics" /\ t.site = site /\ t.found = <<>>
  BY DEF NoScan
<1>3. "tactics" \in Range(Providers) /\ IsSite("tactics", site) /\ MemOk("tactics", site, t.clubs, t.mem)
  BY ProvidersAre DEF IsSite, MemOk
<1> HIDE DEF t
<1>4. ScanOk(t)
  BY <1>2, <1>3, FreshScan
<1>5. QED BY <1>1, <1>4, NoBatch, DoneOk DEF StatsDone

LEMMA NoScanOk == ScanOk(NoScan)
<1>1. "none" \notin Range(Providers)
  BY ProvidersAre
<1>2. QED BY <1>1, NoBatch DEF ScanOk, NoScan, MemOk, IsSite

-----------------------------------------------------------------------------
(* The batches of a scrape: what the clubs' pages and each scan so far have *)
(* reported, and the scan at work.                                         *)
StageOk ==
    /\ stage \in 0 .. Over
    /\ req[Source].at = "check" => stage # 0
Fed == StageOk /\ BatchesOk /\ ScanOk(scan)

LEMMA NoneReported == IsBatch(<<>>) /\ ScanOk(NoScan) /\ Resting[Source].at = "off" /\ Off.at = "off"
BY NoBatch, NoScanOk, SourceTask DEF Resting, Off

LEMMA NoBatchesOk == ASSUME batches' = NoBatches PROVE BatchesOk'
BY NoBatch DEF NoBatches, BatchesOk

LEMMA BatchTaken ==
    ASSUME BatchesOk, NEW p, NEW b, IsBatch(b), batches' = [batches EXCEPT ![p] = b]
    PROVE  BatchesOk'
BY DEF BatchesOk

LEMMA StillFed ==
    ASSUME Fed, UNCHANGED <<scan, batches, stage>>, req'[Source].at = "check" => req[Source].at = "check"
    PROVE  Fed'
BY DEF Fed, StageOk, BatchesOk

LEMMA LeaveFed ==
    ASSUME NEW why, Leave(why), BatchesOk', ScanOk(scan')
    PROVE  Fed'
<1>1. stage' = Over /\ req' = Resting
  BY DEF Leave
<1>2. QED BY <1>1, NoneReported, OverIsAStage DEF Fed, StageOk

LEMMA EndFed ==
    ASSUME BatchesOk, NEW why, End(why), UNCHANGED batches
    PROVE  Fed'
<1>1. Leave(why) /\ scan' = NoScan /\ BatchesOk'
  BY DEF End, BatchesOk
<1>2. QED BY <1>1, NoneReported, LeaveFed

LEMMA GoOnFed ==
    ASSUME stage \in 0 .. Over, stage # Over, NEW found, NEW s, ScanOk(s), GoOn(found, s), BatchesOk'
    PROVE  Fed'
<1>1. scan' = s
  BY DEF GoOn
<1> DEFINE over == After(stage) = Over \/ (After(stage) = Tactics /\ ~(Plan.tactics /\ Plan.clubs # {}))
<1>2. CASE over
  BY <1>1, <1>2, LeaveFed DEF GoOn
<1>3. CASE ~over
  <2>1. stage' = After(stage)
    BY <1>3 DEF GoOn
  <2>2. After(stage) \in 1 .. Over
    BY OverIsAStage DEF After
  <2>3. QED BY <1>1, <2>1, <2>2, OverIsAStage DEF Fed, StageOk
<1>4. QED BY <1>2, <1>3

LEMMA ProceedFed ==
    ASSUME Fed, stage # Over, NEW s, ScanOk(s), Proceed(s)
    PROVE  Fed'
<1>1. CASE s.end = "no"
  <2>1. scan' = s /\ UNCHANGED <<stage, batches>> /\ req' = [Resting EXCEPT ![Source].at = "try"]
    BY <1>1 DEF Proceed
  <2>2. req'[Source].at = "try"
    BY <2>1, SourceTask DEF Resting, Off
  <2>3. QED BY <2>1, <2>2 DEF Fed, StageOk, BatchesOk
<1>2. CASE s.end # "no" /\ (s.end = "done" \/ (s.end = "failed" /\ s.p # "feed"))
  <2> DEFINE found == [batches EXCEPT ![s.p] = s.found]
  <2>1. GoOn(found, s)
    BY <1>2 DEF Proceed
  <2>2. batches' = found
    BY <2>1 DEF GoOn
  <2>3. IsBatch(s.found)
    BY DEF ScanOk
  <2>4. BatchesOk'
    BY <2>2, <2>3, BatchTaken DEF Fed
  <2> HIDE DEF found
  <2>5. QED BY <2>1, <2>4, GoOnFed DEF Fed, StageOk
<1>3. CASE s.end # "no" /\ ~(s.end = "done" \/ (s.end = "failed" /\ s.p # "feed"))
  BY <1>3, EndFed DEF Proceed, Fed
<1>4. QED BY <1>1, <1>2, <1>3

LEMMA FailFed ==
    ASSUME Fed, TasksOk, stage # Over, NEW t \in Tasks, NEW why, Fail(t, why)
    PROVE  Fed'
<1>1. CASE t = Source
  <2>1. PICK s \in Misses(scan, why) : Proceed(s)
    BY <1>1 DEF Fail
  <2>2. QED BY <2>1, MissesOk, ProceedFed DEF Fed
<1>2. CASE t # Source /\ req[t].want = "sheet" /\ why = "failed"
  <2>1. UNCHANGED <<scan, batches, stage>> /\ req' = [req EXCEPT ![t] = Served(req[t], NoForm)]
    BY <1>2 DEF Fail
  <2>2. req'[Source] = req[Source]
    BY <1>2, <2>1, SourceTask DEF TasksOk
  <2>3. QED BY <2>1, <2>2, StillFed
<1>3. CASE t # Source /\ ~(req[t].want = "sheet" /\ why = "failed")
  BY <1>3, EndFed DEF Fail, Fed
<1>4. QED BY <1>1, <1>2, <1>3

LEMMA ClubIsNoSource == ASSUME NEW c \in Clubs PROVE c \in Tasks /\ c # Source
BY FetchAssumption DEF Tasks

\* Steps of the token, the world and the clubs.
LEMMA ElsewhereFed ==
    ASSUME Fed, TasksOk,
           \/ RequestCancel \/ StoreFlag \/ NotifyWaiters \/ Tick
           \/ \E t \in Tasks : Look(t)
           \/ \E c \in Clubs : TakeSlot(c) \/ Rest(c) \/ AnswerTeam(c) \/ AnswerSheet(c) \/ GoLive(c)
    PROVE  Fed'
<1>1. UNCHANGED <<scan, batches, stage>> /\ req'[Source] = req[Source]
  <2>1. CASE \/ RequestCancel \/ StoreFlag \/ NotifyWaiters \/ Tick
             \/ (\E t \in Tasks : Look(t)) \/ \E c \in Clubs : GoLive(c)
    BY <2>1 DEF RequestCancel, StoreFlag, NotifyWaiters, Tick, Look, GoLive
  <2>2. ASSUME NEW c \in Clubs, TakeSlot(c) \/ Rest(c) \/ AnswerTeam(c) \/ AnswerSheet(c)
        PROVE  UNCHANGED <<scan, batches, stage>> /\ req'[Source] = req[Source]
    <3>1. UNCHANGED <<scan, batches, stage>> /\ \E r : req' = [req EXCEPT ![c] = r]
      <4>1. CASE TakeSlot(c)
        BY <4>1 DEF TakeSlot
      <4>2. CASE Rest(c)
        <5>1. req' = [req EXCEPT ![c] = [req[c] EXCEPT !.at = "done"]]
          BY <4>2 DEF Rest
        <5>2. QED BY <4>2, <5>1 DEF Rest
      <4>3. CASE AnswerTeam(c)
        BY <4>3 DEF AnswerTeam
      <4>4. CASE AnswerSheet(c)
        BY <4>4 DEF AnswerSheet
      <4>5. QED BY <2>2, <4>1, <4>2, <4>3, <4>4
    <3>2. QED BY <3>1, ClubIsNoSource, SourceTask DEF TasksOk
  <2>3. QED BY <2>1, <2>2
<1>2. QED BY <1>1, StillFed

\* A request goes to its next state, or fails.
LEMMA RequestFed ==
    ASSUME Fed, TasksOk, NEW t \in Tasks, req[t].at # "off",
           \/ Try(t) \/ Acquire(t) \/ Interrupted(t) \/ Refused(t) \/ NoAnswer(t) \/ WakeUp(t)
    PROVE  Fed'
<1>1. stage # Over
  BY NotOver
<1>2. CASE \E why : Fail(t, why)
  BY <1>1, <1>2, FailFed
<1>3. CASE \A why : ~Fail(t, why)
  <2>1. UNCHANGED <<scan, batches, stage>> /\ \E at \in {"permit", "sent", "backoff", "try"} :
            \/ req' = [req EXCEPT ![t].at = at]
            \/ req' = [req EXCEPT ![t].at = at, ![t].tries = @ + 1]
    BY <1>3 DEF Try, Acquire, Interrupted, Refused, NoAnswer, WakeUp
  <2>2. req[t] \in Requests /\ req \in [Tasks -> Requests]
    BY DEF TasksOk
  <2>3. req'[Source].at = "check" => req[Source].at = "check"
    BY <2>1, <2>2, SourceTask DEF Requests
  <2>4. QED BY <2>1, <2>3, StillFed
<1>4. QED BY <1>2, <1>3

LEMMA InitFed == Init => Fed
<1> SUFFICES ASSUME Init PROVE Fed
  OBVIOUS
<1>1. stage = Over /\ req = Resting /\ scan = NoScan /\ batches = NoBatches
  BY DEF Init
<1>2. BatchesOk
  BY <1>1, NoBatch DEF NoBatches, BatchesOk
<1>3. QED BY <1>1, <1>2, NoneReported, OverIsAStage DEF Fed, StageOk

LEMMA StartScrapeFed == ASSUME TasksOk, StartScrape PROVE Fed'
<1>1. stage' = 0 /\ req' = Resting /\ scan' = NoScan /\ batches' = NoBatches
  BY DEF StartScrape, TasksOk
<1>2. QED BY <1>1, NoBatchesOk, NoneReported, OverIsAStage DEF Fed, StageOk

LEMMA OpenClubsFed == ASSUME Fed, WorldOk, OpenClubs PROVE Fed'
<1>1. CASE Cancelled
  BY <1>1, EndFed DEF OpenClubs, Fed
<1>2. CASE ~Cancelled
  <2>1. UNCHANGED <<scan, batches, stage>>
        /\ req' = [t \in Tasks |-> IF t \in Plan.clubs THEN [Off EXCEPT !.at = "slot"] ELSE Off]
    BY <1>2 DEF OpenClubs
  <2>2. Source \notin Plan.clubs
    BY PlanOk, FetchAssumption
  <2>3. req'[Source] = Off
    BY <2>1, <2>2, SourceTask
  <2>4. QED BY <2>1, <2>3, NoneReported, StillFed
<1>3. QED BY <1>1, <1>2

LEMMA ClubsDoneFed == ASSUME Fed, WorldOk, ClubsDone PROVE Fed'
<1>1. PICK found \in Plan.reports : GoOn([batches EXCEPT !["clubs"] = found], NoScan)
  BY DEF ClubsDone
<1>2. IsBatch(found)
  BY PlanOk, SitesAssumption DEF IsBatch
<1>3. batches' = [batches EXCEPT !["clubs"] = found]
  BY <1>1 DEF GoOn
<1>4. BatchesOk'
  BY <1>2, <1>3, BatchTaken DEF Fed
<1>5. stage \in 0 .. Over /\ stage # Over
  BY OverIsAStage DEF ClubsDone, Fed, StageOk
<1>6. QED BY <1>1, <1>4, <1>5, NoneReported, GoOnFed

LEMMA CheckFed == ASSUME Fed, WorldOk, TasksOk, Check PROVE Fed'
<1>1. CASE Cancelled
  BY <1>1, EndFed DEF Check, Fed
<1>2. CASE ~Cancelled
  <2> DEFINE p == Providers[stage]
             clubs == TargetClubs(batches["clubs"])
             todo == Categories(Plan.year, Plan.month, Plan.since, Plan.window)
  <2>1. PICK site \in Plan.sites[p] :
            Proceed(IF stage = Tactics THEN OpenStats(site, Targets, stats, now)
                    ELSE Opened(p, site, clubs, todo))
    BY <1>2 DEF Check
  <2>2. stage # Over
    BY SourceTask, NotOver DEF Check
  <2>3. p \in Range(Providers)
    <3>1. stage \in 1 .. Len(Providers)
      BY <2>2 DEF Check, Fed, StageOk, Over, Providers
    <3>2. QED BY <3>1 DEF Range, Providers
  <2> HIDE DEF p, todo
  <2>4. IsSite(p, site)
    BY <2>3, PlanOk, SitesAssumption
  <2>5. clubs \in Seq(Range(clubs)) /\ "" \notin Range(clubs)
    <3>1. IsBatch(batches["clubs"])
      BY BatchNames DEF Fed
    <3>2. QED BY <3>1, TargetClubsOk DEF IsBatch
  <2> HIDE DEF clubs
  <2>6. ScanOk(OpenStats(site, Targets, stats, now)) /\ ScanOk(Opened(p, site, clubs, todo))
    BY <2>3, <2>4, <2>5, OpenedOk, OpenStatsOk
  <2>7. QED BY <2>1, <2>2, <2>6, ProceedFed
<1>3. QED BY <1>1, <1>2

LEMMA AnswerFed == ASSUME Fed, TasksOk, AnswerSource \/ Deadline PROVE Fed'
<1>1. stage # Over
  <2>1. req[Source].at # "off"
    BY DEF AnswerSource, Deadline
  <2>2. QED BY <2>1, SourceTask, NotOver
<1>2. CASE AnswerSource
  <2>1. PICK s \in Reads(scan) : Proceed(s)
    BY <1>2 DEF AnswerSource
  <2>2. QED BY <1>1, <2>1, ReadsOk, ProceedFed DEF Fed
<1>3. CASE Deadline
  <2>1. scan.p = "soccerway" /\ Proceed(OutOfTime(scan))
    BY <1>3 DEF Deadline
  <2>2. QED BY <1>1, <2>1, OutOfTimeOk, ProceedFed DEF Fed
<1>4. QED BY <1>2, <1>3

LEMMA StepFed == IInv /\ Fed /\ [Next]_vars => Fed'
<1> SUFFICES ASSUME IInv, Fed, [Next]_vars PROVE Fed'
  OBVIOUS
<1>0. WorldOk /\ TasksOk /\ EarsOk
  BY DEF IInv
<1>1. ASSUME NEW t \in Tasks, \/ Try(t) \/ Acquire(t) \/ Interrupted(t) \/ Refused(t) \/ NoAnswer(t) \/ WakeUp(t)
      PROVE  Fed'
  <2>1. req[t].at # "off"
    BY <1>0, <1>1 DEF Try, Acquire, Interrupted, Refused, NoAnswer, WakeUp, EarsOk, Waiting
  <2>2. QED BY <1>0, <1>1, <2>1, RequestFed
<1>2. CASE Prompt
  BY <1>0, <1>1, <1>2, OpenClubsFed, ClubsDoneFed, CheckFed, ElsewhereFed DEF Prompt
<1>3. CASE StartScrape \/ RequestCancel \/ AnswerSource \/ Deadline \/ Tick
  BY <1>0, <1>3, StartScrapeFed, ElsewhereFed, AnswerFed
<1>4. CASE Crash
  BY <1>4, EndFed DEF Crash, Fed
<1>5. CASE \E c \in Clubs : AnswerTeam(c) \/ AnswerSheet(c) \/ Rest(c) \/ GoLive(c)
  BY <1>0, <1>5, ElsewhereFed
<1>6. CASE \E t \in Tasks : Refused(t) \/ NoAnswer(t) \/ WakeUp(t)
  BY <1>1, <1>6
<1>7. CASE UNCHANGED vars
  BY <1>7, StillFed DEF vars
<1>8. QED BY <1>2, <1>3, <1>4, <1>5, <1>6, <1>7 DEF Next

(* "An unmatched route becomes an event only when at least two independent *)
(* corroborating sources agree" (reconcile.rs:6-8), for any providers and  *)
(* whatever they answer: each event a scrape hands on is a complete route, *)
(* a signal with a date of its own or the word of two sources, and each    *)
(* source it names reported that player at that club.                      *)
THEOREM NothingIsInvented == Spec => []NothingInvented
<1>1. Spec => []Fed
  BY InitFed, StepFed, CacheIsSound, PTL DEF Spec
<1>2. Fed => NothingInvented
  BY NothingInventedOf DEF Fed
<1>3. QED BY <1>1, <1>2, PTL
=============================================================================
