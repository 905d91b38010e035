------------------------------- MODULE Fetch -------------------------------
(***************************************************************************)
(* The fetch stage of an update (fl-engine/src/scrape.rs): the club pages, *)
(* several at a time, then the providers one after the other, then the     *)
(* reconciliation of what they reported. Every request goes through the    *)
(* client of fl-sources/src/http.rs: a permit per host, retries with       *)
(* back-off, and a cancel token another thread may trip at any moment.     *)
(* TeamCache holds what a scrape does to the cached documents, Scans how   *)
(* each provider is read, Listings what its answers say, and Reconcile     *)
(* what becomes of the reported transfers.                                 *)
(***************************************************************************)
EXTENDS TeamCache, ScanPromises

CONSTANTS
    Clubs,        \* clubs with a FotMob page
    Source,       \* the request of the one provider read at a time
    Form,         \* the formation each match page shows, or NoForm
    LeagueIn,     \* the primary league each document names, 0 for none
    NeedsSheet,   \* complete squads whose document has no formation
    ClubPermits,  \* clubs fetched at once (club_concurrency)
    HostPermits,  \* requests to a host at once (default_concurrency)
    Attempts,     \* max_attempts of the retry policy
    ApiAttempts,  \* API_ATTEMPTS of the Wikipedia client (4)
    Agendas,      \* sequences of scrapes to run: the clubs, whether they were
                  \* asked for by name, whether tactics are wanted, the
                  \* year, month and window they are for, and what the clubs' pages and the
                  \* sites of the providers may hold meanwhile
    InitialDocs,  \* the documents that are live at first
    InitialDisks, \* what earlier runs left in the cache directory
    MaxNow        \* bound on the clock

\* What is asked of some scrape.
Asked == UNION {Range(a) : a \in Agendas}

\* The match pages of the documents, and what the cache may know of one.
MatchPages == {PageOf[d] : d \in Docs}
Sheets == {NoSheet} \cup {[page |-> p, form |-> Form[p]] : p \in MatchPages}
CacheEntries == [doc : Docs, tag : Docs \cup {NoTag}, at : Int, sheet : Sheets]

ASSUME FetchAssumption ==
    /\ {ClubPermits, HostPermits, Attempts, ApiAttempts} \subseteq Nat \ {0}
    /\ Source \notin Clubs
    /\ Agendas \subseteq Seq(Asked) /\ <<>> \notin Agendas
    /\ \A s \in Asked : s.clubs \subseteq Clubs
    /\ InitialDocs \subseteq [Clubs -> Docs]

\* An earlier run kept a document that was live when it was read, or later
\* gave way to another.
ASSUME InitialDisksAssumption ==
    \A files \in InitialDisks :
        /\ DOMAIN files = Clubs
        /\ \A c \in {x \in Clubs : files[x] \notin {NoEntry, Foreign}} :
               LET e == files[c]
               IN  /\ e \in CacheEntries /\ e.tag = TagOf(e.doc) /\ e.at <= 0
                   /\ \A docs \in InitialDocs :
                          e.doc # docs[c] => e.doc < docs[c] /\ e.doc + 1 \in Docs

Providers == <<"feed", "wikipedia", "sortitoutsi", "transfermarkt",
               "besoccer", "sofascore", "soccerway", "tactics">>

\* The parser of FotMob's pages drops an item without a player, and gives one
\* without a club a name for that.
ASSUME SitesAssumption ==
    \A s \in Asked :
        /\ \A found \in s.reports : found \in Seq(Range(found)) /\ \A t \in Range(found) : IsReport(t)
        /\ DOMAIN s.sites = Range(Providers)
        /\ \A p \in Range(Providers) : \A site \in s.sites[p] : IsSite(p, site)

Tactics == Len(Providers)
Over == Len(Providers) + 1
Tasks == Clubs \cup {Source}

VARIABLES
    now, live, since,  \* the clock; each club's live document; since when each
                       \* of its documents is live
    disk,              \* the cache directory of the clubs' pages
    stats,             \* the cache of the leagues' statistics
    agenda,            \* the scrapes still to run, the current one first
    token,             \* the cancel token: "idle", then "requested", then the
                       \* client's flag is "stored", then waiters are "told"
    stage,             \* 0 for the clubs, a position in Providers, or Over
    req,               \* what each task is doing
    ear,               \* how a waiting task listens to the token
    entries, dirty,    \* the cache in memory
    squads,            \* what the club pages gave
    scan,              \* how far the current provider is read
    batches,           \* what each provider reported
    outcome

world == <<now, live, since, agenda>>
vars == <<now, live, since, disk, stats, agenda, token, stage, req, ear, entries, dirty, squads, scan, batches, outcome>>

Plan == Head(agenda)
Off == [at |-> "off", want |-> "team", tries |-> 0, net |-> FALSE, doc |-> 0, form |-> NoForm]
Resting == [t \in Tasks |-> Off]
Deaf == [t \in Tasks |-> "deaf"]
NoEntries == [c \in Clubs |-> NoEntry]
NoBatches == [p \in {"clubs"} \cup Range(Providers) |-> <<>>]

Init ==
    /\ now = 0 /\ live \in InitialDocs /\ since = [c \in Clubs |-> [d \in Docs |-> 0]]
    /\ disk \in InitialDisks /\ stats = <<>> /\ agenda \in Agendas
    /\ token = "idle" /\ stage = Over
    /\ req = Resting /\ ear = Deaf
    /\ entries = NoEntries /\ dirty = {}
    /\ squads = <<>> /\ scan = NoScan /\ batches = NoBatches /\ outcome = "none"

----------------------------------------------------------------------------
\* The cancel token, tripped by the thread of the front end.
Flagged == token \in {"stored", "told"}

RequestCancel ==
    /\ stage # Over /\ token = "idle"
    /\ token' = "requested"
    /\ UNCHANGED <<world, disk, stats, stage, req, ear, entries, dirty, squads, scan, batches, outcome>>

StoreFlag ==
    /\ token = "requested"
    /\ token' = "stored"
    /\ UNCHANGED <<world, disk, stats, stage, req, ear, entries, dirty, squads, scan, batches, outcome>>

\* Wakes who is registered now, and nobody later.
NotifyWaiters ==
    /\ token = "stored"
    /\ token' = "told"
    /\ ear' = [t \in Tasks |-> IF ear[t] = "listening" THEN "woken" ELSE ear[t]]
    /\ UNCHANGED <<world, disk, stats, stage, req, entries, dirty, squads, scan, batches, outcome>>

\* cancelled(): register first, then look at the flag, then wait.
\* Mutant: the flag is not looked at once registered.
LookNever(t) ==
    /\ ear[t] = "open"
    /\ ear' = [ear EXCEPT ![t] = "listening"]
    /\ UNCHANGED <<world, disk, stats, token, stage, req, entries, dirty, squads, scan, batches, outcome>>
Look(t) ==
    /\ ear[t] = "open"
    /\ ear' = [ear EXCEPT ![t] = IF Flagged THEN "woken" ELSE "listening"]
    /\ UNCHANGED <<world, disk, stats, token, stage, req, entries, dirty, squads, scan, batches, outcome>>

----------------------------------------------------------------------------
\* How a scrape goes on or ends.
Leave(why) ==
    /\ outcome' = why /\ stage' = Over
    /\ req' = Resting /\ ear' = Deaf
    /\ entries' = NoEntries /\ dirty' = {}

End(why) == Leave(why) /\ scan' = NoScan

\* After the clubs of a scrape that named them no other provider is read.
After(s) == IF s = 0 /\ Plan.named THEN Tactics ELSE s + 1

\* The transfers a scrape hands on.
CompleteBatches ==
    <<batches["clubs"], batches["feed"], Dated(batches["wikipedia"]), batches["transfermarkt"]>>

Transfers ==
    IF Plan.named THEN MergeTransfers(batches["clubs"])
    ELSE ReconcileTransferSources(
            CompleteBatches, batches["sortitoutsi"],
            Undated(batches["wikipedia"]) \o batches["besoccer"] \o batches["sofascore"] \o batches["soccerway"])

GoOn(found, s) ==
    /\ batches' = found /\ scan' = s
    /\ IF After(stage) = Over \/ (After(stage) = Tactics /\ ~(Plan.tactics /\ Plan.clubs # {})) THEN Leave("ok")
       ELSE /\ stage' = After(stage)
            /\ req' = [Resting EXCEPT ![Source].at = "check"]
            /\ ear' = Deaf /\ entries' = NoEntries /\ dirty' = {}
            /\ UNCHANGED outcome

\* The clubs' leagues, and what is kept of the statistics once all are read:
\* nothing is read or written for no league, and a write may fail.
Targets == [c \in {x \in DOMAIN squads : LeagueIn[squads[x].doc] # 0} |-> LeagueIn[squads[c].doc]]

KeepStats(s) ==
    IF s.p = "tactics" /\ s.end = "done" /\ Targets # <<>>
    THEN stats' \in {stats, Remembered(stats, s.mem.asked, now)}
    ELSE UNCHANGED stats

\* The next request of a scan, or what its end means: the feed is needed, any
\* other provider is done without.
Proceed(s) ==
    IF s.end = "no"
    THEN /\ scan' = s
         /\ req' = [Resting EXCEPT ![Source].at = "try"]
         /\ ear' = Deaf
         /\ UNCHANGED <<stats, stage, entries, dirty, batches, outcome>>
    ELSE IF s.end = "done" \/ (s.end = "failed" /\ s.p # "feed")
    THEN GoOn([batches EXCEPT ![s.p] = s.found], s) /\ KeepStats(s)
    ELSE End(s.end) /\ UNCHANGED <<stats, batches>>

\* What can be written of the cache is written whether the clubs succeeded or not.
SaveCache(cache, changed) == \E written \in SUBSET changed : disk' = Save(disk, cache, changed, written)

More == Len(agenda) > 1

StartScrape ==
    /\ stage = Over
    /\ IF outcome = "none" THEN UNCHANGED agenda ELSE More /\ agenda' = Tail(agenda)
    /\ stage' = 0 /\ token' = "idle" /\ outcome' = "none"
    /\ squads' = <<>> /\ batches' = NoBatches /\ scan' = NoScan
    /\ UNCHANGED <<now, live, since, disk, stats, req, ear, entries, dirty>>

Cancelled == token # "idle"

OpenClubs ==
    /\ stage = 0 /\ req = Resting
    /\ UNCHANGED <<world, disk, stats, token, squads, batches>>
    /\ IF Cancelled THEN End("cancelled")
       ELSE /\ UNCHANGED scan
            /\ req' = [t \in Tasks |-> IF t \in Plan.clubs THEN [Off EXCEPT !.at = "slot"] ELSE Off]
            /\ entries' = [c \in Clubs |-> Load(disk[c])]
            /\ UNCHANGED <<stage, ear, dirty, outcome>>

----------------------------------------------------------------------------
\* One club: its document, the formation of its latest match, a pause.
Asking(r, want) == [r EXCEPT !.at = "try", !.want = want, !.tries = 0]

Served(r, form) == [r EXCEPT !.form = form, !.at = IF r.net THEN "cooldown" ELSE "done"]

\* Goes on with document d; cache is the entry that holds it.
WithDoc(r, d, cache) ==
    LET got == [r EXCEPT !.doc = d]
    IN  IF d \notin NeedsSheet THEN Served(got, NoForm)
        ELSE IF KnowsSheet(cache, d) THEN Served(got, cache.sheet.form)
        ELSE Asking(got, "sheet")

\* A task that starts to pause opens its ear to the token.
Hearing(r) == IF r.at = "cooldown" THEN "open" ELSE "deaf"

Busy == {c \in Clubs : req[c].at \notin {"off", "slot", "done"}}

TakeSlot(c) ==
    /\ req[c].at = "slot" /\ Cardinality(Busy) < ClubPermits
    /\ req' = [req EXCEPT ![c] = IF Fresh(entries[c], now) THEN WithDoc(@, entries[c].doc, entries[c])
                                 ELSE [Asking(@, "team") EXCEPT !.net = TRUE]]
    /\ UNCHANGED <<world, disk, stats, token, stage, ear, entries, dirty, squads, scan, batches, outcome>>

Rest(c) ==
    /\ req[c].at = "cooldown"
    /\ req' = [req EXCEPT ![c].at = "done"]
    /\ ear' = [ear EXCEPT ![c] = "deaf"]
    /\ UNCHANGED <<world, disk, stats, token, stage, entries, dirty, squads, scan, batches, outcome>>

ClubsDone ==
    /\ stage = 0 /\ req # Resting
    /\ \A c \in Plan.clubs : req[c].at = "done"
    /\ SaveCache(entries, dirty)
    /\ squads' = [c \in Plan.clubs |-> [doc |-> req[c].doc, form |-> req[c].form]]
    /\ \E found \in Plan.reports : GoOn([batches EXCEPT !["clubs"] = found], NoScan)
    /\ UNCHANGED <<world, stats, token>>

----------------------------------------------------------------------------
\* Requests. A club's page is needed, its formation is not; what a provider's
\* request means is up to its scan. A cancelled request ends the scrape unless
\* the scan goes on, and then with the check before the next provider.
Fail(t, why) ==
    IF t = Source
    THEN UNCHANGED disk /\ \E s \in Misses(scan, why) : Proceed(s)
    ELSE IF req[t].want = "sheet" /\ why = "failed"
    THEN /\ req' = [req EXCEPT ![t] = Served(@, NoForm)]
         /\ ear' = [ear EXCEPT ![t] = Hearing(req'[t])]
         /\ UNCHANGED <<disk, stats, stage, entries, dirty, scan, batches, outcome>>
    ELSE End(why) /\ SaveCache(entries, dirty) /\ UNCHANGED <<stats, batches>>

\* The check between two providers.
Check ==
    /\ req[Source].at = "check"
    /\ IF Cancelled THEN End("cancelled") /\ UNCHANGED <<stats, batches>>
       ELSE \E site \in Plan.sites[Providers[stage]] :
                Proceed(IF stage = Tactics THEN OpenStats(site, Targets, stats, now)
                        ELSE Opened(Providers[stage], site, TargetClubs(batches["clubs"]),
                                    Categories(Plan.year, Plan.month, Plan.since, Plan.window)))
    /\ UNCHANGED <<world, disk, token, squads>>

Try(t) ==
    /\ req[t].at = "try"
    /\ IF Flagged THEN Fail(t, "cancelled")
       ELSE /\ req' = [req EXCEPT ![t].at = "permit"]
            /\ UNCHANGED <<disk, stats, stage, ear, entries, dirty, scan, batches, outcome>>
    /\ UNCHANGED <<world, token, squads>>

Sent == {t \in Tasks : req[t].at = "sent"}

\* The wait for a permit does not listen to the token.
Acquire(t) ==
    /\ req[t].at = "permit" /\ Cardinality(Sent) < HostPermits
    /\ req' = [req EXCEPT ![t].at = "sent"]
    /\ ear' = [ear EXCEPT ![t] = "open"]
    /\ UNCHANGED <<world, disk, stats, token, stage, entries, dirty, squads, scan, batches, outcome>>

\* The document, or 304 when the validator sent with the request still names it.
AnswerTeam(c) ==
    /\ req[c].at = "sent" /\ req[c].want = "team"
    /\ \/ entries' = [entries EXCEPT ![c] = Updated(@, live[c], now)]
       \/ /\ Conditional(entries[c]) /\ entries[c].tag = TagOf(live[c])
          /\ entries' = [entries EXCEPT ![c] = Touched(@, now)]
    /\ dirty' = dirty \cup {c}
    /\ req' = [req EXCEPT ![c] = WithDoc(@, entries'[c].doc, entries'[c])]
    /\ ear' = [ear EXCEPT ![c] = Hearing(req'[c])]
    /\ UNCHANGED <<world, disk, stats, token, stage, squads, scan, batches, outcome>>

AnswerSheet(c) ==
    /\ req[c].at = "sent" /\ req[c].want = "sheet"
    /\ LET form == Form[PageOf[req[c].doc]]
       IN  /\ entries' = [entries EXCEPT ![c] = WithSheet(@, req[c].doc, form)]
           /\ req' = [req EXCEPT ![c] = Served(@, form)]
    /\ dirty' = dirty \cup {c}
    /\ ear' = [ear EXCEPT ![c] = Hearing(req'[c])]
    /\ UNCHANGED <<world, disk, stats, token, stage, squads, scan, batches, outcome>>

AnswerSource ==
    /\ req[Source].at = "sent"
    /\ \E s \in Reads(scan) : Proceed(s)
    /\ UNCHANGED <<world, disk, token, squads>>

\* Soccerway as a whole has a deadline.
Deadline ==
    /\ req[Source].at \in {"try", "permit", "sent"} /\ scan.p = "soccerway"
    /\ Proceed(OutOfTime(scan))
    /\ UNCHANGED <<world, disk, token, squads>>

\* An answer of no use, or an error no further attempt can help.
Refused(t) ==
    /\ req[t].at = "sent"
    /\ Fail(t, "failed")
    /\ UNCHANGED <<world, token, squads>>

\* A status or an error worth another attempt, the client's own deadline included.
\* Only FotMob's requests and, for an answer that says so, Wikipedia's are retried.
Limit(t) ==
    IF t = Source /\ Providers[stage] = "wikipedia" THEN ApiAttempts
    ELSE IF t = Source /\ Providers[stage] \notin {"feed", "tactics"} THEN 1 ELSE Attempts

\* Mutant: a retry is not counted.
NoAnswerUncounted(t) ==
    /\ req[t].at = "sent"
    /\ IF req[t].tries + 1 = Limit(t) THEN Fail(t, "failed")
       ELSE /\ req' = [req EXCEPT ![t].at = "backoff"]
            /\ ear' = [ear EXCEPT ![t] = "open"]
            /\ UNCHANGED <<disk, stats, stage, entries, dirty, scan, batches, outcome>>
    /\ UNCHANGED <<world, token, squads>>
NoAnswer(t) ==
    /\ req[t].at = "sent"
    /\ IF req[t].tries + 1 = Limit(t) THEN Fail(t, "failed")
       ELSE /\ req' = [req EXCEPT ![t].at = "backoff", ![t].tries = @ + 1]
            /\ ear' = [ear EXCEPT ![t] = "open"]
            /\ UNCHANGED <<disk, stats, stage, entries, dirty, scan, batches, outcome>>
    /\ UNCHANGED <<world, token, squads>>

WakeUp(t) ==
    /\ req[t].at = "backoff"
    /\ req' = [req EXCEPT ![t].at = "try"]
    /\ ear' = [ear EXCEPT ![t] = "deaf"]
    /\ UNCHANGED <<world, disk, stats, token, stage, entries, dirty, squads, scan, batches, outcome>>

Interrupted(t) ==
    /\ ear[t] = "woken"
    /\ Fail(t, "cancelled")
    /\ UNCHANGED <<world, token, squads>>

----------------------------------------------------------------------------
\* The world between two requests and two scrapes.
GoLive(c) ==
    /\ stage = 0 \/ (stage = Over /\ outcome # "none" /\ More)
    /\ live[c] + 1 \in Docs
    /\ live' = [live EXCEPT ![c] = @ + 1] /\ since' = [since EXCEPT ![c][live[c] + 1] = now]
    /\ UNCHANGED <<now, disk, stats, agenda, token, stage, req, ear, entries, dirty, squads, scan, batches, outcome>>

Tick ==
    /\ stage = Over /\ outcome # "none" /\ More /\ now < MaxNow
    /\ now' = now + 1
    /\ UNCHANGED <<live, since, disk, stats, agenda, token, stage, req, ear, entries, dirty, squads, scan, batches, outcome>>

Crash ==
    /\ stage # Over
    /\ End("crashed")
    /\ UNCHANGED <<world, disk, stats, token, squads, batches>>

\* Steps that wait for no server and no timer.
Prompt ==
    \/ OpenClubs \/ ClubsDone \/ Check \/ StoreFlag \/ NotifyWaiters
    \/ \E c \in Clubs : TakeSlot(c)
    \/ \E t \in Tasks : Try(t) \/ Acquire(t) \/ Look(t) \/ Interrupted(t)

Next ==
    \/ Prompt
    \/ StartScrape \/ RequestCancel \/ AnswerSource \/ Deadline \/ Tick \/ Crash
    \/ \E c \in Clubs : AnswerTeam(c) \/ AnswerSheet(c) \/ Rest(c) \/ GoLive(c)
    \/ \E t \in Tasks : Refused(t) \/ NoAnswer(t) \/ WakeUp(t)

Spec == Init /\ [][Next]_vars /\ WF_vars(Prompt)

----------------------------------------------------------------------------
Current(c, s) ==
    /\ s.doc = live[c] \/ (s.doc < live[c] /\ now - since[c][s.doc + 1] < Ttl)
    /\ s.form \in {NoForm} \cup (IF s.doc \in NeedsSheet THEN {Form[PageOf[s.doc]]} ELSE {})
AllCurrent == \A c \in DOMAIN squads : Current(c, squads[c])

(* What a scrape hands on about a club was live less than the cache's time to
   live ago, and its formation is the one of that document's latest match:
   no failed, revalidated, crashed or half-saved scrape before it makes an old
   document pass for a new one (fotmob/cache.rs:162-255, fotmob/mod.rs:312-459). *)
ResultsAreCurrent == [][squads' # squads => AllCurrent']_vars

(* A cancelled scrape ends even if no server answers and no timer fires:
   the request to cancel reaches every request, every back-off and every pause,
   also the ones that start to wait while it is made (http.rs:577-598, 772-828). *)
CancelEnds == Cancelled ~> stage = Over

(* Every scrape ends if timers fire: a request that is not answered is given
   up at its deadline, retries are counted and the transfer feed has a last
   page (http.rs:798-853, fotmob/mod.rs:218-310). *)
Timed == \E t \in Tasks : NoAnswer(t) \/ WakeUp(t) \/ (t \in Clubs /\ Rest(t))
ScrapeEnds == WF_vars(Timed) => (stage # Over ~> stage = Over)

----------------------------------------------------------------------------
Reports(ps) == UNION {Range(batches[p]) : p \in ps}
Complete == Reports({"clubs", "feed", "transfermarkt"}) \cup Range(Dated(batches["wikipedia"]))
Signals == Reports({"sortitoutsi"})
Routes == Reports({"besoccer", "sofascore", "soccerway"}) \cup Range(Undated(batches["wikipedia"]))

\* Reports of complete routes that are one event before any is compared with
\* another provider's: the player's name stands for the one id it goes with.
OneReport(t, u) ==
    LET all == IF Plan.named THEN batches["clubs"] ELSE Joined(CompleteBatches)
    IN  t = u \/ ({t, u} \subseteq Range(all) /\ EventKey(all, t) = EventKey(all, u))

About(t, e) == (Ids(t) \cap Ids(e) # {} \/ SameName(t.who, e.who)) /\ SameDestination(t, e)

(* "An unmatched route becomes an event only when at least two independent
   corroborating sources agree" (reconcile.rs:6-8): every event a scrape hands
   on is a complete route, a signal with a date of its own, or the word of two
   sources; and each source it names reported that player, or what is one report
   with that, at that club within the tolerance of days. *)
NothingInvented == outcome = "ok" =>
    \A e \in Range(Transfers) :
        /\ \/ \E t \in Complete : About(t, e) /\ Adjacent(t, e)
           \/ \E t \in Signals : About(t, e) /\ Adjacent(t, e) /\ t.own
           \/ Cardinality(UNION {t.src : t \in {u \in Routes : About(u, e) /\ DaysApart(u, e, Window)}}) >= 2
        /\ \A s \in e.src : \E t, u \in Complete \cup Signals \cup Routes :
               s \in t.src /\ About(u, e) /\ DaysApart(u, e, Window) /\ OneReport(t, u)

(* "Drop lower-trust routes that contradict a stronger same-day event"
   (reconcile.rs:663): for each complete route there is an event to its
   destination from a source as strong, or a stronger source gives the player
   another route or type. Except that a route is ranked by the first that
   reports it: an earlier, weaker report of the same route of another type takes
   the stronger one down when another route wins the day. *)
Contradicts(u, t) ==
    SameName(u.who, t.who) /\ Adjacent(u, t) /\ ~(SameRoute(u, t) /\ CompatibleType(u, t))
Shadowed(t) == \E w, u \in Complete :
    /\ SameName(w.who, t.who) /\ SameRoute(w, t) /\ Priority(w) > Priority(t)
    /\ Contradicts(u, t) /\ Priority(u) = Priority(t)
TrustedMovesKept == outcome = "ok" =>
    \A t \in Complete :
        \/ \E e \in Range(Transfers) : About(t, e) /\ Adjacent(t, e) /\ Priority(e) <= Priority(t)
        \/ \E u \in Complete : Contradicts(u, t) /\ Priority(u) < Priority(t)
        \/ Shadowed(t)

(* What a provider shows in the range of dates is what its scan hands on:
   nothing else, dated moves once, and all of it if every request was answered
   and the site keeps the order its reader counts on, however the answers are
   spread over pages, readers, concurrent requests and continued queries
   (transfermarkt.rs:398-520, soccerway.rs:380-592, wikipedia.rs:706-880). *)
ScansAreFaithful == scan.end = "done" => Faithful(scan)
=============================================================================
