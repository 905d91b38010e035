----------------------------- MODULE Reconcile -----------------------------
(***************************************************************************)
(* What becomes of the transfers the providers report: duplicates of one   *)
(* event are merged (merge_transfers of fl-sources/src/model.rs), complete *)
(* routes of several providers are matched, weaker contradicting ones      *)
(* dropped, fast signals and corroborating routes folded in, and routes    *)
(* without an event become one when two independent sources agree          *)
(* (fl-sources/src/reconcile.rs). A transfer is a record of                *)
(*   who, from, to  names, "" when unknown;  day  0 when unknown;          *)
(*   ids            provider |-> player id, 0 when unknown;                *)
(*   type, src (the sources that report it), and own (an effective date of *)
(*   its own, infer_from_current_roster).                                  *)
(* FotMob's club ids, links, fees, ages and positions are left out.        *)
(***************************************************************************)
EXTENDS Integers, FiniteSets, Sequences, SequencesExt, FiniteSetsExt

CONSTANTS
    Alike,     \* pairs {a, b} of names similar enough to be one player or club
    NonClubs,  \* labels such as "Free Agent"
    Window     \* CORROBORATION_DATE_TOLERANCE_DAYS (3)

ASSUME ReconcileAssumption == Window \in Nat \ {0}

\* The items of a sequence that are in S, and sequences one after the other.
\* (SelectSeq and FlattenSeq, in forms that can be reasoned about.)
Keep(items, S) == FoldLeft(LAMBDA kept, x : IF x \in S THEN Append(kept, x) ELSE kept, <<>>, items)
Joined(parts) == FoldLeft(LAMBDA all, part : all \o part, <<>>, parts)

IdSpaces == {"fotmob", "transfermarkt", "sortitoutsi"}
Ids(t) == {<<s, t.ids[s]>> : s \in {x \in IdSpaces : t.ids[x] # 0}}

Rank(s) == IF s = "fotmob" THEN 0 ELSE IF s = "transfermarkt" THEN 1 ELSE IF s = "wikipedia" THEN 2 ELSE 3
Priority(t) == Min({Rank(s) : s \in t.src} \cup {3})

SameName(a, b) == a # "" /\ b # "" /\ (a = b \/ {a, b} \in Alike)
SameSource(s, t) == SameName(s.from, t.from)
SameDestination(s, t) == SameName(s.to, t.to)
SameRoute(s, t) == SameSource(s, t) /\ SameDestination(s, t)

Conflicting(s, t) == \E x \in IdSpaces : s.ids[x] # 0 /\ t.ids[x] # 0 /\ s.ids[x] # t.ids[x]
SamePlayer(s, t) == ~Conflicting(s, t) /\ (Ids(s) \cap Ids(t) # {} \/ SameName(s.who, t.who))

CompatibleSource(s, t) == SameSource(s, t) \/ (s.type = "free" /\ t.type = "free")
CompatibleType(s, t) == s.type = t.type \/ "transfer" \in {s.type, t.type}
DaysApart(s, t, n) == s.day = 0 \/ t.day = 0 \/ (s.day - t.day <= n /\ t.day - s.day <= n)
Adjacent(s, t) == DaysApart(s, t, 1)

Dated(ts) == Keep(ts, {t \in Range(ts) : t.day # 0})
Undated(ts) == Keep(ts, {t \in Range(ts) : t.day = 0})

----------------------------------------------------------------------------
\* Merging one transfer into another.

AdoptedType(t, d) == IF t.type = "transfer" /\ Priority(d) <= Priority(t) THEN d.type ELSE t.type

FilledIds(t, d, spaces) ==
    [x \in IdSpaces |-> IF x \in spaces /\ t.ids[x] = 0 THEN d.ids[x] ELSE t.ids[x]]

MergeDuplicate(t, d) ==
    [t EXCEPT !.type = AdoptedType(t, d), !.src = @ \cup d.src, !.ids = FilledIds(t, d, IdSpaces)]

\* Across providers FotMob's ids are not taken over, and of two free transfers
\* the one that names the previous club gives it.
MergeProvenance(t, d) ==
    LET type == AdoptedType(t, d)
        from == IF type = "free" /\ d.type = "free" /\ t.from \in NonClubs /\ d.from \notin NonClubs
                THEN d.from ELSE t.from
    IN  [t EXCEPT !.type = type, !.src = @ \cup d.src, !.from = from,
                  !.ids = FilledIds(t, d, IdSpaces \ {"fotmob"})]

\* A name stands for the FotMob id it goes with if it goes with only one.
CanonicalPlayer(ts, t) ==
    LET known == {u.ids["fotmob"] : u \in {v \in Range(ts) : v.who = t.who /\ v.ids["fotmob"] # 0}}
    IN  IF t.ids["fotmob"] # 0 THEN <<"id", t.ids["fotmob"]>>
        ELSE IF Cardinality(known) = 1 THEN <<"id", CHOOSE id \in known : TRUE>>
        ELSE <<"name", t.who>>

\* Events of one player, route and day are one, unless both have a type of
\* their own: then each type has its event. A slot is a key and the position
\* of the event it was made for.
EventKey(ts, t) == <<CanonicalPlayer(ts, t), t.from, t.to, t.day>>
SlotOf(slots, key) == {s \in slots : s.key = key}
Apart(s, t) == s.type # t.type /\ "transfer" \notin {s.type, t.type}

AddReport(ts, acc, t) ==
    LET plain == SlotOf(acc.slots, <<EventKey(ts, t), "any">>)
        typed == \E s \in plain : Apart(acc.list[s.at], t)
        key == <<EventKey(ts, t), IF typed THEN t.type ELSE "any">>
        slot == SlotOf(acc.slots, key)
        i == (CHOOSE s \in slot : TRUE).at
    IN  IF slot = {}
        THEN [list |-> Append(acc.list, t),
              slots |-> acc.slots \cup {[key |-> key, at |-> Len(acc.list) + 1]}]
        ELSE [list |-> [acc.list EXCEPT ![i] = MergeDuplicate(@, t)], slots |-> acc.slots]

MergeTransfers(ts) ==
    FoldLeft(LAMBDA acc, t : AddReport(ts, acc, t), [list |-> <<>>, slots |-> {}], ts).list

----------------------------------------------------------------------------
\* Finding the event another provider's report is about.

\* Sets that overlap become one.
Components(sets) ==
    FoldSet(LAMBDA s, parts : LET met == {p \in parts : p \cap s # {}}
                              IN  (parts \ met) \cup {s \cup UNION met},
            {}, sets)

\* Names whose ids never contradict each other: ids reported together, or for
\* the same event without a contradiction, are one identity.
SafeNames(ts) ==
    LET known == {t \in Range(ts) : t.who # "" /\ Ids(t) # {}}
        Event(t) == <<t.who, t.from, t.to, t.day, t.type>>
        Reported(e) == UNION {Ids(t) : t \in {u \in known : Event(u) = e}}
        Consistent(ids) == \A a, b \in ids : a[1] = b[1] => a = b
        groups == {Ids(t) : t \in known} \cup {ids \in {Reported(Event(t)) : t \in known} : Consistent(ids)}
        identities == Components(groups)
        Named(n) == UNION {Ids(t) : t \in {u \in known : u.who = n}}
    IN  {n \in {t.who : t \in known} : \E i \in identities : Named(n) \subseteq i}

\* Positions the player is known by: an id, else a safe name, else a name on
\* exactly this event; the next kind is tried only if the one before finds none.
Decisive(list, t, safe) ==
    LET byId == {i \in DOMAIN list : Ids(list[i]) \cap Ids(t) # {}}
        byName == {i \in DOMAIN list : t.who \in safe /\ list[i].who = t.who}
        byEvent == {i \in DOMAIN list : /\ t.who # "" /\ list[i].who = t.who
                                        /\ list[i].from = t.from /\ list[i].to = t.to
                                        /\ list[i].day = t.day /\ list[i].type = t.type}
    IN  IF byId # {} THEN byId ELSE IF byName # {} THEN byName ELSE byEvent

ByDestination(list, t, safe) ==
    LET decisive == Decisive(list, t, safe)
    IN  IF decisive # {} THEN decisive ELSE {i \in DOMAIN list : SameDestination(list[i], t)}

ByRoute(list, t, safe) ==
    LET decisive == Decisive(list, t, safe)
    IN  IF decisive # {} THEN decisive
        ELSE {i \in DOMAIN list : \/ SameRoute(list[i], t)
                                  \/ t.type = "free" /\ list[i].type = "free" /\ SameDestination(list[i], t)}

Only(set) == CHOOSE i \in set : set = {i}

----------------------------------------------------------------------------
\* Complete routes. Of the routes of one player and day only those as strong as
\* the strongest stay; a route that repeats an earlier one is no route of its own.
DistinctRoutes(group) ==
    FoldLeft(LAMBDA acc, t : IF \E r \in Range(acc) : SameRoute(t, r) THEN acc ELSE Append(acc, t), <<>>, group)

\* Mutant: the weakest routes stay.
KeepsWeakest(group, t) ==
    LET routes == Range(DistinctRoutes(group))
        strongest == Max({Priority(r) : r \in routes})
    IN  Cardinality(routes) <= 1 \/ \E r \in routes : Priority(r) = strongest /\ SameRoute(t, r)
KeepsRoute(group, t) ==
    LET routes == Range(DistinctRoutes(group))
        strongest == Min({Priority(r) : r \in routes})
    IN  Cardinality(routes) <= 1 \/ \E r \in routes : Priority(r) = strongest /\ SameRoute(t, r)

PreferPrimaryRoutes(ts) ==
    LET GroupOf(t) == Keep(ts, {u \in Range(ts) : u.who = t.who /\ u.day = t.day})
    IN  Undated(ts) \o Keep(Dated(ts), {t \in Range(ts) : KeepsRoute(GroupOf(t), t)})

AddRoute(safe, list, t) ==
    LET same == {i \in ByRoute(list, t, safe) :
                    /\ SamePlayer(list[i], t) /\ CompatibleSource(list[i], t)
                    /\ SameDestination(list[i], t) /\ Adjacent(list[i], t)
                    /\ CompatibleType(list[i], t)}
    IN  IF Cardinality(same) = 1 THEN [list EXCEPT ![Only(same)] = MergeProvenance(@, t)]
        ELSE Append(list, t)

MergeVerified(batches) ==
    LET incoming == MergeTransfers(Joined(batches))
        safe == SafeNames(incoming)
    IN  PreferPrimaryRoutes(FoldLeft(LAMBDA list, t : AddRoute(safe, list, t), <<>>, incoming))

----------------------------------------------------------------------------
\* Events only corroborators report.
Agrees(cluster, t) ==
    \A u \in Range(cluster) : /\ DaysApart(u, t, Window) /\ CompatibleType(u, t)
                              /\ SameDestination(u, t) /\ SamePlayer(u, t)

Clustered(clusters, t) ==
    LET fits == {i \in DOMAIN clusters : Agrees(clusters[i], t)}
    IN  IF fits = {} THEN Append(clusters, <<t>>)
        ELSE [clusters EXCEPT ![Min(fits)] = Append(@, t)]

Clusters(ts) == FoldLeft(Clustered, <<>>, ts)

\* Mutant: two reports of one source are enough.
AnyTwo(cluster) == Len(cluster) >= 2
Independent(cluster) == Cardinality(UNION {t.src : t \in Range(cluster)}) >= 2

NamesClub(cluster) == {i \in DOMAIN cluster : cluster[i].from \notin NonClubs}
AgreesOnSource(cluster) ==
    \A i, j \in NamesClub(cluster) : i # j => SameSource(cluster[i], cluster[j])

\* The source club of the first that names one; the rest from the strongest
\* dated member, the earliest of several, or else from the first.
EventOf(cluster) ==
    LET named == NamesClub(cluster)
        source == cluster[IF named = {} THEN 1 ELSE Min(named)]
        dated == {i \in DOMAIN cluster : cluster[i].day # 0}
        Before(i, j) == LET a == cluster[i]  b == cluster[j]
                        IN  \/ Priority(a) < Priority(b)
                            \/ Priority(a) = Priority(b) /\ (a.day < b.day \/ (a.day = b.day /\ i <= j))
        at == IF dated = {} THEN 1 ELSE CHOOSE i \in dated : \A j \in dated : Before(i, j)
        event == [cluster[at] EXCEPT !.from = source.from, !.own = FALSE]
    IN  FoldLeft(MergeProvenance, event, SubSeq(cluster, 1, at - 1) \o SubSeq(cluster, at + 1, Len(cluster)))

AgreedEvents(ts) ==
    LET clusters == Clusters(ts)
        good == Keep(clusters, {c \in Range(clusters) : Independent(c) /\ AgreesOnSource(c)})
    IN  [i \in DOMAIN good |-> EventOf(good[i])]

----------------------------------------------------------------------------
\* A fast signal confirms the one event it fits, or is an event if it has an
\* effective date of its own and fits none.
AddSignal(safe, list, t) ==
    LET same == {i \in ByDestination(list, t, safe) :
                    /\ SamePlayer(list[i], t) /\ SameDestination(list[i], t)
                    /\ Adjacent(list[i], t) /\ CompatibleType(list[i], t)}
    IN  IF Cardinality(same) = 1 THEN [list EXCEPT ![Only(same)] = MergeProvenance(@, t)]
        ELSE IF same = {} /\ t.own THEN Append(list, t)
        ELSE list

WithSignals(verified, signals, safe) ==
    FoldLeft(LAMBDA list, t : AddSignal(safe, list, t), verified, signals)

\* A corroborator confirms the one event it fits; one that fits none is left over.
Corroborate(safe, acc, t) ==
    LET same == {i \in ByRoute(acc.list, t, safe) :
                    /\ SamePlayer(acc.list[i], t) /\ SameRoute(acc.list[i], t)
                    /\ Adjacent(acc.list[i], t) /\ CompatibleType(acc.list[i], t)}
    IN  IF Cardinality(same) = 1
        THEN [list |-> [acc.list EXCEPT ![Only(same)] = MergeProvenance(@, t)], left |-> acc.left]
        ELSE IF same = {} THEN [list |-> acc.list, left |-> Append(acc.left, t)]
        ELSE acc

WithRoutes(verified, routes, safe) ==
    FoldLeft(LAMBDA acc, t : Corroborate(safe, acc, t), [list |-> verified, left |-> <<>>], routes)

ReconcileTransferSources(batches, signals, routes) ==
    LET verified == MergeVerified(batches)
        safe == SafeNames(verified \o signals \o routes)
        confirmed == WithRoutes(WithSignals(verified, signals, safe), routes, safe)
    IN  confirmed.list \o AgreedEvents(confirmed.left)
=============================================================================
