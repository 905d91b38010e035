------------------------------ MODULE Listings ------------------------------
(***************************************************************************)
(* What the providers' documents say: how each adapter of fl-sources turns *)
(* the rows of an answer into transfers. A row is a record of what its     *)
(* cells, fields or links read:                                            *)
(*   who, from, to   "" when missing                                       *)
(*   day             0 when missing or unreadable                          *)
(*   type            "loan", "end", "free", or another label               *)
(*   id              of the player or of the event, 0 when missing         *)
(* and of a few fields of one provider each. The decoding of Markdown,     *)
(* HTML, JSON and wikitext into cells is left out, and so are the links    *)
(* and the fees a transfer carries along.                                  *)
(***************************************************************************)
EXTENDS Reconcile

CONSTANTS
    Explicit,      \* the bound given with the request, 0 if there is none
    Since, Until,  \* the range it or the window resolves to, 0 where it is open
    Opening,       \* the day the window opened, 0 for all of them
    Today,
    ClubKey,       \* names written in another way |-> the club they stand for
    Tolerated      \* malformed items a feed page may have (5)

ASSUME ListingsAssumption ==
    /\ {Explicit, Since, Until, Opening, Today, Tolerated} \subseteq Nat
    /\ Explicit # 0 => Since = Explicit

FreeAgent == "free agent"

\* date_in_range: an event without a date is in no range.
InRange(day) == day # 0 /\ (Since = 0 \/ day >= Since) /\ (Until = 0 \/ day <= Until)

KeyOf(name) == IF name \in DOMAIN ClubKey THEN ClubKey[name] ELSE name

\* Names that match a label are that type, any other is a plain transfer.
TypeOf(label) == IF label \in {"loan", "end", "free"} THEN label ELSE "transfer"

Move(src, row, from, to, day, own) ==
    [who |-> row.who, from |-> from, to |-> to, day |-> day, type |-> TypeOf(row.type), own |-> own,
     src |-> {src}, ids |-> [x \in IdSpaces |-> IF x = src THEN row.id ELSE 0]]

\* What every adapter hands on: it names the player and where he goes.
IsReport(t) ==
    /\ DOMAIN t = {"who", "from", "to", "day", "type", "own", "src", "ids"}
    /\ DOMAIN t.ids = IdSpaces
    /\ t.day \in Nat /\ IsFiniteSet(t.src) /\ "" \notin {t.who, t.to}

\* Rows as they are on a page.
IsTable(rows) ==
    /\ rows \in Seq(Range(rows))
    /\ \A r \in Range(rows) : {"who", "day"} \subseteq DOMAIN r /\ r.day \in Nat

Event(t) == <<t.who, t.from, t.to, t.day>>

\* What is seen for the first time: items whose key no earlier item has.
Firsts(items, keys) ==
    FoldLeft(LAMBDA kept, i : IF \E j \in 1..(i - 1) : keys[j] = keys[i] THEN kept ELSE Append(kept, items[i]),
             <<>>, [i \in DOMAIN items |-> i])

FirstEvents(ts) == Firsts(ts, [i \in DOMAIN ts |-> Event(ts[i])])

----------------------------------------------------------------------------
\* FotMob's feed: an item is "alien" (not an object), an "extension" of a
\* contract, or an "item", which a player and a club make a transfer.
Club(name) == IF name = "" \/ name \in NonClubs THEN FreeAgent ELSE name

Parsable(item) == item.kind = "item" /\ item.who # "" /\ ~(item.from = "" /\ item.to = "")

FeedType(item) ==
    IF item.type \in {"loan", "end"} THEN item.type
    ELSE IF FreeAgent \in {Club(item.from), Club(item.to)} THEN "free" ELSE item.type

FeedMove(item) == Move("fotmob", [item EXCEPT !.type = FeedType(item)], Club(item.from), Club(item.to), item.day, FALSE)

\* An event of a later day, or of no known day, waits.
Disposition(day) ==
    IF day = 0 THEN IF Since = 0 /\ Until = 0 THEN "keep" ELSE "pending"
    ELSE IF day > Today THEN "pending"
    ELSE IF InRange(day) THEN "keep" ELSE "drop"

FeedMoves(items) ==
    LET kept == Keep(items, {i \in Range(items) : Parsable(i) /\ Disposition(i.day) = "keep"})
    IN  [k \in DOMAIN kept |-> FeedMove(kept[k])]

\* A page with no item of the known form, or with more strange items than not.
Unusable(items) ==
    LET strange == {i \in DOMAIN items : items[i].kind = "alien" \/ (items[i].kind = "item" /\ ~Parsable(items[i]))}
        known == {i \in DOMAIN items : Parsable(items[i])}
    IN  \/ known = {} /\ \E i \in DOMAIN items : items[i].kind = "item"
        \/ Cardinality(strange) > Max({Tolerated, Len(items) \div 2})

----------------------------------------------------------------------------
\* Transfermarkt's table: only rows with every link and a date, each event once.
MarketRows(rows) ==
    LET whole == Keep(rows, {r \in Range(rows) : "" \notin {r.who, r.from, r.to} /\ 0 \notin {r.day, r.event}})
    IN  Firsts(whole, [i \in DOMAIN whole |-> whole[i].event])

MarketMoves(rows) == [i \in DOMAIN rows |-> Move("transfermarkt", rows[i], rows[i].from, rows[i].to, rows[i].day, FALSE)]

----------------------------------------------------------------------------
\* Sofascore: one missing club is no club; an unknown type is no transfer.
SofascoreRows(rows) ==
    LET good == Keep(rows, {r \in Range(rows) : /\ r.who # "" /\ InRange(r.day) /\ r.type # "unknown"
                                                 /\ ~(r.from = "" /\ r.to = "")})
        Of(r) == Move("sofascore", r, IF r.from = "" THEN FreeAgent ELSE r.from,
                      IF r.to = "" THEN FreeAgent ELSE r.to, r.day, FALSE)
        moves == [i \in DOMAIN good |-> Of(good[i])]
        Player(i) == IF good[i].id = 0 THEN <<0, moves[i].who>> ELSE <<good[i].id, "">>
    IN  Firsts(moves, [i \in DOMAIN moves |-> <<Player(i), moves[i].from, moves[i].to, moves[i].day>>])

\* filter_for_clubs: the routes of the clubs asked for, a club's spellings being one.
ForClubs(moves, clubs) ==
    LET keys == {KeyOf(c) : c \in Range(clubs)}
        touching == Keep(moves, {t \in Range(moves) : {KeyOf(t.from), KeyOf(t.to)} \cap keys # {}})
    IN  Firsts(touching, [i \in DOMAIN touching |->
            <<touching[i].who, KeyOf(touching[i].from), KeyOf(touching[i].to), touching[i].day>>])

----------------------------------------------------------------------------
\* Soccerway: the first senior men's team of a search with the club's name (clubs
\* asked for are senior), and the rows of its feed. A row names its teams.
CandidateTeam(items, name) ==
    LET fits == {i \in DOMAIN items : items[i].senior /\ items[i].id # 0 /\ KeyOf(items[i].name) = KeyOf(name)}
    IN  IF fits = {} THEN 0 ELSE items[Min(fits)].id

\* The team that is not the club by its id, or else not by its name.
OtherTeam(row, name, id) ==
    LET Named(i) == row.teams[i].name # ""
        byId == {i \in DOMAIN row.teams : Named(i) /\ row.teams[i].id # id}
        byName == {i \in DOMAIN row.teams : Named(i) /\ KeyOf(row.teams[i].name) # KeyOf(name)}
    IN  IF byId # {} THEN row.teams[Min(byId)].name
        ELSE IF byName # {} THEN row.teams[Min(byName)].name
        ELSE IF row.type = "free" THEN FreeAgent ELSE ""

SoccerwayMoves(rows, name, id) ==
    LET Other(r) == OtherTeam(r, name, id)
        Good(r) == /\ InRange(r.day) /\ r.who # "" /\ r.dir \in {"in", "out"}
                   /\ Other(r) # "" /\ KeyOf(Other(r)) # KeyOf(name)
        good == Keep(rows, {r \in Range(rows) : Good(r)})
        Of(r) == IF r.dir = "in" THEN Move("soccerway", r, Other(r), name, r.day, FALSE)
                 ELSE Move("soccerway", r, name, Other(r), r.day, FALSE)
    IN  FirstEvents([i \in DOMAIN good |-> Of(good[i])])

Oldest(rows) == Min({r.day : r \in {x \in Range(rows) : x.day # 0}})
ReachesBack(rows) == Since # 0 /\ (\E r \in Range(rows) : r.day # 0) /\ Oldest(rows) < Since

----------------------------------------------------------------------------
\* BeSoccer: a heading gives its day to the lines below it; a player who was
\* without a club ("libre") is named with one club only.
BesoccerDay(lines, i) ==
    LET above == {j \in 1..(i - 1) : lines[j].who = "" /\ lines[j].day # 0}
    IN  IF above = {} THEN 0 ELSE lines[Max(above)].day

BesoccerMoves(lines) ==
    LET Origin(l) == IF l.type = "libre" THEN FreeAgent ELSE l.from
        Good(i) == /\ lines[i].who # "" /\ InRange(BesoccerDay(lines, i))
                   /\ lines[i].type \in {"loan", "free", "libre", "transfer"}
                   /\ "" \notin {Origin(lines[i]), lines[i].to}
        good == Keep([i \in DOMAIN lines |-> i], {i \in DOMAIN lines : Good(i)})
        Of(i) == Move("besoccer", [lines[i] EXCEPT !.type = IF @ = "libre" THEN "free" ELSE @],
                      Origin(lines[i]), lines[i].to, BesoccerDay(lines, i), FALSE)
    IN  FirstEvents([k \in DOMAIN good |-> Of(good[k])])

----------------------------------------------------------------------------
\* Sortitoutsi: moderated submissions with a proof; the day is the one the move
\* takes effect, or else that of the submission, which is not a date of its own.
\* Only a bound given with the request holds for it.
SignalDay(block) == IF block.starts # 0 THEN block.starts ELSE block.day

Signal(block) ==
    /\ block.status = "enabled" /\ block.who # "" /\ block.proof /\ SignalDay(block) # 0
    /\ SignalDay(block) <= Today /\ SignalDay(block) >= Explicit
    /\ block.type = "free" \/ (block.type \in {"loan", "transfer"} /\ block.to # "")

SignalMoves(blocks) ==
    LET good == Keep(blocks, {b \in Range(blocks) : Signal(b)})
        Of(b) == Move("sortitoutsi", b, "", IF b.type = "free" THEN FreeAgent ELSE b.to, SignalDay(b), b.starts # 0)
    IN  [i \in DOMAIN good |-> Of(good[i])]

----------------------------------------------------------------------------
\* Wikipedia: a page has lists by club and tables. In a list the heading gives
\* the club and a line of its own the direction, for the entries below.
Heading(acc, line) == [acc EXCEPT !.club = line.club, !.dir = ""]

ListEntry(acc, l) ==
    IF "" \in {acc.club, acc.dir, l.who, l.club} \/ l.club = acc.club THEN acc
    ELSE [acc EXCEPT !.moves = Append(@,
             IF acc.dir = "in" THEN Move("wikipedia", l, l.club, acc.club, 0, FALSE)
             ELSE Move("wikipedia", l, acc.club, l.club, 0, FALSE))]

ListLine(acc, l) ==
    IF l.kind = "heading" THEN Heading(acc, l)
    ELSE IF l.kind = "entry" THEN ListEntry(acc, l)
    ELSE [acc EXCEPT !.dir = l.kind]

ListMoves(lines) == FoldLeft(ListLine, [club |-> "", dir |-> "", moves |-> <<>>], lines).moves

\* In a table one cell may give its day to the rows below it (rowspan): a row
\* that is one cell short takes the last day read, also of a row out of range. The
\* rows begin with the day asked for, or that the window opened.
ScanStart == IF Explicit # 0 THEN Explicit ELSE Opening

LastDay(table, i) ==
    LET above == {j \in 1..(i - 1) : table[j].day # 0}
    IN  IF above = {} THEN 0 ELSE table[Max(above)].day

RowDay(table, i) == IF table[i].spans THEN LastDay(table, i) ELSE table[i].day

TableMoves(table) ==
    LET day(i) == RowDay(table, i)
        Good(i) == /\ day(i) # 0 /\ day(i) <= Today /\ day(i) >= ScanStart
                   /\ "" \notin {table[i].who, table[i].from, table[i].to} /\ table[i].from # table[i].to
        good == Keep([i \in DOMAIN table |-> i], {i \in DOMAIN table : Good(i)})
    IN  [k \in DOMAIN good |-> Move("wikipedia", table[good[k]], table[good[k]].from, table[good[k]].to,
                                    day(good[k]), FALSE)]

\* Codes of the A-League's teams stand for names the site expands on request.
Expanded(page, names) ==
    LET In(club) == IF club \in DOMAIN names THEN names[club] ELSE club
        Line(l) == [l EXCEPT !.club = In(@)]
        Row(r) == [r EXCEPT !.from = In(@), !.to = In(@)]
    IN  [page EXCEPT !.lists = [i \in DOMAIN @ |-> Line(@[i])], !.table = [i \in DOMAIN @ |-> Row(@[i])]]

PageMoves(page, names) ==
    LET read == Expanded(page, names) IN ListMoves(read.lists) \o TableMoves(read.table)

\* The categories of the seasons: of this year, or of the last two with a date.
\* A winter is that of one year or the one that begins in the year before.
Categories(year, month, since, window) ==
    LET from == IF since = 0 THEN year ELSE Max({since, year - 1})
        Of(y, period) == IF period = "winter" THEN <<<<"winter", y>>, <<"winter split", y>>>> ELSE <<<<"summer", y>>>>
        periods == IF window = "all" THEN <<"winter", "summer">>
                   ELSE IF window = "auto" THEN IF month <= 3 THEN <<"winter">> ELSE <<"summer">>
                   ELSE <<window>>
        InYear(y) == FlattenSeq([i \in DOMAIN periods |-> Of(y, periods[i])])
    IN  FlattenSeq([k \in 1..(year - from + 1) |-> InYear(from + k - 1)])
=============================================================================
