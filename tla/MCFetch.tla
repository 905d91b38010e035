------------------------------ MODULE MCFetch ------------------------------
EXTENDS Fetch

MCPageOf == [d \in Docs |-> IF d = 1 THEN "m1" ELSE "m2"]
MCForm == [m1 |-> "433", m2 |-> "442"]
MCAlike == {{"ada", "ada l"}, {"B", "B fc"}}
MCClubKey == ("B fc" :> "B")

\* Rows of the providers' documents, days from 1 (too old) over 2..5 (the
\* range) to 6 (still to come).
Row(id, who, from, to, day, type) == [id |-> id, who |-> who, from |-> from, to |-> to, day |-> day, type |-> type]
Item(from, to, day, type) == [kind |-> "item"] @@ Row(1, "ada", from, to, day, type)
Strange == [kind |-> "alien"] @@ Row(0, "", "", "", 0, "")
Extension == [kind |-> "extension"] @@ Row(1, "ada", "A", "A", 3, "extension")
Market(event, from, to, day, type) == [event |-> event] @@ Row(7, "ada", from, to, day, type)
Sofa(id, who, from, to, day, type) == Row(id, who, from, to, day, type)
Feed(who, dir, teams, day, type) == [who |-> who, dir |-> dir, teams |-> teams, day |-> day, type |-> type, id |-> 0]
Team(name, id) == [name |-> name, id |-> id]
Listing(name, id, senior) == [name |-> name, id |-> id, senior |-> senior]
Day(d) == Row(0, "", "", "", d, "")
Bullet(from, to, type) == Row(0, "ada", from, to, 0, type)
Block(status, to, starts, day, type) ==
    [status |-> status, proof |-> TRUE, starts |-> starts] @@ Row(5, "ada", "", to, day, type)
Cells(from, to, day, spans, type) == [spans |-> spans] @@ Row(0, "ada", from, to, day, type)
Line(kind, club) == [kind |-> kind, club |-> club, who |-> IF kind = "entry" THEN "ada" ELSE "", type |-> "loan", id |-> 0]
Page(lists, table, codes) == [women |-> FALSE, lists |-> lists, table |-> table, codes |-> codes]

NoMarket == [pages |-> <<>>, mirror |-> <<>>]
NoSofa == [i \in 1..6 |-> NoPage]
NoWiki == [members |-> <<>>, pages |-> <<>>, teams |-> <<>>]
Unknown == [search |-> [c \in {"A", "B", "C"} |-> <<>>], feeds |-> <<>>]
Silent == [feed |-> {<<>>}, wikipedia |-> {NoWiki}, sortitoutsi |-> {<<>>}, transfermarkt |-> {NoMarket},
           besoccer |-> {<<>>}, sofascore |-> {NoSofa}, soccerway |-> {Unknown}, tactics |-> {<<>>}]

Feeds == {<<<<Item("A", "B", 2, "transfer"), Item("A", "B", 6, "loan"), Extension>>>>,
          <<<<Item("", "C", 2, "transfer"), Strange>>, <<Item("A", "B", 5, "loan")>>>>,
          <<<<Strange, Strange>>>>,
          <<<<Item("A", "B", 2, "loan")>>, <<Item("A", "B", 3, "loan")>>, <<Item("A", "B", 4, "loan")>>>>}
Markets == {[pages |-> <<<<Market(9, "A", "C", 6, "free")>>, <<Market(8, "B", "C", 3, "other"), Market(8, "B", "C", 3, "other")>>,
                         <<Market(8, "B", "C", 3, "other"), Market(7, "A", "B", 2, "end"), Market(6, "A", "B", 1, "end")>>>>, mirror |-> <<>>],
            [pages |-> <<<<Market(5, "A", "B", 3, "free")>>, <<Market(5, "A", "B", 3, "free")>>, <<Market(4, "C", "A", 2, "loan")>>>>,
             mirror |-> <<>>],
            [pages |-> <<>>, mirror |-> <<<<Market(3, "A", "C", 2, "free")>>>>]}
Wikis ==
    {[members |-> (<<"winter", 26>> :> <<"men", "league", "women">>) @@ (<<"winter split", 26>> :> <<"men", "cup">>),
      pages |-> [men |-> Page(<<Line("heading", "B"), Line("in", ""), Line("entry", "A"), Line("heading", "C"), Line("entry", "A"),
                               Line("out", ""), Line("entry", "@M")>>,
                              <<Cells("A", "D", 3, FALSE, "transfer"), Cells("A", "B", 1, FALSE, "transfer"), Cells("A", "B", 0, TRUE, "loan")>>, {"@M"}),
                 league |-> Page(<<>>, <<Cells("A", "B fc", 2, FALSE, "free"), Cells("A", "@M", 0, TRUE, "transfer"),
                                        Cells("A", "C", 0, FALSE, "transfer")>>, {"@M"}),
                 cup |-> Page(<<>>, <<Cells("A", "C", 0, TRUE, "loan"), Cells("@M", "@W", 2, FALSE, "loan")>>, {"@M", "@W"}),
                 women |-> [Page(<<>>, <<Cells("A", "C", 2, FALSE, "loan")>>, {}) EXCEPT !.women = TRUE]],
      teams |-> ("@M" :> "M") @@ ("@W" :> "W")]}

Reported == [who |-> "ada", from |-> "A", to |-> "B", day |-> 2, type |-> "transfer", own |-> FALSE, src |-> {"fotmob"},
             ids |-> [x \in IdSpaces |-> IF x = "fotmob" THEN 1 ELSE 0]]
Elsewhere == [Reported EXCEPT !.to = "C", !.day = 3]

Scrape(clubs, named, tactics, reports, sites) ==
    [clubs |-> clubs, named |-> named, tactics |-> tactics, reports |-> reports, sites |-> sites @@ Silent,
     year |-> 26, month |-> 2, since |-> 0, window |-> "winter"]
Named(clubs) == Scrape(clubs, TRUE, FALSE, {<<>>}, <<>>)
Matched == Scrape({"b"}, FALSE, TRUE, {<<>>},
    [feed |-> Feeds, transfermarkt |-> Markets,
     sortitoutsi |-> {<<Block("enabled", "C", 2, 4, "transfer"), Block("pending", "B", 2, 2, "loan"), Block("enabled", "D", 0, 1, "loan")>>,
                      <<Block("enabled", "B", 0, 2, "transfer")>>}])
Wiki == Scrape({"b"}, FALSE, FALSE, {<<>>},
    [feed |-> {<<>>, <<<<Item("A", "B", 2, "transfer")>>>>}, wikipedia |-> Wikis,
     sortitoutsi |-> {<<Block("enabled", "C", 2, 4, "transfer")>>}])
Corroborated == Scrape({"b"}, FALSE, TRUE, {<<Elsewhere>>, <<Reported, Elsewhere>>},
    [besoccer |-> {<<Day(2), Bullet("A", "C", "free"), Bullet("A", "C", "free"), Day(6), Bullet("A", "B", "loan")>>,
                   <<Day(3), Bullet("A", "B fc", "transfer"), Bullet("", "C", "libre"), Day(4), Bullet("A", "B", "transfer")>>},
     sofascore |-> {[NoSofa EXCEPT ![3] = <<Sofa(0, "ada l", "A", "C", 4, "transfer"), Sofa(3, "bo", "A", "D", 4, "loan")>>,
                                   ![5] = <<Sofa(0, "ada", "", "C", 3, "free")>>]},
     soccerway |-> {[search |-> [c \in {"B", "C"} |-> IF c = "B" THEN <<Listing("B", 20, FALSE), Listing("B fc", 2, TRUE)>>
                                                      ELSE <<Listing("C", 3, TRUE)>>],
                     feeds |-> (2 :> <<<<Feed("ada", "in", <<Team("B", 2), Team("A", 1)>>, 2, "transfer")>>,
                                      <<Feed("ada", "out", <<Team("B fc", 0)>>, 2, "free"), Feed("bo", "out", <<Team("B", 2)>>, 2, "free")>>>>)
                            @@ (3 :> <<<<Feed("ada", "in", <<Team("C", 3), Team("D", 4)>>, 4, "loan"),
                                       Feed("ada", "in", <<Team("D", 4)>>, 1, "loan")>>,
                                      <<Feed("bo", "in", <<Team("D", 4)>>, 1, "loan")>>>>)]}])

\* The statistics of the one league on two days.
Sample(value, matches) == [value |-> value, matches |-> matches]
StatTables(ada, metrics) ==
    LET teams == <<"c", "t1", "t2", "t3">>
        Of(m) == CASE m = "passes" -> <<Sample(400, 9), Sample(500, 9), Sample(300, 9), Sample(200, 8)>>
                   [] m = "crosses" -> <<Sample(40, 9), Sample(15, 9), Sample(9, 9), Sample(20, 9)>>
                   [] m = "final_third_wins" -> <<Sample(ada, 9), Sample(4, 9), Sample(7, 9), Sample(2, 3)>>
                   [] m = "possession" -> <<Sample(50, 3), Sample(61, 9), Sample(120, 9), Sample(40, 2)>>
    IN  [m \in metrics |-> [t \in Range(teams) |-> Of(m)[CHOOSE i \in 1..4 : teams[i] = t]]]
Statistics == (0 :> (47 :> StatTables(9, {"passes", "crosses", "final_third_wins"})))
           @@ (1 :> (47 :> StatTables(1, {"final_third_wins", "possession"})))
MCLeagueIn == [d \in Docs |-> IF d = 7 THEN 47 ELSE 0]
Studied == Scrape({"c"}, TRUE, TRUE, {<<>>}, [tactics |-> {Statistics}])

MCAgendas == {<<Named({"a", "b"}), Named({"a"})>>, <<Matched>>, <<Wiki>>, <<Corroborated>>, <<Studied, Studied>>}
MCLive == {("a" :> 1) @@ ("b" :> 5) @@ ("c" :> 7)}
MCDisks == {("a" :> NoEntry) @@ ("b" :> [doc |-> 5, tag |-> NoTag, at |-> -1, sheet |-> NoSheet]) @@ ("c" :> Foreign)}
=============================================================================
