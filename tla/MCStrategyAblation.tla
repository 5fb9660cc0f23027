-------------------------- MODULE MCStrategyAblation --------------------------
(***************************************************************************)
(* Five bars that close at times 10 to 50, with prices that turn up or     *)
(* down at the last bar, and research with one signal early, one later and *)
(* one at the last close, or with a feature that is late, missing or       *)
(* unlinked; the second run of a scenario may find other research.         *)
(***************************************************************************)
EXTENDS StrategyAblation

Closes == [b \in 1..5 |-> 10 * b]
AllDay == [start |-> 5, end |-> 55]
Families == <<"naive", "price_only", "text_only", "combined">>

Path(closes) == [open |-> [b \in 1..5 |-> 100], close |-> closes]
Up == Path(<<100, 101, 100, 102, 104>>)
Down == Path(<<100, 101, 100, 102, 98>>)

Feature_(id, available, links) ==
    [id |-> id, definition |-> id, valueOf |-> id, links |-> links, documents |-> {"d"},
     assumptions |-> TRUE, available |-> available, prov |-> Linked]
Text(id, effective, created, score, feature) ==
    [id |-> id, effective |-> effective, created |-> created, expires |-> 1000, score |-> score,
     features |-> {feature}, lineage |-> {feature}, components |-> {{feature}}, links |-> {"l"},
     status |-> "candidate", uncertainties |-> TRUE, prov |-> Linked]
Known(texts, features) == [company |-> "acme", signals |-> texts, features |-> features]

Features == {Feature_(1, 10, {"l"}), Feature_(2, 45, {"l"})}
Early == Text(1, 10, 10, 60, 1)
Later == Text(2, 35, 35, -80, 1)
AtEnd == Text(3, 50, 50, 60, 1)
AgainstAtEnd == Text(3, 50, 50, -80, 1)
Hasty == Text(4, 20, 20, 60, 2)   \* its feature is only available at 45

Steady == Known({Early, AtEnd}, Features)
Reversing == Known({Early, AgainstAtEnd}, Features)
Turning == Known({Early, Later}, Features)
Rushed == Known({Hasty, Later}, Features)
Unlinked == Known({Early, AtEnd}, {Feature_(1, 10, {})})
Broken == Known({Hasty}, {Feature_(1, 10, {"l"})})
Nothing == Known({}, Features)

Config(families, metric, as_of, record, candidates, prov) ==
    [id |-> "config", company |-> "acme", families |-> families, metric |-> metric, as_of |-> as_of,
     record |-> record, candidates |-> candidates, prov |-> prov]
Full == Config(Families, "net", None, TRUE, TRUE, {"time"})
Unrecorded == Config(<<"text_only", "combined">>, "trades", 35, FALSE, TRUE, Linked)
Excluded == Config(<<"naive", "combined">>, "net", None, TRUE, FALSE, {"time"})

Scenario(prices, asked, researches) ==
    [prices |-> prices, config |-> asked, researches |-> researches]
Asked ==
    {Scenario(Up, Full, <<Steady, Turning>>), Scenario(Down, Full, <<Rushed, Reversing>>),
     Scenario(Down, Unrecorded, <<Turning, Unlinked>>), Scenario(Up, Unrecorded, <<Rushed, Nothing>>),
     Scenario(Up, Excluded, <<Steady, Broken>>)}
Order == <<"combined", "naive", "text_only", "price_only">>
=============================================================================
