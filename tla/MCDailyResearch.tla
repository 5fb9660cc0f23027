--------------------------- MODULE MCDailyResearch ---------------------------
(***************************************************************************)
(* The daily workflow of definitions.py over a handful of fixtures of one  *)
(* company: a filing and a transcript that support a strong hypothesis,    *)
(* tamer ones that support a moderate one, a filing alone, a transcript    *)
(* without speakers (whose bundle is quarantined), a revised filing, a     *)
(* news item that names no company, one without a body, and prices alone;  *)
(* and, the day before or together with them, fixtures of another company. *)
(***************************************************************************)
EXTENDS DailyResearch, MCDailyWorkflow

Fixture(name, kind, of, day, text) ==
    [name |-> name, kind |-> kind, company |-> of, published |-> TRUE,
     day |-> day, text |-> text]
Paragraph(sentences) == [speaker |-> None, says |-> sentences]
Turn(speaker, sentences) == [speaker |-> speaker, says |-> sentences]

Filing(day, text) == Fixture("F", "filing", {"acme"}, day, text)
Call(day, text) == Fixture("T", "earnings_call", {"acme"}, day, text)

GoodFiling(day) ==
    Filing(day, <<Paragraph(<<{"revenue", "increase"}, {"outlook", "reiterated"}>>),
                  Paragraph(<<{"risk", "margin"}>>)>>)
GoodCall(day) ==
    Call(day, <<Turn("ceo", <<{"product", "expects"}>>), Turn("cfo", <<{"may", "backlog"}>>)>>)
TameFiling(day) == Filing(day, <<Paragraph(<<{"backlog"}>>)>>)
TameCall(day) == Call(day, <<Turn("ceo", <<{"product"}, {"pressure", "demand"}>>)>>)
SpeechlessCall(day) == Call(day, <<Paragraph(<<{"product"}>>)>>)
News == Fixture("N", "news_item", {}, 2,
                <<Paragraph(<<{"product"}>>), Paragraph(<<{"expects"}>>)>>)
BlankNews == Fixture("N", "news_item", {"acme"}, 2,
                     <<Paragraph(<<{"product"}>>), Paragraph(<<>>)>>)
Prices == Fixture("P", "price_series_metadata", {"acme"}, 2, <<>>)

Elsewhere(f, name) == [f EXCEPT !.name = name, !.company = {"zeta"}]
OthersOf(day) == <<Elsewhere(GoodFiling(day), "G"), Elsewhere(GoodCall(day), "U")>>

Batches ==
    {None, <<>>, <<GoodFiling(2), GoodCall(2)>>, <<TameFiling(2), TameCall(2)>>, <<GoodFiling(2)>>,
     <<GoodFiling(2), SpeechlessCall(2)>>, <<News>>,
     <<GoodFiling(2), BlankNews>>, <<Prices>>,
     <<GoodFiling(2), GoodCall(2)>> \o OthersOf(2)}
Pasts == {<<>>, <<GoodFiling(1), GoodCall(1)>>, OthersOf(1)}
=============================================================================
