---------------------------- MODULE MCRadarBatch ----------------------------
(* Batches of one and two symbols over four trading days.                   *)
EXTENDS RadarBatch, TLC

CONSTANTS i1, i2, s1, s2, x1, x2, c1, c2

Latest == [time \in Times |-> time]
Relation == (c1 :> "ABOVE") @@ (c2 :> "BELOW")

Trigger == [kind |-> "trigger", accepts |-> {}]
Rising == [kind |-> "ema", accepts |-> {"ABOVE"}]
Both == [kind |-> "ema", accepts |-> Relations]
Unbound == [kind |-> "other", accepts |-> {}]

Listed(instrument, symbol) == [instrument |-> instrument, symbol |-> symbol, venue |-> "NASDAQ"]
Means(ticker, instrument, from, until) ==
    [ticker |-> ticker, instrument |-> instrument, from |-> from, until |-> until]
Known(mappings) == [listings |-> {Listed(i1, s1), Listed(i2, s2)}, mappings |-> mappings]

MarketOfDay(d, content) ==
    [session |-> d, content |-> content, start |-> IF d = 0 THEN 0 ELSE d - 1, observedAt |-> "then"]
OfDay(d, content) ==
    [market |-> MarketOfDay(d, content),
     light |-> Observe(Revision, MarketOfDay(d, content), d),
     change |-> [prior |-> NoLight, classification |-> "BASELINE_INITIALIZED"],
     outcome |-> "SELECTED"]
Nothing == [instrument \in Instruments |-> Absent]

OwnTickers == Known({Means(x1, i1, 1, Never), Means(x2, i2, 1, Never)})

\* Two symbols, each with its ticker; a checkpoint of each kind.
Plain(profile, retained) ==
    [symbols |-> <<s1, s2>>, profile |-> profile, registry |-> OwnTickers, retained |-> retained]

\* A content-only checkpoint, a complete one, one ahead of the session, one of no session.
Kept(d) == (i1 :> Legacy(MarketOfDay(d, c1))) @@ (i2 :> Complete(OfDay(3, c2)))

\* One symbol after the other under a ticker that was given away at 3.
Reused(profile) ==
    [symbols |-> <<s1, s2>>, profile |-> profile, retained |-> Nothing,
     registry |-> Known({Means(x1, i1, 1, 3), Means(x1, i2, 3, Never)})]

\* The same ticker for the same instrument, renewed, and with a gap of a day.
Renewed == Known({Means(x1, i1, 1, 3), Means(x1, i1, 3, Never), Means(x2, i2, 1, 2), Means(x2, i2, 3, Never)})

\* A ticker claimed twice on a day, and by an instrument nobody asks for.
Contested == Known({Means(x1, i1, 1, Never), Means(x1, i1, 3, 4), Means(x2, i2, 1, Never)})

Alone(profile, registry) ==
    [symbols |-> <<s1>>, profile |-> profile, registry |-> registry, retained |-> Nothing]

\* A symbol the document does not list, or lists twice, or elsewhere.
Unlisted ==
    {[listings |-> {Listed(i2, s2)}, mappings |-> {Means(x2, i2, 1, Never)}],
     [listings |-> {Listed(i1, s1), Listed(i2, s1)},
      mappings |-> {Means(x1, i1, 1, Never), Means(x2, i2, 1, Never)}],
     [listings |-> {[Listed(i1, s1) EXCEPT !.venue = "NYSE"]}, mappings |-> {Means(x1, i1, 1, Never)}],
     Known({Means(x2, i2, 1, Never)}),
     Known({Means(x1, i1, 1, Never), Means(x2, i1, 3, Never), Means(x2, i2, 1, 2)})}

Batches ==
    {Plain(<<Trigger, Rising>>, Kept(d)) : d \in {0, 3}}
    \cup {Plain(<<Rising, Trigger>>, Kept(3)), Plain(<<Trigger>>, Kept(4)), Plain(<<Both>>, Nothing)}
    \cup {Reused(<<Both, Trigger>>), [Reused(<<Trigger>>) EXCEPT !.registry = Renewed]}
    \cup {Alone(profile, OwnTickers) :
            profile \in {<<Trigger, Unbound>>, <<Trigger, Trigger>>, <<Both, Trigger, Rising>>}}
    \cup {Alone(<<Trigger>>, Contested)}
    \cup {[Alone(<<Trigger>>, registry) EXCEPT !.symbols = <<s1, s2>>] : registry \in Unlisted}
=============================================================================
