-------------------------- MODULE InstrumentMappings --------------------------
(***************************************************************************)
(* What the trusted mapping document says: which instrument a symbol names *)
(* and which instrument a provider ticker meant on each day.  A ticker may *)
(* be given to another instrument later, and a document may be ambiguous.  *)
(*                                                                         *)
(* A mapping runs from one midnight to another (the document's dates), so  *)
(* a daily label is inside it or not.  A ticker stands for an external     *)
(* identity: a symbol of Polygon, the only provider, and a venue.          *)
(***************************************************************************)
EXTENDS Integers

CONSTANTS
    Symbols,        \* trading symbols, normalised
    Venues,         \* trading venues, NASDAQ among them
    Instruments,    \* canonical instrument ids
    Tickers,        \* the provider's names
    NoTicker

Never == 0          \* expires_at of a mapping that does not expire

Listing == [instrument: Instruments, symbol: Symbols, venue: Venues]
Mapping == [ticker: Tickers, instrument: Instruments, from: Nat, until: Nat]

ASSUME MappingAssumption == NoTicker \notin Tickers /\ "NASDAQ" \in Venues

\* A decoded document: canonical ids are unique, a mapping names a listed
\* instrument and ends after it starts.
Registry ==
    {r \in [listings: SUBSET Listing, mappings: SUBSET Mapping] :
        /\ \A l, k \in r.listings : l.instrument = k.instrument => l = k
        /\ \A m \in r.mappings :
              /\ \E l \in r.listings : l.instrument = m.instrument
              /\ m.until = Never \/ m.until > m.from}

-----------------------------------------------------------------------------
\* Which instrument, and under which ticker, an evaluation of a symbol is about.

ListedAs(r, symbol) == {l \in r.listings : l.symbol = symbol}
TickersOf(r, instrument) ==
    {ticker \in Tickers : \E m \in r.mappings : m.ticker = ticker /\ m.instrument = instrument}

\* One listing, on NASDAQ, one ticker.
Selectable(r, symbol) ==
    \E l \in ListedAs(r, symbol), ticker \in Tickers :
        /\ ListedAs(r, symbol) = {l}
        /\ l.venue = "NASDAQ"
        /\ TickersOf(r, l.instrument) = {ticker}

InstrumentOf(r, symbol) == (CHOOSE l \in r.listings : l.symbol = symbol).instrument
TickerOf(r, instrument) ==
    IF TickersOf(r, instrument) = {} THEN NoTicker
    ELSE CHOOSE ticker \in TickersOf(r, instrument) : TRUE

-----------------------------------------------------------------------------
\* Whether the ticker meant the instrument throughout a window of labels.

Active(m, label) == m.from <= label /\ (m.until = Never \/ label < m.until)

Meanings(r, ticker, label) == {m \in r.mappings : m.ticker = ticker /\ Active(m, label)}

\* A label at which the ticker meant two things, or another instrument: an
\* error, also when other labels have no mapping at all.
Conflicts(r, instrument, ticker, labels) ==
    \E label \in labels : \E m, n \in Meanings(r, ticker, label) :
        m # n \/ m.instrument # instrument

\* A label without a mapping, or two labels with successive ones, which are never
\* stitched: the history is not available.
Interrupted(r, ticker, labels) ==
    \/ \E label \in labels : Meanings(r, ticker, label) = {}
    \/ \E label, other \in labels :
          \E m \in Meanings(r, ticker, label), n \in Meanings(r, ticker, other) : m # n
=============================================================================
