---------------------------- MODULE VenueStreams ----------------------------
(***************************************************************************)
(* One stream of a venue adapter (stream_trades, stream_quotes and         *)
(* stream_book of cryptodata/sources/*.py) for one symbol: its WebSocket,  *)
(* the messages on it, what the generator keeps between messages, and the  *)
(* rows it yields.                                                         *)
(*                                                                         *)
(* A connection that the venue closes normally ends `async for raw in ws`: *)
(* _connect waits, connects again, and the generator keeps what it holds.  *)
(* One that breaks raises through the generator into the worker, which     *)
(* begins a fresh one (the worker's backoff is in IngestProcess).          *)
(*                                                                         *)
(* A level of a book is its price; sizes are present or zero.  What a      *)
(* venue sends is external, modelled from what the handlers read.          *)
(***************************************************************************)
EXTENDS Integers, FiniteSets, FiniteSetsExt, Sequences

CONSTANTS
    Prices,      \* positive prices
    Depth,       \* levels in a snapshot
    Scope,       \* levels of Kraken's book that are subscribed, a side
    MaxBackoff,  \* 60 s
    MaxTrades,   \* bound of the model: trades at the venue
    MaxMoves,    \* bound of the model: changes of its book
    MaxDrops     \* bound of the model: connections that end

ASSUME StreamAssumption ==
    /\ Prices \subseteq Nat \ {0} /\ IsFiniteSet(Prices)
    /\ Depth \in Nat \ {0} /\ Scope \in Nat \ {0} /\ MaxBackoff \in Nat \ {0}
    /\ MaxTrades \in Nat /\ MaxMoves \in Nat /\ MaxDrops \in Nat

TradeStreams == {"binance_trades", "bybit_trades", "kraken_trades", "coinbase_trades",
                 "gemini_trades", "okx_trades", "bitfinex_trades", "bitstamp_trades"}
QuoteStreams == {"binance_quotes", "bybit_quotes", "kraken_quotes", "coinbase_quotes",
                 "gemini_quotes", "okx_quotes", "bitfinex_quotes", "bitstamp_quotes"}
Paced        == {"kraken_book", "coinbase_book"}      \* a snapshot every five seconds
OfBinance    == {"binance_trades", "binance_quotes", "binance_book"}
BookStreams  == Paced \cup {"binance_book"}
Streams      == TradeStreams \cup QuoteStreams \cup BookStreams

Sides == [bid : SUBSET (Prices \cup {0}), ask : SUBSET (Prices \cup {0})]
Empty == [bid |-> {}, ask |-> {}]
Crossed(q) == \E b \in q.bid, a \in q.ask : b > a
Highest(S, n) == {x \in S : Cardinality({y \in S : y > x}) < n}
Lowest(S, n)  == {x \in S : Cardinality({y \in S : y < x}) < n}
Top(q, n) == [bid |-> Highest(q.bid, n), ask |-> Lowest(q.ask, n)]
Without(q, r) == [bid |-> q.bid \ r.bid, ask |-> q.ask \ r.ask]
With(q, r)    == [bid |-> q.bid \cup r.bid, ask |-> q.ask \cup r.ask]
Both(q, r)    == [bid |-> q.bid \cap r.bid, ask |-> q.ask \cap r.ask]
Markets == {m \in Sides : 0 \notin m.bid \cup m.ask /\ \A b \in m.bid, a \in m.ask : b < a}

VARIABLES
    stream,    \* the generator
    link,      \* its connection
    backoff,   \* how long _connect waits next
    wire,      \* messages sent and not yet received
    held,      \* what the generator keeps: a book, or Gemini's best prices
    due,       \* five seconds have passed since the last snapshot
    yielded,   \* the last quote or snapshot
    copies,    \* trade -> rows yielded
    market,    \* the venue's book
    trades,    \* the venue's trades so far
    replayed,  \* history: trade -> subscriptions that sent it again
    missed,    \* history: trades that were not received when they were made
    carried,   \* history: levels held of which nothing is told: from an earlier
               \* connection, or beyond the subscribed depth
    told,      \* history: levels that a message to this generator has told
    moves, drops

generator == <<held, due, yielded, copies, carried, told>>
outside   == <<market, trades, moves>>
vars == <<stream, link, backoff, wire, generator, outside, replayed, missed, drops>>

Ids == 1 .. MaxTrades

\* What a message tells: trades, levels with a size, levels with size 0.  It
\* does not tell what has left the subscribed depth with it.
Message(tag, ids, add, gone, left) ==
    [tag |-> tag, ids |-> ids, add |-> add, gone |-> gone, left |-> left]
Messages == [tag : {"trade", "te", "tu", "snapshot", "update"},
             ids : SUBSET Ids, add : Sides, gone : Sides, left : Sides]

TypeOK ==
    /\ stream \in Streams /\ link \in {"down", "up", "ended"}
    /\ backoff \in 1 .. MaxBackoff
    /\ wire \in Seq(Messages)
    /\ held \in Sides /\ yielded \in Sides /\ due \in BOOLEAN
    /\ copies \in [Ids -> Nat] /\ replayed \in [Ids -> Nat]
    /\ market \in Markets /\ trades \in 0 .. MaxTrades
    /\ missed \subseteq Ids /\ carried \in Sides /\ told \in Sides
    /\ moves \in 0 .. MaxMoves /\ drops \in 0 .. MaxDrops

Init ==
    /\ stream \in Streams
    /\ link = "down" /\ backoff = 1 /\ wire = <<>>
    /\ held = Empty /\ due = TRUE /\ yielded = Empty /\ carried = Empty /\ told = Empty
    /\ copies = [t \in Ids |-> 0] /\ replayed = copies /\ missed = {}
    /\ market \in IF stream \in TradeStreams THEN {Empty}
                  ELSE {m \in Markets : Cardinality(m.bid) = 1 /\ Cardinality(m.ask) = 1}
    /\ trades = 0 /\ moves = 0 /\ drops = 0

-----------------------------------------------------------------------------
(* The venue.                                                              *)

Send(messages) == wire' = IF link = "up" THEN wire \o messages ELSE wire

\* Bybit, Coinbase, OKX and Kraken send several trades in one message; Bitfinex
\* tells a trade when it is executed (te) and again when it is booked (tu).
Batched == {"bybit_trades", "coinbase_trades", "okx_trades", "kraken_trades"}

MakeTrade ==
    /\ stream \in TradeStreams
    /\ \E n \in 1 .. IF stream \in Batched THEN 2 ELSE 1 :
        LET ids == trades + 1 .. trades + n
            new(tag) == Message(tag, ids, Empty, Empty, Empty)
        IN  /\ trades + n <= MaxTrades
            /\ trades' = trades + n
            /\ Send(IF stream = "bitfinex_trades" THEN <<new("te"), new("tu")>>
                    ELSE <<new("trade")>>)
            /\ missed' = IF link = "up" THEN missed ELSE missed \cup ids
    /\ UNCHANGED <<stream, link, backoff, generator, market, moves, replayed, drops>>

\* What a subscriber is told of a book: Kraken tells the subscribed depth.
View(m) == IF stream = "kraken_book" THEN Top(m, Scope) ELSE m

\* One message tells all levels that come into view and all that are removed
\* there.  A level that better ones push out of view is not told, nor is what
\* becomes of it.  A ticker or a partial book tells all it shows.
Update(m) ==
    LET lost == Without(View(market), View(m))
    IN  Message("update", {}, Without(View(m), View(market)), Without(lost, m), Both(lost, m))
Whole(m) == Message("update", {}, m, Empty, Empty)

MoveMarket ==
    /\ stream \notin TradeStreams
    /\ moves < MaxMoves
    /\ moves' = moves + 1
    /\ \E m \in Markets \ {market} :
        /\ market' = m
        /\ Send(<<IF stream \in Paced \cup {"gemini_quotes"} THEN Update(m) ELSE Whole(m)>>)
    /\ UNCHANGED <<stream, link, backoff, generator, trades, replayed, missed, drops>>

-----------------------------------------------------------------------------
(* The connection.                                                         *)

\* After a subscription the venue may repeat its trades, and does tell its book.
Connect ==
    /\ link = "down"
    /\ link' = "up"
    /\ backoff' = 1
    /\ \E again \in BOOLEAN :
        LET ids == IF again /\ stream \in TradeStreams THEN 1 .. trades ELSE {}
            tag == IF stream = "bitfinex_trades" THEN "te"
                   ELSE IF stream \in TradeStreams THEN "trade"
                   ELSE IF stream = "kraken_book" THEN "snapshot" ELSE "update"
        IN  /\ wire' = IF stream \in TradeStreams /\ ~again THEN <<>>
                       ELSE <<Message(tag, ids, View(market), Empty, Empty)>>
            /\ replayed' = [t \in Ids |-> IF t \in ids THEN replayed[t] + 1 ELSE replayed[t]]
    /\ UNCHANGED <<stream, generator, outside, missed, drops>>

\* A refused connection: _connect doubles its wait.
ConnectFails ==
    /\ link = "down"
    /\ drops < MaxDrops
    /\ drops' = drops + 1
    /\ backoff' = Min({2 * backoff, MaxBackoff})
    /\ UNCHANGED <<stream, link, wire, generator, outside, replayed, missed>>

Unreceived == UNION {wire[i].ids : i \in DOMAIN wire}

Lose ==
    /\ link = "up"
    /\ drops < MaxDrops
    /\ drops' = drops + 1
    /\ wire' = <<>>
    /\ missed' = missed \cup {t \in Unreceived : copies[t] = 0}
    /\ UNCHANGED <<stream, outside, replayed>>

\* Fault: _connect yields one connection.
CloseEnds ==
    /\ Lose
    /\ link' = "ended"
    /\ UNCHANGED <<backoff, generator>>

\* A normal close.  _connect waits and doubles; the loop of Binance connects
\* again at once.
Close ==
    /\ Lose
    /\ link' = "down"
    /\ backoff' = IF stream \in OfBinance THEN backoff ELSE Min({2 * backoff, MaxBackoff})
    /\ carried' = IF stream \in Paced THEN held ELSE Empty
    /\ UNCHANGED <<held, due, yielded, copies, told>>

\* A broken one: the worker begins a fresh generator, but Binance's plumbing
\* catches the exception, waits and goes on (it holds nothing).
Break ==
    /\ Lose
    /\ link' = "down"
    /\ backoff' = IF stream \in OfBinance THEN Min({2 * backoff, MaxBackoff}) ELSE 1
    /\ held' = Empty /\ carried' = Empty /\ told' = Empty
    /\ due' = TRUE
    /\ UNCHANGED <<yielded, copies>>

-----------------------------------------------------------------------------
(* Handlers: the trades of a message; what is held after a message, and    *)
(* the quote or snapshot it yields (Empty: none).                          *)

Those(m, tags) == IF m.tag \in tags THEN m.ids ELSE {}

\* Fault: a handler takes the first trade of a message.
FirstOnly(m) == {t \in Those(m, {"trade"}) : \A u \in m.ids : t <= u}

BinanceTrades(m)  == Those(m, {"trade"})
BybitTrades(m)    == Those(m, {"trade"})
KrakenTrades(m)   == Those(m, {"trade"})
CoinbaseTrades(m) == Those(m, {"trade"})
GeminiTrades(m)   == Those(m, {"trade"})
OkxTrades(m)      == Those(m, {"trade"})
BitstampTrades(m) == Those(m, {"trade"})
BitfinexTrades(m) == Those(m, {"te", "tu"})

TradesIn(m) ==
    CASE stream = "binance_trades"  -> BinanceTrades(m)
      [] stream = "bybit_trades"    -> BybitTrades(m)
      [] stream = "kraken_trades"   -> KrakenTrades(m)
      [] stream = "coinbase_trades" -> CoinbaseTrades(m)
      [] stream = "gemini_trades"   -> GeminiTrades(m)
      [] stream = "okx_trades"      -> OkxTrades(m)
      [] stream = "bitstamp_trades" -> BitstampTrades(m)
      [] stream = "bitfinex_trades" -> BitfinexTrades(m)
      [] OTHER                      -> {}

\* Fault: a level whose size becomes 0 stays in the book.
ApplyKeeps(q, m) == [bid |-> q.bid \cup m.add.bid, ask |-> q.ask \cup m.add.ask]

\* Size 0 removes a level.
Apply(q, m) == [bid |-> (q.bid \ m.gone.bid) \cup m.add.bid,
                ask |-> (q.ask \ m.gone.ask) \cup m.add.ask]

\* Fault: a snapshot does not clear the book.
KrakenKeeps(q, m) == Apply(q, m)

\* Nothing cuts the book to the subscribed depth.
KrakenBook(q, m)   == IF m.tag = "snapshot" THEN m.add ELSE Apply(q, m)
CoinbaseBook(q, m) == Apply(q, m)

\* The best prices only improve: a level whose quantity becomes 0 is passed over.
GeminiBest(q, m) == Top([bid |-> q.bid \cup m.add.bid, ask |-> q.ask \cup m.add.ask], 1)

HeldAfter(m) ==
    CASE stream = "kraken_book"   -> KrakenBook(held, m)
      [] stream = "coinbase_book" -> CoinbaseBook(held, m)
      [] stream = "gemini_quotes" -> GeminiBest(held, m)
      [] OTHER                    -> Empty

BothSides(q) == IF q.bid = {} \/ q.ask = {} THEN Empty ELSE q
OrPrice(S, p) == IF S = {} THEN {p} ELSE S

BinanceBook(m)    == m.add
BinanceQuote(m)   == [bid |-> OrPrice(Top(m.add, 1).bid, 0), ask |-> OrPrice(Top(m.add, 1).ask, 0)]
KrakenQuote(m)    == BinanceQuote(m)
BitfinexQuote(m)  == BinanceQuote(m)
BybitQuote(m)     == BothSides(Top(m.add, 1))
OkxQuote(m)       == BothSides(Top(m.add, 1))
BitstampQuote(m)  == BothSides(Top(m.add, 1))
GeminiQuote(m)    == BothSides(GeminiBest(held, m))
\* A side that is missing gets the price of the last trade.
CoinbaseQuote(m, last) == [bid |-> OrPrice(Top(m.add, 1).bid, last),
                           ask |-> OrPrice(Top(m.add, 1).ask, last)]

Yields(m, last) ==
    CASE stream \in Paced            -> IF due THEN Top(HeldAfter(m), Depth) ELSE Empty
      [] stream = "binance_book"     -> BinanceBook(m)
      [] stream = "binance_quotes"   -> BinanceQuote(m)
      [] stream = "bybit_quotes"     -> BybitQuote(m)
      [] stream = "kraken_quotes"    -> KrakenQuote(m)
      [] stream = "coinbase_quotes"  -> CoinbaseQuote(m, last)
      [] stream = "gemini_quotes"    -> GeminiQuote(m)
      [] stream = "okx_quotes"       -> OkxQuote(m)
      [] stream = "bitfinex_quotes"  -> BitfinexQuote(m)
      [] stream = "bitstamp_quotes"  -> BitstampQuote(m)
      [] OTHER                       -> Empty

\* One pass of `async for raw in ws`.
Receive ==
    /\ wire # <<>>
    /\ LET m == Head(wire)
       IN  /\ wire' = Tail(wire)
           /\ copies' = [t \in Ids |-> IF t \in TradesIn(m) THEN copies[t] + 1 ELSE copies[t]]
           /\ held' = HeldAfter(m)
           /\ told' = IF stream = "gemini_quotes" THEN With(told, m.add) ELSE Empty
           /\ carried' = IF m.tag = "snapshot" THEN Empty
                         ELSE With(Without(Without(carried, m.add), m.gone), m.left)
           /\ \E last \in IF stream = "coinbase_quotes" THEN Prices ELSE {0} :
                LET q == Yields(m, last)
                IN  /\ yielded' = IF q # Empty \/ (stream \in Paced /\ due) THEN q ELSE yielded
                    /\ due' = IF stream \in Paced THEN FALSE ELSE due
    /\ UNCHANGED <<stream, link, backoff, outside, replayed, missed, drops>>

\* Nothing is yielded when the time comes: only the next message looks at it.
FiveSeconds ==
    /\ stream \in Paced
    /\ ~due
    /\ due' = TRUE
    /\ UNCHANGED <<stream, link, backoff, wire, held, yielded, copies, carried, told, outside,
                   replayed, missed, drops>>

Next ==
    \/ MakeTrade \/ MoveMarket
    \/ Connect \/ ConnectFails \/ Close \/ Break
    \/ Receive \/ FiveSeconds

Spec == Init /\ [][Next]_vars

\* A venue that is asked again and again lets the adapter in, and the event
\* loop hands over what has arrived.
FairSpec == Spec /\ WF_vars(Connect) /\ WF_vars(Receive)

-----------------------------------------------------------------------------
(* Properties                                                              *)

\* A trade is a row once, twice from Bitfinex, and once more for each
\* subscription that repeats it (no handler looks at trade ids:
\* sources/bitfinex.py:62-66); no trade made while connected goes missing.
CopiesExplained ==
    \A t \in 1 .. trades :
        /\ copies[t] <= (IF stream = "bitfinex_trades" THEN 2 ELSE 1) + replayed[t]
        /\ stream \in TradeStreams /\ t \notin missed /\ wire = <<>> => copies[t] > 0

\* When all messages are received, a held book has every level that is in view,
\* and no other but those that nothing tells of any more: of Coinbase's, levels
\* of an earlier connection (sources/coinbase.py:110-136), of Kraken's, levels
\* that better ones pushed out of the subscribed depth, for the handler does
\* not cut its book to it (sources/kraken.py:116-147).  Gemini's best prices are
\* the best that any message told, whatever became of them
\* (sources/gemini.py:88-94).
BookIsMarket ==
    link = "up" /\ wire = <<>> =>
        /\ stream \in Paced =>
            /\ Without(held, carried) = Without(View(market), carried)
            /\ View(market).bid \subseteq held.bid /\ View(market).ask \subseteq held.ask
        /\ stream = "gemini_quotes" => held = Top(told, 1)

\* A quote or snapshot with a bid above its ask shows prices that the market
\* has left: Coinbase's levels carried over a connection, Kraken's beyond the
\* subscribed depth, Gemini's old best, or the last trade or the 0 that stands
\* in for an empty side.
CrossedOnlyWhenStale ==
    [][Crossed(yielded') /\ yielded' # yielded =>
        \/ stream \in Paced /\ \E b \in yielded'.bid, a \in yielded'.ask :
               b > a /\ (b \in carried'.bid \/ a \in carried'.ask)
        \/ stream = "gemini_quotes"
        \/ stream = "coinbase_quotes" /\ (Head(wire).add.bid = {} \/ Head(wire).add.ask = {})
        \/ stream \in {"binance_quotes", "kraken_quotes", "bitfinex_quotes"} /\ yielded'.ask = {0}]_vars

\* However a connection ends, the stream is connected again.
LinkComesBack == link # "up" ~> link = "up"
=============================================================================
