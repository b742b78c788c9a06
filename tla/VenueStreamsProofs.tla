------------------------- MODULE VenueStreamsProofs -------------------------
(***************************************************************************)
(* Theorems about VenueStreams, for any prices, depth and backoff, and any *)
(* number of trades, moves and lost connections.                           *)
(*                                                                         *)
(* What a generator holds is right only when all that is on the wire has   *)
(* been applied to it.  The invariants follow it along the wire: there is  *)
(* a function whose first value is what is held, whose next values are     *)
(* what it becomes with each message, and whose last value is what the     *)
(* market, or the number of rows, has to be compared with.                 *)
(***************************************************************************)
EXTENDS VenueStreams, FiniteSetTheorems, WellFoundedInduction, TLAPS

LEMMA Bounds ==
    /\ Prices \subseteq Nat \ {0} /\ IsFiniteSet(Prices)
    /\ Depth \in Nat \ {0} /\ Scope \in Nat \ {0} /\ MaxBackoff \in Nat \ {0}
    /\ MaxTrades \in Nat /\ MaxMoves \in Nat /\ MaxDrops \in Nat
BY StreamAssumption

LEMMA Numbers ==
    /\ MaxBackoff \in Nat \ {0}
    /\ MaxTrades \in Nat /\ MaxMoves \in Nat /\ MaxDrops \in Nat
BY StreamAssumption

LEMMA SequenceFacts ==
    ASSUME NEW S
    PROVE  /\ <<>> \in Seq(S)
           /\ \A a \in S : <<a>> \in Seq(S)
           /\ \A a, b \in S : <<a, b>> \in Seq(S)
           /\ \A s \in Seq(S) : s # <<>> => Head(s) \in S /\ Tail(s) \in Seq(S)
           /\ \A s \in Seq(S) : \A i \in DOMAIN s : s[i] \in S
OBVIOUS

-----------------------------------------------------------------------------
(* Facts about the operators                                               *)

LEMMA SidesFacts ==
    /\ Empty \in Sides /\ Markets \subseteq Sides
    /\ \A q \in Sides : /\ q.bid \subseteq Prices \cup {0}
                        /\ q.ask \subseteq Prices \cup {0}
    /\ \A b, a \in SUBSET (Prices \cup {0}) : [bid |-> b, ask |-> a] \in Sides
BY DEF Sides, Empty, Markets

LEMMA TopType ==
    ASSUME NEW q \in Sides, NEW n
    PROVE  Top(q, n) \in Sides /\ Top(q, n).bid \subseteq q.bid /\ Top(q, n).ask \subseteq q.ask
<1>1. Highest(q.bid, n) \subseteq q.bid /\ Lowest(q.ask, n) \subseteq q.ask
  BY DEF Highest, Lowest
<1> QED BY <1>1, SidesFacts DEF Top

LEMMA WithType ==
    ASSUME NEW q \in Sides, NEW r \in Sides
    PROVE  With(q, r) \in Sides /\ Without(q, r) \in Sides /\ Both(q, r) \in Sides
BY SidesFacts DEF With, Without, Both

LEMMA BookTypes ==
    ASSUME NEW q \in Sides, NEW m \in Messages
    PROVE  /\ Apply(q, m) \in Sides /\ KrakenBook(q, m) \in Sides
           /\ CoinbaseBook(q, m) \in Sides /\ GeminiBest(q, m) \in Sides
<1>1. m.add \in Sides /\ m.gone \in Sides BY DEF Messages
<1>2. Apply(q, m) \in Sides BY <1>1, SidesFacts DEF Apply
<1>3. [bid |-> q.bid \cup m.add.bid, ask |-> q.ask \cup m.add.ask] \in Sides BY <1>1, SidesFacts
<1> QED BY <1>1, <1>2, <1>3, TopType DEF KrakenBook, CoinbaseBook, GeminiBest

LEMMA QuoteTypes ==
    ASSUME NEW m \in Messages, NEW last \in Prices \cup {0}
    PROVE  /\ BinanceQuote(m) \in Sides /\ BybitQuote(m) \in Sides
           /\ CoinbaseQuote(m, last) \in Sides
<1>1. m.add \in Sides BY DEF Messages
<1>2. Top(m.add, 1) \in Sides BY <1>1, TopType
<1>3. \A S \in SUBSET (Prices \cup {0}), p \in Prices \cup {0} :
          OrPrice(S, p) \in SUBSET (Prices \cup {0})
  BY DEF OrPrice
<1>4. BinanceQuote(m) \in Sides BY <1>2, <1>3, SidesFacts DEF BinanceQuote
<1>5. CoinbaseQuote(m, last) \in Sides BY <1>2, <1>3, SidesFacts DEF CoinbaseQuote
<1>6. BybitQuote(m) \in Sides BY <1>2, SidesFacts DEF BybitQuote, BothSides
<1> QED BY <1>4, <1>5, <1>6

LEMMA YieldsType ==
    ASSUME TypeOK, NEW m \in Messages, NEW last \in Prices \cup {0}
    PROVE  HeldAfter(m) \in Sides /\ Yields(m, last) \in Sides
<1>1. held \in Sides /\ m.add \in Sides BY DEF TypeOK, Messages
<1>2. HeldAfter(m) \in Sides BY <1>1, BookTypes, SidesFacts DEF HeldAfter
<1>3. Top(HeldAfter(m), Depth) \in Sides BY <1>2, TopType
<1>4. /\ KrakenQuote(m) = BinanceQuote(m) /\ BitfinexQuote(m) = BinanceQuote(m)
      /\ OkxQuote(m) = BybitQuote(m) /\ BitstampQuote(m) = BybitQuote(m)
      /\ BinanceBook(m) = m.add
  BY DEF KrakenQuote, BitfinexQuote, OkxQuote, BitstampQuote, BinanceQuote, BybitQuote, BinanceBook
<1>5. GeminiQuote(m) \in Sides BY <1>1, BookTypes, SidesFacts DEF GeminiQuote, BothSides
<1>6. Yields(m, last) \in {Top(HeldAfter(m), Depth), Empty, BinanceBook(m), BinanceQuote(m),
                           BybitQuote(m), GeminiQuote(m), CoinbaseQuote(m, last)}
  BY <1>4, Zenon DEF Yields
<1> QED BY <1>1, <1>2, <1>3, <1>4, <1>5, <1>6, QuoteTypes, SidesFacts

LEMMA MinOfTwo ==
    ASSUME NEW a \in Int, NEW b \in Int
    PROVE  Min({a, b}) = IF a <= b THEN a ELSE b
BY DEF Min

LEMMA BackoffType ==
    ASSUME NEW b \in 1 .. MaxBackoff
    PROVE  Min({2 * b, MaxBackoff}) \in 1 .. MaxBackoff
BY MinOfTwo, Bounds

-----------------------------------------------------------------------------
(* The type of each action.                                                *)

LEMMA InitType == Init => TypeOK
<1> SUFFICES ASSUME Init PROVE TypeOK
  OBVIOUS
<1>1. 1 \in 1 .. MaxBackoff /\ 0 \in 0 .. MaxTrades /\ 0 \in 0 .. MaxMoves /\ 0 \in 0 .. MaxDrops
  BY Bounds
<1>2. Empty \in Markets BY DEF Markets, Sides, Empty
<1>3. market \in Markets BY <1>2 DEF Init
<1>4. copies \in [Ids -> Nat] /\ replayed \in [Ids -> Nat] BY DEF Init
<1>5. wire \in Seq(Messages) BY DEF Init
<1> QED BY <1>1, <1>3, <1>4, <1>5, SidesFacts DEF Init, TypeOK

LEMMA SendType ==
    ASSUME TypeOK, NEW ms \in Seq(Messages), Send(ms)
    PROVE  wire' \in Seq(Messages)
BY DEF TypeOK, Send

LEMMA MakeTradeType == TypeOK /\ MakeTrade => TypeOK'
<1> SUFFICES ASSUME TypeOK, MakeTrade PROVE TypeOK'
  OBVIOUS
<1> DEFINE new(n, tag) == Message(tag, trades + 1 .. trades + n, Empty, Empty, Empty)
           sent(n) == IF stream = "bitfinex_trades" THEN <<new(n, "te"), new(n, "tu")>>
                      ELSE <<new(n, "trade")>>
<1>1. PICK n \in 1 .. 2 :
        /\ trades + n <= MaxTrades /\ trades' = trades + n
        /\ Send(sent(n))
        /\ missed' = IF link = "up" THEN missed ELSE missed \cup (trades + 1 .. trades + n)
  <2>1. PICK n \in 1 .. IF stream \in Batched THEN 2 ELSE 1 :
          LET ids == trades + 1 .. trades + n
              new1(tag) == Message(tag, ids, Empty, Empty, Empty)
          IN  /\ trades + n <= MaxTrades
              /\ trades' = trades + n
              /\ Send(IF stream = "bitfinex_trades" THEN <<new1("te"), new1("tu")>>
                      ELSE <<new1("trade")>>)
              /\ missed' = IF link = "up" THEN missed ELSE missed \cup ids
    BY DEF MakeTrade
  <2>2. n \in 1 .. 2 OBVIOUS
  <2> QED BY <2>1, <2>2
<1>2. trades \in Nat /\ trades + 1 .. trades + n \subseteq Ids
  <2>1. trades \in 0 .. MaxTrades BY DEF TypeOK
  <2>2. n \in 1 .. 2 /\ trades + n <= MaxTrades BY <1>1
  <2>3. trades + 1 .. trades + n \subseteq 1 .. MaxTrades BY <2>1, <2>2, Numbers
  <2> QED BY <2>1, <2>3, Numbers DEF Ids
<1>3. \A tag \in {"trade", "te", "tu"} : new(n, tag) \in Messages
  BY <1>2, SidesFacts DEF Message, Messages
<1>4. sent(n) \in Seq(Messages) BY <1>3, SequenceFacts
<1> HIDE DEF sent
<1>5. wire' \in Seq(Messages) BY <1>1, <1>4, SendType
<1>6. trades' \in 0 .. MaxTrades /\ missed' \subseteq Ids BY <1>1, <1>2 DEF TypeOK
<1> QED BY <1>5, <1>6 DEF MakeTrade, TypeOK, generator

\* What is in view of a market is a market.
LEMMA ViewType ==
    ASSUME NEW m \in Markets
    PROVE  View(m) \in Markets /\ View(m) \in Sides
<1>1. m \in Sides BY SidesFacts
<1>2. /\ Top(m, Scope) \in Sides
      /\ Top(m, Scope).bid \subseteq m.bid /\ Top(m, Scope).ask \subseteq m.ask
  BY <1>1, TopType
<1>3. Top(m, Scope) \in Markets BY <1>2 DEF Markets
<1> QED BY <1>1, <1>2, <1>3 DEF View

LEMMA UpdateType ==
    ASSUME TypeOK, NEW m \in Markets
    PROVE  Update(m) \in Messages /\ Whole(m) \in Messages
<1>1. m \in Sides /\ market \in Markets BY SidesFacts DEF TypeOK
<1> DEFINE v == View(m)
           k == View(market)
           lost == Without(k, v)
<1>2. v \in Sides /\ k \in Sides BY <1>1, ViewType
<1>3. Update(m) = Message("update", {}, Without(v, k), Without(lost, m), Both(lost, m))
  BY DEF Update
<1> HIDE DEF v, k
<1>4. Without(v, k) \in Sides /\ lost \in Sides BY <1>2, WithType
<1> HIDE DEF lost
<1>5. Without(lost, m) \in Sides /\ Both(lost, m) \in Sides BY <1>1, <1>4, WithType
<1>6. Update(m) \in Messages BY <1>3, <1>4, <1>5 DEF Message, Messages
<1>7. Whole(m) \in Messages BY <1>1, SidesFacts DEF Whole, Message, Messages
<1> QED BY <1>6, <1>7

LEMMA MoveMarketType == TypeOK /\ MoveMarket => TypeOK'
<1> SUFFICES ASSUME TypeOK, MoveMarket PROVE TypeOK'
  OBVIOUS
<1>1. PICK m \in Markets : market' = m /\
        Send(<<IF stream \in Paced \cup {"gemini_quotes"} THEN Update(m) ELSE Whole(m)>>)
  BY DEF MoveMarket
<1>2. wire' \in Seq(Messages)
  <2>1. (IF stream \in Paced \cup {"gemini_quotes"} THEN Update(m) ELSE Whole(m)) \in Messages
    BY UpdateType
  <2>2. <<IF stream \in Paced \cup {"gemini_quotes"} THEN Update(m) ELSE Whole(m)>> \in Seq(Messages)
    BY <2>1, SequenceFacts
  <2> QED BY <1>1, <2>2, SendType
<1>3. moves' \in 0 .. MaxMoves
  <2>1. moves \in 0 .. MaxMoves BY DEF TypeOK
  <2>2. moves < MaxMoves /\ moves' = moves + 1 BY DEF MoveMarket
  <2> QED BY <2>1, <2>2, Numbers
<1> QED BY <1>1, <1>2, <1>3 DEF MoveMarket, TypeOK, generator

LEMMA ConnectType == TypeOK /\ Connect => TypeOK'
<1> SUFFICES ASSUME TypeOK, Connect PROVE TypeOK'
  OBVIOUS
<1>1. PICK ids \in SUBSET Ids :
        /\ wire' = <<>> \/ \E tag \in {"te", "trade", "snapshot", "update"} :
                              wire' = <<Message(tag, ids, View(market), Empty, Empty)>>
        /\ replayed' = [t \in Ids |-> IF t \in ids THEN replayed[t] + 1 ELSE replayed[t]]
  <2>1. PICK again \in BOOLEAN :
          LET ids == IF again /\ stream \in TradeStreams THEN 1 .. trades ELSE {}
              tag == IF stream = "bitfinex_trades" THEN "te"
                     ELSE IF stream \in TradeStreams THEN "trade"
                     ELSE IF stream = "kraken_book" THEN "snapshot" ELSE "update"
          IN  /\ wire' = IF stream \in TradeStreams /\ ~again THEN <<>>
                         ELSE <<Message(tag, ids, View(market), Empty, Empty)>>
              /\ replayed' = [t \in Ids |-> IF t \in ids THEN replayed[t] + 1 ELSE replayed[t]]
    BY DEF Connect
  <2>2. 1 .. trades \subseteq Ids
    <3>1. trades \in 0 .. MaxTrades BY DEF TypeOK
    <3> QED BY <3>1, Numbers DEF Ids
  <2>3. (IF again /\ stream \in TradeStreams THEN 1 .. trades ELSE {}) \in SUBSET Ids BY <2>2
  <2> QED BY <2>1, <2>3
<1>2. wire' \in Seq(Messages)
  <2>1. View(market) \in Sides BY ViewType DEF TypeOK
  <2>2. \A tag \in {"te", "trade", "snapshot", "update"} : Message(tag, ids, View(market), Empty, Empty) \in Messages
    BY <2>1, SidesFacts DEF Message, Messages
  <2> QED BY <1>1, <2>2, SequenceFacts
<1>3. replayed' \in [Ids -> Nat] BY <1>1 DEF TypeOK
<1>4. backoff' \in 1 .. MaxBackoff
  <2>1. backoff' = 1 BY DEF Connect
  <2> QED BY <2>1, Numbers
<1> QED BY <1>2, <1>3, <1>4 DEF Connect, TypeOK, generator, outside

LEMMA LoseType ==
    ASSUME TypeOK, Lose
    PROVE  /\ wire' \in Seq(Messages) /\ wire' = <<>> /\ drops' \in 0 .. MaxDrops
           /\ missed' \subseteq Ids
           /\ UNCHANGED <<stream, outside, replayed>>
<1>1. Unreceived \subseteq Ids
  <2>1. \A i \in DOMAIN wire : wire[i] \in Messages BY SequenceFacts DEF TypeOK
  <2>2. \A x \in Messages : x.ids \subseteq Ids BY DEF Messages
  <2> QED BY <2>1, <2>2 DEF Unreceived
<1>2. drops' \in 0 .. MaxDrops
  <2>1. drops \in 0 .. MaxDrops BY DEF TypeOK
  <2>2. drops < MaxDrops /\ drops' = drops + 1 BY DEF Lose
  <2> QED BY <2>1, <2>2, Numbers
<1>3. wire' = <<>> /\ wire' \in Seq(Messages) BY SequenceFacts DEF Lose
<1> QED BY <1>1, <1>2, <1>3 DEF Lose, TypeOK

LEMMA ReceiveType == TypeOK /\ Receive => TypeOK'
<1> SUFFICES ASSUME TypeOK, Receive PROVE TypeOK'
  OBVIOUS
<1> DEFINE m == Head(wire)
<1>1. m \in Messages /\ Tail(wire) \in Seq(Messages)
  <2>1. wire \in Seq(Messages) /\ wire # <<>> BY DEF TypeOK, Receive
  <2> QED BY <2>1, SequenceFacts
<1>2. wire' \in Seq(Messages) BY <1>1 DEF Receive
<1>3. copies' \in [Ids -> Nat]
  <2>1. copies' = [t \in Ids |-> IF t \in TradesIn(m) THEN copies[t] + 1 ELSE copies[t]]
    BY DEF Receive
  <2>2. copies \in [Ids -> Nat] BY DEF TypeOK
  <2> QED BY <2>1, <2>2
<1>4. held' \in Sides
  <2>1. 0 \in Prices \cup {0} OBVIOUS
  <2> QED BY <1>1, <2>1, YieldsType DEF Receive
<1>5. told' \in Sides /\ carried' \in Sides
  <2>1. m.add \in Sides /\ m.gone \in Sides /\ m.left \in Sides BY <1>1 DEF Messages
  <2>2. With(told, m.add) \in Sides BY <2>1, WithType DEF TypeOK
  <2>3. Without(carried, m.add) \in Sides BY <2>1, WithType DEF TypeOK
  <2>4. Without(Without(carried, m.add), m.gone) \in Sides BY <2>1, <2>3, WithType
  <2>5. With(Without(Without(carried, m.add), m.gone), m.left) \in Sides BY <2>1, <2>4, WithType
  <2> QED BY <2>2, <2>5, SidesFacts DEF Receive
<1>6. yielded' \in Sides /\ due' \in BOOLEAN
  <2>1. PICK last \in Prices \cup {0} :
          /\ yielded' = IF Yields(m, last) # Empty \/ (stream \in Paced /\ due)
                        THEN Yields(m, last) ELSE yielded
          /\ due' = IF stream \in Paced THEN FALSE ELSE due
    BY DEF Receive
  <2>2. Yields(m, last) \in Sides BY <1>1, YieldsType
  <2> QED BY <2>1, <2>2 DEF TypeOK
<1> QED BY <1>2, <1>3, <1>4, <1>5, <1>6 DEF Receive, TypeOK, outside

LEMMA StepType == TypeOK /\ [Next]_vars => TypeOK'
<1> SUFFICES ASSUME TypeOK, [Next]_vars PROVE TypeOK'
  OBVIOUS
<1>1. CASE MakeTrade BY <1>1, MakeTradeType
<1>2. CASE MoveMarket BY <1>2, MoveMarketType
<1>3. CASE Connect BY <1>3, ConnectType
<1>4. CASE ConnectFails
  <2>1. backoff' \in 1 .. MaxBackoff BY <1>4, BackoffType DEF ConnectFails, TypeOK
  <2>2. drops' \in 0 .. MaxDrops
    <3>1. drops \in 0 .. MaxDrops BY DEF TypeOK
    <3>2. drops < MaxDrops /\ drops' = drops + 1 BY <1>4 DEF ConnectFails
    <3> QED BY <3>1, <3>2, Numbers
  <2> QED BY <1>4, <2>1, <2>2 DEF ConnectFails, TypeOK, generator, outside
<1>5. CASE Close
  <2>1. Lose BY <1>5 DEF Close
  <2>2. backoff' \in 1 .. MaxBackoff BY <1>5, BackoffType DEF Close, TypeOK
  <2>3. carried' \in Sides BY <1>5, SidesFacts DEF Close, TypeOK
  <2> QED BY <1>5, <2>1, <2>2, <2>3, LoseType DEF Close, TypeOK, outside
<1>6. CASE Break
  <2>1. Lose BY <1>6 DEF Break
  <2>2. backoff' \in 1 .. MaxBackoff
    <3>1. 1 \in 1 .. MaxBackoff BY Numbers
    <3> QED BY <1>6, <3>1, BackoffType DEF Break, TypeOK
  <2> QED BY <1>6, <2>1, <2>2, LoseType, SidesFacts DEF Break, TypeOK, outside
<1>7. CASE Receive BY <1>7, ReceiveType
<1>8. CASE FiveSeconds BY <1>8 DEF FiveSeconds, TypeOK, outside
<1>9. CASE UNCHANGED vars BY <1>9 DEF vars, generator, outside, TypeOK
<1> QED BY <1>1, <1>2, <1>3, <1>4, <1>5, <1>6, <1>7, <1>8, <1>9 DEF Next

\* A generator holds and yields levels of both sides, and its backoff stays within
\* its cap (the _connect loops of cryptodata/sources/*.py).
THEOREM TypeCorrect == Spec => []TypeOK
<1> QED BY InitType, StepType, PTL DEF Spec

-----------------------------------------------------------------------------
(* Trades along the wire.                                                  *)

WireOfUp == link # "up" => wire = <<>>

Rate(s) == IF s = "bitfinex_trades" THEN 2 ELSE 1

TagsOf(s) == IF s = "bitfinex_trades" THEN {"te", "tu"}
             ELSE IF s \in TradeStreams THEN {"trade"} ELSE {}

LEMMA TradesInFacts ==
    ASSUME NEW m
    PROVE  TradesIn(m) = Those(m, TagsOf(stream))
<1>1. CASE stream = "bitfinex_trades"
  BY <1>1 DEF TradesIn, TagsOf, BitfinexTrades
<1>2. CASE stream \in TradeStreams \ {"bitfinex_trades"}
  BY <1>2 DEF TradesIn, TagsOf, TradeStreams, BinanceTrades, BybitTrades, KrakenTrades,
              CoinbaseTrades, GeminiTrades, OkxTrades, BitstampTrades
<1>3. CASE stream \notin TradeStreams
  BY <1>3 DEF TradesIn, TagsOf, TradeStreams, Those
<1> QED BY <1>1, <1>2, <1>3

More(s, m, t) == IF t \in Those(m, TagsOf(s)) THEN 1 ELSE 0

\* c counts the rows of t after each message of w, and never exceeds b.
Counts(s, w, t, first, b, c) ==
    /\ c[0] = first
    /\ \A i \in 1 .. Len(w) : c[i] = c[i - 1] + More(s, w[i], t)
    /\ \A i \in 0 .. Len(w) : c[i] <= b

\* A trade that the venue has not made is in no message and in no row.
Unseen ==
    \A t \in Ids : t > trades => copies[t] = 0 /\ \A i \in DOMAIN wire : t \notin wire[i].ids

Counted ==
    \A t \in Ids : \E c \in [0 .. Len(wire) -> Nat] :
        Counts(stream, wire, t, copies[t], Rate(stream) + replayed[t], c)

\* A trade that was not missed has its row, or its message is on the wire.
OnItsWay ==
    stream \in TradeStreams => \A t \in 1 .. trades :
        t \notin missed /\ copies[t] = 0 =>
            \E i \in DOMAIN wire : t \in Those(wire[i], TagsOf(stream))

LEMMA CountsTail ==
    ASSUME NEW s, NEW w \in Seq(Messages), w # <<>>, NEW t, NEW first \in Nat, NEW b \in Nat,
           NEW c \in [0 .. Len(w) -> Nat], Counts(s, w, t, first, b, c)
    PROVE  \E d \in [0 .. Len(Tail(w)) -> Nat] :
               Counts(s, Tail(w), t, first + More(s, Head(w), t), b, d)
<1> DEFINE v == Tail(w)
           d == [i \in 0 .. Len(v) |-> c[i + 1]]
<1>1. /\ Len(w) \in Nat \ {0} /\ Len(v) = Len(w) - 1 /\ Head(w) = w[1]
      /\ \A i \in 1 .. Len(v) : v[i] = w[i + 1]
  OBVIOUS
<1> HIDE DEF v
<1>2. d \in [0 .. Len(v) -> Nat] BY <1>1
<1>3. \A i \in 1 .. Len(w) : c[i] = c[i - 1] + More(s, w[i], t) BY DEF Counts
<1>4. d[0] = first + More(s, Head(w), t)
  <2>1. 1 \in 1 .. Len(w) BY <1>1
  <2>2. c[1] = c[1 - 1] + More(s, w[1], t) BY <1>3, <2>1
  <2>3. c[0] = first BY DEF Counts
  <2>4. 0 \in 0 .. Len(v) BY <1>1
  <2>5. d[0] = c[0 + 1] BY <2>4
  <2> QED BY <1>1, <2>2, <2>3, <2>5
<1>5. ASSUME NEW i \in 1 .. Len(v) PROVE d[i] = d[i - 1] + More(s, v[i], t)
  <2>1. /\ i + 1 \in 1 .. Len(w) /\ i \in 0 .. Len(v) /\ i - 1 \in 0 .. Len(v)
        /\ (i + 1) - 1 = i /\ (i - 1) + 1 = i
    BY <1>1
  <2>2. c[i + 1] = c[i] + More(s, w[i + 1], t) BY <1>3, <2>1
  <2>3. d[i] = c[i + 1] /\ d[i - 1] = c[i] BY <2>1
  <2> QED BY <1>1, <2>2, <2>3
<1>6. \A i \in 0 .. Len(v) : d[i] <= b
  <2>1. \A i \in 0 .. Len(v) : i + 1 \in 0 .. Len(w) BY <1>1
  <2> QED BY <2>1 DEF Counts
<1> HIDE DEF d
<1>7. Counts(s, v, t, first + More(s, Head(w), t), b, d) BY <1>4, <1>5, <1>6 DEF Counts
<1> QED BY <1>2, <1>7 DEF v

LEMMA CountsAppend ==
    ASSUME NEW s, NEW w \in Seq(Messages), NEW m \in Messages, NEW t, NEW first \in Nat,
           NEW b \in Nat, NEW c \in [0 .. Len(w) -> Nat], Counts(s, w, t, first, b, c),
           c[Len(w)] + More(s, m, t) <= b
    PROVE  \E d \in [0 .. Len(Append(w, m)) -> Nat] :
               /\ Counts(s, Append(w, m), t, first, b, d)
               /\ d[Len(Append(w, m))] = c[Len(w)] + More(s, m, t)
<1> DEFINE v == Append(w, m)
           d == [i \in 0 .. Len(v) |-> IF i <= Len(w) THEN c[i] ELSE c[Len(w)] + More(s, m, t)]
<1>1. /\ Len(w) \in Nat /\ Len(v) = Len(w) + 1 /\ v[Len(w) + 1] = m
      /\ \A i \in 1 .. Len(w) : v[i] = w[i]
  OBVIOUS
<1> HIDE DEF v
<1>2. More(s, m, t) \in Nat BY DEF More
<1>3. d \in [0 .. Len(v) -> Nat] BY <1>1, <1>2
<1>4. \A i \in 0 .. Len(w) : d[i] = c[i] BY <1>1
<1>5. d[Len(v)] = c[Len(w)] + More(s, m, t)
  <2>1. Len(v) \in 0 .. Len(v) /\ ~(Len(v) <= Len(w)) BY <1>1
  <2> QED BY <2>1
<1>6. d[0] = first BY <1>1, <1>4 DEF Counts
<1>7. ASSUME NEW i \in 1 .. Len(v) PROVE d[i] = d[i - 1] + More(s, v[i], t)
  <2>1. CASE i \in 1 .. Len(w)
    <3>1. i \in 0 .. Len(w) /\ i - 1 \in 0 .. Len(w) BY <1>1, <2>1
    <3>2. c[i] = c[i - 1] + More(s, w[i], t) BY <2>1 DEF Counts
    <3>3. d[i] = c[i] /\ d[i - 1] = c[i - 1] BY <1>4, <3>1
    <3> QED BY <1>1, <2>1, <3>2, <3>3
  <2>2. CASE i = Len(w) + 1
    <3>1. i - 1 = Len(w) /\ Len(w) \in 0 .. Len(w) /\ i = Len(v) BY <1>1, <2>2
    <3>2. d[i - 1] = c[Len(w)] BY <1>4, <3>1
    <3> QED BY <1>1, <1>5, <2>2, <3>1, <3>2
  <2> QED BY <1>1, <2>1, <2>2
<1>8. ASSUME NEW i \in 0 .. Len(v) PROVE d[i] <= b
  <2>1. CASE i \in 0 .. Len(w) BY <1>4, <2>1 DEF Counts
  <2>2. CASE i = Len(v) BY <1>5, <2>2
  <2> QED BY <1>1, <2>1, <2>2
<1> HIDE DEF d
<1>9. Counts(s, v, t, first, b, d) BY <1>6, <1>7, <1>8 DEF Counts
<1> QED BY <1>3, <1>5, <1>9 DEF v

\* Messages that do not tell t.
LEMMA CountsNone ==
    ASSUME NEW s, NEW w \in Seq(Messages), NEW t, NEW first \in Nat, NEW b \in Nat, first <= b,
           \A i \in 1 .. Len(w) : More(s, w[i], t) = 0
    PROVE  LET d == [i \in 0 .. Len(w) |-> first]
           IN  /\ d \in [0 .. Len(w) -> Nat] /\ d[Len(w)] = first
               /\ Counts(s, w, t, first, b, d)
<1> DEFINE d == [i \in 0 .. Len(w) |-> first]
<1>1. Len(w) \in Nat OBVIOUS
<1>2. d \in [0 .. Len(w) -> Nat] OBVIOUS
<1>3. \A i \in 0 .. Len(w) : d[i] = first OBVIOUS
<1>4. 0 \in 0 .. Len(w) /\ Len(w) \in 0 .. Len(w)
      /\ \A i \in 1 .. Len(w) : i \in 0 .. Len(w) /\ i - 1 \in 0 .. Len(w)
  BY <1>1
<1> HIDE DEF d
<1>5. Counts(s, w, t, first, b, d) BY <1>3, <1>4 DEF Counts
<1>6. d[Len(w)] = first BY <1>3, <1>4
<1> QED BY <1>2, <1>5, <1>6 DEF d

TradeInv == WireOfUp /\ Unseen /\ Counted /\ OnItsWay

LEMMA AppendFacts ==
    ASSUME NEW w \in Seq(Messages), NEW m \in Messages, NEW n \in Messages
    PROVE  /\ Append(w, m) \in Seq(Messages) /\ Len(Append(w, m)) = Len(w) + 1
           /\ Append(w, m)[Len(w) + 1] = m /\ Len(w) + 1 \in DOMAIN Append(w, m)
           /\ \A i \in DOMAIN w : i \in DOMAIN Append(w, m) /\ Append(w, m)[i] = w[i]
           /\ \A i \in DOMAIN Append(w, m) : i \in DOMAIN w \/ i = Len(w) + 1
           /\ w \o <<m>> = Append(w, m)
           /\ w \o <<m, n>> = Append(Append(w, m), n)
           /\ <<m>> = Append(<<>>, m)
OBVIOUS

LEMMA AppendShape ==
    ASSUME NEW w \in Seq(Messages), NEW m \in Messages
    PROVE  /\ \A i \in DOMAIN Append(w, m) :
                (i \in DOMAIN w /\ Append(w, m)[i] = w[i]) \/ Append(w, m)[i] = m
           /\ \A i \in DOMAIN w : i \in DOMAIN Append(w, m) /\ Append(w, m)[i] = w[i]
           /\ \E i \in DOMAIN Append(w, m) : Append(w, m)[i] = m
<1>1. /\ \A i \in DOMAIN w : i \in DOMAIN Append(w, m) /\ Append(w, m)[i] = w[i]
      /\ \A i \in DOMAIN Append(w, m) : i \in DOMAIN w \/ i = Len(w) + 1
      /\ Append(w, m)[Len(w) + 1] = m /\ Len(w) + 1 \in DOMAIN Append(w, m)
  OBVIOUS
<1> QED BY <1>1, Zenon

LEMMA RateFacts ==
    ASSUME NEW s
    PROVE  Rate(s) \in {1, 2} /\ (s # "bitfinex_trades" => Rate(s) = 1)
                              /\ (s = "bitfinex_trades" => Rate(s) = 2)
BY DEF Rate

LEMMA MoreFacts ==
    ASSUME NEW s, NEW m, NEW t
    PROVE  /\ More(s, m, t) \in {0, 1}
           /\ More(s, m, t) = 1 <=> t \in Those(m, TagsOf(s))
           /\ Those(m, TagsOf(s)) \subseteq m.ids
BY DEF More, Those

LEMMA MadeFacts ==
    ASSUME TypeOK, MakeTrade
    PROVE  \E n \in 1 .. 2 : LET ids == trades + 1 .. trades + n IN
             /\ ids \subseteq Ids /\ trades' = trades + n
             /\ missed' = IF link = "up" THEN missed ELSE missed \cup ids
             /\ link # "up" => wire' = wire
             /\ link = "up" => \E m, m2 \in Messages :
                  /\ m.ids = ids /\ m2.ids = ids
                  /\ Those(m, TagsOf(stream)) = ids /\ Those(m2, TagsOf(stream)) = ids
                  /\ IF Rate(stream) = 2 THEN wire' = Append(Append(wire, m), m2)
                     ELSE wire' = Append(wire, m)
<1> DEFINE new(ids, tag) == Message(tag, ids, Empty, Empty, Empty)
<1>1. PICK n \in 1 .. IF stream \in Batched THEN 2 ELSE 1 :
        LET ids == trades + 1 .. trades + n
            new1(tag) == Message(tag, ids, Empty, Empty, Empty)
        IN  /\ trades + n <= MaxTrades
            /\ trades' = trades + n
            /\ Send(IF stream = "bitfinex_trades" THEN <<new1("te"), new1("tu")>>
                    ELSE <<new1("trade")>>)
            /\ missed' = IF link = "up" THEN missed ELSE missed \cup ids
  BY DEF MakeTrade
<1> DEFINE ids == trades + 1 .. trades + n
<1>2. n \in 1 .. 2 OBVIOUS
<1>3. ids \subseteq Ids
  <2>1. trades \in 0 .. MaxTrades BY DEF TypeOK
  <2>2. trades + n <= MaxTrades BY <1>1
  <2>3. ids \subseteq 1 .. MaxTrades BY <1>2, <2>1, <2>2, Numbers
  <2> QED BY <2>3 DEF Ids
<1>4. \A tag \in {"trade", "te", "tu"} : new(ids, tag) \in Messages
          /\ new(ids, tag).ids = ids /\ new(ids, tag).tag = tag
  BY <1>3, SidesFacts DEF Message, Messages
<1>5. link # "up" => wire' = wire BY <1>1 DEF Send
<1>6. wire \in Seq(Messages) BY DEF TypeOK
<1>7. CASE stream = "bitfinex_trades"
  <2>1. link = "up" => wire' = wire \o <<new(ids, "te"), new(ids, "tu")>> BY <1>1, <1>7 DEF Send
  <2>2. wire \o <<new(ids, "te"), new(ids, "tu")>> = Append(Append(wire, new(ids, "te")), new(ids, "tu"))
    BY <1>4, <1>6, AppendFacts
  <2>3. \A tag \in {"te", "tu"} : Those(new(ids, tag), TagsOf(stream)) = ids
    BY <1>4, <1>7 DEF Those, TagsOf
  <2>4. Rate(stream) = 2 BY <1>7, RateFacts
  <2> QED BY <1>1, <1>2, <1>3, <1>4, <1>5, <2>1, <2>2, <2>3, <2>4
<1>8. CASE stream # "bitfinex_trades"
  <2>1. link = "up" => wire' = wire \o <<new(ids, "trade")>> BY <1>1, <1>8 DEF Send
  <2>2. wire \o <<new(ids, "trade")>> = Append(wire, new(ids, "trade"))
    BY <1>4, <1>6, AppendFacts
  <2>3. Those(new(ids, "trade"), TagsOf(stream)) = ids
    <3>1. stream \in TradeStreams BY DEF MakeTrade
    <3> QED BY <1>4, <1>8, <3>1 DEF Those, TagsOf
  <2>4. Rate(stream) # 2
    <3>1. Rate(stream) = 1 BY <1>8, RateFacts
    <3> QED BY <3>1
  <2> QED BY <1>1, <1>2, <1>3, <1>4, <1>5, <2>1, <2>2, <2>3, <2>4
<1> QED BY <1>7, <1>8

LEMMA MakeTradeKeeps ==
    ASSUME TypeOK, TradeInv, MakeTrade
    PROVE  TradeInv'
<1> USE DEF TradeInv
<1>1. UNCHANGED <<stream, link, copies, replayed>> BY DEF MakeTrade, generator
<1>2. PICK n \in 1 .. 2 : LET ids == trades + 1 .. trades + n IN
        /\ ids \subseteq Ids /\ trades' = trades + n
        /\ missed' = IF link = "up" THEN missed ELSE missed \cup ids
        /\ link # "up" => wire' = wire
        /\ link = "up" => \E m, m2 \in Messages :
             /\ m.ids = ids /\ m2.ids = ids
             /\ Those(m, TagsOf(stream)) = ids /\ Those(m2, TagsOf(stream)) = ids
             /\ IF Rate(stream) = 2 THEN wire' = Append(Append(wire, m), m2)
                ELSE wire' = Append(wire, m)
  BY MadeFacts
<1> DEFINE ids == trades + 1 .. trades + n
<1>3. /\ trades \in Nat
      /\ \A t \in Ids : /\ t \in ids \/ t <= trades \/ t > trades + n
                        /\ t > trades + n => t > trades /\ t \notin ids
  <2>1. trades \in 0 .. MaxTrades BY DEF TypeOK
  <2> QED BY <2>1, Numbers DEF Ids
<1>4. \A t \in ids : t > trades BY <1>3
<1>5. \A t \in Ids : copies[t] \in Nat /\ replayed[t] \in Nat /\ Rate(stream) + replayed[t] \in Nat
                     /\ Rate(stream) \in {1, 2} /\ Rate(stream) <= Rate(stream) + replayed[t]
  <2>1. copies \in [Ids -> Nat] /\ replayed \in [Ids -> Nat] BY DEF TypeOK
  <2>2. \A r \in {1, 2}, k \in Nat : r + k \in Nat /\ r <= r + k OBVIOUS
  <2> QED BY <2>1, <2>2, RateFacts
<1>6. wire \in Seq(Messages) BY DEF TypeOK
<1>7. CASE link # "up"
  <2>1. wire' = wire BY <1>2, <1>7
  <2>2. WireOfUp' BY <1>1, <2>1 DEF WireOfUp
  <2>3. Unseen' BY <1>1, <1>2, <1>3, <2>1 DEF Unseen
  <2>4. Counted' BY <1>1, <2>1 DEF Counted
  <2>5. OnItsWay' BY <1>1, <1>2, <1>3, <1>7, <2>1 DEF OnItsWay
  <2> QED BY <2>2, <2>3, <2>4, <2>5
<1>8. CASE link = "up"
  <2>1. PICK m \in Messages, m2 \in Messages :
             /\ m.ids = ids /\ m2.ids = ids
             /\ Those(m, TagsOf(stream)) = ids /\ Those(m2, TagsOf(stream)) = ids
             /\ IF Rate(stream) = 2 THEN wire' = Append(Append(wire, m), m2)
                ELSE wire' = Append(wire, m)
    BY <1>2, <1>8
  <2> DEFINE v == Append(wire, m)
  <2>2. v \in Seq(Messages) BY <1>6, AppendFacts
  <2>3. wire' = v \/ wire' = Append(v, m2) BY <2>1
  <2>4. /\ \A i \in DOMAIN wire' : (i \in DOMAIN wire /\ wire'[i] = wire[i]) \/ wire'[i].ids = ids
        /\ \A i \in DOMAIN wire : i \in DOMAIN wire' /\ wire'[i] = wire[i]
        /\ \E i \in DOMAIN wire' : wire'[i] = m
    <3>1. /\ \A i \in DOMAIN v : (i \in DOMAIN wire /\ v[i] = wire[i]) \/ v[i] = m
          /\ \A i \in DOMAIN wire : i \in DOMAIN v /\ v[i] = wire[i]
          /\ \E i \in DOMAIN v : v[i] = m
      BY <1>6, AppendShape
    <3> HIDE DEF v
    <3>2. CASE wire' = v BY <2>1, <3>1, <3>2
    <3>3. CASE wire' = Append(v, m2)
      <4>1. /\ \A i \in DOMAIN v : i \in DOMAIN wire' /\ wire'[i] = v[i]
            /\ \A i \in DOMAIN wire' : i \in DOMAIN v \/ wire'[i] = m2
        BY <2>2, <3>3, AppendShape
      <4> QED BY <2>1, <3>1, <4>1
    <3> QED BY <2>3, <3>2, <3>3
  <2>5. WireOfUp' BY <1>1, <1>8 DEF WireOfUp
  <2>6. Unseen'
    <3> SUFFICES ASSUME NEW t \in Ids, t > trades'
                 PROVE  copies'[t] = 0 /\ \A i \in DOMAIN wire' : t \notin wire'[i].ids
      BY DEF Unseen
    <3>1. t > trades /\ t \notin ids BY <1>2, <1>3
    <3> QED BY <1>1, <2>4, <3>1 DEF Unseen
  <2>7. OnItsWay'
    <3> SUFFICES ASSUME stream \in TradeStreams, NEW t \in 1 .. trades', t \notin missed', copies'[t] = 0
                 PROVE  \E i \in DOMAIN wire' : t \in Those(wire'[i], TagsOf(stream))
      BY <1>1 DEF OnItsWay
    <3>1. CASE t \in ids BY <2>1, <2>4, <3>1
    <3>2. CASE t \notin ids
      <4>1. t \in 1 .. trades BY <1>2, <1>3, <3>2
      <4>2. t \notin missed /\ copies[t] = 0 BY <1>1, <1>2, <1>8
      <4>3. PICK i \in DOMAIN wire : t \in Those(wire[i], TagsOf(stream)) BY <4>1, <4>2 DEF OnItsWay
      <4> QED BY <2>4, <4>3
    <3> QED BY <3>1, <3>2
  <2>8. Counted'
    <3> SUFFICES ASSUME NEW t \in Ids
                 PROVE  \E c \in [0 .. Len(wire') -> Nat] :
                          Counts(stream, wire', t, copies[t], Rate(stream) + replayed[t], c)
      BY <1>1 DEF Counted
    <3> DEFINE b == Rate(stream) + replayed[t]
               more == IF t \in ids THEN 1 ELSE 0
    <3>1. More(stream, m, t) = more /\ More(stream, m2, t) = more BY <2>1 DEF More
    <3>2. PICK c \in [0 .. Len(wire) -> Nat] :
             /\ Counts(stream, wire, t, copies[t], b, c)
             /\ t \in ids => c[Len(wire)] = 0
      <4>1. CASE t \in ids
        <5>1. copies[t] = 0 /\ \A i \in DOMAIN wire : t \notin wire[i].ids BY <1>4, <4>1 DEF Unseen
        <5>2. \A i \in 1 .. Len(wire) : More(stream, wire[i], t) = 0
          <6>1. DOMAIN wire = 1 .. Len(wire) BY <1>6
          <6> QED BY <5>1, <6>1, MoreFacts
        <5>3. copies[t] <= b BY <1>5, <5>1
        <5>4. copies[t] \in Nat /\ b \in Nat BY <1>5
        <5> HIDE DEF b
        <5> DEFINE none == [i \in 0 .. Len(wire) |-> copies[t]]
        <5>5. /\ none \in [0 .. Len(wire) -> Nat] /\ none[Len(wire)] = copies[t]
              /\ Counts(stream, wire, t, copies[t], b, none)
          BY <1>6, <5>2, <5>3, <5>4, CountsNone
        <5> HIDE DEF none
        <5> QED BY <5>1, <5>5
      <4>2. CASE t \notin ids BY <4>2 DEF Counted
      <4> QED BY <4>1, <4>2
    <3>3. Len(wire) \in Nat /\ c[Len(wire)] <= b
      <4>1. Len(wire) \in Nat BY <1>6
      <4>2. Len(wire) \in 0 .. Len(wire) BY <4>1
      <4> QED BY <3>2, <4>1, <4>2 DEF Counts
    <3>4. c[Len(wire)] + More(stream, m, t) <= b
      <4>1. c[Len(wire)] \in Nat BY <3>3
      <4> QED BY <1>5, <3>1, <3>2, <3>3, <4>1
    <3>5. PICK d \in [0 .. Len(v) -> Nat] :
             Counts(stream, v, t, copies[t], b, d) /\ d[Len(v)] = c[Len(wire)] + More(stream, m, t)
      BY <1>5, <1>6, <3>2, <3>4, CountsAppend
    <3>6. CASE wire' = v BY <3>5, <3>6
    <3>7. CASE wire' # v
      <4>1. wire' = Append(v, m2) /\ Rate(stream) = 2 BY <2>1, <3>7
      <4>2. d[Len(v)] + More(stream, m2, t) <= b
        <5>1. c[Len(wire)] \in Nat BY <3>3
        <5> QED BY <1>5, <3>1, <3>2, <3>3, <3>5, <4>1, <5>1
      <4> HIDE DEF v
      <4> QED BY <1>5, <2>2, <3>5, <4>1, <4>2, CountsAppend
    <3> QED BY <3>6, <3>7
  <2> QED BY <2>5, <2>6, <2>7, <2>8
<1> QED BY <1>7, <1>8

LEMMA ReceiveKeeps ==
    ASSUME TypeOK, TradeInv, Receive
    PROVE  TradeInv'
<1> USE DEF TradeInv
<1> DEFINE m == Head(wire)
<1>1. /\ UNCHANGED <<stream, link, trades, replayed, missed>> /\ wire' = Tail(wire)
      /\ copies' = [t \in Ids |-> IF t \in TradesIn(m) THEN copies[t] + 1 ELSE copies[t]]
  BY DEF Receive, outside
<1>2. wire \in Seq(Messages) /\ wire # <<>> /\ copies \in [Ids -> Nat] /\ replayed \in [Ids -> Nat]
  BY DEF TypeOK, Receive
<1>3. /\ m = wire[1] /\ 1 \in DOMAIN wire
      /\ \A i \in DOMAIN wire' : i + 1 \in DOMAIN wire /\ wire'[i] = wire[i + 1]
      /\ \A i \in DOMAIN wire : i = 1 \/ (i - 1 \in DOMAIN wire' /\ wire'[i - 1] = wire[i])
  BY <1>1, <1>2
<1>4. \A t \in Ids : copies'[t] = copies[t] + More(stream, m, t)
  BY <1>1, <1>2, TradesInFacts DEF More
<1>5. \A t \in Ids : More(stream, m, t) \in {0, 1} /\ copies[t] \in Nat
                     /\ Rate(stream) + replayed[t] \in Nat
  <2>1. \A r \in {1, 2}, k \in Nat : r + k \in Nat OBVIOUS
  <2> QED BY <1>2, <2>1, MoreFacts, RateFacts
<1>6. WireOfUp' BY <1>1, <1>2 DEF WireOfUp
<1>7. Unseen'
  <2> SUFFICES ASSUME NEW t \in Ids, t > trades
               PROVE  copies'[t] = 0 /\ \A i \in DOMAIN wire' : t \notin wire'[i].ids
    BY <1>1 DEF Unseen
  <2>1. copies[t] = 0 /\ \A i \in DOMAIN wire : t \notin wire[i].ids BY DEF Unseen
  <2>2. More(stream, m, t) = 0 BY <1>3, <2>1, MoreFacts
  <2> QED BY <1>3, <1>4, <2>1, <2>2
<1>8. OnItsWay'
  <2> SUFFICES ASSUME stream \in TradeStreams, NEW t \in 1 .. trades, t \notin missed, copies'[t] = 0
               PROVE  \E i \in DOMAIN wire' : t \in Those(wire'[i], TagsOf(stream))
    BY <1>1 DEF OnItsWay
  <2>1. t \in Ids
    <3>1. trades \in 0 .. MaxTrades BY DEF TypeOK
    <3> QED BY <3>1, Numbers DEF Ids
  <2>2. copies[t] = 0 /\ More(stream, m, t) = 0 BY <1>4, <1>5, <2>1
  <2>3. PICK i \in DOMAIN wire : t \in Those(wire[i], TagsOf(stream)) BY <2>2 DEF OnItsWay
  <2>4. i # 1
    <3>1. t \notin Those(m, TagsOf(stream)) BY <2>2 DEF More
    <3> QED BY <1>3, <2>3, <3>1
  <2> QED BY <1>3, <2>3, <2>4
<1>9. Counted'
  <2> SUFFICES ASSUME NEW t \in Ids
               PROVE  \E d \in [0 .. Len(Tail(wire)) -> Nat] :
                        Counts(stream, Tail(wire), t, copies[t] + More(stream, m, t),
                               Rate(stream) + replayed[t], d)
    BY <1>1, <1>4 DEF Counted
  <2>1. PICK c \in [0 .. Len(wire) -> Nat] :
           Counts(stream, wire, t, copies[t], Rate(stream) + replayed[t], c)
    BY DEF Counted
  <2> QED BY <1>2, <1>5, <2>1, CountsTail
<1> QED BY <1>6, <1>7, <1>8, <1>9

\* No row of a trade yet is more than it may have.
LEMMA CopiesBound ==
    ASSUME TypeOK, Counted, NEW t \in Ids
    PROVE  /\ copies[t] \in Nat /\ Rate(stream) + replayed[t] \in Nat
           /\ copies[t] <= Rate(stream) + replayed[t]
<1>1. PICK c \in [0 .. Len(wire) -> Nat] :
         Counts(stream, wire, t, copies[t], Rate(stream) + replayed[t], c)
  BY DEF Counted
<1>2. 0 \in 0 .. Len(wire)
  <2>1. wire \in Seq(Messages) BY DEF TypeOK
  <2>2. Len(wire) \in Nat BY <2>1
  <2> QED BY <2>2
<1>3. copies[t] <= Rate(stream) + replayed[t] BY <1>1, <1>2 DEF Counts
<1>4. \A r \in {1, 2}, k \in Nat : r + k \in Nat OBVIOUS
<1>5. copies[t] \in Nat /\ replayed[t] \in Nat BY DEF TypeOK
<1> QED BY <1>3, <1>4, <1>5, RateFacts

None(first) == [i \in 0 .. 0 |-> first]

LEMMA EmptyCounts ==
    ASSUME NEW s, NEW t, NEW first \in Nat, NEW b \in Nat, first <= b
    PROVE  /\ None(first) \in [0 .. Len(<<>>) -> Nat] /\ None(first)[Len(<<>>)] = first
           /\ Counts(s, <<>>, t, first, b, None(first))
<1>1. Len(<<>>) = 0 /\ 1 .. 0 = {} /\ 0 .. 0 = {0} OBVIOUS
<1>2. None(first) \in [0 .. 0 -> Nat] /\ None(first)[0] = first BY <1>1 DEF None
<1> QED BY <1>1, <1>2 DEF Counts

LEMMA CountsOfEmpty ==
    ASSUME TypeOK, Counted, NEW t \in Ids
    PROVE  \E d \in [0 .. Len(<<>>) -> Nat] :
               Counts(stream, <<>>, t, copies[t], Rate(stream) + replayed[t], d)
<1>1. /\ copies[t] \in Nat /\ Rate(stream) + replayed[t] \in Nat
      /\ copies[t] <= Rate(stream) + replayed[t]
  BY CopiesBound
<1> DEFINE none == None(copies[t])
<1>2. /\ none \in [0 .. Len(<<>>) -> Nat]
      /\ Counts(stream, <<>>, t, copies[t], Rate(stream) + replayed[t], none)
  BY <1>1, EmptyCounts
<1> HIDE DEF none
<1> QED BY <1>2

LEMMA ConnectFacts ==
    ASSUME TypeOK, Connect
    PROVE  \E ids \in SUBSET (1 .. trades) :
             /\ wire' = <<>> \/ \E m \in Messages : m.ids = ids /\ wire' = <<m>>
             /\ replayed' = [t \in Ids |-> IF t \in ids THEN replayed[t] + 1 ELSE replayed[t]]
<1>1. PICK again \in BOOLEAN :
        LET ids == IF again /\ stream \in TradeStreams THEN 1 .. trades ELSE {}
            tag == IF stream = "bitfinex_trades" THEN "te"
                   ELSE IF stream \in TradeStreams THEN "trade"
                   ELSE IF stream = "kraken_book" THEN "snapshot" ELSE "update"
        IN  /\ wire' = IF stream \in TradeStreams /\ ~again THEN <<>>
                       ELSE <<Message(tag, ids, View(market), Empty, Empty)>>
            /\ replayed' = [t \in Ids |-> IF t \in ids THEN replayed[t] + 1 ELSE replayed[t]]
  BY DEF Connect
<1> DEFINE ids == IF again /\ stream \in TradeStreams THEN 1 .. trades ELSE {}
           tag == IF stream = "bitfinex_trades" THEN "te"
                  ELSE IF stream \in TradeStreams THEN "trade"
                  ELSE IF stream = "kraken_book" THEN "snapshot" ELSE "update"
<1>2. ids \in SUBSET (1 .. trades) /\ ids \subseteq Ids
  <2>1. trades \in 0 .. MaxTrades BY DEF TypeOK
  <2>2. 1 .. trades \subseteq Ids BY <2>1, Numbers DEF Ids
  <2> QED BY <2>2
<1>3. View(market) \in Sides BY ViewType DEF TypeOK
<1>4. /\ Message(tag, ids, View(market), Empty, Empty) \in Messages
      /\ Message(tag, ids, View(market), Empty, Empty).ids = ids
  <2>1. tag \in {"trade", "te", "tu", "snapshot", "update"} OBVIOUS
  <2> HIDE DEF tag, ids
  <2> QED BY <1>2, <1>3, <2>1, SidesFacts DEF Message, Messages
<1> QED BY <1>1, <1>2, <1>4

LEMMA ConnectKeeps ==
    ASSUME TypeOK, TradeInv, Connect
    PROVE  TradeInv'
<1> USE DEF TradeInv
<1>1. UNCHANGED <<stream, copies, trades, missed>> /\ wire = <<>> /\ link' = "up"
  BY DEF Connect, generator, outside, WireOfUp
<1>2. PICK ids \in SUBSET (1 .. trades) :
         /\ wire' = <<>> \/ \E m \in Messages : m.ids = ids /\ wire' = <<m>>
         /\ replayed' = [t \in Ids |-> IF t \in ids THEN replayed[t] + 1 ELSE replayed[t]]
  BY ConnectFacts
<1>3. \A i \in DOMAIN wire' : wire'[i].ids = ids BY <1>2
<1>4. WireOfUp' BY <1>1 DEF WireOfUp
<1>5. Unseen'
  <2>1. \A t \in Ids : t > trades => t \notin ids
    <3>1. trades \in 0 .. MaxTrades BY DEF TypeOK
    <3> QED BY <3>1, Numbers DEF Ids
  <2> QED BY <1>1, <1>3, <2>1 DEF Unseen
<1>6. OnItsWay' BY <1>1 DEF OnItsWay
<1>7. Counted'
  <2> SUFFICES ASSUME NEW t \in Ids
               PROVE  \E d \in [0 .. Len(wire') -> Nat] :
                        Counts(stream, wire', t, copies[t], Rate(stream) + replayed'[t], d)
    BY <1>1 DEF Counted
  <2> DEFINE b == Rate(stream) + replayed'[t]
  <2>1. copies[t] \in Nat /\ copies[t] <= Rate(stream) + replayed[t] BY CopiesBound
  <2>2. replayed[t] \in Nat /\ replayed'[t] = (IF t \in ids THEN replayed[t] + 1 ELSE replayed[t])
    BY <1>2 DEF TypeOK
  <2>3. Rate(stream) \in {1, 2} BY RateFacts
  <2>4. b \in Nat /\ copies[t] <= b /\ (t \in ids => copies[t] + 1 <= b)
    BY <2>1, <2>2, <2>3
  <2> HIDE DEF b
  <2> DEFINE c == None(copies[t])
  <2>5. /\ c \in [0 .. Len(<<>>) -> Nat] /\ c[Len(<<>>)] = copies[t]
        /\ Counts(stream, <<>>, t, copies[t], b, c)
    BY <2>1, <2>4, EmptyCounts
  <2> HIDE DEF c
  <2>6. CASE wire' = <<>> BY <2>5, <2>6 DEF b
  <2>7. CASE \E m \in Messages : m.ids = ids /\ wire' = <<m>>
    <3>1. PICK m \in Messages : m.ids = ids /\ wire' = <<m>> BY <2>7
    <3>2. wire' = Append(<<>>, m) BY <3>1
    <3>3. c[Len(<<>>)] + More(stream, m, t) <= b BY <2>1, <2>4, <2>5, <3>1, MoreFacts
    <3>4. <<>> \in Seq(Messages) OBVIOUS
    <3> QED BY <2>1, <2>4, <2>5, <3>2, <3>3, <3>4, CountsAppend DEF b
  <2> QED BY <1>2, <2>6, <2>7
<1> QED BY <1>4, <1>5, <1>6, <1>7

LEMMA LoseKeeps ==
    ASSUME TypeOK, TradeInv, Lose, copies' = copies
    PROVE  TradeInv'
<1> USE DEF TradeInv
<1>1. /\ UNCHANGED <<stream, copies, trades, replayed>> /\ wire' = <<>>
      /\ missed' = missed \cup {t \in Unreceived : copies[t] = 0}
  BY DEF Lose, outside
<1>2. WireOfUp' /\ Unseen' BY <1>1 DEF WireOfUp, Unseen
<1>3. OnItsWay'
  <2> SUFFICES ASSUME stream \in TradeStreams, NEW t \in 1 .. trades, t \notin missed', copies[t] = 0
               PROVE  FALSE
    BY <1>1 DEF OnItsWay
  <2>1. PICK i \in DOMAIN wire : t \in Those(wire[i], TagsOf(stream)) BY <1>1 DEF OnItsWay
  <2>2. t \in wire[i].ids BY <2>1 DEF Those
  <2> QED BY <1>1, <2>2 DEF Unreceived
<1>4. Counted'
  <2> SUFFICES ASSUME NEW t \in Ids
               PROVE  \E d \in [0 .. Len(<<>>) -> Nat] :
                        Counts(stream, <<>>, t, copies[t], Rate(stream) + replayed[t], d)
    BY <1>1 DEF Counted
  <2> QED BY CountsOfEmpty
<1> QED BY <1>2, <1>3, <1>4

LEMMA MoveMarketKeeps ==
    ASSUME TypeOK, TradeInv, MoveMarket
    PROVE  TradeInv'
<1> USE DEF TradeInv
<1>1. UNCHANGED <<stream, link, copies, replayed, missed, trades>> /\ stream \notin TradeStreams
  BY DEF MoveMarket, generator
<1>2. PICK m \in Messages : m.ids = {} /\ Send(<<m>>)
  <2>1. PICK x \in Markets : Send(<<IF stream \in Paced \cup {"gemini_quotes"} THEN Update(x) ELSE Whole(x)>>)
    BY DEF MoveMarket
  <2>2. Update(x) \in Messages /\ Whole(x) \in Messages BY UpdateType
  <2>3. Update(x).ids = {} /\ Whole(x).ids = {} BY DEF Update, Whole, Message
  <2> QED BY <2>1, <2>2, <2>3
<1>3. wire \in Seq(Messages) BY DEF TypeOK
<1>4. OnItsWay' BY <1>1 DEF OnItsWay
<1>5. CASE link # "up"
  <2>1. wire' = wire BY <1>2, <1>5 DEF Send
  <2> QED BY <1>1, <1>4, <2>1 DEF WireOfUp, Unseen, Counted
<1>6. CASE link = "up"
  <2>1. wire' = Append(wire, m)
    <3>1. wire' = wire \o <<m>> BY <1>2, <1>6 DEF Send
    <3> QED BY <1>3, <3>1, AppendFacts
  <2>2. WireOfUp' BY <1>1, <1>6 DEF WireOfUp
  <2>3. Unseen' BY <1>1, <1>2, <1>3, <2>1, AppendShape DEF Unseen
  <2>4. Counted'
    <3> SUFFICES ASSUME NEW t \in Ids
                 PROVE  \E d \in [0 .. Len(Append(wire, m)) -> Nat] :
                          Counts(stream, Append(wire, m), t, copies[t], Rate(stream) + replayed[t], d)
      BY <1>1, <2>1 DEF Counted
    <3>1. PICK c \in [0 .. Len(wire) -> Nat] :
             Counts(stream, wire, t, copies[t], Rate(stream) + replayed[t], c)
      BY DEF Counted
    <3>2. copies[t] \in Nat /\ Rate(stream) + replayed[t] \in Nat BY CopiesBound
    <3>3. More(stream, m, t) = 0 BY <1>2, MoreFacts
    <3>4. c[Len(wire)] + More(stream, m, t) <= Rate(stream) + replayed[t]
      <4>1. Len(wire) \in Nat BY <1>3
      <4>2. Len(wire) \in 0 .. Len(wire) BY <4>1
      <4>3. c[Len(wire)] \in Nat /\ c[Len(wire)] <= Rate(stream) + replayed[t]
        BY <3>1, <4>2 DEF Counts
      <4> QED BY <3>3, <4>3
    <3> QED BY <1>3, <3>1, <3>2, <3>4, CountsAppend
  <2> QED BY <1>4, <2>2, <2>3, <2>4
<1> QED BY <1>5, <1>6

LEMMA InitTrades == Init => TradeInv
<1> SUFFICES ASSUME Init PROVE TradeInv
  OBVIOUS
<1>1. wire = <<>> /\ trades = 0 /\ \A t \in Ids : copies[t] = 0 /\ replayed[t] = 0 BY DEF Init
<1>2. Counted
  <2> SUFFICES ASSUME NEW t \in Ids
               PROVE  \E d \in [0 .. Len(<<>>) -> Nat] : Counts(stream, <<>>, t, 0, Rate(stream) + 0, d)
    BY <1>1 DEF Counted
  <2>1. Rate(stream) + 0 \in Nat /\ 0 <= Rate(stream) + 0
    <3>1. \A r \in {1, 2} : r + 0 \in Nat /\ 0 <= r + 0 OBVIOUS
    <3> QED BY <3>1, RateFacts
  <2> DEFINE none == None(0)
  <2>2. none \in [0 .. Len(<<>>) -> Nat] /\ Counts(stream, <<>>, t, 0, Rate(stream) + 0, none)
    BY <2>1, EmptyCounts
  <2> HIDE DEF none
  <2> QED BY <2>2
<1> QED BY <1>1, <1>2 DEF TradeInv, WireOfUp, Unseen, OnItsWay

LEMMA StepTrades == TypeOK /\ TradeInv /\ [Next]_vars => TradeInv'
<1> SUFFICES ASSUME TypeOK, TradeInv, [Next]_vars PROVE TradeInv'
  OBVIOUS
<1>1. ASSUME UNCHANGED <<stream, link, wire, copies, replayed, missed, trades>> PROVE TradeInv'
  BY <1>1 DEF TradeInv, WireOfUp, Unseen, OnItsWay, Counted
<1>2. CASE MakeTrade BY <1>2, MakeTradeKeeps
<1>3. CASE MoveMarket BY <1>3, MoveMarketKeeps
<1>4. CASE Connect BY <1>4, ConnectKeeps
<1>5. CASE ConnectFails BY <1>1, <1>5 DEF ConnectFails, generator, outside
<1>6. CASE Close BY <1>6, LoseKeeps DEF Close
<1>7. CASE Break BY <1>7, LoseKeeps DEF Break
<1>8. CASE Receive BY <1>8, ReceiveKeeps
<1>9. CASE FiveSeconds BY <1>1, <1>9 DEF FiveSeconds, outside
<1>10. CASE UNCHANGED vars BY <1>1, <1>10 DEF vars, generator, outside
<1> QED BY <1>2, <1>3, <1>4, <1>5, <1>6, <1>7, <1>8, <1>9, <1>10 DEF Next

\* No message makes more rows of a trade than it may have - two from Bitfinex,
\* one more for each subscription that repeats it - and a trade that was received
\* has its row (the stream_trades of cryptodata/sources/*.py).
THEOREM CopiesAreExplained == Spec => []CopiesExplained
<1>1. TypeOK /\ TradeInv => CopiesExplained
  <2> SUFFICES ASSUME TypeOK, TradeInv, NEW t \in 1 .. trades
               PROVE  /\ copies[t] <= (IF stream = "bitfinex_trades" THEN 2 ELSE 1) + replayed[t]
                      /\ stream \in TradeStreams /\ t \notin missed /\ wire = <<>> => copies[t] > 0
    BY DEF CopiesExplained
  <2>1. t \in Ids
    <3>1. trades \in 0 .. MaxTrades BY DEF TypeOK
    <3> QED BY <3>1, Numbers DEF Ids
  <2>2. copies[t] \in Nat /\ copies[t] <= Rate(stream) + replayed[t]
    BY <2>1, CopiesBound DEF TradeInv
  <2>3. stream \in TradeStreams /\ t \notin missed /\ wire = <<>> => copies[t] # 0
    BY DEF TradeInv, OnItsWay
  <2>4. copies[t] <= (IF stream = "bitfinex_trades" THEN 2 ELSE 1) + replayed[t]
    BY <2>2 DEF Rate
  <2>5. ASSUME copies[t] # 0 PROVE copies[t] > 0
    <3> DEFINE n == copies[t]
    <3>1. n \in Nat /\ n # 0 BY <2>2, <2>5
    <3> HIDE DEF n
    <3>2. n > 0 BY <3>1
    <3> QED BY <3>2 DEF n
  <2> QED BY <2>3, <2>4, <2>5
<1>2. Init => TypeOK /\ TradeInv BY InitType, InitTrades
<1>3. (TypeOK /\ TradeInv) /\ [Next]_vars => (TypeOK /\ TradeInv)' BY StepType, StepTrades
<1> QED BY <1>1, <1>2, <1>3, PTL DEF Spec
-----------------------------------------------------------------------------
(* Books along the wire: the book that Kraken's and Coinbase's generators  *)
(* hold, what of it nothing tells of any more, and what is in view of the   *)
(* market that the messages so far tell.                                   *)

Stages == [book : Sides, carried : Sides, market : Markets]

BookWith(s, q, m) == IF s = "kraken_book" THEN KrakenBook(q, m) ELSE CoinbaseBook(q, m)
CarriedWith(c, m) ==
    IF m.tag = "snapshot" THEN Empty ELSE With(Without(Without(c, m.add), m.gone), m.left)

\* What is held tells what is in view, but for what nothing tells of.
Good(x) ==
    /\ Without(x.book, x.carried) = Without(x.market, x.carried)
    /\ x.market.bid \subseteq x.book.bid /\ x.market.ask \subseteq x.book.ask

Along(s, w, q, c, g) ==
    /\ g[0].book = q /\ g[0].carried = c
    /\ \A i \in 1 .. Len(w) : /\ g[i].book = BookWith(s, g[i - 1].book, w[i])
                              /\ g[i].carried = CarriedWith(g[i - 1].carried, w[i])
    /\ \A i \in 0 .. Len(w) : Good(g[i])

\* The last message on the wire tells the market as it is.
Followed ==
    stream \in Paced => \E g \in [0 .. Len(wire) -> Stages] :
        /\ Along(stream, wire, held, carried, g)
        /\ link = "up" => g[Len(wire)].market = View(market)

CarriedAll == stream \in Paced /\ link # "up" => carried = held

\* Gemini's handler keeps the best of all it was told.
BestTold == stream = "gemini_quotes" => held = Top(told, 1)

\* A ticker, and Binance's partial book, tell a market.
TellsMarkets ==
    stream \notin TradeStreams \cup Paced \cup {"gemini_quotes"} =>
        \A i \in DOMAIN wire : wire[i].add \in Markets

BookInv == Followed /\ CarriedAll /\ BestTold /\ TellsMarkets

LEMMA StageFacts ==
    ASSUME NEW s, NEW x \in Stages, NEW m \in Messages
    PROVE  /\ x.book \in Sides /\ x.carried \in Sides /\ x.market \in Markets
           /\ BookWith(s, x.book, m) \in Sides /\ CarriedWith(x.carried, m) \in Sides
<1>1. x.book \in Sides /\ x.carried \in Sides /\ x.market \in Markets BY DEF Stages
<1>2. m.add \in Sides /\ m.gone \in Sides /\ m.left \in Sides BY DEF Messages
<1>3. BookWith(s, x.book, m) \in Sides BY <1>1, BookTypes DEF BookWith
<1>4. Without(x.carried, m.add) \in Sides BY <1>1, <1>2, WithType
<1>5. Without(Without(x.carried, m.add), m.gone) \in Sides BY <1>2, <1>4, WithType
<1>6. With(Without(Without(x.carried, m.add), m.gone), m.left) \in Sides BY <1>2, <1>5, WithType
<1> QED BY <1>1, <1>3, <1>6, SidesFacts DEF CarriedWith

LEMMA AlongTail ==
    ASSUME NEW s, NEW w \in Seq(Messages), w # <<>>, NEW q, NEW c,
           NEW g \in [0 .. Len(w) -> Stages], Along(s, w, q, c, g)
    PROVE  \E d \in [0 .. Len(Tail(w)) -> Stages] :
               /\ Along(s, Tail(w), BookWith(s, q, Head(w)), CarriedWith(c, Head(w)), d)
               /\ d[Len(Tail(w))] = g[Len(w)]
<1> DEFINE v == Tail(w)
           d == [i \in 0 .. Len(v) |-> g[i + 1]]
<1>1. /\ Len(w) \in Nat \ {0} /\ Len(v) = Len(w) - 1 /\ Head(w) = w[1]
      /\ \A i \in 1 .. Len(v) : v[i] = w[i + 1]
  OBVIOUS
<1> HIDE DEF v
<1>2. \A i \in 0 .. Len(v) : i + 1 \in 0 .. Len(w) BY <1>1
<1>3. d \in [0 .. Len(v) -> Stages] BY <1>2
<1>4. \A i \in 0 .. Len(v) : d[i] = g[i + 1] OBVIOUS
<1>5. 0 \in 0 .. Len(v) /\ Len(v) \in 0 .. Len(v) /\ Len(v) + 1 = Len(w) /\ 0 + 1 = 1
      /\ 1 \in 1 .. Len(w) /\ 1 - 1 = 0
  BY <1>1
<1> HIDE DEF d
<1>6. /\ d[0].book = BookWith(s, q, Head(w)) /\ d[0].carried = CarriedWith(c, Head(w))
      /\ d[Len(v)] = g[Len(w)]
  BY <1>1, <1>4, <1>5 DEF Along
<1>7. ASSUME NEW i \in 1 .. Len(v)
      PROVE  /\ d[i].book = BookWith(s, d[i - 1].book, v[i])
             /\ d[i].carried = CarriedWith(d[i - 1].carried, v[i])
  <2>1. /\ i + 1 \in 1 .. Len(w) /\ i \in 0 .. Len(v) /\ i - 1 \in 0 .. Len(v)
        /\ (i + 1) - 1 = i /\ (i - 1) + 1 = i
    BY <1>1
  <2>2. d[i] = g[i + 1] /\ d[i - 1] = g[i] /\ v[i] = w[i + 1] BY <1>1, <1>4, <2>1
  <2>3. /\ g[i + 1].book = BookWith(s, g[i].book, w[i + 1])
        /\ g[i + 1].carried = CarriedWith(g[i].carried, w[i + 1])
    BY <2>1 DEF Along
  <2> QED BY <2>2, <2>3
<1>8. \A i \in 0 .. Len(v) : Good(d[i]) BY <1>2, <1>4 DEF Along
<1>9. Along(s, v, BookWith(s, q, Head(w)), CarriedWith(c, Head(w)), d)
  BY <1>6, <1>7, <1>8 DEF Along
<1> QED BY <1>3, <1>6, <1>9 DEF v

LEMMA AlongAppend ==
    ASSUME NEW s, NEW w \in Seq(Messages), NEW m \in Messages, NEW q, NEW c,
           NEW g \in [0 .. Len(w) -> Stages], Along(s, w, q, c, g), NEW x \in Stages, Good(x),
           x.book = BookWith(s, g[Len(w)].book, m), x.carried = CarriedWith(g[Len(w)].carried, m)
    PROVE  \E d \in [0 .. Len(Append(w, m)) -> Stages] :
               Along(s, Append(w, m), q, c, d) /\ d[Len(Append(w, m))] = x
<1> DEFINE v == Append(w, m)
           d == [i \in 0 .. Len(v) |-> IF i <= Len(w) THEN g[i] ELSE x]
<1>1. /\ Len(w) \in Nat /\ Len(v) = Len(w) + 1 /\ v[Len(w) + 1] = m
      /\ \A i \in 1 .. Len(w) : v[i] = w[i]
  OBVIOUS
<1> HIDE DEF v
<1>2. d \in [0 .. Len(v) -> Stages] BY <1>1
<1>3. \A i \in 0 .. Len(w) : d[i] = g[i] BY <1>1
<1>4. d[Len(v)] = x
  <2>1. Len(v) \in 0 .. Len(v) /\ ~(Len(v) <= Len(w)) BY <1>1
  <2> QED BY <2>1
<1> HIDE DEF d
<1>5. d[0].book = q /\ d[0].carried = c
  <2>1. 0 \in 0 .. Len(w) BY <1>1
  <2> QED BY <1>3, <2>1 DEF Along
<1>6. ASSUME NEW i \in 1 .. Len(v)
      PROVE  /\ d[i].book = BookWith(s, d[i - 1].book, v[i])
             /\ d[i].carried = CarriedWith(d[i - 1].carried, v[i])
  <2>1. CASE i \in 1 .. Len(w)
    <3>1. i \in 0 .. Len(w) /\ i - 1 \in 0 .. Len(w) BY <1>1, <2>1
    <3>2. d[i] = g[i] /\ d[i - 1] = g[i - 1] /\ v[i] = w[i] BY <1>1, <1>3, <2>1, <3>1
    <3>3. /\ g[i].book = BookWith(s, g[i - 1].book, w[i])
          /\ g[i].carried = CarriedWith(g[i - 1].carried, w[i])
      BY <2>1 DEF Along
    <3> QED BY <3>2, <3>3
  <2>2. CASE i = Len(w) + 1
    <3>1. i - 1 = Len(w) /\ Len(w) \in 0 .. Len(w) /\ i = Len(v) BY <1>1, <2>2
    <3>2. d[i - 1] = g[Len(w)] /\ v[i] = m /\ d[i] = x BY <1>1, <1>3, <1>4, <2>2, <3>1
    <3> QED BY <3>2
  <2> QED BY <1>1, <2>1, <2>2
<1>7. ASSUME NEW i \in 0 .. Len(v) PROVE Good(d[i])
  <2>1. CASE i \in 0 .. Len(w) BY <1>3, <2>1 DEF Along
  <2>2. CASE i = Len(v) BY <1>4, <2>2
  <2> QED BY <1>1, <2>1, <2>2
<1>8. Along(s, v, q, c, d) BY <1>5, <1>6, <1>7 DEF Along
<1> QED BY <1>2, <1>4, <1>8 DEF v

Single(x) == [i \in 0 .. 0 |-> x]

LEMMA AlongEmpty ==
    ASSUME NEW s, NEW x \in Stages, Good(x)
    PROVE  /\ Single(x) \in [0 .. Len(<<>>) -> Stages] /\ Single(x)[Len(<<>>)] = x
           /\ Along(s, <<>>, x.book, x.carried, Single(x))
<1>1. Len(<<>>) = 0 /\ 1 .. 0 = {} /\ 0 .. 0 = {0} OBVIOUS
<1>2. Single(x) \in [0 .. 0 -> Stages] /\ Single(x)[0] = x BY <1>1 DEF Single
<1> QED BY <1>1, <1>2 DEF Along

\* One side of a book, what is in view of the market, k, and what a message makes
\* of it when n of the new market m comes into view.
LEMMA SideMoved ==
    ASSUME NEW h, NEW c, NEW k, NEW n, NEW m, h \ c = k \ c, k \subseteq h
    PROVE  LET after == (h \ ((k \ n) \ m)) \cup (n \ k)
               left  == ((c \ (n \ k)) \ ((k \ n) \ m)) \cup ((k \ n) \cap m)
           IN  after \ left = n \ left /\ n \subseteq after
OBVIOUS

LEMMA SideTold ==
    ASSUME NEW h, NEW k
    PROVE  LET after == (h \ {}) \cup k
               left  == ((h \ k) \ {}) \cup {}
           IN  after \ left = k \ left /\ k \subseteq after
OBVIOUS

LEMMA MoveGood ==
    ASSUME TypeOK, NEW s \in Paced, NEW x \in Stages, Good(x), x.market = View(market),
           NEW m \in Markets, NEW y \in Stages, y.market = View(m),
           y.book = BookWith(s, x.book, Update(m)), y.carried = CarriedWith(x.carried, Update(m))
    PROVE  Good(y)
<1> DEFINE u == Update(m)
           k == View(market)
           v == View(m)
<1>1. /\ u.tag = "update"
      /\ u.add = [bid |-> v.bid \ k.bid, ask |-> v.ask \ k.ask]
      /\ u.gone = [bid |-> (k.bid \ v.bid) \ m.bid, ask |-> (k.ask \ v.ask) \ m.ask]
      /\ u.left = [bid |-> (k.bid \ v.bid) \cap m.bid, ask |-> (k.ask \ v.ask) \cap m.ask]
  BY DEF Update, Message, Without, Both
<1> HIDE DEF u
<1>2. y.book = Apply(x.book, u) BY <1>1 DEF BookWith, KrakenBook, CoinbaseBook, u
<1>3. y.carried = With(Without(Without(x.carried, u.add), u.gone), u.left)
  BY <1>1 DEF CarriedWith, u
<1> HIDE DEF k, v
<1>4. y.book = [bid |-> (x.book.bid \ ((k.bid \ v.bid) \ m.bid)) \cup (v.bid \ k.bid),
                ask |-> (x.book.ask \ ((k.ask \ v.ask) \ m.ask)) \cup (v.ask \ k.ask)]
  BY <1>1, <1>2 DEF Apply
<1>5. y.carried =
        [bid |-> ((x.carried.bid \ (v.bid \ k.bid)) \ ((k.bid \ v.bid) \ m.bid))
                     \cup ((k.bid \ v.bid) \cap m.bid),
         ask |-> ((x.carried.ask \ (v.ask \ k.ask)) \ ((k.ask \ v.ask) \ m.ask))
                     \cup ((k.ask \ v.ask) \cap m.ask)]
  BY <1>1, <1>3 DEF Without, With
<1>6. /\ x.book.bid \ x.carried.bid = k.bid \ x.carried.bid /\ k.bid \subseteq x.book.bid
      /\ x.book.ask \ x.carried.ask = k.ask \ x.carried.ask /\ k.ask \subseteq x.book.ask
  BY DEF Good, Without, k
<1>7. y.book.bid \ y.carried.bid = v.bid \ y.carried.bid /\ v.bid \subseteq y.book.bid
  BY <1>4, <1>5, <1>6, SideMoved
<1>8. y.book.ask \ y.carried.ask = v.ask \ y.carried.ask /\ v.ask \subseteq y.book.ask
  BY <1>4, <1>5, <1>6, SideMoved
<1> QED BY <1>7, <1>8 DEF Good, Without, v

LEMMA ConnectGood ==
    ASSUME NEW s \in Paced, NEW x \in Stages, x.carried = x.book,
           NEW y \in Stages, NEW u, u.tag = (IF s = "kraken_book" THEN "snapshot" ELSE "update"),
           u.add = y.market, u.gone = Empty, u.left = Empty,
           y.book = BookWith(s, x.book, u), y.carried = CarriedWith(x.carried, u)
    PROVE  Good(y)
<1> DEFINE k == y.market
<1>1. CASE s = "kraken_book"
  <2>1. y.book = k BY <1>1 DEF BookWith, KrakenBook
  <2> QED BY <2>1 DEF Good
<1>2. CASE s # "kraken_book"
  <2>1. y.book = [bid |-> (x.book.bid \ {}) \cup k.bid, ask |-> (x.book.ask \ {}) \cup k.ask]
    BY <1>2 DEF BookWith, CoinbaseBook, Apply, Empty
  <2>2. y.carried = [bid |-> ((x.book.bid \ k.bid) \ {}) \cup {},
                     ask |-> ((x.book.ask \ k.ask) \ {}) \cup {}]
    BY <1>2 DEF CarriedWith, Without, With, Empty
  <2>3. y.book.bid \ y.carried.bid = k.bid \ y.carried.bid /\ k.bid \subseteq y.book.bid
    BY <2>1, <2>2, SideTold
  <2>4. y.book.ask \ y.carried.ask = k.ask \ y.carried.ask /\ k.ask \subseteq y.book.ask
    BY <2>1, <2>2, SideTold
  <2> QED BY <2>3, <2>4 DEF Good, Without
<1> QED BY <1>1, <1>2
-----------------------------------------------------------------------------
(* The best prices of a side.                                              *)

LEMMA LevelFacts ==
    ASSUME NEW S \in SUBSET (Prices \cup {0})
    PROVE  /\ IsFiniteSet(S) /\ Cardinality(S) \in Nat /\ (Cardinality(S) < 1 <=> S = {})
           /\ \A x \in S : x \in Nat
           /\ \A T \in SUBSET S : Cardinality(T) \in Nat
                                  /\ Cardinality(T) <= Cardinality(S)
                                  /\ (Cardinality(T) = Cardinality(S) => T = S)
<1>1. IsFiniteSet({0}) BY FS_Singleton
<1>2. IsFiniteSet(Prices \cup {0}) BY <1>1, Bounds, FS_Union
<1>3. IsFiniteSet(S) BY <1>2, FS_Subset
<1>4. \A T \in SUBSET S : IsFiniteSet(T) /\ Cardinality(T) <= Cardinality(S)
                          /\ (Cardinality(S) = Cardinality(T) => S = T)
  BY <1>3, FS_Subset
<1>5. \A T \in SUBSET S : Cardinality(T) \in Nat BY <1>4, FS_CardinalityType
<1>6. Cardinality(S) \in Nat BY <1>3, FS_CardinalityType
<1>7. Cardinality(S) = 0 <=> S = {} BY <1>3, FS_EmptySet
<1>8. Cardinality(S) < 1 <=> Cardinality(S) = 0 BY <1>6
<1>9. \A x \in S : x \in Nat BY Bounds
<1> QED BY <1>3, <1>4, <1>5, <1>6, <1>7, <1>8, <1>9

LEMMA BestIs ==
    ASSUME NEW S \in SUBSET (Prices \cup {0})
    PROVE  /\ Highest(S, 1) = {x \in S : \A y \in S : y <= x}
           /\ Lowest(S, 1) = {x \in S : \A y \in S : x <= y}
<1>1. ASSUME NEW x \in S
      PROVE  /\ Cardinality({y \in S : y > x}) < 1 <=> {y \in S : y > x} = {}
             /\ Cardinality({y \in S : y < x}) < 1 <=> {y \in S : y < x} = {}
  <2>1. {y \in S : y > x} \in SUBSET (Prices \cup {0})
        /\ {y \in S : y < x} \in SUBSET (Prices \cup {0})
    OBVIOUS
  <2> QED BY <2>1, LevelFacts
<1>2. \A x \in S, y \in S : (~(y > x) <=> y <= x) /\ (~(y < x) <=> x <= y)
  <2>1. \A x \in S : x \in Int BY LevelFacts
  <2> QED BY <2>1
<1>3. \A x \in S : /\ {y \in S : y > x} = {} <=> \A y \in S : ~(y > x)
                   /\ {y \in S : y < x} = {} <=> \A y \in S : ~(y < x)
  OBVIOUS
<1>4. \A x \in S : /\ Cardinality({y \in S : y > x}) < 1 <=> \A y \in S : y <= x
                   /\ Cardinality({y \in S : y < x}) < 1 <=> \A y \in S : x <= y
  BY <1>1, <1>2, <1>3
<1>5. Highest(S, 1) = {x \in S : \A y \in S : y <= x} BY <1>4 DEF Highest
<1>6. Lowest(S, 1) = {x \in S : \A y \in S : x <= y} BY <1>4 DEF Lowest
<1> QED BY <1>5, <1>6

LEMMA LeastExists ==
    ASSUME NEW T \in SUBSET Nat, T # {}
    PROVE  \E m \in T : \A n \in T : m <= n
<1>1. PICK m \in T : \A n \in T : <<n, m>> \notin OpToRel(<, Nat)
  BY NatLessThanWellFounded, WFMin, Zenon
<1>2. \A n \in T : ~(n < m) BY <1>1, Zenon DEF OpToRel
<1> QED BY <1>2

\* The level above which the fewest levels lie is the highest.
LEMMA BestExists ==
    ASSUME NEW S \in SUBSET (Prices \cup {0}), S # {}
    PROVE  /\ \E x \in S : \A y \in S : y <= x
           /\ \E x \in S : \A y \in S : x <= y
<1>1. S \in SUBSET Nat BY LevelFacts
<1>2. \E x \in S : \A y \in S : x <= y BY <1>1, LeastExists
<1> DEFINE Above(x) == {y \in S : y > x}
           Ranks == {Cardinality(Above(x)) : x \in S}
<1>3. \A x \in S : Above(x) \in SUBSET S OBVIOUS
<1>4. Ranks \in SUBSET Nat /\ Ranks # {}
  <2>1. \A x \in S : Cardinality(Above(x)) \in Nat BY <1>3, LevelFacts
  <2> HIDE DEF Above
  <2> QED BY <2>1
<1>5. PICK x \in S : \A y \in S : Cardinality(Above(x)) <= Cardinality(Above(y))
  <2> HIDE DEF Above
  <2>1. PICK r \in Ranks : \A q \in Ranks : r <= q BY <1>4, LeastExists
  <2>2. PICK x \in S : r = Cardinality(Above(x)) BY <2>1
  <2> QED BY <2>1, <2>2
<1>6. ASSUME NEW y \in S, y > x PROVE FALSE
  <2>1. Above(y) \in SUBSET Above(x) /\ y \in Above(x) /\ y \notin Above(y)
    <3>1. \A z \in S : z \in Int BY <1>1
    <3>2. x \in Int /\ y \in Int BY <3>1
    <3>3. ASSUME NEW z \in Above(y) PROVE z \in Above(x)
      <4>1. z \in Int BY <3>1
      <4> QED BY <1>6, <3>2, <4>1
    <3>4. y \in Above(x) BY <1>6
    <3>5. y \notin Above(y) BY <3>2
    <3>6. Above(y) \subseteq Above(x)
      <4> HIDE DEF Above
      <4> QED BY <3>3
    <3> QED BY <3>4, <3>5, <3>6
  <2>2. Above(x) \in SUBSET (Prices \cup {0}) OBVIOUS
  <2> HIDE DEF Above
  <2>3. /\ Cardinality(Above(y)) \in Nat /\ Cardinality(Above(x)) \in Nat
        /\ Cardinality(Above(y)) <= Cardinality(Above(x))
        /\ Cardinality(Above(y)) # Cardinality(Above(x))
    BY <2>1, <2>2, LevelFacts
  <2>4. Cardinality(Above(x)) <= Cardinality(Above(y)) BY <1>5
  <2> QED BY <2>3, <2>4
<1>7. \A y \in S : y <= x
  <2>1. \A z \in S : z \in Int BY <1>1
  <2> QED BY <1>6, <2>1
<1> QED BY <1>2, <1>7

\* The best of the best and more is the best of all.
LEMMA BestAgain ==
    ASSUME NEW S \in SUBSET (Prices \cup {0}), NEW T \in SUBSET (Prices \cup {0})
    PROVE  /\ Highest(Highest(S, 1) \cup T, 1) = Highest(S \cup T, 1)
           /\ Lowest(Lowest(S, 1) \cup T, 1) = Lowest(S \cup T, 1)
<1>1. \A x \in S \cup T : x \in Int BY LevelFacts
<1>2. Highest(S, 1) \subseteq S /\ Lowest(S, 1) \subseteq S BY BestIs
<1>3. Highest(S, 1) \cup T \in SUBSET (Prices \cup {0})
      /\ Lowest(S, 1) \cup T \in SUBSET (Prices \cup {0}) /\ S \cup T \in SUBSET (Prices \cup {0})
  BY <1>2
<1>4. CASE S = {}
  <2>1. Highest(S, 1) \cup T = S \cup T /\ Lowest(S, 1) \cup T = S \cup T BY <1>2, <1>4
  <2> QED BY <2>1
<1>5. CASE S # {}
  <2>1. PICK h \in S : \A y \in S : y <= h BY <1>5, BestExists
  <2>2. PICK l \in S : \A y \in S : l <= y BY <1>5, BestExists
  <2>3. h \in Highest(S, 1) /\ \A z \in Highest(S, 1) : z \in S /\ \A y \in S : y <= z
    BY <2>1, BestIs
  <2>4. l \in Lowest(S, 1) /\ \A z \in Lowest(S, 1) : z \in S /\ \A y \in S : z <= y
    BY <2>2, BestIs
  <2>5. ASSUME NEW x
        PROVE  (x \in Highest(S, 1) \cup T /\ \A y \in Highest(S, 1) \cup T : y <= x)
               <=> (x \in S \cup T /\ \A y \in S \cup T : y <= x)
    <3>1. ASSUME x \in Highest(S, 1) \cup T, \A y \in Highest(S, 1) \cup T : y <= x
          PROVE  x \in S \cup T /\ \A y \in S \cup T : y <= x
      <4>1. x \in S \cup T BY <1>2, <3>1
      <4>2. ASSUME NEW y \in S PROVE y <= x
        <5>1. y <= h /\ h <= x BY <2>1, <2>3, <3>1
        <5>2. x \in Int /\ y \in Int /\ h \in Int BY <1>1, <4>1
        <5> QED BY <5>1, <5>2
      <4> QED BY <3>1, <4>1, <4>2
    <3>2. ASSUME x \in S \cup T, \A y \in S \cup T : y <= x
          PROVE  x \in Highest(S, 1) \cup T /\ \A y \in Highest(S, 1) \cup T : y <= x
      <4>1. x \in S => x \in Highest(S, 1) BY <3>2, BestIs
      <4> QED BY <1>2, <3>2, <4>1
    <3> QED BY <3>1, <3>2
  <2>6. ASSUME NEW x
        PROVE  (x \in Lowest(S, 1) \cup T /\ \A y \in Lowest(S, 1) \cup T : x <= y)
               <=> (x \in S \cup T /\ \A y \in S \cup T : x <= y)
    <3>1. ASSUME x \in Lowest(S, 1) \cup T, \A y \in Lowest(S, 1) \cup T : x <= y
          PROVE  x \in S \cup T /\ \A y \in S \cup T : x <= y
      <4>1. x \in S \cup T BY <1>2, <3>1
      <4>2. ASSUME NEW y \in S PROVE x <= y
        <5>1. x <= l /\ l <= y BY <2>2, <2>4, <3>1
        <5>2. x \in Int /\ y \in Int /\ l \in Int BY <1>1, <4>1
        <5> QED BY <5>1, <5>2
      <4> QED BY <3>1, <4>1, <4>2
    <3>2. ASSUME x \in S \cup T, \A y \in S \cup T : x <= y
          PROVE  x \in Lowest(S, 1) \cup T /\ \A y \in Lowest(S, 1) \cup T : x <= y
      <4>1. x \in S => x \in Lowest(S, 1) BY <3>2, BestIs
      <4> QED BY <1>2, <3>2, <4>1
    <3> QED BY <3>1, <3>2
  <2>7. Highest(Highest(S, 1) \cup T, 1) = {x \in Highest(S, 1) \cup T : \A y \in Highest(S, 1) \cup T : y <= x}
    BY <1>3, BestIs
  <2>8. Lowest(Lowest(S, 1) \cup T, 1) = {x \in Lowest(S, 1) \cup T : \A y \in Lowest(S, 1) \cup T : x <= y}
    BY <1>3, BestIs
  <2>9. Highest(S \cup T, 1) = {x \in S \cup T : \A y \in S \cup T : y <= x}
        /\ Lowest(S \cup T, 1) = {x \in S \cup T : \A y \in S \cup T : x <= y}
    BY <1>3, BestIs
  <2>10. Highest(Highest(S, 1) \cup T, 1) = Highest(S \cup T, 1) BY <2>5, <2>7, <2>9
  <2>11. Lowest(Lowest(S, 1) \cup T, 1) = Lowest(S \cup T, 1) BY <2>6, <2>8, <2>9
  <2> QED BY <2>10, <2>11
<1> QED BY <1>4, <1>5

LEMMA TopAgain ==
    ASSUME NEW q \in Sides, NEW m \in Messages
    PROVE  GeminiBest(Top(q, 1), m) = Top(With(q, m.add), 1)
<1>1. m.add \in Sides BY DEF Messages
<1>2. q.bid \in SUBSET (Prices \cup {0}) /\ q.ask \in SUBSET (Prices \cup {0})
      /\ m.add.bid \in SUBSET (Prices \cup {0}) /\ m.add.ask \in SUBSET (Prices \cup {0})
  BY <1>1, SidesFacts
<1>3. /\ Highest(Highest(q.bid, 1) \cup m.add.bid, 1) = Highest(q.bid \cup m.add.bid, 1)
      /\ Lowest(Lowest(q.ask, 1) \cup m.add.ask, 1) = Lowest(q.ask \cup m.add.ask, 1)
  BY <1>2, BestAgain
<1> QED BY <1>3 DEF GeminiBest, Top, With

LEMMA TopOfEmpty == Top(Empty, 1) = Empty
BY DEF Top, Highest, Lowest, Empty
-----------------------------------------------------------------------------
(* The steps of what is held.                                              *)

LEMMA StreamFacts ==
    /\ Paced = {"kraken_book", "coinbase_book"}
    /\ \A s \in TradeStreams : s \notin Paced /\ s # "gemini_quotes"
    /\ "gemini_quotes" \notin Paced
BY DEF Paced, TradeStreams

LEMMA HeldFacts ==
    ASSUME NEW m
    PROVE  /\ stream \in Paced => HeldAfter(m) = BookWith(stream, held, m)
           /\ stream = "gemini_quotes" => HeldAfter(m) = GeminiBest(held, m)
BY DEF HeldAfter, BookWith, Paced

LEMMA InitBooks == Init => BookInv
<1> SUFFICES ASSUME Init PROVE BookInv
  OBVIOUS
<1>1. wire = <<>> /\ link = "down" /\ held = Empty /\ carried = Empty /\ told = Empty BY DEF Init
<1>2. Empty \in Markets /\ Empty \in Sides BY DEF Markets, Sides, Empty
<1> DEFINE x == [book |-> Empty, carried |-> Empty, market |-> Empty]
<1>3. x \in Stages /\ x.book = Empty /\ x.carried = Empty /\ x.market = Empty BY <1>2 DEF Stages
<1> HIDE DEF x
<1>4. Good(x) BY <1>3 DEF Good
<1>5. /\ Single(x) \in [0 .. Len(wire) -> Stages]
      /\ Along(stream, wire, held, carried, Single(x))
  BY <1>1, <1>3, <1>4, AlongEmpty
<1>6. Followed BY <1>1, <1>5 DEF Followed
<1> QED BY <1>1, <1>6, TopOfEmpty DEF BookInv, CarriedAll, BestTold, TellsMarkets

LEMMA MakeTradeBooks ==
    ASSUME MakeTrade
    PROVE  BookInv'
<1>1. stream \in TradeStreams /\ stream' = stream BY DEF MakeTrade
<1> QED BY <1>1, StreamFacts DEF BookInv, Followed, CarriedAll, BestTold, TellsMarkets

LEMMA MoveMarketBooks ==
    ASSUME TypeOK, BookInv, MoveMarket
    PROVE  BookInv'
<1>1. UNCHANGED <<stream, link, held, carried, told>> BY DEF MoveMarket, generator
<1>2. PICK m \in Markets :
        /\ market' = m
        /\ Send(<<IF stream \in Paced \cup {"gemini_quotes"} THEN Update(m) ELSE Whole(m)>>)
  BY DEF MoveMarket
<1>3. wire \in Seq(Messages) BY DEF TypeOK
<1>4. CarriedAll' /\ BestTold' BY <1>1 DEF BookInv, CarriedAll, BestTold
<1>5. CASE link # "up"
  <2>1. wire' = wire BY <1>2, <1>5 DEF Send
  <2> QED BY <1>1, <1>4, <1>5, <2>1 DEF BookInv, Followed, TellsMarkets, View
<1>6. CASE link = "up"
  <2> DEFINE u == IF stream \in Paced \cup {"gemini_quotes"} THEN Update(m) ELSE Whole(m)
  <2>1. u \in Messages BY UpdateType
  <2>2. wire' = Append(wire, u)
    <3>1. wire' = wire \o <<u>> BY <1>2, <1>6 DEF Send
    <3> QED BY <1>3, <2>1, <3>1, AppendFacts
  <2>3. TellsMarkets'
    <3> SUFFICES ASSUME stream \notin TradeStreams \cup Paced \cup {"gemini_quotes"}
                 PROVE  \A i \in DOMAIN wire' : wire'[i].add \in Markets
      BY <1>1 DEF TellsMarkets
    <3>1. u.add = m BY DEF Whole, Message
    <3>2. \A i \in DOMAIN wire : wire[i].add \in Markets BY DEF BookInv, TellsMarkets
    <3> HIDE DEF u
    <3> QED BY <1>3, <2>1, <2>2, <3>1, <3>2, AppendShape
  <2>4. Followed'
    <3> SUFFICES ASSUME stream \in Paced
                 PROVE  \E g \in [0 .. Len(wire') -> Stages] :
                          /\ Along(stream, wire', held, carried, g)
                          /\ g[Len(wire')].market = View(m)
      BY <1>1, <1>2 DEF Followed, View
    <3>1. u = Update(m) OBVIOUS
    <3>2. PICK g \in [0 .. Len(wire) -> Stages] :
            Along(stream, wire, held, carried, g) /\ g[Len(wire)].market = View(market)
      BY <1>6 DEF BookInv, Followed
    <3>3. Len(wire) \in 0 .. Len(wire)
      <4>1. Len(wire) \in Nat BY <1>3
      <4> QED BY <4>1
    <3> DEFINE x == g[Len(wire)]
               y == [book |-> BookWith(stream, x.book, u), carried |-> CarriedWith(x.carried, u),
                     market |-> View(m)]
    <3>4. x \in Stages /\ Good(x) BY <3>2, <3>3 DEF Along
    <3> HIDE DEF u
    <3>5. y \in Stages
      <4> HIDE DEF x
      <4>1. BookWith(stream, x.book, u) \in Sides /\ CarriedWith(x.carried, u) \in Sides
        BY <2>1, <3>4, StageFacts
      <4> QED BY <4>1, ViewType DEF Stages
    <3>6. y.market = View(m) /\ y.book = BookWith(stream, x.book, u) /\ y.carried = CarriedWith(x.carried, u)
      OBVIOUS
    <3> HIDE DEF x, y
    <3>7. Good(y) BY <3>1, <3>2, <3>4, <3>5, <3>6, MoveGood DEF x
    <3>8. \E d \in [0 .. Len(Append(wire, u)) -> Stages] :
             Along(stream, Append(wire, u), held, carried, d) /\ d[Len(Append(wire, u))] = y
      BY <1>3, <2>1, <3>2, <3>5, <3>6, <3>7, AlongAppend DEF x
    <3> QED BY <2>2, <3>6, <3>8
  <2> QED BY <1>4, <2>3, <2>4 DEF BookInv
<1> QED BY <1>5, <1>6

LEMMA ConnectBooks ==
    ASSUME TypeOK, WireOfUp, BookInv, Connect
    PROVE  BookInv'
<1>1. UNCHANGED <<stream, held, carried, told, market>> /\ link = "down" /\ link' = "up" /\ wire = <<>>
  BY DEF Connect, generator, outside, WireOfUp
<1>2. ASSUME stream \notin TradeStreams
      PROVE  \E u \in Messages :
               /\ wire' = <<u>> /\ u.add = View(market) /\ u.gone = Empty /\ u.left = Empty
               /\ u.tag = IF stream = "kraken_book" THEN "snapshot" ELSE "update"
  <2> DEFINE tag == IF stream = "kraken_book" THEN "snapshot" ELSE "update"
             u == Message(tag, {}, View(market), Empty, Empty)
  <2>1. stream # "bitfinex_trades" BY <1>2 DEF TradeStreams
  <2>2. wire' = <<u>> BY <1>2, <2>1 DEF Connect
  <2>3. u.add = View(market) /\ u.gone = Empty /\ u.left = Empty /\ u.tag = tag BY DEF Message
  <2>4. u \in Messages
    <3>1. View(market) \in Sides BY ViewType DEF TypeOK
    <3>2. tag \in {"trade", "te", "tu", "snapshot", "update"} OBVIOUS
    <3> HIDE DEF tag
    <3> QED BY <3>1, <3>2, SidesFacts DEF Message, Messages
  <2> QED BY <2>2, <2>3, <2>4
<1>3. CarriedAll' /\ BestTold' BY <1>1 DEF BookInv, CarriedAll, BestTold
<1>4. TellsMarkets'
  <2> SUFFICES ASSUME stream \notin TradeStreams PROVE \A i \in DOMAIN wire' : wire'[i].add \in Markets
    BY <1>1 DEF TellsMarkets
  <2>1. PICK u \in Messages : wire' = <<u>> /\ u.add = View(market) BY <1>2
  <2>2. View(market) \in Markets BY ViewType DEF TypeOK
  <2>3. \A i \in DOMAIN wire' : wire'[i] = u BY <2>1
  <2> QED BY <2>1, <2>2, <2>3
<1>5. Followed'
  <2> SUFFICES ASSUME stream \in Paced
               PROVE  \E g \in [0 .. Len(wire') -> Stages] :
                        Along(stream, wire', held, carried, g) /\ g[Len(wire')].market = View(market)
    BY <1>1 DEF Followed, View
  <2>1. PICK u \in Messages :
          /\ wire' = <<u>> /\ u.add = View(market) /\ u.gone = Empty /\ u.left = Empty
          /\ u.tag = IF stream = "kraken_book" THEN "snapshot" ELSE "update"
    BY <1>2, StreamFacts
  <2>2. PICK g \in [0 .. Len(wire) -> Stages] : Along(stream, wire, held, carried, g)
    BY DEF BookInv, Followed
  <2>3. wire \in Seq(Messages) /\ Len(wire) = 0 /\ 0 \in 0 .. 0 BY <1>1
  <2> DEFINE x == g[Len(wire)]
             y == [book |-> BookWith(stream, x.book, u), carried |-> CarriedWith(x.carried, u),
                   market |-> View(market)]
  <2>4. x \in Stages /\ x.book = held /\ x.carried = carried BY <2>2, <2>3 DEF Along
  <2>5. x.carried = x.book
    <3>1. carried = held BY <1>1 DEF BookInv, CarriedAll
    <3> QED BY <2>4, <3>1
  <2>6. y \in Stages
    <3> HIDE DEF x
    <3>1. BookWith(stream, x.book, u) \in Sides /\ CarriedWith(x.carried, u) \in Sides
      BY <2>4, StageFacts
    <3>2. View(market) \in Markets BY ViewType DEF TypeOK
    <3> QED BY <3>1, <3>2 DEF Stages
  <2>7. y.market = View(market) /\ y.book = BookWith(stream, x.book, u) /\ y.carried = CarriedWith(x.carried, u)
    OBVIOUS
  <2> HIDE DEF x, y
  <2>8. Good(y) BY <2>1, <2>4, <2>5, <2>6, <2>7, ConnectGood
  <2>9. \E d \in [0 .. Len(Append(wire, u)) -> Stages] :
           Along(stream, Append(wire, u), held, carried, d) /\ d[Len(Append(wire, u))] = y
    <3>1. wire \in Seq(Messages) BY DEF TypeOK
    <3>2. /\ y.book = BookWith(stream, g[Len(wire)].book, u)
          /\ y.carried = CarriedWith(g[Len(wire)].carried, u)
      BY <2>7 DEF x
    <3>3. u \in Messages /\ Along(stream, wire, held, carried, g) BY <2>1, <2>2
    <3> QED BY <2>6, <2>8, <3>1, <3>2, <3>3, AlongAppend
  <2>10. wire' = Append(wire, u) BY <1>1, <2>1, AppendFacts
  <2> QED BY <2>7, <2>9, <2>10
<1> QED BY <1>3, <1>4, <1>5 DEF BookInv

\* The generator goes on with what it held.
LEMMA CloseBooks ==
    ASSUME TypeOK, BookInv, Close
    PROVE  BookInv'
<1>1. /\ UNCHANGED <<stream, held, told>> /\ wire' = <<>> /\ link' = "down"
      /\ carried' = IF stream \in Paced THEN held ELSE Empty
  BY DEF Close, Lose
<1>2. CarriedAll' /\ BestTold' /\ TellsMarkets'
  BY <1>1, StreamFacts DEF BookInv, CarriedAll, BestTold, TellsMarkets
<1>3. Followed'
  <2> SUFFICES ASSUME stream \in Paced
               PROVE  \E g \in [0 .. Len(<<>>) -> Stages] : Along(stream, <<>>, held, held, g)
    BY <1>1 DEF Followed
  <2> DEFINE x == [book |-> held, carried |-> held, market |-> Empty]
  <2>5. x \in Stages
    <3>1. Empty \in Markets BY DEF Markets, Sides, Empty
    <3> QED BY <3>1 DEF Stages, TypeOK
  <2>6. Good(x)
    <3>1. Without(held, held) = Without(Empty, held) BY DEF Without, Empty
    <3>2. x.book = held /\ x.carried = held /\ x.market = Empty OBVIOUS
    <3> HIDE DEF x
    <3> QED BY <3>1, <3>2 DEF Good, Empty
  <2>7. x.book = held /\ x.carried = held OBVIOUS
  <2> HIDE DEF x
  <2>8. Single(x) \in [0 .. Len(<<>>) -> Stages] /\ Along(stream, <<>>, held, held, Single(x))
    BY <2>5, <2>6, <2>7, AlongEmpty
  <2> QED BY <2>8
<1> QED BY <1>2, <1>3 DEF BookInv

\* A fresh generator holds nothing.
LEMMA BreakBooks ==
    ASSUME Break
    PROVE  BookInv'
<1>1. /\ stream' = stream /\ wire' = <<>> /\ link' = "down"
      /\ held' = Empty /\ carried' = Empty /\ told' = Empty
  BY DEF Break, Lose
<1>2. Empty \in Markets /\ Empty \in Sides BY DEF Markets, Sides, Empty
<1> DEFINE x == [book |-> Empty, carried |-> Empty, market |-> Empty]
<1>3. x \in Stages /\ x.book = Empty /\ x.carried = Empty /\ x.market = Empty BY <1>2 DEF Stages
<1> HIDE DEF x
<1>4. Good(x) BY <1>3 DEF Good
<1>5. /\ Single(x) \in [0 .. Len(<<>>) -> Stages]
      /\ Along(stream, <<>>, Empty, Empty, Single(x))
  BY <1>3, <1>4, AlongEmpty
<1>6. Followed' BY <1>1, <1>5 DEF Followed
<1> QED BY <1>1, <1>6, TopOfEmpty DEF BookInv, CarriedAll, BestTold, TellsMarkets

LEMMA ReceiveBooks ==
    ASSUME TypeOK, WireOfUp, BookInv, Receive
    PROVE  BookInv'
<1> DEFINE m == Head(wire)
<1>1. /\ UNCHANGED <<stream, link, market>> /\ wire # <<>> /\ wire' = Tail(wire)
      /\ held' = HeldAfter(m) /\ carried' = CarriedWith(carried, m)
      /\ told' = IF stream = "gemini_quotes" THEN With(told, m.add) ELSE Empty
  BY DEF Receive, outside, CarriedWith
<1>2. wire \in Seq(Messages) /\ m \in Messages /\ told \in Sides
  BY <1>1, SequenceFacts DEF TypeOK
<1>3. link = "up" BY <1>1 DEF WireOfUp
<1>4. CarriedAll' BY <1>1, <1>3 DEF CarriedAll
<1>5. BestTold'
  <2> SUFFICES ASSUME stream = "gemini_quotes" PROVE held' = Top(told', 1)
    BY <1>1 DEF BestTold
  <2>1. held = Top(told, 1) BY DEF BookInv, BestTold
  <2>2. held' = GeminiBest(Top(told, 1), m) BY <1>1, <2>1, HeldFacts
  <2> HIDE DEF m
  <2> QED BY <1>1, <1>2, <2>2, TopAgain
<1>6. TellsMarkets'
  <2>1. \A i \in DOMAIN wire' : i + 1 \in DOMAIN wire /\ wire'[i] = wire[i + 1] BY <1>1, <1>2
  <2> QED BY <1>1, <2>1 DEF BookInv, TellsMarkets
<1>7. Followed'
  <2> SUFFICES ASSUME stream \in Paced
               PROVE  \E d \in [0 .. Len(Tail(wire)) -> Stages] :
                        /\ Along(stream, Tail(wire), BookWith(stream, held, m), CarriedWith(carried, m), d)
                        /\ d[Len(Tail(wire))].market = View(market)
    BY <1>1, HeldFacts DEF Followed, View
  <2>1. PICK g \in [0 .. Len(wire) -> Stages] :
          Along(stream, wire, held, carried, g) /\ g[Len(wire)].market = View(market)
    BY <1>3 DEF BookInv, Followed
  <2>2. \E d \in [0 .. Len(Tail(wire)) -> Stages] :
           /\ Along(stream, Tail(wire), BookWith(stream, held, m), CarriedWith(carried, m), d)
           /\ d[Len(Tail(wire))] = g[Len(wire)]
    <3>1. wire \in Seq(Messages) /\ wire # <<>> BY <1>1, <1>2
    <3>2. Along(stream, wire, held, carried, g) BY <2>1
    <3> QED BY <3>1, <3>2, AlongTail
  <2> QED BY <2>1, <2>2
<1> QED BY <1>4, <1>5, <1>6, <1>7 DEF BookInv

LEMMA StepBooks == TypeOK /\ WireOfUp /\ BookInv /\ [Next]_vars => BookInv'
<1> SUFFICES ASSUME TypeOK, WireOfUp, BookInv, [Next]_vars PROVE BookInv'
  OBVIOUS
<1>1. ASSUME UNCHANGED <<stream, link, wire, held, carried, told, market>> PROVE BookInv'
  BY <1>1 DEF BookInv, Followed, CarriedAll, BestTold, TellsMarkets, View
<1>2. CASE MakeTrade BY <1>2, MakeTradeBooks
<1>3. CASE MoveMarket BY <1>3, MoveMarketBooks
<1>4. CASE Connect BY <1>4, ConnectBooks
<1>5. CASE ConnectFails BY <1>1, <1>5 DEF ConnectFails, generator, outside
<1>6. CASE Close BY <1>6, CloseBooks
<1>7. CASE Break BY <1>7, BreakBooks
<1>8. CASE Receive BY <1>8, ReceiveBooks
<1>9. CASE FiveSeconds BY <1>1, <1>9 DEF FiveSeconds, outside
<1>10. CASE UNCHANGED vars BY <1>1, <1>10 DEF vars, generator, outside
<1> QED BY <1>2, <1>3, <1>4, <1>5, <1>6, <1>7, <1>8, <1>9, <1>10 DEF Next

IInv == TypeOK /\ TradeInv /\ BookInv

LEMMA Invariance == Spec => []IInv
<1>1. Init => IInv BY InitType, InitTrades, InitBooks DEF IInv
<1>2. IInv /\ [Next]_vars => IInv' BY StepType, StepTrades, StepBooks DEF IInv, TradeInv
<1> QED BY <1>1, <1>2, PTL DEF Spec

\* A generator that has received all messages holds every level that is in view,
\* and no other but levels of an earlier connection that nothing has told since
\* (Coinbase, cryptodata/sources/coinbase.py:110-136) or levels that left the
\* subscribed depth (Kraken, cryptodata/sources/kraken.py:116-147); Gemini's holds
\* the best of all it was told (cryptodata/sources/gemini.py:88-94); however many
\* connections ended and in whatever way.
THEOREM BooksAreMarkets == Spec => []BookIsMarket
<1>1. IInv => BookIsMarket
  <2> SUFFICES ASSUME IInv, link = "up", wire = <<>>
               PROVE  /\ stream \in Paced =>
                          /\ Without(held, carried) = Without(View(market), carried)
                          /\ View(market).bid \subseteq held.bid
                          /\ View(market).ask \subseteq held.ask
                      /\ stream = "gemini_quotes" => held = Top(told, 1)
    BY DEF BookIsMarket
  <2>1. stream = "gemini_quotes" => held = Top(told, 1) BY DEF IInv, BookInv, BestTold
  <2>2. ASSUME stream \in Paced
        PROVE  \E x : Good(x) /\ x.book = held /\ x.carried = carried /\ x.market = View(market)
    <3>1. Len(wire) = 0 /\ 0 \in 0 .. 0 OBVIOUS
    <3>2. PICK g \in [0 .. Len(wire) -> Stages] :
             Along(stream, wire, held, carried, g) /\ g[Len(wire)].market = View(market)
      BY <2>2 DEF IInv, BookInv, Followed
    <3> QED BY <3>1, <3>2 DEF Along
  <2> QED BY <2>1, <2>2 DEF Good
<1> QED BY <1>1, Invariance, PTL
-----------------------------------------------------------------------------
(* Crossed quotes and snapshots.                                           *)

LEMMA YieldsFacts ==
    ASSUME NEW m, NEW last
    PROVE  /\ stream \in Paced =>
                Yields(m, last) = IF due THEN Top(HeldAfter(m), Depth) ELSE Empty
           /\ stream = "binance_book" => Yields(m, last) = m.add
           /\ stream \in {"binance_quotes", "kraken_quotes", "bitfinex_quotes"} =>
                Yields(m, last) = BinanceQuote(m)
           /\ stream \in {"bybit_quotes", "okx_quotes", "bitstamp_quotes"} =>
                Yields(m, last) = BybitQuote(m)
           /\ stream = "coinbase_quotes" => Yields(m, last) = CoinbaseQuote(m, last)
           /\ stream \in TradeStreams => Yields(m, last) = Empty
<1>1. /\ KrakenQuote(m) = BinanceQuote(m) /\ BitfinexQuote(m) = BinanceQuote(m)
      /\ OkxQuote(m) = BybitQuote(m) /\ BitstampQuote(m) = BybitQuote(m)
      /\ BinanceBook(m) = m.add
  BY DEF KrakenQuote, BitfinexQuote, OkxQuote, BitstampQuote, BinanceQuote, BybitQuote, BinanceBook
<1>2. stream \in Paced => Yields(m, last) = IF due THEN Top(HeldAfter(m), Depth) ELSE Empty
  BY DEF Yields, Paced
<1>3. stream = "binance_book" => Yields(m, last) = m.add BY <1>1 DEF Yields, Paced
<1>4. stream \in {"binance_quotes", "kraken_quotes", "bitfinex_quotes"} =>
        Yields(m, last) = BinanceQuote(m)
  BY <1>1 DEF Yields, Paced
<1>5. stream \in {"bybit_quotes", "okx_quotes", "bitstamp_quotes"} => Yields(m, last) = BybitQuote(m)
  BY <1>1 DEF Yields, Paced
<1>6. stream = "coinbase_quotes" => Yields(m, last) = CoinbaseQuote(m, last) BY DEF Yields, Paced
<1>7. stream \in TradeStreams => Yields(m, last) = Empty BY DEF Yields, Paced, TradeStreams
<1> QED BY <1>2, <1>3, <1>4, <1>5, <1>6, <1>7

LEMMA MarketUncrossed ==
    ASSUME NEW k \in Markets, NEW b \in k.bid, NEW a \in k.ask
    PROVE  ~(b > a) /\ b \in Nat /\ a \in Nat
<1>1. b < a BY DEF Markets
<1>2. b \in Nat /\ a \in Nat
  <2>1. k \in Sides BY SidesFacts
  <2>2. b \in Prices \cup {0} /\ a \in Prices \cup {0} BY <2>1, SidesFacts
  <2>3. \A p \in Prices \cup {0} : p \in Nat BY Bounds
  <2> QED BY <2>2, <2>3
<1> QED BY <1>1, <1>2

\* Whoever takes its levels from a market does not cross.
LEMMA PartUncrossed ==
    ASSUME NEW k \in Markets, NEW q, q.bid \subseteq k.bid, q.ask \subseteq k.ask
    PROVE  ~Crossed(q)
BY MarketUncrossed DEF Crossed

LEMMA BinanceQuoteUncrossed ==
    ASSUME NEW m \in Messages, m.add \in Markets, Crossed(BinanceQuote(m))
    PROVE  BinanceQuote(m).ask = {0}
<1> DEFINE t == Top(m.add, 1)
           q == BinanceQuote(m)
<1>1. m.add \in Sides BY SidesFacts
<1>2. t.bid \subseteq m.add.bid /\ t.ask \subseteq m.add.ask BY <1>1, TopType
<1>3. q.bid = OrPrice(t.bid, 0) /\ q.ask = OrPrice(t.ask, 0) BY DEF BinanceQuote
<1> HIDE DEF q, t
<1>4. SUFFICES ASSUME q.ask # {0} PROVE FALSE
  BY DEF q
<1>5. q.ask \subseteq m.add.ask BY <1>2, <1>3, <1>4 DEF OrPrice
<1>6. PICK b \in q.bid, a \in q.ask : b > a BY DEF Crossed, q
<1>7. a \in m.add.ask /\ a \in Nat
  <2>1. m.add.ask \in SUBSET (Prices \cup {0}) BY <1>1, SidesFacts
  <2> QED BY <1>5, <2>1, LevelFacts
<1>8. b \in m.add.bid
  <2>1. b # 0 BY <1>6, <1>7
  <2> QED BY <1>2, <1>3, <2>1 DEF OrPrice
<1> QED BY <1>6, <1>7, <1>8, MarketUncrossed

LEMMA CoinbaseQuoteUncrossed ==
    ASSUME NEW m \in Messages, NEW last, m.add \in Markets, m.add.bid # {}, m.add.ask # {}
    PROVE  ~Crossed(CoinbaseQuote(m, last))
<1> DEFINE t == Top(m.add, 1)
           q == CoinbaseQuote(m, last)
<1>1. m.add \in Sides BY SidesFacts
<1>2. t.bid \subseteq m.add.bid /\ t.ask \subseteq m.add.ask BY <1>1, TopType
<1>3. t.bid # {} /\ t.ask # {}
  <2>1. m.add.bid \in SUBSET (Prices \cup {0}) /\ m.add.ask \in SUBSET (Prices \cup {0})
    BY <1>1, SidesFacts
  <2>2. Highest(m.add.bid, 1) # {}
    <3>1. PICK x \in m.add.bid : \A y \in m.add.bid : y <= x BY <2>1, BestExists
    <3>2. x \in Highest(m.add.bid, 1) BY <2>1, <3>1, BestIs
    <3> QED BY <3>2
  <2>3. Lowest(m.add.ask, 1) # {}
    <3>1. PICK x \in m.add.ask : \A y \in m.add.ask : x <= y BY <2>1, BestExists
    <3>2. x \in Lowest(m.add.ask, 1) BY <2>1, <3>1, BestIs
    <3> QED BY <3>2
  <2> QED BY <2>2, <2>3 DEF Top
<1>4. q.bid = OrPrice(t.bid, last) /\ q.ask = OrPrice(t.ask, last) BY DEF CoinbaseQuote
<1> HIDE DEF q, t
<1>5. q.bid \subseteq m.add.bid /\ q.ask \subseteq m.add.ask BY <1>2, <1>3, <1>4 DEF OrPrice
<1>6. ~Crossed(q) BY <1>5, PartUncrossed
<1> QED BY <1>6 DEF q

LEMMA BybitQuoteUncrossed ==
    ASSUME NEW m \in Messages, m.add \in Markets
    PROVE  ~Crossed(BybitQuote(m))
<1> DEFINE q == BybitQuote(m)
<1>1. m.add \in Sides BY SidesFacts
<1>2. q = Top(m.add, 1) \/ q = Empty BY DEF BybitQuote, BothSides
<1> HIDE DEF q
<1>3. q.bid \subseteq m.add.bid /\ q.ask \subseteq m.add.ask BY <1>1, <1>2, TopType DEF Empty
<1>4. ~Crossed(q) BY <1>3, PartUncrossed
<1> QED BY <1>4 DEF q

\* The stage of the book once a message is received.
LEMMA StageHeld ==
    ASSUME TypeOK, Followed, stream \in Paced
    PROVE  \E x \in Stages : Good(x) /\ x.book = held /\ x.carried = carried
<1>1. 0 \in 0 .. Len(wire)
  <2>1. wire \in Seq(Messages) BY DEF TypeOK
  <2>2. Len(wire) \in Nat BY <2>1
  <2> QED BY <2>2
<1>2. PICK g \in [0 .. Len(wire) -> Stages] : Along(stream, wire, held, carried, g)
  BY DEF Followed
<1> QED BY <1>1, <1>2 DEF Along

LEMMA SnapshotUncrossed ==
    ASSUME NEW x \in Stages, Good(x), NEW b \in x.book.bid, NEW a \in x.book.ask, b > a
    PROVE  b \in x.carried.bid \/ a \in x.carried.ask
<1>1. x.market \in Markets BY DEF Stages
<1>2. /\ x.book.bid \ x.carried.bid = x.market.bid \ x.carried.bid
      /\ x.book.ask \ x.carried.ask = x.market.ask \ x.carried.ask
  BY DEF Good, Without
<1> QED BY <1>1, <1>2, MarketUncrossed

LEMMA ReceiveCrosses ==
    ASSUME IInv, IInv', Receive, Crossed(yielded'), yielded' # yielded
    PROVE  \/ stream \in Paced /\ \E b \in yielded'.bid, a \in yielded'.ask :
                 b > a /\ (b \in carried'.bid \/ a \in carried'.ask)
           \/ stream = "gemini_quotes"
           \/ stream = "coinbase_quotes" /\ (Head(wire).add.bid = {} \/ Head(wire).add.ask = {})
           \/ stream \in {"binance_quotes", "kraken_quotes", "bitfinex_quotes"} /\ yielded'.ask = {0}
<1> DEFINE m == Head(wire)
<1>1. wire \in Seq(Messages) /\ wire # <<>> /\ stream \in Streams /\ held' = HeldAfter(m) /\ stream' = stream
  BY DEF IInv, TypeOK, Receive
<1>2. m \in Messages /\ m = wire[1] /\ 1 \in DOMAIN wire BY <1>1, SequenceFacts
<1> HIDE DEF m
<1>3. PICK last : yielded' = Yields(m, last) BY DEF Receive, m
<1>4. ~Crossed(Empty) BY DEF Crossed, Empty
<1>5. CASE stream \in Paced
  <2>1. yielded' = Top(held', Depth) BY <1>1, <1>3, <1>4, <1>5, YieldsFacts
  <2>2. held' \in Sides BY DEF IInv, TypeOK
  <2>3. yielded'.bid \subseteq held'.bid /\ yielded'.ask \subseteq held'.ask BY <2>1, <2>2, TopType
  <2>4. PICK x \in Stages : Good(x) /\ x.book = held' /\ x.carried = carried'
    <3>1. TypeOK' /\ Followed' /\ stream' \in Paced BY <1>1, <1>5 DEF IInv, BookInv
    <3>2. (TypeOK /\ Followed /\ stream \in Paced =>
             \E x \in Stages : Good(x) /\ x.book = held /\ x.carried = carried)'
      BY StageHeld, PTL
    <3> QED BY <1>1, <3>1, <3>2
  <2>5. PICK b \in yielded'.bid, a \in yielded'.ask : b > a BY DEF Crossed
  <2>6. b \in x.carried.bid \/ a \in x.carried.ask
    BY <2>3, <2>4, <2>5, SnapshotUncrossed
  <2> QED BY <1>5, <2>4, <2>5, <2>6
<1>6. CASE stream \in TradeStreams BY <1>3, <1>4, <1>6, YieldsFacts
<1>7. CASE stream \notin TradeStreams \cup Paced \cup {"gemini_quotes"}
  <2>1. m.add \in Markets BY <1>2, <1>7 DEF IInv, BookInv, TellsMarkets
  <2>2. CASE stream = "binance_book"
    <3>1. yielded' = m.add BY <1>3, <2>2, YieldsFacts
    <3> QED BY <2>1, <3>1, PartUncrossed
  <2>3. CASE stream \in {"binance_quotes", "kraken_quotes", "bitfinex_quotes"}
    <3>1. yielded' = BinanceQuote(m) BY <1>3, <2>3, YieldsFacts
    <3> QED BY <1>2, <2>1, <2>3, <3>1, BinanceQuoteUncrossed
  <2>4. CASE stream \in {"bybit_quotes", "okx_quotes", "bitstamp_quotes"}
    <3>1. yielded' = BybitQuote(m) BY <1>3, <2>4, YieldsFacts
    <3> QED BY <1>2, <2>1, <3>1, BybitQuoteUncrossed
  <2>5. CASE stream = "coinbase_quotes"
    <3>1. yielded' = CoinbaseQuote(m, last) BY <1>3, <2>5, YieldsFacts
    <3>2. m.add.bid = {} \/ m.add.ask = {} BY <1>2, <2>1, <3>1, CoinbaseQuoteUncrossed
    <3> QED BY <2>5, <3>2 DEF m
  <2> QED BY <1>1, <1>7, <2>2, <2>3, <2>4, <2>5 DEF Streams, QuoteStreams, BookStreams
<1>8. CASE stream = "gemini_quotes" BY <1>8
<1> QED BY <1>5, <1>6, <1>7, <1>8

\* A quote or snapshot with a bid above its ask shows levels that Coinbase's handler
\* carried over a connection (cryptodata/sources/coinbase.py:110-136) or that left
\* the depth Kraken's subscribed to (cryptodata/sources/kraken.py:116-147), Gemini's
\* old best (cryptodata/sources/gemini.py:88-94), the last trade in the place of an
\* empty side of Coinbase's ticker, or a missing ask that reads 0; nothing else
\* crosses, however moves, messages and connections interleave.
THEOREM CrossedIsStale == Spec => CrossedOnlyWhenStale
<1> DEFINE A == Crossed(yielded') /\ yielded' # yielded =>
        \/ stream \in Paced /\ \E b \in yielded'.bid, a \in yielded'.ask :
               b > a /\ (b \in carried'.bid \/ a \in carried'.ask)
        \/ stream = "gemini_quotes"
        \/ stream = "coinbase_quotes" /\ (Head(wire).add.bid = {} \/ Head(wire).add.ask = {})
        \/ stream \in {"binance_quotes", "kraken_quotes", "bitfinex_quotes"} /\ yielded'.ask = {0}
<1>1. IInv /\ IInv' /\ [Next]_vars => [A]_vars
  <2> SUFFICES ASSUME IInv, IInv', Next, yielded' # yielded, Crossed(yielded') PROVE A
    OBVIOUS
  <2>1. CASE Receive BY <2>1, ReceiveCrosses
  <2>2. CASE MakeTrade BY <2>2 DEF MakeTrade, generator
  <2>3. CASE MoveMarket BY <2>3 DEF MoveMarket, generator
  <2>4. CASE Connect BY <2>4 DEF Connect, generator
  <2>5. CASE ConnectFails BY <2>5 DEF ConnectFails, generator
  <2>6. CASE Close BY <2>6 DEF Close
  <2>7. CASE Break BY <2>7 DEF Break
  <2>8. CASE FiveSeconds BY <2>8 DEF FiveSeconds
  <2> QED BY <2>1, <2>2, <2>3, <2>4, <2>5, <2>6, <2>7, <2>8 DEF Next
<1>2. (Spec => []IInv) => (Spec => [][A]_vars) BY <1>1, PTL DEF Spec
<1> QED BY <1>2, Invariance DEF CrossedOnlyWhenStale
=============================================================================
