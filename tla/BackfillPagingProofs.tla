------------------------ MODULE BackfillPagingProofs ------------------------
(***************************************************************************)
(* Theorems about BackfillPaging, for every venue, window, page size and   *)
(* number of runs.                                                         *)
(*                                                                         *)
(* The corrections log accounts for the copies in the files but for one    *)
(* run per fault.                                                          *)
(*                                                                         *)
(* What a fetch has depends on where it goes on. Of a loop that walks      *)
(* forward, the rows behind the cursor are collected, or a named cut of    *)
(* its pages lost them, and the rows from the cursor on are not collected  *)
(* yet; of one that walks backward, the other way round. The invariant has *)
(* a case for each way to page, and when the fetch is finished the rows    *)
(* that are ahead are those that its last page ruled out, or those that a  *)
(* body without rows hid.                                                  *)
(***************************************************************************)
EXTENDS BackfillPaging, SequenceTheorems, FiniteSetTheorems, FunctionTheorems, WellFoundedInduction, TLAPS

\* A row of the fetch whose date is written and whose correction is not.
Fresh(x) == pc \in {"writing", "logging"} /\ x \in out /\ venue[x] \div Day \notin todo

Owed(x) == IF Fresh(x) THEN 1 ELSE 0

\* The files hold what is logged, what is fresh, and at most one copy a fault.
CopiesCounted ==
    \A x \in Rows : /\ logged[x] + Owed(x) <= stored[x]
                    /\ stored[x] <= logged[x] + faults + Owed(x)

\* Dates are outstanding only while they are written.
DatesInWriting == pc # "writing" => todo = {}

\* A fetch holds rows of the venue.
RowsHeld == out \subseteq DOMAIN venue

IInv == TypeOK /\ RowsHeld /\ DatesInWriting /\ CopiesCounted

-----------------------------------------------------------------------------
(* Facts about numbers, rows and dates                                     *)

LEMMA Divided ==
    ASSUME NEW t \in Nat, NEW k \in Nat \ {0}
    PROVE  t \div k \in Nat
OBVIOUS

LEMMA LeastExists ==
    ASSUME NEW T \in SUBSET Nat, T # {}
    PROVE  \E m \in T : \A n \in T : m <= n
<1>1. PICK m \in T : \A n \in T : <<n, m>> \notin OpToRel(<, Nat)
  BY NatLessThanWellFounded, WFMin, Zenon
<1>2. \A n \in T : ~(n < m)
  BY <1>1, Zenon DEF OpToRel
<1> QED BY <1>2

LEMMA MinIn ==
    ASSUME NEW T \in SUBSET Nat, T # {}
    PROVE  Min(T) \in T
BY LeastExists DEF Min

LEMMA MaxIn ==
    ASSUME NEW N \in Nat, NEW T \in SUBSET (0 .. N), T # {}
    PROVE  Max(T) \in T
<1> DEFINE U == {N - t : t \in T}
<1>1. U \in SUBSET Nat /\ U # {}
  <2> PICK t \in T : TRUE OBVIOUS
  <2>1. N - t \in U OBVIOUS
  <2>2. \A s \in T : N - s \in Nat OBVIOUS
  <2> QED BY <2>1, <2>2
<1>2. PICK m \in U : \A n \in U : m <= n
  BY <1>1, LeastExists
<1>3. PICK t \in T : m = N - t
  OBVIOUS
<1>4. \A s \in T : t >= s
  BY <1>2, <1>3
<1> QED BY <1>4 DEF Max

LEMMA LesserOfTwo ==
    ASSUME NEW a \in Nat, NEW b \in Nat
    PROVE  Min({a, b}) \in Nat
<1> DEFINE T == {a, b}
<1>1. T \in SUBSET Nat /\ T # {} OBVIOUS
<1>2. Min(T) \in T BY <1>1, MinIn
<1> QED BY <1>1, <1>2

LEMMA RowsOfVenue ==
    ASSUME TypeOK
    PROVE  /\ DOMAIN venue \subseteq Rows
           /\ DOMAIN venue \subseteq 0 .. Len(venue) /\ Len(venue) \in Nat
           /\ \A x \in DOMAIN venue : venue[x] \in Nat /\ G(venue[x]) \in Nat
<1>1. venue \in Seq(0 .. Now) /\ Len(venue) <= MaxRows BY DEF TypeOK
<1>2. Len(venue) \in Nat /\ DOMAIN venue = 1 .. Len(venue) BY <1>1
<1>3. \A x \in DOMAIN venue : venue[x] \in Nat
  <2>1. \A x \in DOMAIN venue : venue[x] \in 0 .. Now BY <1>1, <1>2, ElementOfSeq
  <2>2. \A t \in 0 .. Now : t \in Nat BY PagingAssumption
  <2> QED BY <2>1, <2>2
<1>4. \A x \in DOMAIN venue : G(venue[x]) \in Nat BY <1>3, Divided, PagingAssumption DEF G
<1>5. 1 .. Len(venue) \subseteq 1 .. MaxRows
  <2>1. MaxRows \in Nat BY PagingAssumption
  <2> QED BY <1>1, <1>2, <2>1
<1>6. 1 .. Len(venue) \subseteq 0 .. Len(venue) BY <1>2
<1> QED BY <1>2, <1>3, <1>4, <1>5, <1>6 DEF Rows

\* The last and the first row of a page.
LEMMA EndsOfPage ==
    ASSUME TypeOK, NEW S \in SUBSET DOMAIN venue, S # {}
    PROVE  /\ Max(S) \in S /\ Min(S) \in S
           /\ Max(S) \in Nat /\ Min(S) \in Nat
           /\ venue[Max(S)] \in Nat /\ G(venue[Max(S)]) \in Nat /\ G(venue[Min(S)]) \in Nat
<1>1. Len(venue) \in Nat /\ S \in SUBSET (0 .. Len(venue)) BY RowsOfVenue
<1>2. S \in SUBSET Nat BY <1>1
<1>3. Max(S) \in S BY <1>1, MaxIn
<1>4. Min(S) \in S BY <1>2, MinIn
<1> QED BY <1>2, <1>3, <1>4, RowsOfVenue

LEMMA JobType ==
    ASSUME TypeOK
    PROVE  /\ start \in Nat /\ end \in Nat /\ G(start) \in Nat /\ G(end) \in Nat
           /\ step \in Nat /\ cursor \in Nat
<1>1. <<start, end>> \in (0 .. Now) \X (0 .. Now) BY PagingAssumption DEF TypeOK
<1>2. start \in Nat /\ end \in Nat BY <1>1
<1>3. step \in Nat /\ cursor \in Nat BY PagingAssumption DEF TypeOK
<1> QED BY <1>2, <1>3, Divided, PagingAssumption DEF G

-----------------------------------------------------------------------------
(* A pass of each loop keeps rows of the venue and goes on at a number     *)

Sound(a) == a.keep \subseteq DOMAIN venue /\ a.next \in Nat

LEMMA AnswerSound ==
    ASSUME NEW keep \in SUBSET DOMAIN venue, NEW next \in Nat, NEW more
    PROVE  Sound(Answer(keep, next, more))
BY DEF Sound, Answer

LEMMA UpwardsSound ==
    ASSUME TypeOK, NEW skip \in Nat
    PROVE  Sound(Upwards(cursor, skip))
<1> DEFINE rows == Oldest(GrainsBetween(cursor, G(end)))
<1> DEFINE next == IF rows = {} THEN cursor ELSE G(venue[Max(rows)]) + skip
<1>1. rows \in SUBSET DOMAIN venue BY DEF Oldest, GrainsBetween
<1>2. next \in Nat
  <2>1. CASE rows = {} BY <2>1, JobType
  <2>2. CASE rows # {}
    <3> HIDE DEF rows
    <3>1. G(venue[Max(rows)]) \in Nat BY <1>1, <2>2, EndsOfPage
    <3> DEFINE g == G(venue[Max(rows)])
    <3>2. next = g + skip BY <2>2
    <3> HIDE DEF g
    <3>3. g \in Nat BY <3>1 DEF g
    <3> QED BY <3>2, <3>3
  <2> QED BY <2>1, <2>2
<1>3. Upwards(cursor, skip) = Answer(rows, next, Cardinality(rows) = PageSize)
  BY DEF Upwards
<1> HIDE DEF rows, next
<1> QED BY <1>1, <1>2, <1>3, AnswerSound

LEMMA MinuteType == Minute \in Nat
BY PagingAssumption

LEMMA UpwardsOnes ==
    ASSUME TypeOK
    PROVE  /\ Sound(Binance(cursor)) /\ Sound(Bybit(cursor)) /\ Sound(FuturesFunding(cursor))
           /\ Sound(Bitfinex(cursor)) /\ Sound(BitfinexKlines(cursor))
           /\ Sound(BinanceKlines(cursor)) /\ Sound(FuturesKlines(cursor))
<1>1. Sound(Upwards(cursor, 1)) BY UpwardsSound
<1>2. Sound(Upwards(cursor, Minute)) BY UpwardsSound, MinuteType
<1> QED BY <1>1, <1>2 DEF Binance, Bybit, FuturesFunding, Bitfinex, BitfinexKlines,
                          BinanceKlines, FuturesKlines

LEMMA BybitKlinesSound == TypeOK => Sound(BybitKlines(cursor))
<1> SUFFICES ASSUME TypeOK PROVE Sound(BybitKlines(cursor))
  OBVIOUS
<1> DEFINE rows == Newest(GrainsBetween(cursor, G(end)))
           next == IF rows = {} THEN cursor ELSE G(venue[Max(rows)]) + Minute
<1>1. rows \in SUBSET DOMAIN venue BY DEF Newest, GrainsBetween
<1>2. next \in Nat
  <2>1. CASE rows = {} BY <2>1, JobType
  <2>2. CASE rows # {}
    <3> HIDE DEF rows
    <3> DEFINE g == G(venue[Max(rows)])
    <3>1. g \in Nat BY <1>1, <2>2, EndsOfPage
    <3>2. next = g + Minute BY <2>2
    <3> HIDE DEF g
    <3> QED BY <3>1, <3>2, MinuteType
  <2> QED BY <2>1, <2>2
<1>3. BybitKlines(cursor) = Answer(rows, next, Cardinality(rows) = PageSize)
  BY DEF BybitKlines
<1> HIDE DEF rows, next
<1> QED BY <1>1, <1>2, <1>3, AnswerSound

LEMMA GeminiSound == TypeOK => Sound(Gemini(cursor))
<1> SUFFICES ASSUME TypeOK PROVE Sound(Gemini(cursor))
  OBVIOUS
<1> DEFINE rows == Oldest(GrainsBetween(cursor, G(Now)))
<1> DEFINE next == G(venue[Max(rows)]) + 1
<1>1. rows \in SUBSET DOMAIN venue BY DEF Oldest, GrainsBetween
<1>2. Gemini(cursor) = IF rows = {} THEN Answer({}, cursor, FALSE)
                       ELSE Answer(rows \cap Between(start, end), next,
                                   \A x \in rows : venue[x] <= end)
  BY DEF Gemini
<1>3. CASE rows = {} BY <1>2, <1>3, JobType, AnswerSound
<1>4. CASE rows # {}
  <2> HIDE DEF rows
  <2>1. G(venue[Max(rows)]) \in Nat BY <1>1, <1>4, EndsOfPage
  <2>2. next \in Nat BY <2>1
  <2>3. rows \cap Between(start, end) \in SUBSET DOMAIN venue BY <1>1
  <2> HIDE DEF next
  <2> QED BY <1>2, <1>4, <2>2, <2>3, AnswerSound
<1> QED BY <1>3, <1>4

LEMMA KrakenSound == TypeOK => Sound(Kraken(cursor))
<1> SUFFICES ASSUME TypeOK PROVE Sound(Kraken(cursor))
  OBVIOUS
<1> DEFINE rows == Oldest(Between(cursor + 1, Now))
<1>1. rows \in SUBSET DOMAIN venue BY DEF Oldest, Between
<1>2. Kraken(cursor) = IF rows = {} THEN Answer({}, cursor, FALSE)
                       ELSE Answer({x \in rows : venue[x] <= end}, venue[Max(rows)], TRUE)
  BY DEF Kraken
<1>3. CASE rows = {} BY <1>2, <1>3, JobType, AnswerSound
<1>4. CASE rows # {}
  <2> HIDE DEF rows
  <2>1. venue[Max(rows)] \in Nat BY <1>1, <1>4, EndsOfPage
  <2>2. {x \in rows : venue[x] <= end} \in SUBSET DOMAIN venue BY <1>1
  <2> QED BY <1>2, <1>4, <2>1, <2>2, AnswerSound
<1> QED BY <1>3, <1>4

LEMMA BackwardsSound ==
    ASSUME TypeOK, NEW more
    PROVE  Sound(Answer(Older(cursor) \cap Between(start, end),
                        IF Older(cursor) = {} THEN cursor ELSE Min(Older(cursor)), more))
<1> DEFINE rows == Older(cursor)
<1>1. rows \in SUBSET DOMAIN venue BY DEF Older, Newest
<1>2. rows \cap Between(start, end) \in SUBSET DOMAIN venue BY <1>1
<1>3. (IF rows = {} THEN cursor ELSE Min(rows)) \in Nat
  BY <1>1, EndsOfPage, JobType
<1> QED BY <1>2, <1>3, AnswerSound

LEMMA CoinbaseSound == TypeOK => Sound(Coinbase(cursor))
<1> SUFFICES ASSUME TypeOK PROVE Sound(Coinbase(cursor))
  OBVIOUS
<1> DEFINE more == Cardinality(Older(cursor)) = PageSize
                   /\ \A x \in Older(cursor) : venue[x] >= start
<1>1. Coinbase(cursor) = Answer(Older(cursor) \cap Between(start, end),
          IF Older(cursor) = {} THEN cursor ELSE Min(Older(cursor)), more)
  BY DEF Coinbase
<1> HIDE DEF more
<1> QED BY <1>1, BackwardsSound

LEMMA OkxSound == TypeOK => Sound(Okx(cursor))
<1> SUFFICES ASSUME TypeOK PROVE Sound(Okx(cursor))
  OBVIOUS
<1> DEFINE more == Older(cursor) # {} /\ \A x \in Older(cursor) : venue[x] >= start
<1>1. Okx(cursor) = Answer(Older(cursor) \cap Between(start, end),
          IF Older(cursor) = {} THEN cursor ELSE Min(Older(cursor)), more)
  BY DEF Okx
<1> HIDE DEF more
<1> QED BY <1>1, BackwardsSound

LEMMA OkxKlinesSound == TypeOK => Sound(OkxKlines(cursor))
<1> SUFFICES ASSUME TypeOK PROVE Sound(OkxKlines(cursor))
  OBVIOUS
<1> DEFINE rows == Newest({x \in DOMAIN venue : G(venue[x]) < cursor})
<1> DEFINE keep == {x \in rows : G(venue[x]) >= G(start)}
<1>1. rows \in SUBSET DOMAIN venue BY DEF Newest
<1>2. OkxKlines(cursor) = IF rows = {} THEN Answer({}, cursor, FALSE)
                          ELSE Answer(keep, G(venue[Min(rows)]), G(venue[Min(rows)]) > G(start))
  BY DEF OkxKlines
<1>3. CASE rows = {} BY <1>2, <1>3, JobType, AnswerSound
<1>4. CASE rows # {}
  <2>1. keep \in SUBSET DOMAIN venue BY <1>1
  <2> HIDE DEF rows, keep
  <2>2. G(venue[Min(rows)]) \in Nat BY <1>1, <1>4, EndsOfPage
  <2> QED BY <1>2, <1>4, <2>1, <2>2, AnswerSound
<1> QED BY <1>3, <1>4

\* Ends of the chunks that are asked for by time.
LEMMA ChunkType ==
    ASSUME TypeOK
    PROVE  /\ Min({cursor + PageSize * step * Grain, end}) \in Nat
           /\ Min({cursor + PageSize * step, G(end)}) \in Nat
<1>1. PageSize \in Nat /\ Grain \in Nat BY PagingAssumption
<1>2. cursor \in Nat /\ step \in Nat /\ end \in Nat /\ G(end) \in Nat BY JobType
<1>3. PageSize * step \in Nat BY <1>1, <1>2
<1>4. PageSize * step * Grain \in Nat BY <1>1, <1>3
<1>5. cursor + PageSize * step \in Nat BY <1>2, <1>3
<1>6. cursor + PageSize * step * Grain \in Nat BY <1>2, <1>4
<1> QED BY <1>2, <1>5, <1>6, LesserOfTwo

LEMMA CoinbaseKlinesSound == TypeOK => Sound(CoinbaseKlines(cursor))
<1> SUFFICES ASSUME TypeOK PROVE Sound(CoinbaseKlines(cursor))
  OBVIOUS
<1> DEFINE stop == Min({cursor + PageSize * step * Grain, end})
<1>1. stop \in Nat BY ChunkType
<1>2. CoinbaseKlines(cursor) = Answer(Newest(Between(cursor, stop)), stop, TRUE)
  BY DEF CoinbaseKlines
<1>3. Newest(Between(cursor, stop)) \in SUBSET DOMAIN venue BY DEF Newest, Between
<1> HIDE DEF stop
<1> QED BY <1>1, <1>2, <1>3, AnswerSound

LEMMA BitstampKlinesSound == TypeOK => Sound(BitstampKlines(cursor))
<1> SUFFICES ASSUME TypeOK PROVE Sound(BitstampKlines(cursor))
  OBVIOUS
<1> DEFINE rows == Oldest(GrainsBetween(cursor, Min({cursor + PageSize * step, G(end)})))
<1> DEFINE next == G(venue[Max(rows)]) + step
<1>1. rows \in SUBSET DOMAIN venue BY DEF Oldest, GrainsBetween
<1>2. BitstampKlines(cursor) = IF rows = {} THEN Answer({}, cursor, FALSE)
                               ELSE Answer(rows, next, G(venue[Max(rows)]) > cursor)
  BY DEF BitstampKlines
<1>3. CASE rows = {} BY <1>2, <1>3, JobType, AnswerSound
<1>4. CASE rows # {}
  <2> HIDE DEF rows
  <2>1. G(venue[Max(rows)]) \in Nat /\ step \in Nat BY <1>1, <1>4, EndsOfPage, JobType
  <2>2. next \in Nat BY <2>1
  <2> HIDE DEF next
  <2> QED BY <1>1, <1>2, <1>4, <2>2, AnswerSound
<1> QED BY <1>3, <1>4

LEMMA OneRequestSound ==
    ASSUME TypeOK
    PROVE  /\ Sound(Bitstamp(cursor)) /\ Sound(KrakenKlines(cursor))
           /\ Sound(GeminiKlines(cursor)) /\ Sound(BybitFunding(cursor))
<1>1. \A lo, hi : Between(lo, hi) \in SUBSET DOMAIN venue BY DEF Between
<1>2. \A lo, hi : Newest(GrainsBetween(lo, hi)) \in SUBSET DOMAIN venue
  BY DEF Newest, GrainsBetween
<1>3. \A S, lo, hi : S \cap Between(lo, hi) \in SUBSET DOMAIN venue BY <1>1
<1> HIDE DEF Newest, Between, GrainsBetween
<1> QED BY <1>1, <1>2, <1>3, JobType, AnswerSound
        DEF Bitstamp, KrakenKlines, GeminiKlines, BybitFunding

LEMMA PageSound == TypeOK => Sound(Page(cursor))
<1> SUFFICES ASSUME TypeOK PROVE Sound(Page(cursor))
  OBVIOUS
<1>1. fetcher \in {"binance", "bybit", "futures_funding", "binance_klines", "futures_klines",
                   "bybit_klines", "gemini", "bitfinex", "bitfinex_klines", "okx", "okx_klines",
                   "kraken_klines", "coinbase_klines", "gemini_klines", "bitstamp_klines",
                   "kraken", "coinbase", "bitstamp", "bybit_funding"}
  BY DEF TypeOK, Fetchers, ByMillisecond, Capped, Candles, MinuteOn
<1> QED BY <1>1, UpwardsOnes, BybitKlinesSound, GeminiSound, KrakenSound, CoinbaseSound, OkxSound,
           OkxKlinesSound, CoinbaseKlinesSound, BitstampKlinesSound, OneRequestSound
        DEF Page

LEMMA FirstCursorType == TypeOK => FirstCursor \in Nat
BY JobType DEF FirstCursor

LEMMA HistoryType ==
    ASSUME NEW f, NEW s, NEW h \in Histories(f, s)
    PROVE  h \in Seq(0 .. Now) /\ Len(h) <= MaxRows
<1> DEFINE times == IF f = "kraken" THEN 0 .. Now ELSE {t \in 0 .. Now : t % Grain = 0}
<1> DEFINE starts == {t \in 0 .. Now : t % (s * Grain) = 0}
<1>1. times \subseteq 0 .. Now /\ starts \subseteq 0 .. Now OBVIOUS
<1>2. \/ h \in UNION {[1 .. n -> starts] : n \in 0 .. MaxRows}
      \/ h \in UNION {[1 .. n -> times] : n \in 0 .. MaxRows}
  BY DEF Histories
<1> HIDE DEF times, starts
<1>3. PICK n \in 0 .. MaxRows : h \in [1 .. n -> starts] \/ h \in [1 .. n -> times]
  BY <1>2
<1>4. h \in [1 .. n -> 0 .. Now] BY <1>1, <1>3
<1>5. MaxRows \in Nat BY PagingAssumption
<1>6. n \in Nat /\ n <= MaxRows BY <1>3, <1>5
<1>7. h \in Seq(0 .. Now) BY <1>4, <1>6, SeqDef
<1>8. Len(h) = n BY <1>4, <1>6, <1>7
<1> QED BY <1>6, <1>7, <1>8

LEMMA InitInv == Init => IInv
<1> SUFFICES ASSUME Init PROVE IInv
  OBVIOUS
<1>1. venue \in Seq(0 .. Now) /\ Len(venue) <= MaxRows BY HistoryType DEF Init
<1>2. <<start, end>> \in Windows
  <2>1. PICK w \in Windows : start = w[1] /\ end = w[2] BY DEF Init
  <2>2. w \in (0 .. Now) \X (0 .. Now) BY <2>1, PagingAssumption
  <2>3. w = <<start, end>> BY <2>1, <2>2
  <2> QED BY <2>1, <2>3
<1>3. runs \in 0 .. MaxRuns /\ faults \in 0 .. MaxFaults BY PagingAssumption DEF Init
<1>4. stored \in [Rows -> Nat] /\ logged \in [Rows -> Nat] BY DEF Init
<1>5. TypeOK BY <1>1, <1>2, <1>3, <1>4 DEF Init, TypeOK
<1>6. CopiesCounted
  <2> SUFFICES ASSUME NEW x \in Rows
               PROVE  logged[x] + Owed(x) <= stored[x] /\ stored[x] <= logged[x] + faults + Owed(x)
    BY DEF CopiesCounted
  <2>1. logged[x] = 0 /\ stored[x] = 0 /\ faults = 0 BY DEF Init
  <2>2. Owed(x) = 0 BY DEF Init, Owed, Fresh
  <2> QED BY <2>1, <2>2
<1> QED BY <1>5, <1>6 DEF IInv, RowsHeld, DatesInWriting, Init

\* A date of a row.
LEMMA DateType ==
    ASSUME TypeOK, NEW x \in DOMAIN venue
    PROVE  venue[x] \div Day \in Nat
<1>1. venue[x] \in Nat /\ Day \in Nat \ {0} BY RowsOfVenue, PagingAssumption
<1> QED BY <1>1, Divided

-----------------------------------------------------------------------------
(* The steps                                                               *)

\* The fetch changes neither files nor log, and writes nothing.
LEMMA FetchKeeps ==
    ASSUME IInv, UNCHANGED <<stored, logged, faults>>,
           pc \notin {"writing", "logging"}, pc' \notin {"writing", "logging"},
           todo' = todo
    PROVE  DatesInWriting' /\ CopiesCounted'
<1>1. DatesInWriting' BY DEF IInv, DatesInWriting
<1>2. ASSUME NEW x \in Rows
      PROVE  /\ logged'[x] + Owed(x)' <= stored'[x]
             /\ stored'[x] <= logged'[x] + faults' + Owed(x)'
  <2>1. Owed(x) = 0 /\ Owed(x)' = 0 BY DEF Owed, Fresh
  <2>2. logged[x] + Owed(x) <= stored[x] /\ stored[x] <= logged[x] + faults + Owed(x)
    BY DEF IInv, CopiesCounted
  <2> QED BY <2>1, <2>2
<1> QED BY <1>1, <1>2 DEF CopiesCounted

LEMMA BeginKeeps == IInv /\ Begin => IInv'
<1> SUFFICES ASSUME IInv, Begin PROVE IInv'
  OBVIOUS
<1>1. TypeOK BY DEF IInv
<1>2. cursor' \in Nat BY <1>1, FirstCursorType DEF Begin
<1>3. known' \subseteq Rows BY <1>1, RowsOfVenue DEF Begin
<1>4. runs' \in 0 .. MaxRuns BY <1>1, PagingAssumption DEF Begin, TypeOK
<1>5. TypeOK' BY <1>1, <1>2, <1>3, <1>4 DEF Begin, TypeOK, job
<1>6. DatesInWriting' /\ CopiesCounted'
  BY FetchKeeps DEF Begin
<1> QED BY <1>5, <1>6 DEF IInv, RowsHeld, Begin

LEMMA AskPageKeeps == IInv /\ AskPage => IInv'
<1> SUFFICES ASSUME IInv, AskPage PROVE IInv'
  OBVIOUS
<1>1. TypeOK /\ out \subseteq DOMAIN venue BY DEF IInv, RowsHeld
<1> DEFINE a == Page(cursor)
<1>2. a.keep \subseteq DOMAIN venue /\ a.next \in Nat BY <1>1, PageSound DEF Sound
<1>3. /\ out' = out \cup a.keep
      /\ repeated' = repeated \cup (out \cap a.keep)
      /\ cursor' = a.next
      /\ pc' = IF a.more THEN "paging" ELSE "fetched"
  BY DEF AskPage
<1> HIDE DEF a
<1>4. out' \subseteq DOMAIN venue BY <1>1, <1>2, <1>3
<1>5. DOMAIN venue \subseteq Rows BY <1>1, RowsOfVenue
<1>6. out' \subseteq Rows /\ repeated' \subseteq Rows BY <1>1, <1>3, <1>4, <1>5 DEF TypeOK
<1>7. pages' \in Nat BY <1>1 DEF AskPage, TypeOK
<1>8. pc = "paging" /\ pc' \in {"paging", "fetched"} BY <1>3 DEF AskPage
<1>9. TypeOK' BY <1>1, <1>2, <1>3, <1>6, <1>7, <1>8 DEF AskPage, TypeOK, job
<1>10. DatesInWriting' /\ CopiesCounted' BY <1>8, FetchKeeps DEF AskPage
<1>11. RowsHeld' BY <1>4 DEF RowsHeld, AskPage
<1> QED BY <1>9, <1>10, <1>11 DEF IInv

LEMMA BlankBodyKeeps == IInv /\ BlankBody => IInv'
<1> SUFFICES ASSUME IInv, BlankBody PROVE IInv'
  OBVIOUS
<1>1. pages' \in Nat BY DEF IInv, TypeOK, BlankBody
<1>2. TypeOK' BY <1>1 DEF IInv, BlankBody, TypeOK, job
<1>3. DatesInWriting' /\ CopiesCounted' BY FetchKeeps DEF BlankBody
<1> QED BY <1>2, <1>3 DEF IInv, RowsHeld, BlankBody

LEMMA LoopEndsKeeps == IInv /\ LoopEnds => IInv'
<1> SUFFICES ASSUME IInv, LoopEnds PROVE IInv'
  OBVIOUS
<1>1. TypeOK' BY DEF IInv, LoopEnds, TypeOK, job, paging
<1>2. DatesInWriting' /\ CopiesCounted' BY FetchKeeps DEF LoopEnds
<1> QED BY <1>1, <1>2 DEF IInv, RowsHeld, LoopEnds, paging

LEMMA TradeKeeps == IInv /\ Trade => IInv'
<1> SUFFICES ASSUME IInv, Trade PROVE IInv'
  OBVIOUS
<1>1. TypeOK /\ out \subseteq DOMAIN venue BY DEF IInv, RowsHeld
<1>2. venue \in Seq(0 .. Now) /\ Len(venue) < MaxRows /\ venue' = Append(venue, Now)
  BY <1>1 DEF Trade, TypeOK
<1>3. Now \in 0 .. Now /\ MaxRows \in Nat BY PagingAssumption
<1>4. venue' \in Seq(0 .. Now) /\ Len(venue') = Len(venue) + 1 /\ Len(venue) \in Nat
  BY <1>2, <1>3, AppendProperties
<1>5. Len(venue') <= MaxRows BY <1>2, <1>3, <1>4
<1>6. DOMAIN venue = 1 .. Len(venue) /\ DOMAIN venue' = 1 .. Len(venue) + 1
  BY <1>2, <1>4, LenProperties
<1>7. RowsHeld' BY <1>1, <1>4, <1>6 DEF RowsHeld, Trade, paging
<1>8. TypeOK' BY <1>1, <1>4, <1>5 DEF Trade, TypeOK, job, paging
<1>9. DatesInWriting' /\ CopiesCounted' BY FetchKeeps DEF Trade
<1> QED BY <1>7, <1>8, <1>9 DEF IInv

\* Before a date is written nothing is fresh.
LEMMA GroupKeeps == IInv /\ Group => IInv'
<1> SUFFICES ASSUME IInv, Group PROVE IInv'
  OBVIOUS
<1>1. TypeOK /\ out \subseteq DOMAIN venue BY DEF IInv, RowsHeld
<1>2. todo' = {venue[x] \div Day : x \in out} /\ UNCHANGED <<venue, stored, logged, faults>>
  BY DEF Group
<1>3. todo' \subseteq Nat BY <1>1, <1>2, DateType
<1>4. CASE out = {}
  <2>4. /\ pc' = "idle" /\ blank' = FALSE /\ cursor' = 0 /\ pages' = 0
        /\ out' = {} /\ repeated' = {} /\ known' = {}
        /\ UNCHANGED <<fetcher, start, end, step, venue, stored, logged, runs, faults>>
    BY <1>4 DEF Group, Forget, job
  <2>1. TypeOK' BY <1>1, <1>3, <2>4 DEF TypeOK
  <2>2. todo' = {} /\ todo = {} BY <1>2, <1>4 DEF IInv, DatesInWriting, Group
  <2>3. DatesInWriting' /\ CopiesCounted' BY <1>4, <2>2, FetchKeeps DEF Group
  <2> QED BY <1>4, <2>1, <2>3 DEF IInv, RowsHeld, Group, Forget
<1>5. CASE out # {}
  <2>1. out' = out /\ pc = "fetched" /\ pc' = "writing" BY <1>5 DEF Group, paging
  <2>2. TypeOK' BY <1>1, <1>3, <1>5 DEF Group, paging, TypeOK, job
  <2>3. \A x \in Rows : Owed(x) = 0 /\ Owed(x)' = 0
    BY <1>2, <2>1 DEF Owed, Fresh
  <2>4. CopiesCounted' BY <1>2, <2>3 DEF IInv, CopiesCounted
  <2> QED BY <1>2, <2>1, <2>2, <2>4 DEF IInv, RowsHeld, DatesInWriting
<1> QED BY <1>4, <1>5

\* The rows of a date become fresh when they get their copy.
LEMMA WriteDateKeeps == IInv /\ WriteDate => IInv'
<1> SUFFICES ASSUME IInv, WriteDate PROVE IInv'
  OBVIOUS
<1>1. TypeOK BY DEF IInv
<1>2. PICK d \in todo :
        /\ todo' = todo \ {d}
        /\ stored' = [x \in Rows |-> IF x \in out /\ venue[x] \div Day = d
                                     THEN stored[x] + 1 ELSE stored[x]]
        /\ pc' = IF todo = {d} THEN "logging" ELSE "writing"
  BY DEF WriteDate
<1>3. pc = "writing" /\ out' = out /\ UNCHANGED <<job, venue, paging, logged, runs, faults>>
  BY DEF WriteDate, paging
<1>4. stored' \in [Rows -> Nat]
  <2>1. \A x \in Rows : stored[x] \in Nat /\ stored[x] + 1 \in Nat BY <1>1 DEF TypeOK
  <2> QED BY <1>2, <2>1
<1>5. TypeOK' BY <1>1, <1>2, <1>3, <1>4 DEF TypeOK, job, paging
<1>6. ASSUME NEW x \in Rows
      PROVE  /\ logged'[x] + Owed(x)' <= stored'[x]
             /\ stored'[x] <= logged'[x] + faults' + Owed(x)'
  <2>1. /\ logged[x] + Owed(x) <= stored[x] /\ stored[x] <= logged[x] + faults + Owed(x)
        /\ logged[x] \in Nat /\ stored[x] \in Nat /\ faults \in Nat
    BY PagingAssumption DEF IInv, CopiesCounted, TypeOK
  <2>2. CASE x \in out /\ venue[x] \div Day = d
    <3>1. Owed(x) = 0 /\ Owed(x)' = 1 BY <1>2, <1>3, <2>2 DEF Owed, Fresh
    <3>2. stored'[x] = stored[x] + 1 BY <1>2, <2>2
    <3> QED BY <1>3, <2>1, <3>1, <3>2
  <2>3. CASE ~(x \in out /\ venue[x] \div Day = d)
    <3>1. Owed(x)' = Owed(x) BY <1>2, <1>3, <2>3 DEF Owed, Fresh
    <3>2. stored'[x] = stored[x] BY <1>2, <2>3
    <3> QED BY <1>3, <2>1, <3>1, <3>2
  <2> QED BY <2>2, <2>3
<1>7. DatesInWriting' BY <1>2 DEF DatesInWriting
<1>8. RowsHeld' BY <1>3 DEF IInv, RowsHeld
<1> QED BY <1>5, <1>6, <1>7, <1>8 DEF IInv, CopiesCounted

\* The correction pays what the written rows owe.
LEMMA RecordCorrectionKeeps == IInv /\ RecordCorrection => IInv'
<1> SUFFICES ASSUME IInv, RecordCorrection PROVE IInv'
  OBVIOUS
<1>1. TypeOK BY DEF IInv
<1>2. /\ pc = "logging" /\ pc' = "idle" /\ out' = {} /\ todo' = todo
      /\ logged' = [x \in Rows |-> IF x \in out THEN logged[x] + 1 ELSE logged[x]]
      /\ UNCHANGED <<job, venue, stored, runs, faults>>
  BY DEF RecordCorrection, Forget
<1>3. logged' \in [Rows -> Nat]
  <2>1. \A x \in Rows : logged[x] \in Nat /\ logged[x] + 1 \in Nat BY <1>1 DEF TypeOK
  <2> QED BY <1>2, <2>1
<1>4. TypeOK' BY <1>1, <1>2, <1>3 DEF RecordCorrection, Forget, TypeOK, job
<1>5. todo = {} BY <1>2 DEF IInv, DatesInWriting
<1>6. ASSUME NEW x \in Rows
      PROVE  /\ logged'[x] + Owed(x)' <= stored'[x]
             /\ stored'[x] <= logged'[x] + faults' + Owed(x)'
  <2>1. /\ logged[x] + Owed(x) <= stored[x] /\ stored[x] <= logged[x] + faults + Owed(x)
        /\ logged[x] \in Nat /\ stored[x] \in Nat /\ faults \in Nat
    BY PagingAssumption DEF IInv, CopiesCounted, TypeOK
  <2>2. Owed(x) = (IF x \in out THEN 1 ELSE 0) BY <1>2, <1>5 DEF Owed, Fresh
  <2>3. Owed(x)' = 0 BY <1>2 DEF Owed, Fresh
  <2>4. logged'[x] = logged[x] + Owed(x)
    <3>1. CASE x \in out BY <1>2, <2>2, <3>1
    <3>2. CASE x \notin out BY <1>2, <2>1, <2>2, <3>2
    <3> QED BY <3>1, <3>2
  <2>5. Owed(x) \in {0, 1} BY <2>2
  <2> QED BY <1>2, <2>1, <2>3, <2>4, <2>5
<1>7. DatesInWriting' /\ RowsHeld' BY <1>2, <1>5 DEF DatesInWriting, RowsHeld
<1> QED BY <1>4, <1>6, <1>7 DEF IInv, CopiesCounted

\* What is written and not logged stays so: one copy a fault.
LEMMA AbortKeeps == IInv /\ Abort => IInv'
<1> SUFFICES ASSUME IInv, Abort PROVE IInv'
  OBVIOUS
<1>1. TypeOK BY DEF IInv
<1>2. /\ pc' = "idle" /\ out' = {} /\ todo' = {} /\ faults' = faults + 1
      /\ faults < MaxFaults /\ UNCHANGED <<job, venue, stored, logged, runs>>
  BY DEF Abort, Forget
<1>3. faults' \in 0 .. MaxFaults BY <1>1, <1>2, PagingAssumption DEF TypeOK
<1>4. TypeOK' BY <1>1, <1>2, <1>3 DEF Abort, Forget, TypeOK, job
<1>5. ASSUME NEW x \in Rows
      PROVE  /\ logged'[x] + Owed(x)' <= stored'[x]
             /\ stored'[x] <= logged'[x] + faults' + Owed(x)'
  <2>1. /\ logged[x] + Owed(x) <= stored[x] /\ stored[x] <= logged[x] + faults + Owed(x)
        /\ logged[x] \in Nat /\ stored[x] \in Nat /\ faults \in Nat
    BY PagingAssumption DEF IInv, CopiesCounted, TypeOK
  <2>2. Owed(x) \in {0, 1} BY DEF Owed
  <2>3. Owed(x)' = 0 BY <1>2 DEF Owed, Fresh
  <2> QED BY <1>2, <2>1, <2>2, <2>3
<1>6. DatesInWriting' /\ RowsHeld' BY <1>2 DEF DatesInWriting, RowsHeld
<1> QED BY <1>4, <1>5, <1>6 DEF IInv, CopiesCounted

LEMMA StutterKeeps == IInv /\ UNCHANGED vars => IInv'
BY DEF IInv, TypeOK, RowsHeld, DatesInWriting, CopiesCounted, Owed, Fresh, vars, job, paging

LEMMA StepInv == IInv /\ [Next]_vars => IInv'
BY BeginKeeps, AskPageKeeps, BlankBodyKeeps, LoopEndsKeeps, GroupKeeps, WriteDateKeeps, RecordCorrectionKeeps,
   AbortKeeps, TradeKeeps, StutterKeeps DEF Next

\* The state keeps its type: every loop goes on at a time, an id or a cursor of
\* a row that exists, and dates are those of rows (fetch_* of
\* cryptodata/sources/*.py, scripts/backfill.py:60-83).
THEOREM TypeCorrect == Spec => []TypeOK
<1>1. IInv => TypeOK BY DEF IInv
<1> QED BY <1>1, InitInv, StepInv, PTL DEF Spec

\* Whatever dates the rows fall on and wherever a run is cut off, a correction
\* stands for a copy of each of its rows, and a run leaves at most one copy
\* without a correction, at the price of a fault (scripts/backfill.py:74-83).
THEOREM CopiesLogged == Spec => []CopiesAreLogged
<1>1. IInv => CopiesAreLogged
  <2> SUFFICES ASSUME IInv, NEW x \in Rows
               PROVE  /\ logged[x] <= stored[x]
                      /\ stored[x] <= logged[x] + faults
                                      + (IF pc \in {"writing", "logging"} THEN 1 ELSE 0)
    BY DEF CopiesAreLogged
  <2> DEFINE e == IF pc \in {"writing", "logging"} THEN 1 ELSE 0
  <2>1. /\ logged[x] + Owed(x) <= stored[x] /\ stored[x] <= logged[x] + faults + Owed(x)
        /\ logged[x] \in Nat /\ stored[x] \in Nat /\ faults \in Nat
    BY PagingAssumption DEF IInv, CopiesCounted, TypeOK
  <2>2. Owed(x) \in {0, 1} /\ e \in {0, 1} /\ Owed(x) <= e BY DEF Owed, Fresh
  <2> HIDE DEF e
  <2>3. logged[x] <= stored[x] /\ stored[x] <= logged[x] + faults + e BY <2>1, <2>2
  <2> QED BY <2>3 DEF e
<1> QED BY <1>1, InitInv, StepInv, PTL DEF Spec
-----------------------------------------------------------------------------
(* What a page holds                                                       *)

LEMMA LeastOf ==
    ASSUME NEW T \in SUBSET Nat, T # {}
    PROVE  Min(T) \in T /\ \A s \in T : Min(T) <= s
BY LeastExists DEF Min

LEMMA GreatestOf ==
    ASSUME NEW N \in Nat, NEW T \in SUBSET (0 .. N), T # {}
    PROVE  Max(T) \in T /\ \A s \in T : s <= Max(T)
<1> DEFINE U == {N - t : t \in T}
<1>1. U \in SUBSET Nat /\ U # {}
  <2> PICK t \in T : TRUE OBVIOUS
  <2>1. N - t \in U OBVIOUS
  <2>2. \A s \in T : N - s \in Nat OBVIOUS
  <2> QED BY <2>1, <2>2
<1>2. PICK m \in U : \A n \in U : m <= n
  BY <1>1, LeastExists
<1>3. PICK t \in T : m = N - t
  OBVIOUS
<1>4. \A s \in T : t >= s
  BY <1>2, <1>3
<1>5. Max(T) \in T /\ \A s \in T : Max(T) >= s
  BY <1>4 DEF Max
<1> QED BY <1>5

LEMMA PartCounted ==
    ASSUME NEW N \in Nat, NEW S \in SUBSET (0 .. N), NEW T \in SUBSET S
    PROVE  IsFiniteSet(T) /\ Cardinality(T) \in Nat /\ Cardinality(T) <= Cardinality(S)
<1>1. IsFiniteSet(0 .. N) BY FS_Interval
<1>2. IsFiniteSet(S) BY <1>1, FS_Subset
<1>3. IsFiniteSet(T) /\ Cardinality(T) <= Cardinality(S) BY <1>2, FS_Subset
<1> QED BY <1>3, FS_CardinalityType

\* A page cut by count leaves out only rows beyond those it holds ...
LEMMA OldestFirst ==
    ASSUME NEW N \in Nat, NEW S \in SUBSET (0 .. N),
           NEW x \in S \ Oldest(S), NEW y \in Oldest(S)
    PROVE  y < x
<1> SUFFICES ASSUME x <= y PROVE FALSE
  <2>1. x \in Int /\ y \in Int BY DEF Oldest
  <2> QED BY <2>1
<1> DEFINE P == {z \in S : z < x}
           Q == {z \in S : z < y}
<1>1. P \subseteq Q /\ Q \subseteq S
  <2>1. \A z \in S : z \in Int OBVIOUS
  <2>2. x \in Int /\ y \in Int BY <2>1 DEF Oldest
  <2>3. ASSUME NEW z \in P PROVE z \in Q
    <3>1. z \in Int /\ z \in S BY <2>1
    <3> QED BY <2>2, <3>1
  <2> QED BY <2>3
<1>2. Q \in SUBSET (0 .. N) BY <1>1
<1>3. Cardinality(P) \in Nat /\ Cardinality(Q) \in Nat /\ Cardinality(P) <= Cardinality(Q)
  BY <1>1, <1>2, PartCounted
<1>4. Cardinality(Q) < PageSize /\ ~(Cardinality(P) < PageSize) BY DEF Oldest
<1>5. PageSize \in Nat BY PagingAssumption
<1> HIDE DEF P, Q
<1> QED BY <1>3, <1>4, <1>5

LEMMA NewestLast ==
    ASSUME NEW N \in Nat, NEW S \in SUBSET (0 .. N),
           NEW x \in S \ Newest(S), NEW y \in Newest(S)
    PROVE  x < y
<1> SUFFICES ASSUME y <= x PROVE FALSE
  <2>1. x \in Int /\ y \in Int BY DEF Newest
  <2> QED BY <2>1
<1> DEFINE P == {z \in S : z > x}
           Q == {z \in S : z > y}
<1>1. P \subseteq Q /\ Q \subseteq S
  <2>1. \A z \in S : z \in Int OBVIOUS
  <2>2. x \in Int /\ y \in Int BY <2>1 DEF Newest
  <2>3. ASSUME NEW z \in P PROVE z \in Q
    <3>1. z \in Int /\ z \in S BY <2>1
    <3> QED BY <2>2, <3>1
  <2> QED BY <2>3
<1>2. Q \in SUBSET (0 .. N) BY <1>1
<1>3. Cardinality(P) \in Nat /\ Cardinality(Q) \in Nat /\ Cardinality(P) <= Cardinality(Q)
  BY <1>1, <1>2, PartCounted
<1>4. Cardinality(Q) < PageSize /\ ~(Cardinality(P) < PageSize) BY DEF Newest
<1>5. PageSize \in Nat BY PagingAssumption
<1> HIDE DEF P, Q
<1> QED BY <1>3, <1>4, <1>5

\* ... and leaves none out unless it is full.
LEMMA OldestAll ==
    ASSUME NEW N \in Nat, NEW S \in SUBSET (0 .. N), Cardinality(Oldest(S)) # PageSize
    PROVE  Oldest(S) = S
<1>0. PageSize \in Nat /\ PageSize > 0 BY PagingAssumption
<1> DEFINE R == S \ Oldest(S)
<1> SUFFICES ASSUME R # {} PROVE FALSE
  BY DEF Oldest
<1>1. R \in SUBSET Nat
  <2>1. \A z \in S : z \in Nat OBVIOUS
  <2> QED BY <2>1
<1> DEFINE x == Min(R)
<1>2. x \in R /\ \A n \in R : x <= n BY <1>1, LeastOf
<1> HIDE DEF x
<1> DEFINE P == {y \in S : y < x}
<1>3. P = Oldest(S)
  <2>1. P \subseteq Oldest(S)
    <3> SUFFICES ASSUME NEW y \in P, y \in R PROVE FALSE OBVIOUS
    <3> QED BY <1>2
  <2>2. ASSUME NEW y \in Oldest(S) PROVE y \in P
    <3>1. y < x BY <1>2, OldestFirst
    <3> QED BY <3>1 DEF Oldest
  <2> QED BY <2>1, <2>2
<1>4. ~(Cardinality(P) < PageSize) BY <1>2 DEF Oldest
<1>5. IsFiniteSet(P) /\ Cardinality(P) \in Nat BY PartCounted
<1>6. P # {}
  <2>1. Cardinality({}) = 0 BY FS_EmptySet
  <2> QED BY <1>0, <1>4, <2>1
<1> DEFINE z == Max(P)
<1>7. z \in P /\ \A y \in P : y <= z BY <1>6, GreatestOf
<1> HIDE DEF z
<1> DEFINE Q == {y \in S : y < z}
<1>8. P = Q \cup {z} /\ z \notin Q
  <2>1. \A y \in S : y \in Int OBVIOUS
  <2>2. x \in Int /\ z \in Int /\ z < x /\ z \in S BY <1>2, <1>7, <2>1
  <2>3. ASSUME NEW y \in P PROVE y \in Q \cup {z}
    <3>1. y \in Int BY <2>1
    <3> QED BY <1>7, <2>2, <3>1
  <2>4. ASSUME NEW y \in Q PROVE y \in P
    <3>1. y \in Int BY <2>1
    <3> QED BY <2>2, <3>1
  <2>5. z \notin Q BY <2>2
  <2> HIDE DEF P, Q
  <2> QED BY <1>7, <2>3, <2>4, <2>5
<1>9. IsFiniteSet(Q) /\ Cardinality(Q) \in Nat BY PartCounted
<1> HIDE DEF P
<1>10. Cardinality(Q) < PageSize BY <1>3, <1>7 DEF Oldest
<1> HIDE DEF Q
<1>11. Cardinality(P) = Cardinality(Q) + 1 BY <1>8, <1>9, FS_AddElement
<1> QED BY <1>0, <1>3, <1>4, <1>5, <1>9, <1>10, <1>11

LEMMA NewestAll ==
    ASSUME NEW N \in Nat, NEW S \in SUBSET (0 .. N), Cardinality(Newest(S)) # PageSize
    PROVE  Newest(S) = S
<1>0. PageSize \in Nat /\ PageSize > 0 BY PagingAssumption
<1> DEFINE R == S \ Newest(S)
<1> SUFFICES ASSUME R # {} PROVE FALSE
  BY DEF Newest
<1>1. R \in SUBSET (0 .. N) OBVIOUS
<1> DEFINE x == Max(R)
<1>2. x \in R /\ \A n \in R : n <= x BY <1>1, GreatestOf
<1> HIDE DEF x
<1> DEFINE P == {y \in S : y > x}
<1>3. P = Newest(S)
  <2>1. P \subseteq Newest(S)
    <3> SUFFICES ASSUME NEW y \in P, y \in R PROVE FALSE OBVIOUS
    <3> QED BY <1>2
  <2>2. ASSUME NEW y \in Newest(S) PROVE y \in P
    <3>1. x < y BY <1>2, NewestLast
    <3> QED BY <3>1 DEF Newest
  <2> QED BY <2>1, <2>2
<1>4. ~(Cardinality(P) < PageSize) BY <1>2 DEF Newest
<1>5. IsFiniteSet(P) /\ Cardinality(P) \in Nat BY PartCounted
<1>6. P # {}
  <2>1. Cardinality({}) = 0 BY FS_EmptySet
  <2> QED BY <1>0, <1>4, <2>1
<1> DEFINE z == Min(P)
<1>7. z \in P /\ \A y \in P : z <= y
  <2>1. P \in SUBSET Nat
    <3>1. \A n \in S : n \in Nat OBVIOUS
    <3> QED BY <3>1
  <2> QED BY <1>6, <2>1, LeastOf
<1> HIDE DEF z
<1> DEFINE Q == {y \in S : y > z}
<1>8. P = Q \cup {z} /\ z \notin Q
  <2>1. \A y \in S : y \in Int OBVIOUS
  <2>2. x \in Int /\ z \in Int /\ z > x /\ z \in S BY <1>2, <1>7, <2>1
  <2>3. ASSUME NEW y \in P PROVE y \in Q \cup {z}
    <3>1. y \in Int BY <2>1
    <3> QED BY <1>7, <2>2, <3>1
  <2>4. ASSUME NEW y \in Q PROVE y \in P
    <3>1. y \in Int BY <2>1
    <3> QED BY <2>2, <3>1
  <2>5. z \notin Q BY <2>2
  <2> HIDE DEF P, Q
  <2> QED BY <1>7, <2>3, <2>4, <2>5
<1>9. IsFiniteSet(Q) /\ Cardinality(Q) \in Nat BY PartCounted
<1> HIDE DEF P
<1>10. Cardinality(Q) < PageSize BY <1>3, <1>7 DEF Newest
<1> HIDE DEF Q
<1>11. Cardinality(P) = Cardinality(Q) + 1 BY <1>8, <1>9, FS_AddElement
<1> QED BY <1>0, <1>3, <1>4, <1>5, <1>9, <1>10, <1>11

\* An empty page means that there is nothing.
LEMMA NoneLeft ==
    ASSUME NEW N \in Nat, NEW S \in SUBSET (0 .. N)
    PROVE  (Oldest(S) = {} => S = {}) /\ (Newest(S) = {} => S = {})
<1>1. PageSize # 0 BY PagingAssumption
<1>2. Cardinality({}) = 0 BY FS_EmptySet
<1> QED BY <1>1, <1>2, OldestAll, NewestAll

-----------------------------------------------------------------------------
(* Times and grains                                                        *)

LEMMA DividedBounds ==
    ASSUME NEW t \in Nat, NEW k \in Nat \ {0}
    PROVE  k * (t \div k) <= t /\ t < k * (t \div k) + k
OBVIOUS

LEMMA DividedOrder ==
    ASSUME NEW s \in Nat, NEW t \in Nat, NEW k \in Nat \ {0}, s <= t
    PROVE  s \div k <= t \div k
<1> DEFINE p == s \div k
           q == t \div k
<1>1. p \in Nat /\ q \in Nat BY Divided
<1>2. k * p <= s /\ t < k * q + k BY DividedBounds
<1> HIDE DEF p, q
<1>3. k * p < k * q + k BY <1>1, <1>2
<1> SUFFICES ASSUME p > q PROVE FALSE
  BY <1>1 DEF p, q
<1>4. p >= q + 1 BY <1>1
<1>5. k * p >= k * (q + 1) BY <1>1, <1>4
<1>6. k * (q + 1) = k * q + k BY <1>1
<1>7. k * p \in Nat /\ k * q \in Nat BY <1>1
<1> QED BY <1>3, <1>5, <1>6, <1>7

\* The time of a grain's beginning lies in that grain.
LEMMA DividedExact ==
    ASSUME NEW q \in Nat, NEW k \in Nat \ {0}
    PROVE  q * k \in Nat /\ (q * k) \div k = q
<1> DEFINE t == q * k
           p == t \div k
<1>1. t \in Nat OBVIOUS
<1>2. p \in Nat BY <1>1, Divided
<1>3. k * p <= t /\ t < k * p + k BY <1>1, DividedBounds
<1> HIDE DEF p
<1>4. p <= q
  <2> SUFFICES ASSUME p >= q + 1 PROVE FALSE BY <1>2
  <2>1. k * p >= k * (q + 1) BY <1>2
  <2>2. k * (q + 1) = t + k BY <1>1
  <2> QED BY <1>1, <1>2, <1>3, <2>1, <2>2
<1>5. p >= q
  <2> SUFFICES ASSUME q >= p + 1 PROVE FALSE BY <1>2
  <2>1. k * q >= k * (p + 1) BY <1>2
  <2>2. k * (p + 1) = k * p + k /\ k * q = t BY <1>2
  <2>3. k * p \in Nat BY <1>2
  <2> QED BY <1>1, <1>3, <2>1, <2>2, <2>3
<1> QED BY <1>1, <1>2, <1>4, <1>5 DEF p

LEMMA MultipleOf ==
    ASSUME NEW q \in Nat, NEW k \in Nat \ {0}
    PROVE  (q * k) % k = 0
<1> DEFINE t == q * k
<1>1. t \in Nat /\ t \div k = q BY DividedExact
<1>2. t = k * (t \div k) + (t % k) /\ t % k \in Nat BY <1>1
<1>3. k * q = t OBVIOUS
<1> HIDE DEF t
<1>4. t % k = 0 BY <1>1, <1>2, <1>3
<1> QED BY <1>4 DEF t

LEMMA OnGrid ==
    ASSUME NEW t \in Nat, NEW k \in Nat \ {0}, t % k = 0
    PROVE  t = (t \div k) * k
OBVIOUS

LEMMA GrainsOrdered ==
    ASSUME NEW s \in Nat, NEW t \in Nat
    PROVE  /\ s <= t => G(s) <= G(t)
           /\ G(s) < G(t) => s < t
           /\ G(s) * Grain <= s /\ s < (G(s) + 1) * Grain
           /\ G(s) \in Nat /\ G(t) \in Nat
<1>1. Grain \in Nat \ {0} BY PagingAssumption
<1>2. G(s) \in Nat /\ G(t) \in Nat BY <1>1, Divided DEF G
<1>3. s <= t => G(s) <= G(t) BY <1>1, DividedOrder DEF G
<1>4. t <= s => G(t) <= G(s) BY <1>1, DividedOrder DEF G
<1>5. Grain * G(s) <= s /\ s < Grain * G(s) + Grain BY <1>1, DividedBounds DEF G
<1> HIDE DEF G
<1>6. G(s) * Grain <= s /\ s < (G(s) + 1) * Grain BY <1>1, <1>2, <1>5
<1> QED BY <1>2, <1>3, <1>4, <1>6

-----------------------------------------------------------------------------
(* What a fetch has behind it and what is still ahead of it                *)

Upward == {"binance", "bybit", "futures_funding", "binance_klines", "futures_klines",
           "bybit_klines", "gemini", "bitfinex", "bitfinex_klines", "bitstamp_klines"}

\* Whether a fetch that goes on at c has row x still to collect; one request
\* has all rows ahead of it.
AheadAt(c, x) ==
    CASE fetcher \in Upward              -> c <= G(venue[x])
      [] fetcher = "kraken"              -> c < venue[x]
      [] fetcher = "coinbase_klines"     -> c <= venue[x]
      [] fetcher = "okx_klines"          -> G(venue[x]) < c
      [] fetcher \in {"coinbase", "okx"} -> c = 0 \/ x < c
      [] OTHER                           -> TRUE

\* The rows of a venue are in the order of their times, candles a step apart;
\* no trade that is over splits a grain.
Sorted  == \A x, y \in DOMAIN venue : x < y => venue[x] <= venue[y]
Spaced  == fetcher \in Candles =>
    \A x, y \in DOMAIN venue : x < y => G(venue[x]) + step <= G(venue[y])
OnSteps == fetcher \in Candles => \A x \in DOMAIN venue : venue[x] % (step * Grain) = 0
Aligned == fetcher = "gemini" =>
    \A x \in DOMAIN venue : venue[x] = Now \/ venue[x] = G(venue[x]) * Grain

KnownRows    == known \subseteq DOMAIN venue /\ repeated \subseteq DOMAIN venue
PagesCounted == pages <= MaxPages

\* Two chunks of Coinbase's candles meet at c.
Meets(c) == \E k \in Nat : c = start + k * (PageSize * step * Grain)

CursorFrom == pc = "paging" =>
    /\ fetcher = "coinbase_klines" => cursor = end \/ Meets(cursor)
    /\ fetcher \in Upward => G(start) <= cursor

\* What is collected is behind the cursor, but for a candle on the seam.
Behind == pc = "paging" => \A x \in out :
    AheadAt(cursor, x) => fetcher = "coinbase_klines" /\ venue[x] = cursor

\* A candle on which two chunks of Coinbase meet is in the first of them.
SeamHeld == pc = "paging" /\ fetcher = "coinbase_klines" =>
    cursor = start \/ \A x \in DOMAIN venue : venue[x] = cursor => x \in out

\* Why a page may pass over a row while the loop goes on.
Excused(x) ==
    \/ fetcher \in ByMillisecond \cup {"kraken"} /\ CutAfterRow(x)
    \/ fetcher = "bybit_klines" /\ PageAfter(x, out)
    \/ fetcher = "coinbase_klines" /\ venue[x] = start /\ PageAfter(x, out)

\* What is wanted and not collected is ahead, or was passed over for a reason.
Remaining == pc = "paging" => \A x \in Wanted \ out : AheadAt(cursor, x) \/ Excused(x)

Market == Sorted /\ Spaced /\ OnSteps /\ Aligned /\ KnownRows /\ PagesCounted
Fetch  == CursorFrom /\ Behind /\ SeamHeld /\ Remaining

FInv == IInv /\ Market /\ Fetch /\ CollectedOnce /\ LossesExplained

\* A page of S was cut in the grain or the minute of x.
CutAfter(S, x) ==
    \E y \in S : G(venue[y]) <= G(venue[x]) /\ G(venue[x]) < G(venue[y]) + Skip

\* A page that kept the rows of S passed x over.
Cut(S, x) ==
    \/ fetcher \in ByMillisecond \cup {"kraken"} /\ CutAfter(S, x)
    \/ fetcher = "bybit_klines" /\ PageAfter(x, S)
    \/ fetcher = "coinbase_klines" /\ venue[x] = start /\ PageAfter(x, S)

\* Why a row that was ahead may be missing once an answer has ended the loop.
Lost(S, x) ==
    \/ Cut(S, x)
    \/ fetcher = "bitstamp" /\ venue[x] < Now - LastDay
    \/ fetcher = "bitstamp_klines" /\ AfterHole(x)
    \/ fetcher = "bybit_funding" /\ PageAfter(x, S)
    \/ fetcher \in {"kraken_klines", "gemini_klines"} /\ PageAfter(x, DOMAIN venue)

\* A pass of a loop keeps only rows that are ahead, leaves them behind, and
\* leaves no other one behind without a reason.
KeepsAhead(a) == \A x \in a.keep : AheadAt(cursor, x)
MovesOn(a) == /\ \A x \in DOMAIN venue : AheadAt(a.next, x) => AheadAt(cursor, x)
              /\ fetcher \in Upward => cursor <= a.next
              /\ fetcher = "coinbase_klines" =>
                    /\ cursor <= a.next
                    /\ a.next = end \/ a.next = cursor + PageSize * step * Grain
                    /\ \A x \in DOMAIN venue : venue[x] = a.next => x \in a.keep
LeavesBehind(a) == a.more => \A x \in a.keep :
    AheadAt(a.next, x) => fetcher = "coinbase_klines" /\ venue[x] = a.next
LeavesAhead(a) == a.more => \A x \in Wanted \ (out \cup a.keep) :
    AheadAt(cursor, x) => AheadAt(a.next, x) \/ Cut(a.keep, x)
EndsWell(a) == ~a.more => \A x \in Wanted \ a.keep : AheadAt(cursor, x) => Lost(a.keep, x)

PageRight(a) == KeepsAhead(a) /\ MovesOn(a) /\ LeavesBehind(a) /\ LeavesAhead(a) /\ EndsWell(a)

LEMMA Ordered ==
    ASSUME FInv, NEW x \in DOMAIN venue, NEW y \in DOMAIN venue, x <= y
    PROVE  /\ venue[x] \in Nat /\ venue[y] \in Nat /\ venue[x] <= venue[y]
           /\ G(venue[x]) \in Nat /\ G(venue[y]) \in Nat /\ G(venue[x]) <= G(venue[y])
<1>1. TypeOK /\ Sorted BY DEF FInv, IInv, Market
<1>2. venue[x] \in Nat /\ venue[y] \in Nat BY <1>1, RowsOfVenue
<1>3. venue[x] <= venue[y]
  <2>1. x \in Int /\ y \in Int
    <3>1. DOMAIN venue \subseteq 0 .. Len(venue) /\ Len(venue) \in Nat BY <1>1, RowsOfVenue
    <3> QED BY <3>1
  <2>2. CASE x = y BY <1>2, <2>2
  <2>3. CASE x < y BY <1>1, <2>3 DEF Sorted
  <2> QED BY <2>1, <2>2, <2>3
<1> QED BY <1>2, <1>3, GrainsOrdered

LEMMA JobRange ==
    ASSUME FInv
    PROVE  /\ TypeOK /\ start \in Nat /\ end \in Nat /\ start < end /\ end <= Now /\ Now \in Nat
           /\ G(start) \in Nat /\ G(end) \in Nat /\ G(Now) \in Nat /\ G(end) <= G(Now)
           /\ cursor \in Nat /\ step \in Nat /\ step > 0
           /\ Skip \in Nat /\ Skip > 0
           /\ PageSize \in Nat /\ PageSize > 1 /\ Grain \in Nat /\ Grain > 0
<1>1. TypeOK BY DEF FInv, IInv
<1>2. <<start, end>> \in {w \in (0 .. Now) \X (0 .. Now) : w[1] < w[2]}
  BY <1>1, PagingAssumption DEF TypeOK
<1>3. Now \in Nat BY PagingAssumption
<1>4. start \in Nat /\ end \in Nat /\ start < end /\ end <= Now BY <1>2, <1>3
<1>5. G(start) \in Nat /\ G(end) \in Nat /\ G(Now) \in Nat /\ G(end) <= G(Now)
  BY <1>3, <1>4, GrainsOrdered
<1>6. step \in Nat /\ step > 0 /\ cursor \in Nat BY <1>1, PagingAssumption DEF TypeOK
<1>7. Skip \in Nat /\ Skip > 0 BY PagingAssumption DEF Skip
<1> QED BY <1>1, <1>3, <1>4, <1>5, <1>6, <1>7, PagingAssumption

LEMMA WantedRow ==
    ASSUME FInv, NEW x \in Wanted
    PROVE  /\ x \in DOMAIN venue /\ x \in Int /\ venue[x] \in Nat /\ G(venue[x]) \in Nat
           /\ start <= venue[x] /\ venue[x] < end /\ (fetcher = "kraken" => start < venue[x])
           /\ G(start) <= G(venue[x]) /\ G(venue[x]) < G(end) /\ G(venue[x]) <= G(Now)
<1>1. x \in DOMAIN venue BY DEF FInv, Market, KnownRows, Wanted
<1>2. TypeOK /\ start \in Nat /\ end \in Nat BY JobRange
<1>3. venue[x] \in Nat BY <1>1, <1>2, RowsOfVenue
<1>4. x \in Int
  <2>1. DOMAIN venue \subseteq 0 .. Len(venue) /\ Len(venue) \in Nat BY <1>2, RowsOfVenue
  <2> QED BY <1>1, <2>1
<1>5. start <= venue[x] /\ (fetcher = "kraken" => start < venue[x]) /\ G(venue[x]) < G(end)
  <2>1. start + (IF fetcher = "kraken" THEN 1 ELSE 0) <= venue[x] /\ G(venue[x]) < G(end)
    BY DEF Wanted
  <2> QED BY <1>2, <1>3, <2>1
<1>6. venue[x] < end BY <1>2, <1>3, <1>5, GrainsOrdered
<1>7. G(venue[x]) \in Nat /\ G(start) <= G(venue[x]) BY <1>2, <1>3, <1>5, GrainsOrdered
<1>8. G(end) \in Nat /\ G(Now) \in Nat /\ G(end) <= G(Now) BY JobRange
<1> QED BY <1>1, <1>3, <1>4, <1>5, <1>6, <1>7, <1>8

\* A page of the oldest rows in S: the last one bounds it from those left out.
LEMMA OldestPage ==
    ASSUME FInv, NEW S \in SUBSET DOMAIN venue, Oldest(S) # {}
    PROVE  LET m == Max(Oldest(S))
           IN  /\ m \in Oldest(S) /\ m \in S /\ m \in DOMAIN venue
               /\ venue[m] \in Nat /\ G(venue[m]) \in Nat
               /\ \A x \in Oldest(S) : /\ venue[x] \in Nat /\ venue[x] <= venue[m]
                                       /\ G(venue[x]) \in Nat /\ G(venue[x]) <= G(venue[m])
               /\ \A x \in S \ Oldest(S) :
                    /\ m < x /\ venue[x] \in Nat /\ venue[m] <= venue[x]
                    /\ G(venue[x]) \in Nat /\ G(venue[m]) <= G(venue[x])
<1> DEFINE m == Max(Oldest(S))
<1>1. TypeOK BY JobRange
<1>2. Len(venue) \in Nat /\ S \in SUBSET (0 .. Len(venue)) BY <1>1, RowsOfVenue
<1>3. Oldest(S) \in SUBSET S BY DEF Oldest
<1>4. Oldest(S) \in SUBSET (0 .. Len(venue)) BY <1>2, <1>3
<1>5. m \in Oldest(S) /\ \A x \in Oldest(S) : x <= m BY <1>2, <1>4, GreatestOf
<1> HIDE DEF m
<1>6. m \in S /\ m \in DOMAIN venue BY <1>3, <1>5
<1>7. m <= m BY <1>2, <1>6
<1>8. venue[m] \in Nat /\ G(venue[m]) \in Nat BY <1>6, <1>7, Ordered
<1>9. ASSUME NEW x \in Oldest(S)
      PROVE  /\ venue[x] \in Nat /\ venue[x] <= venue[m]
             /\ G(venue[x]) \in Nat /\ G(venue[m]) \in Nat /\ G(venue[x]) <= G(venue[m])
  <2>1. x \in DOMAIN venue /\ x <= m BY <1>3, <1>5
  <2> QED BY <1>6, <2>1, Ordered
<1>10. ASSUME NEW x \in S \ Oldest(S)
       PROVE  /\ m < x /\ venue[x] \in Nat /\ venue[m] <= venue[x]
              /\ G(venue[x]) \in Nat /\ G(venue[m]) <= G(venue[x])
  <2>1. m < x BY <1>2, <1>5, OldestFirst
  <2>2. m <= x
    <3>1. m \in Int /\ x \in Int BY <1>2, <1>6
    <3> QED BY <2>1, <3>1
  <2> QED BY <1>6, <2>1, <2>2, Ordered
<1> QED BY <1>5, <1>6, <1>8, <1>9, <1>10 DEF m

LEMMA NewestPage ==
    ASSUME FInv, NEW S \in SUBSET DOMAIN venue, Newest(S) # {}
    PROVE  LET m == Min(Newest(S))
           IN  /\ m \in Newest(S) /\ m \in S /\ m \in DOMAIN venue /\ m \in Nat
               /\ venue[m] \in Nat /\ G(venue[m]) \in Nat
               /\ \A x \in Newest(S) : m <= x /\ x \in Nat /\ venue[x] \in Nat
                                       /\ G(venue[x]) \in Nat /\ G(venue[m]) <= G(venue[x])
               /\ \A x \in S \ Newest(S) : x < m
<1> DEFINE m == Min(Newest(S))
<1>1. TypeOK BY JobRange
<1>2. Len(venue) \in Nat /\ S \in SUBSET (0 .. Len(venue)) BY <1>1, RowsOfVenue
<1>3. Newest(S) \in SUBSET S BY DEF Newest
<1>4. \A x \in S : x \in Nat BY <1>2
<1>5. Newest(S) \in SUBSET Nat BY <1>3, <1>4
<1>6. m \in Newest(S) /\ \A x \in Newest(S) : m <= x BY <1>5, LeastOf
<1> HIDE DEF m
<1>7. m \in S /\ m \in DOMAIN venue /\ m \in Nat BY <1>3, <1>4, <1>6
<1>8. ASSUME NEW x \in Newest(S)
      PROVE  /\ m <= x /\ x \in Nat /\ venue[x] \in Nat /\ venue[m] \in Nat
             /\ G(venue[x]) \in Nat /\ G(venue[m]) \in Nat /\ G(venue[m]) <= G(venue[x])
  <2>1. x \in DOMAIN venue /\ x \in Nat /\ m <= x BY <1>3, <1>5, <1>6
  <2> QED BY <1>7, <2>1, Ordered
<1>9. \A x \in S \ Newest(S) : x < m BY <1>2, <1>6, NewestLast
<1> QED BY <1>6, <1>7, <1>8, <1>9 DEF m

LEMMA SomeRows ==
    ASSUME FInv, NEW S \in SUBSET DOMAIN venue
    PROVE  /\ Oldest(S) \in SUBSET S /\ Newest(S) \in SUBSET S
           /\ Oldest(S) = {} => S = {}
           /\ Newest(S) = {} => S = {}
           /\ Cardinality(Oldest(S)) # PageSize => Oldest(S) = S
           /\ Cardinality(Newest(S)) # PageSize => Newest(S) = S
           /\ Cardinality({}) = 0
<1>1. TypeOK BY JobRange
<1>2. Len(venue) \in Nat /\ S \in SUBSET (0 .. Len(venue)) BY <1>1, RowsOfVenue
<1>3. Oldest(S) \in SUBSET S /\ Newest(S) \in SUBSET S BY DEF Oldest, Newest
<1> QED BY <1>2, <1>3, NoneLeft, OldestAll, NewestAll, FS_EmptySet

\* A row that a page of the newest leaves out has the whole page after it.
LEMMA PassedOver ==
    ASSUME FInv, NEW S \in SUBSET DOMAIN venue, NEW x \in S \ Newest(S)
    PROVE  PageAfter(x, Newest(S)) /\ Cardinality(Newest(S)) = PageSize
<1>1. Len(venue) \in Nat /\ S \in SUBSET (0 .. Len(venue)) BY JobRange, RowsOfVenue
<1>2. Cardinality(Newest(S)) = PageSize BY SomeRows
<1>3. \A y \in Newest(S) : x < y BY <1>1, NewestLast
<1>4. \A y \in Newest(S) : y > x
  <2>1. x \in Int /\ \A y \in Newest(S) : y \in Int BY <1>1 DEF Newest
  <2> QED BY <1>3, <2>1
<1>5. {y \in Newest(S) : y > x} = Newest(S) BY <1>4
<1>6. PageSize \in Nat BY JobRange
<1> QED BY <1>2, <1>5, <1>6 DEF PageAfter

LEMMA PageAfterGrows ==
    ASSUME FInv, NEW S, NEW T \in SUBSET DOMAIN venue, S \subseteq T, NEW x, PageAfter(x, S)
    PROVE  PageAfter(x, T)
<1> DEFINE P == {y \in S : y > x}
           Q == {y \in T : y > x}
<1>1. Len(venue) \in Nat /\ DOMAIN venue \subseteq 0 .. Len(venue) BY JobRange, RowsOfVenue
<1>2. P \in SUBSET Q /\ Q \in SUBSET (0 .. Len(venue)) BY <1>1
<1>3. Q \in SUBSET Q OBVIOUS
<1>4. Cardinality(P) \in Nat /\ Cardinality(Q) \in Nat /\ Cardinality(P) <= Cardinality(Q)
  <2> HIDE DEF P, Q
  <2> QED BY <1>1, <1>2, <1>3, PartCounted
<1>5. Cardinality(P) >= PageSize /\ PageSize \in Nat BY JobRange DEF PageAfter
<1> HIDE DEF P, Q
<1>6. Cardinality(Q) >= PageSize BY <1>4, <1>5
<1> QED BY <1>6 DEF PageAfter, Q

-----------------------------------------------------------------------------
(* Every loop makes such passes                                            *)

LEMMA AnswerParts ==
    ASSUME NEW keep, NEW next, NEW more
    PROVE  LET a == Answer(keep, next, more)
           IN  a.keep = keep /\ a.next = next /\ a.more = more
BY DEF Answer

LEMMA AheadUpward ==
    ASSUME fetcher \in Upward
    PROVE  \A c, x : AheadAt(c, x) <=> c <= G(venue[x])
BY DEF AheadAt, Upward

\* Fetchers that go upwards by grain and keep what they are given.
LEMMA UpwardsRight ==
    ASSUME FInv, fetcher \in Upward, fetcher \in ByMillisecond
    PROVE  PageRight(Upwards(cursor, Skip))
<1> DEFINE S == GrainsBetween(cursor, G(end))
           rows == Oldest(S)
           next == IF rows = {} THEN cursor ELSE G(venue[Max(rows)]) + Skip
           more == Cardinality(rows) = PageSize
           a == Upwards(cursor, Skip)
<1>1. a.keep = rows /\ a.next = next /\ a.more = more BY AnswerParts DEF Upwards
<1>2. S \in SUBSET DOMAIN venue BY DEF GrainsBetween
<1>3. cursor \in Nat /\ Skip \in Nat /\ Skip > 0 /\ PageSize > 1 BY JobRange
<1>4. \A c, x : AheadAt(c, x) <=> c <= G(venue[x]) BY AheadUpward
<1>5. fetcher # "coinbase_klines" BY DEF Upward
<1>6. \A x \in Wanted : cursor <= G(venue[x]) => x \in S
  <2> SUFFICES ASSUME NEW x \in Wanted, cursor <= G(venue[x]) PROVE x \in S OBVIOUS
  <2>1. /\ x \in DOMAIN venue /\ G(venue[x]) \in Nat /\ G(end) \in Nat
        /\ G(venue[x]) < G(end) /\ G(venue[x]) <= G(Now)
    BY WantedRow, JobRange
  <2>2. G(venue[x]) <= G(end) BY <2>1
  <2> HIDE DEF G
  <2> QED BY <2>1, <2>2 DEF GrainsBetween
<1>7. \A x \in S : cursor <= G(venue[x]) BY DEF GrainsBetween
<1> SUFFICES PageRight(a) OBVIOUS
<1> HIDE DEF S, a
<1>8. CASE rows = {}
  <2>1. S = {} /\ ~more BY <1>2, <1>3, <1>8, SomeRows
  <2>2. next = cursor BY <1>8
  <2> HIDE DEF rows, next, more
  <2>3. a.keep = {} /\ a.next = cursor /\ ~a.more BY <1>1, <1>8, <2>1, <2>2
  <2>4. KeepsAhead(a) /\ LeavesBehind(a) /\ LeavesAhead(a)
    BY <2>3 DEF KeepsAhead, LeavesBehind, LeavesAhead
  <2>5. MovesOn(a)
    <3>1. \A x \in DOMAIN venue : AheadAt(a.next, x) => AheadAt(cursor, x) BY <1>4, <2>3
    <3>2. cursor <= a.next BY <1>3, <2>3
    <3> QED BY <1>5, <3>1, <3>2 DEF MovesOn
  <2>6. EndsWell(a) BY <1>4, <1>6, <2>1, <2>3 DEF EndsWell
  <2> QED BY <2>4, <2>5, <2>6 DEF PageRight
<1>9. CASE rows # {}
  <2> DEFINE m == Max(rows)
  <2>1. /\ m \in rows /\ m \in S /\ venue[m] \in Nat /\ G(venue[m]) \in Nat
        /\ \A x \in rows : G(venue[x]) \in Nat /\ G(venue[x]) <= G(venue[m])
        /\ \A x \in S \ rows : G(venue[x]) \in Nat /\ G(venue[m]) <= G(venue[x])
    BY <1>2, <1>9, OldestPage
  <2>2. next = G(venue[m]) + Skip BY <1>9
  <2>3. rows \in SUBSET S /\ (~more => rows = S) BY <1>2, SomeRows
  <2> HIDE DEF rows, next, more, m
  <2>4. cursor <= next BY <1>3, <1>7, <2>1, <2>2
  <2>5. KeepsAhead(a) BY <1>1, <1>4, <1>7, <2>3 DEF KeepsAhead
  <2>6. MovesOn(a)
    <3>1. ASSUME NEW x \in DOMAIN venue, next <= G(venue[x]) PROVE cursor <= G(venue[x])
      <4>1. G(venue[x]) \in Nat BY JobRange, RowsOfVenue
      <4>2. next \in Nat BY <1>3, <2>1, <2>2
      <4> QED BY <1>3, <2>4, <3>1, <4>1, <4>2
    <3> QED BY <1>1, <1>4, <1>5, <2>4, <3>1 DEF MovesOn
  <2>7. LeavesBehind(a)
    <3>1. ASSUME NEW x \in rows PROVE ~(next <= G(venue[x]))
      BY <1>3, <2>1, <2>2
    <3> QED BY <1>1, <1>4, <3>1 DEF LeavesBehind
  <2>8. ASSUME NEW x \in Wanted \ rows, cursor <= G(venue[x])
        PROVE  more /\ (next <= G(venue[x]) \/ CutAfter(rows, x))
    <3>1. x \in S \ rows BY <1>6, <2>8
    <3>2. more BY <2>3, <3>1
    <3>3. G(venue[x]) \in Nat /\ G(venue[m]) <= G(venue[x]) BY <2>1, <3>1
    <3>4. next <= G(venue[x]) \/ G(venue[x]) < G(venue[m]) + Skip BY <1>3, <2>1, <2>2, <3>3
    <3> QED BY <2>1, <3>2, <3>3, <3>4 DEF CutAfter
  <2>9. LeavesAhead(a) /\ EndsWell(a)
    BY <1>1, <1>4, <2>8 DEF LeavesAhead, EndsWell, Cut
  <2> QED BY <2>5, <2>6, <2>7, <2>9 DEF PageRight
<1> QED BY <1>8, <1>9

\* A full page of Bybit's candles is the last of the window.
LEMMA BybitKlinesRight ==
    ASSUME FInv, fetcher = "bybit_klines"
    PROVE  PageRight(BybitKlines(cursor))
<1> DEFINE S == GrainsBetween(cursor, G(end))
           rows == Newest(S)
           m == Max(rows)
           next == IF rows = {} THEN cursor ELSE G(venue[m]) + Minute
           more == Cardinality(rows) = PageSize
           a == BybitKlines(cursor)
<1>1. a.keep = rows /\ a.next = next /\ a.more = more BY AnswerParts DEF BybitKlines
<1>2. S \in SUBSET DOMAIN venue BY DEF GrainsBetween
<1>3. cursor \in Nat /\ Minute \in Nat /\ Minute > 0 /\ PageSize > 1
  BY JobRange, PagingAssumption
<1>4. \A c, x : AheadAt(c, x) <=> c <= G(venue[x]) BY AheadUpward DEF Upward
<1>5. fetcher # "coinbase_klines" OBVIOUS
<1>6. \A x \in Wanted : cursor <= G(venue[x]) => x \in S
  <2> SUFFICES ASSUME NEW x \in Wanted, cursor <= G(venue[x]) PROVE x \in S OBVIOUS
  <2>1. /\ x \in DOMAIN venue /\ G(venue[x]) \in Nat /\ G(end) \in Nat
        /\ G(venue[x]) < G(end) /\ G(venue[x]) <= G(Now)
    BY WantedRow, JobRange
  <2>2. G(venue[x]) <= G(end) BY <2>1
  <2> HIDE DEF G
  <2> QED BY <2>1, <2>2 DEF GrainsBetween
<1>7. \A x \in S : cursor <= G(venue[x]) BY DEF GrainsBetween
<1>8. rows \in SUBSET S /\ (~more => rows = S) /\ (rows = {} => S = {}) BY <1>2, SomeRows
<1>9. ASSUME NEW x \in Wanted \ rows, cursor <= G(venue[x])
      PROVE  more /\ PageAfter(x, rows)
  <2>1. x \in S \ rows BY <1>6, <1>9
  <2> QED BY <1>2, <2>1, PassedOver
<1>10. ASSUME rows # {}
       PROVE  /\ G(venue[m]) \in Nat /\ cursor <= G(venue[m])
              /\ \A x \in rows : G(venue[x]) \in Nat /\ G(venue[x]) <= G(venue[m])
  <2>1. Len(venue) \in Nat /\ DOMAIN venue \subseteq 0 .. Len(venue)
    BY JobRange, RowsOfVenue
  <2>2. rows \in SUBSET DOMAIN venue /\ rows \in SUBSET (0 .. Len(venue))
    BY <1>2, <1>8, <2>1
  <2> HIDE DEF rows
  <2>3. m \in rows /\ \A x \in rows : x <= m BY <1>10, <2>1, <2>2, GreatestOf
  <2>4. ASSUME NEW x \in rows
        PROVE G(venue[x]) \in Nat /\ G(venue[m]) \in Nat /\ G(venue[x]) <= G(venue[m])
    BY <2>2, <2>3, Ordered
  <2>5. cursor <= G(venue[m]) BY <1>7, <1>8, <2>3
  <2> QED BY <2>3, <2>4, <2>5
<1> SUFFICES PageRight(a) OBVIOUS
<1> HIDE DEF S, a, more
<1>11. KeepsAhead(a) BY <1>1, <1>4, <1>7, <1>8 DEF KeepsAhead
<1>12. cursor <= next
  <2>1. CASE rows = {} BY <1>3, <2>1
  <2>2. CASE rows # {}
    <3> DEFINE g == G(venue[m])
    <3>1. g \in Nat /\ cursor <= g /\ next = g + Minute BY <1>10, <2>2
    <3> HIDE DEF g, next
    <3> QED BY <1>3, <3>1
  <2> QED BY <2>1, <2>2
<1>13. next \in Nat
  <2>1. CASE rows = {} BY <1>3, <2>1
  <2>2. CASE rows # {}
    <3> DEFINE g == G(venue[m])
    <3>1. g \in Nat /\ next = g + Minute BY <1>10, <2>2
    <3> HIDE DEF g, next
    <3> QED BY <1>3, <3>1
  <2> QED BY <2>1, <2>2
<1>14. LeavesBehind(a)
  <2>1. ASSUME NEW x \in rows PROVE ~(next <= G(venue[x]))
    <3>1. rows # {} OBVIOUS
    <3> DEFINE g == G(venue[m])
               h == G(venue[x])
    <3>2. g \in Nat /\ h \in Nat /\ h <= g /\ next = g + Minute BY <1>10, <3>1
    <3> HIDE DEF g, h, next
    <3>3. ~(next <= h) BY <1>3, <3>2
    <3> QED BY <3>3 DEF h
  <2> QED BY <1>1, <1>4, <2>1 DEF LeavesBehind
<1> HIDE DEF rows, m, next
<1>15. MovesOn(a)
  <2>1. ASSUME NEW x \in DOMAIN venue, next <= G(venue[x]) PROVE cursor <= G(venue[x])
    <3>1. G(venue[x]) \in Nat BY JobRange, RowsOfVenue
    <3> QED BY <1>3, <1>12, <1>13, <2>1, <3>1
  <2> QED BY <1>1, <1>4, <1>5, <1>12, <2>1 DEF MovesOn
<1>16. LeavesAhead(a) /\ EndsWell(a)
  BY <1>1, <1>4, <1>9 DEF LeavesAhead, EndsWell, Cut
<1> QED BY <1>11, <1>14, <1>15, <1>16 DEF PageRight

\* Gemini keeps what lies in the window, and sees what lies after it.
LEMMA GeminiRight ==
    ASSUME FInv, fetcher = "gemini"
    PROVE  PageRight(Gemini(cursor))
<1> DEFINE S == GrainsBetween(cursor, G(Now))
           rows == Oldest(S)
           next == G(venue[Max(rows)]) + 1
           more == \A x \in rows : venue[x] <= end
           a == Gemini(cursor)
<1>2. S \in SUBSET DOMAIN venue BY DEF GrainsBetween
<1>3. cursor \in Nat /\ PageSize > 1 /\ start \in Nat /\ end \in Nat /\ Skip = 1
  BY JobRange DEF Skip, MinuteOn
<1>4. \A c, x : AheadAt(c, x) <=> c <= G(venue[x]) BY AheadUpward DEF Upward
<1>6. \A x \in Wanted : cursor <= G(venue[x]) => x \in S
  <2> SUFFICES ASSUME NEW x \in Wanted, cursor <= G(venue[x]) PROVE x \in S OBVIOUS
  <2>1. /\ x \in DOMAIN venue /\ G(venue[x]) \in Nat /\ G(end) \in Nat
        /\ G(venue[x]) < G(end) /\ G(venue[x]) <= G(Now)
    BY WantedRow, JobRange
  <2>2. G(venue[x]) <= G(end) BY <2>1
  <2> HIDE DEF G
  <2> QED BY <2>1, <2>2 DEF GrainsBetween
<1>7. \A x \in S : cursor <= G(venue[x]) BY DEF GrainsBetween
<1>8. CASE rows = {}
  <2>1. a = Answer({}, cursor, FALSE) BY <1>8 DEF Gemini
  <2> SUFFICES PageRight(a) OBVIOUS
  <2> HIDE DEF S, a
  <2>3. a.keep = {} /\ a.next = cursor /\ a.more = FALSE BY <2>1 DEF Answer
  <2>2. S = {} BY <1>2, <1>8, SomeRows
  <2> HIDE DEF rows
  <2> QED BY <1>3, <1>4, <1>6, <2>2, <2>3
          DEF PageRight, KeepsAhead, MovesOn, LeavesBehind, LeavesAhead, EndsWell
<1>9. CASE rows # {}
  <2> DEFINE keep == rows \cap Between(start, end)
             m == Max(rows)
  <2>0. a = Answer(keep, next, more) BY <1>9 DEF Gemini
  <2> SUFFICES PageRight(a) OBVIOUS
  <2> HIDE DEF a
  <2>1. a.keep = keep /\ a.next = next /\ a.more = more BY <2>0 DEF Answer
  <2> HIDE DEF S
  <2>2. /\ m \in rows /\ m \in S /\ m \in DOMAIN venue /\ venue[m] \in Nat /\ G(venue[m]) \in Nat
        /\ \A x \in rows : venue[x] \in Nat /\ G(venue[x]) \in Nat /\ G(venue[x]) <= G(venue[m])
        /\ \A x \in S \ rows : /\ m < x /\ venue[x] \in Nat /\ venue[m] <= venue[x]
                               /\ G(venue[x]) \in Nat /\ G(venue[m]) <= G(venue[x])
    BY <1>2, <1>9, OldestPage
  <2>3. next = G(venue[m]) + 1 OBVIOUS
  <2>4. rows \in SUBSET S /\ keep \in SUBSET rows BY <1>2, SomeRows
  <2>5. \A x \in rows : x \in Wanted => x \in keep
    <3> SUFFICES ASSUME NEW x \in rows, x \in Wanted PROVE x \in keep OBVIOUS
    <3>1. x \in DOMAIN venue /\ start <= venue[x] /\ venue[x] < end /\ venue[x] \in Nat
      BY WantedRow
    <3> QED BY <1>3, <3>1 DEF Between
  <2>6. \A x \in keep : venue[x] <= end /\ start <= venue[x] BY DEF Between
  <2>7. ASSUME start <= venue[m], venue[m] <= end PROVE m \in keep
    BY <2>2, <2>7 DEF Between
  <2> HIDE DEF rows, next, m, keep
  <2>8. cursor <= next BY <1>3, <1>7, <2>2, <2>3
  <2>9. KeepsAhead(a) BY <1>4, <1>7, <2>1, <2>4 DEF KeepsAhead
  <2>10. MovesOn(a)
    <3>1. ASSUME NEW x \in DOMAIN venue, next <= G(venue[x]) PROVE cursor <= G(venue[x])
      <4>1. G(venue[x]) \in Nat BY JobRange, RowsOfVenue
      <4>2. next \in Nat BY <1>3, <2>2, <2>3
      <4> QED BY <1>3, <2>8, <3>1, <4>1, <4>2
    <3> QED BY <1>4, <2>1, <2>8, <3>1 DEF MovesOn
  <2>11. LeavesBehind(a)
    <3>1. ASSUME NEW x \in rows PROVE ~(next <= G(venue[x]))
      BY <1>3, <2>2, <2>3
    <3> QED BY <1>4, <2>1, <2>4, <3>1 DEF LeavesBehind
  <2>12. ASSUME NEW x \in Wanted \ keep, cursor <= G(venue[x])
         PROVE  more /\ (next <= G(venue[x]) \/ CutAfter(keep, x))
    <3>1. x \in S \ rows BY <1>6, <2>5, <2>12
    <3>2. /\ venue[x] \in Nat /\ venue[m] <= venue[x] /\ m < x
          /\ G(venue[x]) \in Nat /\ G(venue[m]) <= G(venue[x])
      BY <2>2, <3>1
    <3>3. /\ x \in DOMAIN venue /\ start <= venue[x] /\ venue[x] < end /\ end <= Now /\ Now \in Nat
          /\ G(venue[x]) < G(end) /\ G(end) \in Nat /\ G(Now) \in Nat /\ G(end) <= G(Now)
      BY WantedRow, JobRange
    <3>4. more
      <4> SUFFICES ASSUME NEW y \in rows PROVE venue[y] <= end OBVIOUS
      <4>1. y \in DOMAIN venue /\ venue[y] \in Nat /\ x \in DOMAIN venue /\ y <= x
        <5>1. Len(venue) \in Nat /\ DOMAIN venue \subseteq 0 .. Len(venue)
          BY JobRange, RowsOfVenue
        <5>2. y \in DOMAIN venue BY <1>2, <2>4
        <5>3. S \in SUBSET (0 .. Len(venue)) BY <1>2, <5>1
        <5>4. y < x
          <6>1. y \in Oldest(S) /\ x \in S \ Oldest(S) BY <3>1 DEF rows
          <6> QED BY <5>1, <5>3, <6>1, OldestFirst
        <5> QED BY <2>2, <3>3, <5>1, <5>2, <5>4
      <4>2. venue[y] <= venue[x] BY <4>1, Ordered
      <4> QED BY <1>3, <3>2, <3>3, <4>1, <4>2
    <3>5. next <= G(venue[x]) \/ G(venue[x]) = G(venue[m])
      BY <2>2, <2>3, <3>2
    <3>6. CASE G(venue[x]) = G(venue[m])
      <4>1. venue[x] # Now /\ venue[m] # Now BY <1>3, <2>2, <3>2, <3>3
      <4>2. venue[x] = G(venue[x]) * Grain /\ venue[m] = G(venue[m]) * Grain
        BY <2>2, <3>3, <4>1 DEF FInv, Market, Aligned
      <4>3. venue[m] = venue[x] BY <3>6, <4>2
      <4>4. start <= venue[m] /\ venue[m] <= end BY <1>3, <3>2, <3>3, <4>3
      <4>5. m \in keep BY <2>7, <4>4
      <4>6. G(venue[m]) <= G(venue[x]) /\ G(venue[x]) < G(venue[m]) + Skip
        BY <1>3, <2>2, <3>2, <3>6
      <4> QED BY <3>4, <4>5, <4>6 DEF CutAfter
    <3> QED BY <3>4, <3>5, <3>6
  <2>13. fetcher \in ByMillisecond BY DEF ByMillisecond
  <2>14. LeavesAhead(a) /\ EndsWell(a)
    BY <1>4, <2>1, <2>12, <2>13 DEF LeavesAhead, EndsWell, Cut
  <2> QED BY <2>9, <2>10, <2>11, <2>14 DEF PageRight
<1> QED BY <1>8, <1>9

\* Kraken goes on after the last row it was given.
LEMMA KrakenRight ==
    ASSUME FInv, fetcher = "kraken"
    PROVE  PageRight(Kraken(cursor))
<1> DEFINE S == Between(cursor + 1, Now)
           rows == Oldest(S)
           a == Kraken(cursor)
<1>1. cursor \in Nat /\ end \in Nat /\ Now \in Nat /\ end <= Now /\ Skip = 1
  BY JobRange DEF Skip, MinuteOn
<1>2. S \in SUBSET DOMAIN venue BY DEF Between
<1>3. \A c, x : AheadAt(c, x) <=> c < venue[x] BY DEF AheadAt, Upward
<1>4. fetcher \notin Upward /\ fetcher # "coinbase_klines" BY DEF Upward
<1>5. \A x \in Wanted : cursor < venue[x] => x \in S
  <2> SUFFICES ASSUME NEW x \in Wanted, cursor < venue[x] PROVE x \in S OBVIOUS
  <2>1. x \in DOMAIN venue /\ venue[x] \in Nat /\ venue[x] < end BY WantedRow
  <2> QED BY <1>1, <2>1 DEF Between
<1>6. \A x \in S : cursor < venue[x]
  <2> SUFFICES ASSUME NEW x \in S PROVE cursor < venue[x] OBVIOUS
  <2>1. venue[x] \in Nat /\ cursor + 1 <= venue[x] BY <1>2, JobRange, RowsOfVenue DEF Between
  <2> QED BY <1>1, <2>1
<1>7. CASE rows = {}
  <2>1. a = Answer({}, cursor, FALSE) BY <1>7 DEF Kraken
  <2> SUFFICES PageRight(a) OBVIOUS
  <2> HIDE DEF S, a
  <2>3. a.keep = {} /\ a.next = cursor /\ a.more = FALSE BY <2>1 DEF Answer
  <2>2. S = {} BY <1>2, <1>7, SomeRows
  <2> HIDE DEF rows
  <2> QED BY <1>3, <1>4, <1>5, <2>2, <2>3
          DEF PageRight, KeepsAhead, MovesOn, LeavesBehind, LeavesAhead, EndsWell
<1>8. CASE rows # {}
  <2> DEFINE keep == {x \in rows : venue[x] <= end}
             m == Max(rows)
  <2>0. a = Answer(keep, venue[m], TRUE) BY <1>8 DEF Kraken
  <2> SUFFICES PageRight(a) OBVIOUS
  <2> HIDE DEF a
  <2>1. a.keep = keep /\ a.next = venue[m] /\ a.more = TRUE BY <2>0 DEF Answer
  <2> HIDE DEF S
  <2>2. /\ m \in rows /\ m \in S /\ venue[m] \in Nat /\ G(venue[m]) \in Nat
        /\ \A x \in rows : venue[x] \in Nat /\ venue[x] <= venue[m]
        /\ \A x \in S \ rows : /\ m < x /\ venue[x] \in Nat /\ venue[m] <= venue[x]
                               /\ G(venue[x]) \in Nat /\ G(venue[m]) <= G(venue[x])
    BY <1>2, <1>8, OldestPage
  <2>3. rows \in SUBSET S BY <1>2, SomeRows
  <2> HIDE DEF rows, m
  <2>4. KeepsAhead(a) BY <1>3, <1>6, <2>1, <2>3 DEF KeepsAhead
  <2>5. MovesOn(a)
    <3>1. ASSUME NEW x \in DOMAIN venue, venue[m] < venue[x] PROVE cursor < venue[x]
      <4>1. venue[x] \in Nat BY JobRange, RowsOfVenue
      <4>2. cursor < venue[m] BY <1>6, <2>2
      <4> QED BY <1>1, <2>2, <3>1, <4>1, <4>2
    <3> QED BY <1>3, <1>4, <2>1, <3>1 DEF MovesOn
  <2>6. LeavesBehind(a)
    <3>1. ASSUME NEW x \in rows PROVE ~(venue[m] < venue[x])
      BY <2>2
    <3> QED BY <1>3, <2>1, <3>1 DEF LeavesBehind
  <2>7. ASSUME NEW x \in Wanted \ keep, cursor < venue[x]
        PROVE  venue[m] < venue[x] \/ CutAfter(keep, x)
    <3>1. venue[x] \in Nat /\ venue[x] < end /\ G(venue[x]) \in Nat BY WantedRow
    <3>2. x \in S BY <1>5, <2>7
    <3>3. x \in S \ rows BY <1>1, <3>1, <3>2, <2>7
    <3>4. CASE venue[m] = venue[x]
      <4>1. m \in keep BY <1>1, <2>2, <3>1, <3>4
      <4>2. G(venue[m]) <= G(venue[x]) /\ G(venue[x]) < G(venue[m]) + Skip
        BY <1>1, <3>1, <3>4
      <4> QED BY <4>1, <4>2 DEF CutAfter
    <3>5. CASE venue[m] # venue[x]
      <4>1. venue[m] <= venue[x] BY <2>2, <3>3
      <4> QED BY <2>2, <3>1, <3>5, <4>1
    <3> QED BY <3>4, <3>5
  <2>8. LeavesAhead(a) /\ EndsWell(a)
    BY <1>3, <2>1, <2>7 DEF LeavesAhead, EndsWell, Cut
  <2> QED BY <2>4, <2>5, <2>6, <2>8 DEF PageRight
<1> QED BY <1>7, <1>8

\* Coinbase and OKX go back by row id, until a row is older than the window.
LEMMA BackwardsRight ==
    ASSUME FInv, fetcher \in {"coinbase", "okx"}, NEW more \in BOOLEAN,
           more => Older(cursor) # {},
           \/ more
           \/ Cardinality(Older(cursor)) # PageSize \/ Older(cursor) = {}
           \/ \E r \in Older(cursor) : ~(venue[r] >= start)
    PROVE  PageRight(Answer(Older(cursor) \cap Between(start, end),
                            IF Older(cursor) = {} THEN cursor ELSE Min(Older(cursor)), more))
<1> DEFINE S == {x \in DOMAIN venue : cursor = 0 \/ x < cursor}
           rows == Newest(S)
           keep == rows \cap Between(start, end)
           m == Min(rows)
           next == IF rows = {} THEN cursor ELSE m
           a == Answer(keep, next, more)
<1>1. Older(cursor) = rows BY DEF Older
<1> SUFFICES PageRight(a) BY <1>1
<1>2. a.keep = keep /\ a.next = next /\ a.more = more BY DEF Answer
<1> HIDE DEF a
<1>3. S \in SUBSET DOMAIN venue OBVIOUS
<1>4. cursor \in Nat /\ start \in Nat /\ end \in Nat BY JobRange
<1>5. \A c, x : AheadAt(c, x) <=> c = 0 \/ x < c BY DEF AheadAt, Upward
<1>6. fetcher \notin Upward /\ fetcher # "coinbase_klines" BY DEF Upward
<1>7. rows \in SUBSET S /\ (rows = {} => S = {}) /\ (Cardinality(rows) # PageSize => rows = S)
  BY <1>3, SomeRows
<1>8. \A x \in rows : x \in Wanted => x \in keep
  <2> SUFFICES ASSUME NEW x \in rows, x \in Wanted PROVE x \in keep OBVIOUS
  <2>1. x \in DOMAIN venue /\ start <= venue[x] /\ venue[x] < end /\ venue[x] \in Nat
    BY WantedRow
  <2>2. venue[x] <= end BY <1>4, <2>1
  <2> QED BY <2>1, <2>2 DEF Between
<1>9. \A x \in Wanted : AheadAt(cursor, x) => x \in S BY <1>5, WantedRow
<1>10. KeepsAhead(a) BY <1>2, <1>5, <1>7 DEF KeepsAhead
<1>11. CASE rows = {}
  <2>1. next = cursor /\ keep = {} /\ ~more /\ S = {} BY <1>1, <1>7, <1>11
  <2>2. MovesOn(a) BY <1>2, <1>6, <2>1 DEF MovesOn
  <2>3. LeavesBehind(a) /\ LeavesAhead(a) BY <1>2, <2>1 DEF LeavesBehind, LeavesAhead
  <2>4. EndsWell(a) BY <1>9, <2>1 DEF EndsWell
  <2> QED BY <1>10, <2>2, <2>3, <2>4 DEF PageRight
<1>12. CASE rows # {}
  <2>1. /\ m \in rows /\ m \in DOMAIN venue /\ m \in Nat
        /\ \A x \in rows : m <= x /\ x \in Nat
        /\ \A x \in S \ rows : x < m
    BY <1>3, <1>12, NewestPage
  <2>2. m # 0 /\ (cursor = 0 \/ m < cursor)
    <3>1. m \in Rows BY <2>1, JobRange, RowsOfVenue
    <3>2. m \in S BY <1>7, <2>1
    <3> QED BY <3>1, <3>2 DEF Rows
  <2>3. next = m BY <1>12
  <2>4. \A x \in DOMAIN venue : x \in Nat
    <3>1. DOMAIN venue \subseteq 0 .. Len(venue) /\ Len(venue) \in Nat BY JobRange, RowsOfVenue
    <3> QED BY <3>1
  <2>5. \A r \in rows, x \in S \ rows : x < r
    <3>1. DOMAIN venue \subseteq 0 .. Len(venue) /\ Len(venue) \in Nat BY JobRange, RowsOfVenue
    <3>2. S \in SUBSET (0 .. Len(venue)) BY <3>1
    <3> QED BY <3>1, <3>2, NewestLast
  <2> HIDE DEF S, rows, m, next
  <2>6. MovesOn(a)
    <3>1. ASSUME NEW x \in DOMAIN venue, AheadAt(next, x) PROVE AheadAt(cursor, x)
      <4>1. x < m BY <1>5, <2>2, <2>3, <3>1
      <4> QED BY <1>4, <1>5, <2>1, <2>2, <2>4, <4>1
    <3> QED BY <1>2, <1>6, <3>1 DEF MovesOn
  <2>7. LeavesBehind(a)
    <3>1. ASSUME NEW x \in rows PROVE ~AheadAt(next, x)
      <4>1. m <= x /\ x \in Nat /\ ~(x < m) BY <2>1
      <4> QED BY <1>5, <2>2, <2>3, <4>1
    <3> QED BY <1>2, <3>1 DEF LeavesBehind
  <2>8. ASSUME NEW x \in Wanted \ keep, AheadAt(cursor, x)
        PROVE  more /\ AheadAt(next, x)
    <3>1. x \in S \ rows BY <1>8, <1>9, <2>8
    <3>2. x < m BY <2>1, <3>1
    <3>3. more
      <4> SUFFICES ASSUME ~more PROVE FALSE OBVIOUS
      <4>1. rows # S BY <3>1
      <4>2. PICK r \in rows : ~(venue[r] >= start) BY <1>1, <1>7, <1>12, <4>1
      <4>3. r \in DOMAIN venue /\ x \in DOMAIN venue /\ x < r BY <1>3, <1>7, <2>5, <3>1
      <4>4. x <= r BY <2>4, <4>3
      <4>5. venue[x] \in Nat /\ venue[r] \in Nat /\ venue[x] <= venue[r] BY <4>3, <4>4, Ordered
      <4>6. start <= venue[x] BY WantedRow
      <4> QED BY <1>4, <4>2, <4>5, <4>6
    <3> QED BY <1>5, <2>3, <3>2, <3>3
  <2>9. LeavesAhead(a) /\ EndsWell(a) BY <1>2, <2>8 DEF LeavesAhead, EndsWell
  <2> QED BY <1>10, <2>6, <2>7, <2>9 DEF PageRight
<1> QED BY <1>11, <1>12

LEMMA CoinbaseRight ==
    ASSUME FInv, fetcher = "coinbase"
    PROVE  PageRight(Coinbase(cursor))
<1> DEFINE more == Cardinality(Older(cursor)) = PageSize
                   /\ \A x \in Older(cursor) : venue[x] >= start
<1>1. Coinbase(cursor) = Answer(Older(cursor) \cap Between(start, end),
          IF Older(cursor) = {} THEN cursor ELSE Min(Older(cursor)), more)
  BY DEF Coinbase
<1>2. more => Older(cursor) # {}
  <2>1. Cardinality({}) = 0 /\ PageSize # 0 BY JobRange, FS_EmptySet
  <2> QED BY <2>1
<1>3. \/ more \/ Cardinality(Older(cursor)) # PageSize
      \/ \E r \in Older(cursor) : ~(venue[r] >= start)
  OBVIOUS
<1>4. more \in BOOLEAN OBVIOUS
<1> HIDE DEF more
<1> QED BY <1>1, <1>2, <1>3, <1>4, BackwardsRight

LEMMA OkxRight ==
    ASSUME FInv, fetcher = "okx"
    PROVE  PageRight(Okx(cursor))
<1> DEFINE more == Older(cursor) # {} /\ \A x \in Older(cursor) : venue[x] >= start
<1>1. Okx(cursor) = Answer(Older(cursor) \cap Between(start, end),
          IF Older(cursor) = {} THEN cursor ELSE Min(Older(cursor)), more)
  BY DEF Okx
<1>2. more => Older(cursor) # {} OBVIOUS
<1>3. more \/ Older(cursor) = {} \/ \E r \in Older(cursor) : ~(venue[r] >= start) OBVIOUS
<1>4. more \in BOOLEAN OBVIOUS
<1> HIDE DEF more
<1> QED BY <1>1, <1>2, <1>3, <1>4, BackwardsRight

\* OKX's candles: back by grain, and no two candles share one.
LEMMA OkxKlinesRight ==
    ASSUME FInv, fetcher = "okx_klines"
    PROVE  PageRight(OkxKlines(cursor))
<1> DEFINE S == {x \in DOMAIN venue : G(venue[x]) < cursor}
           rows == Newest(S)
           keep == {x \in rows : G(venue[x]) >= G(start)}
           m == Min(rows)
           more == G(venue[m]) > G(start)
           a == OkxKlines(cursor)
<1>1. a = IF rows = {} THEN Answer({}, cursor, FALSE) ELSE Answer(keep, G(venue[m]), more)
  BY DEF OkxKlines
<1> SUFFICES PageRight(a) OBVIOUS
<1> HIDE DEF a
<1>2. S \in SUBSET DOMAIN venue OBVIOUS
<1>3. cursor \in Nat /\ G(start) \in Nat /\ step \in Nat /\ step > 0 BY JobRange
<1>4. \A c, x : AheadAt(c, x) <=> G(venue[x]) < c BY DEF AheadAt, Upward
<1>5. fetcher \notin Upward /\ fetcher # "coinbase_klines" BY DEF Upward
<1>6. rows \in SUBSET S /\ (rows = {} => S = {}) BY <1>2, SomeRows
<1>7. \A x \in Wanted : AheadAt(cursor, x) => x \in S BY <1>4, WantedRow
<1>8. CASE rows = {}
  <2>1. a = Answer({}, cursor, FALSE) BY <1>1, <1>8
  <2>2. a.keep = {} /\ a.next = cursor /\ a.more = FALSE BY <2>1 DEF Answer
  <2>3. S = {} BY <1>6, <1>8
  <2> HIDE DEF S, rows
  <2> QED BY <1>4, <1>5, <1>7, <2>2, <2>3
          DEF PageRight, KeepsAhead, MovesOn, LeavesBehind, LeavesAhead, EndsWell
<1>9. CASE rows # {}
  <2>1. a = Answer(keep, G(venue[m]), more) BY <1>1, <1>9
  <2>2. a.keep = keep /\ a.next = G(venue[m]) /\ a.more = more BY <2>1 DEF Answer
  <2>3. /\ m \in rows /\ m \in DOMAIN venue /\ G(venue[m]) \in Nat
        /\ \A x \in rows : G(venue[x]) \in Nat /\ G(venue[m]) <= G(venue[x])
        /\ \A x \in S \ rows : x < m
    BY <1>2, <1>9, NewestPage
  <2>4. \A x \in S : G(venue[x]) < cursor OBVIOUS
  <2>5. \A x \in rows : x \in Wanted => x \in keep
    <3> SUFFICES ASSUME NEW x \in rows, x \in Wanted PROVE x \in keep OBVIOUS
    <3>1. G(start) <= G(venue[x]) /\ G(venue[x]) \in Nat BY WantedRow
    <3> QED BY <1>3, <3>1
  <2>6. keep \subseteq rows OBVIOUS
  <2>7. more <=> G(venue[m]) > G(start) OBVIOUS
  <2> HIDE DEF S, rows, m, more, keep
  <2>8. KeepsAhead(a) BY <1>4, <1>6, <2>2, <2>4, <2>6 DEF KeepsAhead
  <2>9. MovesOn(a)
    <3>1. ASSUME NEW x \in DOMAIN venue, G(venue[x]) < G(venue[m]) PROVE G(venue[x]) < cursor
      <4>1. G(venue[x]) \in Nat BY JobRange, RowsOfVenue
      <4>2. G(venue[m]) < cursor BY <1>6, <2>3, <2>4
      <4> QED BY <1>3, <2>3, <3>1, <4>1, <4>2
    <3> QED BY <1>4, <1>5, <2>2, <3>1 DEF MovesOn
  <2>10. LeavesBehind(a)
    <3>1. ASSUME NEW x \in rows PROVE ~(G(venue[x]) < G(venue[m])) BY <2>3
    <3> QED BY <1>4, <2>2, <2>6, <3>1 DEF LeavesBehind
  <2>11. ASSUME NEW x \in Wanted \ keep, AheadAt(cursor, x)
         PROVE  more /\ AheadAt(G(venue[m]), x)
    <3>1. x \in S \ rows BY <1>7, <2>5, <2>11
    <3>2. x < m BY <2>3, <3>1
    <3>3. x \in DOMAIN venue /\ G(venue[x]) \in Nat /\ G(start) <= G(venue[x]) BY WantedRow
    <3>4. G(venue[x]) + step <= G(venue[m])
      BY <2>3, <3>2, <3>3 DEF FInv, Market, Spaced, Candles
    <3>5. G(venue[x]) < G(venue[m]) BY <1>3, <2>3, <3>3, <3>4
    <3>6. G(venue[m]) > G(start) BY <1>3, <2>3, <3>3, <3>5
    <3> QED BY <1>4, <2>7, <3>5, <3>6
  <2>12. LeavesAhead(a) /\ EndsWell(a) BY <2>2, <2>11 DEF LeavesAhead, EndsWell
  <2> QED BY <2>8, <2>9, <2>10, <2>12 DEF PageRight
<1> QED BY <1>8, <1>9

LEMMA LesserBounds ==
    ASSUME NEW p \in Nat, NEW q \in Nat
    PROVE  /\ Min({p, q}) \in Nat /\ Min({p, q}) <= p /\ Min({p, q}) <= q
           /\ Min({p, q}) = p \/ Min({p, q}) = q
<1> DEFINE T == {p, q}
<1>1. T \in SUBSET Nat /\ T # {} OBVIOUS
<1>2. Min(T) \in T /\ \A s \in T : Min(T) <= s BY <1>1, LeastOf
<1> QED BY <1>2

\* Fewer than a page of candles lie between one after c and the length of a
\* chunk after c.
LEMMA ChunkHolds ==
    ASSUME FInv, fetcher \in Candles, NEW c \in Nat, NEW stop \in Nat,
           stop <= c + PageSize * step * Grain,
           NEW x \in Between(c, stop), c < venue[x]
    PROVE  x \in Newest(Between(c, stop))
<1> DEFINE S == Between(c, stop)
           l == step * Grain
           T == {y \in S : y > x}
           i == venue[x] \div l
<1>1. /\ PageSize \in Nat /\ PageSize > 1 /\ step \in Nat /\ step > 0 /\ Grain \in Nat /\ Grain > 0
      /\ TypeOK
  BY JobRange
<1>2. l \in Nat \ {0}
  <2>1. step * Grain \in Nat /\ step * Grain # 0 BY <1>1
  <2> QED BY <2>1
<1>3. PageSize * step * Grain = PageSize * l BY <1>1
<1>4. x \in DOMAIN venue /\ x \in S /\ S \in SUBSET DOMAIN venue BY DEF Between
<1>5. \A y \in DOMAIN venue : venue[y] \in Nat /\ venue[y] % l = 0
  BY <1>1, RowsOfVenue DEF FInv, Market, OnSteps
<1> HIDE DEF l
<1>6. \A y \in DOMAIN venue : venue[y] \div l \in Nat /\ venue[y] = (venue[y] \div l) * l
  BY <1>2, <1>5, OnGrid, Divided
<1>7. i \in Nat /\ venue[x] = i * l BY <1>4, <1>6
<1>8. ASSUME NEW y \in DOMAIN venue, NEW z \in DOMAIN venue, y < z
      PROVE  venue[y] < venue[z]
  <2>1. G(venue[y]) + step <= G(venue[z]) BY <1>8 DEF FInv, Market, Spaced
  <2>2. venue[y] \in Nat /\ venue[z] \in Nat BY <1>5
  <2>3. G(venue[y]) \in Nat /\ G(venue[z]) \in Nat BY <2>2, GrainsOrdered
  <2>4. G(venue[y]) < G(venue[z]) BY <1>1, <2>1, <2>3
  <2> QED BY <2>2, <2>4, GrainsOrdered
<1>9. \A y \in DOMAIN venue : y \in Int
  <2>1. DOMAIN venue \subseteq 0 .. Len(venue) /\ Len(venue) \in Nat BY <1>1, RowsOfVenue
  <2> QED BY <2>1
<1>10. ASSUME NEW y \in T
       PROVE  venue[y] \div l \in (i + 1) .. (i + PageSize - 1)
  <2> DEFINE k == venue[y] \div l
  <2>1. y \in DOMAIN venue /\ x < y /\ venue[y] <= stop BY <1>4, <1>9 DEF Between
  <2>2. k \in Nat /\ venue[y] = k * l BY <1>6, <2>1
  <2>3. i * l < k * l BY <1>4, <1>7, <1>8, <2>1, <2>2
  <2>4. k * l < i * l + PageSize * l
    <3>1. PageSize * l \in Nat BY <1>1, <1>2
    <3>2. venue[y] \in Nat /\ venue[x] \in Nat BY <1>4, <1>5, <2>1
    <3>3. k * l <= c + PageSize * l BY <1>3, <2>1, <2>2, <3>1, <3>2
    <3>4. c < i * l BY <1>7
    <3>5. k * l \in Nat /\ i * l \in Nat BY <1>2, <1>7, <2>2
    <3> QED BY <3>1, <3>3, <3>4, <3>5
  <2> HIDE DEF k, i
  <2>5. i < k
    <3> SUFFICES ASSUME k <= i PROVE FALSE BY <1>7, <2>2
    <3>1. k * l <= i * l BY <1>2, <1>7, <2>2
    <3>2. k * l \in Nat /\ i * l \in Nat BY <1>2, <1>7, <2>2
    <3> QED BY <2>3, <3>1, <3>2
  <2>6. k < i + PageSize
    <3> SUFFICES ASSUME i + PageSize <= k PROVE FALSE BY <1>1, <1>7, <2>2
    <3>1. (i + PageSize) * l <= k * l BY <1>1, <1>2, <1>7, <2>2
    <3>2. (i + PageSize) * l = i * l + PageSize * l BY <1>1, <1>2, <1>7
    <3>3. k * l \in Nat /\ i * l \in Nat /\ PageSize * l \in Nat BY <1>1, <1>2, <1>7, <2>2
    <3> QED BY <2>4, <3>1, <3>2, <3>3
  <2>7. k \in (i + 1) .. (i + PageSize - 1) BY <1>1, <1>7, <2>2, <2>5, <2>6
  <2> QED BY <2>7 DEF k
<1> DEFINE I == (i + 1) .. (i + PageSize - 1)
           f == [y \in T |-> venue[y] \div l]
<1>11. IsFiniteSet(I) /\ Cardinality(I) = PageSize - 1
  <2> HIDE DEF i
  <2>1. i + 1 \in Int /\ i + PageSize - 1 \in Int /\ ~(i + 1 > i + PageSize - 1)
    BY <1>1, <1>7
  <2>2. (i + PageSize - 1) - (i + 1) + 1 = PageSize - 1 BY <1>1, <1>7
  <2> QED BY <2>1, <2>2, FS_Interval
<1>12. f \in Injection(T, I)
  <2>1. f \in [T -> I] BY <1>10
  <2>2. ASSUME NEW y \in T, NEW z \in T, f[y] = f[z] PROVE y = z
    <3>1. y \in DOMAIN venue /\ z \in DOMAIN venue BY <1>4
    <3>2. venue[y] \div l = venue[z] \div l BY <2>2
    <3>3. venue[y] = venue[z] BY <1>6, <3>1, <3>2
    <3>4. ~(y < z) /\ ~(z < y) BY <1>5, <1>8, <3>1, <3>3
    <3> QED BY <1>9, <3>1, <3>4
  <2> HIDE DEF f, T, I
  <2> QED BY <2>1, <2>2, Fun_IsInj
<1> HIDE DEF f, I
<1>13. IsFiniteSet(T) /\ Cardinality(T) <= PageSize - 1 BY <1>11, <1>12, FS_Injection
<1>14. Cardinality(T) \in Nat BY <1>13, FS_CardinalityType
<1>15. Cardinality(T) < PageSize
  <2> HIDE DEF T
  <2> QED BY <1>1, <1>13, <1>14
<1> QED BY <1>4, <1>15 DEF Newest

\* Chunks of Coinbase's candles share their ends; what a full one leaves out is
\* its first candle, which the one before it holds.
LEMMA CoinbaseKlinesRight ==
    ASSUME FInv, fetcher = "coinbase_klines", pc = "paging", cursor < end
    PROVE  PageRight(CoinbaseKlines(cursor))
<1> DEFINE far == cursor + PageSize * step * Grain
           stop == Min({far, end})
           S == Between(cursor, stop)
           keep == Newest(S)
           a == CoinbaseKlines(cursor)
<1>1. a = Answer(keep, stop, TRUE) BY DEF CoinbaseKlines
<1>2. a.keep = keep /\ a.next = stop /\ a.more = TRUE BY <1>1 DEF Answer
<1> SUFFICES PageRight(a) OBVIOUS
<1> HIDE DEF a
<1>3. /\ cursor \in Nat /\ end \in Nat /\ PageSize \in Nat /\ step \in Nat /\ Grain \in Nat
      /\ PageSize > 1 /\ step > 0 /\ Grain > 0
  BY JobRange
<1>4. far \in Nat /\ cursor < far
  <2>1. PageSize * step \in Nat /\ PageSize * step > 0 BY <1>3
  <2> DEFINE n == PageSize * step
  <2> HIDE DEF n
  <2>2. n \in Nat /\ n > 0 BY <2>1 DEF n
  <2> DEFINE k == n * Grain
  <2>3. k \in Nat /\ k > 0 BY <1>3, <2>2
  <2>4. far = cursor + k BY DEF n
  <2> HIDE DEF k, far
  <2> QED BY <1>3, <2>3, <2>4
<1>5. stop \in Nat /\ stop <= far /\ stop <= end /\ (stop = far \/ stop = end)
  <2> HIDE DEF far
  <2> QED BY <1>3, <1>4, LesserBounds
<1>6. \A c, x : AheadAt(c, x) <=> c <= venue[x] BY DEF AheadAt, Upward
<1>7. fetcher \notin Upward /\ fetcher \in Candles BY DEF Upward, Candles
<1>8. stop = end \/ stop = cursor + PageSize * step * Grain BY <1>5
<1>9. stop <= cursor + PageSize * step * Grain BY <1>5
<1> HIDE DEF stop, far
<1>10. cursor < stop BY <1>3, <1>4, <1>5
<1>11. \A x \in DOMAIN venue : venue[x] \in Nat BY JobRange, RowsOfVenue
<1>12. /\ S \in SUBSET DOMAIN venue
       /\ \A x \in DOMAIN venue : x \in S <=> cursor <= venue[x] /\ venue[x] <= stop
  BY DEF Between
<1>13. keep \subseteq S /\ \A x \in S \ keep : PageAfter(x, keep)
  BY <1>12, SomeRows, PassedOver
<1>14. \A x \in S : cursor < venue[x] => x \in keep
  BY <1>3, <1>5, <1>7, <1>9, ChunkHolds
<1> HIDE DEF S, keep
<1>15. KeepsAhead(a) BY <1>2, <1>6, <1>12, <1>13 DEF KeepsAhead
<1>16. MovesOn(a)
  <2>1. \A x \in DOMAIN venue : stop <= venue[x] => cursor <= venue[x]
    BY <1>3, <1>5, <1>10, <1>11
  <2>2. \A x \in DOMAIN venue : AheadAt(stop, x) => AheadAt(cursor, x) BY <1>6, <2>1
  <2>3. ASSUME NEW x \in DOMAIN venue, venue[x] = stop PROVE x \in keep
    <3>1. cursor <= venue[x] /\ venue[x] <= stop BY <1>3, <1>5, <1>10, <2>3
    <3> QED BY <1>10, <1>12, <1>14, <2>3, <3>1
  <2>4. cursor <= stop BY <1>3, <1>5, <1>10
  <2> QED BY <1>2, <1>7, <1>8, <2>2, <2>3, <2>4 DEF MovesOn
<1>17. LeavesBehind(a)
  <2>1. ASSUME NEW x \in keep, stop <= venue[x] PROVE venue[x] = stop
    <3>1. x \in DOMAIN venue /\ venue[x] <= stop BY <1>12, <1>13
    <3> QED BY <1>5, <1>11, <2>1, <3>1
  <2> QED BY <1>2, <1>6, <2>1 DEF LeavesBehind
<1>18. LeavesAhead(a)
  <2>1. ASSUME NEW x \in Wanted \ (out \cup keep), cursor <= venue[x]
        PROVE  stop <= venue[x] \/ (venue[x] = start /\ PageAfter(x, keep))
    <3>1. x \in DOMAIN venue /\ venue[x] \in Nat BY WantedRow
    <3>2. CASE x \in S
      <4>1. venue[x] = cursor BY <1>3, <1>14, <2>1, <3>1, <3>2
      <4>2. cursor = start BY <2>1, <3>1, <4>1 DEF FInv, Fetch, SeamHeld
      <4> QED BY <1>13, <2>1, <3>2, <4>1, <4>2
    <3>3. CASE x \notin S
      <4>1. ~(venue[x] <= stop) BY <1>12, <2>1, <3>1, <3>3
      <4> QED BY <1>5, <3>1, <4>1
    <3> QED BY <3>2, <3>3
  <2> QED BY <1>2, <1>6, <2>1 DEF LeavesAhead, Cut
<1>19. EndsWell(a) BY <1>2 DEF EndsWell
<1> QED BY <1>15, <1>16, <1>17, <1>18, <1>19 DEF PageRight

\* Bitstamp's candles: an answer without a second candle ends the fetch, and
\* then there is none for the length of a chunk.
LEMMA BitstampKlinesRight ==
    ASSUME FInv, fetcher = "bitstamp_klines", pc = "paging"
    PROVE  PageRight(BitstampKlines(cursor))
<1> DEFINE far == cursor + PageSize * step
           stop == Min({far, G(end)})
           S == GrainsBetween(cursor, stop)
           rows == Oldest(S)
           m == Max(rows)
           next == G(venue[m]) + step
           more == G(venue[m]) > cursor
           a == BitstampKlines(cursor)
<1>1. a = IF rows = {} THEN Answer({}, cursor, FALSE) ELSE Answer(rows, next, more)
  BY DEF BitstampKlines
<1> SUFFICES PageRight(a) OBVIOUS
<1> HIDE DEF a
<1>2. S \in SUBSET DOMAIN venue BY DEF GrainsBetween
<1>3. /\ cursor \in Nat /\ G(end) \in Nat /\ G(start) \in Nat /\ PageSize \in Nat /\ PageSize > 1
      /\ step \in Nat /\ step > 0 /\ start \in Nat /\ Grain \in Nat \ {0}
  BY JobRange
<1>4. far \in Nat /\ far = cursor + PageSize * step
  <2>1. PageSize * step \in Nat BY <1>3
  <2> QED BY <1>3, <2>1
<1>5. stop \in Nat /\ stop <= far /\ stop <= G(end) /\ (stop = far \/ stop = G(end))
  <2> HIDE DEF far
  <2> QED BY <1>3, <1>4, LesserBounds
<1>6. \A c, x : AheadAt(c, x) <=> c <= G(venue[x]) BY AheadUpward DEF Upward
<1>7. fetcher # "coinbase_klines" OBVIOUS
<1>8. \A x \in DOMAIN venue : G(venue[x]) \in Nat BY JobRange, RowsOfVenue
<1>9. \A x \in DOMAIN venue : x \in S <=> cursor <= G(venue[x]) /\ G(venue[x]) <= stop
  BY DEF GrainsBetween
<1>10. /\ rows \in SUBSET S /\ (rows = {} => S = {})
       /\ Cardinality(rows) # PageSize => rows = S
  BY <1>2, SomeRows
<1>11. G(start) <= cursor BY DEF FInv, Fetch, CursorFrom, Upward
<1> HIDE DEF far, stop
\* A wanted row beyond an answer that holds no grain but the cursor's.
<1>12. ASSUME NEW x \in Wanted, cursor <= G(venue[x]), x \notin S,
              \A y \in S : G(venue[y]) = cursor
       PROVE  AfterHole(x)
  <2>1. /\ x \in DOMAIN venue /\ venue[x] \in Nat /\ G(venue[x]) \in Nat /\ start <= venue[x]
        /\ G(venue[x]) < G(end)
    BY WantedRow
  <2>2. stop < G(venue[x]) BY <1>5, <1>9, <1>12, <2>1
  <2>3. stop = far BY <1>3, <1>5, <2>1, <2>2
  <2> DEFINE h == IF cursor = G(start) THEN start ELSE cursor * Grain
  <2>4. G(h) = cursor
    <3>1. (cursor * Grain) \div Grain = cursor BY <1>3, DividedExact
    <3> QED BY <3>1 DEF G
  <2>5. h \in start .. venue[x]
    <3>1. CASE cursor = G(start)
      BY <1>3, <2>1, <3>1
    <3>2. CASE cursor # G(start)
      <4>1. cursor * Grain \in Nat BY <1>3, DividedExact
      <4>2. h = cursor * Grain BY <3>2
      <4>3. G(start) < cursor BY <1>3, <1>11, <3>2
      <4>4. start <= h
        <5> HIDE DEF h
        <5>1. h \in Nat BY <4>1, <4>2
        <5> QED BY <1>3, <2>4, <4>3, <5>1, GrainsOrdered
      <4>5. h <= venue[x]
        <5>1. G(venue[x]) * Grain <= venue[x] BY <2>1, GrainsOrdered
        <5>2. cursor * Grain <= G(venue[x]) * Grain BY <1>3, <1>12, <2>1
        <5>3. G(venue[x]) * Grain \in Nat BY <1>3, <2>1, DividedExact
        <5> QED BY <2>1, <4>1, <4>2, <5>1, <5>2, <5>3
      <4> QED BY <1>3, <2>1, <4>1, <4>2, <4>4, <4>5
    <3> QED BY <3>1, <3>2
  <2> HIDE DEF h
  <2>6. GrainsBetween(G(h) + 1, G(h) + PageSize * step) = {}
    <3> SUFFICES ASSUME NEW y \in DOMAIN venue, cursor + 1 <= G(venue[y]), G(venue[y]) <= far
                 PROVE  FALSE
      BY <1>4, <2>4 DEF GrainsBetween
    <3>1. G(venue[y]) \in Nat BY <1>8
    <3>2. cursor <= G(venue[y]) /\ G(venue[y]) <= stop BY <1>3, <2>3, <3>1
    <3>3. G(venue[y]) = cursor BY <1>9, <1>12, <3>2
    <3> QED BY <1>3, <3>3
  <2>7. G(h) + PageSize * step < G(venue[x]) BY <1>4, <2>2, <2>3, <2>4
  <2> QED BY <2>5, <2>6, <2>7 DEF AfterHole
<1>13. KeepsAhead(a)
  <2>1. a.keep \subseteq S
    <3>1. CASE rows = {} BY <1>1, <3>1 DEF Answer
    <3>2. CASE rows # {} BY <1>1, <1>10, <3>2 DEF Answer
    <3> QED BY <3>1, <3>2
  <2>2. \A x \in S : cursor <= G(venue[x]) BY <1>2, <1>9
  <2> QED BY <1>6, <2>1, <2>2 DEF KeepsAhead
<1>14. CASE rows = {}
  <2>1. a.keep = {} /\ a.next = cursor /\ a.more = FALSE BY <1>1, <1>14 DEF Answer
  <2>2. S = {} BY <1>10, <1>14
  <2> HIDE DEF S, rows
  <2>3. EndsWell(a) BY <1>6, <1>12, <2>1, <2>2 DEF EndsWell, Lost
  <2>4. MovesOn(a) BY <1>3, <1>7, <2>1 DEF MovesOn
  <2> QED BY <1>13, <2>1, <2>3, <2>4 DEF PageRight, LeavesBehind, LeavesAhead
<1>15. CASE rows # {}
  <2>1. a.keep = rows /\ a.next = next /\ a.more = more BY <1>1, <1>15 DEF Answer
  <2>2. /\ m \in rows /\ m \in S /\ m \in DOMAIN venue /\ G(venue[m]) \in Nat
        /\ \A x \in rows : G(venue[x]) \in Nat /\ G(venue[x]) <= G(venue[m])
        /\ \A x \in S \ rows : m < x
    BY <1>2, <1>15, OldestPage
  <2>3. next = G(venue[m]) + step /\ (more <=> G(venue[m]) > cursor) OBVIOUS
  <2>4. cursor <= G(venue[m]) /\ G(venue[m]) <= stop BY <1>9, <2>2
  <2>5. \A x \in DOMAIN venue : x \in Int
    <3>1. DOMAIN venue \subseteq 0 .. Len(venue) /\ Len(venue) \in Nat BY JobRange, RowsOfVenue
    <3> QED BY <3>1
  <2>6. \A x, y \in DOMAIN venue : x < y => G(venue[x]) + step <= G(venue[y])
    BY DEF FInv, Market, Spaced, Candles
  <2> HIDE DEF rows, m, next, more
  <2>7. MovesOn(a)
    <3>1. cursor <= next BY <1>3, <2>2, <2>3, <2>4
    <3>2. \A x \in DOMAIN venue : next <= G(venue[x]) => cursor <= G(venue[x])
      BY <1>3, <1>8, <2>2, <2>3, <3>1
    <3>3. \A x \in DOMAIN venue : AheadAt(next, x) => AheadAt(cursor, x) BY <1>6, <3>2
    <3> QED BY <1>7, <2>1, <3>1, <3>3 DEF MovesOn
  <2>8. LeavesBehind(a)
    <3>1. ASSUME NEW x \in rows PROVE ~(next <= G(venue[x])) BY <1>3, <2>2, <2>3
    <3> QED BY <1>6, <2>1, <3>1 DEF LeavesBehind
  <2>9. ASSUME NEW x \in Wanted \ rows, cursor <= G(venue[x])
        PROVE  next <= G(venue[x])
    <3>1. x \in DOMAIN venue /\ G(venue[x]) \in Nat BY WantedRow
    <3>2. m < x
      <4>1. CASE x \in S BY <2>2, <2>9, <4>1
      <4>2. CASE x \notin S
        <5>1. stop < G(venue[x]) BY <1>5, <1>9, <2>9, <3>1, <4>2
        <5>2. G(venue[m]) < G(venue[x]) BY <1>5, <2>2, <2>4, <3>1, <5>1
        <5>3. CASE x < m
          <6>1. G(venue[x]) + step <= G(venue[m]) BY <2>2, <2>6, <3>1, <5>3
          <6> QED BY <1>3, <2>2, <3>1, <5>2, <6>1
        <5>4. x # m BY <2>2, <3>1, <5>2
        <5> QED BY <2>2, <2>5, <3>1, <5>3, <5>4
      <4> QED BY <4>1, <4>2
    <3> QED BY <2>2, <2>3, <2>6, <3>1, <3>2
  <2>10. LeavesAhead(a) BY <1>6, <2>1, <2>9 DEF LeavesAhead
  <2>11. EndsWell(a)
    <3> SUFFICES ASSUME ~more, NEW x \in Wanted \ rows, cursor <= G(venue[x])
                 PROVE  AfterHole(x)
      BY <1>6, <2>1 DEF EndsWell, Lost
    <3>1. G(venue[m]) = cursor BY <1>3, <2>2, <2>3, <2>4
    <3>2. rows = {m}
      <4> SUFFICES ASSUME NEW y \in rows, y # m PROVE FALSE BY <2>2
      <4>1. y \in DOMAIN venue /\ G(venue[y]) \in Nat /\ G(venue[y]) <= G(venue[m])
        BY <1>2, <1>10, <2>2
      <4>2. cursor <= G(venue[y]) BY <1>9, <1>10, <4>1
      <4>3. CASE y < m
        <5>1. G(venue[y]) + step <= G(venue[m]) BY <2>2, <2>6, <4>1, <4>3
        <5> QED BY <1>3, <2>2, <3>1, <4>1, <4>2, <5>1
      <4>4. CASE m < y
        <5>1. G(venue[m]) + step <= G(venue[y]) BY <2>2, <2>6, <4>1, <4>4
        <5> QED BY <1>3, <2>2, <4>1, <5>1
      <4>5. y \in Int /\ m \in Int BY <2>2, <2>5, <4>1
      <4> QED BY <4>3, <4>4, <4>5
    <3>3. Cardinality(rows) = 1 BY <3>2, FS_Singleton
    <3>4. rows = S BY <1>3, <1>10, <3>3
    <3>5. \A y \in S : G(venue[y]) = cursor BY <3>1, <3>2, <3>4
    <3> QED BY <1>12, <3>4, <3>5
  <2> QED BY <1>13, <2>7, <2>8, <2>10, <2>11 DEF PageRight
<1> QED BY <1>14, <1>15

\* What one request leaves out.
LEMMA OneRequestRight ==
    ASSUME FInv, fetcher \in {"bitstamp", "kraken_klines", "gemini_klines", "bybit_funding"},
           NEW keep, \A x \in Wanted \ keep : Lost(keep, x)
    PROVE  PageRight(Answer(keep, cursor, FALSE))
<1> DEFINE a == Answer(keep, cursor, FALSE)
<1>1. a.keep = keep /\ a.next = cursor /\ a.more = FALSE BY DEF Answer
<1>2. \A c, x : AheadAt(c, x) BY DEF AheadAt, Upward
<1>3. fetcher \notin Upward /\ fetcher # "coinbase_klines" BY DEF Upward
<1> HIDE DEF a
<1>4. PageRight(a) BY <1>1, <1>2, <1>3
      DEF PageRight, KeepsAhead, MovesOn, LeavesBehind, LeavesAhead, EndsWell
<1> QED BY <1>4 DEF a

LEMMA BitstampRight ==
    ASSUME FInv, fetcher = "bitstamp"
    PROVE  PageRight(Bitstamp(cursor))
<1> DEFINE keep == Between(Now - LastDay, Now) \cap Between(start, end)
<1>1. ASSUME NEW x \in Wanted \ keep PROVE Lost(keep, x)
  <2>1. /\ x \in DOMAIN venue /\ venue[x] \in Nat /\ start <= venue[x] /\ venue[x] < end
        /\ start \in Nat /\ end \in Nat /\ end <= Now /\ Now \in Nat
    BY WantedRow, JobRange
  <2>2. LastDay \in Nat BY PagingAssumption
  <2>3. venue[x] <= Now /\ venue[x] <= end BY <2>1
  <2>4. ~(Now - LastDay <= venue[x]) BY <2>1, <2>3 DEF Between
  <2>5. venue[x] < Now - LastDay BY <2>1, <2>2, <2>4
  <2> QED BY <2>5 DEF Lost
<1> HIDE DEF keep
<1>2. PageRight(Answer(keep, cursor, FALSE)) BY <1>1, OneRequestRight
<1> QED BY <1>2 DEF Bitstamp, keep

LEMMA KrakenKlinesRight ==
    ASSUME FInv, fetcher = "kraken_klines"
    PROVE  PageRight(KrakenKlines(cursor))
<1> DEFINE S == GrainsBetween(G(start), G(Now))
           keep == Newest(S) \cap Between(start, end)
<1>1. ASSUME NEW x \in Wanted \ keep PROVE Lost(keep, x)
  <2>1. /\ x \in DOMAIN venue /\ venue[x] \in Nat /\ start <= venue[x] /\ venue[x] < end
        /\ G(start) <= G(venue[x]) /\ G(venue[x]) <= G(Now) /\ end \in Nat
    BY WantedRow, JobRange
  <2>2. venue[x] <= end BY <2>1
  <2>3. x \in S BY <2>1 DEF GrainsBetween
  <2>4. x \in Between(start, end) BY <2>1, <2>2 DEF Between
  <2>5. S \in SUBSET DOMAIN venue BY DEF GrainsBetween
  <2> HIDE DEF S
  <2>6. PageAfter(x, Newest(S)) BY <2>3, <2>4, <2>5, PassedOver
  <2>7. PageAfter(x, DOMAIN venue) BY <2>5, <2>6, SomeRows, PageAfterGrows
  <2> QED BY <2>7 DEF Lost
<1> HIDE DEF keep
<1>2. PageRight(Answer(keep, cursor, FALSE)) BY <1>1, OneRequestRight
<1> QED BY <1>2 DEF KrakenKlines, keep

LEMMA GeminiKlinesRight ==
    ASSUME FInv, fetcher = "gemini_klines"
    PROVE  PageRight(GeminiKlines(cursor))
<1> DEFINE keep == Newest(DOMAIN venue) \cap Between(start, end)
<1>1. ASSUME NEW x \in Wanted \ keep PROVE Lost(keep, x)
  <2>1. /\ x \in DOMAIN venue /\ venue[x] \in Nat /\ start <= venue[x] /\ venue[x] < end
        /\ end \in Nat
    BY WantedRow, JobRange
  <2>2. venue[x] <= end BY <2>1
  <2>3. x \in Between(start, end) BY <2>1, <2>2 DEF Between
  <2>4. PageAfter(x, Newest(DOMAIN venue)) BY <2>1, <2>3, PassedOver
  <2>5. PageAfter(x, DOMAIN venue) BY <2>4, SomeRows, PageAfterGrows
  <2> QED BY <2>5 DEF Lost
<1> HIDE DEF keep
<1>2. PageRight(Answer(keep, cursor, FALSE)) BY <1>1, OneRequestRight
<1> QED BY <1>2 DEF GeminiKlines, keep

LEMMA BybitFundingRight ==
    ASSUME FInv, fetcher = "bybit_funding"
    PROVE  PageRight(BybitFunding(cursor))
<1> DEFINE S == GrainsBetween(G(start), G(end))
           keep == Newest(S)
<1>1. ASSUME NEW x \in Wanted \ keep PROVE Lost(keep, x)
  <2>1. /\ x \in DOMAIN venue /\ G(start) <= G(venue[x]) /\ G(venue[x]) < G(end)
        /\ G(venue[x]) \in Nat /\ G(end) \in Nat
    BY WantedRow, JobRange
  <2>2. G(venue[x]) <= G(end) BY <2>1
  <2>3. x \in S BY <2>1, <2>2 DEF GrainsBetween
  <2>4. S \in SUBSET DOMAIN venue BY DEF GrainsBetween
  <2> HIDE DEF S
  <2>5. PageAfter(x, keep) BY <2>3, <2>4, PassedOver
  <2> QED BY <2>5 DEF Lost
<1> HIDE DEF keep
<1>2. PageRight(Answer(keep, cursor, FALSE)) BY <1>1, OneRequestRight
<1> QED BY <1>2 DEF BybitFunding, keep

LEMMA PagesRight ==
    ASSUME FInv, pc = "paging", Loops
    PROVE  PageRight(Page(cursor))
<1>1. fetcher \in {"binance", "bybit", "futures_funding", "binance_klines", "futures_klines",
                   "bybit_klines", "gemini", "bitfinex", "bitfinex_klines", "okx", "okx_klines",
                   "kraken_klines", "coinbase_klines", "gemini_klines", "bitstamp_klines",
                   "kraken", "coinbase", "bitstamp", "bybit_funding"}
  BY DEF FInv, IInv, TypeOK, Fetchers, ByMillisecond, Capped, Candles, MinuteOn
<1>2. CASE fetcher \in {"binance", "bybit", "futures_funding", "bitfinex", "bitfinex_klines"}
  <2>1. PageRight(Upwards(cursor, Skip)) BY <1>2, UpwardsRight DEF Upward, ByMillisecond
  <2>2. Skip = 1 BY <1>2 DEF Skip, MinuteOn
  <2>3. Page(cursor) = Upwards(cursor, 1)
    BY <1>2 DEF Page, Binance, Bybit, FuturesFunding, Bitfinex, BitfinexKlines
  <2> QED BY <2>1, <2>2, <2>3
<1>3. CASE fetcher \in {"binance_klines", "futures_klines"}
  <2>1. PageRight(Upwards(cursor, Skip)) BY <1>3, UpwardsRight DEF Upward, ByMillisecond
  <2>2. Skip = Minute BY <1>3 DEF Skip, MinuteOn
  <2>3. Page(cursor) = Upwards(cursor, Minute)
    BY <1>3 DEF Page, BinanceKlines, FuturesKlines
  <2> QED BY <2>1, <2>2, <2>3
<1>4. CASE fetcher = "coinbase_klines"
  <2>1. cursor < end BY <1>4 DEF Loops, Capped, MinuteOn
  <2> QED BY <1>4, <2>1, CoinbaseKlinesRight DEF Page
<1>5. CASE fetcher = "bitstamp_klines" BY <1>5, BitstampKlinesRight DEF Page
<1>6. CASE fetcher \in {"gemini", "kraken", "coinbase", "okx", "okx_klines", "bybit_klines"}
  BY <1>6, BybitKlinesRight, GeminiRight, KrakenRight, CoinbaseRight, OkxRight, OkxKlinesRight DEF Page
<1>7. CASE fetcher \in {"bitstamp", "kraken_klines", "gemini_klines", "bybit_funding"}
  BY <1>7, BitstampRight, KrakenKlinesRight, GeminiKlinesRight, BybitFundingRight DEF Page
<1> QED BY <1>1, <1>2, <1>3, <1>4, <1>5, <1>6, <1>7

-----------------------------------------------------------------------------
(* The venue's rows are in order, and stay so                              *)

LEMMA GridApart ==
    ASSUME NEW p \in Nat, NEW q \in Nat, NEW s \in Nat \ {0}, NEW k \in Nat \ {0},
           p % (s * k) = 0, q % (s * k) = 0, p < q
    PROVE  (p \div k) + s <= q \div k
<1> DEFINE l == s * k
           i == p \div l
           j == q \div l
<1>1. l \in Nat \ {0}
  <2>1. s * k \in Nat /\ s * k # 0 OBVIOUS
  <2> QED BY <2>1
<1>2. i \in Nat /\ j \in Nat BY <1>1, Divided
<1>3. p = i * l /\ q = j * l BY <1>1, OnGrid
<1>4. l = s * k OBVIOUS
<1> HIDE DEF i, j, l
<1>5. i < j
  <2> SUFFICES ASSUME j <= i PROVE FALSE BY <1>2
  <2>1. j * l <= i * l BY <1>1, <1>2
  <2> QED BY <1>3, <2>1
<1>6. s * i \in Nat /\ s * j \in Nat BY <1>2
<1>7. p = (s * i) * k /\ q = (s * j) * k BY <1>2, <1>3, <1>4
<1>8. p \div k = s * i /\ q \div k = s * j BY <1>6, <1>7, DividedExact
<1>9. s * (i + 1) <= s * j BY <1>2, <1>5
<1>10. s * (i + 1) = s * i + s BY <1>2
<1> QED BY <1>8, <1>9, <1>10

LEMMA HistoryOrdered ==
    ASSUME NEW f, NEW s \in Nat \ {0}, NEW h \in Histories(f, s)
    PROVE  /\ \A x, y \in DOMAIN h : x < y => h[x] <= h[y]
           /\ f \in Candles => \A x, y \in DOMAIN h : x < y => G(h[x]) + s <= G(h[y])
           /\ f \in Candles => \A x \in DOMAIN h : h[x] % (s * Grain) = 0
           /\ f = "gemini" => \A x \in DOMAIN h : h[x] = G(h[x]) * Grain
<1> DEFINE times == IF f = "kraken" THEN 0 .. Now ELSE {t \in 0 .. Now : t % Grain = 0}
           starts == {t \in 0 .. Now : t % (s * Grain) = 0}
<1>1. Grain \in Nat \ {0} /\ Now \in Nat BY PagingAssumption
<1>2. CASE f \in Candles
  <2>1. /\ h \in UNION {[1 .. n -> starts] : n \in 0 .. MaxRows}
        /\ \A x, y \in DOMAIN h : x < y => h[x] < h[y]
    BY <1>2 DEF Histories
  <2>2. PICK n \in 0 .. MaxRows : h \in [1 .. n -> starts] BY <2>1
  <2>3. \A x \in DOMAIN h : h[x] \in Nat /\ h[x] % (s * Grain) = 0
    <3> SUFFICES ASSUME NEW x \in DOMAIN h PROVE h[x] \in Nat /\ h[x] % (s * Grain) = 0
      OBVIOUS
    <3>1. h[x] \in starts BY <2>2
    <3> QED BY <1>1, <3>1
  <2>4. ASSUME NEW x \in DOMAIN h, NEW y \in DOMAIN h, x < y
        PROVE  h[x] <= h[y] /\ G(h[x]) + s <= G(h[y])
    <3>1. h[x] < h[y] BY <2>1, <2>4
    <3>2. G(h[x]) + s <= G(h[y]) BY <1>1, <2>3, <3>1, GridApart DEF G
    <3> QED BY <2>3, <3>1, <3>2
  <2>5. f # "gemini" BY <1>2 DEF Candles, MinuteOn
  <2> QED BY <2>3, <2>4, <2>5
<1>3. CASE f \notin Candles
  <2>1. /\ h \in UNION {[1 .. n -> times] : n \in 0 .. MaxRows}
        /\ \A x, y \in DOMAIN h : x < y => h[x] <= h[y]
    BY <1>3 DEF Histories
  <2>2. PICK n \in 0 .. MaxRows : h \in [1 .. n -> times] BY <2>1
  <2>3. ASSUME f = "gemini", NEW x \in DOMAIN h
        PROVE  h[x] = G(h[x]) * Grain
    <3>1. h[x] \in {t \in 0 .. Now : t % Grain = 0} BY <2>2, <2>3
    <3>2. h[x] \in Nat /\ h[x] % Grain = 0 BY <1>1, <3>1
    <3> QED BY <1>1, <3>2, OnGrid DEF G
  <2> QED BY <1>3, <2>1, <2>3
<1> QED BY <1>2, <1>3

LEMMA InitFetch == Init => FInv
<1> SUFFICES ASSUME Init PROVE FInv
  OBVIOUS
<1>1. IInv BY InitInv
<1>2. step \in Nat \ {0} BY PagingAssumption DEF Init
<1>3. venue \in Histories(fetcher, step) BY DEF Init
<1>4. Sorted /\ Spaced /\ OnSteps /\ Aligned
  BY <1>2, <1>3, HistoryOrdered DEF Sorted, Spaced, OnSteps, Aligned
<1>5. KnownRows /\ PagesCounted BY PagingAssumption DEF Init, KnownRows, PagesCounted
<1>6. pc = "idle" /\ repeated = {} BY DEF Init
<1>7. Fetch BY <1>6 DEF Fetch, CursorFrom, Behind, SeamHeld, Remaining
<1>8. CollectedOnce /\ LossesExplained BY <1>6 DEF CollectedOnce, LossesExplained
<1> QED BY <1>1, <1>4, <1>5, <1>7, <1>8 DEF FInv, Market

\* Steps that leave the venue alone.
LEMMA SameMarket ==
    ASSUME FInv, UNCHANGED <<fetcher, step, venue>>,
           known' \subseteq DOMAIN venue, repeated' \subseteq DOMAIN venue, pages' <= MaxPages
    PROVE  Market'
<1>1. Sorted /\ Spaced /\ OnSteps /\ Aligned BY DEF FInv, Market
<1>2. Sorted' BY <1>1 DEF Sorted
<1>3. Spaced' /\ OnSteps' BY <1>1 DEF Spaced, OnSteps, G
<1>4. Aligned' BY <1>1 DEF Aligned, G
<1>5. KnownRows' /\ PagesCounted' BY DEF KnownRows, PagesCounted
<1> QED BY <1>2, <1>3, <1>4, <1>5 DEF Market

LEMMA ForgetKeeps ==
    ASSUME FInv, UNCHANGED <<fetcher, step, venue>>, pc' = "idle", Forget
    PROVE  Market' /\ Fetch' /\ CollectedOnce' /\ LossesExplained'
<1>1. repeated' = {} /\ known' = {} /\ pages' = 0 BY DEF Forget
<1>2. MaxPages \in Nat BY PagingAssumption
<1>3. pages' <= MaxPages BY <1>1, <1>2
<1>4. Market' BY <1>1, <1>3, SameMarket
<1> QED BY <1>1, <1>4 DEF Fetch, CursorFrom, Behind, SeamHeld, Remaining, CollectedOnce,
        LossesExplained

\* Steps after the loop.
LEMMA RestKeeps ==
    ASSUME FInv, UNCHANGED <<job, venue, paging>>, pc' \in {"idle", "writing", "logging"}
    PROVE  Market' /\ Fetch' /\ CollectedOnce' /\ LossesExplained'
<1>1. UNCHANGED <<fetcher, step, start, venue, pages, repeated, known>> BY DEF job, paging
<1>2. KnownRows /\ PagesCounted /\ CollectedOnce BY DEF FInv, Market
<1>3. Market' BY <1>1, <1>2, SameMarket DEF KnownRows, PagesCounted
<1>4. CollectedOnce' BY <1>1, <1>2 DEF CollectedOnce
<1> QED BY <1>3, <1>4 DEF Fetch, CursorFrom, Behind, SeamHeld, Remaining, LossesExplained

LEMMA QuietKeeps ==
    ASSUME FInv, Group \/ WriteDate \/ RecordCorrection \/ Abort
    PROVE  Market' /\ Fetch' /\ CollectedOnce' /\ LossesExplained'
<1>1. CASE Group
  <2>1. CASE out = {} BY <1>1, <2>1, ForgetKeeps DEF Group, job
  <2>2. CASE out # {} BY <1>1, <2>2, RestKeeps DEF Group
  <2> QED BY <2>1, <2>2
<1>2. CASE WriteDate BY <1>2, RestKeeps DEF WriteDate
<1>3. CASE RecordCorrection BY <1>3, ForgetKeeps DEF RecordCorrection, job
<1>4. CASE Abort BY <1>4, ForgetKeeps DEF Abort, job
<1> QED BY <1>1, <1>2, <1>3, <1>4

LEMMA CurrentRows ==
    ASSUME FInv
    PROVE  /\ TypeOK /\ out \subseteq DOMAIN venue /\ known \subseteq DOMAIN venue
           /\ repeated \subseteq DOMAIN venue /\ pages \in Nat /\ pages <= MaxPages
           /\ \A x \in DOMAIN venue : venue[x] \in Nat /\ G(venue[x]) \in Nat
<1>1. TypeOK /\ RowsHeld /\ KnownRows /\ PagesCounted BY DEF FInv, IInv, Market
<1> QED BY <1>1, RowsOfVenue DEF RowsHeld, KnownRows, PagesCounted, TypeOK

\* At its first cursor a fetch has all that is wanted ahead of it.
LEMMA BeginFetch ==
    ASSUME FInv, Begin
    PROVE  Market' /\ Fetch' /\ CollectedOnce' /\ LossesExplained'
<1>1. /\ UNCHANGED <<fetcher, start, end, step, venue>> /\ pc' = "paging"
      /\ cursor' = FirstCursor /\ pages' = 0 /\ out' = {} /\ repeated' = {}
      /\ known' = DOMAIN venue
  BY DEF Begin, job
<1>2. /\ start \in Nat /\ end \in Nat /\ G(start) \in Nat /\ G(end) \in Nat
  BY JobRange
<1>3. Market'
  <2>1. MaxPages \in Nat BY PagingAssumption
  <2>2. pages' <= MaxPages BY <1>1, <2>1
  <2> QED BY <1>1, <2>2, SameMarket
<1>4. CursorFrom'
  <2>1. ASSUME fetcher = "coinbase_klines" PROVE Meets(cursor)'
    <3> DEFINE l == PageSize * step * Grain
    <3>1. l \in Nat
      <4>1. PageSize \in Nat /\ step \in Nat /\ Grain \in Nat BY JobRange
      <4>2. PageSize * step \in Nat BY <4>1
      <4> QED BY <4>1, <4>2
    <3>2. cursor' = start BY <1>1, <2>1 DEF FirstCursor
    <3>3. start = start + 0 * l BY <1>2, <3>1
    <3> QED BY <1>1, <3>2, <3>3 DEF Meets
  <2>2. ASSUME fetcher \in Upward PROVE (G(start) <= cursor)'
    <3>1. cursor' = G(start) BY <1>1, <2>2 DEF FirstCursor, Upward
    <3>2. G(start)' = G(start) BY <1>1 DEF G
    <3> QED BY <1>2, <3>1, <3>2
  <2>3. Upward' = Upward BY DEF Upward
  <2> QED BY <1>1, <2>1, <2>2, <2>3 DEF CursorFrom
<1>5. Behind' BY <1>1 DEF Behind
<1>6. Remaining'
  <2> SUFFICES ASSUME NEW x \in Wanted' PROVE AheadAt(cursor, x)'
    BY DEF Remaining
  <2>1. /\ x \in DOMAIN venue /\ G(venue[x]) < G(end)
        /\ start + (IF fetcher = "kraken" THEN 1 ELSE 0) <= venue[x]
    BY <1>1 DEF Wanted, G
  <2>2. venue[x] \in Nat /\ G(venue[x]) \in Nat BY <2>1, CurrentRows
  <2>3. start <= venue[x] /\ (fetcher = "kraken" => start < venue[x])
    BY <1>2, <2>1, <2>2
  <2>4. G(start) <= G(venue[x]) BY <1>2, <2>2, <2>3, GrainsOrdered
  <2>5. AheadAt(cursor, x)' <=> AheadAt(FirstCursor, x) BY <1>1 DEF AheadAt, G
  <2>6. CASE fetcher \in Upward
    <3>1. FirstCursor = G(start) BY <2>6 DEF FirstCursor, Upward
    <3> QED BY <2>4, <2>5, <2>6, <3>1, AheadUpward
  <2>7. CASE fetcher = "kraken"
    <3>1. FirstCursor = start BY <2>7 DEF FirstCursor
    <3> QED BY <2>3, <2>5, <2>7, <3>1 DEF AheadAt, Upward
  <2>8. CASE fetcher = "coinbase_klines"
    <3>1. FirstCursor = start BY <2>8 DEF FirstCursor
    <3> QED BY <2>3, <2>5, <2>8, <3>1 DEF AheadAt, Upward
  <2>9. CASE fetcher = "okx_klines"
    <3>1. FirstCursor = G(end) BY <2>9 DEF FirstCursor
    <3> QED BY <2>1, <2>5, <2>9, <3>1 DEF AheadAt, Upward
  <2>10. CASE fetcher \in {"coinbase", "okx"}
    <3>1. FirstCursor = 0 BY <2>10 DEF FirstCursor
    <3> QED BY <2>5, <2>10, <3>1 DEF AheadAt, Upward
  <2>11. CASE fetcher \notin Upward \cup {"kraken", "coinbase_klines", "okx_klines",
                                          "coinbase", "okx"}
    BY <2>5, <2>11 DEF AheadAt
  <2> QED BY <2>6, <2>7, <2>8, <2>9, <2>10, <2>11
<1>7. CollectedOnce' /\ LossesExplained' BY <1>1 DEF CollectedOnce, LossesExplained
<1>8. SeamHeld' BY <1>1 DEF SeamHeld, FirstCursor
<1> QED BY <1>3, <1>4, <1>5, <1>6, <1>7, <1>8 DEF Fetch

\* A loop that is left has nothing ahead of it, or has used up its pages.
LEMMA LoopEndsFetch ==
    ASSUME FInv, LoopEnds
    PROVE  Market' /\ Fetch' /\ CollectedOnce' /\ LossesExplained'
<1>1. /\ UNCHANGED <<job, fetcher, start, end, step, venue, cursor, pages, out, repeated, known>>
      /\ pc = "paging" /\ pc' = "fetched" /\ ~Loops
  BY DEF LoopEnds, job, paging
<1>2. Market' BY <1>1, CurrentRows, SameMarket
<1>3. Fetch' BY <1>1 DEF Fetch, CursorFrom, Behind, SeamHeld, Remaining
<1>4. CollectedOnce' BY <1>1 DEF FInv, CollectedOnce
<1>5. ASSUME NEW x \in Wanted \ out
      PROVE  Excused(x) \/ (fetcher \in Capped /\ pages = MaxPages)
  <2>1. CASE Excused(x) BY <2>1
  <2>2. CASE AheadAt(cursor, x)
    <3>1. /\ x \in DOMAIN venue /\ venue[x] \in Nat /\ G(venue[x]) \in Nat /\ venue[x] < end
          /\ G(venue[x]) < G(end) /\ cursor \in Nat /\ end \in Nat /\ G(end) \in Nat
          /\ Grain \in Nat \ {0}
      BY WantedRow, JobRange
    <3>2. CASE fetcher \in Capped
      <4>1. ~(pages < MaxPages) BY <1>1, <3>2 DEF Loops, Capped, MinuteOn
      <4>2. pages \in Nat /\ pages <= MaxPages /\ MaxPages \in Nat
        BY CurrentRows, PagingAssumption
      <4> QED BY <3>2, <4>1, <4>2
    <3>3. CASE fetcher \in {"kraken", "coinbase_klines"}
      <4>1. ~(cursor < end) BY <1>1, <3>3 DEF Loops, Capped, MinuteOn
      <4>2. cursor <= venue[x] BY <2>2, <3>1, <3>3 DEF AheadAt, Upward
      <4> QED BY <3>1, <4>1, <4>2
    <3>4. CASE fetcher = "bybit"
      <4>1. ~(cursor * Grain < end) BY <1>1, <3>4 DEF Loops, Capped, MinuteOn
      <4>2. cursor <= G(venue[x]) BY <2>2, <3>4, AheadUpward DEF Upward
      <4>3. cursor * Grain <= G(venue[x]) * Grain BY <3>1, <4>2
      <4>4. G(venue[x]) * Grain <= venue[x] BY <3>1, GrainsOrdered
      <4>5. cursor * Grain \in Nat /\ G(venue[x]) * Grain \in Nat BY <3>1, DividedExact
      <4> QED BY <3>1, <4>1, <4>3, <4>4, <4>5
    <3>5. CASE fetcher \in {"binance", "futures_funding", "bitstamp_klines", "binance_klines",
                            "futures_klines", "bybit_klines"}
      <4>1. ~(cursor < G(end)) BY <1>1, <3>5 DEF Loops, Capped, MinuteOn
      <4>2. cursor <= G(venue[x]) BY <2>2, <3>5, AheadUpward DEF Upward
      <4> QED BY <3>1, <4>1, <4>2
    <3>6. fetcher \in Capped \cup {"kraken", "coinbase_klines", "bybit", "binance",
             "futures_funding", "bitstamp_klines", "binance_klines", "futures_klines",
             "bybit_klines"}
      BY <1>1 DEF Loops, Capped, MinuteOn
    <3> QED BY <3>2, <3>3, <3>4, <3>5, <3>6
  <2>3. Remaining BY DEF FInv, Fetch
  <2> QED BY <1>1, <2>1, <2>2, <2>3 DEF Remaining
<1>6. Wanted' = Wanted BY <1>1 DEF Wanted, G
<1>7. \A x : CutAfterRow(x)' <=> CutAfterRow(x) BY <1>1 DEF CutAfterRow, G, Skip
<1>8. LossesExplained' BY <1>1, <1>5, <1>6, <1>7 DEF LossesExplained, Excused, PageAfter
<1> QED BY <1>2, <1>3, <1>4, <1>8

\* An answer: what it keeps was ahead, so it is new; what it passes over is cut
\* off, or the end of the loop explains it.
LEMMA AskPageFetch ==
    ASSUME FInv, AskPage
    PROVE  Market' /\ Fetch' /\ CollectedOnce' /\ LossesExplained'
<1> DEFINE a == Page(cursor)
<1>1. /\ UNCHANGED <<fetcher, start, end, step, venue, known>>
      /\ pc = "paging" /\ Loops
      /\ out' = out \cup a.keep
      /\ repeated' = repeated \cup (out \cap a.keep)
      /\ cursor' = a.next
      /\ pc' = IF a.more THEN "paging" ELSE "fetched"
      /\ pages' = IF fetcher \in Capped THEN pages + 1 ELSE pages
  BY DEF AskPage, job
<1>2. PageRight(a) BY <1>1, PagesRight
<1>3. a.keep \subseteq DOMAIN venue /\ a.next \in Nat BY CurrentRows, PageSound DEF Sound
<1> HIDE DEF a
<1>4. cursor \in Nat /\ end \in Nat /\ start \in Nat BY JobRange
<1>5. Behind /\ Remaining /\ CursorFrom /\ CollectedOnce BY DEF FInv, Fetch
<1>6. \A x : AheadAt(cursor, x)' <=> AheadAt(a.next, x) BY <1>1 DEF AheadAt, G
<1>7. Market'
  <2>1. pages' <= MaxPages
    <3>1. pages \in Nat /\ pages <= MaxPages /\ MaxPages \in Nat BY CurrentRows, PagingAssumption
    <3>2. CASE fetcher \in Capped
      <4>1. pages < MaxPages BY <1>1, <3>2 DEF Loops, Capped, MinuteOn
      <4> QED BY <1>1, <3>1, <3>2, <4>1
    <3>3. CASE fetcher \notin Capped BY <1>1, <3>1, <3>3
    <3> QED BY <3>2, <3>3
  <2>2. known' \subseteq DOMAIN venue /\ repeated' \subseteq DOMAIN venue
    BY <1>1, <1>3, CurrentRows
  <2> QED BY <1>1, <2>1, <2>2, SameMarket
<1>8. fetcher = "coinbase_klines" => Meets(cursor)
  <2> SUFFICES ASSUME fetcher = "coinbase_klines" PROVE Meets(cursor) OBVIOUS
  <2>1. cursor < end BY <1>1 DEF Loops, Capped, MinuteOn
  <2>2. cursor = end \/ Meets(cursor) BY <1>1, <1>5 DEF CursorFrom
  <2> QED BY <1>4, <2>1, <2>2
<1>9. CursorFrom'
  <2>1. ASSUME fetcher = "coinbase_klines" PROVE (cursor = end \/ Meets(cursor))'
    <3> DEFINE l == PageSize * step * Grain
    <3>1. a.next = end \/ a.next = cursor + l BY <1>2, <2>1 DEF PageRight, MovesOn
    <3>2. l \in Nat
      <4>1. PageSize \in Nat /\ step \in Nat /\ Grain \in Nat BY JobRange
      <4>2. PageSize * step \in Nat BY <4>1
      <4> QED BY <4>1, <4>2
    <3>3. PICK k \in Nat : cursor = start + k * l BY <1>8, <2>1 DEF Meets
    <3>4. CASE a.next = cursor + l
      <4> HIDE DEF l
      <4>1. k * l \in Nat /\ k + 1 \in Nat /\ (k + 1) * l = k * l + l BY <3>2
      <4>2. a.next = start + (k + 1) * l BY <1>4, <3>2, <3>3, <3>4, <4>1
      <4>3. Meets(a.next) BY <4>1, <4>2 DEF Meets, l
      <4>4. Meets(cursor)' BY <1>1, <4>3 DEF Meets
      <4> QED BY <4>4
    <3> QED BY <1>1, <3>1, <3>4
  <2>2. ASSUME fetcher \in Upward PROVE (G(start) <= cursor)'
    <3>1. G(start) <= cursor BY <1>1, <1>5, <2>2 DEF CursorFrom
    <3>2. cursor <= a.next BY <1>2, <2>2 DEF PageRight, MovesOn
    <3>3. G(start) \in Nat BY JobRange
    <3>4. G(start)' = G(start) BY <1>1 DEF G
    <3> QED BY <1>1, <1>3, <1>4, <3>1, <3>2, <3>3, <3>4
  <2>3. Upward' = Upward BY DEF Upward
  <2> QED BY <1>1, <2>1, <2>2, <2>3 DEF CursorFrom
<1>10. Behind'
  <2> SUFFICES ASSUME a.more, NEW x \in out', AheadAt(a.next, x)
               PROVE  fetcher = "coinbase_klines" /\ venue[x] = a.next
    BY <1>1, <1>6 DEF Behind
  <2>1. CASE x \in a.keep BY <1>2, <2>1 DEF PageRight, LeavesBehind
  <2>2. CASE x \in out
    <3>1. x \in DOMAIN venue /\ venue[x] \in Nat BY <2>2, CurrentRows
    <3>2. AheadAt(cursor, x) BY <1>2, <3>1 DEF PageRight, MovesOn
    <3>3. fetcher = "coinbase_klines" /\ venue[x] = cursor BY <1>1, <1>5, <2>2, <3>2 DEF Behind
    <3>4. cursor <= a.next BY <1>2, <3>3 DEF PageRight, MovesOn
    <3>5. a.next <= venue[x] BY <3>3 DEF AheadAt, Upward
    <3>6. venue[x] = a.next BY <1>3, <1>4, <3>1, <3>3, <3>4, <3>5
    <3> QED BY <3>3, <3>6
  <2> QED BY <1>1, <2>1, <2>2
<1>11. Wanted' = Wanted BY <1>1 DEF Wanted, G
<1>12. \A x : CutAfterRow(x)' <=> CutAfter(out', x) BY <1>1 DEF CutAfterRow, CutAfter, G, Skip
<1>13. out \subseteq out' /\ a.keep \subseteq out' /\ out' \subseteq DOMAIN venue
  BY <1>1, <1>3, CurrentRows
\* A reason stays one when more is collected.
<1>14. ASSUME NEW x, Cut(a.keep, x) \/ Excused(x)
       PROVE  Excused(x)'
  <2>1. PageAfter(x, out)' <=> PageAfter(x, out') BY DEF PageAfter
  <2>2. PageAfter(x, a.keep) \/ PageAfter(x, out) => PageAfter(x, out')
    BY <1>13, PageAfterGrows
  <2>3. CutAfter(a.keep, x) \/ CutAfterRow(x) => CutAfter(out', x)
    BY <1>13 DEF CutAfter, CutAfterRow
  <2> QED BY <1>1, <1>12, <1>14, <2>1, <2>2, <2>3 DEF Cut, Excused, ByMillisecond
<1>15. Remaining'
  <2> SUFFICES ASSUME a.more, NEW x \in Wanted \ out'
               PROVE  AheadAt(a.next, x) \/ Excused(x)'
    BY <1>1, <1>6, <1>11 DEF Remaining
  <2>1. x \in Wanted \ (out \cup a.keep) BY <1>1
  <2>2. AheadAt(cursor, x) \/ Excused(x) BY <1>1, <1>5, <2>1 DEF Remaining
  <2>3. CASE AheadAt(cursor, x)
    <3>1. AheadAt(a.next, x) \/ Cut(a.keep, x) BY <1>2, <2>1, <2>3 DEF PageRight, LeavesAhead
    <3> QED BY <1>14, <3>1
  <2> QED BY <1>14, <2>2, <2>3
<1>16. LossesExplained'
  <2> DEFINE Why(x) ==
        \/ Excused(x)'
        \/ fetcher = "bitstamp" /\ venue[x] < Now - LastDay
        \/ fetcher = "bitstamp_klines" /\ AfterHole(x)'
        \/ fetcher = "bybit_funding" /\ PageAfter(x, out')
        \/ fetcher \in {"kraken_klines", "gemini_klines"} /\ PageAfter(x, DOMAIN venue)
  <2>1. ASSUME ~a.more, NEW x \in Wanted \ out' PROVE Why(x)
    <3>1. x \in Wanted \ out /\ x \in Wanted \ a.keep BY <1>13, <2>1
    <3>2. CASE AheadAt(cursor, x)
      <4>1. Lost(a.keep, x) BY <1>2, <2>1, <3>1, <3>2 DEF PageRight, EndsWell
      <4>2. AfterHole(x)' <=> AfterHole(x) BY <1>1 DEF AfterHole, GrainsBetween, G
      <4>3. PageAfter(x, a.keep) => PageAfter(x, out') BY <1>13, PageAfterGrows
      <4> QED BY <1>14, <4>1, <4>2, <4>3 DEF Lost
    <3>3. CASE Excused(x) BY <1>14, <3>3
    <3> QED BY <1>1, <1>5, <3>1, <3>2, <3>3 DEF Remaining
  <2>2. SUFFICES ASSUME ~a.more, NEW x \in Wanted \ out', Why(x)
                 PROVE  \/ fetcher \in ByMillisecond \cup {"kraken"} /\ CutAfterRow(x)'
                        \/ fetcher = "bitstamp" /\ venue[x] < Now - LastDay
                        \/ fetcher = "bitstamp_klines" /\ AfterHole(x)'
                        \/ fetcher \in {"bybit_funding", "bybit_klines"} /\ PageAfter(x, out')
                        \/ /\ fetcher \in {"kraken_klines", "gemini_klines"}
                           /\ PageAfter(x, DOMAIN venue)
                        \/ /\ fetcher = "coinbase_klines" /\ venue[x] = start
                           /\ PageAfter(x, out')
    BY <1>1, <1>11, <2>1 DEF LossesExplained, ByMillisecond, PageAfter
  <2> QED BY <1>1, <2>2 DEF Excused, PageAfter, ByMillisecond
<1>17. CollectedOnce'
  <2> SUFFICES ASSUME NEW x \in repeated'
               PROVE  fetcher = "coinbase_klines"
                      /\ (venue[x] - start) % (PageSize * step * Grain) = 0
    BY <1>1 DEF CollectedOnce
  <2>1. CASE x \in repeated BY <1>5, <2>1 DEF CollectedOnce
  <2>2. CASE x \in out \cap a.keep
    <3>1. AheadAt(cursor, x) BY <1>2, <2>2 DEF PageRight, KeepsAhead
    <3>2. fetcher = "coinbase_klines" /\ venue[x] = cursor BY <1>1, <1>5, <2>2, <3>1 DEF Behind
    <3> DEFINE l == PageSize * step * Grain
    <3>3. PICK k \in Nat : cursor = start + k * l BY <1>8, <3>2 DEF Meets
    <3>4. l \in Nat \ {0}
      <4>1. PageSize \in Nat \ {0} /\ step \in Nat \ {0} /\ Grain \in Nat \ {0} BY JobRange
      <4>2. PageSize * step \in Nat \ {0}
        <5>1. PageSize * step \in Nat /\ PageSize * step # 0 BY <4>1
        <5> QED BY <5>1
      <4> DEFINE n == PageSize * step
      <4> HIDE DEF n
      <4>3. n \in Nat \ {0} BY <4>2 DEF n
      <4>4. n * Grain \in Nat /\ n * Grain # 0 BY <4>1, <4>3
      <4> QED BY <4>4 DEF n
    <3> HIDE DEF l
    <3>5. venue[x] - start = k * l
      <4>1. k * l \in Nat BY <3>4
      <4> QED BY <1>4, <3>2, <3>3, <4>1
    <3>6. (k * l) % l = 0 BY <3>4, MultipleOf
    <3> QED BY <3>2, <3>5, <3>6 DEF l
  <2> QED BY <1>1, <2>1, <2>2
<1>18. SeamHeld'
  <2> SUFFICES ASSUME fetcher = "coinbase_klines", NEW x \in DOMAIN venue, venue[x] = a.next
               PROVE  x \in out'
    BY <1>1 DEF SeamHeld
  <2> QED BY <1>2, <1>13 DEF PageRight, MovesOn
<1> QED BY <1>7, <1>9, <1>10, <1>15, <1>16, <1>17, <1>18 DEF Fetch

\* A body without rows ends a loop before what is ahead of it: on the other
\* side of all that is collected.
LEMMA BlankBodyFetch ==
    ASSUME FInv, BlankBody
    PROVE  Market' /\ Fetch' /\ CollectedOnce' /\ LossesExplained'
<1>1. /\ UNCHANGED <<fetcher, start, end, step, venue, cursor, out, repeated, known>>
      /\ pc = "paging" /\ pc' = "fetched" /\ Loops /\ fetcher \in Lenient /\ blank' = TRUE
      /\ pages' = IF fetcher \in Capped THEN pages + 1 ELSE pages
  BY DEF BlankBody, job
<1>2. Market'
  <2>1. pages' <= MaxPages
    <3>1. pages \in Nat /\ pages <= MaxPages /\ MaxPages \in Nat BY CurrentRows, PagingAssumption
    <3>2. CASE fetcher \in Capped
      <4>1. pages < MaxPages BY <1>1, <3>2 DEF Loops, Capped, MinuteOn
      <4> QED BY <1>1, <3>1, <3>2, <4>1
    <3>3. CASE fetcher \notin Capped BY <1>1, <3>1, <3>3
    <3> QED BY <3>2, <3>3
  <2> QED BY <1>1, <2>1, CurrentRows, SameMarket
<1>3. Fetch' BY <1>1 DEF Fetch, CursorFrom, Behind, SeamHeld, Remaining
<1>4. CollectedOnce' BY <1>1 DEF FInv, CollectedOnce
<1>5. Remaining /\ Behind BY DEF FInv, Fetch
<1>6. ASSUME NEW x \in Wanted, AheadAt(cursor, x), NEW y \in out
      PROVE  IF fetcher \in {"okx", "okx_klines"} THEN x < y ELSE y < x
  <2>1. /\ x \in DOMAIN venue /\ y \in DOMAIN venue /\ x \in Int /\ y \in Int
    <3>1. DOMAIN venue \subseteq 0 .. Len(venue) /\ Len(venue) \in Nat BY JobRange, RowsOfVenue
    <3>2. x \in DOMAIN venue /\ y \in DOMAIN venue BY WantedRow, CurrentRows
    <3> QED BY <3>1, <3>2
  <2>2. cursor \in Nat BY JobRange
  <2>3. /\ venue[x] \in Nat /\ venue[y] \in Nat /\ G(venue[x]) \in Nat /\ G(venue[y]) \in Nat
    BY <2>1, CurrentRows
  <2>4. fetcher # "coinbase_klines" BY <1>1 DEF Lenient
  <2>5. ~AheadAt(cursor, y) BY <1>1, <1>5, <2>4 DEF Behind
  <2>6. (x <= y => venue[x] <= venue[y] /\ G(venue[x]) <= G(venue[y]))
        /\ (y <= x => venue[y] <= venue[x] /\ G(venue[y]) <= G(venue[x]))
    BY <2>1, Ordered
  <2>7. CASE fetcher \in {"bybit", "bybit_klines", "bitstamp_klines"}
    <3>1. cursor <= G(venue[x]) /\ ~(cursor <= G(venue[y]))
      BY <1>6, <2>5, <2>7, AheadUpward DEF Upward
    <3> QED BY <2>1, <2>2, <2>3, <2>6, <2>7, <3>1
  <2>8. CASE fetcher = "kraken"
    <3>1. cursor < venue[x] /\ ~(cursor < venue[y]) BY <1>6, <2>5, <2>8 DEF AheadAt, Upward
    <3> QED BY <2>1, <2>2, <2>3, <2>6, <2>8, <3>1
  <2>9. CASE fetcher = "okx"
    <3>1. (cursor = 0 \/ x < cursor) /\ ~(cursor = 0 \/ y < cursor)
      BY <1>6, <2>5, <2>9 DEF AheadAt, Upward
    <3> QED BY <2>1, <2>2, <2>9, <3>1
  <2>10. CASE fetcher = "okx_klines"
    <3>1. G(venue[x]) < cursor /\ ~(G(venue[y]) < cursor)
      BY <1>6, <2>5, <2>10 DEF AheadAt, Upward
    <3> QED BY <2>1, <2>2, <2>3, <2>6, <2>10, <3>1
  <2>11. CASE fetcher \in {"kraken_klines", "bybit_funding"}
    BY <2>5, <2>11 DEF AheadAt, Upward
  <2> QED BY <1>1, <2>7, <2>8, <2>9, <2>10, <2>11 DEF Lenient
<1>7. ASSUME NEW x \in Wanted \ out
      PROVE  Excused(x) \/ (fetcher \in Lenient /\ Unreached(x)')
  BY <1>1, <1>5, <1>6 DEF Remaining, Unreached
<1>8. Wanted' = Wanted BY <1>1 DEF Wanted, G
<1>9. \A x : CutAfterRow(x)' <=> CutAfterRow(x) BY <1>1 DEF CutAfterRow, G, Skip
<1>10. LossesExplained'
  BY <1>1, <1>7, <1>8, <1>9 DEF LossesExplained, Excused, PageAfter, Lenient, ByMillisecond
<1> QED BY <1>2, <1>3, <1>4, <1>10

\* A trade of the present moment is younger than all that is wanted.
LEMMA TradeFetch ==
    ASSUME FInv, Trade
    PROVE  Market' /\ Fetch' /\ CollectedOnce' /\ LossesExplained'
<1>1. /\ UNCHANGED <<fetcher, start, end, step, pc, cursor, pages, out, repeated, known>>
      /\ pc = "paging" /\ fetcher \notin Candles /\ venue' = Append(venue, Now)
  BY DEF Trade, job, paging
<1>2. venue \in Seq(0 .. Now) /\ Now \in 0 .. Now /\ Now \in Nat
  BY CurrentRows, PagingAssumption DEF TypeOK
<1> DEFINE n == Len(venue) + 1
<1>3. /\ DOMAIN venue = 1 .. Len(venue) /\ Len(venue) \in Nat
      /\ DOMAIN venue' = DOMAIN venue \cup {n} /\ venue'[n] = Now
      /\ \A x \in DOMAIN venue : venue'[x] = venue[x] /\ x < n
  <2>1. Len(venue') = Len(venue) + 1 /\ Len(venue) \in Nat /\ venue' \in Seq(0 .. Now)
    BY <1>1, <1>2, AppendProperties
  <2>2. DOMAIN venue = 1 .. Len(venue) /\ DOMAIN venue' = 1 .. Len(venue) + 1
    BY <1>2, <2>1, LenProperties
  <2>3. venue'[n] = Now /\ \A x \in 1 .. Len(venue) : venue'[x] = venue[x]
    BY <1>1, <1>2, AppendProperties
  <2> QED BY <2>1, <2>2, <2>3
<1>4. \A x \in DOMAIN venue : venue[x] <= Now
  <2>1. \A x \in DOMAIN venue : venue[x] \in 0 .. Now BY <1>2, <1>3, ElementOfSeq
  <2> QED BY <1>2, <2>1
<1>5. \A x \in DOMAIN venue : ~(n < x) /\ ~(n < n)
  <2>1. \A x \in DOMAIN venue : x \in Int /\ n \in Int BY <1>3
  <2> QED BY <1>3, <2>1
<1> HIDE DEF n
<1>6. Sorted /\ Aligned /\ KnownRows /\ PagesCounted BY DEF FInv, Market
<1>7. Sorted'
  <2> SUFFICES ASSUME NEW x \in DOMAIN venue', NEW y \in DOMAIN venue', x < y
               PROVE  venue'[x] <= venue'[y]
    BY DEF Sorted
  <2>1. CASE y = n
    <3>1. n \in Int BY <1>3 DEF n
    <3>2. x # n BY <2>1, <3>1
    <3> QED BY <1>3, <1>4, <2>1, <3>2
  <2>2. CASE y # n
    <3>1. y \in DOMAIN venue BY <1>3, <2>2
    <3>2. x # n BY <1>5, <3>1
    <3>3. x \in DOMAIN venue BY <1>3, <3>2
    <3> QED BY <1>3, <1>6, <3>1, <3>3 DEF Sorted
  <2> QED BY <2>1, <2>2
<1>8. Aligned' BY <1>1, <1>3, <1>6 DEF Aligned, G
<1>9. Market'
  BY <1>1, <1>3, <1>6, <1>7, <1>8 DEF Market, Spaced, OnSteps, KnownRows, PagesCounted
<1>10. out \subseteq DOMAIN venue /\ known \subseteq DOMAIN venue /\ repeated \subseteq DOMAIN venue
  BY CurrentRows
<1>11. \A x \in DOMAIN venue : AheadAt(cursor, x)' <=> AheadAt(cursor, x)
  BY <1>1, <1>3 DEF AheadAt, G
<1>12. Wanted' = Wanted BY <1>1, <1>3, <1>10 DEF Wanted, G
<1>13. \A x \in DOMAIN venue : CutAfterRow(x)' <=> CutAfterRow(x)
  BY <1>1, <1>3, <1>10 DEF CutAfterRow, G, Skip
<1>14. Fetch BY DEF FInv
<1>15. CursorFrom' BY <1>1, <1>14 DEF Fetch, CursorFrom, Meets, G
<1>16. Behind'
  <2> SUFFICES ASSUME NEW x \in out, AheadAt(cursor, x)'
               PROVE  fetcher = "coinbase_klines" /\ venue'[x] = cursor
    BY <1>1 DEF Behind
  <2>1. x \in DOMAIN venue BY <1>10
  <2> QED BY <1>1, <1>3, <1>11, <1>14, <2>1 DEF Fetch, Behind
<1>17. Remaining'
  <2> SUFFICES ASSUME NEW x \in Wanted \ out
               PROVE  AheadAt(cursor, x)' \/ Excused(x)'
    BY <1>1, <1>12 DEF Remaining
  <2>1. x \in DOMAIN venue BY WantedRow
  <2>2. fetcher \notin {"bybit_klines", "coinbase_klines"} BY <1>1 DEF Candles, MinuteOn
  <2> QED BY <1>1, <1>11, <1>13, <1>14, <2>1, <2>2 DEF Fetch, Remaining, Excused, ByMillisecond
<1>18. CollectedOnce'
  <2> SUFFICES ASSUME NEW x \in repeated
               PROVE  fetcher = "coinbase_klines"
                      /\ (venue'[x] - start) % (PageSize * step * Grain) = 0
    BY <1>1 DEF CollectedOnce
  <2>1. venue'[x] = venue[x] BY <1>3, <1>10
  <2> QED BY <2>1 DEF FInv, CollectedOnce
<1>19. LossesExplained' BY <1>1 DEF LossesExplained
<1>20. SeamHeld' BY <1>1 DEF SeamHeld, Candles
<1> QED BY <1>9, <1>15, <1>16, <1>17, <1>18, <1>19, <1>20 DEF Fetch

LEMMA StutterFetch ==
    ASSUME FInv, UNCHANGED vars
    PROVE  Market' /\ Fetch' /\ CollectedOnce' /\ LossesExplained'
<1>1. /\ UNCHANGED <<fetcher, start, end, step, venue, pc, cursor, pages, out, repeated, known,
                blank>>
  BY DEF vars, job, paging
<1>2. Market' BY <1>1, CurrentRows, SameMarket
<1>3. CollectedOnce' BY <1>1 DEF FInv, CollectedOnce
<1>4. Fetch'
  <2>1. CursorFrom' BY <1>1 DEF FInv, Fetch, CursorFrom, Meets, G, Upward
  <2>2. Behind' BY <1>1 DEF FInv, Fetch, Behind, AheadAt, G, Upward
  <2>3. Wanted' = Wanted /\ \A x : AheadAt(cursor, x)' <=> AheadAt(cursor, x)
    BY <1>1 DEF Wanted, AheadAt, G, Upward
  <2>4. \A x : CutAfterRow(x)' <=> CutAfterRow(x) BY <1>1 DEF CutAfterRow, G, Skip, MinuteOn
  <2>5. Remaining'
    BY <1>1, <2>3, <2>4 DEF FInv, Fetch, Remaining, Excused, PageAfter, ByMillisecond
  <2>6. SeamHeld' BY <1>1 DEF FInv, Fetch, SeamHeld
  <2> QED BY <2>1, <2>2, <2>5, <2>6 DEF Fetch
<1>5. LossesExplained'
  <2>1. Wanted' = Wanted BY <1>1 DEF Wanted, G
  <2>2. \A x : CutAfterRow(x)' <=> CutAfterRow(x) BY <1>1 DEF CutAfterRow, G, Skip, MinuteOn
  <2>3. \A x : AfterHole(x)' <=> AfterHole(x) BY <1>1 DEF AfterHole, GrainsBetween, G
  <2>4. \A x : PageAfter(x, out)' <=> PageAfter(x, out) BY <1>1 DEF PageAfter
  <2>5. \A x : PageAfter(x, DOMAIN venue)' <=> PageAfter(x, DOMAIN venue)
    BY <1>1 DEF PageAfter
  <2>6. \A x : Unreached(x)' <=> Unreached(x) BY <1>1 DEF Unreached
  <2> QED BY <1>1, <2>1, <2>2, <2>3, <2>4, <2>5, <2>6
          DEF FInv, LossesExplained, Lenient, ByMillisecond, Capped
<1> QED BY <1>2, <1>3, <1>4, <1>5

LEMMA StepFetch == FInv /\ [Next]_vars => FInv'
<1> SUFFICES ASSUME FInv, [Next]_vars PROVE FInv'
  OBVIOUS
<1>1. IInv' BY StepInv DEF FInv
<1>2. Market' /\ Fetch' /\ CollectedOnce' /\ LossesExplained'
  BY BeginFetch, AskPageFetch, BlankBodyFetch, LoopEndsFetch, QuietKeeps, TradeFetch, StutterFetch DEF Next
<1> QED BY <1>1, <1>2 DEF FInv

\* Whatever the venue holds and trades meanwhile, a finished fetch has every row
\* of its window but those in whose grain a page was cut, those beyond the page
\* cap, beyond a body without rows that ended the loop, beyond the last day,
\* behind a hole as long as a chunk, before the last page of Bybit's candles or
\* funding rates or of what Kraken and Gemini keep of theirs, and the candle on
\* the start of Coinbase's first chunk (sources/binance.py:151 and its kin,
\* sources/okx.py:114, sources/kraken.py:185-190, sources/bybit.py:251).
THEOREM LossesHaveReasons == Spec => []LossesExplained
<1>1. FInv => LossesExplained BY DEF FInv
<1> QED BY <1>1, InitFetch, StepFetch, PTL DEF Spec

\* However the pages fall, no fetch collects a row twice, but for the candles
\* on the seams of Coinbase's chunks (sources/coinbase.py:239).
THEOREM RowsCollectedOnce == Spec => []CollectedOnce
<1>1. FInv => CollectedOnce BY DEF FInv
<1> QED BY <1>1, InitFetch, StepFetch, PTL DEF Spec
=============================================================================
