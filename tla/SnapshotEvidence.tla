-------------------------- MODULE SnapshotEvidence --------------------------
(***************************************************************************)
(* What a collection makes of the broker's answers: the operators from     *)
(* the account list, the holdings, the quotes, the buying power, the rate  *)
(* and the calendars to the snapshot that completeCollection stores, and   *)
(* from that snapshot to the input of the planner.  An answer that fails   *)
(* any of the tests ends the run without a snapshot; why is not told       *)
(* apart.  Quantities, prices, rates and dollars are decimals, here in     *)
(* parts of Unit; an instrument is its market and symbol.                  *)
(***************************************************************************)
EXTENDS Integers, Sequences, FiniteSets, Functions, FiniteSetsExt

CONSTANTS
  Unit,        \* parts of one: the scale of decimals, which have some
  Batch,       \* quotes asked for in one request (200)
  Rank,        \* the text order of symbols, classes and class:instrument
  Selected,    \* TOSSINVEST_ACCOUNT_SEQ
  NoSelection  \* Selected when it is not set

ASSUME EvidenceAssumption == Unit \in Nat \ {0, 1} /\ Batch \in Nat \ {0}

Null == 0  \* no rate, no auction

Key(x) == [market |-> x.market, symbol |-> x.symbol]

\* assertCollectionTargetInstrument
Supported(x) == <<x.market, x.currency>> \in {<<"KR", "KRW">>, <<"US", "USD">>}

\* The account to read: the only one, or the one that is configured.
selectAccount(accounts) ==
  {a \in accounts : IF Selected = NoSelection THEN accounts = {a} ELSE a = Selected}

\* Every holding and every instrument of the pinned target is valued; a symbol
\* is quoted without its market and must therefore belong to one market only.
Interpretable(named) ==
  \A x, y \in named : Supported(x) /\ (x.symbol = y.symbol => x.market = y.market)

collectValuationInstruments(named) == {Key(x) : x \in named}

collectMarkets(wanted) == {w.market : w \in wanted}

readPriceBatches(wanted) ==
  LET before(w) == Cardinality({v \in wanted : Rank[v.symbol] < Rank[w.symbol]})
  IN  [n \in 1..(1 + (Cardinality(wanted) - 1) \div Batch) |->
         {w \in wanted : before(w) \div Batch = n - 1}]

-----------------------------------------------------------------------------
(* Quotes.                                                                 *)

\* The part of the broker's quotes it sends for a batch.
Reply(quotes, batch) ==
  SelectSeq(quotes, LAMBDA q : \E w \in batch : w.symbol = q.symbol)

\* A reply names every instrument of its batch once, in the currency of its
\* market and with a price.
normalizeTossPrices(reply, batch) ==
  /\ \A i, j \in DOMAIN reply : reply[i].symbol = reply[j].symbol => i = j
  /\ {q.symbol : q \in Range(reply)} = {w.symbol : w \in batch}
  /\ \A q \in Range(reply), w \in batch : q.symbol = w.symbol =>
       Supported([market |-> w.market, currency |-> q.currency]) /\ q.price \in Nat \ {0}

\* The market comes from the request, the rest from the reply.
toStoredPriceSnapshots(quotes, wanted) ==
  UNION {{[market |-> w.market, symbol |-> w.symbol, currency |-> q.currency,
           price |-> q.price, observed |-> q.observed] :
            q \in {r \in Range(quotes) : r.symbol = w.symbol}} : w \in wanted}

\* What the repository tests again before it stores the prices.
canonicalPriceSnapshots(prices) ==
  /\ \A p \in prices : Supported(p) /\ p.price \in Nat \ {0} /\ p.observed # "FUTURE"
  /\ \A p, q \in prices : Key(p) = Key(q) => p = q

PriceOf(prices, key) == (CHOOSE p \in prices : Key(p) = key).price

-----------------------------------------------------------------------------
(* Holdings and their value.                                               *)

Whole(decimal) == decimal % Unit = 0

RoundedHalfUp(n, d) == (n + d \div 2) \div d

usdAmountToKrwMinor(amount, rate) == RoundedHalfUp(amount * rate, Unit * Unit)

\* Won have no decimals: a Korean quantity or price with some is refused.
instrumentValueKrwMinor(market, quantity, price, rate) ==
  IF market = "KR" THEN (quantity \div Unit) * (price \div Unit)
  ELSE RoundedHalfUp(quantity * price * rate, Unit * Unit * Unit)

Valuable(item, prices, rate) ==
  /\ \E p \in prices : Key(p) = Key(item) /\ p.currency = item.currency
  /\ IF item.market = "KR"
       THEN Whole(item.quantity) /\ Whole(PriceOf(prices, Key(item)))
       ELSE rate # Null

NormalizedAtBrokersValue(item, prices, rate) ==  \* wrong: the broker's own valuation
  [market |-> item.market, symbol |-> item.symbol, currency |-> item.currency,
   quantity |-> item.quantity, value |-> item.worth]

\* Valued with the quote; the broker's own valuation is only kept beside it.
normalizeHolding(item, prices, rate) ==
  [market |-> item.market, symbol |-> item.symbol, currency |-> item.currency,
   quantity |-> item.quantity,
   value |-> instrumentValueKrwMinor(item.market, item.quantity,
                                     PriceOf(prices, Key(item)), rate)]

HoldingsTakenAsListed(holdings) ==  \* wrong: an instrument may be listed twice
  \A h \in Range(holdings) : Supported(h)

canonicalHoldingSnapshots(holdings) ==
  /\ \A h \in Range(holdings) : Supported(h)
  /\ \A i, j \in DOMAIN holdings : Key(holdings[i]) = Key(holdings[j]) => i = j

-----------------------------------------------------------------------------
(* Buying power and exchange rate.                                         *)

Currencies(markets) == {"KRW"} \cup (IF "US" \in markets THEN {"USD"} ELSE {})

\* power gives the answer to each request; a rate is needed for dollars only.
validateBuyingPowerCurrency(power, currencies) ==
  \A c \in currencies : /\ c \in DOMAIN power /\ power[c].currency = c
                         /\ c = "KRW" => Whole(power[c].amount)

krwAmountToMinor(amount) == amount \div Unit

BuyingPower(power, currencies, rate) ==
  [c \in currencies |-> IF c = "KRW" THEN krwAmountToMinor(power[c].amount)
                        ELSE usdAmountToKrwMinor(power[c].amount, rate)]

RateOf(exchange) == IF exchange.base = "USD" /\ exchange.quote = "KRW" THEN exchange.rate ELSE Null

-----------------------------------------------------------------------------
(* Calendars.                                                              *)

Days(calendar) == <<calendar.previous, calendar.today, calendar.next>>

InDateOrder(calendar) ==
  calendar.previous.date < calendar.today.date /\ calendar.today.date < calendar.next.date

\* An interval, and an auction that starts or ends within it.
normalizeMarketSession(s) ==
  /\ s.from < s.to
  /\ s.auctionFrom # Null => s.from <= s.auctionFrom /\ s.auctionFrom < s.to
  /\ s.auctionTo # Null => s.from < s.auctionTo /\ s.auctionTo <= s.to

\* The adapter's test: sessions in whatever order do not overlap.
assertCalendarOrdering(calendar) ==
  /\ InDateOrder(calendar)
  /\ \A d \in Range(Days(calendar)) :
       /\ \A s \in Range(d.sessions) : normalizeMarketSession(s)
       /\ \A i, j \in DOMAIN d.sessions : i # j =>
            \/ d.sessions[i].to <= d.sessions[j].from
            \/ d.sessions[j].to <= d.sessions[i].from

\* The repository's: they also come in order, and auctions run forwards.
assertMarketCalendarShape(calendar) ==
  /\ InDateOrder(calendar)
  /\ \A d \in Range(Days(calendar)) : \A i \in DOMAIN d.sessions :
       LET s == d.sessions[i]
       IN  /\ s.from < s.to
           /\ i > 1 => d.sessions[i - 1].to <= s.from
           /\ \A a \in {s.auctionFrom, s.auctionTo} \ {Null} : s.from <= a /\ a <= s.to
           /\ Null \notin {s.auctionFrom, s.auctionTo} => s.auctionFrom < s.auctionTo

canonicalMarketCalendarSnapshots(calendars) ==
  \A m \in DOMAIN calendars :
    assertCalendarOrdering(calendars[m]) /\ assertMarketCalendarShape(calendars[m])

-----------------------------------------------------------------------------
(* The snapshot.                                                           *)

\* Prices for exactly what is held or targeted, calendars for its markets.
assertCompleteMarketEvidence(holdings, targeted, prices, calendars) ==
  LET expected == Range(holdings) \cup targeted
      named(S) == {[market |-> x.market, symbol |-> x.symbol, currency |-> x.currency] : x \in S}
  IN  named(prices) = named(expected) /\ DOMAIN calendars = collectMarkets(expected)

assertCollectionTimeline(observed, completed) == observed <= completed

\* From the broker's answers e to what is stored for the instruments targeted
\* and the managed cash of the pinned target; nothing if a test fails.
collectPortfolio(e, targeted, managed) ==
  LET named == Range(e.items) \cup targeted
      wanted == collectValuationInstruments(named)
      markets == collectMarkets(wanted)
      batches == readPriceBatches(wanted)
      currencies == Currencies(markets)
      rate == IF "US" \in markets THEN RateOf(e.exchange) ELSE Null
      prices == toStoredPriceSnapshots(e.quotes, wanted)
      calendars == Restrict(e.calendars, DOMAIN e.calendars \cap markets)
      holdings == [n \in DOMAIN e.items |-> normalizeHolding(e.items[n], prices, rate)]
      securities == SumFunction([n \in DOMAIN e.items |-> holdings[n].value])
  IN  IF /\ Cardinality(selectAccount(e.accounts)) = 1
         /\ Interpretable(named)
         /\ \A n \in DOMAIN batches : normalizeTossPrices(Reply(e.quotes, batches[n]), batches[n])
         /\ validateBuyingPowerCurrency(e.power, currencies)
         /\ "USD" \in currencies => rate # Null
         /\ assertCollectionTimeline(e.observed, e.completed)
         /\ \A n \in DOMAIN e.items : Valuable(e.items[n], prices, rate)
         /\ canonicalHoldingSnapshots(holdings) /\ canonicalPriceSnapshots(prices)
         /\ canonicalMarketCalendarSnapshots(calendars)
         /\ assertCompleteMarketEvidence(holdings, targeted, prices, calendars)
      THEN {[status |-> IF \A p \in prices : p.observed # "NONE" THEN "VERIFIED" ELSE "BLOCKED",
             holdings |-> Range(holdings), prices |-> prices, managed |-> managed,
             power |-> BuyingPower(e.power, currencies, rate),
             total |-> securities + managed]}
      ELSE {}

-----------------------------------------------------------------------------
(* What the planner reads from a snapshot.                                 *)

\* A holding outside the target refuses the plan.
Managed(snapshot, targeted) ==
  \A h \in snapshot.holdings : \E t \in targeted : Key(t) = Key(h)

Holding(snapshot, t) == {h \in snapshot.holdings : Key(h) = Key(t)}

\* An instrument is held once or not at all, by canonicalHoldingSnapshots.
parseWholeUnits(holdings) ==
  IF holdings = {} THEN 0 ELSE (CHOOSE h \in holdings : TRUE).quantity \div Unit

ValueIn(holdings) == IF holdings = {} THEN 0 ELSE (CHOOSE h \in holdings : TRUE).value

\* A price that is not in whole won is like none.
parseKrwMinor(price) == IF Whole(price) THEN price \div Unit ELSE Null
=============================================================================
