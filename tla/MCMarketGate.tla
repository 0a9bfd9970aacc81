---------------------------- MODULE MCMarketGate ----------------------------
(* One order of two shares at 4, a day whose upper limit may be 5 or 6, and   *)
(* sessions with and without auctions; one tick stands for ten seconds.        *)
EXTENDS MarketGate

Session(from, to, auction) == [start |-> from, end |-> to, auctionStart |-> auction]

\* Open, with the closing auction ahead; not open yet, and short; in its auction
\* from the start; and without an auction.
MCMarkets == {Session(0, 9, 4), Session(2, 5, 4), Session(0, 9, 1),
              Session(0, 9, NoTime)}

MCDailyRanges == {<<3, 5>>, <<3, 6>>, <<5, 6>>}
=============================================================================
