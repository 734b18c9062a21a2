----------------------------- MODULE SwapMarket -----------------------------
(* Markets of some pairs in any order, and what the search for the best    *)
(* trades (SwapTrade) has to find in each from one token to another.       *)
EXTENDS SwapTrade

CONSTANTS
    Listed, TokenIn, TokenOut, MaxHops,
    Reserves,        \* of pairs, for tokens in ascending order
    Amounts, Results, \* what is asked for, and how many trades
    MaxPairs         \* the market does not have more

ASSUME MarketAssumption ==
    /\ Listed \subseteq Int /\ TokenIn # TokenOut
    /\ Reserves \subseteq Nat \X Nat
    /\ Amounts \subseteq Nat \ {0} /\ Results \subseteq Nat \ {0}
    /\ MaxHops \in Nat \ {0} /\ MaxPairs \in Nat

VARIABLE market

MarketInit == market = << >>

AddPair(s, t, r) ==
    /\ Len(market) < MaxPairs
    /\ \A i \in DOMAIN market : DOMAIN market[i] # {s, t}
    /\ market' = Append(market, [u \in {s, t} |-> IF u = s THEN r[1] ELSE r[2]])

MarketNext == \E s, t \in Listed, r \in Reserves : s < t /\ AddPair(s, t, r)

MarketSpec == MarketInit /\ [][MarketNext]_market

Asks == [tokenIn : {TokenIn}, tokenOut : {TokenOut}, amount : Amounts, results : Results]

---------------------------------------------------------------------------
(* All routes: some of the pairs, each once, from the one token to the     *)
(* other; the one at which the search arrives is not among those between.  *)
Leads(pairs, arrival) ==
    \E via \in [1 .. Len(pairs) - 1 -> Listed \ {arrival}] :
        LET stop(i) == IF i = 0 THEN TokenIn ELSE IF i = Len(pairs) THEN TokenOut ELSE via[i]
        IN  \A i \in 1 .. Len(pairs) : DOMAIN pairs[i] = {stop(i - 1), stop(i)}
Routes(arrival) ==
    {pairs \in UNION {[1 .. n -> {market[i] : i \in DOMAIN market}] : n \in 1 .. MaxHops} :
        IsInjective(pairs) /\ Leads(pairs, arrival)}

(* The routes that can be traded: no reserve of theirs is empty, and each  *)
(* pair holds more than what is taken from it.                             *)
Open(arrival) == {pairs \in Routes(arrival) : \A i \in DOMAIN pairs : HasReserves(pairs[i])}
Affordable(pairs, amount) ==
    \A k \in 0 .. Len(pairs) - 1 :
        LET i == Len(pairs) - k
            after == AmountsOut(pairs, TokenOut, amount)[i]
        IN  after.amount < pairs[i][after.token]

(* "returns the top maxNumResults trades that go from an input token       *)
(* amount to an output token, making at most maxHops hops" (trade.ts:303). *)
BestIn ==
    LET routes == Open(TokenOut)
    IN  \A ask \in Asks :
            IsBest(BestTradesIn(market, ask, MaxHops),
                   {trade \in {TradeIn(pairs, TokenIn, ask.amount) : pairs \in routes} :
                       trade.output > 0},
                   ask.results)

(* "targets a fixed output amount" (trade.ts:404): the same for an amount  *)
(* out.                                                                    *)
BestOut ==
    LET routes == Open(TokenIn)
    IN  \A ask \in Asks :
            IsBest(BestTradesOut(market, ask, MaxHops),
                   {TradeOut(pairs, TokenOut, ask.amount) :
                       pairs \in {route \in routes : Affordable(route, ask.amount)}},
                   ask.results)

(* What is quoted for an exact output buys that output, along any number   *)
(* of pairs, each of which rounds.                                         *)
QuoteSuffices ==
    \A ask \in Asks :
        LET found == BestTradesOut(market, ask, MaxHops)
        IN  \A i \in DOMAIN found :
                Along(found[i].pairs, TokenIn, found[i].input).amount >= found[i].output

(* The search finds the best trades, for an amount in and for an amount    *)
(* out, and what it quotes for an exact output buys it.                    *)
FindsBest == BestIn /\ BestOut /\ QuoteSuffices
=============================================================================
