----------------------------- MODULE SwapRoute -----------------------------
(***************************************************************************)
(* Trades along routes, and how they are ranked                            *)
(* (argent-x/packages/swap/src/sdk/entities/trade.ts, route.ts,            *)
(* fractions/price.ts and utils.ts).                                       *)
(*                                                                         *)
(* A trade is its pairs in the order of the route, with its amounts and    *)
(* its price impact; trades are compared for one input and output token.   *)
(***************************************************************************)
EXTENDS SwapQuote, Sequences, FiniteSets, SequencesExt

(* Route and Trade, exact input: the path and the amounts along the pairs, *)
(* and the mid price as a fraction.                                        *)
AmountsIn(pairs, token, amountIn) ==
    LET at[i \in 0 .. Len(pairs)] ==
            IF i = 0
            THEN [token |-> token, amount |-> amountIn, num |-> 1, den |-> 1]
            ELSE LET pair == pairs[i]
                     in == at[i - 1].token
                     out == Other(pair, in)
                 IN  [token |-> out,
                      amount |-> OutputAmount(at[i - 1].amount, pair[in], pair[out]),
                      num |-> at[i - 1].num * pair[out], den |-> at[i - 1].den * pair[in]]
    IN  at
Along(pairs, token, amountIn) == AmountsIn(pairs, token, amountIn)[Len(pairs)]

(* Trade, exact output: the amounts against the direction of the route.    *)
AmountsOut(pairs, token, amountOut) ==
    LET at[i \in 0 .. Len(pairs)] ==
            IF i = Len(pairs)
            THEN [token |-> token, amount |-> amountOut]
            ELSE LET pair == pairs[i + 1]
                     out == at[i + 1].token
                     in == Other(pair, out)
                 IN  [token |-> in, amount |-> InputAmount(at[i + 1].amount, pair[in], pair[out])]
    IN  at
Against(pairs, token, amountOut) == AmountsOut(pairs, token, amountOut)[0]

(* computePriceImpact: 1 - output / (mid price * input), both parts of     *)
(* which are fractions of the same denominator.                            *)
Impact(route, input, output) ==
    [num |-> route.num * input - output * route.den, den |-> route.num * input]

TradeIn(pairs, tokenIn, amountIn) ==
    LET route == Along(pairs, tokenIn, amountIn)
    IN  [pairs |-> pairs, input |-> amountIn, output |-> route.amount,
         impact |-> Impact(route, amountIn, route.amount)]

TradeOut(pairs, tokenOut, amountOut) ==
    LET in == Against(pairs, tokenOut, amountOut)
    IN  [pairs |-> pairs, input |-> in.amount, output |-> amountOut,
         impact |-> Impact(Along(pairs, in.token, in.amount), in.amount, amountOut)]

Less(f, g) == f.num * g.den < g.num * f.den

(* tradeComparator(a, b) <= 0: more output, then less input, then less     *)
(* impact, then fewer hops.                                                *)
NotAfter(a, b) ==
    \/ a.output > b.output
    \/ a.output = b.output /\ a.input < b.input
    \/ a.output = b.output /\ a.input = b.input /\ Less(a.impact, b.impact)
    \/ /\ a.output = b.output /\ a.input = b.input /\ ~ Less(b.impact, a.impact)
       /\ Len(a.pairs) <= Len(b.pairs)

(* sortedInsert: the binary search for the first item after the new one;   *)
(* window is what is left to search after so many turns of the loop, and   *)
(* each turn leaves less.                                                  *)
Place(items, add) ==
    LET window[n \in 0 .. Len(items)] ==
            IF n = 0 THEN [lo |-> 0, hi |-> Len(items)]
            ELSE LET w == window[n - 1]
                     mid == (w.lo + w.hi) \div 2
                 IN  IF w.lo >= w.hi THEN w
                     ELSE IF NotAfter(items[mid + 1], add) THEN [lo |-> mid + 1, hi |-> w.hi]
                     ELSE [lo |-> w.lo, hi |-> mid]
    IN  window[Len(items)].lo

(* Faulty: the last item stays when the list is full.                      *)
SortedInsertGrowing(items, add, maxSize) ==
    InsertAt(items, Place(items, add) + 1, add)

SortedInsert(items, add, maxSize) ==
    IF Len(items) = maxSize /\ NotAfter(items[Len(items)], add) THEN items
    ELSE LET longer == InsertAt(items, Place(items, add) + 1, add)
         IN  SubSeq(longer, 1, IF Len(longer) > maxSize THEN maxSize ELSE Len(longer))

---------------------------------------------------------------------------
(* What a search has to find: the best of some trades, in their order, and *)
(* as many as were asked for.                                              *)
IsBest(found, trades, results) ==
    LET Found == {found[i] : i \in DOMAIN found}
    IN  /\ Found \subseteq trades
        /\ \A i, j \in DOMAIN found : i < j => found[i] # found[j] /\ NotAfter(found[i], found[j])
        /\ Len(found) = IF Cardinality(trades) < results THEN Cardinality(trades) ELSE results
        /\ \A trade \in trades \ Found : \A i \in DOMAIN found : NotAfter(found[i], trade)
=============================================================================
