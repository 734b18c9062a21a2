----------------------------- MODULE SwapTrade -----------------------------
(***************************************************************************)
(* The search for the best trades                                          *)
(* (argent-x/packages/swap/src/sdk/entities/trade.ts).                     *)
(*                                                                         *)
(* A path is the places in the market of the pairs of a route, in the      *)
(* order in which the search has taken them.  bestTrades is one array that *)
(* all calls of the recursion insert into, so the result is that of the    *)
(* insertions in the order in which the routes are completed.              *)
(***************************************************************************)
EXTENDS SwapRoute

Pairs(market, path) == [k \in DOMAIN path |-> market[path[k]]]
Paths(market, hops) == SeqOf(DOMAIN market, hops)

(* The loop over the pairs and the recursion: a path that ends is tried,   *)
(* one that goes on is searched before the next pair's turn.               *)
Visits(market, turn, maxHops) ==
    LET n == Len(market)
        from[at \in Paths(market, maxHops - 1) \X (1 .. n + 1)] ==
            LET longer == Append(at[1], at[2])
            IN  IF at[2] > n THEN << >>
                ELSE (CASE turn[longer] = "ends" -> <<longer>>
                        [] turn[longer] = "goes on" -> from[<<longer, 1>>]
                        [] OTHER -> << >>)
                     \o from[<<at[1], at[2] + 1>>]
    IN  from[<< << >>, 1>>]

(* The trades are inserted one after the other.                            *)
Collected(trades, results) ==
    LET best[n \in 0 .. Len(trades)] ==
            IF n = 0 THEN << >> ELSE SortedInsert(best[n - 1], trades[n], results)
    IN  best[Len(trades)]

(* What becomes of a path when its last pair can be traded.                *)
Turn(market, path, token, target, maxHops) ==
    IF Other(market[Last(path)], token) = target THEN "ends"
    ELSE IF Len(path) < maxHops /\ Len(path) < Len(market) THEN "goes on" ELSE "stops"

(* Each pair is taken once.                                                *)
Taken(path) == \E k \in 1 .. Len(path) - 1 : path[k] = path[Len(path)]

(* bestTradeExactIn: from the input on, as long as there is an output.     *)
TurnsIn(market, ask, maxHops) ==
    [path \in Paths(market, maxHops) \ {<< >>} |->
        LET at == Along(Pairs(market, Front(path)), ask.tokenIn, ask.amount)
            pair == market[Last(path)]
        IN  IF Taken(path) \/ at.token \notin DOMAIN pair \/ ~ GivesOutput(pair, at.token, at.amount)
            THEN "stops" ELSE Turn(market, path, at.token, ask.tokenOut, maxHops)]

BestTradesIn(market, ask, maxHops) ==
    LET visits == Visits(market, TurnsIn(market, ask, maxHops), maxHops)
    IN  Collected([k \in 1 .. Len(visits) |->
                      TradeIn(Pairs(market, visits[k]), ask.tokenIn, ask.amount)], ask.results)

(* bestTradeExactOut: the same, from the output backwards.                 *)
TurnsOut(market, ask, maxHops) ==
    [path \in Paths(market, maxHops) \ {<< >>} |->
        LET at == Against(Pairs(market, Reverse(Front(path))), ask.tokenOut, ask.amount)
            pair == market[Last(path)]
        IN  IF \/ Taken(path) \/ at.token \notin DOMAIN pair
               \/ ~ TakesInput(pair, Other(pair, at.token), at.amount)
            THEN "stops" ELSE Turn(market, path, at.token, ask.tokenIn, maxHops)]

BestTradesOut(market, ask, maxHops) ==
    LET visits == Visits(market, TurnsOut(market, ask, maxHops), maxHops)
    IN  Collected([k \in 1 .. Len(visits) |->
                      TradeOut(Pairs(market, Reverse(visits[k])), ask.tokenOut, ask.amount)],
                  ask.results)
=============================================================================
