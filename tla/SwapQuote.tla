----------------------------- MODULE SwapQuote -----------------------------
(***************************************************************************)
(* The amounts the swap library computes                                   *)
(* (argent-x/packages/swap/src/sdk/entities/pair.ts and trade.ts).         *)
(*                                                                         *)
(* A pair is the function from its two tokens to their reserves.  Amounts  *)
(* are natural numbers; JSBI.divide rounds down.                           *)
(***************************************************************************)
EXTENDS Integers

Other(pair, token) == CHOOSE t \in DOMAIN pair : t # token

(* The formula of getOutputAmount: 0.3% of the input is the fee.           *)
OutputAmount(amountIn, reserveIn, reserveOut) ==
    (997 * amountIn * reserveOut) \div (1000 * reserveIn + 997 * amountIn)

(* Faulty: what the division leaves over is not paid.                      *)
InputAmountDown(amountOut, reserveIn, reserveOut) ==
    (1000 * reserveIn * amountOut) \div (997 * (reserveOut - amountOut))

(* The formula of getInputAmount, for less than all of the reserve.        *)
InputAmount(amountOut, reserveIn, reserveOut) ==
    (1000 * reserveIn * amountOut) \div (997 * (reserveOut - amountOut)) + 1

HasReserves(pair) == \A t \in DOMAIN pair : pair[t] # 0

(* getOutputAmount throws for empty reserves and for an output of nothing. *)
GivesOutput(pair, token, amountIn) ==
    /\ HasReserves(pair)
    /\ OutputAmount(amountIn, pair[token], pair[Other(pair, token)]) # 0

(* getInputAmount throws for empty reserves and for as much as there is.   *)
TakesInput(pair, token, amountOut) ==
    /\ HasReserves(pair)
    /\ amountOut < pair[Other(pair, token)]

(* The Pair that follows: the input is added, the output is taken out.     *)
NextPair(pair, token, amountIn, amountOut) ==
    [t \in DOMAIN pair |-> IF t = token THEN pair[t] + amountIn ELSE pair[t] - amountOut]

(* Faulty: the larger amount counts.                                       *)
LiquidityMintedMost(pair, supply, token, added) ==
    LET Share(t) == (added[t] * supply) \div pair[t]
    IN  IF Share(token) <= Share(Other(pair, token))
        THEN Share(Other(pair, token)) ELSE Share(token)

(* getLiquidityMinted, when there is liquidity: the smaller amount counts. *)
LiquidityMinted(pair, supply, token, added) ==
    LET Share(t) == (added[t] * supply) \div pair[t]
    IN  IF Share(token) <= Share(Other(pair, token))
        THEN Share(token) ELSE Share(Other(pair, token))

(* getLiquidityValue, as long as no fee is on.                             *)
LiquidityValue(pair, token, supply, liquidity) == (liquidity * pair[token]) \div supply
=============================================================================
