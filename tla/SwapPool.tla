------------------------------ MODULE SwapPool ------------------------------
(***************************************************************************)
(* A pair that is traded against again and again                           *)
(* (argent-x/packages/swap/src/sdk/entities/pair.ts): each amount that the *)
(* library quotes is exchanged, and the next is quoted against the Pair    *)
(* that getOutputAmount or getInputAmount returned.  One trader has a      *)
(* purse, the rest of the liquidity belongs to others.                     *)
(***************************************************************************)
EXTENDS SwapQuote

CONSTANTS
    TokenA, TokenB,
    Reserve,  \* the reserves at the beginning
    Others,   \* the liquidity of others
    Purse,    \* what the trader has of each token at the beginning
    MaxSteps  \* how many exchanges are looked at

Tokens == {TokenA, TokenB}

ASSUME TokensAssumption == TokenA # TokenB
ASSUME AmountsAssumption ==
    /\ Reserve \in [Tokens -> Nat \ {0}]
    /\ Purse \in [Tokens -> Nat]
    /\ Others \in Nat \ {0}
    /\ MaxSteps \in Nat

VARIABLES
    pair,   \* the reserves
    supply, \* the total supply of the liquidity token
    purse,  \* the trader's tokens
    shares, \* the trader's liquidity
    steps   \* history: exchanges so far

vars == <<pair, supply, purse, shares, steps>>

Init ==
    /\ pair = Reserve
    /\ supply = Others
    /\ purse = Purse
    /\ shares = 0
    /\ steps = 0

Step == steps < MaxSteps /\ steps' = steps + 1
Exchange(token, amountIn, amountOut) ==
    /\ pair' = NextPair(pair, token, amountIn, amountOut)
    /\ purse' = [t \in Tokens |-> IF t = token THEN purse[t] - amountIn ELSE purse[t] + amountOut]
    /\ UNCHANGED <<supply, shares>>

(* Trade.exactIn on one pair.                                              *)
SwapIn(token, amountIn) ==
    /\ Step
    /\ amountIn <= purse[token]
    /\ GivesOutput(pair, token, amountIn)
    /\ Exchange(token, amountIn, OutputAmount(amountIn, pair[token], pair[Other(pair, token)]))

(* Trade.exactOut on one pair.                                             *)
SwapOut(token, amountOut) ==
    /\ Step
    /\ TakesInput(pair, token, amountOut)
    /\ LET amountIn == InputAmount(amountOut, pair[token], pair[Other(pair, token)])
       IN  amountIn <= purse[token] /\ Exchange(token, amountIn, amountOut)

(* Liquidity is added: getLiquidityMinted throws if it gives nothing.      *)
Mint(added) ==
    /\ Step
    /\ \A t \in Tokens : added[t] <= purse[t]
    /\ LET liquidity == LiquidityMinted(pair, supply, TokenA, added)
       IN  /\ liquidity > 0
           /\ supply' = supply + liquidity
           /\ shares' = shares + liquidity
    /\ pair' = [t \in Tokens |-> pair[t] + added[t]]
    /\ purse' = [t \in Tokens |-> purse[t] - added[t]]

(* Liquidity is removed, for its value.                                    *)
Burn(liquidity) ==
    /\ Step
    /\ liquidity <= shares
    /\ supply' = supply - liquidity
    /\ shares' = shares - liquidity
    /\ pair' = [t \in Tokens |-> pair[t] - LiquidityValue(pair, t, supply, liquidity)]
    /\ purse' = [t \in Tokens |-> purse[t] + LiquidityValue(pair, t, supply, liquidity)]

Next ==
    \/ \E token \in Tokens : \E amount \in 1 .. purse[token] : SwapIn(token, amount)
    \/ \E token \in Tokens : \E amount \in 1 .. pair[Other(pair, token)] : SwapOut(token, amount)
    \/ \E a \in 1 .. purse[TokenA], b \in 1 .. purse[TokenB] :
          Mint([t \in Tokens |-> IF t = TokenA THEN a ELSE b])
    \/ \E liquidity \in 1 .. shares : Burn(liquidity)

Spec == Init /\ [][Next]_vars

---------------------------------------------------------------------------
(* Properties.                                                             *)

(* No exchange empties the pair, and nobody owes anything.                 *)
TypeOK ==
    /\ pair \in [Tokens -> Nat \ {0}]
    /\ purse \in [Tokens -> Nat]
    /\ shares \in Nat /\ steps \in 0 .. MaxSteps
    /\ supply = Others + shares

(* However an amount is rounded, the reserves behind one share of the      *)
(* liquidity never lose value: reserve * reserve / supply^2 does not fall. *)
ShareKept ==
    [][pair[TokenA] * pair[TokenB] * supply' * supply'
          <= pair'[TokenA] * pair'[TokenB] * supply * supply]_vars

(* So that no sequence of swaps, deposits and withdrawals leaves the       *)
(* trader with more than at the beginning.                                 *)
NoProfit ==
    (\A t \in Tokens : purse[t] >= Purse[t]) => purse = Purse
=============================================================================
