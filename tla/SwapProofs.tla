----------------------------- MODULE SwapProofs -----------------------------
(***************************************************************************)
(* Whatever the reserves, the purse and the number of exchanges, no step   *)
(* of SwapPool takes value from the reserves behind a share, and the       *)
(* trader never profits; whatever the currencies, the form of the screen   *)
(* shows no amount of one currency as an amount of another; whatever the   *)
(* market, the search finds the best trades.                               *)
(*                                                                         *)
(* Each quote is a division that rounds down; multiplied out it bounds     *)
(* what one exchange does to the reserves and to the supply, and what a    *)
(* quoted input buys.  The search is a recursion over paths: it visits     *)
(* each path that can be completed once (Lists), these are the routes that *)
(* can be traded, and each insertion keeps the best of what was inserted.  *)
(***************************************************************************)
EXTENDS SwapScreen, FiniteSetTheorems, NaturalsInduction, WellFoundedInduction, TLAPS

(* What JSBI.divide gives.                                                 *)
LEMMA Division ==
    ASSUME NEW a \in Nat, NEW b \in Nat \ {0}
    PROVE  a \div b \in Nat /\ (a \div b) * b <= a /\ a < (a \div b) * b + b
OBVIOUS

(* The product of the reserves does not fall when the output is rounded.   *)
LEMMA OutputBound ==
    ASSUME NEW amountIn \in Nat \ {0}, NEW reserveIn \in Nat \ {0}, NEW reserveOut \in Nat \ {0},
           NEW out, out = OutputAmount(amountIn, reserveIn, reserveOut)
    PROVE  /\ out \in Nat /\ out < reserveOut
           /\ reserveIn * reserveOut <= (reserveIn + amountIn) * (reserveOut - out)
<1> DEFINE num == 997 * amountIn * reserveOut
           den == 1000 * reserveIn + 997 * amountIn
<1>1. den \in Nat \ {0} /\ num \in Nat /\ out = num \div den
  BY DEF OutputAmount
<1>2. out \in Nat /\ out * den <= num
  <2> HIDE DEF num, den
  <2> QED BY <1>1, Division
<1>3. out < reserveOut
  BY <1>2
<1>4. out * (reserveIn + amountIn) <= amountIn * reserveOut
  BY <1>2
<1>5. QED
  BY <1>2, <1>3, <1>4

(* Nor when the input is rounded.                                          *)
LEMMA InputBound ==
    ASSUME NEW amountOut \in Nat \ {0}, NEW reserveIn \in Nat \ {0}, NEW reserveOut \in Nat \ {0},
           amountOut < reserveOut,
           NEW in, in = InputAmount(amountOut, reserveIn, reserveOut)
    PROVE  /\ in \in Nat \ {0}
           /\ reserveIn * reserveOut <= (reserveIn + in) * (reserveOut - amountOut)
<1> DEFINE num == 1000 * reserveIn * amountOut
           den == 997 * (reserveOut - amountOut)
<1>1. den \in Nat \ {0} /\ num \in Nat /\ in = num \div den + 1
  BY DEF InputAmount
<1>2. in \in Nat \ {0} /\ num < in * den
  <2> HIDE DEF num, den
  <2>1. num \div den \in Nat /\ num < (num \div den) * den + den
    BY <1>1, Division
  <2>2. (num \div den) * den + den = in * den
    BY <1>1, <2>1
  <2> QED BY <1>1, <2>1, <2>2
<1>3. reserveIn * amountOut <= in * (reserveOut - amountOut)
  BY <1>2
<1>4. QED
  BY <1>2, <1>3

(* A share of what is added: the reserve grows at least as fast as supply. *)
LEMMA ShareBound ==
    ASSUME NEW added \in Nat, NEW supply0 \in Nat \ {0}, NEW reserve \in Nat \ {0},
           NEW liquidity \in Nat, liquidity <= (added * supply0) \div reserve
    PROVE  reserve * (supply0 + liquidity) <= (reserve + added) * supply0
<1>1. added * supply0 \in Nat
  OBVIOUS
<1>2. /\ (added * supply0) \div reserve \in Nat
      /\ ((added * supply0) \div reserve) * reserve <= added * supply0
  BY <1>1, Division
<1>3. liquidity * reserve <= added * supply0
  BY <1>2
<1>4. QED
  BY <1>3

(* What is withdrawn: the reserve falls no faster than the supply.         *)
LEMMA ValueBound ==
    ASSUME NEW reserve \in Nat \ {0}, NEW supply0 \in Nat \ {0},
           NEW liquidity \in Nat, liquidity < supply0,
           NEW value, value = (liquidity * reserve) \div supply0
    PROVE  /\ value \in Nat /\ value < reserve
           /\ reserve * (supply0 - liquidity) <= (reserve - value) * supply0
<1>1. liquidity * reserve \in Nat
  OBVIOUS
<1>2. value \in Nat /\ value * supply0 <= liquidity * reserve
  BY <1>1, Division
<1>3. value < reserve
  BY <1>2
<1>4. QED
  BY <1>2, <1>3

(* Two inequalities of naturals, multiplied.                               *)
LEMMA Products ==
    ASSUME NEW a \in Nat, NEW b \in Nat, NEW c \in Nat, NEW d \in Nat, a <= b, c <= d
    PROVE  a * c <= b * d
<1>1. a * c <= b * c /\ b * c <= b * d
  OBVIOUS
<1>2. QED
  BY <1>1

(***************************************************************************)
(* One exchange.                                                           *)
(***************************************************************************)
LEMMA OtherToken ==
    ASSUME NEW f, DOMAIN f = Tokens
    PROVE  Other(f, TokenA) = TokenB /\ Other(f, TokenB) = TokenA
BY TokensAssumption DEF Other, Tokens

Kept == pair[TokenA] * pair[TokenB] * supply' * supply'
           <= pair'[TokenA] * pair'[TokenB] * supply * supply

LEMMA Supplied ==
    ASSUME NEW n \in Nat, NEW m, m = Others + n
    PROVE  m \in Nat \ {0}
BY AmountsAssumption

LEMMA SupplyType ==
    ASSUME TypeOK, TypeOK'
    PROVE  supply \in Nat \ {0} /\ supply' \in Nat \ {0}
<1>1. shares \in Nat /\ supply = Others + shares
  BY DEF TypeOK
<1>2. shares' \in Nat /\ supply' = Others + shares'
  BY DEF TypeOK
<1>3. QED
  BY <1>1, <1>2, Supplied

(* Where each reserve keeps its value, so does the pair.                   *)
LEMMA EachKept ==
    ASSUME TypeOK, TypeOK',
           \A t \in Tokens : pair[t] * supply' <= pair'[t] * supply
    PROVE  Kept
<1> DEFINE a == pair[TokenA] * supply'   b == pair'[TokenA] * supply
           c == pair[TokenB] * supply'   d == pair'[TokenB] * supply
<1>1. supply \in Nat /\ supply' \in Nat
  BY SupplyType
<1>2. /\ pair[TokenA] \in Nat /\ pair[TokenB] \in Nat
      /\ pair'[TokenA] \in Nat /\ pair'[TokenB] \in Nat
  BY DEF TypeOK, Tokens
<1>3. a \in Nat /\ b \in Nat /\ c \in Nat /\ d \in Nat
  BY <1>1, <1>2
<1>4. a <= b /\ c <= d
  BY DEF Tokens
<1>5. a * c <= b * d
  <2> HIDE DEF a, b, c, d
  <2> QED BY <1>3, <1>4, Products
<1>6. /\ a * c = pair[TokenA] * pair[TokenB] * supply' * supply'
      /\ b * d = pair'[TokenA] * pair'[TokenB] * supply * supply
  BY <1>1, <1>2
<1>7. QED
  BY <1>5, <1>6 DEF Kept

(* Where the supply stays, the product of the reserves has to.             *)
LEMMA ProductKept ==
    ASSUME TypeOK, TypeOK', supply' = supply,
           pair[TokenA] * pair[TokenB] <= pair'[TokenA] * pair'[TokenB]
    PROVE  Kept
<1> DEFINE x == pair[TokenA] * pair[TokenB]   y == pair'[TokenA] * pair'[TokenB]
<1>1. supply \in Nat /\ x \in Nat /\ y \in Nat /\ x <= y
  BY AmountsAssumption DEF TypeOK, Tokens
<1>2. x * supply * supply <= y * supply * supply
  <2> HIDE DEF x, y
  <2>1. x * supply <= y * supply /\ x * supply \in Nat /\ y * supply \in Nat
    BY <1>1
  <2> QED BY <1>1, <2>1, Products
<1>3. QED
  BY <1>2 DEF Kept

(* One swap, whoever names the amount.                                     *)
LEMMA ExchangeKeeps ==
    ASSUME TypeOK, NEW token \in Tokens, NEW amountIn \in Nat, NEW amountOut \in Nat,
           Exchange(token, amountIn, amountOut), steps' \in 0 .. MaxSteps,
           amountIn <= purse[token], amountOut < pair[Other(pair, token)],
           pair[token] * pair[Other(pair, token)]
              <= (pair[token] + amountIn) * (pair[Other(pair, token)] - amountOut)
    PROVE  TypeOK' /\ Kept
<1>1. DOMAIN pair = Tokens
  BY DEF TypeOK
<1>2. /\ pair' = [t \in Tokens |-> IF t = token THEN pair[t] + amountIn ELSE pair[t] - amountOut]
      /\ purse' = [t \in Tokens |-> IF t = token THEN purse[t] - amountIn ELSE purse[t] + amountOut]
      /\ shares' = shares /\ supply' = supply
  BY <1>1 DEF Exchange, NextPair
<1>3. \A t \in Tokens : pair[t] \in Nat \ {0} /\ purse[t] \in Nat
  BY DEF TypeOK
<1>4. \A t \in Tokens : t = token \/ t = Other(pair, token)
  BY <1>1, OtherToken DEF Tokens
<1>5. TypeOK'
  <2>1. pair' \in [Tokens -> Nat \ {0}]
    BY <1>2, <1>3, <1>4
  <2>2. purse' \in [Tokens -> Nat]
    BY <1>2, <1>3
  <2>3. QED
    BY <1>2, <2>1, <2>2 DEF TypeOK
<1>6. pair[TokenA] * pair[TokenB] <= pair'[TokenA] * pair'[TokenB]
  <2>1. CASE token = TokenA
    BY <1>1, <1>2, <1>3, <2>1, OtherToken, TokensAssumption DEF Tokens
  <2>2. CASE token = TokenB
    <3>1. Other(pair, token) = TokenA
      BY <1>1, <2>2, OtherToken
    <3>2. pair'[TokenA] = pair[TokenA] - amountOut /\ pair'[TokenB] = pair[TokenB] + amountIn
      BY <1>2, <2>2, TokensAssumption DEF Tokens
    <3>3. pair[TokenA] \in Nat /\ pair[TokenB] \in Nat
      BY <1>3 DEF Tokens
    <3>4. QED
      BY <2>2, <3>1, <3>2, <3>3
  <2>3. QED
    BY <2>1, <2>2 DEF Tokens
<1>7. QED
  BY <1>2, <1>5, <1>6, ProductKept

LEMMA SwapInKeeps ==
    ASSUME TypeOK, NEW token \in Tokens, NEW amount \in 1 .. purse[token], SwapIn(token, amount)
    PROVE  TypeOK' /\ Kept
<1> DEFINE other == Other(pair, token)
           out == OutputAmount(amount, pair[token], pair[other])
<1>1. DOMAIN pair = Tokens /\ \A t \in Tokens : pair[t] \in Nat \ {0} /\ purse[t] \in Nat
  BY DEF TypeOK
<1>2. other \in Tokens
  BY <1>1, OtherToken DEF Tokens
<1>3. amount \in Nat \ {0} /\ amount <= purse[token] /\ Exchange(token, amount, out)
  BY <1>1 DEF SwapIn
<1>4. steps' \in 0 .. MaxSteps
  BY AmountsAssumption DEF SwapIn, Step, TypeOK
<1>5. /\ out \in Nat /\ out < pair[other]
      /\ pair[token] * pair[other] <= (pair[token] + amount) * (pair[other] - out)
  <2> HIDE DEF other
  <2> QED BY <1>1, <1>2, <1>3, OutputBound
<1>6. QED
  BY <1>3, <1>4, <1>5, ExchangeKeeps

LEMMA SwapOutKeeps ==
    ASSUME TypeOK, NEW token \in Tokens, NEW amount \in 1 .. pair[Other(pair, token)],
           SwapOut(token, amount)
    PROVE  TypeOK' /\ Kept
<1> DEFINE other == Other(pair, token)
           paid == InputAmount(amount, pair[token], pair[other])
<1>1. DOMAIN pair = Tokens /\ \A t \in Tokens : pair[t] \in Nat \ {0} /\ purse[t] \in Nat
  BY DEF TypeOK
<1>2. other \in Tokens
  BY <1>1, OtherToken DEF Tokens
<1>3. /\ amount \in Nat \ {0} /\ amount < pair[other]
      /\ paid <= purse[token] /\ Exchange(token, paid, amount)
  BY <1>1, <1>2 DEF SwapOut, TakesInput
<1>4. steps' \in 0 .. MaxSteps
  BY AmountsAssumption DEF SwapOut, Step, TypeOK
<1>5. /\ paid \in Nat
      /\ pair[token] * pair[other] <= (pair[token] + paid) * (pair[other] - amount)
  <2> HIDE DEF other
  <2> QED BY <1>1, <1>2, <1>3, InputBound
<1>6. QED
  BY <1>3, <1>4, <1>5, ExchangeKeeps

(* A deposit: each token's reserve grows at least as fast as the supply.   *)
LEMMA MintKeeps ==
    ASSUME TypeOK, NEW added \in [Tokens -> Nat \ {0}], Mint(added)
    PROVE  TypeOK' /\ Kept
<1> DEFINE Share(t) == (added[t] * supply) \div pair[t]
           liquidity == LiquidityMinted(pair, supply, TokenA, added)
<1>1. /\ DOMAIN pair = Tokens /\ supply \in Nat \ {0} /\ shares \in Nat
      /\ \A t \in Tokens : pair[t] \in Nat \ {0} /\ purse[t] \in Nat /\ added[t] \in Nat \ {0}
  BY AmountsAssumption DEF TypeOK
<1>2. /\ supply' = supply + liquidity /\ shares' = shares + liquidity
      /\ pair' = [t \in Tokens |-> pair[t] + added[t]]
      /\ purse' = [t \in Tokens |-> purse[t] - added[t]]
      /\ \A t \in Tokens : added[t] <= purse[t]
  BY DEF Mint
<1>3. \A t \in Tokens : Share(t) \in Nat
  <2> SUFFICES ASSUME NEW t \in Tokens PROVE Share(t) \in Nat
    OBVIOUS
  <2>1. added[t] * supply \in Nat /\ pair[t] \in Nat \ {0}
    BY <1>1
  <2>2. QED
    BY <2>1, Division
<1>4. liquidity \in Nat /\ \A t \in Tokens : liquidity <= Share(t)
  <2>1. liquidity = IF Share(TokenA) <= Share(TokenB) THEN Share(TokenA) ELSE Share(TokenB)
    BY <1>1, OtherToken DEF LiquidityMinted
  <2>2. Share(TokenA) \in Nat /\ Share(TokenB) \in Nat
    BY <1>3 DEF Tokens
  <2> HIDE DEF Share, liquidity
  <2>3. QED
    BY <2>1, <2>2 DEF Tokens
<1>5. TypeOK'
  <2>1. pair' \in [Tokens -> Nat \ {0}] /\ purse' \in [Tokens -> Nat]
    BY <1>1, <1>2
  <2>2. shares' \in Nat /\ supply' = Others + shares'
    <3> HIDE DEF liquidity
    <3> QED BY <1>1, <1>2, <1>4, AmountsAssumption DEF TypeOK
  <2>3. steps' \in 0 .. MaxSteps
    BY AmountsAssumption DEF Mint, Step, TypeOK
  <2>4. QED
    BY <2>1, <2>2, <2>3 DEF TypeOK
<1>6. \A t \in Tokens : pair[t] * supply' <= pair'[t] * supply
  <2> SUFFICES ASSUME NEW t \in Tokens PROVE pair[t] * supply' <= pair'[t] * supply
    OBVIOUS
  <2>1. pair[t] * (supply + liquidity) <= (pair[t] + added[t]) * supply
    <3>1. liquidity \in Nat /\ liquidity <= (added[t] * supply) \div pair[t]
      BY <1>4
    <3> HIDE DEF liquidity
    <3>2. pair[t] \in Nat \ {0} /\ added[t] \in Nat
      BY <1>1
    <3>3. QED
      BY <1>1, <3>1, <3>2, ShareBound
  <2>2. QED
    BY <1>2, <2>1
<1>7. QED
  BY <1>5, <1>6, EachKept

(* A withdrawal: each token's reserve falls no faster than the supply.     *)
LEMMA BurnKeeps ==
    ASSUME TypeOK, NEW liquidity \in 1 .. shares, Burn(liquidity)
    PROVE  TypeOK' /\ Kept
<1> DEFINE Value(t) == LiquidityValue(pair, t, supply, liquidity)
<1>1. /\ supply \in Nat \ {0} /\ shares \in Nat /\ liquidity \in Nat /\ liquidity < supply
      /\ \A t \in Tokens : pair[t] \in Nat \ {0} /\ purse[t] \in Nat
  BY AmountsAssumption DEF TypeOK
<1>2. /\ supply' = supply - liquidity /\ shares' = shares - liquidity
      /\ pair' = [t \in Tokens |-> pair[t] - Value(t)]
      /\ purse' = [t \in Tokens |-> purse[t] + Value(t)]
  BY DEF Burn
<1>3. \A t \in Tokens : /\ Value(t) \in Nat /\ Value(t) < pair[t]
                        /\ pair[t] * (supply - liquidity) <= (pair[t] - Value(t)) * supply
  BY <1>1, ValueBound DEF LiquidityValue
<1> HIDE DEF Value
<1>4. TypeOK'
  <2>1. pair' \in [Tokens -> Nat \ {0}] /\ purse' \in [Tokens -> Nat]
    BY <1>1, <1>2, <1>3
  <2>2. shares' \in Nat /\ supply' = Others + shares'
    BY <1>1, <1>2, AmountsAssumption DEF TypeOK
  <2>3. steps' \in 0 .. MaxSteps
    BY AmountsAssumption DEF Burn, Step, TypeOK
  <2>4. QED
    BY <2>1, <2>2, <2>3 DEF TypeOK
<1>5. \A t \in Tokens : pair[t] * supply' <= pair'[t] * supply
  BY <1>2, <1>3
<1>6. QED
  BY <1>4, <1>5, EachKept

LEMMA NextKeeps ==
    ASSUME TypeOK, Next
    PROVE  TypeOK' /\ Kept
<1>1. ASSUME NEW token \in Tokens, NEW amount \in 1 .. purse[token], SwapIn(token, amount)
      PROVE  TypeOK' /\ Kept
  BY <1>1, SwapInKeeps
<1>2. ASSUME NEW token \in Tokens, NEW amount \in 1 .. pair[Other(pair, token)],
             SwapOut(token, amount)
      PROVE  TypeOK' /\ Kept
  BY <1>2, SwapOutKeeps
<1>3. ASSUME NEW a \in 1 .. purse[TokenA], NEW b \in 1 .. purse[TokenB],
             Mint([t \in Tokens |-> IF t = TokenA THEN a ELSE b])
      PROVE  TypeOK' /\ Kept
  <2>1. a \in Nat \ {0} /\ b \in Nat \ {0}
    BY DEF TypeOK, Tokens
  <2>2. [t \in Tokens |-> IF t = TokenA THEN a ELSE b] \in [Tokens -> Nat \ {0}]
    BY <2>1
  <2>3. QED
    BY <1>3, <2>2, MintKeeps
<1>4. ASSUME NEW liquidity \in 1 .. shares, Burn(liquidity)
      PROVE  TypeOK' /\ Kept
  BY <1>4, BurnKeeps
<1>5. QED
  BY <1>1, <1>2, <1>3, <1>4 DEF Next

(* Nothing changes: nothing is lost.                                       *)
LEMMA StutterKeeps ==
    ASSUME TypeOK, UNCHANGED vars
    PROVE  TypeOK' /\ Kept
<1>1. /\ pair' = pair /\ supply' = supply /\ purse' = purse
      /\ shares' = shares /\ steps' = steps
  BY DEF vars
<1>2. TypeOK'
  BY <1>1 DEF TypeOK
<1>3. pair[TokenA] * pair[TokenB] <= pair'[TokenA] * pair'[TokenB]
  BY <1>1 DEF TypeOK, Tokens
<1>4. QED
  BY <1>1, <1>2, <1>3, ProductKept

(***************************************************************************)
(* Theorems.                                                               *)
(***************************************************************************)

(* TypeOK: no exchange that getOutputAmount, getInputAmount or             *)
(* getLiquidityValue quotes empties a reserve, and none takes more than    *)
(* the trader has.                                                         *)
THEOREM TypeCorrect == Spec => []TypeOK
<1>1. Init => TypeOK
  BY AmountsAssumption DEF Init, TypeOK
<1>2. TypeOK /\ [Next]_vars => TypeOK'
  BY NextKeeps, StutterKeeps
<1>3. QED
  BY <1>1, <1>2, PTL DEF Spec

(* ShareKept: the rounding of the quotes never takes value from the        *)
(* reserves behind a share of the liquidity.                               *)
THEOREM SharesKept == Spec => ShareKept
<1>1. TypeOK /\ [Next]_vars => [Kept]_vars
  BY NextKeeps
<1>2. QED
  BY <1>1, TypeCorrect, PTL DEF Spec, ShareKept, Kept

(***************************************************************************)
(* What the trader can end with.  Two invariants decide: the exchanges     *)
(* make and destroy no tokens, and, with others' liquidity, the product of *)
(* the reserves never falls behind the supply.                             *)
(***************************************************************************)

(* What leaves the purse is in the pair, and the other way round.          *)
Conserved == \A t \in Tokens : pair[t] + purse[t] = Reserve[t] + Purse[t]

(* ShareKept, from the beginning to now.                                   *)
Backed ==
    Reserve[TokenA] * Reserve[TokenB] * supply * supply
       <= pair[TokenA] * pair[TokenB] * Others * Others

ProfitInv == TypeOK /\ Conserved /\ Backed

(* Ratios of naturals, multiplied out, are transitive.                     *)
LEMMA Ratios ==
    ASSUME NEW p \in Nat, NEW a \in Nat \ {0}, NEW q \in Nat, NEW b \in Nat \ {0},
           NEW r \in Nat, NEW c \in Nat \ {0}, p * b <= q * a, q * c <= r * b
    PROVE  p * c <= r * a
<1>1. (p * b) * c <= (q * a) * c
  <2>1. p * b \in Nat /\ q * a \in Nat /\ c \in Nat /\ c <= c
    OBVIOUS
  <2> QED BY <2>1, Products
<1>2. (q * c) * a <= (r * b) * a
  <2>1. q * c \in Nat /\ r * b \in Nat /\ a \in Nat /\ a <= a
    OBVIOUS
  <2> QED BY <2>1, Products
<1>3. (p * c) * b <= (r * a) * b
  BY <1>1, <1>2
<1>4. p * c \in Nat /\ r * a \in Nat
  OBVIOUS
<1>5. ASSUME NEW x \in Nat, NEW y \in Nat, x * b <= y * b
      PROVE  x <= y
  BY <1>5
<1> QED BY <1>3, <1>4, <1>5

LEMMA BackedStays ==
    ASSUME TypeOK, TypeOK', Kept, Backed
    PROVE  Backed'
<1> DEFINE p == Reserve[TokenA] * Reserve[TokenB]
           q == pair[TokenA] * pair[TokenB]
           r == pair'[TokenA] * pair'[TokenB]
           a == Others * Others   b == supply * supply   c == supply' * supply'
<1>1. supply \in Nat \ {0} /\ supply' \in Nat \ {0} /\ Others \in Nat \ {0}
  BY SupplyType, AmountsAssumption
<1>2. /\ pair[TokenA] \in Nat /\ pair[TokenB] \in Nat
      /\ pair'[TokenA] \in Nat /\ pair'[TokenB] \in Nat
      /\ Reserve[TokenA] \in Nat /\ Reserve[TokenB] \in Nat
  BY AmountsAssumption DEF TypeOK, Tokens
<1>3. p \in Nat /\ q \in Nat /\ r \in Nat /\ a \in Nat \ {0} /\ b \in Nat \ {0} /\ c \in Nat \ {0}
  <2>1. p \in Nat /\ q \in Nat /\ r \in Nat
    BY <1>2
  <2>2. \A n \in Nat \ {0} : n * n \in Nat \ {0}
    OBVIOUS
  <2> QED BY <1>1, <2>1, <2>2
<1>4. p * b <= q * a
  <2>1. p * b = Reserve[TokenA] * Reserve[TokenB] * supply * supply
        /\ q * a = pair[TokenA] * pair[TokenB] * Others * Others
    BY <1>1, <1>2
  <2> QED BY <2>1 DEF Backed
<1>5. q * c <= r * b
  <2>1. q * c = pair[TokenA] * pair[TokenB] * supply' * supply'
        /\ r * b = pair'[TokenA] * pair'[TokenB] * supply * supply
    BY <1>1, <1>2
  <2> QED BY <2>1 DEF Kept
<1>6. p * c <= r * a
  <2> HIDE DEF p, q, r, a, b, c
  <2> QED BY <1>3, <1>4, <1>5, Ratios
<1>7. p * c = Reserve[TokenA] * Reserve[TokenB] * supply' * supply'
      /\ r * a = pair'[TokenA] * pair'[TokenB] * Others * Others
  BY <1>1, <1>2
<1> QED BY <1>6, <1>7 DEF Backed

LEMMA ExchangeConserves ==
    ASSUME TypeOK, NEW token \in Tokens, NEW amountIn \in Nat, NEW amountOut \in Nat,
           Exchange(token, amountIn, amountOut), Conserved
    PROVE  Conserved'
<1>1. DOMAIN pair = Tokens /\ \A t \in Tokens : pair[t] \in Nat /\ purse[t] \in Nat
  BY DEF TypeOK
<1>2. /\ pair' = [t \in Tokens |-> IF t = token THEN pair[t] + amountIn ELSE pair[t] - amountOut]
      /\ purse' = [t \in Tokens |-> IF t = token THEN purse[t] - amountIn ELSE purse[t] + amountOut]
  BY <1>1 DEF Exchange, NextPair
<1>3. \A t \in Tokens : pair'[t] + purse'[t] = pair[t] + purse[t]
  BY <1>1, <1>2
<1> QED BY <1>3 DEF Conserved

LEMMA NextConserves ==
    ASSUME TypeOK, [Next]_vars, Conserved
    PROVE  Conserved'
<1>0. /\ DOMAIN pair = Tokens /\ supply \in Nat \ {0}
      /\ \A t \in Tokens : pair[t] \in Nat \ {0} /\ purse[t] \in Nat
  BY AmountsAssumption DEF TypeOK
<1>1. ASSUME NEW token \in Tokens, NEW amount \in 1 .. purse[token], SwapIn(token, amount)
      PROVE  Conserved'
  <2> DEFINE other == Other(pair, token)
             out == OutputAmount(amount, pair[token], pair[other])
  <2>1. other \in Tokens /\ amount \in Nat \ {0} /\ Exchange(token, amount, out)
    BY <1>0, <1>1, OtherToken DEF SwapIn, Tokens
  <2>2. out \in Nat
    <3> HIDE DEF other
    <3> QED BY <1>0, <2>1, OutputBound
  <2> QED BY <2>1, <2>2, ExchangeConserves
<1>2. ASSUME NEW token \in Tokens, NEW amount \in 1 .. pair[Other(pair, token)],
             SwapOut(token, amount)
      PROVE  Conserved'
  <2> DEFINE other == Other(pair, token)
             paid == InputAmount(amount, pair[token], pair[other])
  <2>1. other \in Tokens
    BY <1>0, OtherToken DEF Tokens
  <2>2. amount \in Nat \ {0} /\ amount < pair[other] /\ Exchange(token, paid, amount)
    BY <1>0, <1>2, <2>1 DEF SwapOut, TakesInput
  <2>3. paid \in Nat
    <3> HIDE DEF other
    <3> QED BY <1>0, <2>1, <2>2, InputBound
  <2> QED BY <2>2, <2>3, ExchangeConserves
<1>3. ASSUME NEW a \in 1 .. purse[TokenA], NEW b \in 1 .. purse[TokenB],
             Mint([t \in Tokens |-> IF t = TokenA THEN a ELSE b])
      PROVE  Conserved'
  <2> DEFINE added == [t \in Tokens |-> IF t = TokenA THEN a ELSE b]
  <2>1. \A t \in Tokens : added[t] \in Nat
    BY <1>0 DEF Tokens
  <2>2. pair' = [t \in Tokens |-> pair[t] + added[t]]
        /\ purse' = [t \in Tokens |-> purse[t] - added[t]]
    BY <1>3 DEF Mint
  <2> HIDE DEF added
  <2>3. \A t \in Tokens : pair'[t] + purse'[t] = pair[t] + purse[t]
    BY <1>0, <2>1, <2>2
  <2> QED BY <2>3 DEF Conserved
<1>4. ASSUME NEW liquidity \in 1 .. shares, Burn(liquidity)
      PROVE  Conserved'
  <2> DEFINE Value(t) == LiquidityValue(pair, t, supply, liquidity)
  <2>1. liquidity \in Nat /\ liquidity < supply
    BY AmountsAssumption DEF TypeOK
  <2>2. \A t \in Tokens : Value(t) \in Nat
    BY <1>0, <2>1, ValueBound DEF LiquidityValue
  <2>3. pair' = [t \in Tokens |-> pair[t] - Value(t)]
        /\ purse' = [t \in Tokens |-> purse[t] + Value(t)]
    BY <1>4 DEF Burn
  <2> HIDE DEF Value
  <2>4. \A t \in Tokens : pair'[t] + purse'[t] = pair[t] + purse[t]
    BY <1>0, <2>2, <2>3
  <2> QED BY <2>4 DEF Conserved
<1>5. CASE UNCHANGED vars
  BY <1>5 DEF vars, Conserved
<1> QED BY <1>1, <1>2, <1>3, <1>4, <1>5 DEF Next

LEMMA InitProfit == Init => ProfitInv
<1> SUFFICES ASSUME Init PROVE ProfitInv
  OBVIOUS
<1>1. TypeOK
  BY AmountsAssumption DEF Init, TypeOK
<1>2. Conserved
  BY DEF Init, Conserved
<1>3. Backed
  <2>1. Reserve[TokenA] \in Nat /\ Reserve[TokenB] \in Nat /\ Others \in Nat
    BY AmountsAssumption DEF Tokens
  <2> QED BY <2>1 DEF Init, Backed
<1> QED BY <1>1, <1>2, <1>3 DEF ProfitInv

LEMMA NextProfit == ProfitInv /\ [Next]_vars => ProfitInv'
<1> SUFFICES ASSUME ProfitInv, [Next]_vars PROVE ProfitInv'
  OBVIOUS
<1>1. TypeOK' /\ Kept
  BY NextKeeps, StutterKeeps DEF ProfitInv
<1>2. Conserved'
  BY NextConserves DEF ProfitInv
<1>3. Backed'
  BY <1>1, BackedStays DEF ProfitInv
<1> QED BY <1>1, <1>2, <1>3 DEF ProfitInv

(* A product that is not larger, of factors none of which is larger.       *)
LEMMA SmallerFactor ==
    ASSUME NEW a \in Nat, NEW b \in Nat, NEW c \in Nat \ {0}, NEW d \in Nat \ {0},
           a <= c, b <= d, c * d <= a * b
    PROVE  a = c /\ b = d
<1>1. a * b <= c * b
  <2>1. b <= b
    OBVIOUS
  <2> QED BY <2>1, Products
<1>2. c * b <= c * d
  <2>1. c <= c /\ c \in Nat /\ d \in Nat
    OBVIOUS
  <2> QED BY <2>1, Products
<1>3. a * b \in Nat /\ c * b \in Nat /\ c * d \in Nat
  OBVIOUS
<1>4. c * b = c * d /\ a * b = c * b
  BY <1>1, <1>2, <1>3
<1>5. b = d
  BY <1>4
<1>6. a = c
  BY <1>4, <1>5
<1> QED BY <1>5, <1>6

LEMMA ProfitInvSuffices == ProfitInv => NoProfit
<1> SUFFICES ASSUME ProfitInv, \A t \in Tokens : purse[t] >= Purse[t] PROVE purse = Purse
  BY DEF NoProfit
<1> DEFINE p == Reserve[TokenA] * Reserve[TokenB]
           q == pair[TokenA] * pair[TokenB]
           a == Others * Others   b == supply * supply
<1>1. /\ supply \in Nat \ {0} /\ Others \in Nat \ {0} /\ Others <= supply
      /\ \A t \in Tokens : /\ pair[t] \in Nat \ {0} /\ Reserve[t] \in Nat \ {0}
                           /\ purse[t] \in Nat /\ Purse[t] \in Nat
  BY AmountsAssumption DEF ProfitInv, TypeOK
<1>2. \A t \in Tokens : pair[t] <= Reserve[t]
  BY <1>1 DEF ProfitInv, Conserved
<1>3. p \in Nat \ {0} /\ q \in Nat \ {0} /\ a \in Nat \ {0} /\ b \in Nat \ {0}
  BY <1>1 DEF Tokens
<1>4. p * b <= q * a
  <2>1. p * b = Reserve[TokenA] * Reserve[TokenB] * supply * supply
        /\ q * a = pair[TokenA] * pair[TokenB] * Others * Others
    BY <1>1 DEF Tokens
  <2> QED BY <2>1 DEF ProfitInv, Backed
<1>5. a <= b
  BY <1>1, Products
<1>6. p <= q
  <2> HIDE DEF p, q, a, b
  <2>1. p * a <= p * b
    <3>1. p <= p /\ p \in Nat /\ a \in Nat /\ b \in Nat
      BY <1>3
    <3> QED BY <1>5, <3>1, Products
  <2>2. p * a <= q * a
    BY <1>3, <1>4, <2>1
  <2>3. ASSUME NEW x \in Nat, NEW y \in Nat, NEW z \in Nat \ {0}, x * z <= y * z
        PROVE  x <= y
    BY <2>3
  <2> QED BY <1>3, <2>2, <2>3
<1>7. pair[TokenA] = Reserve[TokenA] /\ pair[TokenB] = Reserve[TokenB]
  BY <1>1, <1>2, <1>6, SmallerFactor DEF Tokens
<1>8. \A t \in Tokens : purse[t] = Purse[t]
  BY <1>1, <1>7 DEF ProfitInv, Conserved, Tokens
<1>9. purse \in [Tokens -> Nat] /\ Purse \in [Tokens -> Nat]
  BY AmountsAssumption DEF ProfitInv, TypeOK
<1> QED BY <1>8, <1>9

(* NoProfit: whatever the reserves and however often the trader swaps,     *)
(* deposits and withdraws at the amounts that the library quotes, the      *)
(* trader never has more of one token without having less of the other.    *)
THEOREM NobodyProfits == Spec => []NoProfit
<1>1. Spec => []ProfitInv
  BY InitProfit, NextProfit, PTL DEF Spec
<1> QED BY <1>1, ProfitInvSuffices, PTL

(***************************************************************************)
(* The form above the pair.  To keep an independent field that is typed in *)
(* the right currency, the fields must not share one: selecting the other  *)
(* field's currency would exchange them, and the value with them.          *)
(***************************************************************************)
FormInv ==
    /\ independentField \in Form!Fields
    /\ currencyId \in [Form!Fields -> Currencies]
    /\ replaced \in BOOLEAN
    /\ FormKeepsValue

LEMMA FieldsAre ==
    /\ Form!Fields = {"INPUT", "OUTPUT"}
    /\ Form!OtherField("INPUT") = "OUTPUT" /\ Form!OtherField("OUTPUT") = "INPUT"
BY DEF Form!Fields, Form!OtherField

(* The two currencies, exchanged.                                          *)
LEMMA Exchanged ==
    ASSUME FormInv, currencyId' = [f \in Form!Fields |-> currencyId[Form!OtherField(f)]]
    PROVE  /\ currencyId' \in [Form!Fields -> Currencies]
           /\ currencyId'["INPUT"] = currencyId["OUTPUT"]
           /\ currencyId'["OUTPUT"] = currencyId["INPUT"]
BY FieldsAre DEF FormInv

LEMMA OutputSelectKeeps ==
    ASSUME FormInv, NEW currency \in Currencies, Form!HandleOutputSelect(currency)
    PROVE  FormInv'
<1>1. typedValue' = typedValue /\ currencyId["INPUT"] # currencyId["OUTPUT"]
  BY DEF Form!HandleOutputSelect, FormInv, FormKeepsValue, Form!Distinct
<1>2. CASE currency = currencyId["INPUT"]
  <2>1. /\ independentField' = Form!OtherField(independentField) /\ meant' = meant
        /\ replaced' = replaced
        /\ currencyId' = [f \in Form!Fields |-> currencyId[Form!OtherField(f)]]
    BY <1>2, FieldsAre DEF Form!HandleOutputSelect, Form!SelectCurrency, FormInv
  <2>2. currencyId'[independentField'] = currencyId[independentField]
    BY <2>1, Exchanged, FieldsAre DEF FormInv
  <2> QED
    BY <1>1, <2>1, <2>2, Exchanged, FieldsAre
    DEF FormInv, FormKeepsValue, Form!Distinct, Form!ValueKeepsCurrency
<1>3. CASE currency # currencyId["INPUT"]
  <2>1. /\ independentField' = independentField
        /\ currencyId' = [currencyId EXCEPT !["OUTPUT"] = currency]
        /\ meant' = IF independentField = "OUTPUT" THEN currency ELSE meant
        /\ replaced' = (replaced /\ independentField # "OUTPUT")
    BY <1>3, FieldsAre DEF Form!HandleOutputSelect, Form!SelectCurrency
  <2> QED
    BY <1>1, <1>3, <2>1, FieldsAre
    DEF FormInv, FormKeepsValue, Form!Distinct, Form!ValueKeepsCurrency
<1> QED BY <1>2, <1>3

LEMMA InputSelectKeeps ==
    ASSUME FormInv, NEW currency \in Currencies, Form!HandleInputSelect(currency)
    PROVE  FormInv'
<1>1. independentField' = "INPUT" /\ typedValue' = Blank /\ replaced' = replaced
  BY DEF Form!HandleInputSelect
<1>2. CASE currency = currencyId["OUTPUT"]
  <2>1. currencyId' = [f \in Form!Fields |-> currencyId[Form!OtherField(f)]]
    BY <1>2 DEF Form!HandleInputSelect
  <2> QED
    BY <1>1, <2>1, Exchanged, FieldsAre
    DEF FormInv, FormKeepsValue, Form!Distinct, Form!ValueKeepsCurrency
<1>3. CASE currency # currencyId["OUTPUT"]
  <2>1. currencyId' = [currencyId EXCEPT !["INPUT"] = currency]
    BY <1>3 DEF Form!HandleInputSelect
  <2> QED
    BY <1>1, <1>3, <2>1, FieldsAre
    DEF FormInv, FormKeepsValue, Form!Distinct, Form!ValueKeepsCurrency
<1> QED BY <1>2, <1>3

(* What the screen selects itself is USDC.                                 *)
LEMMA DefaultKeeps ==
    ASSUME FormInv, NEW token \in Usdc, Form!SelectDefault(token)
    PROVE  FormInv'
<1>1. /\ typedValue' = typedValue /\ meant' = meant /\ replaced' \in BOOLEAN
      /\ currencyId["INPUT"] # currencyId["OUTPUT"] /\ token \in Currencies
  BY FormAssumption
  DEF Form!SelectDefault, FormInv, FormKeepsValue, Form!Distinct, Form!ConstantsOK
<1>2. CASE token = currencyId["INPUT"]
  <2>1. /\ independentField' = Form!OtherField(independentField) /\ replaced' = replaced
        /\ currencyId' = [f \in Form!Fields |-> currencyId[Form!OtherField(f)]]
    BY <1>2, FieldsAre DEF Form!SelectDefault, Form!SelectCurrency, FormInv
  <2>2. currencyId'[independentField'] = currencyId[independentField]
    BY <2>1, Exchanged, FieldsAre DEF FormInv
  <2> QED
    BY <1>1, <2>1, <2>2, Exchanged, FieldsAre
    DEF FormInv, FormKeepsValue, Form!Distinct, Form!ValueKeepsCurrency
<1>3. CASE token # currencyId["INPUT"]
  <2>1. /\ independentField' = independentField
        /\ currencyId' = [currencyId EXCEPT !["OUTPUT"] = token]
    BY <1>3, FieldsAre DEF Form!SelectDefault, Form!SelectCurrency
  <2>2. /\ currencyId' \in [Form!Fields -> Currencies] /\ independentField' \in Form!Fields
        /\ currencyId'["INPUT"] = currencyId["INPUT"] /\ currencyId'["OUTPUT"] = token
    BY <1>1, <2>1, FieldsAre DEF FormInv
  <2>3. CASE independentField = "INPUT" \/ token = currencyId["OUTPUT"]
    <3>1. replaced' = replaced /\ currencyId'[independentField'] = currencyId[independentField]
      BY <2>1, <2>2, <2>3, FieldsAre DEF Form!SelectDefault, FormInv
    <3> QED
      BY <1>1, <1>3, <2>2, <3>1
      DEF FormInv, FormKeepsValue, Form!Distinct, Form!ValueKeepsCurrency
  <2>4. CASE independentField = "OUTPUT" /\ token # currencyId["OUTPUT"]
    <3>1. replaced' = TRUE /\ currencyId'[independentField'] \in Usdc
      BY <1>3, <2>1, <2>2, <2>4, FieldsAre DEF Form!SelectDefault
    <3> QED
      BY <1>1, <1>3, <2>2, <3>1
      DEF FormInv, FormKeepsValue, Form!Distinct, Form!ValueKeepsCurrency
  <2> QED BY <2>3, <2>4, FieldsAre DEF FormInv
<1> QED BY <1>2, <1>3

LEMMA FormKeeps == FormInv /\ [Form!Next]_(Form!vars) => FormInv'
<1> SUFFICES ASSUME FormInv, [Form!Next]_(Form!vars) PROVE FormInv'
  OBVIOUS
<1>1. ASSUME NEW currency \in Currencies, Form!HandleOutputSelect(currency)
      PROVE  FormInv'
  BY <1>1, OutputSelectKeeps
<1>2. ASSUME NEW currency \in Currencies, Form!HandleInputSelect(currency)
      PROVE  FormInv'
  BY <1>2, InputSelectKeeps
<1>3. CASE Form!SwitchCurrencies
  <2>1. /\ independentField' = Form!OtherField(independentField)
        /\ currencyId' = [f \in Form!Fields |-> currencyId[Form!OtherField(f)]]
        /\ typedValue' = typedValue /\ meant' = meant /\ replaced' = replaced
    BY <1>3 DEF Form!SwitchCurrencies
  <2>2. currencyId'[independentField'] = currencyId[independentField]
    BY <2>1, Exchanged, FieldsAre DEF FormInv
  <2> QED
    BY <2>1, <2>2, Exchanged, FieldsAre
    DEF FormInv, FormKeepsValue, Form!Distinct, Form!ValueKeepsCurrency
<1>4. ASSUME NEW field \in Form!Fields, NEW value, Form!TypeInput(field, value)
      PROVE  FormInv'
  BY <1>4 DEF Form!TypeInput, FormInv, FormKeepsValue, Form!Distinct, Form!ValueKeepsCurrency
<1>5. ASSUME NEW token \in Usdc, Form!SelectDefault(token)
      PROVE  FormInv'
  BY <1>5, DefaultKeeps
<1>6. CASE UNCHANGED Form!vars
  BY <1>6 DEF Form!vars, FormInv, FormKeepsValue, Form!Distinct, Form!ValueKeepsCurrency
<1> QED BY <1>1, <1>2, <1>3, <1>4, <1>5, <1>6 DEF Form!Next

LEMMA InitForm == Form!Init => FormInv
<1> SUFFICES ASSUME Form!Init PROVE FormInv
  OBVIOUS
<1>1. PICK token \in Usdc :
          currencyId = [f \in Form!Fields |-> IF f = "INPUT" THEN ETH ELSE token]
  BY DEF Form!Init
<1>2. ETH \in Currencies /\ token \in Currencies /\ token # ETH
  BY FormAssumption DEF Form!ConstantsOK
<1> QED
  BY <1>1, <1>2, FieldsAre
  DEF Form!Init, FormInv, FormKeepsValue, Form!Distinct, Form!ValueKeepsCurrency

(* FormKeepsValue: whatever the currencies, handleInputSelect,             *)
(* handleOutputSelect and switchCurrencies never show an amount that was   *)
(* typed for one currency as an amount of another that the user has not    *)
(* chosen.  The effect that selects USDC does, and of USDC only; and no    *)
(* currency is ever in both fields.                                        *)
THEOREM TypedValueKept == Form!Spec => []FormKeepsValue
<1>1. FormInv => FormKeepsValue
  BY DEF FormInv
<1> QED BY <1>1, InitForm, FormKeeps, PTL DEF Form!Spec

---------------------------------------------------------------------------
(* The search for the best trades.  First what is proved by induction.     *)
LEMMA NaturalsBySuccessor ==
    ASSUME NEW T, 0 \in T, \A n \in Nat : n \in T => n + 1 \in T
    PROVE  Nat \subseteq T
<1> DEFINE less == OpToRel(<, Nat)
<1>1. SUFFICES ASSUME NEW bad \in Nat \ T PROVE FALSE
  OBVIOUS
<1>2. IsWellFoundedOn(less, Nat)
  BY NatLessThanWellFounded, Zenon
<1>3. \A m, n \in Nat : m < n => <<m, n>> \in less
  BY DEF OpToRel
<1> HIDE DEF less
<1>4. PICK n \in Nat \ T : \A m \in Nat \ T : ~ (<<m, n>> \in less)
  BY <1>2, WFMin
<1>5. n # 0 /\ n - 1 \in Nat /\ n - 1 < n /\ (n - 1) + 1 = n
  OBVIOUS
<1> QED BY <1>3, <1>4, <1>5

(* Of what takes the quoted input, the output is what was asked for.       *)
LEMMA HopSuffices ==
    ASSUME NEW x \in Nat \ {0}, NEW rin \in Nat \ {0}, NEW rout \in Nat \ {0}, x < rout,
           NEW a \in Nat, InputAmount(x, rin, rout) <= a
    PROVE  /\ OutputAmount(a, rin, rout) \in Nat
           /\ x <= OutputAmount(a, rin, rout)
<1> DEFINE num == 1000 * rin * x
           den == 997 * (rout - x)
           in == InputAmount(x, rin, rout)
           paid == 997 * a * rout
           all == 1000 * rin + 997 * a
<1>1. den \in Nat \ {0} /\ num \in Nat /\ in = num \div den + 1
  BY DEF InputAmount
<1>2. in \in Nat /\ num < in * den
  <2> HIDE DEF num, den, in
  <2>1. num \div den \in Nat /\ num < (num \div den) * den + den
    BY <1>1, Division
  <2>2. (num \div den) * den + den = in * den
    BY <1>1, <2>1
  <2> QED BY <1>1, <2>1, <2>2
<1>3. in * den <= a * den
  <2> HIDE DEF num, den, in
  <2>1. den <= den /\ in <= a
    BY <1>1 DEF in
  <2> QED BY <1>1, <1>2, <2>1, Products
<1>4. 1000 * rin * x <= a * (997 * (rout - x))
  <2>1. num <= a * den
    <3> HIDE DEF num, den, in
    <3>1. a * den \in Nat /\ in * den \in Nat
      BY <1>1, <1>2
    <3> QED BY <1>1, <1>2, <1>3, <3>1
  <2> QED BY <2>1
<1>5. x * all <= paid
  BY <1>4
<1>6. all \in Nat \ {0} /\ paid \in Nat
  OBVIOUS
<1>7. OutputAmount(a, rin, rout) = paid \div all
  BY DEF OutputAmount
<1> HIDE DEF all, paid
<1>8. paid \div all \in Nat /\ paid < (paid \div all) * all + all
  BY <1>6, Division
<1>9. ASSUME NEW y \in Nat, paid < y * all + all
      PROVE  x <= y
  <2>1. SUFFICES ASSUME y + 1 <= x PROVE FALSE
    OBVIOUS
  <2>2. (y + 1) * all <= x * all
    <3>1. y + 1 \in Nat /\ all <= all /\ all \in Nat
      BY <1>6
    <3> QED BY <2>1, <3>1, Products
  <2>3. (y + 1) * all = y * all + all
    BY <1>6
  <2>4. y * all \in Nat /\ x * all \in Nat
    BY <1>6
  <2> QED BY <1>5, <1>6, <1>9, <2>2, <2>3, <2>4
<1> QED BY <1>7, <1>8, <1>9

---------------------------------------------------------------------------
(* The amounts along and against a route, hop by hop.                      *)
HopIn(f, i, pairs, token, amountIn) ==
    IF i = 0
    THEN [token |-> token, amount |-> amountIn, num |-> 1, den |-> 1]
    ELSE [token |-> Other(pairs[i], f[i - 1].token),
          amount |-> OutputAmount(f[i - 1].amount, pairs[i][f[i - 1].token],
                                  pairs[i][Other(pairs[i], f[i - 1].token)]),
          num |-> f[i - 1].num * pairs[i][Other(pairs[i], f[i - 1].token)],
          den |-> f[i - 1].den * pairs[i][f[i - 1].token]]
HopsIn(f, m, pairs, token, amountIn) == f = [i \in 0 .. m |-> HopIn(f, i, pairs, token, amountIn)]

HopOut(f, i, pairs, token, amountOut) ==
    IF i = Len(pairs)
    THEN [token |-> token, amount |-> amountOut]
    ELSE [token |-> Other(pairs[i + 1], f[i + 1].token),
          amount |-> InputAmount(f[i + 1].amount, pairs[i + 1][Other(pairs[i + 1], f[i + 1].token)],
                                 pairs[i + 1][f[i + 1].token])]
HopsOut(f, m, pairs, token, amountOut) ==
    f = [i \in m .. Len(pairs) |-> HopOut(f, i, pairs, token, amountOut)]

LEMMA HopsInExist ==
    ASSUME NEW pairs, NEW token, NEW amountIn, NEW m \in Nat
    PROVE  \E f : HopsIn(f, m, pairs, token, amountIn)
<1> DEFINE T == {k \in Nat : \E f : HopsIn(f, k, pairs, token, amountIn)}
<1>1. 0 \in T
  <2> DEFINE f == [i \in 0 .. 0 |-> HopIn(<< >>, 0, pairs, token, amountIn)]
  <2>1. f = [i \in 0 .. 0 |-> HopIn(f, i, pairs, token, amountIn)]
    BY DEF HopIn
  <2> HIDE DEF f
  <2>2. HopsIn(f, 0, pairs, token, amountIn)
    BY <2>1 DEF HopsIn
  <2> QED BY <2>2
<1>2. ASSUME NEW k \in Nat, k \in T PROVE k + 1 \in T
  <2>1. PICK f : HopsIn(f, k, pairs, token, amountIn)
    BY <1>2
  <2> DEFINE g == [i \in 0 .. (k + 1) |-> HopIn(f, i, pairs, token, amountIn)]
  <2>2. ASSUME NEW i \in 0 .. (k + 1)
        PROVE  HopIn(f, i, pairs, token, amountIn) = HopIn(g, i, pairs, token, amountIn)
    <3>1. CASE i = 0
      BY <3>1 DEF HopIn
    <3>2. CASE i # 0
      <4>1. i - 1 \in 0 .. k /\ i - 1 \in 0 .. (k + 1)
        BY <3>2
      <4>2. f[i - 1] = HopIn(f, i - 1, pairs, token, amountIn)
        BY <2>1, <4>1 DEF HopsIn
      <4>3. g[i - 1] = HopIn(f, i - 1, pairs, token, amountIn)
        BY <4>1
      <4> HIDE DEF g
      <4> QED BY <3>2, <4>2, <4>3 DEF HopIn
    <3> QED BY <3>1, <3>2
  <2>3. HopsIn(g, k + 1, pairs, token, amountIn)
    <3>1. g = [i \in 0 .. (k + 1) |-> HopIn(g, i, pairs, token, amountIn)]
      BY <2>2
    <3> HIDE DEF g
    <3> QED BY <3>1 DEF HopsIn
  <2> HIDE DEF g
  <2> QED BY <2>3
<1>3. Nat \subseteq T
  <2> HIDE DEF T
  <2> QED BY <1>1, <1>2, NaturalsBySuccessor
<1> QED BY <1>3

LEMMA HopsOutExist ==
    ASSUME NEW pairs, Len(pairs) \in Nat, NEW token, NEW amountOut
    PROVE  \E f : HopsOut(f, 0, pairs, token, amountOut)
<1> DEFINE len == Len(pairs)
           T == {k \in Nat : k <= len => \E f : HopsOut(f, len - k, pairs, token, amountOut)}
<1>1. 0 \in T
  <2> DEFINE f == [i \in len .. len |-> HopOut(<< >>, len, pairs, token, amountOut)]
  <2>1. f = [i \in len .. len |-> HopOut(f, i, pairs, token, amountOut)]
    BY DEF HopOut
  <2> HIDE DEF f
  <2>2. HopsOut(f, len, pairs, token, amountOut)
    BY <2>1 DEF HopsOut
  <2>3. len - 0 = len
    OBVIOUS
  <2> QED BY <2>2, <2>3
<1>2. ASSUME NEW k \in Nat, k \in T PROVE k + 1 \in T
  <2> SUFFICES ASSUME k + 1 <= len
               PROVE  \E f : HopsOut(f, len - (k + 1), pairs, token, amountOut)
    OBVIOUS
  <2>1. PICK f : HopsOut(f, len - k, pairs, token, amountOut)
    <3>1. k <= len
      OBVIOUS
    <3> QED BY <1>2, <3>1
  <2> DEFINE low == len - (k + 1)
             g == [i \in low .. len |-> HopOut(f, i, pairs, token, amountOut)]
  <2>2. ASSUME NEW i \in low .. len
        PROVE  HopOut(f, i, pairs, token, amountOut) = HopOut(g, i, pairs, token, amountOut)
    <3>1. CASE i = len
      BY <3>1 DEF HopOut
    <3>2. CASE i # len
      <4>1. i + 1 \in (len - k) .. len /\ i + 1 \in low .. len
        BY <3>2
      <4>2. f[i + 1] = HopOut(f, i + 1, pairs, token, amountOut)
        BY <2>1, <4>1 DEF HopsOut
      <4>3. g[i + 1] = HopOut(f, i + 1, pairs, token, amountOut)
        BY <4>1
      <4> HIDE DEF g
      <4> QED BY <3>2, <4>2, <4>3 DEF HopOut
    <3> QED BY <3>1, <3>2
  <2>3. HopsOut(g, low, pairs, token, amountOut)
    <3>1. g = [i \in low .. len |-> HopOut(g, i, pairs, token, amountOut)]
      BY <2>2
    <3> HIDE DEF g, low
    <3> QED BY <3>1 DEF HopsOut
  <2> HIDE DEF g
  <2> QED BY <2>3
<1>3. Nat \subseteq T
  <2> HIDE DEF T
  <2> QED BY <1>1, <1>2, NaturalsBySuccessor
<1>4. len \in T /\ len <= len /\ len - len = 0
  BY <1>3
<1> QED BY <1>4

LEMMA AmountsInIs ==
    ASSUME NEW pairs, Len(pairs) \in Nat, NEW token, NEW amountIn
    PROVE  HopsIn(AmountsIn(pairs, token, amountIn), Len(pairs), pairs, token, amountIn)
<1>1. \E f : HopsIn(f, Len(pairs), pairs, token, amountIn)
  BY HopsInExist
<1>2. AmountsIn(pairs, token, amountIn) = CHOOSE f : HopsIn(f, Len(pairs), pairs, token, amountIn)
  BY DEF AmountsIn, HopsIn, HopIn
<1> QED BY <1>1, <1>2

LEMMA AmountsOutIs ==
    ASSUME NEW pairs, Len(pairs) \in Nat, NEW token, NEW amountOut
    PROVE  HopsOut(AmountsOut(pairs, token, amountOut), 0, pairs, token, amountOut)
<1>1. \E f : HopsOut(f, 0, pairs, token, amountOut)
  BY HopsOutExist
<1>2. AmountsOut(pairs, token, amountOut) = CHOOSE f : HopsOut(f, 0, pairs, token, amountOut)
  BY DEF AmountsOut, HopsOut, HopOut
<1> QED BY <1>1, <1>2

IsPair(p) == \E s, t : s # t /\ p \in [{s, t} -> Nat]

LEMMA OtherOf ==
    ASSUME NEW p, IsPair(p), NEW t \in DOMAIN p
    PROVE  /\ Other(p, t) \in DOMAIN p /\ Other(p, t) # t
           /\ Other(p, Other(p, t)) = t
           /\ p[t] \in Nat /\ p[Other(p, t)] \in Nat
<1>1. PICK a, b : a # b /\ p \in [{a, b} -> Nat]
  BY DEF IsPair
<1>2. DOMAIN p = {a, b}
  BY <1>1
<1>3. Other(p, a) = b /\ Other(p, b) = a
  BY <1>1, <1>2 DEF Other
<1> QED BY <1>1, <1>2, <1>3

(* Each pair of a route takes what buys the amount out, backwards.         *)
Takes(pairs, token, amountOut) ==
    \A i \in 1 .. Len(pairs) :
        LET after == AmountsOut(pairs, token, amountOut)[i]
        IN  /\ IsPair(pairs[i]) /\ after.token \in DOMAIN pairs[i]
            /\ TakesInput(pairs[i], Other(pairs[i], after.token), after.amount)

(* What is computed against the route is amounts of its tokens.            *)
LEMMA AmountsOutType ==
    ASSUME NEW pairs, Len(pairs) \in Nat, NEW token, NEW amountOut \in Nat \ {0},
           Takes(pairs, token, amountOut),
           NEW f, f = AmountsOut(pairs, token, amountOut)
    PROVE  /\ f[Len(pairs)] = [token |-> token, amount |-> amountOut]
           /\ \A i \in 0 .. Len(pairs) : f[i].amount \in Nat \ {0}
           /\ \A i \in 1 .. Len(pairs) :
                 /\ f[i - 1].token = Other(pairs[i], f[i].token)
                 /\ f[i - 1].amount = InputAmount(f[i].amount, pairs[i][f[i - 1].token],
                                                  pairs[i][f[i].token])
                 /\ f[i].amount < pairs[i][f[i].token]
                 /\ pairs[i][f[i].token] \in Nat \ {0}
                 /\ pairs[i][f[i - 1].token] \in Nat \ {0}
                 /\ Other(pairs[i], f[i - 1].token) = f[i].token
                 /\ f[i].token \in DOMAIN pairs[i] /\ f[i - 1].token \in DOMAIN pairs[i]
<1> DEFINE len == Len(pairs)
<1>1. HopsOut(f, 0, pairs, token, amountOut)
  BY AmountsOutIs
<1>2. \A i \in 0 .. len : f[i] = HopOut(f, i, pairs, token, amountOut)
  BY <1>1 DEF HopsOut
<1>3. f[len] = [token |-> token, amount |-> amountOut]
  <2>1. len \in 0 .. len
    OBVIOUS
  <2> QED BY <1>2, <2>1 DEF HopOut
<1>4. ASSUME NEW i \in 1 .. len
      PROVE  /\ f[i - 1].token = Other(pairs[i], f[i].token)
             /\ f[i - 1].amount = InputAmount(f[i].amount, pairs[i][f[i - 1].token],
                                              pairs[i][f[i].token])
  <2>1. i - 1 \in 0 .. len /\ i - 1 # len /\ (i - 1) + 1 = i
    OBVIOUS
  <2>2. f[i - 1] = HopOut(f, i - 1, pairs, token, amountOut)
    BY <1>2, <2>1
  <2> QED BY <2>1, <2>2 DEF HopOut
<1>5. ASSUME NEW i \in 1 .. len
      PROVE  /\ IsPair(pairs[i]) /\ f[i].token \in DOMAIN pairs[i]
             /\ HasReserves(pairs[i])
             /\ f[i].amount < pairs[i][Other(pairs[i], Other(pairs[i], f[i].token))]
  BY DEF Takes, TakesInput
<1>6. ASSUME NEW i \in 1 .. len
      PROVE  /\ f[i].amount < pairs[i][f[i].token]
             /\ pairs[i][f[i].token] \in Nat \ {0}
             /\ pairs[i][f[i - 1].token] \in Nat \ {0}
             /\ Other(pairs[i], f[i - 1].token) = f[i].token
             /\ f[i - 1].token \in DOMAIN pairs[i]
  <2>1. IsPair(pairs[i]) /\ f[i].token \in DOMAIN pairs[i]
    BY <1>5
  <2>2. /\ Other(pairs[i], f[i].token) \in DOMAIN pairs[i]
        /\ Other(pairs[i], Other(pairs[i], f[i].token)) = f[i].token
        /\ pairs[i][f[i].token] \in Nat /\ pairs[i][Other(pairs[i], f[i].token)] \in Nat
    BY <2>1, OtherOf
  <2>3. pairs[i][f[i].token] # 0 /\ pairs[i][Other(pairs[i], f[i].token)] # 0
    BY <1>5, <2>1, <2>2 DEF HasReserves
  <2> QED BY <1>4, <1>5, <2>1, <2>2, <2>3
<1>7. \A i \in 0 .. len : f[i].amount \in Nat \ {0}
  <2> DEFINE T == {k \in Nat : k <= len => f[len - k].amount \in Nat \ {0}}
  <2>1. 0 \in T
    <3>1. len - 0 = len
      OBVIOUS
    <3> QED BY <1>3, <3>1
  <2>2. ASSUME NEW k \in Nat, k \in T PROVE k + 1 \in T
    <3> SUFFICES ASSUME k + 1 <= len PROVE f[len - (k + 1)].amount \in Nat \ {0}
      OBVIOUS
    <3> DEFINE i == len - k
    <3>1. i \in 1 .. len /\ i - 1 = len - (k + 1) /\ k <= len
      OBVIOUS
    <3>2. f[i].amount \in Nat \ {0}
      BY <2>2, <3>1
    <3> HIDE DEF i
    <3>3. InputAmount(f[i].amount, pairs[i][f[i - 1].token], pairs[i][f[i].token]) \in Nat \ {0}
      BY <1>6, <3>1, <3>2, InputBound
    <3>4. f[i - 1].amount \in Nat \ {0}
      BY <1>4, <3>1, <3>3
    <3> QED BY <3>1, <3>4
  <2>3. Nat \subseteq T
    <3> HIDE DEF T
    <3> QED BY <2>1, <2>2, NaturalsBySuccessor
  <2>4. ASSUME NEW i \in 0 .. len PROVE f[i].amount \in Nat \ {0}
    <3>1. len - i \in Nat /\ len - i <= len /\ len - (len - i) = i
      OBVIOUS
    <3> QED BY <2>3, <3>1
  <2> QED BY <2>4
<1> QED BY <1>3, <1>4, <1>5, <1>6, <1>7

(* What Trade quotes for an exact output, along any number of pairs each   *)
(* of which rounds, buys at least that output (QuoteSuffices).             *)
THEOREM QuotesSuffice ==
    ASSUME NEW pairs, Len(pairs) \in Nat, NEW token, NEW amountOut \in Nat \ {0},
           Takes(pairs, token, amountOut)
    PROVE  LET quote == Against(pairs, token, amountOut)
               bought == Along(pairs, quote.token, quote.amount)
           IN  bought.token = token /\ bought.amount >= amountOut
<1> DEFINE len == Len(pairs)
           g == AmountsOut(pairs, token, amountOut)
           f == AmountsIn(pairs, g[0].token, g[0].amount)
           T == {k \in Nat : k <= len => /\ f[k].token = g[k].token
                                         /\ f[k].amount \in Nat /\ g[k].amount <= f[k].amount}
<1>1. HopsIn(f, len, pairs, g[0].token, g[0].amount)
  BY AmountsInIs
<1>2. \A i \in 0 .. len : f[i] = HopIn(f, i, pairs, g[0].token, g[0].amount)
  <2> HIDE DEF f, g
  <2> QED BY <1>1 DEF HopsIn
<1>3. /\ g[len] = [token |-> token, amount |-> amountOut]
      /\ \A i \in 0 .. len : g[i].amount \in Nat \ {0}
      /\ \A i \in 1 .. len :
                 /\ g[i - 1].amount = InputAmount(g[i].amount, pairs[i][g[i - 1].token],
                                                  pairs[i][g[i].token])
                 /\ g[i].amount < pairs[i][g[i].token]
                 /\ pairs[i][g[i].token] \in Nat \ {0}
                 /\ pairs[i][g[i - 1].token] \in Nat \ {0}
                 /\ Other(pairs[i], g[i - 1].token) = g[i].token
  BY AmountsOutType
<1>4. Against(pairs, token, amountOut) = g[0] /\ Along(pairs, g[0].token, g[0].amount) = f[len]
  BY DEF Against, Along
<1> HIDE DEF f, g
<1>5. 0 \in T
  <2>1. f[0] = [token |-> g[0].token, amount |-> g[0].amount, num |-> 1, den |-> 1]
    <3>1. 0 \in 0 .. len
      OBVIOUS
    <3> QED BY <1>2, <3>1 DEF HopIn
  <2>2. f[0].token = g[0].token /\ f[0].amount = g[0].amount
    BY <2>1
  <2> QED BY <1>3, <2>2
<1>6. ASSUME NEW k \in Nat, k \in T PROVE k + 1 \in T
  <2> SUFFICES ASSUME k + 1 <= len
               PROVE  /\ f[k + 1].token = g[k + 1].token
                      /\ f[k + 1].amount \in Nat /\ g[k + 1].amount <= f[k + 1].amount
    OBVIOUS
  <2> DEFINE i == k + 1
  <2>1. i \in 1 .. len /\ i \in 0 .. len /\ i # 0 /\ i - 1 = k /\ k <= len
    OBVIOUS
  <2>2. f[k].token = g[k].token /\ f[k].amount \in Nat /\ g[k].amount <= f[k].amount
    BY <1>6, <2>1
  <2> HIDE DEF i
  <2>3. f[i] = HopIn(f, i, pairs, g[0].token, g[0].amount)
    BY <1>2, <2>1
  <2>4. /\ f[i].token = Other(pairs[i], f[k].token)
        /\ f[i].amount = OutputAmount(f[k].amount, pairs[i][f[k].token],
                                      pairs[i][Other(pairs[i], f[k].token)])
    BY <2>1, <2>3 DEF HopIn
  <2>5. /\ g[k].amount = InputAmount(g[i].amount, pairs[i][g[k].token], pairs[i][g[i].token])
        /\ g[i].amount < pairs[i][g[i].token]
        /\ pairs[i][g[i].token] \in Nat \ {0} /\ pairs[i][g[k].token] \in Nat \ {0}
        /\ Other(pairs[i], g[k].token) = g[i].token
        /\ g[i].amount \in Nat \ {0}
    BY <1>3, <2>1
  <2>6. f[i].amount = OutputAmount(f[k].amount, pairs[i][g[k].token], pairs[i][g[i].token])
    BY <2>2, <2>4, <2>5
  <2>7. /\ OutputAmount(f[k].amount, pairs[i][g[k].token], pairs[i][g[i].token]) \in Nat
        /\ g[i].amount <= OutputAmount(f[k].amount, pairs[i][g[k].token], pairs[i][g[i].token])
    BY <2>2, <2>5, HopSuffices
  <2> QED BY <2>2, <2>4, <2>5, <2>6, <2>7 DEF i
<1>7. Nat \subseteq T
  <2> HIDE DEF T
  <2> QED BY <1>5, <1>6, NaturalsBySuccessor
<1>8. len \in Nat /\ len <= len
  OBVIOUS
<1>9. f[len].token = g[len].token /\ f[len].amount \in Nat /\ g[len].amount <= f[len].amount
  BY <1>7, <1>8
<1> QED BY <1>3, <1>4, <1>9

---------------------------------------------------------------------------
(* Trades and their order.                                                 *)
IsFraction(f) == f.num \in Int /\ f.den \in Nat \ {0}
IsTrade(t) ==
    /\ Len(t.pairs) \in Nat /\ t.input \in Nat /\ t.output \in Nat /\ IsFraction(t.impact)

(* Fractions, compared by cross products, are in a weak order.             *)
LEMMA CrossProducts ==
    ASSUME NEW a \in Int, NEW x \in Nat \ {0}, NEW b \in Int, NEW y \in Nat \ {0},
           NEW c \in Int, NEW z \in Nat \ {0}, a * y <= b * x, b * z <= c * y
    PROVE  /\ a * z <= c * x
           /\ a * y < b * x => a * z < c * x
           /\ b * z < c * y => a * z < c * x
<1>1. ASSUME NEW p \in Int, NEW q \in Int, NEW k \in Nat \ {0}
      PROVE  /\ p <= q => p * k <= q * k
             /\ p < q => p * k < q * k
             /\ p * k <= q * k => p <= q
             /\ p * k < q * k => p < q
  OBVIOUS
<1>2. a * y \in Int /\ b * x \in Int /\ b * z \in Int /\ c * y \in Int /\ a * z \in Int /\ c * x \in Int
  OBVIOUS
<1>3. (a * y) * z <= (b * x) * z /\ (a * y < b * x => (a * y) * z < (b * x) * z)
  BY <1>1, <1>2
<1>4. (b * z) * x <= (c * y) * x /\ (b * z < c * y => (b * z) * x < (c * y) * x)
  BY <1>1, <1>2
<1>5. (b * x) * z = (b * z) * x /\ (a * y) * z = (a * z) * y /\ (c * y) * x = (c * x) * y
  OBVIOUS
<1>6. /\ (a * y) * z \in Int /\ (b * x) * z \in Int /\ (c * y) * x \in Int
  OBVIOUS
<1> DEFINE l == (a * z) * y   m == (b * z) * x   r == (c * x) * y
<1>7. /\ l <= m /\ m <= r /\ l \in Int /\ m \in Int /\ r \in Int
      /\ a * y < b * x => l < m
      /\ b * z < c * y => m < r
  BY <1>3, <1>4, <1>5, <1>6
<1>8. /\ l <= r => a * z <= c * x
      /\ l < r => a * z < c * x
  BY <1>1, <1>2
<1> HIDE DEF l, m, r
<1>9. l <= r /\ (a * y < b * x => l < r) /\ (b * z < c * y => l < r)
  BY <1>7
<1> QED BY <1>8, <1>9

LEMMA LessOrder ==
    ASSUME NEW f, NEW g, NEW h, IsFraction(f), IsFraction(g), IsFraction(h)
    PROVE  /\ ~ (Less(f, g) /\ Less(g, f))
           /\ ~ Less(g, f) /\ ~ Less(h, g) => ~ Less(h, f)
           /\ Less(f, g) /\ ~ Less(h, g) => Less(f, h)
           /\ ~ Less(g, f) /\ Less(g, h) => Less(f, h)
<1>1. /\ f.num * g.den \in Int /\ g.num * f.den \in Int /\ g.num * h.den \in Int
      /\ h.num * g.den \in Int /\ f.num * h.den \in Int /\ h.num * f.den \in Int
  BY DEF IsFraction
<1>2. ASSUME f.num * g.den <= g.num * f.den, g.num * h.den <= h.num * g.den
      PROVE  /\ f.num * h.den <= h.num * f.den
             /\ f.num * g.den < g.num * f.den => f.num * h.den < h.num * f.den
             /\ g.num * h.den < h.num * g.den => f.num * h.den < h.num * f.den
  <2>1. /\ f.num \in Int /\ g.num \in Int /\ h.num \in Int
        /\ f.den \in Nat \ {0} /\ g.den \in Nat \ {0} /\ h.den \in Nat \ {0}
    BY DEF IsFraction
  <2> QED BY <1>2, <2>1, CrossProducts
<1>3. \A p, q \in Int : (~ (q < p) <=> p <= q) /\ (p < q => p <= q)
  OBVIOUS
<1> QED BY <1>1, <1>2, <1>3 DEF Less

(* The comparator: of two trades one is not after the other, and so on     *)
(* along a list.                                                           *)
LEMMA Comparator ==
    ASSUME NEW a, NEW b, NEW c, IsTrade(a), IsTrade(b), IsTrade(c)
    PROVE  /\ NotAfter(a, b) \/ NotAfter(b, a)
           /\ NotAfter(a, b) /\ NotAfter(b, c) => NotAfter(a, c)
<1>1. /\ Len(a.pairs) \in Nat /\ Len(b.pairs) \in Nat /\ Len(c.pairs) \in Nat
      /\ a.input \in Nat /\ b.input \in Nat /\ c.input \in Nat
      /\ a.output \in Nat /\ b.output \in Nat /\ c.output \in Nat
      /\ IsFraction(a.impact) /\ IsFraction(b.impact) /\ IsFraction(c.impact)
  BY DEF IsTrade
<1>2. ~ (Less(a.impact, b.impact) /\ Less(b.impact, a.impact))
  BY <1>1, LessOrder
<1>3. NotAfter(a, b) \/ NotAfter(b, a)
  BY <1>1, <1>2 DEF NotAfter
<1>4. ASSUME NotAfter(a, b), NotAfter(b, c) PROVE NotAfter(a, c)
  <2>1. /\ ~ Less(b.impact, a.impact) /\ ~ Less(c.impact, b.impact) => ~ Less(c.impact, a.impact)
        /\ Less(a.impact, b.impact) /\ ~ Less(c.impact, b.impact) => Less(a.impact, c.impact)
        /\ ~ Less(b.impact, a.impact) /\ Less(b.impact, c.impact) => Less(a.impact, c.impact)
        /\ ~ (Less(a.impact, b.impact) /\ Less(b.impact, a.impact))
    BY <1>1, LessOrder
  <2> QED BY <1>1, <1>4, <2>1 DEF NotAfter
<1> QED BY <1>3, <1>4

(* The binary search, turn by turn.                                        *)
Window(f, n, items, add) ==
    IF n = 0 THEN [lo |-> 0, hi |-> Len(items)]
    ELSE IF f[n - 1].lo >= f[n - 1].hi THEN f[n - 1]
    ELSE IF NotAfter(items[((f[n - 1].lo + f[n - 1].hi) \div 2) + 1], add)
    THEN [lo |-> ((f[n - 1].lo + f[n - 1].hi) \div 2) + 1, hi |-> f[n - 1].hi]
    ELSE [lo |-> f[n - 1].lo, hi |-> (f[n - 1].lo + f[n - 1].hi) \div 2]
Windows(f, m, items, add) == f = [n \in 0 .. m |-> Window(f, n, items, add)]

LEMMA WindowsExist ==
    ASSUME NEW items, NEW add, NEW m \in Nat
    PROVE  \E f : Windows(f, m, items, add)
<1> DEFINE T == {k \in Nat : \E f : Windows(f, k, items, add)}
<1>1. 0 \in T
  <2> DEFINE f == [n \in 0 .. 0 |-> Window(<< >>, 0, items, add)]
  <2>1. f = [n \in 0 .. 0 |-> Window(f, n, items, add)]
    BY DEF Window
  <2> HIDE DEF f
  <2>2. Windows(f, 0, items, add)
    BY <2>1 DEF Windows
  <2> QED BY <2>2
<1>2. ASSUME NEW k \in Nat, k \in T PROVE k + 1 \in T
  <2>1. PICK f : Windows(f, k, items, add)
    BY <1>2
  <2> DEFINE g == [n \in 0 .. (k + 1) |-> Window(f, n, items, add)]
  <2>2. ASSUME NEW n \in 0 .. (k + 1)
        PROVE  Window(f, n, items, add) = Window(g, n, items, add)
    <3>1. CASE n = 0
      BY <3>1 DEF Window
    <3>2. CASE n # 0
      <4>1. n - 1 \in 0 .. k /\ n - 1 \in 0 .. (k + 1)
        BY <3>2
      <4>2. f[n - 1] = Window(f, n - 1, items, add)
        BY <2>1, <4>1 DEF Windows
      <4>3. g[n - 1] = Window(f, n - 1, items, add)
        BY <4>1
      <4> HIDE DEF g
      <4>4. f[n - 1] = g[n - 1]
        BY <4>2, <4>3
      <4> QED BY <3>2, <4>4 DEF Window
    <3> QED BY <3>1, <3>2
  <2>3. Windows(g, k + 1, items, add)
    <3>1. g = [n \in 0 .. (k + 1) |-> Window(g, n, items, add)]
      BY <2>2
    <3> HIDE DEF g
    <3> QED BY <3>1 DEF Windows
  <2> HIDE DEF g
  <2> QED BY <2>3
<1>3. Nat \subseteq T
  <2> HIDE DEF T
  <2> QED BY <1>1, <1>2, NaturalsBySuccessor
<1> QED BY <1>3

Ranked(items) ==
    \A i, j \in 1 .. Len(items) : i < j => items[i] # items[j] /\ NotAfter(items[i], items[j])

LEMMA Middle ==
    ASSUME NEW l \in Nat, NEW h \in Nat, l < h
    PROVE  (l + h) \div 2 \in l .. (h - 1)
OBVIOUS

(* What is before the place is not after the new item, what is behind is.  *)
LEMMA PlaceIs ==
    ASSUME NEW items, Len(items) \in Nat, \A i \in 1 .. Len(items) : IsTrade(items[i]),
           NEW add, IsTrade(add), Ranked(items)
    PROVE  /\ Place(items, add) \in 0 .. Len(items)
           /\ \A i \in 1 .. Place(items, add) : NotAfter(items[i], add)
           /\ \A i \in (Place(items, add) + 1) .. Len(items) : ~ NotAfter(items[i], add)
<1> DEFINE len == Len(items)
           f == CHOOSE f : Windows(f, len, items, add)
<1>1. Windows(f, len, items, add)
  BY WindowsExist
<1>2. Place(items, add) = f[len].lo
  BY DEF Place, Windows, Window
<1> HIDE DEF f
<1>3. ASSUME NEW n \in 0 .. len PROVE f[n] = Window(f, n, items, add)
  BY <1>1 DEF Windows
<1> DEFINE Good(n) == /\ f[n].lo \in 0 .. len /\ f[n].hi \in 0 .. len
                      /\ f[n].lo <= f[n].hi /\ f[n].hi - f[n].lo <= len - n
                      /\ \A i \in 1 .. f[n].lo : NotAfter(items[i], add)
                      /\ \A i \in (f[n].hi + 1) .. len : ~ NotAfter(items[i], add)
           T == {n \in Nat : n <= len => Good(n)}
<1>4. 0 \in T
  <2>1. f[0] = [lo |-> 0, hi |-> len]
    <3>1. 0 \in 0 .. len
      OBVIOUS
    <3> QED BY <1>3, <3>1 DEF Window
  <2>2. f[0].lo = 0 /\ f[0].hi = len
    BY <2>1
  <2>3. 1 .. 0 = {} /\ (len + 1) .. len = {}
    OBVIOUS
  <2>4. Good(0)
    BY <2>2, <2>3
  <2> QED BY <2>4
<1>5. ASSUME NEW k \in Nat, k \in T PROVE k + 1 \in T
  <2> SUFFICES ASSUME k + 1 <= len PROVE Good(k + 1)
    OBVIOUS
  <2>1. k + 1 \in 0 .. len /\ k + 1 # 0 /\ (k + 1) - 1 = k /\ k <= len
    OBVIOUS
  <2>2. Good(k)
    BY <1>5, <2>1
  <2> DEFINE lo == f[k].lo   hi == f[k].hi   mid == (lo + hi) \div 2
  <2>3. f[k + 1] = IF lo >= hi THEN f[k]
                   ELSE IF NotAfter(items[mid + 1], add) THEN [lo |-> mid + 1, hi |-> hi]
                   ELSE [lo |-> lo, hi |-> mid]
    BY <1>3, <2>1 DEF Window
  <2>4. lo \in 0 .. len /\ hi \in 0 .. len /\ lo <= hi /\ hi - lo <= len - k
    BY <2>2
  <2>5. CASE lo >= hi
    <3>1. f[k + 1].lo = lo /\ f[k + 1].hi = hi
      BY <2>3, <2>5
    <3> QED BY <2>2, <2>4, <2>5, <3>1
  <2>6. CASE lo < hi /\ NotAfter(items[mid + 1], add)
    <3>1. f[k + 1].lo = mid + 1 /\ f[k + 1].hi = hi
      <4>1. ~ (lo >= hi)
        BY <2>4, <2>6
      <4> QED BY <2>3, <2>6, <4>1
    <3>2. mid \in lo .. (hi - 1) /\ mid + 1 \in 1 .. len
      <4>1. mid \in lo .. (hi - 1)
        <5>1. lo \in Nat /\ hi \in Nat /\ lo < hi
          BY <2>4, <2>6
        <5> HIDE DEF lo, hi
        <5> QED BY <5>1, Middle
      <4> HIDE DEF mid, lo, hi
      <4> QED BY <2>4, <4>1
    <3> HIDE DEF mid, lo, hi
    <3>3. ASSUME NEW i \in 1 .. (mid + 1) PROVE NotAfter(items[i], add)
      <4>1. CASE i = mid + 1
        BY <2>6, <4>1
      <4>2. CASE i # mid + 1
        <5>1. i \in 1 .. len /\ i < mid + 1
          BY <3>2, <4>2
        <5>2. NotAfter(items[i], items[mid + 1])
          BY <3>2, <5>1 DEF Ranked
        <5>3. IsTrade(items[i]) /\ IsTrade(items[mid + 1])
          BY <3>2, <5>1
        <5> QED BY <2>6, <5>2, <5>3, Comparator
      <4> QED BY <4>1, <4>2
    <3>4. \A i \in (hi + 1) .. len : ~ NotAfter(items[i], add)
      BY <2>2 DEF hi
    <3>5. mid + 1 \in 0 .. len /\ mid + 1 <= hi /\ hi - (mid + 1) <= len - (k + 1)
      BY <2>4, <2>6, <3>2
    <3> QED BY <2>4, <3>1, <3>3, <3>4, <3>5
  <2>7. CASE lo < hi /\ ~ NotAfter(items[mid + 1], add)
    <3>1. f[k + 1].lo = lo /\ f[k + 1].hi = mid
      <4>1. ~ (lo >= hi)
        BY <2>4, <2>7
      <4> QED BY <2>3, <2>7, <4>1
    <3>2. mid \in lo .. (hi - 1) /\ mid + 1 \in 1 .. len
      <4>1. mid \in lo .. (hi - 1)
        <5>1. lo \in Nat /\ hi \in Nat /\ lo < hi
          BY <2>4, <2>7
        <5> HIDE DEF lo, hi
        <5> QED BY <5>1, Middle
      <4> HIDE DEF mid, lo, hi
      <4> QED BY <2>4, <4>1
    <3> HIDE DEF mid, lo, hi
    <3>3. ASSUME NEW i \in (mid + 1) .. len PROVE ~ NotAfter(items[i], add)
      <4>1. CASE i = mid + 1
        BY <2>7, <4>1
      <4>2. CASE i # mid + 1
        <5>1. i \in 1 .. len /\ mid + 1 < i
          BY <3>2, <4>2
        <5>2. NotAfter(items[mid + 1], items[i])
          BY <3>2, <5>1 DEF Ranked
        <5>3. IsTrade(items[i]) /\ IsTrade(items[mid + 1])
          BY <3>2, <5>1
        <5> QED BY <2>7, <5>2, <5>3, Comparator
      <4> QED BY <4>1, <4>2
    <3>4. \A i \in 1 .. lo : NotAfter(items[i], add)
      BY <2>2 DEF lo
    <3>5. mid \in 0 .. len /\ lo <= mid /\ mid - lo <= len - (k + 1)
      BY <2>4, <2>7, <3>2
    <3> QED BY <2>4, <3>1, <3>3, <3>4, <3>5
  <2>8. lo >= hi \/ lo < hi
    BY <2>4
  <2> HIDE DEF Good, mid, lo, hi
  <2> QED BY <2>5, <2>6, <2>7, <2>8
<1>6. Nat \subseteq T
  <2> HIDE DEF T
  <2> QED BY <1>4, <1>5, NaturalsBySuccessor
<1>7. Good(len)
  <2>1. len \in T /\ len <= len
    BY <1>6
  <2> QED BY <2>1
<1>8. f[len].hi = f[len].lo
  BY <1>7
<1> QED BY <1>2, <1>7, <1>8

LEMMA Longer ==
    ASSUME NEW S, NEW items \in Seq(S), NEW add \in S, NEW p, p \in 0 .. Len(items),
           NEW q, q = p + 1, NEW longer, longer = InsertAt(items, q, add)
    PROVE  /\ longer \in Seq(S) /\ Len(longer) = Len(items) + 1
           /\ \A j \in 1 .. Len(longer) :
                 longer[j] = IF j < q THEN items[j] ELSE IF j = q THEN add ELSE items[j - 1]
<1> DEFINE before == SubSeq(items, 1, p)
           behind == SubSeq(items, q, Len(items))
           n == Len(items)
<1>0. q - 1 = p /\ p \in Nat /\ q \in Nat /\ n \in Nat /\ p <= n /\ n - p \in Nat
  OBVIOUS
<1>1. longer = (before \o <<add>>) \o behind
  BY <1>0 DEF InsertAt
<1>2. /\ before \in Seq(S) /\ Len(before) = p
      /\ \A i \in 1 .. p : before[i] = items[i]
  OBVIOUS
<1>3. /\ behind \in Seq(S) /\ Len(behind) = n - p
      /\ \A i \in 1 .. (n - p) : behind[i] = items[p + i]
  OBVIOUS
<1> HIDE DEF before, behind, n
<1> DEFINE first == before \o <<add>>
<1>4. /\ first \in Seq(S) /\ Len(first) = q
      /\ \A i \in 1 .. p : first[i] = items[i]
      /\ first[q] = add
  BY <1>2
<1>5. longer = first \o behind
  BY <1>1 DEF first
<1> HIDE DEF first
<1>6. longer \in Seq(S) /\ Len(longer) = n + 1
  <2>1. first \in Seq(S) /\ behind \in Seq(S)
    BY <1>3, <1>4
  <2>2. first \o behind \in Seq(S) /\ Len(first \o behind) = Len(first) + Len(behind)
    BY <2>1
  <2>3. q + (n - p) = n + 1
    BY <1>0
  <2> QED BY <1>3, <1>4, <1>5, <2>2, <2>3
<1>7. ASSUME NEW j \in 1 .. (n + 1)
      PROVE  longer[j] = IF j < q THEN items[j] ELSE IF j = q THEN add ELSE items[j - 1]
  <2>1. Len(first) = q /\ Len(behind) = n - p /\ first \in Seq(S) /\ behind \in Seq(S)
    BY <1>3, <1>4
  <2>2. CASE j <= q
    <3>1. longer[j] = first[j]
      BY <1>5, <2>1, <2>2
    <3>2. j < q => j \in 1 .. p
      BY <1>0
    <3> QED BY <1>0, <1>4, <2>2, <3>1, <3>2
  <2>3. CASE j > q
    <3>1. j - q \in 1 .. (n - p) /\ p + (j - q) = j - 1
      BY <1>0, <2>3
    <3>2. longer[j] = behind[j - q]
      <4>1. j \in Int /\ j > Len(first) /\ j <= Len(first) + Len(behind) /\ j >= 1
        BY <1>0, <2>1, <2>3
      <4>2. (first \o behind)[j] = behind[j - Len(first)]
        BY <2>1, <4>1
      <4> QED BY <1>5, <2>1, <4>2
    <3> QED BY <1>0, <1>3, <2>3, <3>1, <3>2
  <2> QED BY <1>0, <2>2, <2>3
<1> QED BY <1>6, <1>7 DEF n

(* What is put at its place keeps the ranking.                             *)
LEMMA LongerIsRanked ==
    ASSUME NEW S, NEW items \in Seq(S), NEW add \in S, \A t \in S : IsTrade(t),
           Ranked(items), \A i \in 1 .. Len(items) : items[i] # add,
           NEW longer, longer = InsertAt(items, Place(items, add) + 1, add)
    PROVE  Ranked(longer)
<1> DEFINE n == Len(items)   p == Place(items, add)   q == p + 1
<1>1. \A i \in 1 .. n : items[i] \in S /\ IsTrade(items[i])
  OBVIOUS
<1>2. /\ p \in 0 .. n
      /\ \A i \in 1 .. p : NotAfter(items[i], add)
      /\ \A i \in (p + 1) .. n : ~ NotAfter(items[i], add)
  BY <1>1, PlaceIs
<1> HIDE DEF p
<1>3. /\ Len(longer) = n + 1
      /\ \A j \in 1 .. (n + 1) :
            longer[j] = IF j < q THEN items[j] ELSE IF j = q THEN add ELSE items[j - 1]
  <2>1. longer = InsertAt(items, q, add) /\ q = p + 1
    BY DEF p
  <2>2. p \in 0 .. Len(items)
    BY <1>2
  <2> HIDE DEF p, q
  <2>3. /\ Len(longer) = Len(items) + 1
        /\ \A j \in 1 .. Len(longer) :
              longer[j] = IF j < q THEN items[j] ELSE IF j = q THEN add ELSE items[j - 1]
    BY <2>1, <2>2, Longer
  <2> QED BY <2>3
<1>4. ASSUME NEW x \in 1 .. n
      PROVE  /\ x < q => NotAfter(items[x], add)
             /\ x >= q => NotAfter(add, items[x])
  <2>1. IsTrade(items[x]) /\ IsTrade(add)
    BY <1>1
  <2>2. x < q => x \in 1 .. p
    BY <1>2
  <2>3. x >= q => x \in (p + 1) .. n
    BY <1>2
  <2> QED BY <1>2, <2>1, <2>2, <2>3, Comparator
<1>5. \A x, y \in 1 .. n : x < y => items[x] # items[y] /\ NotAfter(items[x], items[y])
  BY DEF Ranked
<1>6. q \in 1 .. (n + 1) /\ n \in Nat
  BY <1>2
<1>7. \A x \in 1 .. n : items[x] # add
  OBVIOUS
<1> SUFFICES ASSUME NEW i \in 1 .. (n + 1), NEW j \in 1 .. (n + 1), i < j
             PROVE  longer[i] # longer[j] /\ NotAfter(longer[i], longer[j])
  BY <1>3 DEF Ranked
<1> HIDE DEF q, n
<1>8. /\ i < q => longer[i] = items[i] /\ i \in 1 .. n
      /\ i = q => longer[i] = add
      /\ i > q => longer[i] = items[i - 1] /\ i - 1 \in 1 .. n /\ i - 1 >= q
  BY <1>3, <1>6
<1>9. /\ j < q => longer[j] = items[j] /\ j \in 1 .. n
      /\ j = q => longer[j] = add
      /\ j > q => longer[j] = items[j - 1] /\ j - 1 \in 1 .. n /\ j - 1 >= q
  BY <1>3, <1>6
<1>10. CASE j < q
  <2>1. i < q
    BY <1>6, <1>10
  <2> QED BY <1>5, <1>8, <1>9, <1>10, <2>1
<1>11. CASE j = q
  <2>1. i < q
    BY <1>6, <1>11
  <2> QED BY <1>4, <1>7, <1>8, <1>9, <1>11, <2>1
<1>12. CASE j > q
  <2>1. CASE i < q
    <3>1. i < j - 1
      BY <1>6, <1>12, <2>1
    <3> QED BY <1>5, <1>8, <1>9, <1>12, <2>1, <3>1
  <2>2. CASE i = q
    BY <1>4, <1>7, <1>8, <1>9, <1>12, <2>2
  <2>3. CASE i > q
    <3>1. i - 1 < j - 1
      OBVIOUS
    <3> QED BY <1>5, <1>8, <1>9, <1>12, <2>3, <3>1
  <2> QED BY <1>6, <2>1, <2>2, <2>3
<1> QED BY <1>6, <1>10, <1>11, <1>12

(* The parts of IsBest.                                                    *)
Size(trades, results) ==
    IF Cardinality(trades) < results THEN Cardinality(trades) ELSE results
Beaten(found, trades) ==
    \A trade \in trades :
        \/ \E i \in 1 .. Len(found) : found[i] = trade
        \/ \A i \in 1 .. Len(found) : NotAfter(found[i], trade)

LEMMA BestIs ==
    ASSUME NEW T, NEW found \in Seq(T), NEW k
    PROVE  IsBest(found, T, k) <=> /\ Ranked(found) /\ Len(found) = Size(T, k)
                                   /\ Beaten(found, T)
<1>1. DOMAIN found = 1 .. Len(found) /\ \A i \in 1 .. Len(found) : found[i] \in T
  OBVIOUS
<1>2. {found[i] : i \in DOMAIN found} \subseteq T
  BY <1>1
<1> QED BY <1>1, <1>2, Zenon DEF IsBest, Ranked, Size, Beaten

(* A list of all trades leaves none out.                                   *)
LEMMA AllFound ==
    ASSUME NEW T, IsFiniteSet(T), NEW items \in Seq(T), Ranked(items),
           Len(items) = Cardinality(T), NEW t \in T
    PROVE  \E i \in 1 .. Len(items) : items[i] = t
<1> DEFINE n == Len(items)
<1>1. n \in Nat /\ items \in [1 .. n -> T]
  OBVIOUS
<1>2. \A x, y \in 1 .. n : items[x] = items[y] => x = y
  BY <1>1 DEF Ranked
<1>3. items \in Injection(1 .. n, T)
  BY <1>1, <1>2 DEF Injection, IsInjective
<1>4. Cardinality(1 .. n) = Cardinality(T)
  BY <1>1, FS_Interval
<1>5. items \in Surjection(1 .. n, T)
  BY <1>3, <1>4, FS_Injection
<1> QED BY <1>5 DEF Surjection

(* Inserting a trade into the best of some gives the best of one more.     *)
LEMMA InsertKeepsBest ==
    ASSUME NEW U, IsFiniteSet(U), \A t \in U : IsTrade(t), NEW add \in U,
           NEW T, T = U \ {add}, NEW k \in Nat \ {0},
           NEW items \in Seq(U), items \in Seq(T), IsBest(items, T, k),
           NEW kept, kept = SortedInsert(items, add, k)
    PROVE  kept \in Seq(U) /\ IsBest(kept, U, k)
<1> DEFINE n == Len(items)
<1> PICK place : place = Place(items, add)
  OBVIOUS
<1> PICK longer : longer = InsertAt(items, place + 1, add)
  OBVIOUS
<1>1. Ranked(items) /\ n = Size(T, k) /\ Beaten(items, T)
  BY BestIs
<1>2. Cardinality(T) \in Nat /\ Cardinality(U) = Cardinality(T) + 1
  <2>1. IsFiniteSet(T) /\ Cardinality(T) = Cardinality(U) - 1
    BY FS_RemoveElement
  <2>2. Cardinality(U) \in Nat /\ Cardinality(T) \in Nat
    BY <2>1, FS_CardinalityType
  <2> QED BY <2>1, <2>2
<1>3. n \in Nat
  OBVIOUS
<1>4. \A i \in 1 .. n : items[i] \in T /\ items[i] # add /\ IsTrade(items[i])
  OBVIOUS
<1>5. n <= k /\ (n < k => n = Cardinality(T)) /\ (n = k => Size(U, k) = k)
      /\ (n < k => Size(U, k) = n + 1)
  <2> HIDE DEF n
  <2> QED BY <1>1, <1>2 DEF Size
<1>6. CASE n = k /\ NotAfter(items[n], add)
  <2>1. kept = items
    BY <1>6 DEF SortedInsert
  <2>2. n \in 1 .. n
    BY <1>6
  <2>3. ASSUME NEW i \in 1 .. n PROVE NotAfter(items[i], add)
    <3>1. CASE i = n
      BY <1>6, <3>1
    <3>2. CASE i # n
      <4>1. NotAfter(items[i], items[n])
        <5>1. i < n /\ i \in 1 .. Len(items) /\ n \in 1 .. Len(items)
          BY <1>3, <2>2, <3>2
        <5> QED BY <1>1, <5>1 DEF Ranked
      <4>2. IsTrade(items[i]) /\ IsTrade(items[n]) /\ IsTrade(add)
        BY <1>4, <2>2
      <4> QED BY <1>6, <4>1, <4>2, Comparator
    <3> QED BY <3>1, <3>2
  <2>4. Beaten(items, U)
    BY <1>1, <2>3 DEF Beaten
  <2>5. Len(items) = Size(U, k)
    BY <1>5, <1>6
  <2> QED BY <1>1, <1>3, <2>1, <2>4, <2>5, BestIs
<1>7. CASE ~ (n = k /\ NotAfter(items[n], add))
  <2> DEFINE m == IF Len(longer) > k THEN k ELSE Len(longer)
  <2>1. kept = SubSeq(longer, 1, m)
    BY <1>7 DEF SortedInsert
  <2>2. place \in 0 .. n
        /\ \A i \in (place + 1) .. n : ~ NotAfter(items[i], add)
    BY <1>1, <1>3, <1>4, PlaceIs
  <2>3. Ranked(longer)
    BY <1>1, <1>3, <1>4, LongerIsRanked
  <2>4. /\ longer \in Seq(U) /\ Len(longer) = n + 1
        /\ \A j \in 1 .. Len(longer) :
              longer[j] = IF j < place + 1 THEN items[j]
                          ELSE IF j = place + 1 THEN add ELSE items[j - 1]
    <3> DEFINE q == place + 1
    <3>1. place \in 0 .. Len(items) /\ q = place + 1 /\ longer = InsertAt(items, q, add)
      BY <2>2
    <3> HIDE DEF q
    <3>2. /\ Len(longer) = Len(items) + 1
          /\ \A j \in 1 .. Len(longer) :
                longer[j] = IF j < q THEN items[j] ELSE IF j = q THEN add ELSE items[j - 1]
      BY <3>1, Longer
    <3>3. longer \in Seq(U)
      BY <3>1, Longer, Zenon
    <3> QED BY <3>1, <3>2, <3>3
  <2> HIDE DEF n
  <2>5. m \in 1 .. (n + 1) /\ m \in Nat /\ (n = k => m = n) /\ (n < k => m = n + 1)
    BY <1>3, <1>5, <2>4
  <2> HIDE DEF m
  <2>6. /\ kept \in Seq(U) /\ Len(kept) = m
        /\ \A i \in 1 .. m : kept[i] = longer[i]
    BY <1>3, <2>1, <2>4, <2>5
  <2>7. Ranked(kept)
    <3> SUFFICES ASSUME NEW i \in 1 .. m, NEW j \in 1 .. m, i < j
                 PROVE  kept[i] # kept[j] /\ NotAfter(kept[i], kept[j])
      BY <2>6 DEF Ranked
    <3>1. i \in 1 .. Len(longer) /\ j \in 1 .. Len(longer)
      BY <1>3, <2>4, <2>5
    <3> QED BY <2>3, <2>6, <3>1 DEF Ranked
  <2>8. Len(kept) = Size(U, k)
    BY <1>3, <1>5, <2>5, <2>6
  <2>9. ASSUME NEW t \in U
        PROVE  \/ \E j \in 1 .. (n + 1) : longer[j] = t
               \/ n = k /\ \A j \in 1 .. n : NotAfter(items[j], t)
    <3>1. CASE t = add
      <4>1. place + 1 \in 1 .. (n + 1) /\ longer[place + 1] = add
        BY <1>3, <2>2, <2>4
      <4> QED BY <3>1, <4>1
    <3>2. ASSUME NEW i \in 1 .. n, items[i] = t
          PROVE  \E j \in 1 .. (n + 1) : longer[j] = t
      <4>1. CASE i < place + 1
        <5>1. i \in 1 .. (n + 1) /\ longer[i] = items[i]
          BY <1>3, <2>4, <4>1
        <5> QED BY <3>2, <5>1
      <4>2. CASE i >= place + 1
        <5>1. /\ i + 1 \in 1 .. (n + 1) /\ ~ (i + 1 < place + 1) /\ i + 1 # place + 1
              /\ (i + 1) - 1 = i
          BY <1>3, <2>2, <4>2
        <5>2. longer[i + 1] = items[i]
          BY <2>4, <5>1
        <5> QED BY <3>2, <5>1, <5>2
      <4> QED BY <2>2, <4>1, <4>2
    <3>3. CASE t \in T
      <4>1. CASE n < k
        <5>1. \E i \in 1 .. n : items[i] = t
          <6>1. Len(items) = Cardinality(T) /\ IsFiniteSet(T) /\ Ranked(items)
            BY <1>1, <1>5, <4>1, FS_RemoveElement DEF n
          <6>2. \E i \in 1 .. Len(items) : items[i] = t
            BY <3>3, <6>1, AllFound
          <6> QED BY <6>2 DEF n
        <5> QED BY <3>2, <5>1
      <4>2. CASE n = k
        <5>1. \/ \E i \in 1 .. n : items[i] = t
              \/ \A j \in 1 .. n : NotAfter(items[j], t)
          BY <1>1, <3>3 DEF Beaten, n
        <5> QED BY <3>2, <4>2, <5>1
      <4> QED BY <1>3, <1>5, <4>1, <4>2
    <3> QED BY <3>1, <3>3
  <2>10. ASSUME NEW t \in U, NEW j \in 1 .. (n + 1), longer[j] = t
         PROVE  \/ \E i \in 1 .. m : kept[i] = t
                \/ \A i \in 1 .. m : NotAfter(kept[i], t)
    <3>1. CASE j <= m
      <4>1. j \in 1 .. m
        BY <2>5, <3>1
      <4> QED BY <2>6, <2>10, <4>1
    <3>2. CASE j > m
      <4> SUFFICES ASSUME NEW i \in 1 .. m PROVE NotAfter(kept[i], t)
        OBVIOUS
      <4>1. i \in 1 .. Len(longer) /\ j \in 1 .. Len(longer) /\ i < j
        BY <1>3, <2>4, <2>5, <3>2
      <4> QED BY <2>3, <2>6, <2>10, <4>1 DEF Ranked
    <3> QED BY <2>5, <3>1, <3>2
  <2>11. ASSUME NEW t \in U, n = k, \A j \in 1 .. n : NotAfter(items[j], t)
         PROVE  \A i \in 1 .. m : NotAfter(kept[i], t)
    <3>1. m = n /\ n \in 1 .. n
      BY <1>3, <2>5, <2>11
    <3>2. ~ NotAfter(items[n], add)
      BY <1>7, <2>11
    <3>3. IsTrade(items[n]) /\ IsTrade(add) /\ IsTrade(t) /\ NotAfter(items[n], t)
      BY <1>4, <2>11, <3>1
    <3>4. NotAfter(add, t)
      <4>1. NotAfter(add, items[n])
        BY <3>2, <3>3, Comparator
      <4> QED BY <3>3, <4>1, Comparator
    <3>5. ASSUME NEW i \in 1 .. m PROVE NotAfter(kept[i], t)
      <4>1. i \in 1 .. Len(longer) /\ kept[i] = longer[i] /\ i \in 1 .. n
        BY <1>3, <2>4, <2>6, <3>1
      <4>2. kept[i] = IF i < place + 1 THEN items[i]
                      ELSE IF i = place + 1 THEN add ELSE items[i - 1]
        BY <2>4, <4>1
      <4>3. ~ (i < place + 1) /\ i # place + 1 => i - 1 \in 1 .. n
        <5>1. place \in Nat
          BY <1>3, <2>2
        <5> QED BY <1>3, <4>1, <5>1
      <4> QED BY <2>11, <3>4, <4>1, <4>2, <4>3
    <3> QED BY <3>5
  <2>12. Beaten(kept, U)
    BY <2>6, <2>9, <2>10, <2>11 DEF Beaten
  <2> QED BY <2>6, <2>7, <2>8, <2>12, BestIs
<1> QED BY <1>6, <1>7

---------------------------------------------------------------------------
(* The search: each of the paths that can be completed is visited once.    *)
LEMMA PathsAre ==
    ASSUME NEW S, NEW h \in Int, NEW P, P = SeqOf(S, h)
    PROVE  \A p : p \in P <=> p \in Seq(S) /\ Len(p) <= h
<1>1. ASSUME NEW p \in P PROVE p \in Seq(S) /\ Len(p) <= h
  <2>1. PICK m \in 0 .. h : p \in [1 .. m -> S]
    BY DEF SeqOf
  <2>2. p \in Seq(S) /\ Len(p) = m
    BY <2>1
  <2> QED BY <2>2
<1>2. ASSUME NEW p \in Seq(S), Len(p) <= h PROVE p \in P
  <2>1. Len(p) \in 0 .. h /\ p \in [1 .. Len(p) -> S]
    BY <1>2
  <2> QED BY <2>1 DEF SeqOf
<1> QED BY <1>1, <1>2

(* What is said of all elements of a list, each of which is there once.    *)
Lists(list, S) ==
    /\ list \in Seq(S)
    /\ \A x \in S : \E i \in 1 .. Len(list) : list[i] = x
    /\ \A i, j \in 1 .. Len(list) : i < j => list[i] # list[j]

LEMMA ListsNone ==
    ASSUME NEW S, S = {}
    PROVE  Lists(<< >>, S)
BY DEF Lists

LEMMA ListsOne ==
    ASSUME NEW x, NEW S, S = {x}
    PROVE  Lists(<<x>>, S)
<1>1. <<x>> \in Seq(S) /\ Len(<<x>>) = 1 /\ <<x>>[1] = x
  OBVIOUS
<1> QED BY <1>1 DEF Lists

LEMMA ListsBoth ==
    ASSUME NEW A, NEW B, NEW a, NEW b, Lists(a, A), Lists(b, B), A \cap B = {},
           NEW C, C = A \cup B
    PROVE  Lists(a \o b, C)
<1> DEFINE l == a \o b
<1>1. a \in Seq(C) /\ b \in Seq(C) /\ Len(a) \in Nat /\ Len(b) \in Nat
  BY DEF Lists
<1>2. l \in Seq(C) /\ Len(l) = Len(a) + Len(b)
  BY <1>1
<1>3. \A i \in 1 .. Len(a) : l[i] = a[i] /\ l[i] \in A
  <2>1. \A i \in 1 .. Len(a) : a[i] \in A
    BY DEF Lists
  <2> QED BY <1>1, <2>1
<1>4. ASSUME NEW i \in 1 .. Len(b) PROVE l[Len(a) + i] = b[i] /\ b[i] \in B
  <2>1. b[i] \in B
    BY DEF Lists
  <2>2. Len(a) + i \in 1 .. Len(a) + Len(b) /\ ~ (Len(a) + i <= Len(a)) /\ (Len(a) + i) - Len(a) = i
    BY <1>1
  <2>3. l[Len(a) + i] = b[(Len(a) + i) - Len(a)]
    BY <1>1, <2>2
  <2> QED BY <2>1, <2>2, <2>3
<1> HIDE DEF l
<1>5. ASSUME NEW x \in C PROVE \E i \in 1 .. Len(l) : l[i] = x
  <2>1. CASE x \in A
    <3>1. PICK i \in 1 .. Len(a) : a[i] = x
      BY <2>1 DEF Lists
    <3>2. i \in 1 .. Len(l) /\ l[i] = x
      BY <1>1, <1>2, <1>3, <3>1
    <3> QED BY <3>2
  <2>2. CASE x \in B
    <3>1. PICK i \in 1 .. Len(b) : b[i] = x
      BY <2>2 DEF Lists
    <3>2. Len(a) + i \in 1 .. Len(l) /\ l[Len(a) + i] = x
      BY <1>1, <1>2, <1>4, <3>1
    <3> QED BY <3>2
  <2> QED BY <2>1, <2>2
<1>6. ASSUME NEW i \in 1 .. Len(l), NEW j \in 1 .. Len(l), i < j PROVE l[i] # l[j]
  <2>1. CASE j <= Len(a)
    <3>1. i \in 1 .. Len(a) /\ j \in 1 .. Len(a)
      BY <1>1, <1>2, <1>6, <2>1
    <3>2. a[i] # a[j]
      BY <1>6, <3>1 DEF Lists
    <3> QED BY <1>3, <3>1, <3>2
  <2>2. CASE j > Len(a)
    <3> DEFINE y == j - Len(a)
    <3>1. y \in 1 .. Len(b) /\ j = Len(a) + y
      BY <1>1, <1>2, <2>2
    <3>2. l[j] = b[y] /\ b[y] \in B
      BY <1>4, <3>1
    <3>3. CASE i <= Len(a)
      <4>1. i \in 1 .. Len(a)
        BY <1>1, <1>2, <3>3
      <4>2. l[i] \in A
        BY <1>3, <4>1
      <4> QED BY <3>2, <4>2
    <3>4. CASE i > Len(a)
      <4> DEFINE x == i - Len(a)
      <4>1. x \in 1 .. Len(b) /\ i = Len(a) + x /\ x < y
        BY <1>1, <1>2, <1>6, <3>1, <3>4
      <4>2. l[i] = b[x]
        BY <1>4, <4>1
      <4>3. b[x] # b[y]
        BY <3>1, <4>1 DEF Lists
      <4> QED BY <3>2, <4>2, <4>3
    <3> QED BY <1>1, <1>2, <3>3, <3>4
  <2> QED BY <1>1, <1>2, <2>1, <2>2
<1> QED BY <1>2, <1>5, <1>6 DEF Lists, l

(* The recursion of Visits, from the last paths on.                        *)
From(f, at, n, turn) ==
    IF at[2] > n THEN << >>
    ELSE (CASE turn[Append(at[1], at[2])] = "ends" -> <<Append(at[1], at[2])>>
            [] turn[Append(at[1], at[2])] = "goes on" -> f[<<Append(at[1], at[2]), 1>>]
            [] OTHER -> << >>)
         \o f[<<at[1], at[2] + 1>>]
Froms(f, D, n, turn) == f = [at \in D |-> From(f, at, n, turn)]
Ats(n, hops) == {p \in Seq(1 .. n) : Len(p) < hops} \X (1 .. n + 1)
Left(at, n, hops) == (hops - Len(at[1])) * (n + 2) - at[2]
Short(turn, n, hops) ==
    \A p \in Seq(1 .. n) : Len(p) \in 1 .. hops /\ turn[p] = "goes on" => Len(p) < hops

LEMMA LeftShrinks ==
    ASSUME NEW n \in Nat, NEW hops \in Nat, NEW p \in Seq(1 .. n), Len(p) < hops, NEW i \in 1 .. n
    PROVE  /\ Append(p, i) \in Seq(1 .. n) /\ Len(Append(p, i)) = Len(p) + 1
           /\ Left(<<p, i>>, n, hops) \in Nat
           /\ Left(<<p, i + 1>>, n, hops) \in Nat
           /\ Left(<<p, i + 1>>, n, hops) < Left(<<p, i>>, n, hops)
           /\ Left(<<Append(p, i), 1>>, n, hops) \in Int
           /\ Left(<<Append(p, i), 1>>, n, hops) < Left(<<p, i>>, n, hops)
<1>1. Append(p, i) \in Seq(1 .. n) /\ Len(Append(p, i)) = Len(p) + 1
  OBVIOUS
<1>2. ASSUME NEW d \in Nat \ {0}
      PROVE  /\ d * (n + 2) >= n + 2 /\ d * (n + 2) \in Nat
             /\ (d - 1) * (n + 2) = d * (n + 2) - (n + 2)
  <2>1. d * (n + 2) = d * n + d * 2 /\ d * n \in Nat /\ (d - 1) * (n + 2) = d * (n + 2) - (n + 2)
    OBVIOUS
  <2>2. n <= d * n
    <3>1. 1 * n <= d * n
      <4>1. 1 \in Nat /\ 1 <= d /\ n <= n
        OBVIOUS
      <4> QED BY <4>1, Products
    <3> QED BY <3>1
  <2> QED BY <2>1, <2>2
<1> DEFINE d == hops - Len(p)
<1>3. d \in Nat \ {0} /\ hops - Len(Append(p, i)) = d - 1
  BY <1>1
<1>4. /\ d * (n + 2) >= n + 2 /\ d * (n + 2) \in Nat
      /\ (d - 1) * (n + 2) = d * (n + 2) - (n + 2)
  BY <1>2, <1>3
<1>5. /\ Left(<<p, i>>, n, hops) = d * (n + 2) - i
      /\ Left(<<p, i + 1>>, n, hops) = d * (n + 2) - (i + 1)
      /\ Left(<<Append(p, i), 1>>, n, hops) = (d - 1) * (n + 2) - 1
  BY <1>3 DEF Left
<1> HIDE DEF d
<1>6. ASSUME NEW w \in Nat, w >= n + 2
      PROVE  /\ w - i \in Nat /\ w - (i + 1) \in Nat /\ w - (i + 1) < w - i
             /\ (w - (n + 2)) - 1 < w - i /\ (w - (n + 2)) - 1 \in Int
  BY <1>6
<1> QED BY <1>1, <1>4, <1>5, <1>6

LEMMA FromsExist ==
    ASSUME NEW n \in Nat, NEW hops \in Nat, NEW turn, Short(turn, n, hops)
    PROVE  \E f : Froms(f, Ats(n, hops), n, turn)
<1> DEFINE D(k) == {at \in Ats(n, hops) : Left(at, n, hops) < k}
           T == {k \in Nat : \E f : Froms(f, D(k), n, turn)}
<1>1. ASSUME NEW at \in Ats(n, hops)
      PROVE  /\ at = <<at[1], at[2]>> /\ at[1] \in Seq(1 .. n) /\ Len(at[1]) < hops
             /\ at[2] \in 1 .. n + 1
  BY DEF Ats
<1>2. 0 \in T
  <2>1. D(0) = {}
    <3> SUFFICES ASSUME NEW at \in Ats(n, hops), Left(at, n, hops) < 0 PROVE FALSE
      OBVIOUS
    <3>1. CASE at[2] \in 1 .. n
      <4>1. Left(<<at[1], at[2]>>, n, hops) \in Nat
        BY <1>1, <3>1, LeftShrinks
      <4> QED BY <1>1, <4>1
    <3>2. CASE at[2] = n + 1
      <4> DEFINE d == hops - Len(at[1])
      <4>1. d \in Nat \ {0}
        BY <1>1
      <4>2. Left(at, n, hops) = d * (n + 2) - (n + 1)
        BY <3>2 DEF Left
      <4> HIDE DEF d
      <4>3. 1 * (n + 2) <= d * (n + 2)
        <5>1. 1 <= d /\ n + 2 <= n + 2 /\ n + 2 \in Nat
          BY <4>1
        <5> QED BY <4>1, <5>1, Products
      <4>4. d * (n + 2) \in Nat
        BY <4>1
      <4> QED BY <4>2, <4>3, <4>4
    <3> QED BY <1>1, <3>1, <3>2
  <2> DEFINE f == [at \in {} |-> << >>]
  <2>2. f = [at \in {} |-> From(f, at, n, turn)]
    OBVIOUS
  <2> HIDE DEF f, D
  <2>3. Froms(f, D(0), n, turn)
    BY <2>1, <2>2 DEF Froms
  <2> QED BY <2>3
<1>3. ASSUME NEW k \in Nat, k \in T PROVE k + 1 \in T
  <2>1. PICK f : Froms(f, D(k), n, turn)
    BY <1>3
  <2> DEFINE g == [at \in D(k + 1) |-> From(f, at, n, turn)]
  <2>2. ASSUME NEW at \in D(k), at \in D(k + 1) PROVE f[at] = g[at]
    <3>1. f[at] = From(f, at, n, turn)
      <4> HIDE DEF D
      <4> QED BY <2>1, <2>2 DEF Froms
    <3> QED BY <2>2, <3>1
  <2>3. ASSUME NEW at \in D(k + 1) PROVE From(f, at, n, turn) = From(g, at, n, turn)
    <3>1. CASE at[2] > n
      BY <3>1 DEF From
    <3>2. CASE ~ (at[2] > n)
      <4>0. at \in Ats(n, hops) /\ Left(at, n, hops) < k + 1
        OBVIOUS
      <4> DEFINE p == at[1]   i == at[2]   longer == Append(p, i)
      <4>1. p \in Seq(1 .. n) /\ Len(p) < hops /\ i \in 1 .. n /\ at = <<p, i>>
        BY <1>1, <3>2, <4>0
      <4> HIDE DEF g, D, p, i
      <4>2. /\ longer \in Seq(1 .. n) /\ Len(longer) = Len(p) + 1
            /\ Left(<<p, i>>, n, hops) \in Nat
            /\ Left(<<p, i + 1>>, n, hops) \in Nat
            /\ Left(<<p, i + 1>>, n, hops) < Left(<<p, i>>, n, hops)
            /\ Left(<<longer, 1>>, n, hops) \in Int
            /\ Left(<<longer, 1>>, n, hops) < Left(<<p, i>>, n, hops)
        BY <4>1, LeftShrinks
      <4> HIDE DEF longer
      <4>3. <<p, i + 1>> \in Ats(n, hops)
        BY <4>1 DEF Ats
      <4>4. turn[longer] = "goes on" => <<longer, 1>> \in Ats(n, hops)
        <5>1. 1 \in 1 .. n + 1
          OBVIOUS
        <5>2. turn[longer] = "goes on" => longer \in {q \in Seq(1 .. n) : Len(q) < hops}
          <6>1. Len(longer) \in 1 .. hops
            BY <4>1, <4>2
          <6> QED BY <4>2, <6>1 DEF Short
        <5> QED BY <5>1, <5>2 DEF Ats
      <4>5. Left(<<p, i + 1>>, n, hops) < k
        BY <4>0, <4>1, <4>2
      <4>6. Left(<<longer, 1>>, n, hops) < k /\ Left(<<longer, 1>>, n, hops) < k + 1
        BY <4>0, <4>1, <4>2
      <4>7. f[<<p, i + 1>>] = g[<<p, i + 1>>]
        <5>1. Left(<<p, i + 1>>, n, hops) < k + 1
          BY <4>2, <4>5
        <5>2. <<p, i + 1>> \in D(k) /\ <<p, i + 1>> \in D(k + 1)
          BY <4>3, <4>5, <5>1 DEF D
        <5> QED BY <2>2, <5>2
      <4>8. turn[longer] = "goes on" => f[<<longer, 1>>] = g[<<longer, 1>>]
        <5> SUFFICES ASSUME turn[longer] = "goes on" PROVE f[<<longer, 1>>] = g[<<longer, 1>>]
          OBVIOUS
        <5>1. Left(<<longer, 1>>, n, hops) < k + 1
          BY <4>6
        <5>2. <<longer, 1>> \in D(k) /\ <<longer, 1>> \in D(k + 1)
          BY <4>4, <4>6, <5>1 DEF D
        <5> QED BY <2>2, <5>2
      <4> QED BY <3>2, <4>7, <4>8, Zenon DEF From, p, i, longer
    <3> QED BY <3>1, <3>2
  <2>4. g = [at \in D(k + 1) |-> From(g, at, n, turn)]
    BY <2>3
  <2> HIDE DEF g, D
  <2>5. Froms(g, D(k + 1), n, turn)
    BY <2>4 DEF Froms
  <2> QED BY <2>5
<1>4. Nat \subseteq T
  <2> HIDE DEF T
  <2> QED BY <1>2, <1>3, NaturalsBySuccessor
<1>5. \A at \in Ats(n, hops) : Left(at, n, hops) < hops * (n + 2) /\ hops * (n + 2) \in Nat
  <2> SUFFICES ASSUME NEW at \in Ats(n, hops)
               PROVE  Left(at, n, hops) < hops * (n + 2) /\ hops * (n + 2) \in Nat
    OBVIOUS
  <2> DEFINE d == hops - Len(at[1])
  <2>1. d \in Nat /\ d <= hops /\ at[2] \in Nat \ {0}
    BY <1>1
  <2>2. Left(at, n, hops) = d * (n + 2) - at[2]
    BY DEF Left
  <2> HIDE DEF d
  <2>3. d * (n + 2) <= hops * (n + 2)
    <3>1. n + 2 <= n + 2 /\ n + 2 \in Nat
      OBVIOUS
    <3> QED BY <2>1, <3>1, Products
  <2>4. d * (n + 2) \in Nat /\ hops * (n + 2) \in Nat
    BY <2>1
  <2> QED BY <2>1, <2>2, <2>3, <2>4
<1>6. hops * (n + 2) \in Nat
  OBVIOUS
<1>7. D(hops * (n + 2)) = Ats(n, hops)
  BY <1>5
<1> HIDE DEF D
<1>8. \E f : Froms(f, D(hops * (n + 2)), n, turn)
  BY <1>4, <1>6
<1> QED BY <1>7, <1>8

(* Prefixes of paths.                                                      *)
LEMMA SameSeq ==
    ASSUME NEW S, NEW s \in Seq(S), NEW t \in Seq(S), Len(s) = Len(t),
           \A i \in 1 .. Len(s) : s[i] = t[i]
    PROVE  s = t
OBVIOUS

LEMMA PrefixIs ==
    ASSUME NEW S, NEW q \in Seq(S), NEW m, m \in 0 .. Len(q)
    PROVE  /\ SubSeq(q, 1, m) \in Seq(S) /\ Len(SubSeq(q, 1, m)) = m
           /\ \A i \in 1 .. m : SubSeq(q, 1, m)[i] = q[i]
OBVIOUS

LEMMA WholePrefix ==
    ASSUME NEW S, NEW q \in Seq(S)
    PROVE  SubSeq(q, 1, Len(q)) = q
<1>1. Len(q) \in 0 .. Len(q)
  OBVIOUS
<1>2. /\ SubSeq(q, 1, Len(q)) \in Seq(S) /\ Len(SubSeq(q, 1, Len(q))) = Len(q)
      /\ \A i \in 1 .. Len(q) : SubSeq(q, 1, Len(q))[i] = q[i]
  BY <1>1, PrefixIs
<1> QED BY <1>2, SameSeq

LEMMA PrefixOfPrefix ==
    ASSUME NEW S, NEW q \in Seq(S), NEW m, m \in 0 .. Len(q), NEW k, k \in 0 .. m
    PROVE  SubSeq(SubSeq(q, 1, m), 1, k) = SubSeq(q, 1, k)
<1> DEFINE p == SubSeq(q, 1, m)
<1>1. p \in Seq(S) /\ Len(p) = m /\ \A i \in 1 .. m : p[i] = q[i]
  BY PrefixIs
<1>2. k \in 0 .. Len(p) /\ k \in 0 .. Len(q)
  BY <1>1
<1> HIDE DEF p
<1>3. /\ SubSeq(p, 1, k) \in Seq(S) /\ Len(SubSeq(p, 1, k)) = k
      /\ \A i \in 1 .. k : SubSeq(p, 1, k)[i] = p[i]
  BY <1>1, <1>2, PrefixIs
<1>4. /\ SubSeq(q, 1, k) \in Seq(S) /\ Len(SubSeq(q, 1, k)) = k
      /\ \A i \in 1 .. k : SubSeq(q, 1, k)[i] = q[i]
  BY <1>2, PrefixIs
<1>5. \A i \in 1 .. k : SubSeq(p, 1, k)[i] = SubSeq(q, 1, k)[i]
  BY <1>1, <1>3, <1>4
<1>6. SubSeq(p, 1, k) = SubSeq(q, 1, k)
  BY <1>3, <1>4, <1>5, SameSeq
<1> QED BY <1>6 DEF p

LEMMA PrefixNext ==
    ASSUME NEW S, NEW q \in Seq(S), NEW m, m \in 0 .. Len(q) - 1
    PROVE  SubSeq(q, 1, m + 1) = Append(SubSeq(q, 1, m), q[m + 1])
<1> DEFINE p == SubSeq(q, 1, m)   r == SubSeq(q, 1, m + 1)
<1>1. m \in 0 .. Len(q) /\ m + 1 \in 0 .. Len(q) /\ m + 1 \in 1 .. Len(q) /\ q[m + 1] \in S
  OBVIOUS
<1>2. p \in Seq(S) /\ Len(p) = m /\ \A i \in 1 .. m : p[i] = q[i]
  BY <1>1, PrefixIs
<1>3. r \in Seq(S) /\ Len(r) = m + 1 /\ \A i \in 1 .. m + 1 : r[i] = q[i]
  BY <1>1, PrefixIs
<1> HIDE DEF p, r
<1> DEFINE a == Append(p, q[m + 1])
<1>4. a \in Seq(S) /\ Len(a) = m + 1
  BY <1>1, <1>2
<1>5. \A i \in 1 .. m + 1 : a[i] = IF i = m + 1 THEN q[m + 1] ELSE p[i]
  BY <1>1, <1>2
<1>6. \A i \in 1 .. m + 1 : a[i] = q[i]
  BY <1>1, <1>2, <1>5
<1> HIDE DEF a
<1>7. a = r
  BY <1>3, <1>4, <1>6, SameSeq
<1> QED BY <1>7 DEF a, p, r

LEMMA PrefixOfAppend ==
    ASSUME NEW S, NEW p \in Seq(S), NEW e \in S
    PROVE  /\ SubSeq(Append(p, e), 1, Len(p) + 1) = Append(p, e)
           /\ \A k \in 0 .. Len(p) : SubSeq(Append(p, e), 1, k) = SubSeq(p, 1, k)
<1> DEFINE a == Append(p, e)
<1>1. a \in Seq(S) /\ Len(a) = Len(p) + 1 /\ \A i \in 1 .. Len(p) : a[i] = p[i]
  OBVIOUS
<1> HIDE DEF a
<1>2. SubSeq(a, 1, Len(p) + 1) = a
  BY <1>1, WholePrefix
<1>3. ASSUME NEW k, k \in 0 .. Len(p) PROVE SubSeq(a, 1, k) = SubSeq(p, 1, k)
  <2>1. k \in 0 .. Len(a)
    BY <1>1, <1>3
  <2>2. /\ SubSeq(a, 1, k) \in Seq(S) /\ Len(SubSeq(a, 1, k)) = k
        /\ \A i \in 1 .. k : SubSeq(a, 1, k)[i] = a[i]
    BY <1>1, <2>1, PrefixIs
  <2>3. /\ SubSeq(p, 1, k) \in Seq(S) /\ Len(SubSeq(p, 1, k)) = k
        /\ \A i \in 1 .. k : SubSeq(p, 1, k)[i] = p[i]
    BY <1>3, PrefixIs
  <2>4. \A i \in 1 .. k : SubSeq(a, 1, k)[i] = SubSeq(p, 1, k)[i]
    <3>1. \A i \in 1 .. k : i \in 1 .. Len(p)
      BY <1>3
    <3> QED BY <1>1, <2>2, <2>3, <3>1
  <2> QED BY <2>2, <2>3, <2>4, SameSeq
<1> QED BY <1>2, <1>3 DEF a

LEMMA AppendsDiffer ==
    ASSUME NEW S, NEW p \in Seq(S), NEW q \in Seq(S), NEW x \in S, NEW y \in S,
           Append(p, x) = Append(q, y)
    PROVE  p = q /\ x = y
<1> DEFINE a == Append(p, x)   b == Append(q, y)
<1>1. /\ a \in Seq(S) /\ Len(a) = Len(p) + 1 /\ a[Len(p) + 1] = x
      /\ \A i \in 1 .. Len(p) : a[i] = p[i]
  OBVIOUS
<1>2. /\ b \in Seq(S) /\ Len(b) = Len(q) + 1 /\ b[Len(q) + 1] = y
      /\ \A i \in 1 .. Len(q) : b[i] = q[i]
  OBVIOUS
<1>3. a = b
  OBVIOUS
<1> HIDE DEF a, b
<1>4. Len(p) = Len(q)
  BY <1>1, <1>2, <1>3
<1>5. x = y /\ \A i \in 1 .. Len(p) : p[i] = q[i]
  BY <1>1, <1>2, <1>3, <1>4
<1> QED BY <1>4, <1>5, SameSeq

LEMMA PathsDiffer ==
    ASSUME NEW n, NEW p \in Seq(1 .. n), NEW q \in Seq(1 .. n), NEW x \in 1 .. n, NEW y \in 1 .. n,
           Append(p, x) = Append(q, y)
    PROVE  p = q /\ x = y
BY AppendsDiffer

(* Paths that end and go on before, and those among them behind a path.    *)
GoesOn(turn, q, m) == \A k \in 1 .. m : turn[SubSeq(q, 1, k)] = "goes on"
Reached(turn, p) == GoesOn(turn, p, Len(p))
Completed(turn, n, hops) ==
    {q \in Seq(1 .. n) : /\ Len(q) \in 1 .. hops /\ turn[q] = "ends"
                         /\ GoesOn(turn, q, Len(q) - 1)}
Below(turn, n, hops, p, i) ==
    {q \in Completed(turn, n, hops) :
        Len(p) < Len(q) /\ SubSeq(q, 1, Len(p)) = p /\ q[Len(p) + 1] >= i}

LEMMA CompletedIs ==
    ASSUME NEW n \in Nat, NEW hops \in Nat, NEW turn, NEW q
    PROVE  q \in Completed(turn, n, hops)
              <=> /\ q \in Seq(1 .. n) /\ Len(q) \in Nat \ {0} /\ Len(q) <= hops
                  /\ turn[q] = "ends"
                  /\ GoesOn(turn, q, Len(q) - 1)
<1>1. Len(q) \in 1 .. hops <=> Len(q) \in Nat \ {0} /\ Len(q) <= hops
  OBVIOUS
<1> QED BY <1>1 DEF Completed

Through(turn, n, hops, longer) ==
    {q \in Completed(turn, n, hops) :
        Len(longer) <= Len(q) /\ SubSeq(q, 1, Len(longer)) = longer}

(* The paths that begin with one more pair.                                *)
LEMMA BelowLonger ==
    ASSUME NEW n \in Nat, NEW hops \in Nat, NEW turn, NEW p \in Seq(1 .. n), Reached(turn, p),
           Len(p) < hops, NEW i \in 1 .. n
    PROVE  LET longer == Append(p, i)
               A == Through(turn, n, hops, longer)
           IN  /\ turn[longer] = "ends" => A = {longer}
               /\ turn[longer] = "goes on" => /\ A = Below(turn, n, hops, longer, 1)
                                              /\ Reached(turn, longer)
               /\ turn[longer] # "ends" /\ turn[longer] # "goes on" => A = {}
<1>8. PICK longer : longer = Append(p, i)
  OBVIOUS
<1>9. PICK A : A = Through(turn, n, hops, longer)
  OBVIOUS
<1>1. /\ longer \in Seq(1 .. n) /\ Len(longer) = Len(p) + 1 /\ Len(p) \in Nat
      /\ Len(longer) \in 1 .. hops
  BY <1>8
<1>2. /\ SubSeq(longer, 1, Len(longer)) = longer
      /\ \A k \in 0 .. Len(p) : SubSeq(longer, 1, k) = SubSeq(p, 1, k)
  BY <1>1, <1>8, PrefixOfAppend
<1>3. GoesOn(turn, longer, Len(longer) - 1)
  <2> SUFFICES ASSUME NEW k \in 1 .. Len(longer) - 1 PROVE turn[SubSeq(longer, 1, k)] = "goes on"
    BY DEF GoesOn
  <2>1. k \in 0 .. Len(p) /\ k \in 1 .. Len(p)
    BY <1>1
  <2> QED BY <1>2, <2>1 DEF Reached, GoesOn
<1>4. ASSUME NEW q \in A
      PROVE  /\ q \in Seq(1 .. n) /\ Len(q) \in Nat
             /\ Len(q) = Len(longer) => q = longer /\ turn[longer] = "ends"
             /\ Len(q) # Len(longer) => Len(longer) < Len(q) /\ turn[longer] = "goes on"
  <2>1. /\ q \in Seq(1 .. n) /\ Len(q) \in Nat /\ turn[q] = "ends" /\ Len(longer) <= Len(q)
        /\ SubSeq(q, 1, Len(longer)) = longer
        /\ GoesOn(turn, q, Len(q) - 1)
    <3>1. q \in Completed(turn, n, hops) /\ Len(longer) <= Len(q) /\ SubSeq(q, 1, Len(longer)) = longer
      BY <1>9 DEF Through
    <3>2. /\ q \in Seq(1 .. n) /\ Len(q) \in Nat \ {0} /\ turn[q] = "ends"
          /\ GoesOn(turn, q, Len(q) - 1)
      BY <3>1, CompletedIs
    <3> QED BY <3>1, <3>2
  <2>2. CASE Len(q) = Len(longer)
    <3>1. SubSeq(q, 1, Len(q)) = q
      BY <2>1, WholePrefix
    <3> QED BY <2>1, <2>2, <3>1
  <2>3. CASE Len(q) # Len(longer)
    <3>0. ASSUME NEW a \in Nat \ {0}, NEW b \in Nat, a <= b, b # a
          PROVE  a < b /\ a \in 1 .. b - 1
      BY <3>0
    <3>1. Len(longer) < Len(q) /\ Len(longer) \in 1 .. Len(q) - 1
      <4>1. Len(longer) \in Nat \ {0}
        BY <1>1
      <4> QED BY <2>1, <2>3, <3>0, <4>1
    <3> QED BY <2>1, <2>3, <3>1 DEF GoesOn
  <2> QED BY <2>1, <2>2, <2>3
<1>5. ASSUME turn[longer] = "ends" PROVE A = {longer}
  <2>1. Len(longer) \in Nat \ {0} /\ Len(longer) <= hops /\ Len(longer) <= Len(longer)
    BY <1>1
  <2>3. longer \in Completed(turn, n, hops)
    BY <1>1, <1>3, <1>5, <2>1, CompletedIs
  <2>4. longer \in A
    BY <1>2, <2>1, <2>3, <1>9 DEF Through
  <2>2. \A q \in A : q = longer
    BY <1>4, <1>5
  <2> QED BY <2>2, <2>4
<1>6. ASSUME turn[longer] = "goes on"
      PROVE  A = Below(turn, n, hops, longer, 1) /\ Reached(turn, longer)
  <2>1. Reached(turn, longer)
    <3> SUFFICES ASSUME NEW k \in 1 .. Len(longer) PROVE turn[SubSeq(longer, 1, k)] = "goes on"
      BY DEF Reached, GoesOn
    <3>1. CASE k = Len(longer)
      BY <1>2, <1>6, <3>1
    <3>2. CASE k # Len(longer)
      <4>1. k \in 1 .. Len(longer) - 1
        BY <1>1, <3>2
      <4> QED BY <1>3, <4>1 DEF GoesOn
    <3> QED BY <3>1, <3>2
  <2>2. ASSUME NEW q \in A PROVE q \in Below(turn, n, hops, longer, 1)
    <3>1. q \in Seq(1 .. n) /\ Len(longer) < Len(q)
      BY <1>4, <1>6
    <3>2. q[Len(longer) + 1] >= 1
      <4>1. Len(longer) + 1 \in 1 .. Len(q)
        BY <1>1, <3>1
      <4>2. q[Len(longer) + 1] \in 1 .. n
        BY <3>1, <4>1
      <4> QED BY <4>2
    <3>3. q \in Completed(turn, n, hops) /\ SubSeq(q, 1, Len(longer)) = longer
      BY <1>9 DEF Through
    <3> QED BY <3>1, <3>2, <3>3 DEF Below
  <2>3. ASSUME NEW q \in Below(turn, n, hops, longer, 1) PROVE q \in A
    <3>1. q \in Completed(turn, n, hops) /\ Len(longer) < Len(q) /\ SubSeq(q, 1, Len(longer)) = longer
      BY DEF Below
    <3>2. Len(q) \in Nat
      BY <3>1, CompletedIs
    <3>3. Len(longer) <= Len(q)
      BY <1>1, <3>1, <3>2
    <3> QED BY <3>1, <3>3, <1>9 DEF Through
  <2> QED BY <2>1, <2>2, <2>3
<1>7. ASSUME turn[longer] # "ends", turn[longer] # "goes on" PROVE A = {}
  BY <1>4, <1>7
<1> QED BY <1>5, <1>6, <1>7, <1>8, <1>9

(* A path goes on with a pair behind a shorter one.                        *)
LEMMA GoesThrough ==
    ASSUME NEW n \in Nat, NEW p \in Seq(1 .. n), NEW i \in 1 .. n, NEW q \in Seq(1 .. n),
           Len(p) < Len(q)
    PROVE  /\ q[Len(p) + 1] \in 1 .. n
           /\ SubSeq(q, 1, Len(p) + 1) = Append(p, i)
                 <=> SubSeq(q, 1, Len(p)) = p /\ q[Len(p) + 1] = i
<1>1. Len(p) \in 0 .. Len(q) - 1 /\ Len(p) \in 0 .. Len(q) /\ Len(p) + 1 \in 1 .. Len(q)
  OBVIOUS
<1>6. PICK y : y = q[Len(p) + 1]
  OBVIOUS
<1>7. PICK s : s = SubSeq(q, 1, Len(p))
  OBVIOUS
<1>2. y \in 1 .. n
  BY <1>1, <1>6
<1>3. SubSeq(q, 1, Len(p) + 1) = Append(s, y)
  BY <1>1, <1>6, <1>7, PrefixNext
<1>4. s \in Seq(1 .. n)
  BY <1>1, <1>7, PrefixIs
<1>5. Append(s, y) = Append(p, i) => s = p /\ y = i
  BY <1>2, <1>4, PathsDiffer
<1> QED BY <1>2, <1>3, <1>5, <1>6, <1>7

(* The paths behind a path: those with the next pair, and with later ones. *)
LEMMA BelowNext ==
    ASSUME NEW n \in Nat, NEW hops \in Nat, NEW turn, NEW p \in Seq(1 .. n),
           NEW i \in 1 .. n
    PROVE  LET with == Through(turn, n, hops, Append(p, i))
               later == Below(turn, n, hops, p, i + 1)
           IN  Below(turn, n, hops, p, i) = with \cup later /\ with \cap later = {}
<1>5. \A r \in Seq(1 .. n) : Len(p) < Len(r) =>
          /\ r[Len(p) + 1] \in 1 .. n
          /\ SubSeq(r, 1, Len(p) + 1) = Append(p, i)
                <=> SubSeq(r, 1, Len(p)) = p /\ r[Len(p) + 1] = i
  BY GoesThrough
<1> DEFINE longer == Append(p, i)   A == Through(turn, n, hops, longer)
<1>1. Len(longer) = Len(p) + 1 /\ Len(p) \in Nat
  OBVIOUS
<1> HIDE DEF longer, A
<1>2. ASSUME NEW q \in Completed(turn, n, hops)
      PROVE  /\ Len(longer) <= Len(q) <=> Len(p) < Len(q)
             /\ Len(p) < Len(q) =>
                   /\ q[Len(p) + 1] \in 1 .. n
                   /\ SubSeq(q, 1, Len(longer)) = longer
                         <=> SubSeq(q, 1, Len(p)) = p /\ q[Len(p) + 1] = i
  <2>1. q \in Seq(1 .. n) /\ Len(q) \in Nat
    BY CompletedIs
  <2>2. Len(longer) <= Len(q) <=> Len(p) < Len(q)
    BY <1>1, <2>1
  <2>3. ASSUME Len(p) < Len(q)
        PROVE  /\ q[Len(p) + 1] \in 1 .. n
               /\ SubSeq(q, 1, Len(longer)) = longer
                     <=> SubSeq(q, 1, Len(p)) = p /\ q[Len(p) + 1] = i
    <3>1. /\ q[Len(p) + 1] \in 1 .. n
          /\ SubSeq(q, 1, Len(p) + 1) = Append(p, i)
                <=> SubSeq(q, 1, Len(p)) = p /\ q[Len(p) + 1] = i
      BY <2>1, <2>3, <1>5
    <3> QED BY <1>1, <3>1 DEF longer
  <2> QED BY <2>2, <2>3
<1>3. ASSUME NEW x \in 1 .. n PROVE /\ x >= i <=> x = i \/ x >= i + 1
                                    /\ ~ (i >= i + 1)
  OBVIOUS
<1>4. ASSUME NEW q PROVE /\ q \in Below(turn, n, hops, p, i) <=> q \in A \cup Below(turn, n, hops, p, i + 1)
                         /\ ~ (q \in A /\ q \in Below(turn, n, hops, p, i + 1))
  <2>1. CASE q \in Completed(turn, n, hops)
    <3>1. CASE Len(p) < Len(q)
      BY <1>2, <1>3, <2>1, <3>1 DEF Below, Through, A
    <3>2. CASE ~ (Len(p) < Len(q))
      BY <1>2, <2>1, <3>2 DEF Below, Through, A
    <3> QED BY <3>1, <3>2
  <2>2. CASE q \notin Completed(turn, n, hops)
    BY <2>2 DEF Below, Through, A
  <2> QED BY <2>1, <2>2
<1> QED BY <1>4 DEF A, longer

LEMMA LeftBounds ==
    ASSUME NEW n \in Nat, NEW hops \in Nat, NEW p \in Seq(1 .. n), Len(p) < hops, NEW i \in 1 .. n + 1
    PROVE  /\ Left(<<p, i>>, n, hops) \in Nat
           /\ Left(<<p, i>>, n, hops) < hops * (n + 2)
           /\ hops * (n + 2) \in Nat
<1> DEFINE d == hops - Len(p)
<1>1. d \in Nat \ {0} /\ d <= hops
  OBVIOUS
<1>2. Left(<<p, i>>, n, hops) = d * (n + 2) - i
  BY DEF Left
<1> HIDE DEF d
<1>3. n + 2 <= n + 2 /\ n + 2 \in Nat /\ 1 \in Nat /\ 1 <= d
  BY <1>1
<1>4. 1 * (n + 2) <= d * (n + 2) /\ d * (n + 2) <= hops * (n + 2)
  BY <1>1, <1>3, Products
<1>5. d * (n + 2) \in Nat /\ hops * (n + 2) \in Nat
  BY <1>1
<1> QED BY <1>2, <1>4, <1>5

(* The recursion lists the paths behind the one it has reached.            *)
LEMMA VisitsBelow ==
    ASSUME NEW n \in Nat, NEW hops \in Nat, NEW turn, Short(turn, n, hops),
           NEW f, Froms(f, Ats(n, hops), n, turn)
    PROVE  \A p \in Seq(1 .. n), i \in 1 .. n + 1 :
               Len(p) < hops /\ Reached(turn, p)
                  => Lists(f[<<p, i>>], Below(turn, n, hops, p, i))
<1> DEFINE T == {k \in Nat : \A p \in Seq(1 .. n), i \in 1 .. n + 1 :
                    Len(p) < hops /\ Reached(turn, p) /\ Left(<<p, i>>, n, hops) < k
                       => Lists(f[<<p, i>>], Below(turn, n, hops, p, i))}
<1>5. ASSUME NEW p \in Seq(1 .. n), NEW i \in 1 .. n, Len(p) < hops, Reached(turn, p)
      PROVE  LET longer == Append(p, i)
                 A == Through(turn, n, hops, longer)
             IN  /\ turn[longer] = "ends" => A = {longer}
                 /\ turn[longer] = "goes on" => /\ A = Below(turn, n, hops, longer, 1)
                                                /\ Reached(turn, longer)
                 /\ turn[longer] # "ends" /\ turn[longer] # "goes on" => A = {}
  <2> HIDE DEF T
  <2> QED BY <1>5, BelowLonger
<1>1. 0 \in T
  <2> SUFFICES ASSUME NEW p \in Seq(1 .. n), NEW i \in 1 .. n + 1, Len(p) < hops
               PROVE  ~ (Left(<<p, i>>, n, hops) < 0)
    OBVIOUS
  <2>1. Left(<<p, i>>, n, hops) \in Nat
    BY LeftBounds
  <2> QED BY <2>1
<1>2. ASSUME NEW k \in Nat, k \in T PROVE k + 1 \in T
  <2>0. ASSUME NEW p \in Seq(1 .. n), NEW i \in 1 .. n + 1, Len(p) < hops, Reached(turn, p),
               Left(<<p, i>>, n, hops) < k
        PROVE  Lists(f[<<p, i>>], Below(turn, n, hops, p, i))
    BY <1>2, <2>0
  <2> HIDE DEF T
  <2>1. ASSUME NEW p \in Seq(1 .. n), NEW i \in 1 .. n + 1, Len(p) < hops, Reached(turn, p),
               Left(<<p, i>>, n, hops) < k + 1
        PROVE  Lists(f[<<p, i>>], Below(turn, n, hops, p, i))
    <3>1. <<p, i>> \in Ats(n, hops)
      BY <2>1 DEF Ats
    <3>2. f[<<p, i>>] = From(f, <<p, i>>, n, turn)
      BY <3>1 DEF Froms
    <3>3. CASE i > n
      <4>1. f[<<p, i>>] = << >>
        BY <3>2, <3>3 DEF From
      <4>2. ASSUME NEW q \in Below(turn, n, hops, p, i) PROVE FALSE
        <5>1. q \in Completed(turn, n, hops) /\ Len(p) < Len(q) /\ q[Len(p) + 1] >= i
          BY DEF Below
        <5>2. q \in Seq(1 .. n)
          BY <5>1, CompletedIs
        <5>3. Len(p) + 1 \in 1 .. Len(q)
          BY <5>1, <5>2
        <5>4. q[Len(p) + 1] \in 1 .. n
          BY <5>2, <5>3
        <5> QED BY <3>3, <5>1, <5>4
      <4>3. Below(turn, n, hops, p, i) = {}
        BY <4>2
      <4> QED BY <4>1, <4>3, ListsNone
    <3>4. CASE ~ (i > n)
      <4>1. i \in 1 .. n /\ i + 1 \in 1 .. n + 1 /\ 1 \in 1 .. n + 1
        BY <3>4
      <4>2. PICK longer : longer = Append(p, i)
        OBVIOUS
      <4>3. /\ longer \in Seq(1 .. n) /\ Len(longer) = Len(p) + 1
            /\ Left(<<p, i>>, n, hops) \in Nat
            /\ Left(<<p, i + 1>>, n, hops) \in Nat
            /\ Left(<<p, i + 1>>, n, hops) < Left(<<p, i>>, n, hops)
            /\ Left(<<longer, 1>>, n, hops) \in Int
            /\ Left(<<longer, 1>>, n, hops) < Left(<<p, i>>, n, hops)
        BY <2>1, <4>1, <4>2, LeftShrinks
      <4>4. Left(<<p, i + 1>>, n, hops) < k /\ Left(<<longer, 1>>, n, hops) < k
        BY <2>1, <4>3
      <4>5. Lists(f[<<p, i + 1>>], Below(turn, n, hops, p, i + 1))
        BY <2>0, <2>1, <4>1, <4>4
      <4>6. PICK A : A = Through(turn, n, hops, longer)
        OBVIOUS
      <4>7. /\ turn[longer] = "ends" => A = {longer}
            /\ turn[longer] = "goes on" => A = Below(turn, n, hops, longer, 1) /\ Reached(turn, longer)
            /\ turn[longer] # "ends" /\ turn[longer] # "goes on" => A = {}
        BY <2>1, <4>1, <4>2, <4>6, <1>5
      <4>8. /\ Below(turn, n, hops, p, i) = A \cup Below(turn, n, hops, p, i + 1)
            /\ A \cap Below(turn, n, hops, p, i + 1) = {}
        BY <4>1, <4>2, <4>6, BelowNext
      <4>9. PICK tried : tried = CASE turn[longer] = "ends" -> <<longer>>
                                   [] turn[longer] = "goes on" -> f[<<longer, 1>>]
                                   [] OTHER -> << >>
        OBVIOUS
      <4>10. f[<<p, i>>] = tried \o f[<<p, i + 1>>]
        BY <3>2, <3>4, <4>2, <4>9 DEF From
      <4>11. Lists(tried, A)
        <5>1. CASE turn[longer] = "ends"
          <6>1. tried = <<longer>> /\ A = {longer}
            BY <4>7, <4>9, <5>1
          <6> QED BY <6>1, ListsOne
        <5>2. CASE turn[longer] = "goes on"
          <6>1. tried = f[<<longer, 1>>]
            BY <4>9, <5>2
          <6>2. Len(longer) < hops
            <7>1. Len(longer) \in 1 .. hops
              BY <2>1, <4>3
            <7> QED BY <4>3, <5>2, <7>1 DEF Short
          <6>3. Lists(f[<<longer, 1>>], Below(turn, n, hops, longer, 1))
            BY <2>0, <4>1, <4>3, <4>4, <4>7, <5>2, <6>2
          <6> QED BY <4>7, <5>2, <6>1, <6>3
        <5>3. CASE turn[longer] # "ends" /\ turn[longer] # "goes on"
          <6>1. tried = << >> /\ A = {}
            BY <4>7, <4>9, <5>3
          <6> QED BY <6>1, ListsNone
        <5> QED BY <5>1, <5>2, <5>3
      <4>12. PICK B : B = Below(turn, n, hops, p, i + 1)
        OBVIOUS
      <4>13. PICK b : b = f[<<p, i + 1>>]
        OBVIOUS
      <4>14. PICK C : C = A \cup B
        OBVIOUS
      <4>15. Lists(b, B) /\ A \cap B = {} /\ Below(turn, n, hops, p, i) = C
        BY <4>5, <4>8, <4>12, <4>13, <4>14
      <4>16. Lists(tried \o b, C)
        BY <4>11, <4>14, <4>15, ListsBoth
      <4> QED BY <4>10, <4>13, <4>15, <4>16
    <3> QED BY <3>3, <3>4
  <2> QED BY <2>1 DEF T
<1>3. Nat \subseteq T
  <2> HIDE DEF T
  <2> QED BY <1>1, <1>2, NaturalsBySuccessor
<1>4. ASSUME NEW p \in Seq(1 .. n), NEW i \in 1 .. n + 1, Len(p) < hops, Reached(turn, p)
      PROVE  Lists(f[<<p, i>>], Below(turn, n, hops, p, i))
  <2>1. Left(<<p, i>>, n, hops) < hops * (n + 2) /\ hops * (n + 2) \in Nat
    BY <1>4, LeftBounds
  <2>2. hops * (n + 2) \in T
    BY <1>3, <2>1
  <2> QED BY <1>4, <2>1, <2>2
<1> QED BY <1>4

(* The search tries each of the paths that end, once.                      *)
LEMMA VisitsAre ==
    ASSUME NEW given, NEW n \in Nat, n = Len(given), DOMAIN given = 1 .. n,
           NEW hops \in Nat \ {0}, NEW turn, Short(turn, n, hops)
    PROVE  Lists(Visits(given, turn, hops), Completed(turn, n, hops))
<1> DEFINE D == Paths(given, hops - 1) \X (1 .. n + 1)
<1>1. D = Ats(n, hops)
  <2>1. PICK P : P = SeqOf(1 .. n, hops - 1)
    OBVIOUS
  <2>2. hops - 1 \in Int
    OBVIOUS
  <2>3. \A p : p \in P <=> p \in Seq(1 .. n) /\ Len(p) <= hops - 1
    BY <2>1, <2>2, PathsAre
  <2>4. \A p \in Seq(1 .. n) : Len(p) <= hops - 1 <=> Len(p) < hops
    OBVIOUS
  <2>5. P = {p \in Seq(1 .. n) : Len(p) < hops}
    BY <2>3, <2>4
  <2>6. Paths(given, hops - 1) = P
    BY <2>1 DEF Paths
  <2> QED BY <2>5, <2>6 DEF Ats
<1>2. PICK g : Froms(g, Ats(n, hops), n, turn)
  BY FromsExist
<1>3. PICK f : f = CHOOSE h : Froms(h, D, n, turn)
  OBVIOUS
<1>4. Froms(f, Ats(n, hops), n, turn)
  <2> HIDE DEF D
  <2> QED BY <1>1, <1>2, <1>3
<1>5. Visits(given, turn, hops) = f[<< << >>, 1>>]
  BY <1>3 DEF Visits, Froms, From
<1>6. << >> \in Seq(1 .. n) /\ Len(<< >>) = 0 /\ 1 \in 1 .. n + 1 /\ Len(<< >>) < hops
  OBVIOUS
<1>7. Reached(turn, << >>)
  <2>1. 1 .. Len(<< >>) = {}
    OBVIOUS
  <2> QED BY <2>1 DEF Reached, GoesOn
<1>8. Lists(f[<< << >>, 1>>], Below(turn, n, hops, << >>, 1))
  BY <1>4, <1>6, <1>7, VisitsBelow
<1>9. Below(turn, n, hops, << >>, 1) = Completed(turn, n, hops)
  <2> SUFFICES ASSUME NEW q \in Completed(turn, n, hops)
               PROVE  Len(<< >>) < Len(q) /\ SubSeq(q, 1, Len(<< >>)) = << >> /\ q[Len(<< >>) + 1] >= 1
    BY DEF Below
  <2>1. q \in Seq(1 .. n) /\ Len(q) \in Nat \ {0}
    BY CompletedIs
  <2>2. 1 \in 1 .. Len(q) /\ Len(<< >>) = 0
    BY <2>1
  <2>3. q[1] \in 1 .. n
    BY <2>1, <2>2
  <2>4. SubSeq(q, 1, 0) = << >>
    BY <2>1
  <2> QED BY <2>1, <2>2, <2>3, <2>4
<1> QED BY <1>5, <1>8, <1>9

(* The insertions, one after the other.                                    *)
Insert(f, n, trades, results) ==
    IF n = 0 THEN << >> ELSE SortedInsert(f[n - 1], trades[n], results)
Inserts(f, m, trades, results) == f = [n \in 0 .. m |-> Insert(f, n, trades, results)]

LEMMA InsertsExist ==
    ASSUME NEW trades, NEW results, NEW m \in Nat
    PROVE  \E f : Inserts(f, m, trades, results)
<1> DEFINE T == {k \in Nat : \E f : Inserts(f, k, trades, results)}
<1>1. 0 \in T
  <2> DEFINE f == [n \in 0 .. 0 |-> Insert(<< >>, 0, trades, results)]
  <2>1. f = [n \in 0 .. 0 |-> Insert(f, n, trades, results)]
    BY DEF Insert
  <2> HIDE DEF f
  <2>2. Inserts(f, 0, trades, results)
    BY <2>1 DEF Inserts
  <2> QED BY <2>2
<1>2. ASSUME NEW k \in Nat, k \in T PROVE k + 1 \in T
  <2>1. PICK f : Inserts(f, k, trades, results)
    BY <1>2
  <2> DEFINE g == [n \in 0 .. (k + 1) |-> Insert(f, n, trades, results)]
  <2>2. ASSUME NEW n \in 0 .. (k + 1)
        PROVE  Insert(f, n, trades, results) = Insert(g, n, trades, results)
    <3>1. CASE n = 0
      BY <3>1 DEF Insert
    <3>2. CASE n # 0
      <4>1. n - 1 \in 0 .. k /\ n - 1 \in 0 .. (k + 1)
        BY <3>2
      <4>2. f[n - 1] = Insert(f, n - 1, trades, results)
        BY <2>1, <4>1 DEF Inserts
      <4>3. g[n - 1] = Insert(f, n - 1, trades, results)
        BY <4>1
      <4> HIDE DEF g
      <4> QED BY <3>2, <4>2, <4>3 DEF Insert
    <3> QED BY <3>1, <3>2
  <2>3. Inserts(g, k + 1, trades, results)
    <3>1. g = [n \in 0 .. (k + 1) |-> Insert(g, n, trades, results)]
      BY <2>2
    <3> HIDE DEF g
    <3> QED BY <3>1 DEF Inserts
  <2> HIDE DEF g
  <2> QED BY <2>3
<1>3. Nat \subseteq T
  <2> HIDE DEF T
  <2> QED BY <1>1, <1>2, NaturalsBySuccessor
<1> QED BY <1>3

(* The trades that were tried, in whatever order, give the best of them.   *)
LEMMA CollectedIsBest ==
    ASSUME NEW S, \A t \in S : IsTrade(t), NEW trades, Lists(trades, S), NEW results \in Nat \ {0}
    PROVE  IsBest(Collected(trades, results), S, results)
<1>1. PICK N \in Nat : N = Len(trades)
  BY DEF Lists
<1>2. /\ \A i \in 1 .. N : trades[i] \in S
      /\ \A x \in S : \E i \in 1 .. N : trades[i] = x
      /\ \A i, j \in 1 .. N : i < j => trades[i] # trades[j]
  BY <1>1 DEF Lists
<1>3. PICK g : Inserts(g, N, trades, results)
  BY InsertsExist
<1>4. PICK f : f = CHOOSE h : Inserts(h, N, trades, results)
  OBVIOUS
<1>5. Inserts(f, N, trades, results)
  BY <1>3, <1>4
<1>6. Collected(trades, results) = f[N]
  BY <1>1, <1>4 DEF Collected, Inserts, Insert
<1> DEFINE U(n) == {trades[i] : i \in 1 .. n}
           T == {n \in Nat : n <= N => /\ IsFiniteSet(U(n))
                                       /\ f[n] \in Seq(U(n)) /\ IsBest(f[n], U(n), results)}
<1>7. 0 \in T
  <2>1. U(0) = {}
    OBVIOUS
  <2>2. f[0] = << >>
    <3>1. 0 \in 0 .. N
      OBVIOUS
    <3> QED BY <1>5, <3>1 DEF Inserts, Insert
  <2>3. IsFiniteSet({}) /\ Cardinality({}) = 0
    BY FS_EmptySet
  <2>4. IsBest(<< >>, {}, results)
    <3>1. DOMAIN << >> = {} /\ Len(<< >>) = 0
      OBVIOUS
    <3>2. 0 < results
      OBVIOUS
    <3> QED BY <2>3, <3>1, <3>2 DEF IsBest
  <2>5. << >> \in Seq({})
    OBVIOUS
  <2> HIDE DEF U
  <2> QED BY <2>1, <2>2, <2>3, <2>4, <2>5
<1>8. ASSUME NEW n \in Nat, n \in T PROVE n + 1 \in T
  <2> SUFFICES ASSUME n + 1 <= N
               PROVE  /\ IsFiniteSet(U(n + 1))
                      /\ f[n + 1] \in Seq(U(n + 1)) /\ IsBest(f[n + 1], U(n + 1), results)
    OBVIOUS
  <2>1. PICK items : items = f[n]
    OBVIOUS
  <2>2. PICK A : A = U(n)
    OBVIOUS
  <2>3. PICK B : B = U(n + 1)
    OBVIOUS
  <2>4. IsFiniteSet(A) /\ items \in Seq(A) /\ IsBest(items, A, results)
    <3>1. n <= N
      OBVIOUS
    <3> HIDE DEF U
    <3> QED BY <1>8, <2>1, <2>2, <3>1
  <2>5. PICK add : add = trades[n + 1]
    OBVIOUS
  <2>6. n + 1 \in 1 .. N /\ n + 1 \in 0 .. N /\ n + 1 # 0 /\ (n + 1) - 1 = n
    OBVIOUS
  <2>7. \A i \in 1 .. n : i \in 1 .. N /\ i < n + 1
    OBVIOUS
  <2>8. add \notin A
    BY <1>2, <2>2, <2>5, <2>6, <2>7
  <2>9. B = A \cup {add}
    <3>1. 1 .. n + 1 = (1 .. n) \cup {n + 1}
      OBVIOUS
    <3> QED BY <2>2, <2>3, <2>5, <3>1
  <2>10. IsFiniteSet(B)
    BY <2>4, <2>9, FS_AddElement
  <2>11. \A t \in B : IsTrade(t)
    <3>1. \A i \in 1 .. n + 1 : trades[i] \in S
      BY <1>2, <2>6, <2>7
    <3> QED BY <2>3, <3>1
  <2>12. A = B \ {add} /\ add \in B /\ A \subseteq B
    BY <2>8, <2>9
  <2>13. items \in Seq(B)
    BY <2>4, <2>12
  <2>14. f[n + 1] = SortedInsert(items, add, results)
    <3>1. f[n + 1] = Insert(f, n + 1, trades, results)
      BY <1>5, <2>6 DEF Inserts
    <3> QED BY <2>1, <2>5, <2>6, <3>1 DEF Insert
  <2>15. PICK kept : kept = SortedInsert(items, add, results)
    OBVIOUS
  <2>16. kept \in Seq(B) /\ IsBest(kept, B, results)
    BY <2>4, <2>10, <2>11, <2>12, <2>13, <2>15, InsertKeepsBest
  <2> HIDE DEF U
  <2> QED BY <2>3, <2>10, <2>14, <2>15, <2>16
<1>9. Nat \subseteq T
  <2> HIDE DEF T
  <2> QED BY <1>7, <1>8, NaturalsBySuccessor
<1>10. IsBest(f[N], U(N), results)
  <2>1. N \in T /\ N <= N
    BY <1>9
  <2> QED BY <2>1
<1>11. U(N) = S
  BY <1>2
<1> QED BY <1>6, <1>10, <1>11

(* Each pair of a path once: such a path has no more pairs than there are. *)
Free(q) == \A j, k \in 1 .. Len(q) : j < k => q[j] # q[k]

LEMMA FreeIsShort ==
    ASSUME NEW n \in Nat, NEW q \in Seq(1 .. n), Free(q)
    PROVE  Len(q) <= n
<1>1. PICK len \in Nat : len = Len(q)
  OBVIOUS
<1>2. q \in [1 .. len -> 1 .. n]
  BY <1>1
<1>3. \A j, k \in 1 .. len : q[j] = q[k] => j = k
  BY <1>1 DEF Free
<1>4. q \in Injection(1 .. len, 1 .. n)
  BY <1>2, <1>3 DEF Injection, IsInjective
<1>5. /\ IsFiniteSet(1 .. n) /\ Cardinality(1 .. n) = n
      /\ IsFiniteSet(1 .. len) /\ Cardinality(1 .. len) = len
  <2>1. \A m \in Nat : IsFiniteSet(1 .. m) /\ Cardinality(1 .. m) = m
    BY FS_Interval
  <2> QED BY <1>1, <2>1
<1>6. Cardinality(1 .. len) <= Cardinality(1 .. n)
  BY <1>4, <1>5, FS_Injection
<1> QED BY <1>1, <1>5, <1>6

(* What becomes of the prefixes of a path: w are the tokens it reaches,    *)
(* Good are the places of pairs that can be traded.                        *)
Becomes(turn, q, n, hops, w, target, Good) ==
    \A k \in 1 .. Len(q) :
        turn[SubSeq(q, 1, k)] =
            IF (\E j \in 1 .. k - 1 : q[j] = q[k]) \/ k \notin Good THEN "stops"
            ELSE IF w[k] = target THEN "ends"
            ELSE IF k < hops /\ k < n THEN "goes on" ELSE "stops"

LEMMA CompletedWhen ==
    ASSUME NEW n \in Nat, NEW hops \in Nat \ {0}, NEW turn, NEW q \in Seq(1 .. n),
           NEW len \in Nat \ {0}, Len(q) = len, len <= hops, NEW w, NEW target, NEW Good,
           Becomes(turn, q, n, hops, w, target, Good)
    PROVE  q \in Completed(turn, n, hops)
              <=> /\ Free(q) /\ 1 .. len \subseteq Good /\ w[len] = target
                  /\ \A k \in 1 .. len - 1 : w[k] # target
<1>0. \A k \in 1 .. len :
          turn[SubSeq(q, 1, k)] =
              IF (\E j \in 1 .. k - 1 : q[j] = q[k]) \/ k \notin Good THEN "stops"
              ELSE IF w[k] = target THEN "ends"
              ELSE IF k < hops /\ k < n THEN "goes on" ELSE "stops"
  BY DEF Becomes
<1>1. SubSeq(q, 1, len) = q
  BY WholePrefix
<1>2. len \in 1 .. len /\ \A k \in 1 .. len - 1 : k \in 1 .. len /\ k < len
  OBVIOUS
<1>3. q \in Completed(turn, n, hops) <=> turn[q] = "ends" /\ GoesOn(turn, q, len - 1)
  BY CompletedIs
<1>4. GoesOn(turn, q, len - 1) <=> \A k \in 1 .. len - 1 : turn[SubSeq(q, 1, k)] = "goes on"
  BY DEF GoesOn
<1>5. Free(q) <=> \A k \in 1 .. len : ~ \E j \in 1 .. k - 1 : q[j] = q[k]
  <2>1. ASSUME NEW j \in 1 .. len, NEW k \in 1 .. len
        PROVE  j < k <=> j \in 1 .. k - 1
    OBVIOUS
  <2>2. ASSUME NEW k \in 1 .. len, NEW j \in 1 .. k - 1 PROVE j \in 1 .. len
    OBVIOUS
  <2> QED BY <2>1, <2>2 DEF Free
<1>6. ASSUME q \in Completed(turn, n, hops)
      PROVE  /\ Free(q) /\ 1 .. len \subseteq Good /\ w[len] = target
             /\ \A k \in 1 .. len - 1 : w[k] # target
  <2>1. turn[SubSeq(q, 1, len)] = "ends"
    BY <1>1, <1>3, <1>6
  <2>2. \A k \in 1 .. len - 1 : turn[SubSeq(q, 1, k)] = "goes on"
    BY <1>3, <1>4, <1>6
  <2>3. ~ (\E j \in 1 .. len - 1 : q[j] = q[len]) /\ len \in Good /\ w[len] = target
    BY <1>0, <1>2, <2>1
  <2>4. \A k \in 1 .. len - 1 :
            ~ (\E j \in 1 .. k - 1 : q[j] = q[k]) /\ k \in Good /\ w[k] # target
    BY <1>0, <1>2, <2>2
  <2>5. \A k \in 1 .. len : k = len \/ k \in 1 .. len - 1
    OBVIOUS
  <2>6. \A k \in 1 .. len : ~ (\E j \in 1 .. k - 1 : q[j] = q[k]) /\ k \in Good
    BY <2>3, <2>4, <2>5
  <2> QED BY <1>5, <2>3, <2>4, <2>6
<1>7. ASSUME Free(q), 1 .. len \subseteq Good, w[len] = target,
             \A k \in 1 .. len - 1 : w[k] # target
      PROVE  q \in Completed(turn, n, hops)
  <2>1. len <= n
    BY <1>7, FreeIsShort
  <2>2. \A k \in 1 .. len : ~ (\E j \in 1 .. k - 1 : q[j] = q[k]) /\ k \in Good
    BY <1>5, <1>7
  <2>3. turn[SubSeq(q, 1, len)] = "ends"
    BY <1>0, <1>2, <1>7, <2>2
  <2>4. \A k \in 1 .. len - 1 : k < hops /\ k < n
    BY <2>1
  <2>5. \A k \in 1 .. len - 1 : turn[SubSeq(q, 1, k)] = "goes on"
    BY <1>0, <1>2, <1>7, <2>2, <2>4
  <2> QED BY <1>1, <1>3, <1>4, <2>3, <2>5
<1> QED BY <1>6, <1>7

---------------------------------------------------------------------------
(* Amounts of a part of a route.                                           *)
Begins(part, pairs, m) == \A i \in 1 .. m : part[i] = pairs[i]
Ends(part, pairs, m, len, d) ==
    /\ Len(part) = m /\ Len(pairs) = len /\ d + m = len
    /\ \A i \in 1 .. m : part[i] = pairs[i + d]

LEMMA PrefixAlong ==
    ASSUME NEW part, NEW m \in Nat, Len(part) = m, NEW pairs, NEW len \in Nat, Len(pairs) = len,
           m <= len, Begins(part, pairs, m), NEW token, NEW amount
    PROVE  Along(part, token, amount) = AmountsIn(pairs, token, amount)[m]
<1>1. PICK f : f = AmountsIn(part, token, amount)
  OBVIOUS
<1>2. PICK g : g = AmountsIn(pairs, token, amount)
  OBVIOUS
<1>3. HopsIn(f, m, part, token, amount) /\ HopsIn(g, len, pairs, token, amount)
  BY <1>1, <1>2, AmountsInIs
<1>4. \A i \in 0 .. m : f[i] = HopIn(f, i, part, token, amount)
  BY <1>3 DEF HopsIn
<1>5. \A i \in 0 .. len : g[i] = HopIn(g, i, pairs, token, amount)
  BY <1>3 DEF HopsIn
<1> DEFINE T == {k \in Nat : k <= m => f[k] = g[k]}
<1>6. 0 \in T
  <2>1. 0 \in 0 .. m /\ 0 \in 0 .. len
    OBVIOUS
  <2>2. HopIn(f, 0, part, token, amount) = HopIn(g, 0, pairs, token, amount)
    BY DEF HopIn
  <2> QED BY <1>4, <1>5, <2>1, <2>2
<1>7. ASSUME NEW k \in Nat, k \in T PROVE k + 1 \in T
  <2> SUFFICES ASSUME k + 1 <= m PROVE f[k + 1] = g[k + 1]
    OBVIOUS
  <2>1. PICK i \in Nat : i = k + 1
    OBVIOUS
  <2>2. i \in 0 .. m /\ i \in 0 .. len /\ i \in 1 .. m /\ i - 1 = k /\ k <= m
    BY <2>1
  <2>3. f[i - 1] = g[i - 1] /\ part[i] = pairs[i]
    BY <1>7, <2>2 DEF Begins
  <2>4. HopIn(f, i, part, token, amount) = HopIn(g, i, pairs, token, amount)
    BY <2>2, <2>3 DEF HopIn
  <2> QED BY <1>4, <1>5, <2>1, <2>2, <2>4
<1>8. Nat \subseteq T
  <2> HIDE DEF T
  <2> QED BY <1>6, <1>7, NaturalsBySuccessor
<1>9. f[m] = g[m]
  <2>1. m \in T /\ m <= m
    BY <1>8
  <2> QED BY <2>1
<1> QED BY <1>1, <1>2, <1>9 DEF Along

LEMMA SuffixAgainst ==
    ASSUME NEW part, NEW m \in Nat, NEW pairs, NEW len \in Nat, NEW d \in Nat,
           Ends(part, pairs, m, len, d), NEW token, NEW amount
    PROVE  Against(part, token, amount) = AmountsOut(pairs, token, amount)[d]
<1>0. /\ Len(part) = m /\ Len(pairs) = len /\ d + m = len
      /\ \A i \in 1 .. m : part[i] = pairs[i + d]
  BY DEF Ends
<1>1. PICK f : f = AmountsOut(part, token, amount)
  OBVIOUS
<1>2. PICK g : g = AmountsOut(pairs, token, amount)
  OBVIOUS
<1>3. HopsOut(f, 0, part, token, amount) /\ HopsOut(g, 0, pairs, token, amount)
  BY <1>0, <1>1, <1>2, AmountsOutIs
<1>4. \A i \in 0 .. m : f[i] = HopOut(f, i, part, token, amount)
  BY <1>0, <1>3 DEF HopsOut
<1>5. \A i \in 0 .. len : g[i] = HopOut(g, i, pairs, token, amount)
  BY <1>0, <1>3 DEF HopsOut
<1> DEFINE T == {k \in Nat : k <= m => f[m - k] = g[len - k]}
<1>6. 0 \in T
  <2>1. m \in 0 .. m /\ len \in 0 .. len /\ m - 0 = m /\ len - 0 = len
    OBVIOUS
  <2>2. HopOut(f, m, part, token, amount) = HopOut(g, len, pairs, token, amount)
    BY <1>0 DEF HopOut
  <2> QED BY <1>4, <1>5, <2>1, <2>2
<1>7. ASSUME NEW k \in Nat, k \in T PROVE k + 1 \in T
  <2> SUFFICES ASSUME k + 1 <= m PROVE f[m - (k + 1)] = g[len - (k + 1)]
    OBVIOUS
  <2>1. PICK i \in Nat : i = m - (k + 1)
    OBVIOUS
  <2>2. PICK j \in Nat : j = len - (k + 1)
    BY <1>0
  <2>3. /\ i \in 0 .. m /\ j \in 0 .. len /\ i # m /\ j # len
        /\ i + 1 = m - k /\ j + 1 = len - k /\ k <= m /\ i + 1 \in 1 .. m /\ (i + 1) + d = j + 1
    BY <1>0, <2>1, <2>2
  <2>4. f[i + 1] = g[j + 1] /\ part[i + 1] = pairs[j + 1]
    <3>1. f[m - k] = g[len - k]
      BY <1>7, <2>3
    <3>2. part[i + 1] = pairs[(i + 1) + d]
      BY <1>0, <2>3
    <3> QED BY <2>3, <3>1, <3>2
  <2>5. HopOut(f, i, part, token, amount) = HopOut(g, j, pairs, token, amount)
    BY <1>0, <2>3, <2>4 DEF HopOut
  <2> QED BY <1>4, <1>5, <2>1, <2>2, <2>3, <2>5
<1>8. Nat \subseteq T
  <2> HIDE DEF T
  <2> QED BY <1>6, <1>7, NaturalsBySuccessor
<1>9. f[0] = g[d]
  <2>1. m \in T /\ m <= m /\ m - m = 0 /\ len - m = d
    BY <1>0, <1>8
  <2> QED BY <2>1
<1> QED BY <1>1, <1>2, <1>9 DEF Against

(* The tokens a route goes through.                                        *)
Route(s, pairs, len, first, last) ==
    /\ s[0] = first /\ s[len] = last
    /\ \A i \in 1 .. len : DOMAIN pairs[i] = {s[i - 1], s[i]}
AllPairs(pairs, len) == \A i \in 1 .. len : IsPair(pairs[i])
AllOpen(pairs, len) == \A i \in 1 .. len : HasReserves(pairs[i])

IsAlong(f, pairs, len, token, amount) ==
    /\ f[0].token = token /\ f[0].amount = amount /\ f[0].num = 1 /\ f[0].den = 1
    /\ \A k \in 1 .. len :
          /\ f[k].token = Other(pairs[k], f[k - 1].token)
          /\ f[k].amount = OutputAmount(f[k - 1].amount, pairs[k][f[k - 1].token],
                                        pairs[k][f[k].token])
          /\ f[k].num = f[k - 1].num * pairs[k][f[k].token]
          /\ f[k].den = f[k - 1].den * pairs[k][f[k - 1].token]
IsAgainst(g, pairs, len, token, amount) ==
    /\ g[len] = [token |-> token, amount |-> amount]
    /\ \A k \in 1 .. len :
          /\ g[k - 1].token = Other(pairs[k], g[k].token)
          /\ g[k - 1].amount = InputAmount(g[k].amount, pairs[k][g[k - 1].token],
                                           pairs[k][g[k].token])

LEMMA StopsApart ==
    ASSUME NEW p, IsPair(p), NEW s, NEW t, DOMAIN p = {s, t}
    PROVE  /\ s # t /\ Other(p, s) = t /\ Other(p, t) = s
           /\ p[s] \in Nat /\ p[t] \in Nat
           /\ HasReserves(p) => p[s] # 0 /\ p[t] # 0
<1>1. PICK a, b : a # b /\ p \in [{a, b} -> Nat]
  BY DEF IsPair
<1>2. {a, b} = {s, t}
  BY <1>1
<1>3. s # t
  BY <1>1, <1>2
<1> QED BY <1>1, <1>2, <1>3 DEF Other, HasReserves

LEMMA JoinedApart ==
    ASSUME NEW pairs, NEW len \in Nat, AllPairs(pairs, len),
           NEW s, NEW first, NEW last, Route(s, pairs, len, first, last)
    PROVE  \A k \in 1 .. len :
               /\ s[k - 1] # s[k] /\ Other(pairs[k], s[k - 1]) = s[k] /\ Other(pairs[k], s[k]) = s[k - 1]
               /\ pairs[k][s[k - 1]] \in Nat /\ pairs[k][s[k]] \in Nat
               /\ HasReserves(pairs[k]) => pairs[k][s[k - 1]] # 0 /\ pairs[k][s[k]] # 0
<1> SUFFICES ASSUME NEW k \in 1 .. len
             PROVE  /\ s[k - 1] # s[k] /\ Other(pairs[k], s[k - 1]) = s[k]
                    /\ Other(pairs[k], s[k]) = s[k - 1]
                    /\ pairs[k][s[k - 1]] \in Nat /\ pairs[k][s[k]] \in Nat
                    /\ HasReserves(pairs[k]) => pairs[k][s[k - 1]] # 0 /\ pairs[k][s[k]] # 0
  OBVIOUS
<1>1. PICK p : p = pairs[k]
  OBVIOUS
<1>2. PICK a : a = s[k - 1]
  OBVIOUS
<1>3. PICK b : b = s[k]
  OBVIOUS
<1>4. IsPair(p) /\ DOMAIN p = {a, b}
  BY <1>1, <1>2, <1>3 DEF Route, AllPairs
<1>5. /\ a # b /\ Other(p, a) = b /\ Other(p, b) = a
      /\ p[a] \in Nat /\ p[b] \in Nat
      /\ HasReserves(p) => p[a] # 0 /\ p[b] # 0
  BY <1>4, StopsApart
<1> QED BY <1>1, <1>2, <1>3, <1>5

LEMMA AlongNext ==
    ASSUME NEW pairs, NEW len \in Nat, Len(pairs) = len, NEW token, NEW amount
    PROVE  IsAlong(AmountsIn(pairs, token, amount), pairs, len, token, amount)
<1>0. PICK f : f = AmountsIn(pairs, token, amount)
  OBVIOUS
<1>1. HopsIn(f, len, pairs, token, amount)
  BY <1>0, AmountsInIs
<1>2. \A i \in 0 .. len : f[i] = HopIn(f, i, pairs, token, amount)
  BY <1>1 DEF HopsIn
<1>3. 0 \in 0 .. len /\ \A k \in 1 .. len : k \in 0 .. len /\ k # 0
  OBVIOUS
<1>4. f[0].token = token /\ f[0].amount = amount /\ f[0].num = 1 /\ f[0].den = 1
  <2>1. f[0] = HopIn(f, 0, pairs, token, amount)
    BY <1>2, <1>3
  <2> QED BY <2>1 DEF HopIn
<1>5. ASSUME NEW k \in 1 .. len
      PROVE  /\ f[k].token = Other(pairs[k], f[k - 1].token)
             /\ f[k].amount = OutputAmount(f[k - 1].amount, pairs[k][f[k - 1].token],
                                           pairs[k][f[k].token])
             /\ f[k].num = f[k - 1].num * pairs[k][f[k].token]
             /\ f[k].den = f[k - 1].den * pairs[k][f[k - 1].token]
  <2>1. f[k] = HopIn(f, k, pairs, token, amount) /\ k # 0
    BY <1>2, <1>3
  <2> QED BY <2>1 DEF HopIn
<1> QED BY <1>0, <1>4, <1>5 DEF IsAlong

LEMMA AgainstNext ==
    ASSUME NEW pairs, NEW len \in Nat, Len(pairs) = len, NEW token, NEW amount
    PROVE  IsAgainst(AmountsOut(pairs, token, amount), pairs, len, token, amount)
<1>0. PICK g : g = AmountsOut(pairs, token, amount)
  OBVIOUS
<1>1. HopsOut(g, 0, pairs, token, amount)
  BY <1>0, AmountsOutIs
<1>2. \A i \in 0 .. len : g[i] = HopOut(g, i, pairs, token, amount)
  BY <1>1 DEF HopsOut
<1>3. len \in 0 .. len /\ \A k \in 1 .. len : k - 1 \in 0 .. len /\ k - 1 # len /\ (k - 1) + 1 = k
  OBVIOUS
<1>4. g[len] = HopOut(g, len, pairs, token, amount)
  BY <1>2, <1>3
<1>5. ASSUME NEW k \in 1 .. len
      PROVE  /\ g[k - 1].token = Other(pairs[k], g[k].token)
             /\ g[k - 1].amount = InputAmount(g[k].amount, pairs[k][g[k - 1].token],
                                              pairs[k][g[k].token])
  <2>1. g[k - 1] = HopOut(g, k - 1, pairs, token, amount) /\ k - 1 # len /\ (k - 1) + 1 = k
    BY <1>2, <1>3
  <2> QED BY <2>1 DEF HopOut
<1>6. g[len] = [token |-> token, amount |-> amount]
  BY <1>4 DEF HopOut
<1> QED BY <1>0, <1>5, <1>6 DEF IsAgainst

(* Along a route through given tokens these are the tokens of the amounts. *)
LEMMA TokensAlong ==
    ASSUME NEW pairs, NEW len \in Nat, Len(pairs) = len, AllPairs(pairs, len),
           NEW s, NEW first, NEW last, Route(s, pairs, len, first, last), NEW amount,
           NEW f, IsAlong(f, pairs, len, first, amount)
    PROVE  \A k \in 0 .. len : f[k].token = s[k]
<1>1. /\ f[0].token = s[0]
      /\ \A k \in 1 .. len : f[k].token = Other(pairs[k], f[k - 1].token)
  BY DEF IsAlong, Route
<1>2. \A k \in 1 .. len : Other(pairs[k], s[k - 1]) = s[k]
  BY JoinedApart DEF AllOpen
<1> DEFINE T == {k \in Nat : k <= len => f[k].token = s[k]}
<1>3. 0 \in T
  BY <1>1
<1>4. ASSUME NEW k \in Nat, k \in T PROVE k + 1 \in T
  <2> SUFFICES ASSUME k + 1 <= len PROVE f[k + 1].token = s[k + 1]
    OBVIOUS
  <2>1. PICK i \in Nat : i = k + 1
    OBVIOUS
  <2>2. i \in 1 .. len /\ i - 1 = k /\ k <= len
    BY <2>1
  <2>3. f[k].token = s[k]
    BY <1>4, <2>2
  <2> QED BY <1>1, <1>2, <2>1, <2>2, <2>3
<1>5. Nat \subseteq T
  <2> HIDE DEF T
  <2> QED BY <1>3, <1>4, NaturalsBySuccessor
<1>6. \A k \in 0 .. len : k \in T /\ k <= len
  BY <1>5
<1> QED BY <1>6

LEMMA TokensAgainst ==
    ASSUME NEW pairs, NEW len \in Nat, Len(pairs) = len, AllPairs(pairs, len),
           NEW s, NEW first, NEW last, Route(s, pairs, len, first, last), NEW amount,
           NEW g, IsAgainst(g, pairs, len, last, amount)
    PROVE  \A k \in 0 .. len : g[k].token = s[k]
<1>1. /\ g[len].token = s[len]
      /\ \A k \in 1 .. len : g[k - 1].token = Other(pairs[k], g[k].token)
  BY DEF IsAgainst, Route
<1>2. \A k \in 1 .. len : Other(pairs[k], s[k]) = s[k - 1]
  BY JoinedApart DEF AllOpen
<1> DEFINE T == {k \in Nat : k <= len => g[len - k].token = s[len - k]}
<1>3. 0 \in T
  <2>1. len - 0 = len
    OBVIOUS
  <2> QED BY <1>1, <2>1
<1>4. ASSUME NEW k \in Nat, k \in T PROVE k + 1 \in T
  <2> SUFFICES ASSUME k + 1 <= len PROVE g[len - (k + 1)].token = s[len - (k + 1)]
    OBVIOUS
  <2>1. PICK i \in Nat : i = len - k
    OBVIOUS
  <2>2. i \in 1 .. len /\ i - 1 = len - (k + 1) /\ k <= len
    BY <2>1
  <2>3. g[i].token = s[i]
    BY <1>4, <2>1, <2>2
  <2> QED BY <1>1, <1>2, <2>2, <2>3
<1>5. Nat \subseteq T
  <2> HIDE DEF T
  <2> QED BY <1>3, <1>4, NaturalsBySuccessor
<1>6. ASSUME NEW k \in 0 .. len PROVE g[k].token = s[k]
  <2>1. len - k \in Nat /\ len - k <= len /\ len - (len - k) = k
    OBVIOUS
  <2> QED BY <1>5, <2>1
<1> QED BY <1>6

(* The mid price is a fraction.                                            *)
LEMMA MidPrice ==
    ASSUME NEW pairs, NEW len \in Nat, Len(pairs) = len,
           AllPairs(pairs, len), AllOpen(pairs, len),
           NEW s, NEW first, NEW last, Route(s, pairs, len, first, last), NEW amount,
           NEW f, IsAlong(f, pairs, len, first, amount)
    PROVE  \A k \in 0 .. len : f[k].num \in Nat \ {0} /\ f[k].den \in Nat \ {0}
<1>1. /\ f[0].num = 1 /\ f[0].den = 1
      /\ \A k \in 1 .. len : /\ f[k].num = f[k - 1].num * pairs[k][f[k].token]
                             /\ f[k].den = f[k - 1].den * pairs[k][f[k - 1].token]
  BY DEF IsAlong, Route
<1>2. \A k \in 0 .. len : f[k].token = s[k]
  BY TokensAlong
<1>3. \A k \in 1 .. len : /\ Other(pairs[k], s[k - 1]) = s[k]
                          /\ pairs[k][s[k - 1]] \in Nat \ {0} /\ pairs[k][s[k]] \in Nat \ {0}
  BY JoinedApart DEF AllOpen
<1> DEFINE T == {k \in Nat : k <= len => f[k].num \in Nat \ {0} /\ f[k].den \in Nat \ {0}}
<1>4. 0 \in T
  BY <1>1
<1>5. ASSUME NEW k \in Nat, k \in T PROVE k + 1 \in T
  <2> SUFFICES ASSUME k + 1 <= len PROVE f[k + 1].num \in Nat \ {0} /\ f[k + 1].den \in Nat \ {0}
    OBVIOUS
  <2>1. PICK i \in Nat : i = k + 1
    OBVIOUS
  <2>2. i \in 1 .. len /\ i \in 0 .. len /\ i - 1 = k /\ k <= len /\ k \in 0 .. len
    BY <2>1
  <2>3. f[k].num \in Nat \ {0} /\ f[k].den \in Nat \ {0} /\ f[k].token = s[k] /\ f[i].token = s[i]
    BY <1>2, <1>5, <2>2
  <2>4. f[i].num = f[k].num * pairs[i][s[i]] /\ f[i].den = f[k].den * pairs[i][s[k]]
    BY <1>1, <2>2, <2>3
  <2>5. pairs[i][s[k]] \in Nat \ {0} /\ pairs[i][s[i]] \in Nat \ {0}
    BY <1>3, <2>2
  <2>6. \A a, b \in Nat \ {0} : a * b \in Nat \ {0}
    OBVIOUS
  <2>7. f[i].num \in Nat \ {0} /\ f[i].den \in Nat \ {0}
    BY <2>3, <2>4, <2>5, <2>6
  <2> QED BY <2>1, <2>7
<1>6. Nat \subseteq T
  <2> HIDE DEF T
  <2> QED BY <1>4, <1>5, NaturalsBySuccessor
<1>7. \A k \in 0 .. len : k \in T /\ k <= len
  BY <1>6
<1> QED BY <1>7

LEMMA OutputType ==
    ASSUME NEW amount \in Nat, NEW rin \in Nat \ {0}, NEW rout \in Nat \ {0}
    PROVE  OutputAmount(amount, rin, rout) \in Nat /\ OutputAmount(0, rin, rout) = 0
<1>1. 997 * amount * rout \in Nat /\ 1000 * rin + 997 * amount \in Nat \ {0}
  OBVIOUS
<1>2. OutputAmount(amount, rin, rout) \in Nat
  BY <1>1, Division DEF OutputAmount
<1>3. 997 * 0 * rout = 0 /\ 1000 * rin + 997 * 0 \in Nat \ {0}
  OBVIOUS
<1>4. \A d \in Nat \ {0} : 0 \div d = 0
  OBVIOUS
<1> QED BY <1>2, <1>3, <1>4 DEF OutputAmount

(* What is left of an amount along a route.                                *)
Leaves(f, pairs, s, len) ==
    /\ \A k \in 0 .. len : f[k].amount \in Nat
    /\ f[len].amount # 0 => \A k \in 0 .. len : f[k].amount # 0
    /\ \A k \in 1 .. len : f[k].amount = OutputAmount(f[k - 1].amount, pairs[k][s[k - 1]], pairs[k][s[k]])

(* What is left of an amount is nothing if it is nothing anywhere.         *)
LEMMA AmountsAlong ==
    ASSUME NEW pairs, NEW len \in Nat, Len(pairs) = len,
           AllPairs(pairs, len), AllOpen(pairs, len),
           NEW s, NEW first, NEW last, Route(s, pairs, len, first, last), NEW amount, amount \in Nat,
           NEW f, IsAlong(f, pairs, len, first, amount)
    PROVE  Leaves(f, pairs, s, len)
<1>1. /\ f[0].amount = amount
      /\ \A k \in 1 .. len : f[k].amount = OutputAmount(f[k - 1].amount, pairs[k][f[k - 1].token],
                                                        pairs[k][f[k].token])
  BY DEF IsAlong, Route
<1>2. \A k \in 0 .. len : f[k].token = s[k]
  BY TokensAlong
<1>3. \A k \in 1 .. len : /\ Other(pairs[k], s[k - 1]) = s[k]
                          /\ pairs[k][s[k - 1]] \in Nat \ {0} /\ pairs[k][s[k]] \in Nat \ {0}
  BY JoinedApart DEF AllOpen
<1>4. ASSUME NEW k \in 1 .. len
      PROVE  f[k].amount = OutputAmount(f[k - 1].amount, pairs[k][s[k - 1]], pairs[k][s[k]])
  <2>1. k - 1 \in 0 .. len /\ k \in 0 .. len
    OBVIOUS
  <2>2. f[k - 1].token = s[k - 1] /\ f[k].token = s[k]
    BY <1>2, <2>1
  <2> QED BY <1>1, <2>2
<1>5. \A k \in 0 .. len : f[k].amount \in Nat
  <2> DEFINE T == {k \in Nat : k <= len => f[k].amount \in Nat}
  <2>1. 0 \in T
    BY <1>1
  <2>2. ASSUME NEW k \in Nat, k \in T PROVE k + 1 \in T
    <3> SUFFICES ASSUME k + 1 <= len PROVE f[k + 1].amount \in Nat
      OBVIOUS
    <3>1. PICK i \in Nat : i = k + 1
      OBVIOUS
    <3>2. i \in 1 .. len /\ i - 1 = k /\ k <= len
      BY <3>1
    <3>3. f[k].amount \in Nat
      BY <2>2, <3>2
    <3>4. OutputAmount(f[k].amount, pairs[i][s[k]], pairs[i][s[i]]) \in Nat
      BY <1>3, <3>2, <3>3, OutputType
    <3> QED BY <1>4, <3>1, <3>2, <3>4
  <2>3. Nat \subseteq T
    <3> HIDE DEF T
    <3> QED BY <2>1, <2>2, NaturalsBySuccessor
  <2>4. \A k \in 0 .. len : k \in T /\ k <= len
    BY <2>3
  <2> QED BY <2>4
<1>6. ASSUME f[len].amount # 0 PROVE \A k \in 0 .. len : f[k].amount # 0
  <2> DEFINE T == {k \in Nat : k <= len => f[len - k].amount # 0}
  <2>1. 0 \in T
    <3>1. len - 0 = len
      OBVIOUS
    <3> QED BY <1>6, <3>1
  <2>2. ASSUME NEW k \in Nat, k \in T PROVE k + 1 \in T
    <3> SUFFICES ASSUME k + 1 <= len PROVE f[len - (k + 1)].amount # 0
      OBVIOUS
    <3>1. PICK i \in Nat : i = len - k
      OBVIOUS
    <3>2. i \in 1 .. len /\ i - 1 = len - (k + 1) /\ k <= len
      BY <3>1
    <3>3. f[i].amount # 0
      BY <2>2, <3>1, <3>2
    <3>4. OutputAmount(0, pairs[i][s[i - 1]], pairs[i][s[i]]) = 0
      BY <1>3, <3>2, OutputType
    <3> QED BY <1>4, <3>2, <3>3, <3>4
  <2>3. Nat \subseteq T
    <3> HIDE DEF T
    <3> QED BY <2>1, <2>2, NaturalsBySuccessor
  <2>4. ASSUME NEW k \in 0 .. len PROVE f[k].amount # 0
    <3>1. len - k \in Nat /\ len - k <= len /\ len - (len - k) = k
      OBVIOUS
    <3> QED BY <2>3, <3>1
  <2> QED BY <2>4
<1> QED BY <1>4, <1>5, <1>6 DEF Leaves

ArePairs(pairs, given, q, len) ==
    DOMAIN pairs = 1 .. len /\ Len(pairs) = len /\ \A i \in 1 .. len : pairs[i] = given[q[i]]
IsReverse(r, q, n, len) ==
    /\ r \in Seq(1 .. n) /\ Len(r) = len
    /\ \A i \in 1 .. len : r[i] = q[len - i + 1] /\ len - i + 1 \in 1 .. len
IsPartOfPath(p, given, hops, q, n, k) ==
    /\ p \in Paths(given, hops) \ {<< >>} /\ Len(p) = k /\ Last(p) = q[k]
    /\ Front(p) \in Seq(1 .. n) /\ Len(Front(p)) = k - 1
    /\ \A i \in 1 .. k - 1 : Front(p)[i] = q[i]
    /\ Taken(p) <=> \E j \in 1 .. k - 1 : q[j] = q[k]

LEMMA PairsAre ==
    ASSUME NEW given, NEW n \in Nat, NEW q \in Seq(1 .. n), NEW len \in Nat, Len(q) = len
    PROVE  ArePairs(Pairs(given, q), given, q, len)
<1>1. DOMAIN q = 1 .. len
  OBVIOUS
<1> QED BY <1>1 DEF Pairs, ArePairs

LEMMA ReverseIs ==
    ASSUME NEW n \in Nat, NEW q \in Seq(1 .. n), NEW len \in Nat, Len(q) = len
    PROVE  IsReverse(Reverse(q), q, n, len)
<1>1. Reverse(q) = [i \in 1 .. len |-> q[(len - i) + 1]]
  BY DEF Reverse
<1>2. \A i \in 1 .. len : len - i + 1 \in 1 .. len
  OBVIOUS
<1>3. \A i \in 1 .. len : q[i] \in 1 .. n
  OBVIOUS
<1>4. Reverse(q) \in [1 .. len -> 1 .. n]
  BY <1>1, <1>2, <1>3
<1>5. Reverse(q) \in Seq(1 .. n) /\ Len(Reverse(q)) = len
  BY <1>4
<1> QED BY <1>1, <1>2, <1>5 DEF IsReverse

(* The prefixes of a path are among those that have turns.                 *)
LEMMA PrefixHas ==
    ASSUME NEW given, NEW n \in Nat, DOMAIN given = 1 .. n, NEW hops \in Nat \ {0},
           NEW q \in Seq(1 .. n), NEW len \in Nat \ {0}, Len(q) = len, len <= hops,
           NEW k \in 1 .. len
    PROVE  IsPartOfPath(SubSeq(q, 1, k), given, hops, q, n, k)
<1>1. PICK p : p = SubSeq(q, 1, k)
  OBVIOUS
<1>2. k \in Nat \ {0} /\ k <= len /\ k \in 0 .. len /\ k - 1 \in 0 .. len /\ k - 1 \in 0 .. k /\ k <= hops
      /\ k \in 1 .. k /\ \A j \in 1 .. k - 1 : j \in 1 .. k
  OBVIOUS
<1>3. p \in Seq(1 .. n) /\ Len(p) = k /\ \A i \in 1 .. k : p[i] = q[i]
  BY <1>1, <1>2, PrefixIs
<1>4. Front(p) = SubSeq(q, 1, k - 1)
  <2>1. SubSeq(p, 1, k - 1) = SubSeq(q, 1, k - 1)
    BY <1>1, <1>2, PrefixOfPrefix
  <2> QED BY <1>3, <2>1 DEF Front
<1>5. /\ SubSeq(q, 1, k - 1) \in Seq(1 .. n) /\ Len(SubSeq(q, 1, k - 1)) = k - 1
      /\ \A i \in 1 .. k - 1 : SubSeq(q, 1, k - 1)[i] = q[i]
  BY <1>2, PrefixIs
<1>6. Last(p) = q[k]
  BY <1>2, <1>3 DEF Last
<1>7. Taken(p) <=> \E j \in 1 .. k - 1 : q[j] = q[k]
  BY <1>2, <1>3 DEF Taken
<1>8. p \in Paths(given, hops) \ {<< >>}
  <2>1. PICK P : P = SeqOf(1 .. n, hops)
    OBVIOUS
  <2>2. hops \in Int
    OBVIOUS
  <2>3. \A r : r \in P <=> r \in Seq(1 .. n) /\ Len(r) <= hops
    BY <2>1, <2>2, PathsAre
  <2>4. p \in P
    BY <1>2, <1>3, <2>3
  <2>5. p # << >>
    <3>1. Len(<< >>) = 0
      OBVIOUS
    <3> QED BY <1>2, <1>3, <3>1
  <2> QED BY <2>1, <2>4, <2>5 DEF Paths
<1> QED BY <1>1, <1>3, <1>4, <1>5, <1>6, <1>7, <1>8 DEF IsPartOfPath

(* What becomes of the prefixes of a path, from the input on.              *)
GoodIn(f, pairs, k) ==
    f[k - 1].token \in DOMAIN pairs[k] /\ GivesOutput(pairs[k], f[k - 1].token, f[k - 1].amount)

ComputedIn(f, pairs, given, q, ask) ==
    pairs = Pairs(given, q) /\ f = AmountsIn(pairs, ask.tokenIn, ask.amount)
GoodsIn(f, pairs, len) == {k \in 1 .. len : GoodIn(f, pairs, k)}
TellsIn(w, f, len) == \A k \in 1 .. len : w[k] = f[k].token

LEMMA BecomesIn ==
    ASSUME NEW given, NEW n \in Nat, Len(given) = n, DOMAIN given = 1 .. n,
           NEW hops \in Nat \ {0}, NEW ask, NEW q \in Seq(1 .. n),
           NEW len \in Nat \ {0}, Len(q) = len, len <= hops,
           NEW pairs, NEW f, ComputedIn(f, pairs, given, q, ask),
           NEW w, TellsIn(w, f, len)
    PROVE  Becomes(TurnsIn(given, ask, hops), q, n, hops, w, ask.tokenOut,
                   GoodsIn(f, pairs, len))
<1>0. ArePairs(pairs, given, q, len)
  BY PairsAre DEF ComputedIn
<1>1. Len(pairs) = len /\ \A i \in 1 .. len : pairs[i] = given[q[i]]
  BY <1>0 DEF ArePairs
<1>2. PICK turn : turn = TurnsIn(given, ask, hops)
  OBVIOUS
<1>3. PICK Good : Good = GoodsIn(f, pairs, len)
  OBVIOUS
<1>4. ASSUME NEW k \in 1 .. len
      PROVE  turn[SubSeq(q, 1, k)] =
                 IF (\E j \in 1 .. k - 1 : q[j] = q[k]) \/ k \notin Good THEN "stops"
                 ELSE IF w[k] = ask.tokenOut THEN "ends"
                 ELSE IF k < hops /\ k < n THEN "goes on" ELSE "stops"
  <2>1. PICK p : p = SubSeq(q, 1, k)
    OBVIOUS
  <2>0. IsPartOfPath(p, given, hops, q, n, k)
    BY <2>1, PrefixHas
  <2>2. /\ p \in Paths(given, hops) \ {<< >>} /\ Len(p) = k
        /\ Last(p) = q[k]
        /\ Front(p) \in Seq(1 .. n) /\ Len(Front(p)) = k - 1
        /\ \A i \in 1 .. k - 1 : Front(p)[i] = q[i]
        /\ Taken(p) <=> \E j \in 1 .. k - 1 : q[j] = q[k]
    BY <2>0 DEF IsPartOfPath
  <2>3. PICK part : part = Pairs(given, Front(p))
    OBVIOUS
  <2>4. PICK m \in Nat : m = k - 1
    OBVIOUS
  <2>18. ArePairs(part, given, Front(p), m)
    BY <2>2, <2>3, <2>4, PairsAre
  <2>5. Len(part) = m /\ \A i \in 1 .. m : part[i] = given[Front(p)[i]]
    BY <2>18 DEF ArePairs
  <2>6. m <= len /\ \A i \in 1 .. m : i \in 1 .. len
    BY <2>4
  <2>7. Begins(part, pairs, m)
    <3> SUFFICES ASSUME NEW i \in 1 .. m PROVE part[i] = pairs[i]
      BY DEF Begins
    <3>1. i \in 1 .. k - 1 /\ i \in 1 .. len
      BY <2>4, <2>6
    <3>2. part[i] = given[Front(p)[i]] /\ Front(p)[i] = q[i] /\ pairs[i] = given[q[i]]
      BY <1>1, <2>2, <2>5, <3>1
    <3> QED BY <3>2
  <2>8. PICK at : at = Along(part, ask.tokenIn, ask.amount)
    OBVIOUS
  <2>9. at = f[k - 1]
    <3>1. Along(part, ask.tokenIn, ask.amount) = AmountsIn(pairs, ask.tokenIn, ask.amount)[m]
      BY <1>1, <2>5, <2>6, <2>7, PrefixAlong
    <3> QED BY <2>4, <2>8, <3>1 DEF ComputedIn
  <2>10. turn[p] = IF Taken(p) \/ at.token \notin DOMAIN given[Last(p)]
                      \/ ~ GivesOutput(given[Last(p)], at.token, at.amount)
                   THEN "stops" ELSE Turn(given, p, at.token, ask.tokenOut, hops)
    BY <1>2, <2>2, <2>3, <2>8 DEF TurnsIn
  <2>11. k \in Good <=> GoodIn(f, pairs, k)
    BY <1>3 DEF GoodsIn
  <2>12. GoodIn(f, pairs, k) <=> /\ at.token \in DOMAIN given[Last(p)]
                                 /\ GivesOutput(given[Last(p)], at.token, at.amount)
    BY <1>1, <2>2, <2>9 DEF GoodIn
  <2>13. w[k] = Other(given[Last(p)], at.token)
    <3>1. IsAlong(f, pairs, len, ask.tokenIn, ask.amount)
      BY <1>1, AlongNext DEF ComputedIn
    <3>2. f[k].token = Other(pairs[k], f[k - 1].token)
      BY <3>1 DEF IsAlong
    <3> QED BY <1>1, <2>2, <2>9, <3>2 DEF TellsIn
  <2>14. Turn(given, p, at.token, ask.tokenOut, hops) =
             IF w[k] = ask.tokenOut THEN "ends"
             ELSE IF k < hops /\ k < n THEN "goes on" ELSE "stops"
    BY <2>2, <2>13 DEF Turn
  <2> QED BY <2>1, <2>2, <2>10, <2>11, <2>12, <2>14
<1> QED BY <1>2, <1>3, <1>4 DEF Becomes

(* And from the output backwards.                                          *)
GoodOut(g, pairs, len, k) ==
    LET i == len - k + 1
    IN  /\ g[i].token \in DOMAIN pairs[i]
        /\ TakesInput(pairs[i], Other(pairs[i], g[i].token), g[i].amount)

ComputedOut(g, pairs, given, q, ask) ==
    pairs = Pairs(given, Reverse(q)) /\ g = AmountsOut(pairs, ask.tokenOut, ask.amount)
GoodsOut(g, pairs, len) == {k \in 1 .. len : GoodOut(g, pairs, len, k)}
TellsOut(w, g, len) == \A k \in 1 .. len : w[k] = g[len - k].token

IsFrom(part, pairs, token, amount, d) ==
    Against(part, token, amount) = AmountsOut(pairs, token, amount)[d]

LEMMA SuffixIs ==
    ASSUME NEW part, NEW pairs, NEW m \in Nat, NEW len \in Nat \ {0}, NEW d \in Nat,
           Ends(part, pairs, m, len, d), NEW token, NEW amount
    PROVE  IsFrom(part, pairs, token, amount, d)
<1>1. len \in Nat
  OBVIOUS
<1>2. Against(part, token, amount) = AmountsOut(pairs, token, amount)[d]
  BY <1>1, SuffixAgainst
<1> QED BY <1>2 DEF IsFrom

LEMMA BecomesOut ==
    ASSUME NEW given, NEW n \in Nat, Len(given) = n, DOMAIN given = 1 .. n,
           NEW hops \in Nat \ {0}, NEW ask, NEW q \in Seq(1 .. n),
           NEW len \in Nat \ {0}, Len(q) = len, len <= hops,
           NEW pairs, NEW g, ComputedOut(g, pairs, given, q, ask),
           NEW w, TellsOut(w, g, len)
    PROVE  Becomes(TurnsOut(given, ask, hops), q, n, hops, w, ask.tokenIn,
                   GoodsOut(g, pairs, len))
<1>1. Len(pairs) = len /\ \A i \in 1 .. len : pairs[i] = given[q[len - i + 1]]
  <2>1. /\ Reverse(q) \in Seq(1 .. n) /\ Len(Reverse(q)) = len
        /\ \A i \in 1 .. len : Reverse(q)[i] = q[len - i + 1]
    <3>1. IsReverse(Reverse(q), q, n, len)
      BY ReverseIs
    <3> QED BY <3>1 DEF IsReverse
  <2>2. ArePairs(pairs, given, Reverse(q), len)
    BY <2>1, PairsAre DEF ComputedOut
  <2> QED BY <2>1, <2>2 DEF ArePairs
<1>2. PICK turn : turn = TurnsOut(given, ask, hops)
  OBVIOUS
<1>3. PICK Good : Good = GoodsOut(g, pairs, len)
  OBVIOUS
<1>4. ASSUME NEW k \in 1 .. len
      PROVE  turn[SubSeq(q, 1, k)] =
                 IF (\E j \in 1 .. k - 1 : q[j] = q[k]) \/ k \notin Good THEN "stops"
                 ELSE IF w[k] = ask.tokenIn THEN "ends"
                 ELSE IF k < hops /\ k < n THEN "goes on" ELSE "stops"
  <2>1. PICK p : p = SubSeq(q, 1, k)
    OBVIOUS
  <2>0. IsPartOfPath(p, given, hops, q, n, k)
    BY <2>1, PrefixHas
  <2>2. /\ p \in Paths(given, hops) \ {<< >>} /\ Len(p) = k
        /\ Last(p) = q[k]
        /\ Front(p) \in Seq(1 .. n) /\ Len(Front(p)) = k - 1
        /\ \A i \in 1 .. k - 1 : Front(p)[i] = q[i]
        /\ Taken(p) <=> \E j \in 1 .. k - 1 : q[j] = q[k]
    BY <2>0 DEF IsPartOfPath
  <2>3. PICK part : part = Pairs(given, Reverse(Front(p)))
    OBVIOUS
  <2>4. PICK m \in Nat : m = k - 1
    OBVIOUS
  <2>15. /\ Reverse(Front(p)) \in Seq(1 .. n) /\ Len(Reverse(Front(p))) = m
         /\ \A i \in 1 .. m : Reverse(Front(p))[i] = Front(p)[m - i + 1] /\ m - i + 1 \in 1 .. m
    <3>1. IsReverse(Reverse(Front(p)), Front(p), n, m)
      BY <2>2, <2>4, ReverseIs
    <3> QED BY <3>1 DEF IsReverse
  <2>18. ArePairs(part, given, Reverse(Front(p)), m)
    BY <2>3, <2>15, PairsAre
  <2>5. Len(part) = m /\ \A i \in 1 .. m : part[i] = given[Reverse(Front(p))[i]]
    BY <2>18 DEF ArePairs
  <2>16. PICK d \in Nat : d = len - m
    BY <2>4
  <2>6. d + m = len /\ d = len - k + 1 /\ d \in 1 .. len
        /\ \A i \in 1 .. m : i + d \in 1 .. len /\ len - (i + d) + 1 = m - i + 1
    BY <2>4, <2>16
  <2>7. Ends(part, pairs, m, len, d)
    <3> SUFFICES ASSUME NEW i \in 1 .. m PROVE part[i] = pairs[i + d]
      BY <1>1, <2>5, <2>6 DEF Ends
    <3>1. part[i] = given[q[m - i + 1]]
      BY <2>2, <2>4, <2>5, <2>15
    <3>2. pairs[i + d] = given[q[m - i + 1]]
      BY <1>1, <2>6
    <3> QED BY <3>1, <3>2
  <2>8. PICK at : at = Against(part, ask.tokenOut, ask.amount)
    OBVIOUS
  <2>9. at = g[d]
    <3>2. Against(part, ask.tokenOut, ask.amount) = AmountsOut(pairs, ask.tokenOut, ask.amount)[d]
      <4>1. IsFrom(part, pairs, ask.tokenOut, ask.amount, d)
        BY <2>7, SuffixIs
      <4> QED BY <4>1 DEF IsFrom
    <3> QED BY <2>8, <3>2 DEF ComputedOut
  <2>10. turn[p] = IF \/ Taken(p) \/ at.token \notin DOMAIN given[Last(p)]
                      \/ ~ TakesInput(given[Last(p)], Other(given[Last(p)], at.token), at.amount)
                   THEN "stops" ELSE Turn(given, p, at.token, ask.tokenIn, hops)
    BY <1>2, <2>2, <2>3, <2>8 DEF TurnsOut
  <2>17. pairs[d] = given[Last(p)]
    <3>1. len - d + 1 = k /\ d \in 1 .. len
      BY <2>6
    <3>2. pairs[d] = given[q[len - d + 1]]
      BY <1>1, <3>1
    <3> QED BY <2>2, <3>1, <3>2
  <2>11. k \in Good <=> GoodOut(g, pairs, len, k)
    BY <1>3 DEF GoodsOut
  <2>12. GoodOut(g, pairs, len, k) <=>
             /\ at.token \in DOMAIN given[Last(p)]
             /\ TakesInput(given[Last(p)], Other(given[Last(p)], at.token), at.amount)
    BY <2>6, <2>9, <2>17 DEF GoodOut
  <2>13. w[k] = Other(given[Last(p)], at.token)
    <3>1. IsAgainst(g, pairs, len, ask.tokenOut, ask.amount)
      BY <1>1, AgainstNext DEF ComputedOut
    <3>2. g[d - 1].token = Other(pairs[d], g[d].token)
      BY <2>6, <3>1 DEF IsAgainst
    <3>3. d - 1 = len - k
      BY <2>6
    <3> QED BY <2>9, <2>17, <3>2, <3>3 DEF TellsOut
  <2>14. Turn(given, p, at.token, ask.tokenIn, hops) =
             IF w[k] = ask.tokenIn THEN "ends"
             ELSE IF k < hops /\ k < n THEN "goes on" ELSE "stops"
    BY <2>2, <2>13 DEF Turn
  <2> QED BY <2>1, <2>2, <2>10, <2>11, <2>12, <2>14
<1> QED BY <1>2, <1>3, <1>4 DEF Becomes

(* All pairs of a path can be traded, and it ends where it should.         *)
AllGoodIn(f, pairs, len, last, arrival) ==
    /\ \A k \in 1 .. len : GoodIn(f, pairs, k)
    /\ f[len].token = last
    /\ \A k \in 1 .. len - 1 : f[k].token # arrival
AllGoodOut(g, pairs, len, first, arrival) ==
    /\ \A k \in 1 .. len : GoodOut(g, pairs, len, k)
    /\ g[0].token = first
    /\ \A k \in 1 .. len - 1 : g[k].token # arrival

LEMMA CompletedIn ==
    ASSUME NEW given, NEW n \in Nat, Len(given) = n, DOMAIN given = 1 .. n,
           NEW hops \in Nat \ {0}, NEW ask, NEW q \in Seq(1 .. n),
           NEW len \in Nat \ {0}, Len(q) = len, len <= hops,
           NEW pairs, NEW f, ComputedIn(f, pairs, given, q, ask)
    PROVE  q \in Completed(TurnsIn(given, ask, hops), n, hops)
              <=> Free(q) /\ AllGoodIn(f, pairs, len, ask.tokenOut, ask.tokenOut)
<1>1. PICK w : w = [k \in 1 .. len |-> f[k].token]
  OBVIOUS
<1>2. PICK Good : Good = GoodsIn(f, pairs, len)
  OBVIOUS
<1>3. TellsIn(w, f, len)
  BY <1>1 DEF TellsIn
<1>4. PICK turn : turn = TurnsIn(given, ask, hops)
  OBVIOUS
<1>5. Becomes(turn, q, n, hops, w, ask.tokenOut, Good)
  BY <1>2, <1>3, <1>4, BecomesIn
<1>6. q \in Completed(turn, n, hops)
          <=> /\ Free(q) /\ 1 .. len \subseteq Good /\ w[len] = ask.tokenOut
              /\ \A k \in 1 .. len - 1 : w[k] # ask.tokenOut
  BY <1>5, CompletedWhen
<1>7. len \in 1 .. len /\ \A k \in 1 .. len - 1 : k \in 1 .. len
  OBVIOUS
<1>8. 1 .. len \subseteq Good <=> \A k \in 1 .. len : GoodIn(f, pairs, k)
  BY <1>2 DEF GoodsIn
<1> QED BY <1>3, <1>4, <1>6, <1>7, <1>8 DEF TellsIn, AllGoodIn

LEMMA CompletedOut ==
    ASSUME NEW given, NEW n \in Nat, Len(given) = n, DOMAIN given = 1 .. n,
           NEW hops \in Nat \ {0}, NEW ask, NEW q \in Seq(1 .. n),
           NEW len \in Nat \ {0}, Len(q) = len, len <= hops,
           NEW pairs, NEW g, ComputedOut(g, pairs, given, q, ask)
    PROVE  q \in Completed(TurnsOut(given, ask, hops), n, hops)
              <=> Free(q) /\ AllGoodOut(g, pairs, len, ask.tokenIn, ask.tokenIn)
<1>1. PICK w : w = [k \in 1 .. len |-> g[len - k].token]
  OBVIOUS
<1>2. PICK Good : Good = GoodsOut(g, pairs, len)
  OBVIOUS
<1>3. TellsOut(w, g, len)
  BY <1>1 DEF TellsOut
<1>4. PICK turn : turn = TurnsOut(given, ask, hops)
  OBVIOUS
<1>5. Becomes(turn, q, n, hops, w, ask.tokenIn, Good)
  BY <1>2, <1>3, <1>4, BecomesOut
<1>6. q \in Completed(turn, n, hops)
          <=> /\ Free(q) /\ 1 .. len \subseteq Good /\ w[len] = ask.tokenIn
              /\ \A k \in 1 .. len - 1 : w[k] # ask.tokenIn
  BY <1>5, CompletedWhen
<1>7. len \in 1 .. len /\ len - len = 0
      /\ \A k \in 1 .. len - 1 : k \in 1 .. len /\ len - k \in 1 .. len - 1 /\ len - (len - k) = k
  OBVIOUS
<1>8. 1 .. len \subseteq Good <=> \A k \in 1 .. len : GoodOut(g, pairs, len, k)
  BY <1>2 DEF GoodsOut
<1>9. w[len] = g[0].token
  BY <1>3, <1>7 DEF TellsOut
<1>10. (\A k \in 1 .. len - 1 : w[k] # ask.tokenIn)
           <=> \A k \in 1 .. len - 1 : g[k].token # ask.tokenIn
  <2>1. ASSUME \A k \in 1 .. len - 1 : w[k] # ask.tokenIn, NEW k \in 1 .. len - 1
        PROVE  g[k].token # ask.tokenIn
    <3>1. PICK j : j = len - k
      OBVIOUS
    <3>2. j \in 1 .. len /\ j \in 1 .. len - 1 /\ len - j = k
      BY <1>7, <3>1
    <3> QED BY <1>3, <2>1, <3>2 DEF TellsOut
  <2>2. ASSUME \A k \in 1 .. len - 1 : g[k].token # ask.tokenIn, NEW k \in 1 .. len - 1
        PROVE  w[k] # ask.tokenIn
    BY <1>3, <1>7, <2>2 DEF TellsOut
  <2> QED BY <2>1, <2>2
<1> QED BY <1>4, <1>6, <1>8, <1>9, <1>10 DEF AllGoodOut

(* Routes between two tokens, and what can be traded along them.           *)
AllListed(pairs, len, listed) == \A i \in 1 .. len : DOMAIN pairs[i] \subseteq listed
Reaches(pairs, len, first, last, allowed) ==
    \E s : Route(s, pairs, len, first, last) /\ \A k \in 1 .. len - 1 : s[k] \in allowed

LEMMA BothTokens ==
    ASSUME NEW p, IsPair(p), NEW t \in DOMAIN p
    PROVE  DOMAIN p = {t, Other(p, t)}
<1>1. PICK a, b : a # b /\ p \in [{a, b} -> Nat]
  BY DEF IsPair
<1>2. DOMAIN p = {a, b}
  BY <1>1
<1>3. Other(p, a) = b /\ Other(p, b) = a
  BY <1>1, <1>2 DEF Other
<1> QED BY <1>2, <1>3

LEMMA GoodAlong ==
    ASSUME NEW pairs, NEW len \in Nat \ {0}, Len(pairs) = len, AllPairs(pairs, len),
           NEW listed, AllListed(pairs, len, listed), NEW first, NEW last, NEW arrival,
           NEW amount \in Nat, NEW f, IsAlong(f, pairs, len, first, amount)
    PROVE  AllGoodIn(f, pairs, len, last, arrival)
              <=> /\ Reaches(pairs, len, first, last, listed \ {arrival}) /\ AllOpen(pairs, len)
                  /\ f[len].amount \in Nat \ {0}
<1>0. /\ len \in Nat /\ len \in 1 .. len /\ len \in 0 .. len /\ 0 \in 0 .. len
      /\ \A k \in 1 .. len - 1 : k \in 1 .. len /\ k \in 0 .. len
      /\ \A k \in 1 .. len : k \in 0 .. len /\ k - 1 \in 0 .. len
  OBVIOUS
<1>1. /\ f[0].token = first
      /\ \A k \in 1 .. len : f[k].token = Other(pairs[k], f[k - 1].token)
  BY DEF IsAlong
<1>2. ASSUME \A k \in 1 .. len : GoodIn(f, pairs, k), f[len].token = last,
             \A k \in 1 .. len - 1 : f[k].token # arrival
      PROVE  /\ Reaches(pairs, len, first, last, listed \ {arrival}) /\ AllOpen(pairs, len)
             /\ f[len].amount \in Nat \ {0}
  <2>1. PICK s : s = [k \in 0 .. len |-> f[k].token]
    OBVIOUS
  <2>2. \A k \in 0 .. len : s[k] = f[k].token
    BY <2>1
  <2>3. ASSUME NEW k \in 1 .. len PROVE DOMAIN pairs[k] = {s[k - 1], s[k]} /\ HasReserves(pairs[k])
    <3>1. f[k - 1].token \in DOMAIN pairs[k] /\ HasReserves(pairs[k])
      BY <1>2 DEF GoodIn, GivesOutput
    <3>2. IsPair(pairs[k])
      BY DEF AllPairs
    <3>3. DOMAIN pairs[k] = {f[k - 1].token, Other(pairs[k], f[k - 1].token)}
      BY <3>1, <3>2, BothTokens
    <3> QED BY <1>0, <1>1, <2>2, <3>1, <3>3
  <2>4. Route(s, pairs, len, first, last)
    BY <1>0, <1>1, <1>2, <2>2, <2>3 DEF Route
  <2>5. AllOpen(pairs, len)
    BY <2>3 DEF AllOpen
  <2>6. ASSUME NEW k \in 1 .. len - 1 PROVE s[k] \in listed \ {arrival}
    <3>1. s[k] \in listed
      BY <1>0, <2>3 DEF AllListed
    <3> QED BY <1>0, <1>2, <2>2, <3>1
  <2>9. Leaves(f, pairs, s, len)
    BY <1>0, <2>4, <2>5, AmountsAlong
  <2>7. f[len].amount \in Nat
    BY <1>0, <2>9 DEF Leaves
  <2>8. f[len].amount # 0
    <3>1. OutputAmount(f[len - 1].amount, pairs[len][f[len - 1].token],
                       pairs[len][Other(pairs[len], f[len - 1].token)]) # 0
      BY <1>0, <1>2 DEF GoodIn, GivesOutput
    <3>2. f[len].amount = OutputAmount(f[len - 1].amount, pairs[len][f[len - 1].token],
                                       pairs[len][f[len].token])
      BY <1>0 DEF IsAlong
    <3> QED BY <1>0, <1>1, <3>1, <3>2
  <2> QED BY <2>4, <2>5, <2>6, <2>7, <2>8 DEF Reaches
<1>3. ASSUME Reaches(pairs, len, first, last, listed \ {arrival}), AllOpen(pairs, len),
             f[len].amount \in Nat \ {0}
      PROVE  /\ \A k \in 1 .. len : GoodIn(f, pairs, k)
             /\ f[len].token = last
             /\ \A k \in 1 .. len - 1 : f[k].token # arrival
  <2>1. PICK s : /\ Route(s, pairs, len, first, last)
                 /\ \A k \in 1 .. len - 1 : s[k] \in listed \ {arrival}
    BY <1>3 DEF Reaches
  <2>2. \A k \in 0 .. len : f[k].token = s[k]
    BY <1>0, <2>1, TokensAlong
  <2>7. /\ f[len].amount # 0 => \A k \in 0 .. len : f[k].amount # 0
        /\ \A k \in 1 .. len : f[k].amount = OutputAmount(f[k - 1].amount, pairs[k][s[k - 1]],
                                                          pairs[k][s[k]])
    <3>1. Leaves(f, pairs, s, len)
      BY <1>0, <1>3, <2>1, AmountsAlong
    <3> QED BY <3>1 DEF Leaves
  <2>3. \A k \in 1 .. len : f[k].amount # 0
    BY <1>0, <1>3, <2>7
  <2>4. \A k \in 1 .. len : Other(pairs[k], s[k - 1]) = s[k]
    BY <1>0, <2>1, JoinedApart
  <2>5. ASSUME NEW k \in 1 .. len PROVE GoodIn(f, pairs, k)
    <3>1. s[k - 1] \in DOMAIN pairs[k]
      BY <2>1 DEF Route
    <3>2. HasReserves(pairs[k])
      BY <1>3 DEF AllOpen
    <3> QED BY <1>0, <2>2, <2>3, <2>4, <2>7, <3>1, <3>2 DEF GoodIn, GivesOutput
  <2>6. f[len].token = last
    BY <1>0, <2>1, <2>2 DEF Route
  <2> QED BY <1>0, <2>1, <2>2, <2>5, <2>6
<1> QED BY <1>2, <1>3 DEF AllGoodIn

(* Each pair holds more than what is taken from it.                        *)
Afford(g, pairs, len) == \A i \in 1 .. len : g[i].amount < pairs[i][g[i].token]

LEMMA GoodAgainst ==
    ASSUME NEW pairs, NEW len \in Nat \ {0}, Len(pairs) = len, AllPairs(pairs, len),
           NEW listed, AllListed(pairs, len, listed), NEW first, NEW last, NEW arrival,
           NEW amount, NEW g, IsAgainst(g, pairs, len, last, amount)
    PROVE  AllGoodOut(g, pairs, len, first, arrival)
              <=> /\ Reaches(pairs, len, first, last, listed \ {arrival}) /\ AllOpen(pairs, len)
                  /\ Afford(g, pairs, len)
<1>0. /\ len \in Nat /\ len \in 1 .. len /\ len \in 0 .. len /\ 0 \in 0 .. len
      /\ \A k \in 1 .. len - 1 : k \in 1 .. len /\ k \in 0 .. len
      /\ \A k \in 1 .. len : k \in 0 .. len /\ k - 1 \in 0 .. len
  OBVIOUS
<1>1. /\ g[len].token = last
      /\ \A k \in 1 .. len : g[k - 1].token = Other(pairs[k], g[k].token)
  BY DEF IsAgainst
<1>2. (\A k \in 1 .. len : GoodOut(g, pairs, len, k))
          <=> \A i \in 1 .. len : /\ g[i].token \in DOMAIN pairs[i]
                                  /\ TakesInput(pairs[i], Other(pairs[i], g[i].token), g[i].amount)
  <2>1. \A i \in 1 .. len : len - i + 1 \in 1 .. len /\ len - (len - i + 1) + 1 = i
    OBVIOUS
  <2>2. ASSUME \A k \in 1 .. len : GoodOut(g, pairs, len, k), NEW i \in 1 .. len
        PROVE  /\ g[i].token \in DOMAIN pairs[i]
               /\ TakesInput(pairs[i], Other(pairs[i], g[i].token), g[i].amount)
    <3>1. PICK k : k = len - i + 1
      OBVIOUS
    <3>2. k \in 1 .. len /\ len - k + 1 = i
      BY <2>1, <3>1
    <3>3. GoodOut(g, pairs, len, k)
      BY <2>2, <3>2
    <3> QED BY <3>2, <3>3 DEF GoodOut
  <2>3. ASSUME \A i \in 1 .. len : /\ g[i].token \in DOMAIN pairs[i]
                                   /\ TakesInput(pairs[i], Other(pairs[i], g[i].token), g[i].amount),
               NEW k \in 1 .. len
        PROVE  GoodOut(g, pairs, len, k)
    <3>1. len - k + 1 \in 1 .. len
      BY <2>1
    <3> QED BY <2>3, <3>1 DEF GoodOut
  <2> QED BY <2>2, <2>3
<1>3. ASSUME NEW i \in 1 .. len, g[i].token \in DOMAIN pairs[i]
      PROVE  /\ TakesInput(pairs[i], Other(pairs[i], g[i].token), g[i].amount)
                   <=> HasReserves(pairs[i]) /\ g[i].amount < pairs[i][g[i].token]
             /\ DOMAIN pairs[i] = {g[i].token, g[i - 1].token}
  <2>1. IsPair(pairs[i])
    BY DEF AllPairs
  <2>2. DOMAIN pairs[i] = {g[i].token, Other(pairs[i], g[i].token)}
    BY <1>3, <2>1, BothTokens
  <2>3. Other(pairs[i], Other(pairs[i], g[i].token)) = g[i].token
    BY <2>1, <2>2, StopsApart
  <2> QED BY <1>1, <2>2, <2>3 DEF TakesInput
<1>4. ASSUME \A i \in 1 .. len : /\ g[i].token \in DOMAIN pairs[i]
                                 /\ TakesInput(pairs[i], Other(pairs[i], g[i].token), g[i].amount),
             g[0].token = first,
             \A k \in 1 .. len - 1 : g[k].token # arrival
      PROVE  /\ Reaches(pairs, len, first, last, listed \ {arrival}) /\ AllOpen(pairs, len)
             /\ Afford(g, pairs, len)
  <2>1. PICK s : s = [k \in 0 .. len |-> g[k].token]
    OBVIOUS
  <2>2. \A k \in 0 .. len : s[k] = g[k].token
    BY <2>1
  <2>3. ASSUME NEW k \in 1 .. len PROVE DOMAIN pairs[k] = {s[k - 1], s[k]}
    <3>1. DOMAIN pairs[k] = {g[k].token, g[k - 1].token}
      BY <1>3, <1>4
    <3> QED BY <1>0, <2>2, <3>1
  <2>4. Route(s, pairs, len, first, last)
    BY <1>0, <1>1, <1>4, <2>2, <2>3 DEF Route
  <2>5. AllOpen(pairs, len) /\ Afford(g, pairs, len)
    BY <1>3, <1>4 DEF AllOpen, Afford
  <2>6. ASSUME NEW k \in 1 .. len - 1 PROVE s[k] \in listed \ {arrival}
    <3>1. s[k] \in listed
      BY <1>0, <2>3 DEF AllListed
    <3> QED BY <1>0, <1>4, <2>2, <3>1
  <2> QED BY <2>4, <2>5, <2>6 DEF Reaches
<1>5. ASSUME Reaches(pairs, len, first, last, listed \ {arrival}), AllOpen(pairs, len),
             Afford(g, pairs, len)
      PROVE  /\ \A i \in 1 .. len : /\ g[i].token \in DOMAIN pairs[i]
                                    /\ TakesInput(pairs[i], Other(pairs[i], g[i].token), g[i].amount)
             /\ g[0].token = first
             /\ \A k \in 1 .. len - 1 : g[k].token # arrival
  <2>1. PICK s : /\ Route(s, pairs, len, first, last)
                 /\ \A k \in 1 .. len - 1 : s[k] \in listed \ {arrival}
    BY <1>5 DEF Reaches
  <2>2. \A k \in 0 .. len : g[k].token = s[k]
    BY <1>0, <2>1, TokensAgainst
  <2>3. ASSUME NEW i \in 1 .. len
        PROVE  /\ g[i].token \in DOMAIN pairs[i]
               /\ TakesInput(pairs[i], Other(pairs[i], g[i].token), g[i].amount)
    <3>1. g[i].token \in DOMAIN pairs[i]
      BY <1>0, <2>1, <2>2 DEF Route
    <3>2. HasReserves(pairs[i]) /\ g[i].amount < pairs[i][g[i].token]
      BY <1>5 DEF AllOpen, Afford
    <3> QED BY <1>3, <3>1, <3>2
  <2>4. g[0].token = first
    BY <1>0, <2>1, <2>2 DEF Route
  <2> QED BY <1>0, <2>1, <2>2, <2>3, <2>4
<1> QED BY <1>2, <1>4, <1>5 DEF AllGoodOut

(* The pairs of a market, no two of the same tokens.                       *)
IsMarket(given, n, listed) ==
    /\ Len(given) = n /\ DOMAIN given = 1 .. n
    /\ \A i \in 1 .. n : IsPair(given[i]) /\ DOMAIN given[i] \subseteq listed
    /\ \A i, j \in 1 .. n : i # j => DOMAIN given[i] # DOMAIN given[j]
(* Some of its pairs in an order, and each once.                           *)
Ordered(pairs, given, q, n, len) == q \in Seq(1 .. n) /\ Len(q) = len /\ pairs = Pairs(given, q)
InMarket(given) == {given[i] : i \in DOMAIN given}

Consists(pairs, given, q, len, listed) ==
    /\ pairs \in [1 .. len -> InMarket(given)] /\ Len(pairs) = len
    /\ AllPairs(pairs, len) /\ AllListed(pairs, len, listed)
    /\ IsInjective(pairs) <=> Free(q)

LEMMA OrderedAre ==
    ASSUME NEW given, NEW n \in Nat, NEW listed, IsMarket(given, n, listed),
           NEW q, NEW len \in Nat, NEW pairs, Ordered(pairs, given, q, n, len)
    PROVE  Consists(pairs, given, q, len, listed)
<1>1. q \in Seq(1 .. n) /\ Len(q) = len /\ pairs = Pairs(given, q)
  BY DEF Ordered
<1>2. ArePairs(pairs, given, q, len)
  BY <1>1, PairsAre
<1>3. DOMAIN pairs = 1 .. len /\ Len(pairs) = len /\ \A i \in 1 .. len : pairs[i] = given[q[i]]
  BY <1>2 DEF ArePairs
<1>4. \A i \in 1 .. len : q[i] \in 1 .. n
  BY <1>1
<1>5. /\ DOMAIN given = 1 .. n
      /\ \A i \in 1 .. n : IsPair(given[i]) /\ DOMAIN given[i] \subseteq listed
      /\ \A i, j \in 1 .. n : i # j => DOMAIN given[i] # DOMAIN given[j]
  BY DEF IsMarket
<1>6. AllPairs(pairs, len) /\ AllListed(pairs, len, listed)
  BY <1>3, <1>4, <1>5 DEF AllPairs, AllListed
<1>7. pairs \in [1 .. len -> InMarket(given)]
  <2>1. pairs = [i \in 1 .. len |-> pairs[i]]
    BY <1>1, <1>3 DEF Pairs
  <2>2. \A i \in 1 .. len : pairs[i] \in InMarket(given)
    BY <1>3, <1>4, <1>5 DEF InMarket
  <2> QED BY <2>1, <2>2
<1>8. \A i, j \in 1 .. len : pairs[i] = pairs[j] <=> q[i] = q[j]
  BY <1>3, <1>4, <1>5
<1>9. IsInjective(pairs) <=> \A i, j \in 1 .. len : q[i] = q[j] => i = j
  BY <1>3, <1>8 DEF IsInjective
<1>10. Free(q) <=> \A i, j \in 1 .. len : i < j => q[i] # q[j]
  BY <1>1 DEF Free
<1>11. \A i, j \in 1 .. len : i = j \/ i < j \/ j < i
  OBVIOUS
<1>12. \A i, j \in 1 .. len : i < j => i # j
  OBVIOUS
<1>13. IsInjective(pairs) <=> Free(q)
  BY <1>9, <1>10, <1>11, <1>12
<1> QED BY <1>3, <1>6, <1>7, <1>13 DEF Consists

LEMMA OrderOf ==
    ASSUME NEW given, NEW n \in Nat, NEW listed, IsMarket(given, n, listed),
           NEW len \in Nat, NEW pairs \in [1 .. len -> InMarket(given)]
    PROVE  \E q : Ordered(pairs, given, q, n, len)
<1>1. DOMAIN given = 1 .. n
  BY DEF IsMarket
<1>2. \A k \in 1 .. len : \E i \in 1 .. n : given[i] = pairs[k]
  BY <1>1 DEF InMarket
<1>3. PICK q : q = [k \in 1 .. len |-> CHOOSE i \in 1 .. n : given[i] = pairs[k]]
  OBVIOUS
<1>4. \A k \in 1 .. len : q[k] \in 1 .. n /\ given[q[k]] = pairs[k]
  BY <1>2, <1>3
<1>5. q \in [1 .. len -> 1 .. n]
  BY <1>3, <1>4
<1>6. q \in Seq(1 .. n) /\ Len(q) = len
  BY <1>5
<1>7. ArePairs(Pairs(given, q), given, q, len)
  BY <1>6, PairsAre
<1>8. \A k \in 1 .. len : pairs[k] = Pairs(given, q)[k]
  BY <1>4, <1>7 DEF ArePairs
<1>9. DOMAIN Pairs(given, q) = 1 .. len /\ DOMAIN pairs = 1 .. len
  BY <1>7 DEF ArePairs
<1>10. Pairs(given, q) = [k \in 1 .. len |-> Pairs(given, q)[k]]
  BY <1>9 DEF Pairs
<1>11. pairs = [k \in 1 .. len |-> pairs[k]]
  OBVIOUS
<1>12. pairs = Pairs(given, q)
  BY <1>8, <1>10, <1>11
<1> QED BY <1>6, <1>12 DEF Ordered

LEMMA OneOrder ==
    ASSUME NEW given, NEW n \in Nat, NEW listed, IsMarket(given, n, listed),
           NEW p \in Seq(1 .. n), NEW q \in Seq(1 .. n), Pairs(given, p) = Pairs(given, q)
    PROVE  p = q
<1>1. PICK k \in Nat : k = Len(p)
  OBVIOUS
<1>2. PICK l \in Nat : l = Len(q)
  OBVIOUS
<1>3. ArePairs(Pairs(given, p), given, p, k)
  <2>1. Len(p) = k
    BY <1>1
  <2> QED BY <2>1, PairsAre
<1>4. ArePairs(Pairs(given, q), given, q, l)
  <2>1. Len(q) = l
    BY <1>2
  <2> QED BY <2>1, PairsAre
<1>5. k = l /\ \A i \in 1 .. k : given[p[i]] = given[q[i]]
  <2>1. /\ Len(Pairs(given, p)) = k
        /\ \A i \in 1 .. k : Pairs(given, p)[i] = given[p[i]]
    BY <1>3 DEF ArePairs
  <2>2. /\ Len(Pairs(given, q)) = l
        /\ \A i \in 1 .. l : Pairs(given, q)[i] = given[q[i]]
    BY <1>4 DEF ArePairs
  <2> QED BY <2>1, <2>2
<1>6. \A i, j \in 1 .. n : i # j => given[i] # given[j]
  BY DEF IsMarket
<1>7. \A i \in 1 .. k : p[i] \in 1 .. n /\ q[i] \in 1 .. n
  <2>1. Len(p) = k /\ Len(q) = k
    BY <1>1, <1>2, <1>5
  <2>2. \A s \in Seq(1 .. n) : \A i \in 1 .. Len(s) : s[i] \in 1 .. n
    OBVIOUS
  <2> QED BY <2>1, <2>2
<1>8. \A i \in 1 .. k : p[i] = q[i]
  BY <1>5, <1>6, <1>7
<1> QED BY <1>1, <1>2, <1>5, <1>8, SameSeq

(* A list of some things is one of what belongs to each.                   *)
Differ(e, A) == \A x, y \in A : e[x] = e[y] => x = y
Each(e, v) == [k \in 1 .. Len(v) |-> e[v[k]]]

LEMMA ListsImage ==
    ASSUME NEW v, NEW A, Lists(v, A), NEW e, Differ(e, A), NEW B, B = {e[x] : x \in A}
    PROVE  Lists(Each(e, v), B)
<1>0. PICK N : N = Len(v)
  OBVIOUS
<1>1. N \in Nat /\ \A k \in 1 .. N : v[k] \in A
  BY <1>0 DEF Lists
<1>2. PICK u : u = [k \in 1 .. N |-> e[v[k]]]
  OBVIOUS
<1>3. u \in [1 .. N -> B]
  BY <1>1, <1>2
<1>4. u \in Seq(B) /\ Len(u) = N
  BY <1>1, <1>3
<1>5. ASSUME NEW b \in B PROVE \E i \in 1 .. N : u[i] = b
  <2>1. PICK x \in A : b = e[x]
    OBVIOUS
  <2>2. PICK i \in 1 .. N : v[i] = x
    BY <1>0 DEF Lists
  <2> QED BY <1>2, <2>1, <2>2
<1>6. ASSUME NEW i \in 1 .. N, NEW j \in 1 .. N, i < j PROVE u[i] # u[j]
  <2>1. v[i] # v[j]
    BY <1>0, <1>6 DEF Lists
  <2>2. e[v[i]] # e[v[j]]
    BY <1>1, <2>1 DEF Differ
  <2> QED BY <1>2, <2>2
<1>7. Lists(u, B)
  BY <1>4, <1>5, <1>6 DEF Lists
<1> QED BY <1>0, <1>2, <1>7 DEF Each

(* Twice reversed is as before.                                            *)
LEMMA ReverseTwice ==
    ASSUME NEW n \in Nat, NEW q \in Seq(1 .. n)
    PROVE  /\ Reverse(q) \in Seq(1 .. n) /\ Len(Reverse(q)) = Len(q)
           /\ Reverse(Reverse(q)) = q
           /\ Free(Reverse(q)) <=> Free(q)
<1>1. PICK len \in Nat : Len(q) = len
  OBVIOUS
<1>2. PICK r : r = Reverse(q)
  OBVIOUS
<1>3. IsReverse(r, q, n, len)
  BY <1>1, <1>2, ReverseIs
<1>4. /\ r \in Seq(1 .. n) /\ Len(r) = len
      /\ \A i \in 1 .. len : r[i] = q[len - i + 1] /\ len - i + 1 \in 1 .. len
  BY <1>3 DEF IsReverse
<1>5. PICK s : s = Reverse(r)
  OBVIOUS
<1>6. IsReverse(s, r, n, len)
  BY <1>4, <1>5, ReverseIs
<1>7. /\ s \in Seq(1 .. n) /\ Len(s) = len
      /\ \A i \in 1 .. len : s[i] = r[len - i + 1] /\ len - i + 1 \in 1 .. len
  BY <1>6 DEF IsReverse
<1>8. \A i \in 1 .. len : len - (len - i + 1) + 1 = i
  OBVIOUS
<1>9. \A i \in 1 .. len : s[i] = q[i]
  BY <1>4, <1>7, <1>8
<1>10. s = q
  BY <1>1, <1>7, <1>9, SameSeq
<1>11. ASSUME Free(q) PROVE Free(r)
  <2> SUFFICES ASSUME NEW j \in 1 .. len, NEW k \in 1 .. len, j < k PROVE r[j] # r[k]
    BY <1>4 DEF Free
  <2>1. len - k + 1 < len - j + 1
    OBVIOUS
  <2>2. q[len - k + 1] # q[len - j + 1]
    BY <1>1, <1>4, <1>11, <2>1 DEF Free
  <2> QED BY <1>4, <2>2
<1>12. ASSUME Free(r) PROVE Free(q)
  <2> SUFFICES ASSUME NEW j \in 1 .. len, NEW k \in 1 .. len, j < k PROVE q[j] # q[k]
    BY <1>1 DEF Free
  <2>1. len - k + 1 < len - j + 1
    OBVIOUS
  <2>2. r[len - k + 1] # r[len - j + 1]
    BY <1>4, <1>12, <2>1 DEF Free
  <2>3. s[k] # s[j]
    BY <1>7, <2>2
  <2> QED BY <1>9, <2>3
<1> QED BY <1>1, <1>2, <1>4, <1>5, <1>10, <1>11, <1>12

(* The trades of a route are trades that can be compared.                  *)
LEMMA AlongIs ==
    ASSUME NEW pairs, NEW len \in Nat \ {0}, Len(pairs) = len, AllPairs(pairs, len),
           AllOpen(pairs, len), NEW first, NEW last, NEW allowed,
           Reaches(pairs, len, first, last, allowed), NEW amount \in Nat
    PROVE  LET route == Along(pairs, first, amount)
           IN  route.amount \in Nat /\ route.num \in Nat \ {0} /\ route.den \in Nat \ {0}
<1>1. PICK f : f = AmountsIn(pairs, first, amount)
  OBVIOUS
<1>2. len \in Nat /\ len \in 0 .. len
  OBVIOUS
<1>3. IsAlong(f, pairs, len, first, amount)
  BY <1>1, <1>2, AlongNext
<1>4. PICK s : Route(s, pairs, len, first, last)
  BY DEF Reaches
<1>5. f[len].num \in Nat \ {0} /\ f[len].den \in Nat \ {0}
  BY <1>2, <1>3, <1>4, MidPrice
<1>6. Leaves(f, pairs, s, len)
  BY <1>2, <1>3, <1>4, AmountsAlong
<1>7. f[len].amount \in Nat
  BY <1>2, <1>6 DEF Leaves
<1>8. Along(pairs, first, amount) = f[len]
  BY <1>1 DEF Along
<1> QED BY <1>5, <1>7, <1>8

LEMMA ImpactIs ==
    ASSUME NEW route, route.num \in Nat \ {0}, route.den \in Nat \ {0},
           NEW input \in Nat \ {0}, NEW output \in Nat
    PROVE  IsFraction(Impact(route, input, output))
<1>1. PICK num \in Nat \ {0} : num = route.num
  OBVIOUS
<1>2. PICK den \in Nat \ {0} : den = route.den
  OBVIOUS
<1>3. num * input \in Nat \ {0}
  OBVIOUS
<1>4. num * input - output * den \in Int
  OBVIOUS
<1>5. Impact(route, input, output) = [num |-> num * input - output * den, den |-> num * input]
  BY <1>1, <1>2 DEF Impact
<1> HIDE <1>1, <1>2
<1>6. PICK x \in Nat \ {0} : x = num * input
  BY <1>3
<1>7. PICK y \in Int : y = num * input - output * den
  BY <1>4
<1>8. Impact(route, input, output) = [num |-> y, den |-> x]
  BY <1>5, <1>6, <1>7
<1> QED BY <1>8 DEF IsFraction

LEMMA TradeInIs ==
    ASSUME NEW pairs, NEW len \in Nat \ {0}, Len(pairs) = len, AllPairs(pairs, len),
           AllOpen(pairs, len), NEW first, NEW last, NEW allowed,
           Reaches(pairs, len, first, last, allowed), NEW amount \in Nat \ {0}
    PROVE  IsTrade(TradeIn(pairs, first, amount))
<1>1. PICK route : route = Along(pairs, first, amount)
  OBVIOUS
<1>2. amount \in Nat
  OBVIOUS
<1>3. route.amount \in Nat /\ route.num \in Nat \ {0} /\ route.den \in Nat \ {0}
  BY <1>1, <1>2, AlongIs
<1>4. IsFraction(Impact(route, amount, route.amount))
  BY <1>3, ImpactIs
<1>5. PICK t : t = TradeIn(pairs, first, amount)
  OBVIOUS
<1>6. /\ t.pairs = pairs /\ t.input = amount /\ t.output = route.amount
      /\ t.impact = Impact(route, amount, route.amount)
  BY <1>1, <1>5 DEF TradeIn
<1> QED BY <1>2, <1>3, <1>4, <1>5, <1>6 DEF IsTrade

LEMMA TradeOutIs ==
    ASSUME NEW pairs, NEW len \in Nat \ {0}, Len(pairs) = len, AllPairs(pairs, len),
           AllOpen(pairs, len), NEW first, NEW last, NEW allowed,
           Reaches(pairs, len, first, last, allowed), NEW amount \in Nat \ {0},
           Afford(AmountsOut(pairs, last, amount), pairs, len)
    PROVE  /\ IsTrade(TradeOut(pairs, last, amount))
           /\ Takes(pairs, last, amount) /\ Against(pairs, last, amount).token = first
<1>1. PICK g : g = AmountsOut(pairs, last, amount)
  OBVIOUS
<1>2. len \in Nat /\ 0 \in 0 .. len /\ \A i \in 1 .. len : i \in 0 .. len
  OBVIOUS
<1>3. IsAgainst(g, pairs, len, last, amount)
  BY <1>1, <1>2, AgainstNext
<1>4. PICK s : Route(s, pairs, len, first, last)
  BY DEF Reaches
<1>5. \A k \in 0 .. len : g[k].token = s[k]
  BY <1>2, <1>3, <1>4, TokensAgainst
<1>6. \A k \in 1 .. len : Other(pairs[k], s[k - 1]) = s[k] /\ Other(pairs[k], s[k]) = s[k - 1]
  BY <1>2, <1>4, JoinedApart
<1>7. Takes(pairs, last, amount)
  <2> SUFFICES ASSUME NEW i \in 1 .. len
               PROVE  /\ IsPair(pairs[i]) /\ g[i].token \in DOMAIN pairs[i]
                      /\ TakesInput(pairs[i], Other(pairs[i], g[i].token), g[i].amount)
    BY <1>1 DEF Takes
  <2>1. IsPair(pairs[i]) /\ HasReserves(pairs[i])
    BY DEF AllPairs, AllOpen
  <2>2. g[i].token = s[i] /\ s[i] \in DOMAIN pairs[i]
    BY <1>2, <1>4, <1>5 DEF Route
  <2>3. g[i].amount < pairs[i][g[i].token]
    BY <1>1 DEF Afford
  <2> QED BY <1>6, <2>1, <2>2, <2>3 DEF TakesInput
<1>8. Against(pairs, last, amount) = g[0]
  BY <1>1 DEF Against
<1>9. g[0].amount \in Nat \ {0}
  BY <1>1, <1>2, <1>7, AmountsOutType
<1>10. g[0].token = first
  BY <1>2, <1>4, <1>5 DEF Route
<1>11. PICK in : in = Against(pairs, last, amount)
  OBVIOUS
<1>12. in.amount \in Nat \ {0} /\ in.amount \in Nat /\ in.token = first
  BY <1>8, <1>9, <1>10, <1>11
<1>13. PICK route : route = Along(pairs, first, in.amount)
  OBVIOUS
<1>14. route.num \in Nat \ {0} /\ route.den \in Nat \ {0}
  BY <1>12, <1>13, AlongIs
<1>15. IsFraction(Impact(route, in.amount, amount))
  BY <1>12, <1>14, ImpactIs
<1>16. PICK t : t = TradeOut(pairs, last, amount)
  OBVIOUS
<1>17. /\ t.pairs = pairs /\ t.input = in.amount /\ t.output = amount
       /\ t.impact = Impact(route, in.amount, amount)
  BY <1>11, <1>12, <1>13, <1>16 DEF TradeOut
<1>18. IsTrade(t)
  BY <1>2, <1>12, <1>15, <1>17 DEF IsTrade
<1> QED BY <1>7, <1>11, <1>12, <1>16, <1>18

(* Pairs of listed tokens, no two of the same.                             *)
Kinds == {p \in UNION {[D -> Nat] : D \in SUBSET Listed} : IsPair(p)}
MarketInv ==
    /\ market \in Seq(Kinds)
    /\ \A i, j \in 1 .. Len(market) : i # j => DOMAIN market[i] # DOMAIN market[j]

LEMMA MarketIs ==
    ASSUME MarketInv, NEW n \in Nat, n = Len(market)
    PROVE  IsMarket(market, n, Listed)
<1>1. /\ market \in Seq(Kinds) /\ Len(market) = n
      /\ \A i, j \in 1 .. n : i # j => DOMAIN market[i] # DOMAIN market[j]
  BY DEF MarketInv
<1>2. DOMAIN market = 1 .. n
  BY <1>1
<1>3. ASSUME NEW i \in 1 .. n PROVE IsPair(market[i]) /\ DOMAIN market[i] \subseteq Listed
  <2>1. market[i] \in Kinds
    BY <1>1
  <2> QED BY <2>1 DEF Kinds
<1> QED BY <1>1, <1>2, <1>3 DEF IsMarket

LEMMA LeadsIs ==
    ASSUME NEW pairs, NEW len \in Nat \ {0}, Len(pairs) = len, NEW arrival
    PROVE  Leads(pairs, arrival) <=> Reaches(pairs, len, TokenIn, TokenOut, Listed \ {arrival})
<1> DEFINE stop(via, i) == IF i = 0 THEN TokenIn ELSE IF i = len THEN TokenOut ELSE via[i]
<1>0. /\ 0 \in 0 .. len /\ len \in 0 .. len /\ len # 0
      /\ \A i \in 1 .. len : i \in 0 .. len /\ i - 1 \in 0 .. len
      /\ \A i \in 1 .. len - 1 : i # 0 /\ i # len
      /\ \A i \in 0 .. len : i # 0 /\ i # len => i \in 1 .. len - 1
  OBVIOUS
<1>1. Leads(pairs, arrival) <=>
          \E via \in [1 .. len - 1 -> Listed \ {arrival}] :
              \A i \in 1 .. len : DOMAIN pairs[i] = {stop(via, i - 1), stop(via, i)}
  BY DEF Leads
<1>2. ASSUME NEW via \in [1 .. len - 1 -> Listed \ {arrival}],
             \A i \in 1 .. len : DOMAIN pairs[i] = {stop(via, i - 1), stop(via, i)}
      PROVE  Reaches(pairs, len, TokenIn, TokenOut, Listed \ {arrival})
  <2>1. PICK s : s = [i \in 0 .. len |-> stop(via, i)]
    OBVIOUS
  <2>2. \A i \in 0 .. len : s[i] = stop(via, i)
    BY <2>1
  <2>3. s[0] = TokenIn /\ s[len] = TokenOut
    BY <1>0, <2>2
  <2>4. ASSUME NEW i \in 1 .. len PROVE DOMAIN pairs[i] = {s[i - 1], s[i]}
    <3>1. s[i] = stop(via, i) /\ s[i - 1] = stop(via, i - 1)
      BY <1>0, <2>2
    <3>2. DOMAIN pairs[i] = {stop(via, i - 1), stop(via, i)}
      BY <1>2
    <3> HIDE DEF stop
    <3> QED BY <3>1, <3>2
  <2>5. Route(s, pairs, len, TokenIn, TokenOut)
    BY <2>3, <2>4 DEF Route
  <2>6. ASSUME NEW k \in 1 .. len - 1 PROVE s[k] \in Listed \ {arrival}
    <3>1. k \in 0 .. len /\ k # 0 /\ k # len
      BY <1>0
    <3>2. s[k] = via[k]
      BY <2>2, <3>1
    <3> QED BY <3>2
  <2> QED BY <2>5, <2>6 DEF Reaches
<1>3. ASSUME Reaches(pairs, len, TokenIn, TokenOut, Listed \ {arrival})
      PROVE  \E via \in [1 .. len - 1 -> Listed \ {arrival}] :
                 \A i \in 1 .. len : DOMAIN pairs[i] = {stop(via, i - 1), stop(via, i)}
  <2>1. PICK s : /\ Route(s, pairs, len, TokenIn, TokenOut)
                 /\ \A k \in 1 .. len - 1 : s[k] \in Listed \ {arrival}
    BY <1>3 DEF Reaches
  <2>2. PICK via : via = [k \in 1 .. len - 1 |-> s[k]]
    OBVIOUS
  <2>3. via \in [1 .. len - 1 -> Listed \ {arrival}]
    BY <2>1, <2>2
  <2>4. ASSUME NEW i \in 0 .. len PROVE s[i] = stop(via, i)
    <3>1. CASE i = 0
      BY <2>1, <3>1 DEF Route
    <3>2. CASE i = len
      BY <1>0, <2>1, <3>2 DEF Route
    <3>3. CASE i # 0 /\ i # len
      <4>1. i \in 1 .. len - 1
        BY <1>0, <3>3
      <4>2. via[i] = s[i]
        BY <2>2, <4>1
      <4> QED BY <3>3, <4>2
    <3> QED BY <3>1, <3>2, <3>3
  <2>5. ASSUME NEW i \in 1 .. len PROVE DOMAIN pairs[i] = {stop(via, i - 1), stop(via, i)}
    <3>1. s[i] = stop(via, i) /\ s[i - 1] = stop(via, i - 1)
      BY <1>0, <2>4
    <3>2. DOMAIN pairs[i] = {s[i - 1], s[i]}
      BY <2>1 DEF Route
    <3> HIDE DEF stop
    <3> QED BY <3>1, <3>2
  <2> QED BY <2>3, <2>5
<1> HIDE DEF stop
<1> QED BY <1>1, <1>2, <1>3

(* The routes that can be traded, by the places of their pairs.            *)
Tradable(pairs, q, n, len, arrival) ==
    /\ len \in Nat \ {0} /\ len <= MaxHops /\ Ordered(pairs, market, q, n, len) /\ Free(q)
    /\ Reaches(pairs, len, TokenIn, TokenOut, Listed \ {arrival}) /\ AllOpen(pairs, len)

LEMMA OpenIs ==
    ASSUME MaxHops \in Nat \ {0}, NEW n \in Nat, IsMarket(market, n, Listed), NEW arrival
    PROVE  \A pairs : pairs \in Open(arrival) <=> \E q, len : Tradable(pairs, q, n, len, arrival)
<1>0. \A len : len \in 1 .. MaxHops <=> len \in Nat \ {0} /\ len <= MaxHops
  OBVIOUS
<1>1. ASSUME NEW pairs, pairs \in Open(arrival)
      PROVE  \E q, len : Tradable(pairs, q, n, len, arrival)
  <2>1. /\ pairs \in UNION {[1 .. k -> InMarket(market)] : k \in 1 .. MaxHops}
        /\ IsInjective(pairs) /\ Leads(pairs, arrival) /\ \A i \in DOMAIN pairs : HasReserves(pairs[i])
    BY <1>1 DEF Open, Routes, InMarket
  <2>2. PICK len \in 1 .. MaxHops : pairs \in [1 .. len -> InMarket(market)]
    BY <2>1
  <2>3. len \in Nat /\ len \in Nat \ {0} /\ len <= MaxHops
    BY <1>0
  <2>4. PICK q : Ordered(pairs, market, q, n, len)
    BY <2>2, <2>3, OrderOf
  <2>5. Consists(pairs, market, q, len, Listed)
    BY <2>3, <2>4, OrderedAre
  <2>8. Len(pairs) = len /\ (IsInjective(pairs) <=> Free(q))
    BY <2>5 DEF Consists
  <2>6. Reaches(pairs, len, TokenIn, TokenOut, Listed \ {arrival})
    BY <2>1, <2>3, <2>8, LeadsIs
  <2>7. AllOpen(pairs, len)
    BY <2>1, <2>2 DEF AllOpen
  <2> QED BY <2>1, <2>3, <2>4, <2>6, <2>7, <2>8 DEF Tradable
<1>2. ASSUME NEW pairs, NEW q, NEW len, Tradable(pairs, q, n, len, arrival)
      PROVE  pairs \in Open(arrival)
  <2>1. /\ len \in Nat \ {0} /\ len <= MaxHops /\ Ordered(pairs, market, q, n, len) /\ Free(q)
        /\ Reaches(pairs, len, TokenIn, TokenOut, Listed \ {arrival}) /\ AllOpen(pairs, len)
    BY <1>2 DEF Tradable
  <2>2. len \in Nat
    BY <2>1
  <2>3. Consists(pairs, market, q, len, Listed)
    BY <2>1, <2>2, OrderedAre
  <2>4. pairs \in [1 .. len -> InMarket(market)] /\ Len(pairs) = len /\ IsInjective(pairs)
    BY <2>1, <2>3 DEF Consists
  <2>5. Leads(pairs, arrival)
    BY <2>1, <2>4, LeadsIs
  <2>6. len \in 1 .. MaxHops
    BY <1>0, <2>1
  <2>7. \A i \in DOMAIN pairs : HasReserves(pairs[i])
    BY <2>1, <2>4 DEF AllOpen
  <2>8. pairs \in Routes(arrival)
    BY <2>4, <2>5, <2>6 DEF Routes, InMarket
  <2> QED BY <2>7, <2>8 DEF Open
<1> QED BY <1>1, <1>2

LEMMA AskIs ==
    ASSUME MarketAssumption, NEW ask \in Asks
    PROVE  /\ ask.tokenIn = TokenIn /\ ask.tokenOut = TokenOut
           /\ ask.amount \in Nat \ {0} /\ ask.amount \in Nat /\ ask.results \in Nat \ {0}
BY DEF MarketAssumption, Asks

(* A path is tried exactly if its pairs are a route that can be traded.    *)
LEMMA TriedIn ==
    ASSUME MarketAssumption, NEW n \in Nat, IsMarket(market, n, Listed), NEW ask \in Asks,
           NEW q, NEW len \in Nat \ {0}, len <= MaxHops,
           NEW pairs, Ordered(pairs, market, q, n, len)
    PROVE  q \in Completed(TurnsIn(market, ask, MaxHops), n, MaxHops)
              <=> /\ Tradable(pairs, q, n, len, TokenOut)
                  /\ TradeIn(pairs, TokenIn, ask.amount).output > 0
<1>0. /\ ask.tokenIn = TokenIn /\ ask.tokenOut = TokenOut
      /\ ask.amount \in Nat /\ MaxHops \in Nat \ {0} /\ len \in Nat
  BY AskIs DEF MarketAssumption
<1>1. q \in Seq(1 .. n) /\ Len(q) = len /\ pairs = Pairs(market, q)
  BY DEF Ordered
<1>2. PICK f : f = AmountsIn(pairs, TokenIn, ask.amount)
  OBVIOUS
<1>3. ComputedIn(f, pairs, market, q, ask)
  BY <1>0, <1>1, <1>2 DEF ComputedIn
<1>4. PICK turn : turn = TurnsIn(market, ask, MaxHops)
  OBVIOUS
<1>5. Len(market) = n /\ DOMAIN market = 1 .. n
  BY DEF IsMarket
<1>6. q \in Completed(turn, n, MaxHops)
          <=> Free(q) /\ AllGoodIn(f, pairs, len, TokenOut, TokenOut)
  BY <1>0, <1>1, <1>3, <1>4, <1>5, CompletedIn
<1>7. Consists(pairs, market, q, len, Listed)
  BY <1>0, OrderedAre
<1>8. Len(pairs) = len /\ AllPairs(pairs, len) /\ AllListed(pairs, len, Listed)
  BY <1>7 DEF Consists
<1>9. IsAlong(f, pairs, len, TokenIn, ask.amount)
  BY <1>0, <1>2, <1>8, AlongNext
<1>10. AllGoodIn(f, pairs, len, TokenOut, TokenOut)
          <=> /\ Reaches(pairs, len, TokenIn, TokenOut, Listed \ {TokenOut}) /\ AllOpen(pairs, len)
              /\ f[len].amount \in Nat \ {0}
  BY <1>0, <1>8, <1>9, GoodAlong
<1>11. TradeIn(pairs, TokenIn, ask.amount).output = f[len].amount
  BY <1>2, <1>8 DEF TradeIn, Along
<1>12. ASSUME Reaches(pairs, len, TokenIn, TokenOut, Listed \ {TokenOut}), AllOpen(pairs, len)
       PROVE  f[len].amount \in Nat
  <2>1. PICK route : route = Along(pairs, TokenIn, ask.amount)
    OBVIOUS
  <2>2. route.amount \in Nat
    BY <1>0, <1>8, <1>12, <2>1, AlongIs
  <2> QED BY <1>2, <1>8, <2>1, <2>2 DEF Along
<1>13. \A x \in Nat : x > 0 <=> x \in Nat \ {0}
  OBVIOUS
<1>14. f[len].amount \in Nat \ {0} => f[len].amount \in Nat
  OBVIOUS
<1>15. Tradable(pairs, q, n, len, TokenOut)
          <=> /\ Free(q)
              /\ Reaches(pairs, len, TokenIn, TokenOut, Listed \ {TokenOut}) /\ AllOpen(pairs, len)
  BY DEF Tradable
<1> QED BY <1>4, <1>6, <1>10, <1>11, <1>12, <1>13, <1>14, <1>15

LEMMA TriedOut ==
    ASSUME MarketAssumption, NEW n \in Nat, IsMarket(market, n, Listed), NEW ask \in Asks,
           NEW q, NEW len \in Nat \ {0}, len <= MaxHops,
           NEW pairs, Ordered(pairs, market, Reverse(q), n, len), q \in Seq(1 .. n)
    PROVE  q \in Completed(TurnsOut(market, ask, MaxHops), n, MaxHops)
              <=> /\ Tradable(pairs, Reverse(q), n, len, TokenIn)
                  /\ Affordable(pairs, ask.amount)
<1>0. /\ ask.tokenIn = TokenIn /\ ask.tokenOut = TokenOut
      /\ ask.amount \in Nat /\ MaxHops \in Nat \ {0} /\ len \in Nat
  BY AskIs DEF MarketAssumption
<1>1. Len(Reverse(q)) = len /\ pairs = Pairs(market, Reverse(q))
  BY DEF Ordered
<1>2. PICK g : g = AmountsOut(pairs, TokenOut, ask.amount)
  OBVIOUS
<1>3. ComputedOut(g, pairs, market, q, ask)
  BY <1>0, <1>1, <1>2 DEF ComputedOut
<1>4. PICK turn : turn = TurnsOut(market, ask, MaxHops)
  OBVIOUS
<1>5. Len(market) = n /\ DOMAIN market = 1 .. n
  BY DEF IsMarket
<1>16. Len(q) = len /\ (Free(Reverse(q)) <=> Free(q))
  BY <1>1, ReverseTwice
<1>6. q \in Completed(turn, n, MaxHops)
          <=> Free(q) /\ AllGoodOut(g, pairs, len, TokenIn, TokenIn)
  BY <1>0, <1>3, <1>4, <1>5, <1>16, CompletedOut
<1>7. Consists(pairs, market, Reverse(q), len, Listed)
  BY <1>0, OrderedAre
<1>8. Len(pairs) = len /\ AllPairs(pairs, len) /\ AllListed(pairs, len, Listed)
  BY <1>7 DEF Consists
<1>9. IsAgainst(g, pairs, len, TokenOut, ask.amount)
  BY <1>0, <1>2, <1>8, AgainstNext
<1>10. AllGoodOut(g, pairs, len, TokenIn, TokenIn)
          <=> /\ Reaches(pairs, len, TokenIn, TokenOut, Listed \ {TokenIn}) /\ AllOpen(pairs, len)
              /\ Afford(g, pairs, len)
  BY <1>8, <1>9, GoodAgainst
<1>11. Affordable(pairs, ask.amount) <=> Afford(g, pairs, len)
  <2>1. Affordable(pairs, ask.amount)
            <=> \A k \in 0 .. len - 1 : g[len - k].amount < pairs[len - k][g[len - k].token]
    BY <1>2, <1>8 DEF Affordable
  <2>2. ASSUME \A k \in 0 .. len - 1 : g[len - k].amount < pairs[len - k][g[len - k].token],
               NEW i \in 1 .. len
        PROVE  g[i].amount < pairs[i][g[i].token]
    <3>1. PICK k : k = len - i
      OBVIOUS
    <3>2. k \in 0 .. len - 1 /\ len - k = i
      BY <3>1
    <3> QED BY <2>2, <3>2
  <2>3. ASSUME \A i \in 1 .. len : g[i].amount < pairs[i][g[i].token], NEW k \in 0 .. len - 1
        PROVE  g[len - k].amount < pairs[len - k][g[len - k].token]
    <3>1. len - k \in 1 .. len
      OBVIOUS
    <3> QED BY <2>3, <3>1
  <2> QED BY <2>1, <2>2, <2>3 DEF Afford
<1>15. Tradable(pairs, Reverse(q), n, len, TokenIn)
          <=> /\ Free(q)
              /\ Reaches(pairs, len, TokenIn, TokenOut, Listed \ {TokenIn}) /\ AllOpen(pairs, len)
  BY <1>16 DEF Tradable
<1> QED BY <1>4, <1>6, <1>10, <1>11, <1>15

(* The search goes on only with paths that are not too long.               *)
LEMMA TurnsAreShort ==
    ASSUME MaxHops \in Nat \ {0}, NEW n \in Nat, IsMarket(market, n, Listed), NEW ask
    PROVE  /\ Short(TurnsIn(market, ask, MaxHops), n, MaxHops)
           /\ Short(TurnsOut(market, ask, MaxHops), n, MaxHops)
<1>1. DOMAIN market = 1 .. n
  BY DEF IsMarket
<1>2. ASSUME NEW p \in Seq(1 .. n), Len(p) \in 1 .. MaxHops
      PROVE  p \in Paths(market, MaxHops) \ {<< >>}
  <2>1. p # << >> /\ Len(p) <= MaxHops
    BY <1>2
  <2>2. PICK P : P = SeqOf(1 .. n, MaxHops)
    OBVIOUS
  <2>3. MaxHops \in Int
    OBVIOUS
  <2>4. \A r : r \in P <=> r \in Seq(1 .. n) /\ Len(r) <= MaxHops
    BY <2>2, <2>3, PathsAre
  <2>5. p \in P
    BY <2>1, <2>4
  <2>6. Paths(market, MaxHops) = P
    BY <1>1, <2>2 DEF Paths
  <2> QED BY <2>1, <2>5, <2>6
<1>3. \A p, token, target : Turn(market, p, token, target, MaxHops) = "goes on" => Len(p) < MaxHops
  BY DEF Turn
<1>4. Short(TurnsIn(market, ask, MaxHops), n, MaxHops)
  <2> SUFFICES ASSUME NEW p \in Seq(1 .. n), Len(p) \in 1 .. MaxHops,
                      TurnsIn(market, ask, MaxHops)[p] = "goes on"
               PROVE  Len(p) < MaxHops
    BY DEF Short
  <2>1. p \in Paths(market, MaxHops) \ {<< >>}
    BY <1>2
  <2>2. \E token, target : Turn(market, p, token, target, MaxHops) = "goes on"
    BY <2>1 DEF TurnsIn
  <2> QED BY <1>3, <2>2
<1>5. Short(TurnsOut(market, ask, MaxHops), n, MaxHops)
  <2> SUFFICES ASSUME NEW p \in Seq(1 .. n), Len(p) \in 1 .. MaxHops,
                      TurnsOut(market, ask, MaxHops)[p] = "goes on"
               PROVE  Len(p) < MaxHops
    BY DEF Short
  <2>1. p \in Paths(market, MaxHops) \ {<< >>}
    BY <1>2
  <2>2. \E token, target : Turn(market, p, token, target, MaxHops) = "goes on"
    BY <2>1 DEF TurnsOut
  <2> QED BY <1>3, <2>2
<1> QED BY <1>4, <1>5

(* The trades with which the search fills its list, each for a path.       *)
TradesIn(A, ask) == [q \in A |-> TradeIn(Pairs(market, q), TokenIn, ask.amount)]
TradesOut(A, ask) == [q \in A |-> TradeOut(Pairs(market, Reverse(q)), TokenOut, ask.amount)]
WantedIn(ask) ==
    {trade \in {TradeIn(pairs, TokenIn, ask.amount) : pairs \in Open(TokenOut)} : trade.output > 0}
WantedOut(ask) ==
    {TradeOut(pairs, TokenOut, ask.amount) :
        pairs \in {route \in Open(TokenIn) : Affordable(route, ask.amount)}}
PathsIn(n, ask) == Completed(TurnsIn(market, ask, MaxHops), n, MaxHops)
PathsOut(n, ask) == Completed(TurnsOut(market, ask, MaxHops), n, MaxHops)

LEMMA WantedInAre ==
    ASSUME MarketAssumption, NEW n \in Nat, IsMarket(market, n, Listed), NEW ask \in Asks,
           NEW A, A = PathsIn(n, ask)
    PROVE  /\ WantedIn(ask) = {TradesIn(A, ask)[q] : q \in A}
           /\ \A t \in WantedIn(ask) : IsTrade(t)
           /\ Differ(TradesIn(A, ask), A)
<1>0. /\ MaxHops \in Nat \ {0} /\ MaxHops \in Nat
      /\ ask.amount \in Nat \ {0}
  BY AskIs DEF MarketAssumption
<1>1. \A q \in A : TradesIn(A, ask)[q] = TradeIn(Pairs(market, q), TokenIn, ask.amount)
  BY DEF TradesIn
<1>2. \A pairs : pairs \in Open(TokenOut) <=> \E q, len : Tradable(pairs, q, n, len, TokenOut)
  BY <1>0, OpenIs
<1>3. ASSUME NEW q \in A
      PROVE  /\ q \in Seq(1 .. n)
             /\ \E len : Tradable(Pairs(market, q), q, n, len, TokenOut)
             /\ TradeIn(Pairs(market, q), TokenIn, ask.amount).output > 0
  <2>1. q \in Completed(TurnsIn(market, ask, MaxHops), n, MaxHops)
    BY DEF PathsIn
  <2>2. q \in Seq(1 .. n) /\ Len(q) \in Nat \ {0} /\ Len(q) <= MaxHops
    BY <1>0, <2>1, CompletedIs
  <2>3. PICK len \in Nat \ {0} : Len(q) = len /\ len <= MaxHops
    BY <2>2
  <2>4. PICK pairs : pairs = Pairs(market, q)
    OBVIOUS
  <2>5. Ordered(pairs, market, q, n, len)
    BY <2>2, <2>3, <2>4 DEF Ordered
  <2>6. Tradable(pairs, q, n, len, TokenOut) /\ TradeIn(pairs, TokenIn, ask.amount).output > 0
    BY <2>1, <2>3, <2>5, TriedIn
  <2> QED BY <2>2, <2>4, <2>6
<1>4. ASSUME NEW t \in WantedIn(ask)
      PROVE  IsTrade(t) /\ \E q \in A : t = TradeIn(Pairs(market, q), TokenIn, ask.amount)
  <2>1. PICK pairs \in Open(TokenOut) : t = TradeIn(pairs, TokenIn, ask.amount) /\ t.output > 0
    BY DEF WantedIn
  <2>2. PICK q, len : Tradable(pairs, q, n, len, TokenOut)
    BY <1>2, <2>1
  <2>3. /\ len \in Nat \ {0} /\ len <= MaxHops /\ Ordered(pairs, market, q, n, len)
        /\ Reaches(pairs, len, TokenIn, TokenOut, Listed \ {TokenOut}) /\ AllOpen(pairs, len)
    BY <2>2 DEF Tradable
  <2>4. q \in A
    BY <2>1, <2>2, <2>3, TriedIn DEF PathsIn
  <2>5. pairs = Pairs(market, q)
    BY <2>3 DEF Ordered
  <2>6. Consists(pairs, market, q, len, Listed)
    BY <2>3, OrderedAre
  <2>7. Len(pairs) = len /\ AllPairs(pairs, len)
    BY <2>6 DEF Consists
  <2>8. IsTrade(TradeIn(pairs, TokenIn, ask.amount))
    BY <1>0, <2>3, <2>7, TradeInIs
  <2> QED BY <2>1, <2>4, <2>5, <2>8
<1>5. ASSUME NEW q \in A PROVE TradesIn(A, ask)[q] \in WantedIn(ask)
  <2>1. PICK pairs : pairs = Pairs(market, q)
    OBVIOUS
  <2>2. pairs \in Open(TokenOut) /\ TradeIn(pairs, TokenIn, ask.amount).output > 0
    BY <1>2, <1>3, <2>1
  <2>3. TradesIn(A, ask)[q] = TradeIn(pairs, TokenIn, ask.amount)
    BY <1>1, <2>1
  <2> QED BY <2>2, <2>3 DEF WantedIn
<1>6. WantedIn(ask) = {TradesIn(A, ask)[q] : q \in A}
  <2>1. \A t \in WantedIn(ask) : \E q \in A : t = TradesIn(A, ask)[q]
    BY <1>1, <1>4
  <2> QED BY <1>5, <2>1
<1>7. ASSUME NEW p \in A, NEW q \in A, TradesIn(A, ask)[p] = TradesIn(A, ask)[q] PROVE p = q
  <2>1. /\ TradesIn(A, ask)[p].pairs = Pairs(market, p)
        /\ TradesIn(A, ask)[q].pairs = Pairs(market, q)
    <3>1. \A x : TradeIn(x, TokenIn, ask.amount).pairs = x
      BY DEF TradeIn
    <3> QED BY <1>1, <3>1
  <2>2. Pairs(market, p) = Pairs(market, q) /\ p \in Seq(1 .. n) /\ q \in Seq(1 .. n)
    BY <1>3, <1>7, <2>1
  <2> QED BY <2>2, OneOrder
<1> QED BY <1>4, <1>6, <1>7 DEF Differ

LEMMA FindsIn ==
    ASSUME MarketAssumption, MarketInv
    PROVE  BestIn
<1>1. PICK n \in Nat : n = Len(market)
  BY DEF MarketInv
<1>2. IsMarket(market, n, Listed)
  BY <1>1, MarketIs
<1>3. Len(market) = n /\ DOMAIN market = 1 .. n
  BY <1>2 DEF IsMarket
<1>4. ASSUME NEW ask \in Asks PROVE IsBest(BestTradesIn(market, ask, MaxHops), WantedIn(ask), ask.results)
  <2>0. /\ MaxHops \in Nat \ {0}
        /\ ask.tokenIn = TokenIn /\ ask.tokenOut = TokenOut /\ ask.results \in Nat \ {0}
    BY AskIs DEF MarketAssumption
  <2>1. PICK A : A = PathsIn(n, ask)
    OBVIOUS
  <2>2. PICK v : v = Visits(market, TurnsIn(market, ask, MaxHops), MaxHops)
    OBVIOUS
  <2>3. Lists(v, A)
    <3>1. PICK turn : turn = TurnsIn(market, ask, MaxHops)
      OBVIOUS
    <3>2. Short(turn, n, MaxHops)
      BY <1>2, <2>0, <3>1, TurnsAreShort
    <3>3. Lists(Visits(market, turn, MaxHops), Completed(turn, n, MaxHops))
      BY <1>3, <2>0, <3>2, VisitsAre
    <3> QED BY <2>1, <2>2, <3>1, <3>3 DEF PathsIn
  <2>4. \A k \in 1 .. Len(v) : v[k] \in A
    BY <2>3 DEF Lists
  <2>5. PICK e : e = TradesIn(A, ask)
    OBVIOUS
  <2>6. PICK B : B = WantedIn(ask)
    OBVIOUS
  <2>7. /\ B = {e[q] : q \in A} /\ \A t \in B : IsTrade(t)
        /\ Differ(e, A)
    BY <1>2, <2>1, <2>5, <2>6, WantedInAre
  <2>8. Lists(Each(e, v), B)
    BY <2>3, <2>7, ListsImage
  <2>9. Each(e, v)
            = [k \in 1 .. Len(v) |-> TradeIn(Pairs(market, v[k]), ask.tokenIn, ask.amount)]
    BY <2>0, <2>4, <2>5 DEF TradesIn, Each
  <2>10. PICK trades : trades = Each(e, v)
    OBVIOUS
  <2>11. IsBest(Collected(trades, ask.results), B, ask.results)
    BY <2>0, <2>7, <2>8, <2>10, CollectedIsBest
  <2>12. BestTradesIn(market, ask, MaxHops) = Collected(trades, ask.results)
    BY <2>2, <2>9, <2>10 DEF BestTradesIn
  <2> QED BY <2>6, <2>11, <2>12
<1> QED BY <1>4 DEF BestIn, WantedIn

LEMMA WantedOutAre ==
    ASSUME MarketAssumption, NEW n \in Nat, IsMarket(market, n, Listed), NEW ask \in Asks,
           NEW A, A = PathsOut(n, ask)
    PROVE  /\ WantedOut(ask) = {TradesOut(A, ask)[q] : q \in A}
           /\ \A t \in WantedOut(ask) :
                 /\ IsTrade(t) /\ Len(t.pairs) \in Nat /\ Takes(t.pairs, TokenOut, ask.amount)
                 /\ Against(t.pairs, TokenOut, ask.amount).token = TokenIn
           /\ Differ(TradesOut(A, ask), A)
<1>0. /\ MaxHops \in Nat \ {0} /\ MaxHops \in Nat
      /\ ask.amount \in Nat \ {0} /\ ask.amount \in Nat
  BY AskIs DEF MarketAssumption
<1>1. \A q \in A : TradesOut(A, ask)[q] = TradeOut(Pairs(market, Reverse(q)), TokenOut, ask.amount)
  BY DEF TradesOut
<1>2. \A pairs : pairs \in Open(TokenIn) <=> \E q, len : Tradable(pairs, q, n, len, TokenIn)
  BY <1>0, OpenIs
<1>3. ASSUME NEW q \in A
      PROVE  /\ q \in Seq(1 .. n)
             /\ \E len : Tradable(Pairs(market, Reverse(q)), Reverse(q), n, len, TokenIn)
             /\ Affordable(Pairs(market, Reverse(q)), ask.amount)
  <2>1. q \in Completed(TurnsOut(market, ask, MaxHops), n, MaxHops)
    BY DEF PathsOut
  <2>2. q \in Seq(1 .. n) /\ Len(q) \in Nat \ {0} /\ Len(q) <= MaxHops
    BY <1>0, <2>1, CompletedIs
  <2>3. PICK len \in Nat \ {0} : Len(q) = len /\ len <= MaxHops
    BY <2>2
  <2>7. Reverse(q) \in Seq(1 .. n) /\ Len(Reverse(q)) = Len(q)
    BY <2>2, ReverseTwice
  <2>4. PICK pairs : pairs = Pairs(market, Reverse(q))
    OBVIOUS
  <2>5. Ordered(pairs, market, Reverse(q), n, len)
    BY <2>3, <2>4, <2>7 DEF Ordered
  <2>6. Tradable(pairs, Reverse(q), n, len, TokenIn) /\ Affordable(pairs, ask.amount)
    BY <2>1, <2>2, <2>3, <2>5, TriedOut
  <2> QED BY <2>2, <2>4, <2>6
<1>4. ASSUME NEW t \in WantedOut(ask)
      PROVE  /\ IsTrade(t) /\ Len(t.pairs) \in Nat /\ Takes(t.pairs, TokenOut, ask.amount)
             /\ Against(t.pairs, TokenOut, ask.amount).token = TokenIn
             /\ \E q \in A : t = TradeOut(Pairs(market, Reverse(q)), TokenOut, ask.amount)
  <2>1. PICK pairs \in Open(TokenIn) : t = TradeOut(pairs, TokenOut, ask.amount)
                                       /\ Affordable(pairs, ask.amount)
    BY DEF WantedOut
  <2>2. PICK r, len : Tradable(pairs, r, n, len, TokenIn)
    BY <1>2, <2>1
  <2>3. /\ len \in Nat \ {0} /\ len <= MaxHops /\ Ordered(pairs, market, r, n, len)
        /\ Reaches(pairs, len, TokenIn, TokenOut, Listed \ {TokenIn}) /\ AllOpen(pairs, len)
    BY <2>2 DEF Tradable
  <2>9. PICK q : q = Reverse(r)
    OBVIOUS
  <2>10. r \in Seq(1 .. n) /\ pairs = Pairs(market, r)
    BY <2>3 DEF Ordered
  <2>11. q \in Seq(1 .. n) /\ Reverse(q) = r
    BY <2>9, <2>10, ReverseTwice
  <2>4. q \in A
    <3>1. Ordered(pairs, market, Reverse(q), n, len) /\ Tradable(pairs, Reverse(q), n, len, TokenIn)
      BY <2>2, <2>3, <2>11
    <3> QED BY <2>1, <2>3, <2>11, <3>1, TriedOut DEF PathsOut
  <2>6. Consists(pairs, market, r, len, Listed)
    BY <2>3, OrderedAre
  <2>7. Len(pairs) = len /\ AllPairs(pairs, len)
    BY <2>6 DEF Consists
  <2>12. Afford(AmountsOut(pairs, TokenOut, ask.amount), pairs, len)
    <3>1. ASSUME NEW i \in 1 .. len
          PROVE  AmountsOut(pairs, TokenOut, ask.amount)[i].amount
                     < pairs[i][AmountsOut(pairs, TokenOut, ask.amount)[i].token]
      <4>1. PICK k : k = len - i
        OBVIOUS
      <4>2. k \in 0 .. len - 1 /\ len - k = i
        BY <2>3, <4>1
      <4> QED BY <2>1, <2>7, <4>2 DEF Affordable
    <3> QED BY <3>1 DEF Afford
  <2>8. /\ IsTrade(TradeOut(pairs, TokenOut, ask.amount))
        /\ Takes(pairs, TokenOut, ask.amount) /\ Against(pairs, TokenOut, ask.amount).token = TokenIn
    BY <1>0, <2>3, <2>7, <2>12, TradeOutIs
  <2>13. t.pairs = pairs
    BY <2>1 DEF TradeOut
  <2> QED BY <2>1, <2>3, <2>4, <2>7, <2>8, <2>10, <2>11, <2>13
<1>5. ASSUME NEW q \in A PROVE TradesOut(A, ask)[q] \in WantedOut(ask)
  <2>1. PICK pairs : pairs = Pairs(market, Reverse(q))
    OBVIOUS
  <2>2. pairs \in Open(TokenIn) /\ Affordable(pairs, ask.amount)
    BY <1>2, <1>3, <2>1
  <2>3. TradesOut(A, ask)[q] = TradeOut(pairs, TokenOut, ask.amount)
    BY <1>1, <2>1
  <2> QED BY <2>2, <2>3 DEF WantedOut
<1>6. WantedOut(ask) = {TradesOut(A, ask)[q] : q \in A}
  <2>1. \A t \in WantedOut(ask) : \E q \in A : t = TradesOut(A, ask)[q]
    BY <1>1, <1>4
  <2> QED BY <1>5, <2>1
<1>7. ASSUME NEW p \in A, NEW q \in A, TradesOut(A, ask)[p] = TradesOut(A, ask)[q] PROVE p = q
  <2>1. /\ TradesOut(A, ask)[p].pairs = Pairs(market, Reverse(p))
        /\ TradesOut(A, ask)[q].pairs = Pairs(market, Reverse(q))
    <3>1. \A x : TradeOut(x, TokenOut, ask.amount).pairs = x
      BY DEF TradeOut
    <3> QED BY <1>1, <3>1
  <2>2. /\ Pairs(market, Reverse(p)) = Pairs(market, Reverse(q))
        /\ p \in Seq(1 .. n) /\ q \in Seq(1 .. n)
    BY <1>3, <1>7, <2>1
  <2>3. /\ Reverse(p) \in Seq(1 .. n) /\ Reverse(Reverse(p)) = p
        /\ Reverse(q) \in Seq(1 .. n) /\ Reverse(Reverse(q)) = q
    BY <2>2, ReverseTwice
  <2>4. Reverse(p) = Reverse(q)
    BY <2>2, <2>3, OneOrder
  <2> QED BY <2>3, <2>4
<1> QED BY <1>4, <1>6, <1>7 DEF Differ

LEMMA FindsOut ==
    ASSUME MarketAssumption, MarketInv
    PROVE  BestOut /\ QuoteSuffices
<1>1. PICK n \in Nat : n = Len(market)
  BY DEF MarketInv
<1>2. IsMarket(market, n, Listed)
  BY <1>1, MarketIs
<1>3. Len(market) = n /\ DOMAIN market = 1 .. n
  BY <1>2 DEF IsMarket
<1>4. ASSUME NEW ask \in Asks PROVE IsBest(BestTradesOut(market, ask, MaxHops), WantedOut(ask), ask.results)
  <2>0. /\ MaxHops \in Nat \ {0}
        /\ ask.tokenIn = TokenIn /\ ask.tokenOut = TokenOut /\ ask.results \in Nat \ {0}
    BY AskIs DEF MarketAssumption
  <2>1. PICK A : A = PathsOut(n, ask)
    OBVIOUS
  <2>2. PICK v : v = Visits(market, TurnsOut(market, ask, MaxHops), MaxHops)
    OBVIOUS
  <2>3. Lists(v, A)
    <3>1. PICK turn : turn = TurnsOut(market, ask, MaxHops)
      OBVIOUS
    <3>2. Short(turn, n, MaxHops)
      BY <1>2, <2>0, <3>1, TurnsAreShort
    <3>3. Lists(Visits(market, turn, MaxHops), Completed(turn, n, MaxHops))
      BY <1>3, <2>0, <3>2, VisitsAre
    <3> QED BY <2>1, <2>2, <3>1, <3>3 DEF PathsOut
  <2>4. \A k \in 1 .. Len(v) : v[k] \in A
    BY <2>3 DEF Lists
  <2>5. PICK e : e = TradesOut(A, ask)
    OBVIOUS
  <2>6. PICK B : B = WantedOut(ask)
    OBVIOUS
  <2>7. /\ B = {e[q] : q \in A} /\ \A t \in B : IsTrade(t)
        /\ Differ(e, A)
    BY <1>2, <2>1, <2>5, <2>6, WantedOutAre
  <2>8. Lists(Each(e, v), B)
    BY <2>3, <2>7, ListsImage
  <2>9. Each(e, v)
            = [k \in 1 .. Len(v) |-> TradeOut(Pairs(market, Reverse(v[k])), ask.tokenOut, ask.amount)]
    BY <2>0, <2>4, <2>5 DEF TradesOut, Each
  <2>10. PICK trades : trades = Each(e, v)
    OBVIOUS
  <2>11. IsBest(Collected(trades, ask.results), B, ask.results)
    BY <2>0, <2>7, <2>8, <2>10, CollectedIsBest
  <2>12. BestTradesOut(market, ask, MaxHops) = Collected(trades, ask.results)
    BY <2>2, <2>9, <2>10 DEF BestTradesOut
  <2> QED BY <2>6, <2>11, <2>12
<1>5. BestOut
  BY <1>4 DEF BestOut, WantedOut
<1>6. ASSUME NEW ask \in Asks, NEW i \in DOMAIN BestTradesOut(market, ask, MaxHops)
      PROVE  LET t == BestTradesOut(market, ask, MaxHops)[i]
             IN  Along(t.pairs, TokenIn, t.input).amount >= t.output
  <2>1. PICK t : t = BestTradesOut(market, ask, MaxHops)[i]
    OBVIOUS
  <2>2. t \in WantedOut(ask)
    BY <1>4, <2>1 DEF IsBest
  <2>3. PICK A : A = PathsOut(n, ask)
    OBVIOUS
  <2>4. /\ Len(t.pairs) \in Nat /\ Takes(t.pairs, TokenOut, ask.amount)
        /\ Against(t.pairs, TokenOut, ask.amount).token = TokenIn
    BY <1>2, <2>2, <2>3, WantedOutAre
  <2>5. PICK pairs : pairs = t.pairs
    OBVIOUS
  <2>6. t = TradeOut(pairs, TokenOut, ask.amount)
    <3>1. PICK route : t = TradeOut(route, TokenOut, ask.amount)
      BY <2>2 DEF WantedOut
    <3>2. t.pairs = route
      BY <3>1 DEF TradeOut
    <3> QED BY <2>5, <3>1, <3>2
  <2>7. t.input = Against(pairs, TokenOut, ask.amount).amount /\ t.output = ask.amount
    BY <2>6 DEF TradeOut
  <2>8. ask.amount \in Nat \ {0}
    BY AskIs
  <2>9. PICK quote : quote = Against(pairs, TokenOut, ask.amount)
    OBVIOUS
  <2>10. Along(pairs, quote.token, quote.amount).amount >= ask.amount
    BY <2>4, <2>5, <2>8, <2>9, QuotesSuffice
  <2> QED BY <2>1, <2>4, <2>5, <2>7, <2>9, <2>10
<1>7. QuoteSuffices
  BY <1>6 DEF QuoteSuffices
<1> QED BY <1>5, <1>7

LEMMA MarketNextKept ==
    ASSUME MarketAssumption, MarketInv, [MarketNext]_market
    PROVE  MarketInv'
<1>1. CASE UNCHANGED market
  BY <1>1 DEF MarketInv
<1>2. ASSUME NEW s \in Listed, NEW t \in Listed, NEW r \in Reserves, s < t, AddPair(s, t, r)
      PROVE  MarketInv'
  <2>1. s \in Int /\ t \in Int /\ s # t /\ r[1] \in Nat /\ r[2] \in Nat
    BY <1>2 DEF MarketAssumption
  <2>2. PICK p : p = [u \in {s, t} |-> IF u = s THEN r[1] ELSE r[2]]
    OBVIOUS
  <2>3. p \in [{s, t} -> Nat] /\ DOMAIN p = {s, t}
    BY <2>1, <2>2
  <2>4. p \in Kinds
    <3>1. {s, t} \in SUBSET Listed
      BY <1>2
    <3>2. IsPair(p)
      BY <2>1, <2>3 DEF IsPair
    <3> QED BY <2>3, <3>1, <3>2 DEF Kinds
  <2>5. market' = Append(market, p) /\ \A i \in DOMAIN market : DOMAIN market[i] # {s, t}
    BY <1>2, <2>2 DEF AddPair
  <2>6. PICK n \in Nat : n = Len(market)
    BY DEF MarketInv
  <2>7. /\ market \in Seq(Kinds) /\ DOMAIN market = 1 .. n
        /\ \A i, j \in 1 .. n : i # j => DOMAIN market[i] # DOMAIN market[j]
    BY <2>6 DEF MarketInv
  <2>8. PICK m : m = market'
    OBVIOUS
  <2>9. /\ m \in Seq(Kinds) /\ Len(m) = n + 1 /\ m[n + 1] = p
        /\ \A i \in 1 .. n : m[i] = market[i]
    BY <2>4, <2>5, <2>6, <2>7, <2>8
  <2>10. ASSUME NEW i \in 1 .. n + 1, NEW j \in 1 .. n + 1, i # j PROVE DOMAIN m[i] # DOMAIN m[j]
    <3>1. i \in 1 .. n \/ i = n + 1
      OBVIOUS
    <3>2. j \in 1 .. n \/ j = n + 1
      OBVIOUS
    <3>3. \A k \in 1 .. n : DOMAIN m[k] # DOMAIN m[n + 1]
      BY <2>3, <2>5, <2>7, <2>9
    <3>4. CASE i \in 1 .. n /\ j \in 1 .. n
      BY <2>7, <2>9, <2>10, <3>4
    <3> QED BY <2>10, <3>1, <3>2, <3>3, <3>4
  <2>11. /\ m \in Seq(Kinds)
         /\ \A i, j \in 1 .. Len(m) : i # j => DOMAIN m[i] # DOMAIN m[j]
    BY <2>9, <2>10
  <2> QED BY <2>8, <2>11 DEF MarketInv, Kinds
<1> QED BY <1>1, <1>2 DEF MarketNext

(* FindsBest: whatever the pairs of the market and their order, the number *)
(* of hops and of results, bestTradeExactIn and bestTradeExactOut return   *)
(* the best of the trades along all routes, in the order of                *)
(* tradeComparator, and what is quoted for an exact output buys it.        *)
THEOREM SearchFindsBest == MarketSpec => []FindsBest
<1>1. MarketInit => MarketInv
  BY DEF MarketInit, MarketInv
<1>2. MarketInv /\ [MarketNext]_market => MarketInv'
  BY MarketAssumption, MarketNextKept
<1>3. MarketInv => FindsBest
  BY MarketAssumption, FindsIn, FindsOut DEF FindsBest
<1> QED BY <1>1, <1>2, <1>3, PTL DEF MarketSpec
=============================================================================
