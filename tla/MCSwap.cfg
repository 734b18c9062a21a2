SPECIFICATION MCSpec
CONSTANTS
    ETH = eth
    Usdc = {usdc1, usdc2}
    usdc1 = usdc1
    Currencies = {eth, usdc1, usdc2, dai}
    Values = {v1, v2}
    Blank = blank
    TokenA = a
    TokenB = b
    Others = 9
    MaxSteps = 7
    Listed = {1, 2, 3, 4}
    TokenIn = 1
    TokenOut = 4
    MaxHops = 3
    Reserves <- MCReserves
    Amounts = {1, 4}
    Results = {1, 2}
    MaxPairs = 4
    Reserve <- MCReserve
    Purse <- MCPurse
INVARIANTS
    NoProfit
    FindsBest
    FormKeepsValue
PROPERTIES
    ShareKept
\* The bounds on trades and pairs are reached.
CHECK_DEADLOCK FALSE
