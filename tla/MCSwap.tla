------------------------------- MODULE MCSwap -------------------------------
(* The swap library, each part on its own: a pair that is traded with, the *)
(* markets in which trades are searched, and the form of the swap screen.  *)
EXTENDS SwapScreen

CONSTANT usdc1

VARIABLE part

formVars == <<independentField, typedValue, currencyId, meant, replaced>>

(* Divisions round off much of every amount.                               *)
MCReserve == [t \in Tokens |-> IF t = TokenA THEN 11 ELSE 7]
MCPurse == [t \in Tokens |-> IF t = TokenA THEN 5 ELSE 4]

MCReserves == {<<9, 8>>, <<4, 9>>, <<7, 0>>}

MCInit ==
    /\ part \in {"pool", "market", "form"}
    /\ Init /\ MarketInit /\ Form!Init
    /\ part = "form" \/ currencyId["OUTPUT"] = usdc1

MCNext ==
    /\ UNCHANGED part
    /\ \/ part = "pool" /\ Next /\ UNCHANGED <<market, formVars>>
       \/ part = "market" /\ MarketNext /\ UNCHANGED <<vars, formVars>>
       \/ part = "form" /\ Form!Next /\ UNCHANGED <<vars, market>>

MCSpec == MCInit /\ [][MCNext]_<<vars, market, formVars, part>>
=============================================================================
