------------------------------ MODULE SwapForm ------------------------------
(***************************************************************************)
(* The two fields of the swap screen                                       *)
(* (argent-x/packages/swap/src/lib/state/swap.ts, and the handlers of      *)
(* argent-x/packages/extension/src/ui/features/swap/Swap.tsx).             *)
(*                                                                         *)
(* The user fixes the amount of one field, the independent one; the other  *)
(* amount is computed.  The typed value is not stored with its currency.   *)
(***************************************************************************)
CONSTANTS
    Currencies, Values, Blank, ETH,
    Usdc  \* the tokens USDC of the networks

(* What the constants have to be.                                         *)
ConstantsOK ==
    /\ Blank \notin Values
    /\ ETH \in Currencies /\ Usdc \subseteq Currencies \ {ETH}

VARIABLES
    independentField, typedValue, currencyId,
    meant,    \* history: the currency the user has typed the value for, or chosen for it
    replaced  \* history: the screen has put USDC in its place

vars == <<independentField, typedValue, currencyId, meant, replaced>>

Fields == {"INPUT", "OUTPUT"}
OtherField(field) == IF field = "INPUT" THEN "OUTPUT" ELSE "INPUT"

Init ==
    /\ independentField = "INPUT" /\ typedValue = Blank
    /\ \E token \in Usdc : currencyId = [f \in Fields |-> IF f = "INPUT" THEN ETH ELSE token]
    /\ meant = ETH /\ replaced = FALSE

(* Faulty: the fields are exchanged, the independent one stays.            *)
SelectCurrencyStaying(field, currency) ==
    /\ UNCHANGED independentField
    /\ IF currency = currencyId[OtherField(field)]
       THEN currencyId' = [f \in Fields |-> currencyId[OtherField(f)]]
       ELSE currencyId' = [currencyId EXCEPT ![field] = currency]

(* selectCurrency: the currency of the other field is exchanged with it.   *)
SelectCurrency(field, currency) ==
    IF currency = currencyId[OtherField(field)]
    THEN /\ independentField' = OtherField(independentField)
         /\ currencyId' = [f \in Fields |-> currencyId[OtherField(f)]]
    ELSE /\ UNCHANGED independentField
         /\ currencyId' = [currencyId EXCEPT ![field] = currency]

(* handleOutputSelect: the user wants the typed output in the new currency.*)
HandleOutputSelect(currency) ==
    LET chosen == independentField = "OUTPUT" /\ currency # currencyId["INPUT"]
    IN  /\ SelectCurrency("OUTPUT", currency)
        /\ meant' = IF chosen THEN currency ELSE meant
        /\ replaced' = (replaced /\ ~ chosen)
        /\ UNCHANGED typedValue

(* handleInputSelect: the typed value is cleared, too.                     *)
HandleInputSelect(currency) ==
    /\ currencyId' = IF currency = currencyId["OUTPUT"]
                     THEN [f \in Fields |-> currencyId[OtherField(f)]]
                     ELSE [currencyId EXCEPT !["INPUT"] = currency]
    /\ independentField' = "INPUT" /\ typedValue' = Blank
    /\ UNCHANGED <<meant, replaced>>

SwitchCurrencies ==
    /\ independentField' = OtherField(independentField)
    /\ currencyId' = [f \in Fields |-> currencyId[OtherField(f)]]
    /\ UNCHANGED <<typedValue, meant, replaced>>

TypeInput(field, value) ==
    /\ independentField' = field
    /\ typedValue' = value
    /\ meant' = currencyId[field] /\ replaced' = FALSE
    /\ UNCHANGED currencyId

(* The screen is opened again, or the network changes: an effect selects   *)
(* USDC.  The user has not asked for that; but an output that was typed in *)
(* another currency is from now on an amount of USDC.                      *)
SelectDefault(token) ==
    LET other == independentField = "OUTPUT" /\ \A f \in Fields : token # currencyId[f]
    IN  /\ SelectCurrency("OUTPUT", token)
        /\ replaced' = (replaced \/ other)
        /\ UNCHANGED <<typedValue, meant>>

Next ==
    \/ \E currency \in Currencies : HandleOutputSelect(currency)
    \/ \E currency \in Currencies : HandleInputSelect(currency)
    \/ SwitchCurrencies
    \/ \E field \in Fields, value \in Values \cup {Blank} : TypeInput(field, value)
    \/ \E token \in Usdc : SelectDefault(token)

Spec == Init /\ [][Next]_vars

---------------------------------------------------------------------------
(* Properties.                                                             *)

(* The fields never show the same currency.                                *)
Distinct == currencyId["INPUT"] # currencyId["OUTPUT"]

(* However the fields are exchanged, the typed value stays an amount of    *)
(* the currency for which the user has typed it, or which the user has     *)
(* chosen for it since; unless the screen has put USDC there by itself,    *)
(* and then it stays an amount of USDC.                                    *)
ValueKeepsCurrency ==
    typedValue # Blank =>
        IF replaced THEN currencyId[independentField] \in Usdc
        ELSE currencyId[independentField] = meant
=============================================================================
