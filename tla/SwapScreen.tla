----------------------------- MODULE SwapScreen -----------------------------
(***************************************************************************)
(* The swap screen and what is beneath it: the two fields in which the     *)
(* user types an amount (SwapForm), the market in which the trades for it  *)
(* are searched (SwapMarket), and the pair with which what is quoted is    *)
(* exchanged (SwapPool).                                                   *)
(***************************************************************************)
EXTENDS SwapPool, SwapMarket

CONSTANTS Currencies, Values, Blank, ETH, Usdc

VARIABLES independentField, typedValue, currencyId, meant, replaced

Form == INSTANCE SwapForm

ASSUME FormAssumption == Form!ConstantsOK

---------------------------------------------------------------------------
(* Properties.                                                             *)

(* However the user selects and exchanges currencies, a typed value stays  *)
(* an amount of the currency it was typed or chosen for.  Only the screen  *)
(* itself makes it one of USDC (Distinct, ValueKeepsCurrency).             *)
FormKeepsValue == Form!Distinct /\ Form!ValueKeepsCurrency
=============================================================================
