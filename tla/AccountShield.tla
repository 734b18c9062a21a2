--------------------------- MODULE AccountShield ---------------------------
(***************************************************************************)
(* An account with Argent Shield: the record that follows the chain        *)
(* (AccountDetails), and the screens that offer what the record calls for  *)
(* (ShieldEscape).                                                         *)
(***************************************************************************)
EXTENDS AccountDetails

CONSTANTS Wishes, Cosigner, Period, MaxEscapes, MaxTriggers, MaxFails, MayWatch

VARIABLES known, got, queue, sent, watch, contract, budget

Shield == INSTANCE ShieldEscape WITH
    stored <- known, fetched <- got, chain <- contract, MaxChanges <- MaxTriggers

ASSUME ShieldAssumption == Shield!ConstantsOK

---------------------------------------------------------------------------
(* Properties.                                                             *)

(* What a screen offers is signed and called as the contract requires      *)
(* (OfferedIsValid).                                                       *)
ScreensOfferValid == Shield!OfferedIsValid
=============================================================================
