--------------------------- MODULE MCCoordinator ---------------------------
(***************************************************************************)
(* Values for the coordinator's constants.  The price may be 1 or 2 and    *)
(* MAX_PRICE_ETH is 1.                                                     *)
(***************************************************************************)
EXTENDS Coordinator

PricesDef == {1, 2}
ReservesDef == {1}
LiveOnly == {TRUE}
LiveAndDry == {TRUE, FALSE}
=============================================================================
