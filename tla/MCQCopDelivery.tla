--------------------------- MODULE MCQCopDelivery --------------------------
(* QCopDelivery as TLC checks it; its constants are numbers, given in the *)
(* configurations.                                                        *)
EXTENDS QCopDelivery
=============================================================================
