--------------------------- MODULE MCAlarmServer ---------------------------
(* Values for the constants of AlarmServer that a cfg cannot write. *)
EXTENDS AlarmServer, TLC

AnyPoint == Points

Symmetry == Permutations(Keys)

(* every point but the one between unlink(saveFile) and the rename *)
SafePoints == Points \ {"rename"}
=============================================================================
