--------------------------- MODULE MCRegistration ---------------------------
(* Two storage servers, one of which is started twice, on a name server     *)
(* with room for two: registrations side by side, a restart with the old    *)
(* entry still there, one connection too many, and one path too many.       *)
EXTENDS Registration

CONSTANTS ss1, ss2

MCPathsFile == [s \in {ss1, ss2} |-> IF s = ss1 THEN <<"p", "q">> ELSE <<"p">>]

MCMaxStarts == [s \in {ss1, ss2} |-> IF s = ss1 THEN 2 ELSE 1]
=============================================================================
