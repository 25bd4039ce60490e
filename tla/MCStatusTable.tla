---------------------------- MODULE MCStatusTable ----------------------------
(* A small instance of StatusTable for TLC: a mod with releases, and one whose *)
(* file cannot be read unless it is frozen.                                    *)
EXTENDS StatusTableInv

CONSTANTS m1, m2, early, late

OneRepo == {Nk}
OneTopic == {FreezeAuto}
TwoMods == {m1, m2}
HomeNk == [t \in OneTopic |-> Nk]
AllContents == {Netkan, Garbled, Frozen}
TwoDates == {early, late}
Olds == {early}
OneDated == {w \in [TwoMods -> TwoDates \cup {NoDate}] : w[m2] = NoDate}
OneGarbled == [m \in TwoMods |-> IF m = m1 THEN {Netkan, Frozen} ELSE {Garbled, Frozen}]
==============================================================================
