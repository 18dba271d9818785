-------------------------- MODULE MCBrokerResidency --------------------------
(* Four sources that fill the larger budget together, three of which        *)
(* collide in the small table, and one that overflows the byte count with   *)
(* them.                                                                    *)
EXTENDS BrokerResidency

MCSources == 1..5
MCSize == <<1, 1, 2, 3, 9>>
MCHash == <<3, 3, 7, 4, 2>>

(* Tracking off, and a budget for four of the sources.                      *)
MCBudgets == {0, 7}
=============================================================================
