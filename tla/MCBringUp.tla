------------------------------- MODULE MCBringUp -------------------------------
(* Three machines, two handlers, the keys spread over two servers by kind.    *)
EXTENDS BringUp

CONSTANTS m0, m1, m2, h1, h2

MCKey == {"IBVerbsConnInfo", "IBVerbsTokensMsg"} \X Machine \X Machine
MCOwner == [k \in MCKey |-> IF k[1] = "IBVerbsConnInfo" THEN m0 ELSE m1]
MCBarrier == {"SetUp:62", "SetUp:68", "RegisterMsgHandler:48"}
MCOrder == [m \in Machine |-> <<h1, h2>>]
\* Two handlers for two types, or a second handler for the same type.
MCTypes == [h \in Handler |-> IF h = h1 THEN 10 ELSE 11]
MCOneType == [h \in Handler |-> 10]
================================================================================
