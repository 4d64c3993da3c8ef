-------------------------------- MODULE OSC --------------------------------
(* The OSC server with its two kinds of connection: registerScheme chooses. *)
EXTENDS OSCDatagram, OSCStream

VARIABLE connectionType

vars == <<connectionType, datagramVars, streamVars>>

Init ==
    /\ connectionType \in {"UDP", "TCP"}
    /\ DatagramInit
    /\ StreamInit

UDP == connectionType = "UDP" /\ DatagramNext /\ UNCHANGED <<connectionType, streamVars>>

TCP == connectionType = "TCP" /\ StreamNext /\ UNCHANGED <<connectionType, datagramVars>>

TCPThread == connectionType = "TCP" /\ ServerThread /\ UNCHANGED <<connectionType, datagramVars>>

Next == UDP \/ TCP

\* The thread runs: select returns after a second at the latest.
Spec == Init /\ [][Next]_vars /\ WF_vars(TCPThread)
=============================================================================
