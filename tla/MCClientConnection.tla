------------------------ MODULE MCClientConnection ------------------------
(* Instances of ClientConnection for TLC: the kinds of the clients. *)
EXTENDS ClientConnection

CONSTANTS hmip, cuxd

OnlyCCU    == [c \in {hmip} |-> "CCU"]
CCUAndJson == [c \in {hmip, cuxd} |-> IF c = hmip THEN "CCU" ELSE "JsonCCU"]

(* Every outage for every client; or only the JSON backend ever fails, while the
   XML-RPC one may restart and forget its registrations. *)
AllOutages  == [c \in Clients |-> {"down", "fault", "denied"}]
JsonOutages == [c \in Clients |-> IF c = cuxd THEN {"down"} ELSE {}]
===========================================================================
