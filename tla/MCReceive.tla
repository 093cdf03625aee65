------------------------------ MODULE MCReceive ------------------------------
(***************************************************************************)
(* A small instance of Receive for TLC: a command with a payload, whose    *)
(* bytes look like the beginning of a frame, and one without.              *)
(***************************************************************************)
EXTENDS Receive

MCMagic == <<"A", "F", "B">>
MCPayloadOf == [kind \in {"data", "status"} |-> IF kind = "data" THEN <<"A", "F">> ELSE <<>>]
MCRequests == <<"data", "status">>

==============================================================================
