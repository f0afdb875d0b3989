--------------------------- MODULE MCGatewayInbox ---------------------------
(***************************************************************************)
(* Constants of the TLC instances of GatewayInbox.                         *)
(***************************************************************************)
EXTENDS GatewayInbox

MCOneConversation == [d \in Delivery |-> "thread"]
=============================================================================
