----------------------------- MODULE MCEventBus -----------------------------
(* EventBus for TLC: the desktop sends two requests, a shell one.          *)
EXTENDS EventBus

CONSTANTS desktop, shell

MCClients == {desktop, shell}
MCLarge == {desktop}
MCMaxRequests == desktop :> 2 @@ shell :> 1
=============================================================================
