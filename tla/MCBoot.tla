------------------------------- MODULE MCBoot -------------------------------
(* Boot for TLC: a desktop and the desktop that replaces it.               *)
EXTENDS Boot

CONSTANTS desktop1, desktop2

MCClients == {desktop1, desktop2}
MCMaxRequests == [c \in MCClients |-> 1]
=============================================================================
