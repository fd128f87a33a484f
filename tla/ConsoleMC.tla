----------------------------- MODULE ConsoleMC ------------------------------
(* An instance of Console for TLC, with the sizes of Console.cfg.            *)
EXTENDS Console

MCPrinted == {0}

MCSpec == ConSpec /\ ConFair
=============================================================================
