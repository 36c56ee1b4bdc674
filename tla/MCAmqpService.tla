--------------------------- MODULE MCAmqpService ---------------------------
(* The instance of AmqpService that is checked.                               *)
EXTENDS AmqpService
============================================================================
