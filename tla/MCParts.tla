------------------------------ MODULE MCParts ------------------------------
(***************************************************************************)
(* Three parts of the programs that share no state with each other or with *)
(* the rest: the command line and the memory of the queue (Startup), the   *)
(* header (WireProtocol) and the log (Log).  A behaviour is one of one     *)
(* part, while the other two stay in one of their initial states.          *)
(***************************************************************************)
EXTENDS MCStartup, MCWireProtocol, MCLog

VARIABLE part   \* the part that takes steps

StartAtRest ==
    /\ argv = <<>> /\ optind = 1 /\ config = DefaultConfig
    /\ start_pc = "options" /\ mapped = 0 /\ flags = 0

WireAtRest ==
    /\ client_le = TRUE /\ server_le = TRUE
    /\ frame = CHOOSE f \in Frames : TRUE
    /\ hdr = <<>> /\ wire_pc = "new" /\ parsed = {} /\ ext = "none"

PartsInit ==
    \/ part = "startup" /\ StartInit /\ WireAtRest /\ LogInit
    \/ part = "wire" /\ StartAtRest /\ WireInit /\ LogInit
    \/ part = "log" /\ StartAtRest /\ WireAtRest /\ LogInit

StartStep == part = "startup" /\ StartNext /\ UNCHANGED <<part, wireVars, logVars>>
WireStep  == part = "wire" /\ WireNext /\ UNCHANGED <<part, startVars, logVars>>
LogStep   == part = "log" /\ LogNext /\ UNCHANGED <<part, startVars, wireVars>>

PartsNext == StartStep \/ WireStep \/ LogStep

PartsSpec == PartsInit /\ [][PartsNext]_<<part, startVars, wireVars, logVars>>
=============================================================================
