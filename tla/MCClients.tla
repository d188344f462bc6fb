------------------------------ MODULE MCClients ------------------------------
(* The two client programs of the repository; one of them runs.  The Rust  *)
(* client meets the configurations of MCClientConnection; the C# client    *)
(* connects twice, to a server that sends two frames of 52 bytes, cut      *)
(* behind the length, inside the tag or not at all.                        *)
EXTENDS MCClientConnection, CsTraffic

VARIABLE program

MCInit ==
    /\ Init /\ CsTrafficInit
    /\ \/ program = "rust"
       \/ program = "csharp" /\ config = DefaultClientConfig

MCNext ==
    /\ UNCHANGED program
    /\ \/ program = "rust" /\ ClientNext /\ UNCHANGED csVars
       \/ program = "csharp" /\ CsTrafficNext /\ UNCHANGED vars

MCSpec == /\ MCInit /\ [][MCNext]_<<program, vars, csVars>>
          /\ ClientFairness /\ CsTrafficFairness
=============================================================================
