----------------------------- MODULE MCRuntime ------------------------------
(***************************************************************************)
(* What a thread of the runtime waits for, explored side by side: a reply  *)
(* from the stream controller, and the completion of an inference.  The    *)
(* two share no state, so a behaviour belongs to one of them and the other *)
(* stays where it starts, where it has nothing to do.                      *)
(***************************************************************************)
EXTENDS DlaCompletion, Mailbox

VARIABLE part

MCInit ==
    /\ part \in {"mailbox", "completion"}
    /\ CommsInit /\ Init
    /\ part = "mailbox" => runtimePolling
    /\ part = "completion" => reliable
MCNext ==
    /\ \/ part = "mailbox" /\ CommsNext /\ UNCHANGED vars
       \/ part = "completion" /\ Next /\ UNCHANGED commsVars
    /\ UNCHANGED part
MCSpec == MCInit /\ [][MCNext]_<<part, commsVars, vars>> /\ CommsFairness /\ Fairness
=============================================================================
