--------------------------- MODULE RequestService ---------------------------
(***************************************************************************)
(* What a caller of StreamControllerComms may rely on: a request that was  *)
(* reported as scheduled has been handled by the stream controller exactly *)
(* once, and one that was reported as failed never is.                     *)
(***************************************************************************)
EXTENDS Sequences

CONSTANT Requests

VARIABLES results,      \* what each request was told: none yet, ok or failed
          handled       \* the requests the controller handled, in order

HandledSet == {handled[i] : i \in DOMAIN handled}

Init == /\ results = [r \in Requests |-> "none"]
        /\ handled = <<>>

Execute(r) == /\ results[r] = "none" /\ r \notin HandledSet
              /\ handled' = Append(handled, r)
              /\ results' = results

ReturnOk(r) == /\ results[r] = "none" /\ r \in HandledSet
               /\ results' = [results EXCEPT ![r] = "ok"]
               /\ handled' = handled

ReturnFailed(r) == /\ results[r] = "none" /\ r \notin HandledSet
                   /\ results' = [results EXCEPT ![r] = "failed"]
                   /\ handled' = handled

Next == \E r \in Requests : Execute(r) \/ ReturnOk(r) \/ ReturnFailed(r)

Spec == Init /\ [][Next]_<<results, handled>>
=============================================================================
