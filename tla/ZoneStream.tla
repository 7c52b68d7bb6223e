----------------------------- MODULE ZoneStream -----------------------------
(***************************************************************************)
(* What the payload stream of the process engine promises its consumers    *)
(* about refill zones: a zone is shown once; it is then live until a       *)
(* payload names it as cancelled, and it never comes back; no two live     *)
(* zones are on the same side.  The trigger engine, the pages and the      *)
(* recorded payloads know of zones only through this stream.  Which zones  *)
(* there may be is left open: a zone is anything with a field side.        *)
(***************************************************************************)
VARIABLES
  shown,  \* zones shown so far
  live    \* zones shown and not cancelled

vars == <<shown, live>>

Init == shown = {} /\ live = {}

(* A zone is shown for the first time; the payload may cancel others.      *)
Show ==
  \E z \in shown' \ shown :
    /\ shown' = shown \union {z}
    /\ \E rest \in SUBSET live :
         /\ \A other \in rest : other.side # z.side
         /\ live' = rest \union {z}

(* A payload that only cancels.                                            *)
Cancel ==
  \E rest \in SUBSET live :
    /\ live' = rest
    /\ UNCHANGED shown

Next == Show \/ Cancel

Spec == Init /\ [][Next]_vars
=============================================================================
