---------------------------- MODULE MCActorProxy ----------------------------
(* Two candidates, the dominant one with twice the contracts of the other, *)
(* and one more order that may replace either.                             *)
EXTENDS ActorProxy

MCPayload == <<[id |-> "o1", initial |-> 4], [id |-> "o2", initial |-> 2]>>
MCWindows == {[from |-> 1, until |-> 3], [from |-> 2, until |-> 2]}

=============================================================================
