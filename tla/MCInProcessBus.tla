--------------------------- MODULE MCInProcessBus ---------------------------
(* Instances of InProcessBus: two groups with a reader each, and one group   *)
(* with two readers.                                                         *)
EXTENDS InProcessBus, TLC

TwoGroups == (1 :> "a") @@ (2 :> "b")
SharedGroup == (1 :> "a") @@ (2 :> "a")
OneReader == (1 :> "a")
=============================================================================
