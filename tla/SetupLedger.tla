---------------------------- MODULE SetupLedger -----------------------------
(***************************************************************************)
(* What the order flow promises for one setup, whatever fails on the way:  *)
(* it is claimed once, ordered at most once, and settled only after its    *)
(* position has left the broker.  A rejected or lost order stays at        *)
(* "claimed": it is never ordered again, but a fill may still surface.     *)
(***************************************************************************)
CONSTANT Setups
VARIABLE stage

Stages == {"new", "claimed", "open", "exited", "settled"}

Move(k, from, to) == stage[k] = from /\ stage' = [stage EXCEPT ![k] = to]
Claim(k) == Move(k, "new", "claimed")
FillOnce(k) == Move(k, "claimed", "open")
Exit(k) == Move(k, "open", "exited")
Settle(k) == Move(k, "exited", "settled")

Init == stage = [k \in Setups |-> "new"]
Next == \E k \in Setups : Claim(k) \/ FillOnce(k) \/ Exit(k) \/ Settle(k)
Spec == Init /\ [][Next]_stage
=============================================================================
