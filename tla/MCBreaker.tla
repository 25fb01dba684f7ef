----------------------------- MODULE MCBreaker -----------------------------
EXTENDS Breaker

Book(held, gross, grossNow, adv, quality) ==
  [held |-> held, cat |-> held, gross |-> gross, grossNow |-> grossNow, scale |-> 100,
   adv |-> adv, quality |-> quality, valid |-> TRUE, uncorrelated |-> TRUE]

(* No position at all, as the simulator has today, with a good signal and  *)
(* a poor one; and 100 contracts whose price has since come down.          *)
SeenDef == {Book(0, 0, 0, 12000, TRUE), Book(0, 0, 0, 12000, FALSE),
            Book(100, 7000, 6000, 12000, TRUE)}

=============================================================================
