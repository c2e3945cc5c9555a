---------------------------- MODULE MCRefinement ----------------------------
(* Two targets met at one site, with one ledger of analysis work. *)
EXTENDS RefinementDriver

CONSTANTS t1, t2

MCTargets == {t1, t2}
MCSites == {1}
MCLedgers == {"instructions"}
MCCosts == {0, 1}
MCClients == {"run-entry", "library"}

Unlimited == [universe |-> 2, unique |-> NoLimit, assessments |-> NoLimit, stagnant |-> 3,
              legacy |-> FALSE, promotions |-> 0, rebuilds |-> 0,
              analysis |-> [l \in MCLedgers |-> 1]]

MCBudgets ==
  {Unlimited,
   [Unlimited EXCEPT !.unique = 1],
   [Unlimited EXCEPT !.assessments = 1],
   [Unlimited EXCEPT !.legacy = TRUE, !.promotions = 1, !.rebuilds = 2, !.stagnant = 1],
   [Unlimited EXCEPT !.legacy = TRUE, !.promotions = 2, !.rebuilds = 1, !.universe = 1]}

=============================================================================
