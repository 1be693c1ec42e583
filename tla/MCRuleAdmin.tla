------------------------------ MODULE MCRuleAdmin ------------------------------
EXTENDS RuleAdmin, TLC

Symmetry == Permutations(Worker) \cup Permutations(Attempt)
=============================================================================
