----------------------------- MODULE MCModules -----------------------------
(* Instances of Modules for TLC. *)
EXTENDS Modules, TLC

\* Versions, configs and modules are interchangeable.
Symmetry == Permutations(Id) \cup Permutations(Ver) \cup Permutations(Cfg)

\* What the manager promises after a pass and at all times: the wanted modules run,
\* with the wanted version and config, and the reconciler's record of what is
\* attached is true (Reconcile, detach).
ManagerHolds == RunsWhatIsWanted /\ RecordIsTrue

=============================================================================
