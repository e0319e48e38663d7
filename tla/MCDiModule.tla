----------------------------- MODULE MCDiModule -----------------------------
(* DiModule with interchangeable modules.                                  *)
EXTENDS DiModule

SomeModules == Permutations(Modules)

=============================================================================
