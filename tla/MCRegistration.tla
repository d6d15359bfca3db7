-------------------------- MODULE MCRegistration --------------------------
(* RegistrationWord for TLC; its sets are model values given in the cfg.  *)
EXTENDS RegistrationWord, TLC

ReadyValueDef == READABLE \cup HUP
InterestValueDef == READABLE \cup WRITABLE \cup ERROR

(* Updaters run the same code, and no property names one of them.         *)
Symmetry == Permutations(Updaters)
===========================================================================
