----------------------------- MODULE MCApiProxy -----------------------------
(* Every deployment: any set of features may be switched off. *)
EXTENDS ApiProxy

MCDeployments == SUBSET Features

=============================================================================
