---- MODULE MCAccounts ----
(* Constants of Accounts for TLC. *)
EXTENDS Accounts, TLC

CONSTANTS p1, p2

MCProcesses == {p1, p2}
ProcessSymmetry == Permutations(MCProcesses)

MCSystemProfile == [email |-> "system", ref |-> "system", status |-> "active"]

\* One request with and one without an external reference.
MCProfiles ==
    {[email |-> "a", ref |-> "r", status |-> "active"],
     [email |-> "b", ref |-> NoRef, status |-> "inactive"]}
====
