----------------------------- MODULE MCAccounts -----------------------------
(* Instances of Accounts for TLC. *)
EXTENDS Accounts, TLC

CONSTANTS s1, s2, s3, o1, o2, o3

OrgsAreAlike == Permutations({o1, o2, o3})
AllAlike == OrgsAreAlike \cup Permutations(Sessions) \cup Permutations(Installations)
=============================================================================
