----------------------------- MODULE MCAccounts -----------------------------
(***************************************************************************)
(* Instances of Accounts for TLC: one address in two spellings and one in  *)
(* another, and a password with a longer one that begins with it.          *)
(***************************************************************************)
EXTENDS Accounts, TLC

CONSTANTS ann, Ann, bob, short, long, other

MCEmails == {ann, Ann, bob}
MCNormal == (Ann :> ann) @@ (ann :> ann) @@ (bob :> bob)
MCPasswords == {short, long, other}
MCFirst72 == (long :> short) @@ (short :> short) @@ (other :> other)

Symmetry == Permutations(Calls)
=============================================================================
