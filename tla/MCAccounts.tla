----------------------------- MODULE MCAccounts -----------------------------
(* Values of Accounts's constants for TLC. *)
EXTENDS Accounts, TLC

\* The address of 37 characters is the longest whose reset token fits.
MCLength == ("boss@shop" :> 37 @@ "ann@shop" :> 20 @@ "new@shop" :> 38)
MCKnownEmail == ("boss" :> "boss@shop" @@ "ann" :> "ann@shop")

Symmetry == Permutations(Requests)
=============================================================================
