------------------------- MODULE MCContractReminder -------------------------
(***************************************************************************)
(* Instances of ContractReminder: every combination of active and inactive *)
(* users of a small company, three contracts that end on one day and one,  *)
(* of an HR user, that ends a day later.                                   *)
(***************************************************************************)
EXTENDS ContractReminder, TLC

CONSTANTS budi, hana, hadi, tina

MCUsers == {budi, hana, hadi, tina}
MCRole == budi :> "atasan" @@ hana :> "hr" @@ hadi :> "hr" @@ tina :> "top_management"
MCBoss == budi :> hadi @@ hana :> budi @@ hadi :> tina @@ tina :> NoUser

MCContracts == {1, 2, 3, 4}
MCSubject == 1 :> budi @@ 2 :> tina @@ 3 :> hana @@ 4 :> hadi
MCEnds == 1 :> 1 @@ 2 :> 1 @@ 3 :> 2 @@ 4 :> 1
=============================================================================
