------------------------------ MODULE MCPlantDay ------------------------------
(***************************************************************************)
(* Values for PlantDay.  The house may need more than the inverter gives,  *)
(* need a little, or leave more than it takes.                             *)
(***************************************************************************)
EXTENDS PlantDay

PlantSurpluses == {-3, 2}

PlantCommands == {Sell(DrainStep), Do("BACKUP_MODE", 0)}
=============================================================================
