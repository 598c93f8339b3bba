-------------------------- MODULE MCHostLifecycle --------------------------
(* HostLifecycle with two names: a group in a directory for textures, which *)
(* the archive may have, and one of the player's.                           *)
EXTENDS HostLifecycle

MCDisks == {[n \in Names |-> IF n = "etc" THEN places[1] ELSE IF n = "map" THEN places[2] ELSE {}] :
               places \in {<<{}, {}>>, <<{"root"}, {"assets"}>>, <<{"flat_sw", "leaf_assets"}, {}>>}}
MCSymmetry == Permutations(Contexts) \cup Permutations(Ids)
MCArchives == {{}, {"etc", "map"}}
=============================================================================
