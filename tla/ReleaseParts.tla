---------------------------- MODULE ReleaseParts ----------------------------
(***************************************************************************)
(* The parts that put versions of an app on servers beside the deploy of   *)
(* one server (AppOps).  They share no state: in a behaviour one of them   *)
(* moves, so that one run visits the sum of their states, not the product. *)
(***************************************************************************)
EXTENDS StaticSite, Previews, Upkeep, Fleet, Volumes, TLC

VARIABLE part   \* the part that moves

CONSTANTS PartOps, PartMishaps   \* bounds of each part

Parts == {"site", "previews", "upkeep", "fleet", "volumes"}

ASSUME ReleasePartsAssumption ==
    \A p \in Parts : PartOps[p] \in 0..MaxOps /\ PartMishaps[p] \in 0..MaxMishaps

allVars == <<part, luck, siteVars, previewVars, upkeepVars, fleetVars, volumeVars>>

\* The type invariant of the part that moves.
TypeOK == /\ part \in Parts /\ LuckTypeOK
          /\ CASE part = "site"     -> SiteTypeOK
               [] part = "previews" -> PreviewTypeOK
               [] part = "upkeep"   -> UpkeepTypeOK
               [] part = "fleet"    -> FleetTypeOK
               [] part = "volumes"  -> VolumeTypeOK

Init ==
    /\ part \in Parts
    /\ luck = [ops |-> PartOps[part], left |-> PartMishaps[part], had |-> {}]
    /\ SiteInit /\ PreviewInit /\ UpkeepInit /\ FleetInit /\ VolumeInit

Site     == /\ part = "site" /\ SiteNext
            /\ UNCHANGED <<part, previewVars, upkeepVars, fleetVars, volumeVars>>
Preview  == /\ part = "previews" /\ PreviewNext
            /\ UNCHANGED <<part, siteVars, upkeepVars, fleetVars, volumeVars>>
Upkeep_  == /\ part = "upkeep" /\ UpkeepNext
            /\ UNCHANGED <<part, siteVars, previewVars, fleetVars, volumeVars>>
Fleet_   == /\ part = "fleet" /\ FleetNext
            /\ UNCHANGED <<part, siteVars, previewVars, upkeepVars, volumeVars>>
Volume   == /\ part = "volumes" /\ VolumeNext
            /\ UNCHANGED <<part, siteVars, previewVars, upkeepVars, fleetVars>>

\* No command runs and no more begins.
Rest == /\ luck.ops = 0
        /\ CASE part = "site"     -> SiteAt("idle")
             [] part = "previews" -> \A u \in Users : UserAt(u, "idle")
             [] part = "upkeep"   -> AllRest
             [] part = "fleet"    -> FleetAt("idle")
             [] part = "volumes"  -> MigrationAt("idle")
        /\ UNCHANGED allVars

Next == Site \/ Preview \/ Upkeep_ \/ Fleet_ \/ Volume \/ Rest

Spec == Init /\ [][Next]_allVars
=============================================================================
