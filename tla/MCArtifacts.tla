----------------------------- MODULE MCArtifacts -----------------------------
(***************************************************************************)
(* What the compiler writes and what is read back from it: images that are *)
(* linked, rows of exchange instructions, packages that are built and      *)
(* loaded, and profiles that are collected and shown.  A behaviour is one  *)
(* of one of them; the variables of the others stand still.                *)
(***************************************************************************)
EXTENDS MCLinker, MCPackage, MCProfile, MCPhaseProgram

VARIABLE component

LinkIdle ==
    /\ linkCase = <<>> /\ linkStage = "idle" /\ definitions = <<>> /\ kept = {}
    /\ pendingSections = {} /\ placements = <<>> /\ linkCursor = <<>> /\ toPlace = <<>>
    /\ symbols = <<>> /\ image = <<>> /\ toPatch = <<>>

PackageIdle ==
    /\ pkgCase = <<>> /\ pkgStage = "idle" /\ pkgReason = "" /\ pkgFree = {} /\ pkgSupport = <<>>
    /\ pkgSizes = <<>> /\ pkgPlaced = <<>> /\ pkgUnused = <<>> /\ pkgPrologue = <<>>
    /\ pkgPlans = <<>> /\ pkgPhases = <<>> /\ pkgApp = <<>> /\ pkgFile = <<>>

ProfileIdle ==
    /\ graph = <<>> /\ pace = <<>> /\ profStage = "idle" /\ profiles = <<>> /\ code = <<>>
    /\ starts = <<>> /\ clock = <<>> /\ invocation = 0 /\ memory = <<>> /\ report = <<>>

PhaseIdle ==
    /\ todo = <<>> /\ strict = FALSE /\ tiles = <<>> /\ staged = <<>> /\ budget = 0
    /\ base = <<>> /\ log = <<>> /\ verdict = "idle"

ArtifactsInit ==
    \/ component = "linker" /\ LinkInit /\ PackageIdle /\ ProfileIdle /\ PhaseIdle
    \/ component = "package" /\ PackageInit /\ LinkIdle /\ ProfileIdle /\ PhaseIdle
    \/ component = "profile" /\ ProfInit /\ LinkIdle /\ PackageIdle /\ PhaseIdle
    \/ component = "rows" /\ Init /\ LinkIdle /\ PackageIdle /\ ProfileIdle

LinksImages == component = "linker" /\ LinkNext /\ UNCHANGED <<component, pkgVars, profVars, vars>>
Builds == component = "package" /\ PackageNext /\ UNCHANGED <<component, linkVars, profVars, vars>>
Measures == component = "profile" /\ ProfNext /\ UNCHANGED <<component, linkVars, pkgVars, vars>>
EncodesRows == component = "rows" /\ Next /\ UNCHANGED <<component, linkVars, pkgVars, profVars>>

ArtifactsNext == LinksImages \/ Builds \/ Measures \/ EncodesRows

ArtifactsSpec == ArtifactsInit /\ [][ArtifactsNext]_<<component, linkVars, pkgVars, profVars, vars>>
==============================================================================
