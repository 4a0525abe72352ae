------------------------------ MODULE MCCompiler ------------------------------
(***************************************************************************)
(* Three stages of the compiler, each on its own cases: a behaviour is one *)
(* of them, and the variables of the others stand still.                   *)
(***************************************************************************)
EXTENDS MCPlanner, MCPlacement, MCExchangeSchedule

VARIABLE component

PlannerIdle ==
    /\ problem = <<>> /\ planStage = "idle" /\ position = 0 /\ catalogue = <<>>
    /\ states = <<>> /\ taken = {} /\ plan = <<>>

PlacementIdle ==
    /\ prog = <<>> /\ placing = "idle" /\ requests = <<>> /\ served = 0 /\ arena = <<>>
    /\ domains = <<>> /\ addresses = <<>> /\ strides = <<>> /\ memory = <<>> /\ pc = 0
    /\ round = <<>>

ScheduleIdle ==
    /\ job = <<>> /\ words = 0 /\ jobRound = 0 /\ stage = "idle" /\ ordinary = <<>>
    /\ pending = <<>> /\ sched = [status |-> "idle"] /\ queue = <<>> /\ strict = FALSE
    /\ best = <<>> /\ cache = <<>> /\ reused = FALSE

CompilerInit ==
    \/ component = "planner" /\ PlannerInit /\ PlacementIdle /\ ScheduleIdle
    \/ component = "placement" /\ PlacementInit /\ PlannerIdle /\ ScheduleIdle
    \/ component = "exchange" /\ ScheduleInit /\ PlannerIdle /\ PlacementIdle

PlansGraphs ==
    component = "planner" /\ PlannerNext /\ UNCHANGED <<component, placementVars, scheduleVars>>
PlacesShards ==
    component = "placement" /\ PlacementNext /\ UNCHANGED <<component, plannerVars, scheduleVars>>
SchedulesPhases ==
    component = "exchange" /\ ScheduleNext /\ UNCHANGED <<component, plannerVars, placementVars>>

CompilerNext == PlansGraphs \/ PlacesShards \/ SchedulesPhases

CompilerSpec ==
    CompilerInit /\ [][CompilerNext]_<<component, plannerVars, placementVars, scheduleVars>>
===============================================================================
