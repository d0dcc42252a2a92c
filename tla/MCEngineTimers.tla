--------------------------- MODULE MCEngineTimers ---------------------------
(* The two runners of the engine that go by the clock, on a machine that     *)
(* uses the one or the other: Engine::tick asks each only when is_active.    *)
(* Shows: one time unit is one 50 ms tick.  Schedules: a minute of twelve    *)
(* seconds and a day of three minutes.                                       *)
EXTENDS MCShowRunner, Scheduler

CONSTANTS Uses   \* what the machine may use

VARIABLE used

MCEntries ==
  { [at |-> 1, days |-> {}, action |-> "SwitchProfile", target |-> Everyone, value |-> "night"],
    [at |-> 0, days |-> {1}, action |-> "SetSpeed", target |-> Everyone, value |-> 40] }

TimersInit ==
  /\ used \in Uses
  /\ Init /\ ScheduleInit
  /\ used = "schedules" => present = {} /\ library = ProfileShows

TimersNext ==
  /\ used' = used
  /\ \/ used = "shows" /\ Next /\ UNCHANGED scheduleVars
     \/ used = "schedules" /\ ScheduleNext /\ UNCHANGED vars

TimersSpec ==
  TimersInit /\ [][TimersNext]_<<used, vars, scheduleVars>> /\ WF_vars(EngineTick)

=============================================================================
