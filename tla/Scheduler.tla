------------------------------ MODULE Scheduler ------------------------------
(***************************************************************************)
(* The schedule runner (scheduler.rs): the entries of the week and the     *)
(* check that engine ticks make of them.  Polls come PollEvery to          *)
(* PollLatest seconds after each other; a poll looks at the entries when   *)
(* there are any and the last look is Spacing seconds ago, and passes over *)
(* a minute it has already looked at.  Time is in seconds since a          *)
(* midnight; the clock is never set.                                       *)
(***************************************************************************)
EXTENDS Integers, Sequences

CONSTANTS
  Minute,      \* seconds of a minute (60)
  Spacing,     \* seconds between two looks (55)
  PollEvery,   \* Engine::poll_interval
  PollLatest,  \* the same, and the longest a pass of the main loop takes
  Day, Week,   \* minutes of a day (1440), days of a week (7)
  Entries,     \* entries clients may add: [at, days, action, target, value]
  Controlled,  \* groups of the registry
  Everyone,    \* Target::All, and Target::Role, which stands for all groups too
  Never,       \* no minute looked at yet
  Starts,      \* when the daemon may start
  LastSecond, MaxChanges \* bounds: the end of the run, and changes of the list

ASSUME ScheduleAssumption ==
  /\ {Minute, Spacing, PollEvery, PollLatest, Day, Week} \subseteq Nat \ {0}
  /\ Spacing + PollLatest <= Minute /\ Day > 1
  /\ Never \notin Nat
  /\ Starts \subseteq Nat

VARIABLES
  now,       \* seconds since a midnight
  polled,    \* Engine::last_poll
  entries,   \* ScheduleRunner::entries
  checked,   \* last_check
  evaluated, \* last_evaluated_minute
  changes,   \* bound
  (* What the property remembers. *)
  executed,  \* the commands of this minute, one set for each look
  emptied,   \* the list was empty since the last look
  untouched  \* the list is what it was when this minute began

scheduleVars == <<now, polled, entries, checked, evaluated, changes, executed, emptied, untouched>>

-----------------------------------------------------------------------------
\* chrono_free_now
MinuteOf(t) == t \div Minute
OfDay(m) == m % Day
Weekday(m) == (m \div Day) % Week

\* resolve_target
ResolveTarget(target) == IF target = Everyone THEN Controlled ELSE target

\* the commands of an entry: one for each group, or the switch of a profile
Commands(e) ==
  IF e.action = "SwitchProfile" THEN {[do |-> e.action, value |-> e.value]}
  ELSE [do : {e.action}, group : ResolveTarget(e.target), value : {e.value}]

Matches(e, m) == e.at = OfDay(m) /\ (e.days = {} \/ Weekday(m) \in e.days)

\* what the entries command in minute m, each at its place in the list
Matching(list, m) == {i \in DOMAIN list : Matches(list[i], m)}
Commanded(list, m) == {<<i, Commands(list[i])>> : i \in Matching(list, m)}

-----------------------------------------------------------------------------
Beginning(t) ==
  /\ now = t /\ polled = t /\ checked = t /\ evaluated = Never
  /\ entries = <<>> /\ changes = 0
  /\ executed = <<>> /\ emptied = FALSE /\ untouched = FALSE

ScheduleInit == \E t \in Starts : Beginning(t)

\* Time passes; a minute begins with what is in the list.
Pass(to) ==
  /\ now < to /\ to <= polled + PollLatest /\ to <= LastSecond
  /\ now' = to
  /\ IF MinuteOf(to) = MinuteOf(now) THEN UNCHANGED <<executed, untouched>>
     ELSE executed' = <<>> /\ untouched' = ~emptied
  /\ UNCHANGED <<polled, entries, checked, evaluated, changes, emptied>>

\* AddSchedule, DeleteSchedule and ClearSchedule
Edit(list) ==
  /\ changes < MaxChanges /\ changes' = changes + 1
  /\ entries' = list
  /\ emptied' = (emptied \/ (entries # <<>> /\ list = <<>>))
  /\ untouched' = FALSE
  /\ UNCHANGED <<now, polled, checked, evaluated, executed>>

AddEntry(e) == Edit(Append(entries, e))
RemoveEntry(i) == Edit(SubSeq(entries, 1, i - 1) \o SubSeq(entries, i + 1, Len(entries)))
ClearEntries == Edit(<<>>)

\* (mutant) the minute that was looked at is not noted
EvaluateForgetting ==
  /\ checked' = now /\ emptied' = FALSE
  /\ evaluated' = evaluated
  /\ executed' = IF Matching(entries, MinuteOf(now)) = {} THEN executed
                 ELSE Append(executed, Commanded(entries, MinuteOf(now)))

\* ScheduleRunner::evaluate and execute_schedule_command, once the last look is long enough ago
Evaluate ==
  /\ checked' = now /\ emptied' = FALSE
  /\ evaluated' = OfDay(MinuteOf(now))
  /\ executed' = IF evaluated = OfDay(MinuteOf(now)) \/ Matching(entries, MinuteOf(now)) = {} THEN executed
                 ELSE Append(executed, Commanded(entries, MinuteOf(now)))

\* The schedule part of Engine::tick.
Poll ==
  /\ now - polled >= PollEvery
  /\ polled' = now
  /\ IF entries # <<>> /\ now - checked >= Spacing THEN Evaluate
     ELSE UNCHANGED <<checked, evaluated, executed, emptied>>
  /\ UNCHANGED <<now, entries, changes, untouched>>

ScheduleNext ==
  \/ \E d \in 1..PollLatest : Pass(now + d)
  \/ \E e \in Entries : AddEntry(e)
  \/ \E i \in DOMAIN entries : RemoveEntry(i)
  \/ ClearEntries
  \/ Poll

ScheduleSpec == ScheduleInit /\ [][ScheduleNext]_scheduleVars

-----------------------------------------------------------------------------
(* Every entry that is in the list for the whole of its minute has been      *)
(* carried out once when the minute ends, and no other has: "while ensuring  *)
(* schedules fire within a minute of their target time", "to prevent repeat  *)
(* firing" (scheduler.rs).  Left out are minutes in which the list changed,  *)
(* and those that begin after it was emptied and before the next look: a     *)
(* minute looked at the day before is then passed over.                      *)
FiredInItsMinute ==
  [][MinuteOf(now') # MinuteOf(now) /\ untouched =>
       executed = IF Matching(entries, MinuteOf(now)) = {} THEN <<>>
                  ELSE <<Commanded(entries, MinuteOf(now))>>]_scheduleVars

=============================================================================
