---------------------------- MODULE MCSettings ----------------------------
(* A small instance of Settings and GuiPages: one group, one value, requests *)
(* of every kind that changes the configuration, from another client or from *)
(* the pages of the graphical interface.                                     *)
EXTENDS GuiPages

MCGroups == {"fans"}
MCRoles == {"Intake", "Exhaust"}
MCNames == {"a", "b"}
MCValues == {"v"}
MCEntries == {"noon", "25:00"}
MCWellFormed == {"noon"}
Alerts(temps) == [do |-> "Set", section |-> "alerts", value |-> [watch |-> None, temps |-> temps]]
MCRequests ==
  [do : {"Save"}, section : {"effects", "profiles"}, name : {"a"}, value : MCValues]
  \cup {[do |-> "Delete", section |-> "effects", name |-> "a"], [do |-> "Copy", name |-> "a", to |-> "b"]}
  \cup [do : {"Set"}, section : {"power"}, value : MCValues]
  \cup {[do |-> "Set", section |-> "daemon", value |-> 0], Alerts("v")}
  \cup [do : {"AddSchedule"}, entry : MCEntries]
  \cup [do : {"SetRole"}, group : MCGroups, role : MCRoles]
  \cup [do : {"RenameGroup"}, group : MCGroups, name : MCValues]
  \cup [do : {"ExcludeGroup", "IncludeGroup", "ForgetGroup"}, group : MCGroups]
  \cup {[do |-> "ReorderGroups", order |-> <<"fans">>]}
  \cup [do : {"Import"}, merge : BOOLEAN]
  \cup [do : {"Export", "Reload", "Discover"}]
MCGarbled == <<>>
MCFirstSchedules == <<"noon">>
MCClicks ==
  [do : {"SaveSettings"}, offset : MCValues, watch : MCValues, poll : {1000}]
  \cup [do : {"Set"}, section : {"sync"}, value : MCValues]
  \cup [do : {"Save"}, section : {"curves", "sequences"}, name : {"a"}, value : MCValues]
  \cup [do : {"Delete"}, section : {"profiles"}, name : {"a"}]
  \cup {[do |-> "DeleteSchedule", index |-> 1], [do |-> "ClearSchedule"]}
=============================================================================
