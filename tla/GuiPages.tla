------------------------------ MODULE GuiPages ------------------------------
(* The pages of the graphical interface that show and change the             *)
(* configuration (frgb-gui pages/settings.rs, curves.rs, sequence.rs,        *)
(* main.rs), composed with the daemon of Settings.  The pages put calls in   *)
(* the queue of the request thread (bridge.rs), whose callbacks bring the    *)
(* answers to the window and put further calls behind those that wait; the   *)
(* hop over the window's own event loop is taken to be immediate.            *)
EXTENDS Settings

CONSTANT Clicks     \* what the user may do on the pages

\* nothing on the pages imports a configuration
ASSUME ClicksAssumption == \A c \in Clicks : Proper(c) /\ c.do # "Import"

\* the sections a page shows
Shown == {"profiles", "daemon", "alerts", "curves", "sequences", "schedules", "sync"}
Seen(c) == [s \in Shown |-> IF s = "alerts" THEN c[s].watch ELSE c[s]]

VARIABLES
  calls,      \* the queue of the request thread
  asking,     \* the daemon is at the change the first of them asks for
  socket,     \* the request thread's connection: "none", "live", "dead"
  linked,     \* the event thread has reported its connection
  shown,      \* what the pages show
  unseen      \* sections changed by others, or whose call failed

pageVars == <<calls, asking, socket, linked, shown, unseen>>
allVars == <<vars, pageVars>>

----------------------------------------------------------------------------
(* Calls.  then says what the callback does with the answer.                 *)

List(sections) == [do |-> "List", sections |-> sections, then |-> "show"]
Ask(r, then) == [do |-> "Ask", request |-> r, then |-> then]
Get(section, value) == [do |-> "Get", section |-> section, value |-> value, then |-> "set"]

\* fetch_supplementary, at the start and whenever the event thread connects
\* anew: one call after the other, the profiles first
Supplementary == <<List({"profiles"}), List(Shown \ {"profiles"})>>

\* on_save_settings: the calibration, and two read-modify-writes
SaveSettings(c) ==
  <<Ask([do |-> "SetSensorCalibration", offset |-> c.offset], "report"),
    Get("alerts", c.watch), Get("daemon", c.poll)>>

\* on_remove_schedule, on_add_schedule, on_save_curve...: a change, and the list again
Pressed(c) ==
  IF c.do = "SaveSettings" THEN SaveSettings(c)
  ELSE <<Ask(c, IF About(c) \in Shown \ {"sync"} THEN "refresh" ELSE "report")>>

\* the list of the page, read again
Refresh(call) == <<List({About(call.request)})>>

\* a callback that looks at the answer only when it saves
FollowSaves(call, ok) ==
  CASE call.then = "refresh" /\ ok /\ call.request.do = "Save" -> Refresh(call)
    [] OTHER -> <<>>

\* what a callback puts in the queue, given whether the answer was an error.
\* The callback of GetAlertConfig takes an error for an empty configuration.
Follow(call, ok) ==
  CASE call.then = "refresh" /\ ok -> Refresh(call)
    [] call.then = "set" /\ call.section = "alerts" ->
         <<Ask([do |-> "Set", section |-> "alerts",
                value |-> [watch |-> call.value,
                           temps |-> IF ok THEN cache["alerts"].temps ELSE None]], "report")>>
    [] call.then = "set" /\ call.section = "daemon" /\ ok ->
         <<Ask([do |-> "Set", section |-> "daemon", value |-> call.value], "report")>>
    [] OTHER -> <<>>

\* the sections an answer would have brought up to date
Awaited(call) ==
  CASE call.do = "List" -> call.sections
    [] call.do = "Ask" -> {About(call.request)} \cap Shown
    [] OTHER -> {}

\* the sections of a list that cannot be read; what is asked for before the event
\* thread reports its connection is asked for once more then
Unread(call) == IF call.do = "List" /\ linked THEN call.sections ELSE {}

Returns(ok) == calls' = Tail(calls) \o Follow(Head(calls), ok)

----------------------------------------------------------------------------
Click(c) ==
  /\ Spend("requests")
  \* a schedule is removed by its place in the list that is shown
  /\ c.do = "DeleteSchedule" => c.index \in DOMAIN shown["schedules"]
  /\ calls' = calls \o Pressed(c)
  /\ UNCHANGED <<core, cli, backup, answered, behind, unsaved, stale, asked, flapped,
                 asking, socket, linked, shown, unseen>>

\* the event thread finds a daemon
Connected ==
  /\ Up /\ ~linked
  /\ linked' = TRUE /\ calls' = calls \o Supplementary
  /\ UNCHANGED <<vars, asking, socket, shown, unseen>>

\* the request thread connects when it needs to; on the connection of a
\* daemon that is gone the call fails, and the next one connects
Unreachable ==
  /\ calls # <<>> /\ ~asking /\ (socket = "dead" \/ ~Up)
  /\ socket' = "none" /\ Returns(FALSE)
  /\ unseen' = unseen \cup Unread(Head(calls))
  /\ UNCHANGED <<vars, asking, linked, shown>>

Reachable == calls # <<>> /\ ~asking /\ socket # "dead" /\ phase = "idle"

Read ==
  /\ Reachable /\ Head(calls).do \in {"List", "Get"}
  /\ socket' = "live" /\ Returns(TRUE)
  /\ LET seen == IF Head(calls).do = "List" THEN Head(calls).sections ELSE {} IN
       /\ shown' = [s \in Shown |-> IF s \in seen THEN Seen(cache)[s] ELSE shown[s]]
       /\ unseen' = unseen \ seen
  /\ UNCHANGED <<vars, asking, linked>>

Denied ==
  /\ Reachable /\ Head(calls).do = "Ask" /\ Refused(Head(calls).request)
  /\ socket' = "live" /\ Returns(FALSE)
  /\ UNCHANGED <<vars, asking, linked, shown, unseen>>

\* the daemon takes the request; the window already shows the switches it sets
Accept ==
  /\ Reachable /\ Head(calls).do = "Ask" /\ Change(Head(calls).request)
  /\ socket' = "live" /\ asking' = TRUE
  /\ shown' = IF Head(calls).then # "report" \/ About(Head(calls).request) \notin Shown THEN shown
              ELSE [shown EXCEPT ![About(Head(calls).request)] =
                      Seen(Cached(Head(calls).request))[About(Head(calls).request)]]
  /\ UNCHANGED <<budget, calls, linked, unseen>>

\* no answer within ten seconds: the connection is dropped, though the daemon goes on
TimesOut ==
  /\ calls # <<>> /\ Up /\ (asking \/ (phase = "idle" /\ Head(calls).do # "Ask")) /\ Spend("troubles")
  /\ socket' = "none" /\ asking' = FALSE /\ Returns(FALSE)
  /\ unseen' = unseen \cup Awaited(Head(calls))
  /\ UNCHANGED <<core, cli, backup, answered, behind, unsaved, stale, asked, flapped, linked, shown>>

(* The daemon's own steps.  The answer to the change comes with the end of   *)
(* its save; when the daemon goes, so do the connections.                    *)
Dropped(s) == IF s = "live" THEN "dead" ELSE s
Differing == {s \in Shown : Seen(cache')[s] # Seen(cache)[s]}

\* with the daemon's step: what it changes for other clients is not shown
ServerStep ==
  /\ Next
  /\ IF phase' = "down" /\ Up
     THEN /\ linked' = FALSE /\ asking' = FALSE
          /\ IF asking THEN socket' = "none" /\ Returns(FALSE)
             ELSE socket' = Dropped(socket) /\ UNCHANGED calls
          /\ unseen' = IF asking THEN unseen \cup Awaited(Head(calls)) ELSE unseen
     ELSE IF asking /\ phase' = "idle" THEN Returns(TRUE) /\ asking' = FALSE /\ UNCHANGED <<socket, linked, unseen>>
     ELSE unseen' = unseen \cup Differing /\ UNCHANGED <<calls, asking, socket, linked>>
  /\ UNCHANGED shown

\* the window is open beside a daemon that runs, and has read what there is
PagesInit ==
  /\ Started("idle")
  /\ calls = <<>> /\ asking = FALSE /\ socket = "live" /\ linked = TRUE
  /\ shown = Seen(First) /\ unseen = {}

PagesNext ==
  \/ \E c \in Clicks : Click(c)
  \/ Connected
  \/ Unreachable
  \/ Read
  \/ Denied
  \/ Accept
  \/ TimesOut
  \/ ServerStep

PagesSpec == PagesInit /\ [][PagesNext]_allVars

----------------------------------------------------------------------------
(* When the request thread has nothing left to do and the connection is      *)
(* reported, the pages show what the daemon has, but for the sections other  *)
(* clients changed since they were read (no event tells of them) and those   *)
(* whose last call failed: its answer was lost, or it was the first after a  *)
(* restart (pages/settings.rs, curves.rs, sequence.rs, bridge.rs).           *)
PagesShowDaemon ==
  calls = <<>> /\ linked /\ phase = "idle" =>
    \A s \in Shown \ unseen : shown[s] = Seen(cache)[s]

=============================================================================
