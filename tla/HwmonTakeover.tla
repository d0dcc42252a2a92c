---------------------------- MODULE HwmonTakeover ----------------------------
(***************************************************************************)
(* Custody of the motherboard fan headers (frgb-core, hwmon_backend).      *)
(*                                                                         *)
(* The firmware drives every header in some pwmN_enable mode.  Before frgb *)
(* puts a header in manual mode it notes that mode in memory               *)
(* (pending_restores) and on disk (hwmon-saved.json), and it gives every   *)
(* header back on release, on exit, from the panic hook, or at the next    *)
(* start.  A step here is one sysfs or file operation, so that a kill, a   *)
(* panic or another process can come between any two of them.              *)
(***************************************************************************)
EXTENDS Naturals

CONSTANTS
  Procs,     \* processes that may open the backend: the daemon, frgb --direct
  Channels,  \* configured pwm channels of the chip
  Modes,     \* values of pwmN_enable
  Manual,    \* the one that means "duty set by software" (1)
  None,      \* no entry
  Faults     \* which of the faults below the environment may produce

FaultKinds ==
  { "io",           \* a sysfs access of set_speed fails
    "restore",      \* a sysfs write that gives a header back fails
    "save",         \* the state file cannot be written
    "releaseSave",  \* ... only while a release rewrites it
    "kill",         \* SIGKILL or power loss
    "panic",        \* the main thread panics
    "threadPanic",  \* a thread of the OpenRGB server panics
    "renumber",     \* the chip's hwmonN directory changes
    "noChip",       \* a start finds no supported chip
    "otherChip",    \* a start picks another supported chip
    "direct" }      \* frgb --direct runs beside the daemon

ASSUME HwmonAssumption ==
  /\ Manual \in Modes
  /\ None \notin Modes
  /\ Faults \subseteq FaultKinds

VARIABLES
  native,   \* the mode each header has when nobody took it over
  enable,   \* pwmN_enable in sysfs
  file,     \* the entries of the state file; no entry at all: no file
  pc,       \* what the main thread of each process is about to do
  cur,      \* the channel of the set_speed under way
  pending,  \* pending_restores
  job,      \* entries a restore loop has still to write back
  retried,  \* with_recovery is in its second attempt
  cooling,  \* recovery_cooldown is running
  stale,    \* the cached chip_path is no longer the chip's
  hook,     \* emergency_restore: what the panic hook is about to do
  hookJob   \* entries the hook has still to write back

disk   == <<native, enable, file>>
op     == <<cur, retried>>
path   == <<cooling, stale>>
hooks  == <<hook, hookJob>>
vars   == <<native, enable, file, pc, cur, pending, job, retried, cooling,
            stale, hook, hookJob>>

Entry    == Modes \cup {None}
SavedMap == [Channels -> Entry]
NoEntry  == [c \in Channels |-> None]
Has(m, c) == m[c] # None

\* Program counters of a process that serves requests.
Serving == {"idle", "snapshot", "save", "enable", "duty", "release", "unrecord"}
PCs == Serving \cup {"down", "blind", "openRestore", "panicking", "exitRestore"}

Init ==
  /\ native \in [Channels -> Modes]
  /\ enable = native
  /\ file = NoEntry
  /\ pc = [p \in Procs |-> "down"]
  /\ cur = [p \in Procs |-> None]
  /\ pending = [p \in Procs |-> NoEntry]
  /\ job = [p \in Procs |-> NoEntry]
  /\ retried = [p \in Procs |-> FALSE]
  /\ cooling = [p \in Procs |-> FALSE]
  /\ stale = [p \in Procs |-> FALSE]
  /\ hook = [p \in Procs |-> "none"]
  /\ hookJob = [p \in Procs |-> NoEntry]

Goto(p, l) == pc' = [pc EXCEPT ![p] = l]

\* set_speed starts on channel c, and returns (Ok or Err): its locals end.
Begin(p, c, l) ==
  /\ Goto(p, l)
  /\ cur' = [cur EXCEPT ![p] = c]
  /\ UNCHANGED retried

Return(p) ==
  /\ Goto(p, "idle")
  /\ cur' = [cur EXCEPT ![p] = None]
  /\ retried' = [retried EXCEPT ![p] = FALSE]

(***************************************************************************)
(* HwmonBackend::open.  The IPC socket keeps a second daemon away; frgb    *)
(* --direct opens the backend whether or not a daemon runs.                *)
(***************************************************************************)
MayOpen(p) ==
  /\ pc[p] = "down"
  /\ "direct" \in Faults \/ \A q \in Procs : pc[q] = "down"

\* Mutant: a start that ignores the file of the last run.
OpenNoRestore(p) ==
  /\ MayOpen(p)
  /\ Goto(p, "idle")
  /\ UNCHANGED <<disk, op, pending, job, path, hooks>>

Open(p) ==
  /\ MayOpen(p)
  /\ Goto(p, IF file = NoEntry THEN "idle" ELSE "openRestore")
  /\ job' = [job EXCEPT ![p] = file]
  /\ stale' = [stale EXCEPT ![p] = FALSE]
  /\ UNCHANGED <<disk, op, pending, cooling, hooks>>

\* No supported chip: an empty backend, the file stays for a later start.
OpenNoChip(p) ==
  /\ "noChip" \in Faults
  /\ MayOpen(p)
  /\ Goto(p, "blind")
  /\ UNCHANGED <<disk, op, pending, job, path, hooks>>

\* Another chip was picked: the file is of no use to it and is removed.
OpenOtherChip(p) ==
  /\ "otherChip" \in Faults
  /\ MayOpen(p)
  /\ Goto(p, "blind")
  /\ file' = NoEntry
  /\ UNCHANGED <<native, enable, op, pending, job, path, hooks>>

(***************************************************************************)
(* The restore loops of init_with_chip and of shutdown: every entry is     *)
(* written back once, a failed write is only logged, and then the file is  *)
(* removed whatever happened.                                              *)
(***************************************************************************)
WriteBackFails(p) == stale[p] \/ "restore" \in Faults

RestoreEntry(p, c) ==
  /\ pc[p] \in {"openRestore", "exitRestore"}
  /\ Has(job[p], c)
  /\ job' = [job EXCEPT ![p][c] = None]
  /\ \/ /\ ~stale[p]
        /\ enable' = [enable EXCEPT ![c] = job[p][c]]
     \/ /\ WriteBackFails(p)
        /\ UNCHANGED enable
  /\ UNCHANGED <<native, file, pc, op, pending, path, hooks>>

OpenDone(p) ==
  /\ pc[p] = "openRestore"
  /\ job[p] = NoEntry
  /\ file' = NoEntry
  /\ Goto(p, "idle")
  /\ UNCHANGED <<native, enable, op, pending, job, path, hooks>>

\* What a process leaves behind when it ends, by itself or not.
Forget(p) ==
  /\ Goto(p, "down")
  /\ cur' = [cur EXCEPT ![p] = None]
  /\ retried' = [retried EXCEPT ![p] = FALSE]
  /\ pending' = [pending EXCEPT ![p] = NoEntry]
  /\ job' = [job EXCEPT ![p] = NoEntry]
  /\ cooling' = [cooling EXCEPT ![p] = FALSE]
  /\ stale' = [stale EXCEPT ![p] = FALSE]
  /\ hook' = [hook EXCEPT ![p] = "none"]
  /\ hookJob' = [hookJob EXCEPT ![p] = NoEntry]

\* Mutant: an exit path that forgets to call shutdown.
ExitNoShutdown(p) ==
  /\ pc[p] \in {"blind", "idle"}
  /\ Forget(p)
  /\ UNCHANGED disk

\* SIGTERM, or the end of a direct command: shutdown, then Drop (a no-op).
ExitIdle(p) ==
  /\ \/ pc[p] = "blind"
     \/ pc[p] = "idle" /\ pending[p] = NoEntry
  /\ Forget(p)
  /\ UNCHANGED disk

\* shutdown starts: on a clean exit, or from Drop while unwinding.
Unwind(p) ==
  /\ Goto(p, "exitRestore")
  /\ job' = [job EXCEPT ![p] = pending[p]]

Exit(p) ==
  /\ pc[p] = "idle"
  /\ pending[p] # NoEntry
  /\ Unwind(p)
  /\ UNCHANGED <<disk, op, pending, path, hooks>>

ExitDone(p) ==
  /\ pc[p] = "exitRestore"
  /\ job[p] = NoEntry
  /\ file' = IF pending[p] = NoEntry THEN file ELSE NoEntry
  /\ Forget(p)
  /\ UNCHANGED <<native, enable>>

(***************************************************************************)
(* set_speed(Manual): snapshot, pwm_enable = 1, duty, in one closure that  *)
(* with_recovery runs again after a rescan.                                *)
(***************************************************************************)
SetManual(p, c) ==
  /\ pc[p] = "idle"
  /\ Begin(p, c, "snapshot")
  /\ UNCHANGED <<disk, pending, job, path, hooks>>

\* Mutant: no test for an earlier record.
SnapshotAgain(p) ==
  /\ pc[p] = "snapshot"
  /\ ~stale[p]
  /\ pending' = [pending EXCEPT ![p][cur[p]] = enable[cur[p]]]
  /\ Goto(p, "save")
  /\ UNCHANGED <<disk, op, job, path, hooks>>

\* ensure_snapshot_at: the first recorded value wins.
Snapshot(p) ==
  /\ pc[p] = "snapshot"
  /\ \/ /\ Has(pending[p], cur[p])
        /\ Goto(p, "enable")
        /\ UNCHANGED pending
     \/ /\ ~Has(pending[p], cur[p])
        /\ ~stale[p]
        /\ pending' = [pending EXCEPT ![p][cur[p]] = enable[cur[p]]]
        /\ Goto(p, "save")
  /\ UNCHANGED <<disk, op, job, path, hooks>>

\* save_state_file: written aside and renamed; a failure is only logged.
Save(p) ==
  /\ pc[p] = "save"
  /\ \/ file' = pending[p]
     \/ "save" \in Faults /\ UNCHANGED file
  /\ Goto(p, "enable")
  /\ UNCHANGED <<native, enable, op, pending, job, path, hooks>>

EnableManual(p) ==
  /\ pc[p] = "enable"
  /\ ~stale[p]
  /\ enable' = [enable EXCEPT ![cur[p]] = Manual]
  /\ Goto(p, "duty")
  /\ UNCHANGED <<native, file, op, pending, job, path, hooks>>

SetDuty(p) ==
  /\ pc[p] = "duty"
  /\ ~stale[p]
  /\ Return(p)
  /\ UNCHANGED <<disk, pending, job, path, hooks>>

(***************************************************************************)
(* set_speed(Pwm): write the saved mode back, then drop the entry.         *)
(***************************************************************************)

\* Mutant: the entry goes before the mode is written back.
SetPwmUnrecordsFirst(p, c) ==
  /\ pc[p] = "idle"
  /\ Has(pending[p], c)
  /\ Begin(p, c, "unrecord")
  /\ UNCHANGED <<disk, pending, job, path, hooks>>

SetPwm(p, c) ==
  /\ pc[p] = "idle"
  /\ Has(pending[p], c)
  /\ Begin(p, c, "release")
  /\ UNCHANGED <<disk, pending, job, path, hooks>>

Release(p) ==
  /\ pc[p] = "release"
  /\ ~stale[p]
  /\ enable' = [enable EXCEPT ![cur[p]] = pending[p][cur[p]]]
  /\ Goto(p, "unrecord")
  /\ UNCHANGED <<native, file, op, pending, job, path, hooks>>

Unrecord(p) ==
  LET left == [pending[p] EXCEPT ![cur[p]] = None]
  IN  /\ pc[p] = "unrecord"
      /\ pending' = [pending EXCEPT ![p] = left]
      /\ \/ file' = left
         \/ /\ left # NoEntry
            /\ Faults \cap {"save", "releaseSave"} # {}
            /\ UNCHANGED file
      /\ Return(p)
      /\ UNCHANGED <<native, enable, job, path, hooks>>

(***************************************************************************)
(* with_recovery: after a failure, one rescan per cooldown and one retry   *)
(* from the top of the closure; otherwise the error goes to the caller.    *)
(***************************************************************************)
TouchesSysfs(p) ==
  \/ pc[p] \in {"enable", "duty", "release"}
  \/ pc[p] = "snapshot" /\ ~Has(pending[p], cur[p])

OpFails(p) ==
  /\ TouchesSysfs(p)
  /\ stale[p] \/ "io" \in Faults
  /\ \/ /\ retried[p] \/ cooling[p]
        /\ Return(p)
        /\ UNCHANGED path
     \/ /\ ~retried[p] /\ ~cooling[p]
        /\ cooling' = [cooling EXCEPT ![p] = TRUE]
        /\ \/ /\ Return(p)  \* the rescan finds no chip of that name
              /\ UNCHANGED stale
           \/ /\ Goto(p, IF pc[p] = "release" THEN "release" ELSE "snapshot")
              /\ stale' = [stale EXCEPT ![p] = FALSE]
              /\ retried' = [retried EXCEPT ![p] = TRUE]
              /\ UNCHANGED cur
  /\ UNCHANGED <<disk, pending, job, hooks>>

CooldownElapses(p) ==
  /\ cooling[p]
  /\ cooling' = [cooling EXCEPT ![p] = FALSE]
  /\ UNCHANGED <<disk, pc, op, pending, job, stale, hooks>>

(***************************************************************************)
(* The environment.                                                        *)
(***************************************************************************)
Kill(p) ==
  /\ "kill" \in Faults
  /\ pc[p] # "down"
  /\ Forget(p)
  /\ UNCHANGED disk

\* The module is reloaded and the chip comes back under another number.
Renumber ==
  /\ "renumber" \in Faults
  /\ stale' = [p \in Procs |-> pc[p] \notin {"down", "blind"}]
  /\ UNCHANGED <<disk, pc, op, pending, job, cooling, hooks>>

(***************************************************************************)
(* Panics.  The hook runs emergency_restore in the panicking thread; it    *)
(* sees the file and sysfs, and nothing of the backend in memory.  When    *)
(* the main thread panicked it unwinds afterwards, and Drop is shutdown.   *)
(***************************************************************************)
\* emergency_restore returns at once when there is no file.
StartHook(p) ==
  /\ file # NoEntry
  /\ hook' = [hook EXCEPT ![p] = "restore"]
  /\ hookJob' = [hookJob EXCEPT ![p] = file]

Panic(p) ==
  /\ "panic" \in Faults
  /\ pc[p] \in Serving
  /\ hook[p] = "none"
  /\ cur' = [cur EXCEPT ![p] = None]
  /\ retried' = [retried EXCEPT ![p] = FALSE]
  /\ \/ /\ Goto(p, "panicking")
        /\ StartHook(p)
        /\ UNCHANGED job
     \/ /\ file = NoEntry \/ "noChip" \in Faults  \* no chip: the file stays
        /\ Unwind(p)
        /\ UNCHANGED hooks
  /\ UNCHANGED <<disk, pending, path>>

ThreadPanic(p) ==
  /\ "threadPanic" \in Faults
  /\ pc[p] \in Serving
  /\ hook[p] = "none"
  /\ StartHook(p)
  /\ UNCHANGED <<disk, pc, op, pending, job, path>>

HookRestore(p, c) ==
  /\ hook[p] = "restore"
  /\ Has(hookJob[p], c)
  /\ hookJob' = [hookJob EXCEPT ![p][c] = None]
  /\ \/ enable' = [enable EXCEPT ![c] = hookJob[p][c]]
     \/ "restore" \in Faults /\ UNCHANGED enable
  /\ UNCHANGED <<native, file, pc, op, pending, job, path, hook>>

HookDone(p) ==
  /\ hook[p] = "restore"
  /\ hookJob[p] = NoEntry
  /\ file' = NoEntry
  /\ hook' = [hook EXCEPT ![p] = "none"]
  /\ IF pc[p] = "panicking"
       THEN Unwind(p)
       ELSE UNCHANGED <<pc, job>>
  /\ UNCHANGED <<native, enable, op, pending, path, hookJob>>

Step(p) ==
  \/ Open(p) \/ OpenNoChip(p) \/ OpenOtherChip(p) \/ OpenDone(p)
  \/ ExitIdle(p) \/ Exit(p) \/ ExitDone(p)
  \/ Snapshot(p) \/ Save(p) \/ EnableManual(p) \/ SetDuty(p)
  \/ Release(p) \/ Unrecord(p) \/ OpFails(p) \/ CooldownElapses(p)
  \/ Kill(p) \/ Panic(p) \/ ThreadPanic(p) \/ HookDone(p)
  \/ \E c \in Channels :
       SetManual(p, c) \/ SetPwm(p, c) \/ RestoreEntry(p, c) \/ HookRestore(p, c)

Next == Renumber \/ \E p \in Procs : Step(p)

Spec == Init /\ [][Next]_vars

\* systemd restarts the daemon (Restart=on-failure), and some run lives long
\* enough to write each entry back.
FairSpec ==
  /\ Spec
  /\ \A p \in Procs : WF_vars(Open(p))
  /\ \A p \in Procs, c \in Channels : SF_vars(RestoreEntry(p, c))

-----------------------------------------------------------------------------
TypeOK ==
  /\ native \in [Channels -> Modes]
  /\ enable \in [Channels -> Modes]
  /\ file \in SavedMap
  /\ pc \in [Procs -> PCs]
  /\ cur \in [Procs -> Channels \cup {None}]
  /\ pending \in [Procs -> SavedMap]
  /\ job \in [Procs -> SavedMap]
  /\ retried \in [Procs -> BOOLEAN]
  /\ cooling \in [Procs -> BOOLEAN]
  /\ stale \in [Procs -> BOOLEAN]
  /\ hook \in [Procs -> {"none", "restore"}]
  /\ hookJob \in [Procs -> SavedMap]

Deviates(c) == enable[c] # native[c]

\* Write-ahead: at every instant the mode of a header that is not in its own
\* mode is on disk, so that a start after any crash can give it back
\* (ensure_snapshot_at saves before set_enable, and every path that removes
\* the file or an entry has written the mode back before).
WriteAhead == \A c \in Channels : Deviates(c) => file[c] = native[c]

\* No saved mode, in memory or on disk, is ever the manual mode frgb itself
\* wrote: "subsequent calls are ignored so repeated ensure_snapshot
\* invocations don't clobber the original value" (state.rs, record).
SavedIsNative ==
  \A c \in Channels :
    /\ file[c] \in {None, native[c]}
    /\ \A p \in Procs : pending[p][c] \in {None, native[c]}

\* While a process serves requests, the headers it could not give back from
\* memory are none: whatever deviates is in pending_restores, which shutdown
\* iterates over.
HeldInMemory ==
  \A p \in Procs : pc[p] \in Serving =>
    \A c \in Channels : Deviates(c) => Has(pending[p], c)

\* The memory copy is never ahead of the file, except for the one entry
\* between record and save ("Drives both the state file and the
\* clean-shutdown restore path").
FileCoversMemory ==
  \A p \in Procs : pc[p] \in Serving =>
    \A c \in Channels :
      Has(pending[p], c) => Has(file, c) \/ (pc[p] = "save" /\ cur[p] = c)

\* A recorded mode stays what it was when the header was first taken over,
\* through retries, failed releases and the panic hook, until the header has
\* been given back or the process is gone (record, remove).
KeptUntilGivenBack ==
  [][\A p \in Procs, c \in Channels :
       (Has(pending[p], c) /\ pending'[p][c] # pending[p][c]) =>
         (pc[p] = "unrecord" /\ cur[p] = c) \/ pc'[p] = "down"]_vars

\* A process that ends by itself (exit, or a panic of the main thread) leaves
\* every header in its own mode ("Restore every taken-over channel to its
\* saved pwm_enable value").
CleanExit ==
  [][\A p \in Procs :
       (ExitIdle(p) \/ ExitDone(p)) /\ pc[p] # "blind" =>
         \A c \in Channels : ~Deviates(c)]_vars

\* A restart serves no request before every header is back in its own mode.
RestartRestores ==
  [][\A p \in Procs :
       (pc[p] \in {"down", "openRestore"} /\ pc'[p] = "idle") =>
         \A c \in Channels : ~Deviates(c)]_vars

\* The backend implements a write-ahead ledger of borrowed headers.
Ledger == INSTANCE FanLedger WITH mode <- enable, ledger <- file

ImplementsLedger == Ledger!Spec

-----------------------------------------------------------------------------
\* A call of set_speed works on a channel, and from the snapshot on that
\* channel is recorded.  With TypeOK this is inductive under every fault.
InCall ==
  \A p \in Procs :
    /\ pc[p] \in Serving \ {"idle"} => cur[p] \in Channels
    /\ pc[p] \in Serving \ {"idle", "snapshot"} => Has(pending[p], cur[p])

\* The inductive invariant behind WriteAhead, when no fault of Lossy occurs.
Lossy == {"restore", "save", "threadPanic", "renumber", "otherChip", "direct"}

OneOwner ==
  \A p, q \in Procs : p # q => pc[p] = "down" \/ pc[q] = "down"

JobsAreNative ==
  \A p \in Procs, c \in Channels :
    /\ job[p][c] \in {None, native[c]}
    /\ hookJob[p][c] \in {None, native[c]}

\* What each point of a process knows of the headers away from home.
Phase(p) ==
  /\ ~stale[p]
  /\ pc[p] \in {"down", "blind", "openRestore"} => pending[p] = NoEntry
  /\ pc[p] \in {"openRestore", "exitRestore"} =>
       \A c \in Channels : Deviates(c) => Has(job[p], c)
  /\ pc[p] = "unrecord" => ~Deviates(cur[p])
  /\ hook[p] = "restore" <=> pc[p] = "panicking"
  /\ pc[p] = "panicking" =>
       \A c \in Channels : Deviates(c) => Has(hookJob[p], c)

Custody ==
  /\ WriteAhead
  /\ SavedIsNative
  /\ HeldInMemory
  /\ FileCoversMemory
  /\ OneOwner
  /\ JobsAreNative
  /\ \A p \in Procs : Phase(p)

IInv == TypeOK /\ InCall /\ Custody

-----------------------------------------------------------------------------
\* After a crash the header does come back to its own mode.
ComesBack ==
  \A c \in Channels :
    ((\A p \in Procs : pc[p] = "down") /\ Deviates(c)) ~> ~Deviates(c)
=============================================================================
