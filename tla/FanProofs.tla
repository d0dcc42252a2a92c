------------------------------ MODULE FanProofs ------------------------------
(* Theorems about the fans: the custody of the motherboard's headers, for    *)
(* every set of processes and channels (HwmonTakeover), and what curves,     *)
(* Manual requests and alerts promise, for any machine, curves, readings,    *)
(* alerts, schedules and number of faults (SpeedControl).                    *)
EXTENDS HwmonTakeover, SpeedControl, TLAPS

-----------------------------------------------------------------------------
(* HwmonTakeover.                                                            *)

LEMMA NoEntryType == NoEntry \in SavedMap
  BY DEF NoEntry, SavedMap, Entry

\* Writing one entry of one map keeps the maps well typed.
LEMMA PutEntry ==
  ASSUME NEW f \in [Procs -> SavedMap], NEW p \in Procs, NEW c, NEW e,
         c \in Channels => e \in Entry
  PROVE  [f EXCEPT ![p][c] = e] \in [Procs -> SavedMap]
<1>1. [f[p] EXCEPT ![c] = e] \in SavedMap
  BY DEF SavedMap
<1>. QED
  BY <1>1

\* Type correctness, under every fault: each step of open, set_speed, shutdown
\* and the panic hook keeps every variable in its range.
LEMMA TypeInductive == Spec => [](TypeOK /\ InCall)
<1>1. Init => TypeOK /\ InCall
  BY HwmonAssumption, NoEntryType
     DEF Init, TypeOK, InCall, PCs, Serving, SavedMap, Entry, NoEntry
<1>2. TypeOK /\ InCall /\ [Next]_vars => (TypeOK /\ InCall)'
  <2> SUFFICES ASSUME TypeOK, InCall, [Next]_vars PROVE (TypeOK /\ InCall)'
    OBVIOUS
  <2> USE HwmonAssumption, NoEntryType
      DEF TypeOK, InCall, PCs, Serving, Goto, disk, op, path, hooks
  <2>1. CASE UNCHANGED vars
    BY <2>1 DEF vars
  <2>2. CASE Renumber
    BY <2>2 DEF Renumber
  <2>3. ASSUME NEW p \in Procs, Step(p) PROVE (TypeOK /\ InCall)'
    <3>1. CASE Open(p)
      BY <3>1 DEF Open, MayOpen
    <3>2. CASE OpenNoChip(p)
      BY <3>2 DEF OpenNoChip, MayOpen
    <3>3. CASE OpenOtherChip(p)
      BY <3>3 DEF OpenOtherChip, MayOpen
    <3>4. CASE OpenDone(p)
      BY <3>4 DEF OpenDone
    <3>5. CASE ExitIdle(p)
      BY <3>5 DEF ExitIdle, Forget
    <3>6. CASE Exit(p)
      BY <3>6 DEF Exit, Unwind
    <3>7. CASE ExitDone(p)
      BY <3>7 DEF ExitDone, Forget
    <3>8. CASE Snapshot(p)
      <4>1. cur[p] \in Channels
        BY <3>8 DEF Snapshot
      <4>2. enable[cur[p]] \in Entry /\ enable[cur[p]] # None
        BY <4>1 DEF Entry
      <4>3. [pending EXCEPT ![p][cur[p]] = enable[cur[p]]]
              \in [Procs -> SavedMap]
        BY <4>2, PutEntry
      <4>4. pending' \in [Procs -> SavedMap]
        BY <3>8, <4>3 DEF Snapshot
      <4>5. Has(pending'[p], cur[p])
        <5>1. CASE Has(pending[p], cur[p])
          BY <3>8, <5>1 DEF Snapshot, Has
        <5>2. CASE ~Has(pending[p], cur[p])
          <6>1. pending'[p] = [pending[p] EXCEPT ![cur[p]] = enable[cur[p]]]
            BY <3>8, <5>2 DEF Snapshot
          <6>. QED
            BY <4>1, <4>2, <6>1 DEF Has, SavedMap
        <5>. QED
          BY <5>1, <5>2
      <4>6. \A q \in Procs \ {p} : pending'[q] = pending[q]
        BY <3>8 DEF Snapshot
      <4>. QED
        BY <3>8, <4>1, <4>4, <4>5, <4>6 DEF Snapshot
    <3>9. CASE Save(p)
      BY <3>9 DEF Save
    <3>10. CASE EnableManual(p)
      BY <3>10 DEF EnableManual
    <3>11. CASE SetDuty(p)
      BY <3>11 DEF SetDuty, Return
    <3>12. CASE Release(p)
      <4>1. cur[p] \in Channels /\ Has(pending[p], cur[p])
        BY <3>12 DEF Release
      <4>2. pending[p][cur[p]] \in Modes
        BY <4>1 DEF SavedMap, Entry, Has
      <4>. QED
        BY <3>12, <4>1, <4>2 DEF Release
    <3>13. CASE Unrecord(p)
      <4> DEFINE left == [pending[p] EXCEPT ![cur[p]] = None]
      <4>1. left \in SavedMap
        BY DEF SavedMap, Entry
      <4>2. [pending EXCEPT ![p] = left] \in [Procs -> SavedMap]
        BY <4>1
      <4>3. /\ pending' = [pending EXCEPT ![p] = left]
            /\ file' = left \/ file' = file
            /\ pc' = [pc EXCEPT ![p] = "idle"]
            /\ cur' = [cur EXCEPT ![p] = None]
            /\ retried' = [retried EXCEPT ![p] = FALSE]
            /\ UNCHANGED <<native, enable, job, cooling, stale, hook, hookJob>>
        BY <3>13 DEF Unrecord, Return
      <4>. HIDE DEF left
      <4>4. TypeOK'
        BY <4>1, <4>2, <4>3
      <4>5. pc'[p] = "idle"
        BY <4>3
      <4>6. \A q \in Procs \ {p} :
              pc'[q] = pc[q] /\ cur'[q] = cur[q] /\ pending'[q] = pending[q]
        BY <4>3
      <4>7. InCall'
        <5> SUFFICES ASSUME NEW q \in Procs
                     PROVE  /\ pc'[q] \in Serving \ {"idle"} => cur'[q] \in Channels
                            /\ pc'[q] \in Serving \ {"idle", "snapshot"} =>
                                 Has(pending'[q], cur'[q])
          BY DEF InCall, Has
        <5>1. CASE q = p
          BY <4>5, <5>1
        <5>2. CASE q # p
          <6>1. /\ pc[q] \in Serving \ {"idle"} => cur[q] \in Channels
                /\ pc[q] \in Serving \ {"idle", "snapshot"} =>
                     Has(pending[q], cur[q])
            BY DEF InCall
          <6>. QED
            BY ONLY <4>6, <5>2, <6>1, q \in Procs
        <5>. QED
          BY <5>1, <5>2
      <4>. QED
        BY <4>4, <4>7
    <3>14. CASE OpFails(p)
      <4>1. PICK l \in PCs :
              /\ pc' = [pc EXCEPT ![p] = l]
              /\ l \in {"idle", "snapshot", "release"}
              /\ l = "release" => pc[p] = "release"
              /\ l # "idle" => pc[p] \in Serving \ {"idle"} /\ cur' = cur
        BY <3>14 DEF OpFails, Return, TouchesSysfs
      <4>2. /\ cur' \in [Procs -> Channels \cup {None}]
            /\ \A q \in Procs \ {p} : cur'[q] = cur[q]
        BY <3>14 DEF OpFails, Return
      <4>3. /\ retried' \in [Procs -> BOOLEAN]
            /\ cooling' \in [Procs -> BOOLEAN]
            /\ stale' \in [Procs -> BOOLEAN]
            /\ UNCHANGED <<native, enable, file, pending, job, hook, hookJob>>
        BY <3>14 DEF OpFails, Return
      <4>4. TypeOK'
        BY <4>1, <4>2, <4>3
      <4>5. InCall'
        BY <4>1, <4>2, <4>3
      <4>. QED
        BY <4>4, <4>5
    <3>15. CASE CooldownElapses(p)
      BY <3>15 DEF CooldownElapses
    <3>16. CASE Kill(p)
      BY <3>16 DEF Kill, Forget
    <3>17. CASE Panic(p)
      BY <3>17 DEF Panic, Unwind, StartHook
    <3>18. CASE ThreadPanic(p)
      BY <3>18 DEF ThreadPanic, StartHook
    <3>19. CASE HookDone(p)
      BY <3>19 DEF HookDone, Unwind
    <3>20. ASSUME NEW c \in Channels,
                  SetManual(p, c) \/ SetPwm(p, c)
           PROVE  (TypeOK /\ InCall)'
      BY <3>20 DEF SetManual, SetPwm, Begin
    <3>21. ASSUME NEW c \in Channels, RestoreEntry(p, c) PROVE (TypeOK /\ InCall)'
      <4>1. [job EXCEPT ![p][c] = None] \in [Procs -> SavedMap]
        BY PutEntry DEF Entry
      <4>2. job[p][c] \in Modes
        BY <3>21 DEF RestoreEntry, Has, SavedMap, Entry
      <4>. QED
        BY <3>21, <4>1, <4>2 DEF RestoreEntry
    <3>22. ASSUME NEW c \in Channels, HookRestore(p, c) PROVE (TypeOK /\ InCall)'
      <4>1. [hookJob EXCEPT ![p][c] = None] \in [Procs -> SavedMap]
        BY PutEntry DEF Entry
      <4>2. hookJob[p][c] \in Modes
        BY <3>22 DEF HookRestore, Has, SavedMap, Entry
      <4>. QED
        BY <3>22, <4>1, <4>2 DEF HookRestore
    <3>. QED
      BY <2>3, <3>1, <3>2, <3>3, <3>4, <3>5, <3>6, <3>7, <3>8, <3>9, <3>10,
         <3>11, <3>12, <3>13, <3>14, <3>15, <3>16, <3>17, <3>18, <3>19,
         <3>20, <3>21, <3>22 DEF Step
  <2>. QED
    BY <2>1, <2>2, <2>3 DEF Next
<1>. QED
  BY <1>1, <1>2, PTL DEF Spec

\* Every variable of the backend, the chip and the state file has its type.
THEOREM TypeCorrect == Spec => []TypeOK
  BY TypeInductive, PTL

\* The step of the invariant behind WriteAhead, for an environment that
\* neither fails a write-back nor breaks the single ownership.
LEMMA CustodyStep ==
  ASSUME Faults \cap Lossy = {},
         TypeOK, InCall, Custody, TypeOK', InCall', [Next]_vars
  PROVE  Custody'
<1> USE HwmonAssumption
    DEF Custody, WriteAhead, SavedIsNative, HeldInMemory, FileCoversMemory,
        OneOwner, JobsAreNative, Phase, Deviates, Has, Goto, Serving,
        disk, op, path, hooks, Lossy, TypeOK
<1>1. CASE UNCHANGED vars
  BY <1>1 DEF vars
<1>2. CASE Renumber
  BY <1>2, SMTT(20) DEF Renumber
<1>3. ASSUME NEW p \in Procs, Step(p) PROVE Custody'
  <2>1. CASE Open(p)
    BY <2>1 DEF Open, MayOpen
  <2>2. CASE OpenNoChip(p)
    BY <2>2 DEF OpenNoChip, MayOpen
  <2>3. CASE OpenDone(p)
    BY <2>3 DEF OpenDone
  <2>4. CASE ExitIdle(p)
    BY <2>4 DEF ExitIdle, Forget
  <2>5. CASE Exit(p)
    BY <2>5 DEF Exit, Unwind
  <2>6. CASE ExitDone(p)
    BY <2>6 DEF ExitDone, Forget
  <2>7. CASE Snapshot(p)
    <3> DEFINE k == cur[p]
    <3>1. k \in Channels /\ pc[p] = "snapshot"
      BY <2>7 DEF Snapshot, InCall
    <3>2. CASE Has(pending[p], k)
      <4>1. /\ pc' = [pc EXCEPT ![p] = "enable"]
            /\ UNCHANGED <<native, enable, file, cur, pending, job, stale,
                           hook, hookJob>>
        BY <2>7, <3>2 DEF Snapshot
      <4>2. /\ pc'[p] = "enable"
            /\ \A q \in Procs \ {p} : pc'[q] = pc[q]
        BY <4>1
      <4>3. \A q \in Procs : pc'[q] \in Serving => pc[q] \in Serving
        BY <3>1, <4>2
      <4>4. WriteAhead' /\ SavedIsNative' /\ JobsAreNative'
        BY <4>1
      <4>5. HeldInMemory'
        BY <4>1, <4>3
      <4>6. FileCoversMemory'
        BY <3>1, <4>1, <4>2
      <4>7. OneOwner'
        <5>1. \A q \in Procs \ {p} : pc[q] = "down"
          BY <3>1
        <5>2. \A q \in Procs : q # p => pc'[q] = "down"
          BY <4>2, <5>1
        <5>. QED
          BY ONLY <5>2 DEF OneOwner
      <4>8. Phase(p)'
        BY <3>1, <4>1, <4>2
      <4>9. ASSUME NEW q \in Procs, q # p PROVE Phase(q)'
        BY <4>1, <4>2, <4>9
      <4>. QED
        BY <4>4, <4>5, <4>6, <4>7, <4>8, <4>9
    <3>3. CASE ~Has(pending[p], k)
      <4>1. /\ enable[k] = native[k]
            /\ native[k] # None
        BY <3>1, <3>3
      <4>2. /\ pc' = [pc EXCEPT ![p] = "save"]
            /\ pending' = [pending EXCEPT ![p][k] = native[k]]
            /\ UNCHANGED <<native, enable, file, cur, job, stale, hook, hookJob>>
        BY <2>7, <3>3, <4>1 DEF Snapshot
      <4>3. /\ pending'[p][k] = native[k]
            /\ \A c \in Channels \ {k} : pending'[p][c] = pending[p][c]
            /\ \A q \in Procs \ {p} : pending'[q] = pending[q]
        BY <4>2, <3>1 DEF SavedMap
      <4>. QED
        BY <3>1, <4>1, <4>2, <4>3
    <3>. QED
      BY <3>2, <3>3
  <2>8. CASE Save(p)
    BY <2>8 DEF Save
  <2>9. CASE EnableManual(p)
    <3>1. /\ cur[p] \in Channels
          /\ pc[p] = "enable"
          /\ Has(pending[p], cur[p])
      BY <2>9 DEF EnableManual, InCall
    <3>2. file[cur[p]] = native[cur[p]]
      BY <3>1
    <3>3. \A q \in Procs \ {p} : pc[q] = "down"
      BY <3>1
    <3>. QED
      BY <2>9, <3>1, <3>2, <3>3 DEF EnableManual
  <2>10. CASE SetDuty(p)
    BY <2>10 DEF SetDuty, Return
  <2>11. CASE Release(p)
    BY <2>11 DEF Release
  <2>12. CASE Unrecord(p)
    <3> DEFINE k == cur[p]
               left == [pending[p] EXCEPT ![k] = None]
    <3>1. /\ k \in Channels
          /\ pc[p] = "unrecord"
          /\ ~Deviates(k)
      BY <2>12 DEF Unrecord, InCall
    <3>2. /\ left[k] = None
          /\ \A c \in Channels \ {k} : left[c] = pending[p][c]
      BY <3>1 DEF SavedMap
    <3>3. \A q \in Procs \ {p} : pc[q] = "down"
      BY <3>1
    <3>4. /\ pc' = [pc EXCEPT ![p] = "idle"]
          /\ pending' = [pending EXCEPT ![p] = left]
          /\ file' = left \/ file' = file
          /\ UNCHANGED <<native, enable, job, stale, hook, hookJob>>
      BY <2>12 DEF Unrecord, Return
    <3> HIDE DEF left
    <3>5. /\ pending'[p] = left
          /\ \A q \in Procs \ {p} : pending'[q] = pending[q]
      BY <3>4
    <3>20. WriteAhead'
      BY <3>1, <3>2, <3>3, <3>4, <3>5
    <3>21. SavedIsNative'
      BY <3>1, <3>2, <3>3, <3>4, <3>5, SMTT(20)
    <3>6. /\ \A c \in Channels : Has(pending[p], c) => Has(file, c)
          /\ \A c \in Channels : Deviates(c) => Has(pending[p], c)
      BY <3>1
    <3>7. \A c \in Channels : Has(pending'[p], c) => Has(file', c)
      BY <3>2, <3>4, <3>5, <3>6, SMTT(20)
    <3>8. \A q \in Procs : q # p => pc'[q] \notin Serving
      BY <3>3, <3>4
    <3>22. HeldInMemory'
      <4>1. \A c \in Channels : Deviates(c)' => Has(pending'[p], c)
        <5> SUFFICES ASSUME NEW c \in Channels, Deviates(c)
                     PROVE  Has(left, c)
          BY <3>4, <3>5
        <5>1. c # k /\ Has(pending[p], c)
          BY <3>1, <3>6
        <5>. QED
          BY <3>2, <5>1
      <4>2. \A q \in Procs : pc'[q] \in Serving => q = p
        BY <3>8
      <4>. QED
        BY ONLY <4>1, <4>2 DEF HeldInMemory
    <3>23. FileCoversMemory'
      <4> SUFFICES ASSUME NEW q \in Procs, pc'[q] \in Serving, q = p,
                          NEW c \in Channels, Has(pending'[q], c)
                   PROVE  Has(file', c)
        BY <3>8
      <4>. QED
        BY <3>7
    <3>24. OneOwner'
      BY <3>1, <3>2, <3>3, <3>4, <3>5
    <3>25. JobsAreNative'
      BY <3>1, <3>2, <3>3, <3>4, <3>5
    <3>26. (\A q \in Procs : Phase(q))'
      BY <3>1, <3>2, <3>3, <3>4, <3>5
    <3>. QED
      BY <3>20, <3>21, <3>22, <3>23, <3>24, <3>25, <3>26
  <2>13. CASE OpFails(p)
    <3>1. /\ pc[p] \in {"snapshot", "enable", "duty", "release"}
          /\ pc'[p] \in {"idle", "snapshot", "release"}
          /\ pc'[p] = "release" => pc[p] = "release"
          /\ \A q \in Procs \ {p} : pc'[q] = pc[q]
          /\ stale'[p] = FALSE
          /\ \A q \in Procs \ {p} : stale'[q] = stale[q]
          /\ UNCHANGED <<native, enable, file, pending, job, hook, hookJob>>
      BY <2>13 DEF OpFails, Return, TouchesSysfs
    <3>2. \A q \in Procs \ {p} : pc[q] = "down"
      BY <3>1
    <3>3. \A c \in Channels : Has(pending[p], c) => Has(file, c)
      BY <3>1
    <3>4. \A c \in Channels : Deviates(c) => Has(pending[p], c)
      BY <3>1
    <3>5. \A q \in Procs : q # p => pc'[q] = "down" /\ ~stale'[q]
      BY <3>1, <3>2
    <3>20. WriteAhead' /\ SavedIsNative' /\ JobsAreNative'
      BY <3>1
    <3>6. \A q \in Procs : pc'[q] \in Serving => q = p
      BY <3>5
    <3>21. HeldInMemory' /\ FileCoversMemory'
      <4>1. \A c \in Channels : Deviates(c)' => Has(pending'[p], c)
        BY <3>1, <3>4
      <4>2. \A c \in Channels : Has(pending'[p], c) => Has(file', c)
        BY <3>1, <3>3
      <4>. QED
        BY ONLY <3>6, <4>1, <4>2 DEF HeldInMemory, FileCoversMemory
    <3>22. OneOwner'
      BY <3>5
    <3>23. Phase(p)'
      BY <3>1
    <3>24. ASSUME NEW q \in Procs, q # p PROVE Phase(q)'
      BY <3>1, <3>2, <3>5, <3>24
    <3>. QED
      BY <3>20, <3>21, <3>22, <3>23, <3>24
  <2>14. CASE CooldownElapses(p)
    BY <2>14 DEF CooldownElapses
  <2>15. CASE Kill(p)
    <3>1. \A q \in Procs : pc'[q] = "down"
      BY <2>15 DEF Kill, Forget
    <3>2. /\ ~stale'[p]
          /\ pending'[p] = NoEntry
          /\ hook'[p] = "none"
          /\ job'[p] = NoEntry /\ hookJob'[p] = NoEntry
          /\ \A q \in Procs \ {p} :
               /\ pending'[q] = pending[q]
               /\ job'[q] = job[q] /\ hookJob'[q] = hookJob[q]
               /\ stale'[q] = stale[q] /\ hook'[q] = hook[q]
               /\ pc[q] = "down"
          /\ UNCHANGED <<native, enable, file>>
      BY <2>15 DEF Kill, Forget
    <3>20. WriteAhead'
      BY <3>1, <3>2 DEF NoEntry
    <3>21. SavedIsNative'
      BY <3>1, <3>2 DEF NoEntry
    <3>22. HeldInMemory'
      BY <3>1, <3>2 DEF NoEntry
    <3>23. FileCoversMemory'
      BY <3>1, <3>2 DEF NoEntry
    <3>24. OneOwner'
      BY <3>1, <3>2 DEF NoEntry
    <3>25. JobsAreNative'
      BY <3>1, <3>2, SMTT(20) DEF NoEntry
    <3>26. (\A q \in Procs : Phase(q))'
      BY <3>1, <3>2 DEF NoEntry
    <3>. QED
      BY <3>20, <3>21, <3>22, <3>23, <3>24, <3>25, <3>26
  <2>16. CASE Panic(p)
    <3>1. /\ pc[p] \in Serving
          /\ \A q \in Procs \ {p} : pc[q] = "down"
      BY <2>16 DEF Panic
    <3>2. CASE Unwind(p) /\ UNCHANGED hooks
      BY <2>16, <3>1, <3>2 DEF Panic, Unwind
    <3>3. CASE Goto(p, "panicking") /\ StartHook(p) /\ UNCHANGED job
      BY <2>16, <3>1, <3>3 DEF Panic, StartHook
    <3>. QED
      BY <2>16, <3>2, <3>3 DEF Panic
  <2>17. CASE HookDone(p)
    <3>1. /\ pc[p] = "panicking"
          /\ \A q \in Procs \ {p} : pc[q] = "down"
      BY <2>17 DEF HookDone
    <3>2. \A c \in Channels : ~Deviates(c)
      BY <2>17, <3>1 DEF HookDone, NoEntry
    <3>20. WriteAhead'
      BY <2>17, <3>1, <3>2 DEF HookDone, Unwind, NoEntry
    <3>21. SavedIsNative'
      BY <2>17, <3>1, <3>2 DEF HookDone, Unwind, NoEntry
    <3>22. HeldInMemory'
      BY <2>17, <3>1, <3>2 DEF HookDone, Unwind, NoEntry
    <3>23. FileCoversMemory'
      BY <2>17, <3>1, <3>2 DEF HookDone, Unwind, NoEntry
    <3>24. OneOwner'
      BY <2>17, <3>1, <3>2 DEF HookDone, Unwind, NoEntry
    <3>25. JobsAreNative'
      BY <2>17, <3>1, <3>2 DEF HookDone, Unwind, NoEntry
    <3>26. (\A q \in Procs : Phase(q))'
      BY <2>17, <3>1, <3>2 DEF HookDone, Unwind, NoEntry
    <3>. QED
      BY <3>20, <3>21, <3>22, <3>23, <3>24, <3>25, <3>26
  <2>18. CASE OpenOtherChip(p) \/ ThreadPanic(p)
    BY <2>18 DEF OpenOtherChip, ThreadPanic
  <2>19. ASSUME NEW c \in Channels, SetManual(p, c) PROVE Custody'
    BY <2>19 DEF SetManual, Begin
  <2>20. ASSUME NEW c \in Channels, SetPwm(p, c) PROVE Custody'
    BY <2>20 DEF SetPwm, Begin
  <2>21. ASSUME NEW c \in Channels, RestoreEntry(p, c) PROVE Custody'
    BY <2>21 DEF RestoreEntry, WriteBackFails
  <2>22. ASSUME NEW c \in Channels, HookRestore(p, c) PROVE Custody'
    BY <2>22 DEF HookRestore
  <2>. QED
    BY <1>3, <2>1, <2>2, <2>3, <2>4, <2>5, <2>6, <2>7, <2>8, <2>9, <2>10, <2>11, <2>12, <2>13, <2>14, <2>15, <2>16, <2>17, <2>18, <2>19, <2>20, <2>21, <2>22 DEF Step
<1>. QED
  BY <1>1, <1>2, <1>3 DEF Next

LEMMA CustodyInit == Init => Custody
  BY HwmonAssumption
     DEF Init, Custody, WriteAhead, SavedIsNative, HeldInMemory, Deviates,
         FileCoversMemory, OneOwner, JobsAreNative, Phase, Has, NoEntry, Serving

\* The inductive invariant holds when the environment neither fails a
\* write-back or a save before a takeover, nor lets two owners meet.
THEOREM CustodyCorrect ==
  ASSUME Faults \cap Lossy = {}
  PROVE  Spec => []IInv
<1>1. IInv /\ (TypeOK /\ InCall)' /\ [Next]_vars => IInv'
  BY CustodyStep DEF IInv
<1>2. Init => Custody
  BY CustodyInit
<1>. QED
  BY <1>1, <1>2, TypeInductive, PTL DEF Spec, IInv

\* The mode of a header away from home is on disk at every instant: saving
\* before set_enable, and writing back before any entry or the file goes, is
\* enough for every number of headers and every crash point.
THEOREM WriteAheadHolds ==
  ASSUME Faults \cap Lossy = {}
  PROVE  Spec => []WriteAhead
<1>1. IInv => WriteAhead
  BY DEF IInv, Custody
<1>. QED
  BY <1>1, CustodyCorrect, PTL

\* Nothing but a header's own mode is ever saved for it.
THEOREM SavedIsNativeHolds ==
  ASSUME Faults \cap Lossy = {}
  PROVE  Spec => []SavedIsNative
<1>1. IInv => SavedIsNative
  BY DEF IInv, Custody
<1>. QED
  BY <1>1, CustodyCorrect, PTL

\* A process that ends by itself leaves every header in its own mode.
THEOREM CleanExitHolds ==
  ASSUME Faults \cap Lossy = {}
  PROVE  Spec => CleanExit
<1>1. IInv /\ [Next]_vars =>
        [\A p \in Procs :
           (ExitIdle(p) \/ ExitDone(p)) /\ pc[p] # "blind" =>
             \A c \in Channels : ~Deviates(c)]_vars
  <2> SUFFICES ASSUME IInv, NEW p \in Procs, ExitIdle(p) \/ ExitDone(p),
                      pc[p] # "blind", NEW c \in Channels
               PROVE  ~Deviates(c)
    OBVIOUS
  <2> USE DEF IInv, Custody
  <2>1. CASE ExitIdle(p)
    BY <2>1 DEF ExitIdle, HeldInMemory, Serving, Has, NoEntry
  <2>2. CASE ExitDone(p)
    BY <2>2 DEF ExitDone, Phase, Has, NoEntry
  <2>. QED
    BY <2>1, <2>2
<1>. QED
  BY <1>1, CustodyCorrect, PTL DEF Spec, CleanExit

\* A restart serves no request before every header is in its own mode.
THEOREM RestartRestoresHolds ==
  ASSUME Faults \cap Lossy = {}
  PROVE  Spec => RestartRestores
<1>1. IInv /\ IInv' /\ [Next]_vars =>
        [\A p \in Procs :
           (pc[p] \in {"down", "openRestore"} /\ pc'[p] = "idle") =>
             \A c \in Channels : ~Deviates(c)]_vars
  <2> SUFFICES ASSUME IInv, Next, NEW p \in Procs,
                      pc[p] \in {"down", "openRestore"}, pc'[p] = "idle",
                      NEW c \in Channels
               PROVE  ~Deviates(c)
    BY DEF vars
  <2> USE DEF IInv, Custody, TypeOK, Goto, Serving
  <2>1. PICK q \in Procs : Step(q)
    BY DEF Next, Renumber
  <2>2. q = p /\ (Open(q) \/ OpenDone(q))
    BY <2>1
       DEF Step, Open, OpenNoChip, OpenOtherChip, OpenDone, ExitIdle, Exit,
           ExitDone, Snapshot, Save, EnableManual, SetDuty, Release, Unrecord,
           OpFails, TouchesSysfs, CooldownElapses, Kill, Panic, ThreadPanic,
           HookDone, SetManual, SetPwm, RestoreEntry, HookRestore, MayOpen,
           Begin, Return, Forget, Unwind, StartHook, Phase
  <2>3. CASE Open(p)
    <3>1. file = NoEntry
      BY <2>3 DEF Open
    <3>. QED
      BY <3>1, HwmonAssumption DEF WriteAhead, NoEntry
  <2>4. CASE OpenDone(p)
    BY <2>4 DEF OpenDone, Phase, Has, NoEntry
  <2>. QED
    BY <2>2, <2>3, <2>4
<1>. QED
  BY <1>1, CustodyCorrect, PTL DEF Spec, RestartRestores

\* A recorded mode stays what it was until the header is back or the process
\* is gone, under every fault of the environment.
THEOREM KeptHolds == Spec => KeptUntilGivenBack
<1>1. TypeOK /\ InCall /\ [Next]_vars =>
        [\A p \in Procs, c \in Channels :
           (Has(pending[p], c) /\ pending'[p][c] # pending[p][c]) =>
             (pc[p] = "unrecord" /\ cur[p] = c) \/ pc'[p] = "down"]_vars
  <2> SUFFICES ASSUME TypeOK, InCall, Next,
                      NEW p \in Procs, NEW c \in Channels,
                      Has(pending[p], c), pending'[p][c] # pending[p][c]
               PROVE  (pc[p] = "unrecord" /\ cur[p] = c) \/ pc'[p] = "down"
    BY DEF vars
  <2> USE DEF TypeOK
  <2>1. PICK q \in Procs : Step(q)
    BY DEF Next, Renumber
  <2>2. \/ Snapshot(q) \/ Unrecord(q)
        \/ Forget(q) /\ (ExitIdle(q) \/ ExitDone(q) \/ Kill(q))
    BY <2>1
       DEF Step, Open, OpenNoChip, OpenOtherChip, OpenDone, ExitIdle, Exit,
           ExitDone, Save, EnableManual, SetDuty, Release,
           OpFails, CooldownElapses, Kill, Panic, ThreadPanic,
           HookDone, SetManual, SetPwm, RestoreEntry, HookRestore
  <2>3. CASE Snapshot(q)
    <3>1. /\ cur[q] \in Channels
          /\ ~Has(pending[q], cur[q])
          /\ pending' = [pending EXCEPT ![q][cur[q]] = enable[cur[q]]]
      BY <2>3 DEF Snapshot, InCall, Serving
    <3>. QED
      BY <3>1 DEF Has, SavedMap
  <2>4. CASE Unrecord(q)
    <3>1. /\ pc[q] = "unrecord"
          /\ pending' = [pending EXCEPT
                           ![q] = [pending[q] EXCEPT ![cur[q]] = None]]
      BY <2>4 DEF Unrecord
    <3>. QED
      BY <3>1 DEF SavedMap
  <2>5. CASE Forget(q)
    BY <2>5 DEF Forget, Goto
  <2>. QED
    BY <2>2, <2>3, <2>4, <2>5
<1>. QED
  BY <1>1, TypeInductive, PTL DEF Spec, KeptUntilGivenBack

\* The backend implements the write-ahead ledger FanLedger.
THEOREM LedgerRefined ==
  ASSUME Faults \cap Lossy = {}
  PROVE  Spec => ImplementsLedger
<1>1. Init => Ledger!Init
  BY DEF Init, Ledger!Init, NoEntry
<1>2. IInv /\ IInv' /\ [Next]_vars => [Ledger!Next]_(Ledger!vars)
  <2> SUFFICES ASSUME IInv, IInv', Next
               PROVE  Ledger!Next \/ UNCHANGED disk
    BY DEF vars, disk, Ledger!vars
  <2> USE DEF IInv, Custody, disk, Deviates
  <2>0. TypeOK /\ TypeOK' /\ InCall /\ \A q \in Procs : Phase(q)
    OBVIOUS
  <2>1. ASSUME NEW c \in Channels, UNCHANGED <<native, file>>,
               enable' = [enable EXCEPT ![c] = native[c]]
        PROVE  Ledger!Next \/ UNCHANGED disk
    <3>1. CASE Deviates(c)
      BY <2>1, <3>1 DEF WriteAhead, Ledger!Next, Ledger!GiveBack
    <3>2. CASE ~Deviates(c)
      BY <2>1, <3>2 DEF TypeOK
    <3>. QED
      BY <3>1, <3>2
  <2>2. ASSUME UNCHANGED <<native, enable>>,
               \A c \in Channels : file'[c] # file[c] => ~Deviates(c)
        PROVE  Ledger!Next
    BY <2>2 DEF Ledger!Next, Ledger!Rewrite, TypeOK, SavedMap, Entry,
                SavedIsNative
  <2>3. ASSUME UNCHANGED <<native, enable>>, \A c \in Channels : ~Deviates(c)
        PROVE  Ledger!Next
    BY <2>2, <2>3
  <2>4. CASE Renumber
    BY <2>4 DEF Renumber
  <2>5. ASSUME NEW p \in Procs, Step(p)
        PROVE  Ledger!Next \/ UNCHANGED disk
    <3>1. CASE OpenDone(p)
      <4>1. \A c \in Channels : ~Deviates(c)
        BY <3>1, <2>0 DEF OpenDone, Phase, Has, NoEntry
      <4>. QED
        BY <3>1, <4>1, <2>3 DEF OpenDone
    <3>2. CASE ExitDone(p)
      <4>1. \A c \in Channels : ~Deviates(c)
        BY <3>2, <2>0 DEF ExitDone, Phase, Has, NoEntry
      <4>. QED
        BY <3>2, <4>1, <2>3 DEF ExitDone
    <3>3. CASE HookDone(p)
      <4>1. \A c \in Channels : ~Deviates(c)
        BY <3>3, <2>0 DEF HookDone, Phase, Has, NoEntry
      <4>. QED
        BY <3>3, <4>1, <2>3 DEF HookDone
    <3>4. CASE Save(p)
      <4>1. \A c \in Channels : Deviates(c) => pending[p][c] = file[c]
        BY <3>4 DEF Save, HeldInMemory, Serving, SavedIsNative, WriteAhead, Has
      <4>. QED
        BY <3>4, <4>1, <2>2 DEF Save
    <3>5. CASE EnableManual(p)
      <4>1. /\ cur[p] \in Channels
            /\ Has(file, cur[p])
        BY <3>5, <2>0
           DEF EnableManual, InCall, Serving, FileCoversMemory
      <4>2. file[cur[p]] = native[cur[p]]
        BY <4>1 DEF Has, SavedIsNative
      <4>. QED
        BY <3>5, <4>1, <4>2 DEF EnableManual, Ledger!Next, Ledger!Borrow
    <3>6. CASE Release(p)
      <4>1. /\ cur[p] \in Channels
            /\ pending[p][cur[p]] = native[cur[p]]
        BY <3>6, <2>0 DEF Release, InCall, Serving, Has, SavedIsNative
      <4>. QED
        BY <3>6, <4>1, <2>1 DEF Release
    <3>7. CASE Unrecord(p)
      <4>1. /\ cur[p] \in Channels
            /\ ~Deviates(cur[p])
            /\ pc[p] \in Serving
        BY <3>7, <2>0 DEF Unrecord, InCall, Serving, Phase
      <4>2. \A c \in Channels : Deviates(c) => pending[p][c] = file[c]
        BY <4>1 DEF HeldInMemory, SavedIsNative, WriteAhead, Has
      <4>3. \A c \in Channels :
              Deviates(c) => [pending[p] EXCEPT ![cur[p]] = None][c] = file[c]
        BY <4>1, <4>2 DEF TypeOK, SavedMap
      <4>. QED
        BY <3>7, <4>3, <2>2 DEF Unrecord
    <3>8. ASSUME NEW c \in Channels, RestoreEntry(p, c)
          PROVE  Ledger!Next \/ UNCHANGED disk
      <4>1. job[p][c] = native[c] /\ ~WriteBackFails(p)
        BY <3>8, <2>0
           DEF RestoreEntry, JobsAreNative, Has, Phase, WriteBackFails, Lossy
      <4>. QED
        BY <3>8, <4>1, <2>1 DEF RestoreEntry
    <3>9. ASSUME NEW c \in Channels, HookRestore(p, c)
          PROVE  Ledger!Next \/ UNCHANGED disk
      <4>1. hookJob[p][c] = native[c] /\ "restore" \notin Faults
        BY <3>9 DEF HookRestore, JobsAreNative, Has, Lossy
      <4>. QED
        BY <3>9, <4>1, <2>1 DEF HookRestore
    <3>10. CASE OpenOtherChip(p)
      BY <3>10 DEF OpenOtherChip, Lossy
    <3>. QED
      BY <2>5, <3>1, <3>2, <3>3, <3>4, <3>5, <3>6, <3>7, <3>8, <3>9, <3>10
         DEF Step, Open, OpenNoChip, ExitIdle, Exit, Snapshot, SetDuty, OpFails,
             CooldownElapses, Kill, Panic, ThreadPanic, SetManual, SetPwm
  <2>. QED
    BY <2>4, <2>5 DEF Next
<1>. QED
  BY <1>1, <1>2, CustodyCorrect, PTL DEF Spec, ImplementsLedger, Ledger!Spec

-----------------------------------------------------------------------------
(* SpeedControl.                                                             *)

\* As much of the types as the proofs need.
Typed ==
  /\ cached \in Readings \cup {Nil}
  /\ dirty \in BOOLEAN
  /\ alarm \in [DOMAIN Alerts -> BOOLEAN]

\* Whoever asks for a speed of his own has the fan's curve removed.
NoCurveUnderManual == \A g \in Fans : asked[g] = "manual" => curve[g] = Nil

CurveInv == Typed /\ CurveFollows /\ NoCurveUnderManual

-----------------------------------------------------------------------------
\* A poll changes no curve, and leaves the flag up only where none is active.
LEMMA IngestKeeps ==
  ASSUME NEW reads \in Readings, cached \in Readings \cup {Nil}
  PROVE  /\ Ingest(reads) \in Readings
         /\ reads - Ingest(reads) \in -1..1
         /\ ~Changed(reads) => Ingest(reads) = cached
<1>1. reads \in Nat /\ Readings \subseteq Nat
  BY SpeedAssumption
<1>2. CASE Changed(reads)
  BY <1>1, <1>2 DEF Ingest
<1>3. CASE ~Changed(reads)
  <2>1. cached \in Readings /\ cached \in Nat
    BY <1>1, <1>3 DEF Changed
  <2>. QED
    BY <1>1, <1>3, <2>1 DEF Ingest, Changed
<1>. QED
  BY <1>2, <1>3

\* SetCurves installs one curve for some groups, and none has been evaluated.
LEMMA CurvesSet ==
  ASSUME CurveFollows, NEW groups, NEW c, SetCurves(groups, c), UNCHANGED <<cached, dirty>>
  PROVE  CurveFollows'
  BY DEF CurveFollows, SetCurves

\* Where groups lose their curves, some of them may be said to be "manual".
LEMMA RemovedForManual ==
  ASSUME NoCurveUnderManual, NEW groups, NEW done \in SUBSET groups, NEW how,
         RemoveCurves(groups), Wanted(done, how)
  PROVE  NoCurveUnderManual'
  BY DEF NoCurveUnderManual, RemoveCurves, SetCurves, Wanted, Groups

\* Where a curve stays or comes, the fan is no longer "manual".
LEMMA ReleasedForCurve ==
  ASSUME NoCurveUnderManual, NEW groups, Released(groups),
         \A g \in Groups \ groups : curve'[g] = Nil \/ curve'[g] = curve[g]
  PROVE  NoCurveUnderManual'
  BY SpeedAssumption DEF NoCurveUnderManual, Released, Wanted, Groups, SpeedAssumption

\* Other answers than "manual" ask nothing of the curves.
LEMMA AskedOtherwise ==
  ASSUME NoCurveUnderManual, NEW groups, NEW how \in {Board, Nil}, Wanted(groups, how),
         UNCHANGED curve
  PROVE  NoCurveUnderManual'
  BY SpeedAssumption DEF NoCurveUnderManual, Wanted, Groups, SpeedAssumption

LEMMA InitEstablishes == SpeedInit => CurveInv
<1>. SUFFICES ASSUME SpeedInit PROVE CurveInv
  OBVIOUS
<1>1. Typed
  BY DEF SpeedInit, Typed
<1>2. CurveFollows
  BY DEF SpeedInit, CurveFollows
<1>3. NoCurveUnderManual
  BY SpeedAssumption DEF SpeedInit, NoCurveUnderManual, SpeedAssumption
<1>. QED
  BY <1>1, <1>2, <1>3 DEF CurveInv

-----------------------------------------------------------------------------
(* Requests. *)

\* A request keeps what the curves and the sensor have; its part in Typed.
LEMMA RequestKeeps ==
  ASSUME Typed, Request, UNCHANGED alarm
  PROVE  Typed'
  BY DEF Typed, Request

\* A request on speeds: whether it removes the curve or leaves it in place.
LEMMA RemovingRequests ==
  ASSUME CurveInv, NEW groups, Request, RemoveCurves(groups), UNCHANGED alarm,
         NEW done \in SUBSET groups, NEW how, Wanted(done, how)
  PROVE  CurveInv'
<1>1. Typed'
  BY RequestKeeps DEF CurveInv
<1>2. CurveFollows'
  BY CurvesSet DEF CurveInv, Request, RemoveCurves
<1>3. NoCurveUnderManual'
  BY RemovedForManual DEF CurveInv
<1>. QED
  BY <1>1, <1>2, <1>3 DEF CurveInv

LEMMA LeavingRequests ==
  ASSUME CurveInv, Request, UNCHANGED <<curve, last, alarm>>,
         UNCHANGED asked \/ \E groups : \E how \in {Board, Nil} : Wanted(groups, how)
  PROVE  CurveInv'
<1>1. Typed'
  BY RequestKeeps DEF CurveInv
<1>2. CurveFollows'
  BY DEF CurveInv, CurveFollows, Request
<1>3. NoCurveUnderManual'
  <2>1. CASE UNCHANGED asked
    BY <2>1 DEF CurveInv, NoCurveUnderManual
  <2>2. CASE \E groups : \E how \in {Board, Nil} : Wanted(groups, how)
    BY <2>2, AskedOtherwise DEF CurveInv
  <2>. QED
    BY <2>1, <2>2
<1>. QED
  BY <1>1, <1>2, <1>3 DEF CurveInv

LEMMA RequestsKeep ==
  ASSUME CurveInv, NEW g \in installed,
         SetSpeedManual(g) \/ SetSpeedPwm(g) \/ MoboAuto(g) \/ SetCurve(g) \/ SetMbSync(g)
           \/ SetPump(g) \/ ApplyScene(g)
  PROVE  CurveInv'
<1>1. CASE SetSpeedManual(g)
  <2>1. PICK broken : RemoveCurves({g}) /\ Wanted(Reached({g}, broken), "manual")
    BY <1>1 DEF SetSpeedManual
  <2>2. Reached({g}, broken) \in SUBSET {g}
    BY DEF Reached
  <2>. QED
    BY <1>1, <2>1, <2>2, RemovingRequests DEF SetSpeedManual
<1>2. CASE SetSpeedPwm(g)
  <2>1. PICK broken : RemoveCurves({g}) /\ Wanted(Reached({g}, broken), Board)
    BY <1>2 DEF SetSpeedPwm
  <2>2. Reached({g}, broken) \in SUBSET {g}
    BY DEF Reached
  <2>. QED
    BY <1>2, <2>1, <2>2, RemovingRequests DEF SetSpeedPwm
<1>3. CASE MoboAuto(g)
  BY <1>3, LeavingRequests DEF MoboAuto
<1>4. CASE SetCurve(g)
  <2>1. PICK c : SetCurves({g}, c) /\ Released({g})
    BY <1>4 DEF SetCurve
  <2>2. Typed'
    BY <1>4, RequestKeeps DEF SetCurve, CurveInv
  <2>3. CurveFollows'
    BY <1>4, <2>1, CurvesSet DEF SetCurve, CurveInv, Request
  <2>4. NoCurveUnderManual'
    BY <2>1, ReleasedForCurve DEF CurveInv, SetCurves
  <2>. QED
    BY <2>2, <2>3, <2>4 DEF CurveInv
<1>5. CASE SetMbSync(g)
  BY <1>5, LeavingRequests DEF SetMbSync
<1>6. CASE SetPump(g)
  BY <1>6, LeavingRequests DEF SetPump
<1>7. CASE ApplyScene(g)
  BY <1>7, LeavingRequests DEF ApplyScene
<1>. QED
  BY <1>1, <1>2, <1>3, <1>4, <1>5, <1>6, <1>7

LEMMA SetSpeedAllKeeps ==
  ASSUME CurveInv, NEW groups, SetSpeedAll(groups)
  PROVE  CurveInv'
<1> DEFINE these == {g \in groups \cap present : ~mbSync[g]}
<1>1. Request /\ RemoveCurves(these) /\ UNCHANGED alarm
  BY DEF SetSpeedAll
<1>2. \/ \E broken, how : Wanted(these \ broken, how)
      \/ Released(these)
  BY DEF SetSpeedAll
<1>3. CASE \E broken, how : Wanted(these \ broken, how)
  <2>1. PICK broken, how : Wanted(these \ broken, how)
    BY <1>3
  <2>2. these \ broken \in SUBSET these
    OBVIOUS
  <2>. QED
    BY <1>1, <2>1, <2>2, RemovingRequests
<1>4. CASE Released(these)
  <2>1. {g \in these \cap Fans : asked[g] = "manual"} \in SUBSET these
    OBVIOUS
  <2>. QED
    BY <1>1, <1>4, <2>1, RemovingRequests DEF Released
<1>. QED
  BY <1>2, <1>3, <1>4

LEMMA StopFansKeeps ==
  ASSUME CurveInv, StopFans
  PROVE  CurveInv'
<1>1. PICK broken \in SUBSET present : Wanted(present \ broken, "manual")
  BY DEF StopFans
<1>2. present \ broken \in SUBSET present
  OBVIOUS
<1>. QED
  BY <1>1, <1>2, RemovingRequests DEF StopFans

LEMMA ReloadConfigKeeps ==
  ASSUME CurveInv, ReloadConfig
  PROVE  CurveInv'
<1>1. Typed'
  BY RequestKeeps DEF CurveInv, ReloadConfig
<1>2. CurveFollows'
  BY DEF ReloadConfig, CurveFollows
<1>3. NoCurveUnderManual'
  BY SpeedAssumption
  DEF CurveInv, NoCurveUnderManual, ReloadConfig, Released, Wanted, SpeedAssumption
<1>. QED
  BY <1>1, <1>2, <1>3 DEF CurveInv

LEMMA SetAlertConfigKeeps ==
  ASSUME CurveInv, SetAlertConfig
  PROVE  CurveInv'
  BY DEF SetAlertConfig, Request, CurveInv, Typed, CurveFollows, NoCurveUnderManual

-----------------------------------------------------------------------------
(* The poll. *)

\* What a poll does to the curve runner and the alerts, whatever discovery finds
\* and whichever sends fail.
LEMMA PollRuns ==
  ASSUME NEW reads \in Readings, NEW scheduled, Poll(reads, scheduled)
  PROVE  /\ reading' = reads /\ cached' = Ingest(reads)
         /\ dirty' = ((dirty \/ Changed(reads)) /\ Active = {})
         /\ quiet' = (scheduled = Nil)
         /\ UNCHANGED <<curve, asked>>
         /\ alarm' = [i \in DOMAIN Alerts |->
                        i \in Fired(Ingest(reads))
                          \/ (alarm[i] /\ i \notin Cleared(Ingest(reads)))]
  BY DEF Poll

\* The speeds the curves have commanded after a poll.
LEMMA PollEvaluates ==
  ASSUME NEW reads \in Readings, NEW scheduled, Poll(reads, scheduled), NEW g \in Groups
  PROVE  /\ Evaluates(Changed(reads)) /\ curve[g] # Nil
              => last'[g] = Target(g, Ingest(reads))
         /\ ~Evaluates(Changed(reads)) => last'[g] = last[g]
  BY DEF Poll, Active

LEMMA PollKeeps ==
  ASSUME CurveInv, NEW reads \in Readings, NEW scheduled, Poll(reads, scheduled)
  PROVE  CurveInv'
<1>1. Typed'
  <2>1. Ingest(reads) \in Readings
    BY IngestKeeps DEF CurveInv, Typed
  <2>. QED
    BY <2>1, PollRuns DEF Typed
<1>2. CurveFollows'
  <2>. SUFFICES ASSUME NEW g \in Groups, ~dirty', curve'[g] # Nil, last'[g] # Nil,
                       curve'[g].ramp = Nil
                PROVE  last'[g] = SpeedAt(curve'[g], cached' \div 2)
    BY DEF CurveFollows
  <2>1. curve'[g] = curve[g] /\ g \in Active /\ cached' = Ingest(reads)
    BY PollRuns DEF Active
  <2>2. CASE Evaluates(Changed(reads))
    <3>1. last'[g] = Target(g, Ingest(reads))
      BY <2>1, <2>2, PollEvaluates
    <3>. QED
      BY <2>1, <3>1 DEF Target, Ramped
  <2>3. CASE ~Evaluates(Changed(reads))
    <3>1. ~dirty /\ ~Changed(reads)
      BY <2>1, <2>3 DEF Evaluates
    <3>2. cached' = cached
      BY <2>1, <3>1, IngestKeeps DEF CurveInv, Typed
    <3>3. last'[g] = last[g]
      BY <2>3, PollEvaluates
    <3>. QED
      BY <2>1, <3>1, <3>2, <3>3 DEF CurveInv, CurveFollows
  <2>. QED
    BY <2>2, <2>3
<1>3. NoCurveUnderManual'
  BY PollRuns DEF CurveInv, NoCurveUnderManual
<1>. QED
  BY <1>1, <1>2, <1>3 DEF CurveInv

LEMMA StepKeeps == CurveInv /\ [SpeedNext]_speedVars => CurveInv'
<1>. SUFFICES ASSUME CurveInv, [SpeedNext]_speedVars PROVE CurveInv'
  OBVIOUS
<1>1. CASE UNCHANGED speedVars
  BY <1>1 DEF speedVars, runner, CurveInv, Typed, CurveFollows, NoCurveUnderManual
<1>2. ASSUME NEW groups \in SUBSET installed, Discover(groups) PROVE CurveInv'
  BY <1>2 DEF Discover, runner, CurveInv, Typed, CurveFollows, NoCurveUnderManual
<1>3. ASSUME NEW g \in Pumps, Decay(g) PROVE CurveInv'
  BY <1>3 DEF Decay, runner, CurveInv, Typed, CurveFollows, NoCurveUnderManual
<1>4. CASE AnyPoll
  BY <1>4, PollKeeps DEF AnyPoll
<1>. QED
  BY <1>1, <1>2, <1>3, <1>4, RequestsKeep, SetSpeedAllKeeps, StopFansKeeps,
     ReloadConfigKeeps, SetAlertConfigKeeps DEF SpeedNext

\* The registry, the curves with their cache, the alerts and the requests agree in
\* every state, for any fans, curves, alerts and failures.
THEOREM Inductive == SpeedSpec => []CurveInv
<1>. QED
  BY InitEstablishes, StepKeeps, PTL DEF SpeedSpec

\* Every evaluated curve without a ramp stands at its value for the cached
\* temperature whenever CurveRunner's flag is down.
THEOREM CurveFollowsHolds == SpeedSpec => []CurveFollows
<1>1. CurveInv => CurveFollows
  BY DEF CurveInv
<1>. QED
  BY <1>1, Inductive, PTL

-----------------------------------------------------------------------------
\* A poll with neither a new alert nor a schedule leaves a fan without a curve
\* as it is: the keepalive is for pumps only.
LEMMA PollSpares ==
  ASSUME NEW reads \in Readings, Poll(reads, Nil), Fired(Ingest(reads)) = {},
         NEW g \in Fans, curve[g] = Nil
  PROVE  told'[g] = told[g]
<1>1. g \in Groups /\ g \notin Pumps /\ g \notin Active
  BY SpeedAssumption DEF Groups, Active, SpeedAssumption
<1>. QED
  BY <1>1 DEF Poll, KeptAlive

LEMMA ManualStep ==
  ASSUME CurveInv, SpeedNext, quiet', \A i \in DOMAIN Alerts : alarm'[i] => alarm[i],
         NEW g \in Fans, asked[g] = "manual"
  PROVE  told'[g] = told[g]
<1>1. PICK reads \in Readings, scheduled \in Scheduled \cup {Nil} : Poll(reads, scheduled)
  BY DEF SpeedNext, AnyPoll, Request, SetSpeedManual, SetSpeedPwm, MoboAuto, SetCurve, SetMbSync, SetPump,
         ApplyScene, SetSpeedAll, Discover, StopFans, ReloadConfig, SetAlertConfig, Decay
<1>2. scheduled = Nil
  BY <1>1, PollRuns
<1>3. Fired(Ingest(reads)) = {}
  BY <1>1, PollRuns DEF Fired
<1>4. curve[g] = Nil
  BY DEF CurveInv, NoCurveUnderManual
<1>. QED
  BY <1>1, <1>2, <1>3, <1>4, PollSpares

\* A fan under a Manual request keeps its speed in every poll without an alert
\* or a schedule, with any machine and any curves in the config.
THEOREM ManualHoldsAlways == SpeedSpec => ManualHolds
<1>1. CurveInv /\ [SpeedNext]_speedVars =>
        [quiet' /\ (\A i \in DOMAIN Alerts : alarm'[i] => alarm[i])
           => \A g \in Fans : asked[g] = "manual" => told'[g] = told[g]]_speedVars
  BY ManualStep
<1>. QED
  BY <1>1, Inductive, PTL DEF SpeedSpec, ManualHolds

-----------------------------------------------------------------------------
\* The deadband moves the cached reading by at most one from the sensor's.
LEMMA AlertStep ==
  ASSUME CurveInv, SpeedNext, quiet', NEW i \in DOMAIN Alerts
  PROVE  LET mark == 2 * Alerts[i].threshold IN
         /\ reading' >= mark + 1 => alarm'[i]
         /\ alarm[i] /\ reading' >= mark - 3 => alarm'[i]
         /\ ~alarm[i] /\ reading' < mark - 1 => ~alarm'[i]
<1> DEFINE mark == 2 * Alerts[i].threshold
<1>1. PICK reads \in Readings, scheduled \in Scheduled \cup {Nil} : Poll(reads, scheduled)
  BY DEF SpeedNext, AnyPoll, Request, SetSpeedManual, SetSpeedPwm, MoboAuto, SetCurve, SetMbSync, SetPump,
         ApplyScene, SetSpeedAll, Discover, StopFans, ReloadConfig, SetAlertConfig, Decay
<1> DEFINE temp == Ingest(reads)
<1>2. /\ reading' = reads
      /\ alarm'[i] <=> i \in Fired(temp) \/ (alarm[i] /\ i \notin Cleared(temp))
  BY <1>1, PollRuns
<1>3. mark \in Nat /\ reads \in Nat /\ temp \in Nat /\ reads - temp \in -1..1
  <2>1. reads \in Readings
    BY <1>1
  <2>2. temp \in Readings /\ reads - temp \in -1..1
    BY <2>1, IngestKeeps DEF CurveInv, Typed
  <2>3. Readings \subseteq Nat /\ Alerts[i].threshold \in Nat
    BY SpeedAssumption DEF SpeedAssumption
  <2>4. mark \in Nat
    BY <2>3
  <2>. HIDE DEF mark, temp
  <2>5. reads \in Nat /\ temp \in Nat
    BY <2>1, <2>2, <2>3
  <2>. QED
    BY <2>2, <2>4, <2>5
<1>4. /\ i \in Fired(temp) <=> ~alarm[i] /\ temp >= mark
      /\ i \in Cleared(temp) <=> alarm[i] /\ temp < mark - 4
  BY DEF Fired, Cleared
<1>. HIDE DEF mark, temp
<1>5. (reads >= mark + 1 => temp >= mark) /\ (reads >= mark - 3 => ~(temp < mark - 4))
      /\ (reads < mark - 1 => ~(temp >= mark)) /\ (temp >= mark => ~(temp < mark - 4))
  BY <1>3
<1>6. /\ reads >= mark + 1 => alarm'[i]
      /\ alarm[i] /\ reads >= mark - 3 => alarm'[i]
      /\ ~alarm[i] /\ reads < mark - 1 => ~alarm'[i]
  BY <1>2, <1>4, <1>5, Zenon
<1>. QED
  BY <1>2, <1>6 DEF mark

\* Alerts fire at their threshold and are not cleared within the hysteresis, for
\* any alerts and readings, give or take the deadband.
THEOREM AlertsTrue == SpeedSpec => AlertsTrueToSensor
<1>1. CurveInv /\ [SpeedNext]_speedVars =>
        [quiet' => \A i \in DOMAIN Alerts :
            LET mark == 2 * Alerts[i].threshold IN
            /\ reading' >= mark + 1 => alarm'[i]
            /\ alarm[i] /\ reading' >= mark - 3 => alarm'[i]
            /\ ~alarm[i] /\ reading' < mark - 1 => ~alarm'[i]]_speedVars
  BY AlertStep
<1>. QED
  BY <1>1, Inductive, PTL DEF SpeedSpec, AlertsTrueToSensor

=============================================================================
