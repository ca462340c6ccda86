------------------------- MODULE PluginRuntimeProofs -------------------------
(***************************************************************************)
(* Proofs about PluginRuntime for any bounds: the types, that at most one  *)
(* operation on the plugin is under way (OneOperationAtATime), that a      *)
(* plugin in use was loaded as it was verified (ActiveLoadedIncoming) and  *)
(* that a save in the guard's charge is of the package in place            *)
(* (IncomingStands).                                                       *)
(*                                                                         *)
(* The invariant Kept says who has the component and what its guard        *)
(* vouches for: a coordinator at work has it alone, the operation under    *)
(* way is the one the guard is pending, instances are approved only during *)
(* a load, and the package is replaced only while nothing runs. The proof  *)
(* first shows how a step may leave the component (GoesOn, Rests,          *)
(* StartWaits and the ends built from them), then takes the actions in     *)
(* turn, each of which leaves it in one of these ways.                     *)
(***************************************************************************)
EXTENDS PluginRuntime, TLAPS, FiniteSetTheorems

Waiting == {"r_disable", "r_restore", "u_disable", "manifest", "load"}
Resting == {"r_drain", "unload", "u_drain", "verify", "protect", "enable", "check"}
Working == Waiting \cup Resting \cup {"recover"}
Places  == Working \cup {"off", "idle", "install"}
Calls   == {"none", "quiesce", "activate", "finish", "failed"}
Tasks   == [pc : Places, call : Calls, want : Contents \cup {None}]
Counts  == [ops : Nat, saves : Nat, bypass : Nat, faults : Nat]
Ops     == [id : Nat, kind : {"disable", "manifest", "enable", "restore"}, step : {0, 1}]

Outside ==
    /\ code \in Nat
    /\ public \in Contents \cup {None} /\ kept \subseteq Contents
    /\ running \in {0} \cup Instances
    /\ loaded \in [Instances -> Packages \cup {None}]
    /\ ops \subseteq Ops /\ lastOk \in BOOLEAN
    /\ fence \in [Instances -> {0} \cup Coordinators]
    /\ writes \subseteq [by : Instances, guarded : BOOLEAN]
    /\ count \in Counts

Inside ==
    /\ comp \in Guards \cup {None} /\ left \in Guards \cup {None}
    /\ hooked \subseteq Coordinators /\ closed \subseteq {1} /\ others \in BOOLEAN
    /\ task \in [Coordinators -> Tasks]

TypeOK == Outside /\ Inside

\* At most one coordinator works on the component; the second one comes after
\* the first is disposed.
Works(c) == task[c].pc \in Working
Alone ==
    /\ \A c, d \in Coordinators : Works(c) /\ Works(d) => c = d
    /\ 1 \notin closed => task[2].pc = "off"

\* At most one operation is under way.
OneOperation == /\ \A o \in ops : o.id # 0
                /\ \A o, p \in ops : o = p

\* What runs was loaded from the package in place.
Current(n)     == loaded[n] # None /\ loaded[n].code = code
RunningCurrent == running # 0 => Current(running)

\* What a guard vouches for: the operation under way is the one it is pending;
\* the instance to unload and those that save through it are of the package in
\* place; those it approved have loaded what it expected; an active one has
\* approved what runs.
Sound(k) ==
    /\ \A o \in ops : o.id = k.pending
    /\ k.phase = "unloading" /\ k.previous # 0 => Current(k.previous)
    /\ \A n \in k.tracked : Current(n)
    /\ \A n \in k.approved : loaded[n] = [code |-> code, data |-> k.expected]
    /\ k.phase = "active" => k.pending = 0 /\ running \in k.approved \cup {0}

\* What the guard k is like while coordinator c works on it with task t.
Placed(c, t, k) ==
    /\ k.busy
    /\ t.pc \in Resting => k.pending = 0
    /\ t.pc \in Waiting => k.pending # 0
    /\ t.pc \in {"u_disable", "u_drain", "verify", "manifest", "protect", "enable",
                 "load", "check"} \/ t.call = "failed" => k.owner = c
    /\ t.pc = "unload" => k.owner = c \/ (c = 2 /\ k.phase = "active")
    /\ t.pc \in {"r_disable", "r_drain", "r_restore", "verify", "manifest"} => k.phase = "quiesced"
    /\ t.pc \notin {"recover", "unload"} => k.phase # "active"
    /\ k.approved # {} => k.phase = "active" \/ t.pc \in {"load", "check"}
    /\ k.token => t.pc \in {"load", "check"}

\* What it is like while nobody does.
Free(k) ==
    /\ ~k.busy /\ ~k.token
    /\ k.approved # {} => k.phase = "active"
    /\ k.owner \in closed => k.needsRecovery \/ k.pending # 0 \/ k.phase = "active"

InHand ==
    IF comp = None
    THEN ops = {} /\ \A c \in Coordinators : ~Works(c)
    ELSE /\ Sound(comp)
         /\ \A c \in Coordinators : Works(c) => Placed(c, task[c], comp)
         /\ (\A c \in Coordinators : ~Works(c)) => Free(comp)

\* The package is replaced only while nothing runs and nothing is under way.
Vacant ==
    \A c \in Coordinators : task[c].pc = "install" /\ c \notin closed =>
        /\ running = 0 /\ ops = {}
        /\ comp # None /\ comp.owner = c /\ comp.phase = "quiesced" /\ ~comp.busy
        /\ comp.approved = {} /\ comp.tracked = {}

Kept == TypeOK /\ Alone /\ OneOperation /\ RunningCurrent /\ InHand /\ Vacant

-----------------------------------------------------------------------------
(* Guards and tasks                                                         *)

\* A retired guard lets nothing through (retire).
LEMMA RetiredGuard ==
    ASSUME NEW k \in Guards
    PROVE  /\ Retired(k) \in Guards
           /\ Retired(k).phase = "quiesced" /\ Retired(k).approved = {}
           /\ ~Retired(k).token /\ Retired(k).needsRecovery
           /\ Retired(k).owner = k.owner /\ Retired(k).busy = k.busy
           /\ Retired(k).pending = k.pending /\ Retired(k).tracked = k.tracked
           /\ Retired(k).previous = k.previous
BY DEF Retired, Guards, Phases

\* So does one whose unload is over.
LEMMA QuietGuard ==
    ASSUME NEW k \in Guards
    PROVE  /\ Quiet(k) \in Guards
           /\ Quiet(k).phase = "quiesced" /\ Quiet(k).approved = {} /\ ~Quiet(k).token
           /\ Quiet(k).owner = k.owner /\ Quiet(k).busy = k.busy
           /\ Quiet(k).pending = k.pending /\ Quiet(k).tracked = k.tracked
           /\ Quiet(k).previous = k.previous /\ Quiet(k).needsRecovery = k.needsRecovery
BY DEF Quiet, Guards, Phases

\* The guard a coordinator makes to unload what runs (newGuard).
LEMMA FreshGuard ==
    ASSUME TypeOK, NEW c \in Coordinators
    PROVE  /\ NewGuard(c) \in Guards
           /\ NewGuard(c).owner = c /\ NewGuard(c).busy /\ NewGuard(c).pending = 0
           /\ NewGuard(c).phase = "unloading" /\ NewGuard(c).previous = running
           /\ NewGuard(c).approved = {} /\ NewGuard(c).tracked = {}
           /\ ~NewGuard(c).token /\ ~NewGuard(c).needsRecovery
BY DEF TypeOK, Outside, NewGuard, Guards, Phases

\* Who works has the component; so has an operation under way.
LEMMA HasGuard ==
    ASSUME Kept
    PROVE  /\ comp # None <=> comp \in Guards
           /\ \A c \in Coordinators : Works(c) => comp \in Guards
           /\ ops # {} => comp \in Guards
BY NoneAssumption DEF Kept, TypeOK, Inside, InHand

\* One coordinator moves, the other stays.
LEMMA GoesTo ==
    ASSUME TypeOK, NEW c \in Coordinators, NEW pc \in Places, Go(c, pc)
    PROVE  /\ task' \in [Coordinators -> Tasks]
           /\ task'[c].pc = pc /\ task'[c].call = task[c].call
           /\ \A d \in Coordinators : d # c => task'[d] = task[d]
BY DEF TypeOK, Inside, Go, Tasks, Coordinators

\* So does the failure that goes on with the recovery.
LEMMA GoesToRecover ==
    ASSUME TypeOK, NEW c \in Coordinators,
           task' = [task EXCEPT ![c] = [@ EXCEPT !.pc = "recover", !.call = "failed"]]
    PROVE  /\ task' \in [Coordinators -> Tasks]
           /\ task'[c].pc = "recover" /\ task'[c].call = "failed"
           /\ \A d \in Coordinators : d # c => task'[d] = task[d]
<1>1. task \in [Coordinators -> Tasks]
  BY DEF TypeOK, Inside
<1>2. task[c] \in Tasks
  BY <1>1
<1> DEFINE t == [task[c] EXCEPT !.pc = "recover", !.call = "failed"]
<1>3. t \in Tasks /\ t.pc = "recover" /\ t.call = "failed"
  BY <1>2 DEF Tasks, Places, Working, Calls
<1>4. task' = [task EXCEPT ![c] = t]
  OBVIOUS
<1> HIDE DEF t
<1> QED
  BY <1>1, <1>3, <1>4

\* The ways a step ends leave the wrappers of the instances, except that one that
\* never left is given its own back.
LEMMA FenceStays ==
    ASSUME NEW c \in Coordinators, NEW k
    PROVE  /\ \A loading \in BOOLEAN : Fails(c, k, loading) => fence' = fence
           /\ Recovered(c, k) => fence' = fence
           /\ UnloadHeld(c, k) => fence' \in {fence, [fence EXCEPT ![running] = 0]}
BY DEF Fails, Recovered, UnloadHeld, hooks

\* The counters of the bounds are numbers.
LEMMA CountsUp ==
    ASSUME TypeOK
    PROVE  /\ [count EXCEPT !.saves = @ + 1] \in Counts
           /\ [count EXCEPT !.bypass = @ + 1] \in Counts
           /\ [count EXCEPT !.faults = @ + 1] \in Counts
BY DEF TypeOK, Outside, Counts

-----------------------------------------------------------------------------
(* The types                                                                *)

\* Types at the ends of a step, one lemma for each end.
LEMMA EndTypes ==
    ASSUME TypeOK, NEW k \in Guards, End(k), task' \in [Coordinators -> Tasks]
    PROVE  Inside'
<1>1. [k EXCEPT !.busy = FALSE] \in Guards
  BY DEF Guards
<1> QED
  BY <1>1 DEF End, TypeOK, Inside

\* A step that finds the component held.
LEMMA HeldTypes ==
    ASSUME TypeOK, NEW c \in Coordinators, NEW k \in Guards, Held(c, k)
    PROVE  Inside'
BY GoesTo, EndTypes DEF Held, Places

\* A step that starts an operation of the plugin manager.
LEMMA StartTypes ==
    ASSUME TypeOK, NEW c \in Coordinators, NEW k \in Guards,
           NEW kind \in {"disable", "manifest", "enable", "restore"}, NEW pc \in Places,
           Start(c, k, kind, pc)
    PROVE  /\ comp' \in Guards /\ task' \in [Coordinators -> Tasks]
           /\ ops' \subseteq Ops /\ count' \in Counts
           /\ running' = running /\ loaded' = loaded /\ lastOk' = lastOk
<1>1. task' \in [Coordinators -> Tasks]
  BY GoesTo DEF Start
<1>2. count.ops \in Nat
  BY DEF TypeOK, Outside, Counts
<1>3. [k EXCEPT !.pending = count.ops + 1] \in Guards
  BY <1>2 DEF Guards
<1>4. [id |-> count.ops + 1, kind |-> kind, step |-> 0] \in Ops
  BY <1>2 DEF Ops
<1> QED
  BY <1>1, <1>2, <1>3, <1>4 DEF Start, TypeOK, Outside, Counts

\* A step that fails.
LEMMA FailsTypes ==
    ASSUME TypeOK, NEW c \in Coordinators, NEW k \in Guards, NEW loading \in BOOLEAN,
           Fails(c, k, loading)
    PROVE  Inside'
<1> DEFINE r == [Retired(k) EXCEPT !.activationFailed = @ \/ loading]
<1>1. r \in Guards
  <2> DEFINE m == Retired(k)
  <2>1. m \in Guards
    BY RetiredGuard
  <2> HIDE DEF m
  <2>2. [m EXCEPT !.activationFailed = @ \/ loading] \in Guards
    BY <2>1 DEF Guards
  <2> QED
    BY <2>2 DEF m
<1>2. Held(c, k) \/ Held(c, r) => Inside'
  BY <1>1, HeldTypes
<1>3. /\ comp' = r /\ UNCHANGED hooks
      /\ task' = [task EXCEPT ![c] = [@ EXCEPT !.pc = "recover", !.call = "failed"]]
      => Inside'
  BY <1>1, GoesToRecover DEF hooks, TypeOK, Inside
<1> QED
  BY <1>2, <1>3 DEF Fails

\* The end of a recovery.
LEMMA RecoveredTypes ==
    ASSUME TypeOK, NEW c \in Coordinators, NEW k \in Guards, Recovered(c, k)
    PROVE  Inside'
<1>1. End(k) /\ Go(c, "idle") => Inside'
  BY HeldTypes DEF Held
<1>2. Held(c, k) => Inside'
  BY HeldTypes
<1>3. comp' = k /\ UNCHANGED hooks /\ (\E pc \in {"unload", "verify"} : Go(c, pc)) => Inside'
  <2> SUFFICES ASSUME comp' = k, UNCHANGED hooks, NEW pc \in {"unload", "verify"}, Go(c, pc)
               PROVE  Inside'
    OBVIOUS
  <2>1. task' \in [Coordinators -> Tasks]
    BY GoesTo DEF Places, Working, Resting
  <2> QED
    BY <2>1 DEF hooks, TypeOK, Inside
<1> QED
  BY <1>1, <1>2, <1>3 DEF Recovered

\* An unload that is given up.
LEMMA UnloadHeldTypes ==
    ASSUME TypeOK, NEW c \in Coordinators, NEW k \in Guards, UnloadHeld(c, k)
    PROVE  Inside'
<1>1. comp' = None /\ Go(c, "idle") /\ UNCHANGED <<left, hooked, closed, others>> => Inside'
  <2> SUFFICES ASSUME comp' = None, Go(c, "idle"), UNCHANGED <<left, hooked, closed, others>>
               PROVE  Inside'
    OBVIOUS
  <2>1. task' \in [Coordinators -> Tasks]
    BY GoesTo DEF Places
  <2> QED
    BY <2>1 DEF TypeOK, Inside
<1>2. /\ comp' = Retired(k) /\ UNCHANGED <<left, hooked, closed, others>>
      /\ task' = [task EXCEPT ![c] = [@ EXCEPT !.pc = "recover", !.call = "failed"]]
      => Inside'
  BY RetiredGuard, GoesToRecover DEF TypeOK, Inside
<1>3. Held(c, k) => Inside'
  BY HeldTypes
<1> QED
  BY <1>1, <1>2, <1>3 DEF UnloadHeld

\* What is on disk is a package.
LEMMA ProofType == TypeOK => Proof \in Packages
BY DEF TypeOK, Outside, Proof, Packages

\* A call of the installer.
LEMMA CallTypes ==
    ASSUME Kept, NEW c \in Coordinators, NEW call \in Calls, NEW want \in Contents \cup {None},
           Call(c, call, want)
    PROVE  Inside'
<1>1. TypeOK
  BY DEF Kept
<1>2. CASE UNCHANGED <<comp, task>>
  BY <1>1, <1>2 DEF Call, hooks, TypeOK, Inside
<1>3. CASE ~UNCHANGED <<comp, task>>
  <2> DEFINE k == IF comp = None THEN NewGuard(c) ELSE [comp EXCEPT !.busy = TRUE]
  <2>1. k \in Guards
    BY <1>1, FreshGuard DEF TypeOK, Inside, Guards
  <2>2. [k EXCEPT !.cleanup = TRUE] \in Guards
    <3> HIDE DEF k
    <3> QED
      BY <2>1 DEF Guards
  <2>3. PICK next \in Working :
              task' = [task EXCEPT ![c] = [pc |-> next, call |-> call, want |-> want]]
    BY <1>3 DEF Call, Working, Resting
  <2>4. comp' \in Guards
    BY <1>3, <2>1, <2>2 DEF Call
  <2>5. task' \in [Coordinators -> Tasks]
    BY <1>1, <2>3 DEF TypeOK, Inside, Tasks, Places
  <2> QED
    BY <1>1, <2>4, <2>5 DEF Call, hooks, TypeOK, Inside
<1> QED
  BY <1>2, <1>3

\* What the coordinators keep has its type.
LEMMA InsideStays == Kept /\ [Next]_vars => Inside'
<1> SUFFICES ASSUME Kept, [Next]_vars PROVE Inside'
  OBVIOUS
<1>0. TypeOK
  BY DEF Kept
<1>1. ASSUME NEW n \in Instances, Save(n) PROVE Inside'
  BY <1>1, HasGuard DEF Save, InCharge, Kept, TypeOK, Inside, Guards, hooks
<1>2. ASSUME NEW w \in writes, Written(w) PROVE Inside'
  <2>1. w.by \in Instances /\ Saved(w.by) \in Contents
    BY <1>0, BoundAssumption DEF TypeOK, Outside, Contents, Saved, Instances
  <2>2. comp' \in Guards \cup {None}
    BY <1>0, <2>1, <1>2 DEF Written, Tracked, Guards, Phases, TypeOK, Inside
  <2> QED
    BY <1>0, <2>2, <1>2 DEF Written, TypeOK, Inside, hooks
<1>3. ASSUME NEW w \in writes, WriteFails(w) PROVE Inside'
  <2>2. comp' \in Guards \cup {None}
    BY <1>0, <1>3 DEF WriteFails, Tracked, Guards, Phases, TypeOK, Inside
  <2> QED
    BY <1>0, <2>2, <1>3 DEF WriteFails, TypeOK, Inside, hooks
<1>4. CASE WritePast
  BY <1>4, HasGuard DEF WritePast, Kept, TypeOK, Inside, hooks
<1>5. ASSUME NEW o \in ops, Disabled(o) PROVE Inside'
  BY <1>5, HasGuard DEF Disabled, OpFrame, Kept, TypeOK, Inside, hooks
<1>6. ASSUME NEW o \in ops, ManifestLoaded(o) PROVE Inside'
  BY <1>6, HasGuard DEF ManifestLoaded, OpFrame, Kept, TypeOK, Inside, hooks
<1>7. ASSUME NEW o \in ops, Loads(o) PROVE Inside'
  BY <1>7, HasGuard DEF Loads, OpFrame, Kept, TypeOK, Inside, Guards, hooks
<1>8. ASSUME NEW o \in ops, Enabled(o) PROVE Inside'
  BY <1>8, HasGuard DEF Enabled, OpFrame, Kept, TypeOK, Inside, hooks
<1>9. ASSUME NEW o \in ops, Vacates(o) PROVE Inside'
  <2>1. comp \in Guards
    BY HasGuard
  <2>2. [comp EXCEPT !.vacated = TRUE] \in Guards
    BY <2>1 DEF Guards
  <2> QED
    BY ONLY <1>0, <2>1, <2>2, <1>9 DEF Vacates, OpFrame, TypeOK, Inside, hooks
<1>10. ASSUME NEW o \in ops, PutsBack(o) PROVE Inside'
  BY <1>10, HasGuard DEF PutsBack, OpFrame, Kept, TypeOK, Inside, hooks
<1>11. CASE Dispose
  BY <1>11, HasGuard, RetiredGuard DEF Dispose, Kept, TypeOK, Inside
<1>12. CASE OthersSettle
  BY <1>0, <1>12 DEF OthersSettle, TypeOK, Inside
<1>13. CASE SecondStarts
  BY <1>13, GoesTo DEF SecondStarts, Kept, TypeOK, Inside, Places, Coordinators
<1>14. ASSUME NEW c \in Coordinators, Quiesce(c) PROVE Inside'
  <2>1. None \in Contents \cup {None}
    BY <1>0 DEF TypeOK, Outside, Contents, Incoming
  <2> QED
    BY <1>14, <2>1, CallTypes DEF Quiesce, Calls
<1>15. ASSUME NEW c \in Coordinators, Activate(c) PROVE Inside'
  <2>1. Incoming(code) \in Contents \cup {None}
    BY <1>0 DEF TypeOK, Outside, Contents, Incoming
  <2> QED
    BY <1>15, <2>1, CallTypes DEF Activate, Calls
<1>16. ASSUME NEW c \in Coordinators, Finish(c) PROVE Inside'
  <2>1. public \in Contents \cup {None}
    BY <1>0 DEF TypeOK, Outside, Contents, Incoming
  <2> QED
    BY <1>16, <2>1, CallTypes DEF Finish, Calls
<1>17. ASSUME NEW c \in Coordinators, Install(c) PROVE Inside'
  BY <1>17, GoesTo DEF Install, Kept, TypeOK, Inside, Places, hooks
<1>18. ASSUME NEW c \in Coordinators, Recover(c) PROVE Inside'
  <2>1. comp \in Guards
    BY <1>18, HasGuard DEF Recover, Is, Works, Working, Waiting, Resting
  <2>2. [comp EXCEPT !.pending = 0] \in Guards
    BY <2>1 DEF Guards
  <2>3. Retired([comp EXCEPT !.pending = 0]) \in Guards
    BY <1>0, <2>1, <2>2, RetiredGuard
  <2> QED
    BY ONLY <1>18, <2>1, <2>2, <2>3, <1>0, StartTypes, HeldTypes, GoesTo
       DEF Recover, TypeOK, Inside, Places, Working, Waiting, Resting
<1>19. ASSUME NEW c \in Coordinators, RecoverDisabled(c) PROVE Inside'
  <2>1. comp \in Guards
    BY <1>19, HasGuard DEF RecoverDisabled, Is, Works, Working, Waiting, Resting
  <2>2. [comp EXCEPT !.pending = 0] \in Guards
    BY <2>1 DEF Guards
  <2>3. Retired(comp) \in Guards
    BY <1>0, <2>1, <2>2, RetiredGuard
  <2> QED
    BY ONLY <1>19, <2>1, <2>2, <2>3, <1>0, HeldTypes, GoesTo
       DEF RecoverDisabled, TypeOK, Inside, Places, Working, Resting, hooks
<1>20. ASSUME NEW c \in Coordinators, RecoverDrained(c) PROVE Inside'
  <2>1. comp \in Guards
    BY <1>20, HasGuard DEF RecoverDrained, Is, Works, Working, Waiting, Resting
  <2>2. [comp EXCEPT !.needsRecovery = FALSE] \in Guards
    BY <2>1 DEF Guards
  <2> QED
    BY ONLY <1>20, <2>1, <2>2, <1>0, StartTypes, RecoveredTypes, HeldTypes
       DEF RecoverDrained, TypeOK, Inside, Places, Working, Waiting, hooks
<1>21. ASSUME NEW c \in Coordinators, RecoverRestored(c) PROVE Inside'
  <2>1. comp \in Guards
    BY <1>21, HasGuard DEF RecoverRestored, Is, Works, Working, Waiting, Resting
  <2>2. [comp EXCEPT !.pending = 0, !.needsRecovery = FALSE] \in Guards
    BY <2>1 DEF Guards
  <2>3. Retired(comp) \in Guards
    BY <1>0, <2>1, <2>2, RetiredGuard
  <2> QED
    BY ONLY <1>21, <2>1, <2>2, <2>3, <1>0, RecoveredTypes, HeldTypes DEF RecoverRestored
<1>22. ASSUME NEW c \in Coordinators, Unload(c) PROVE Inside'
  <2>1. comp \in Guards
    BY <1>22, HasGuard DEF Unload, Is, Works, Working, Waiting, Resting
  <2>2. [comp EXCEPT !.phase = "quiesced"] \in Guards
    BY <2>1 DEF Guards, Phases
  <2>3. NewGuard(c) \in Guards
    BY <1>0, <2>1, <2>2, FreshGuard
  <2>4. [NewGuard(c) EXCEPT !.phase = "quiesced"] \in Guards
    BY <2>1, <1>0, FreshGuard DEF Guards, Phases
  <2> QED
    BY ONLY <1>22, <2>1, <2>2, <2>3, <2>4, <1>0, StartTypes, GoesTo
       DEF Unload, TypeOK, Inside, Places, Working, Waiting, Resting
<1>23. ASSUME NEW c \in Coordinators, UnloadDisabled(c) PROVE Inside'
  <2>1. comp \in Guards
    BY <1>23, HasGuard DEF UnloadDisabled, Is, Works, Working, Waiting, Resting
  <2>2. [comp EXCEPT !.pending = 0] \in Guards
    BY <2>1 DEF Guards
  <2>3. Retired(comp) \in Guards
    BY <1>0, <2>1, <2>2, RetiredGuard, QuietGuard
  <2>4. Quiet(Retired(comp)) \in Guards
    BY <1>0, <2>1, <2>2, <2>3, RetiredGuard, QuietGuard
  <2> QED
    BY ONLY <1>23, <2>1, <2>2, <2>3, <2>4, <1>0, UnloadHeldTypes, GoesTo
       DEF UnloadDisabled, TypeOK, Inside, Places, Working, Resting, hooks
<1>24. ASSUME NEW c \in Coordinators, UnloadDrained(c) PROVE Inside'
  <2>1. comp \in Guards
    BY <1>24, HasGuard DEF UnloadDrained, Is, Works, Working, Waiting, Resting
  <2>2. [comp EXCEPT !.phase = "quiesced",
                    !.prior = IF comp.prior = None THEN Proof ELSE comp.prior] \in Guards
    BY <1>0, <2>1, ProofType DEF Guards, Phases
  <2>3. Quiet(comp) \in Guards
    BY <1>0, <2>1, <2>2, QuietGuard
  <2> QED
    BY ONLY <1>24, <2>1, <2>2, <2>3, <1>0, UnloadHeldTypes, EndTypes, GoesTo
       DEF UnloadDrained, TypeOK, Inside, Places, Working, Resting
<1>25. ASSUME NEW c \in Coordinators, Verify(c) PROVE Inside'
  <2>1. comp \in Guards
    BY <1>25, HasGuard DEF Verify, Is, Works, Working, Waiting, Resting
  <2> QED
    BY ONLY <1>25, <2>1, <1>0, StartTypes, FailsTypes
       DEF Verify, TypeOK, Inside, Places, Working, Waiting, hooks
<1>26. ASSUME NEW c \in Coordinators, ManifestRefreshed(c) PROVE Inside'
  <2>1. comp \in Guards
    BY <1>26, HasGuard DEF ManifestRefreshed, Is, Works, Working, Waiting, Resting
  <2>2. [comp EXCEPT !.pending = 0, !.phase = "loading",
                    !.expected = task[c].want] \in Guards
    BY <1>0, <2>1 DEF Guards, Phases, TypeOK, Outside, Inside, Tasks
  <2>3. Retired(comp) \in Guards
    BY <1>0, <2>1, <2>2, RetiredGuard
  <2> QED
    BY ONLY <1>26, <2>1, <2>2, <2>3, <1>0, FailsTypes, GoesTo
       DEF ManifestRefreshed, TypeOK, Inside, Places, Working, Resting, hooks
<1>27. ASSUME NEW c \in Coordinators, Protect(c) PROVE Inside'
  <2>1. comp \in Guards
    BY <1>27, HasGuard DEF Protect, Is, Works, Working, Waiting, Resting
  <2>2. [comp EXCEPT !.incoming = public, !.vacated = FALSE,
                    !.verified = None, !.writeFailed = FALSE] \in Guards
    BY <1>0, <2>1 DEF Guards, TypeOK, Outside, Inside, Tasks
  <2> QED
    BY ONLY <1>27, <2>1, <2>2, <1>0, FailsTypes, GoesTo
       DEF Protect, TypeOK, Inside, Places, Working, Resting, hooks
<1>28. ASSUME NEW c \in Coordinators, Load(c) PROVE Inside'
  <2>1. comp \in Guards
    BY <1>28, HasGuard DEF Load, Is, Works, Working, Waiting, Resting
  <2>2. [comp EXCEPT !.token = TRUE, !.activationFailed = FALSE] \in Guards
    BY <2>1 DEF Guards
  <2> QED
    BY ONLY <1>28, <2>1, <2>2, <1>0, FailsTypes, StartTypes
       DEF Load, TypeOK, Inside, Places, Working, Waiting, hooks
<1>29. ASSUME NEW c \in Coordinators, Loaded(c) PROVE Inside'
  <2>1. comp \in Guards
    BY <1>29, HasGuard DEF Loaded, Is, Works, Working, Waiting, Resting
  <2>2. [comp EXCEPT !.pending = 0] \in Guards
    BY <2>1 DEF Guards
  <2>3. Retired(comp) \in Guards
    BY <1>0, <2>1, <2>2, RetiredGuard
  <2> QED
    BY ONLY <1>29, <2>1, <2>2, <2>3, <1>0, FailsTypes, GoesTo
       DEF Loaded, TypeOK, Inside, Places, Working, Resting, hooks
<1>30. ASSUME NEW c \in Coordinators, Check(c) PROVE Inside'
  <2>1. comp \in Guards
    BY <1>30, HasGuard DEF Check, Is, Works, Working, Waiting, Resting
  <2>2. running \in comp.approved =>
            [comp EXCEPT !.approved = comp.approved \cup {running}, !.token = FALSE,
                         !.phase = "active", !.activated = TRUE, !.busy = FALSE] \in Guards
    BY <2>1 DEF Guards, Phases
  <2> QED
    BY ONLY <1>30, <2>1, <2>2, <1>0, FailsTypes, GoesTo
       DEF Check, Acknowledge, TypeOK, Inside, Places
<1>31. CASE UNCHANGED vars
  BY <1>31, HasGuard DEF vars, Kept, TypeOK, Inside, hooks, vars
<1> QED
  BY ONLY [Next]_vars, <1>1, <1>2, <1>3, <1>4, <1>5, <1>6, <1>7, <1>8, <1>9, <1>10, <1>11,
     <1>12, <1>13, <1>14, <1>15, <1>16, <1>17, <1>18, <1>19, <1>20, <1>21, <1>22, <1>23, <1>24,
     <1>25, <1>26, <1>27, <1>28, <1>29, <1>30, <1>31
     DEF Next, Coordinator, Operation

\* A call changes nothing outside.
LEMMA Calling ==
    \A c, call, want : Call(c, call, want) => Still /\ UNCHANGED <<hooks, count>>
BY DEF Call

\* What the host and the plugin keep has its type.
LEMMA OutsideStays == Kept /\ [Next]_vars => Outside'
<1> SUFFICES ASSUME Kept, [Next]_vars PROVE Outside'
  OBVIOUS
<1>0. TypeOK
  BY DEF Kept
<1>1. ASSUME NEW n \in Instances, Save(n) PROVE Outside'
  <2>1. Saved(n) \in Contents
    BY BoundAssumption DEF Saved, Contents, Instances
  <2>2. [by |-> n, guarded |-> InCharge(n)] \in [by : Instances, guarded : BOOLEAN]
    BY DEF InCharge
  <2> QED
    BY ONLY <1>1, <2>1, <2>2, <1>0, CountsUp DEF Save, TypeOK, Outside, manager, hooks
<1>2. ASSUME NEW w \in writes, Written(w) PROVE Outside'
  <2>1. w.by \in Instances /\ Saved(w.by) \in Contents
    BY <1>0, BoundAssumption DEF TypeOK, Outside, Contents, Saved, Instances
  <2> QED
    BY ONLY <1>2, <2>1, <1>0 DEF Written, TypeOK, Outside, manager, hooks
<1>3. ASSUME NEW w \in writes, WriteFails(w) PROVE Outside'
  BY ONLY <1>3, <1>0, CountsUp DEF WriteFails, TypeOK, Outside, manager, hooks, files
<1>4. CASE WritePast
  BY ONLY <1>4, <1>0, CountsUp DEF WritePast, Bypass, Contents, TypeOK, Outside, manager, hooks
<1>5. ASSUME NEW o \in ops, Disabled(o) PROVE Outside'
  BY ONLY <1>5, <1>0, CountsUp DEF Disabled, Ends, OpFrame, TypeOK, Outside, hooks, files
<1>6. ASSUME NEW o \in ops, ManifestLoaded(o) PROVE Outside'
  BY <1>0, <1>6 DEF ManifestLoaded, Ends, OpFrame, TypeOK, Outside, files, hooks
<1>7. ASSUME NEW o \in ops, Loads(o) PROVE Outside'
  <2>1. \A n \in Instances : [loaded EXCEPT ![n] = Proof] \in [Instances -> Packages \cup {None}]
    BY <1>0, ProofType DEF TypeOK, Outside
  <2>2. \A n \in Instances : [loaded EXCEPT ![n] = [code |-> code, data |-> None]]
                                \in [Instances -> Packages \cup {None}]
    BY <1>0 DEF TypeOK, Outside, Packages
  <2>3. [o EXCEPT !.step = 1] \in Ops
    BY <1>0 DEF TypeOK, Outside, Ops
  <2> QED
    BY ONLY <1>7, <2>1, <2>2, <2>3, <1>0 DEF Loads, OpFrame, TypeOK, Outside, files, hooks
<1>8. ASSUME NEW o \in ops, Enabled(o) PROVE Outside'
  BY <1>0, <1>8 DEF Enabled, Ends, OpFrame, TypeOK, Outside, files, hooks
<1>9. ASSUME NEW o \in ops, Vacates(o) PROVE Outside'
  <2>1. [o EXCEPT !.step = 1] \in Ops
    BY <1>0 DEF TypeOK, Outside, Ops
  <2> QED
    BY ONLY <1>9, <2>1, <1>0 DEF Vacates, Ends, OpFrame, TypeOK, Outside, hooks
<1>10. ASSUME NEW o \in ops, PutsBack(o) PROVE Outside'
  <2>1. comp.incoming \in Contents \cup {None}
    BY HasGuard DEF Guards
  <2> QED
    BY ONLY <1>10, <2>1, <1>0 DEF PutsBack, Ends, OpFrame, TypeOK, Outside, hooks
<1>11. CASE Dispose
  BY <1>0, <1>11 DEF Dispose, TypeOK, Outside, files, manager
<1>12. CASE OthersSettle
  BY <1>0, <1>12 DEF OthersSettle, TypeOK, Outside, files, manager
<1>13. CASE SecondStarts
  BY <1>0, <1>13 DEF SecondStarts, TypeOK, Outside, files, manager
<1>14. ASSUME NEW c \in Coordinators, Quiesce(c) PROVE Outside'
  BY ONLY <1>0, <1>14, Calling DEF Quiesce, Still, hooks, TypeOK, Outside, files
<1>15. ASSUME NEW c \in Coordinators, Activate(c) PROVE Outside'
  BY ONLY <1>0, <1>15, Calling DEF Activate, Still, hooks, TypeOK, Outside, files
<1>16. ASSUME NEW c \in Coordinators, Finish(c) PROVE Outside'
  BY ONLY <1>0, <1>16, Calling DEF Finish, Still, hooks, TypeOK, Outside, files
<1>17. ASSUME NEW c \in Coordinators, Install(c) PROVE Outside'
  BY <1>0, <1>17 DEF Install, Incoming, TypeOK, Outside, manager, hooks, files, Contents
<1>18. ASSUME NEW c \in Coordinators, Recover(c) PROVE Outside'
  <2>1. comp \in Guards /\ comp.owner \in Coordinators
    BY <1>18, HasGuard DEF Recover, Is, Works, Working, Waiting, Resting, Guards
  <2>2. [comp EXCEPT !.pending = 0] \in Guards
    BY <2>1, <1>0 DEF Guards, Phases
  <2>3. Retired([comp EXCEPT !.pending = 0]) \in Guards
    BY <2>2, <2>1, <1>0, RetiredGuard DEF Guards, Phases
  <2> QED
    BY ONLY <1>18, <2>3, <2>2, <2>1, <1>0, StartTypes, CountsUp
       DEF Recover, manager, TypeOK, Outside, files, Places, Working, Waiting
<1>19. ASSUME NEW c \in Coordinators, RecoverDisabled(c) PROVE Outside'
  BY ONLY <1>19, <1>0, CountsUp DEF RecoverDisabled, GivesUp, Still, hooks, TypeOK, Outside, files
<1>20. ASSUME NEW c \in Coordinators, RecoverDrained(c) PROVE Outside'
  <2>1. comp \in Guards /\ comp.owner \in Coordinators
    BY <1>20, HasGuard DEF RecoverDrained, Is, Works, Working, Waiting, Resting, Guards
  <2> QED
    BY ONLY <1>20, <2>1, <1>0, StartTypes, CountsUp, FenceStays
       DEF RecoverDrained, DrainFails, manager, hooks, TypeOK, Outside, files, Places, Working,
           Waiting
<1>21. ASSUME NEW c \in Coordinators, RecoverRestored(c) PROVE Outside'
  BY ONLY <1>21, <1>0, CountsUp, FenceStays
     DEF RecoverRestored, GivesUp, Still, hooks, TypeOK, Outside, files
<1>22. ASSUME NEW c \in Coordinators, Unload(c) PROVE Outside'
  <2>1. comp \in Guards /\ comp.owner \in Coordinators
    BY <1>22, HasGuard DEF Unload, Is, Works, Working, Waiting, Resting, Guards
  <2>2. [comp EXCEPT !.phase = "quiesced"] \in Guards
    BY <2>1, <1>0 DEF Guards, Phases
  <2>3. NewGuard(c) \in Guards
    BY <2>2, <2>1, <1>0, FreshGuard DEF Guards, Phases
  <2>4. [NewGuard(c) EXCEPT !.phase = "quiesced"] \in Guards
    BY <2>3, <2>2, <2>1, <1>0, FreshGuard DEF Guards, Phases
  <2> QED
    BY ONLY <1>22, <2>4, <2>3, <2>2, <2>1, <1>0, StartTypes, CountsUp
       DEF Unload, manager, TypeOK, Outside, files, Places, Working, Waiting
<1>23. ASSUME NEW c \in Coordinators, UnloadDisabled(c) PROVE Outside'
  BY ONLY <1>23, <1>0, CountsUp, FenceStays
     DEF UnloadDisabled, GivesUp, Still, hooks, TypeOK, Outside, files
<1>24. ASSUME NEW c \in Coordinators, UnloadDrained(c) PROVE Outside'
  BY ONLY <1>24, <1>0, CountsUp, FenceStays
     DEF UnloadDrained, Drained, DrainFails, Still, TypeOK, Outside, files
<1>25. ASSUME NEW c \in Coordinators, Verify(c) PROVE Outside'
  <2>1. comp \in Guards /\ comp.owner \in Coordinators
    BY <1>25, HasGuard DEF Verify, Is, Works, Working, Waiting, Resting, Guards
  <2> QED
    BY ONLY <1>25, <2>1, <1>0, StartTypes, CountsUp, FenceStays
       DEF Verify, manager, hooks, TypeOK, Outside, files, Places, Working, Waiting
<1>26. ASSUME NEW c \in Coordinators, ManifestRefreshed(c) PROVE Outside'
  BY ONLY <1>26, <1>0, CountsUp, FenceStays
     DEF ManifestRefreshed, GivesUp, Still, hooks, TypeOK, Outside, files
<1>27. ASSUME NEW c \in Coordinators, Protect(c) PROVE Outside'
  BY ONLY <1>27, <1>0, CountsUp, FenceStays DEF Protect, Still, hooks, TypeOK, Outside, files
<1>28. ASSUME NEW c \in Coordinators, Load(c) PROVE Outside'
  <2>1. comp \in Guards /\ comp.owner \in Coordinators
    BY <1>28, HasGuard DEF Load, Is, Works, Working, Waiting, Resting, Guards
  <2>2. [comp EXCEPT !.token = TRUE, !.activationFailed = FALSE] \in Guards
    BY <2>1, <1>0 DEF Guards, Phases
  <2> QED
    BY ONLY <1>28, <2>2, <2>1, <1>0, StartTypes, CountsUp, FenceStays
       DEF Load, manager, hooks, TypeOK, Outside, files, Places, Working, Waiting
<1>29. ASSUME NEW c \in Coordinators, Loaded(c) PROVE Outside'
  BY ONLY <1>29, <1>0, CountsUp, FenceStays
     DEF Loaded, GivesUp, Still, hooks, TypeOK, Outside, files
<1>30. ASSUME NEW c \in Coordinators, Check(c) PROVE Outside'
  BY ONLY <1>30, <1>0, CountsUp, FenceStays
     DEF Check, Acknowledge, Drained, DrainFails, Still, TypeOK, Outside, files
<1>31. CASE UNCHANGED vars
  BY <1>0, <1>31 DEF vars, TypeOK, Outside, files, manager, hooks, vars
<1> QED
  BY ONLY [Next]_vars, <1>1, <1>2, <1>3, <1>4, <1>5, <1>6, <1>7, <1>8, <1>9, <1>10, <1>11,
     <1>12, <1>13, <1>14, <1>15, <1>16, <1>17, <1>18, <1>19, <1>20, <1>21, <1>22, <1>23, <1>24,
     <1>25, <1>26, <1>27, <1>28, <1>29, <1>30, <1>31
     DEF Next, Coordinator, Operation

\* Types together.
LEMMA TypesStay == Kept /\ [Next]_vars => TypeOK'
BY InsideStays, OutsideStays DEF TypeOK

-----------------------------------------------------------------------------
(* How a step of a coordinator at work leaves the component                 *)

Steady == UNCHANGED <<code, running, loaded, ops, closed>>

\* What a guard vouches for depends on the host's state only.
LEMMA SoundStays == \A k : Sound(k) /\ UNCHANGED <<code, running, loaded, ops>> => Sound(k)'
BY DEF Sound, Current

\* It goes on with the guard k.
LEMMA GoesOn ==
    ASSUME Kept, TypeOK', Steady, NEW c \in Coordinators, Works(c),
           NEW k \in Guards, comp' = k, Sound(k),
           task'[c].pc \in Working, Placed(c, task'[c], k),
           \A d \in Coordinators : d # c => task'[d] = task[d]
    PROVE  Kept'
<1>1. comp \in Guards /\ comp.busy
  BY HasGuard, NoneAssumption DEF Kept, InHand, Placed
<1>2. \A d \in Coordinators : d # c => ~Works(d) /\ ~Works(d)'
  BY DEF Kept, Alone, Works
<1>3. Alone'
  BY <1>2 DEF Kept, Alone, Works, Steady, Coordinators, Working, Waiting, Resting
<1>4. RunningCurrent' /\ OneOperation'
  BY DEF Kept, RunningCurrent, Current, OneOperation, Steady
<1>5. InHand'
  <2>1. Sound(k)'
    BY SoundStays DEF Steady
  <2> QED
    BY <2>1, <1>2, NoneAssumption DEF InHand, Works
<1>6. Vacant'
  BY <1>1, NoneAssumption DEF Kept, Vacant, Steady, Working, Waiting, Resting
<1> QED
  BY <1>3, <1>4, <1>5, <1>6 DEF Kept

\* It leaves the guard k free, or drops the component.
LEMMA Rests ==
    ASSUME Kept, TypeOK', Steady, NEW c \in Coordinators, Works(c),
           task'[c].pc = "idle", \A d \in Coordinators : d # c => task'[d] = task[d],
           \/ comp' = None /\ ops = {}
           \/ comp' \in Guards /\ Sound(comp)' /\ Free(comp)'
    PROVE  Kept'
<1>1. comp \in Guards /\ comp.busy
  BY HasGuard, NoneAssumption DEF Kept, InHand, Placed
<1>2. \A d \in Coordinators : ~Works(d)'
  BY DEF Kept, Alone, Works, Working, Waiting, Resting
<1>3. Alone'
  BY <1>2 DEF Kept, Alone, Works, Steady, Coordinators, Working, Waiting, Resting
<1>4. RunningCurrent' /\ OneOperation'
  BY DEF Kept, RunningCurrent, Current, OneOperation, Steady
<1>5. InHand'
  BY <1>2, NoneAssumption DEF InHand, Steady
<1>6. Vacant'
  BY <1>1, NoneAssumption DEF Kept, Vacant, Steady, Working, Waiting, Resting
<1> QED
  BY <1>3, <1>4, <1>5, <1>6 DEF Kept

\* A guard that may be left free.
Loose(k) == k \in Guards /\ Sound(k) /\ ~k.token /\ k.approved = {}

\* The invariant at the ends of a step, one lemma for each end.
LEMMA EndRests ==
    ASSUME Kept, TypeOK', UNCHANGED <<code, running, loaded, ops>>,
           NEW c \in Coordinators, Works(c), NEW k, Loose(k), End(k), Go(c, "idle")
    PROVE  Kept'
<1>1. /\ task'[c].pc = "idle"
      /\ \A d \in Coordinators : d # c => task'[d] = task[d]
  BY GoesTo DEF Kept, Places
<1>2. Steady /\ closed' = closed
  BY DEF Steady, End
<1>3. CASE k.owner \in closed /\ k.pending = 0 /\ ~k.needsRecovery
  <2>1. ops = {}
    BY <1>3 DEF Loose, Sound, Kept, OneOperation
  <2>2. comp' = None
    BY <1>3 DEF End
  <2> QED
    BY <1>1, <1>2, <2>1, <2>2, Rests
<1>4. CASE ~(k.owner \in closed /\ k.pending = 0 /\ ~k.needsRecovery)
  <2> DEFINE m == [k EXCEPT !.busy = FALSE]
  <2>1. comp' = m
    BY <1>4 DEF End
  <2>2. /\ m \in Guards /\ ~m.busy /\ m.token = k.token /\ m.approved = k.approved
        /\ m.owner = k.owner /\ m.pending = k.pending /\ m.needsRecovery = k.needsRecovery
        /\ m.phase = k.phase /\ m.tracked = k.tracked /\ m.previous = k.previous
        /\ m.expected = k.expected
    BY DEF Loose, Guards
  <2> HIDE DEF m
  <2>3. Sound(m)
    BY <2>2 DEF Loose, Sound
  <2>4. Sound(m)'
    BY <2>3, SoundStays
  <2>5. Free(m)'
    BY <2>2, <1>2, <1>4 DEF Free, Loose
  <2> QED
    BY <1>1, <1>2, <2>1, <2>2, <2>4, <2>5, Rests
<1> QED
  BY <1>3, <1>4

\* A step that finds the component held.
LEMMA HeldRests ==
    ASSUME Kept, TypeOK', UNCHANGED <<code, running, loaded, ops>>,
           NEW c \in Coordinators, Works(c), NEW k, Loose(k), Held(c, k)
    PROVE  Kept'
BY EndRests DEF Held

\* A guard that was sound may be let go once it is retired.
LEMMA RetiredLoose ==
    ASSUME NEW k \in Guards, Sound(k)
    PROVE  Loose(Retired(k)) /\ Loose(Quiet(k))
BY RetiredGuard, QuietGuard DEF Loose, Sound

\* It begins to recover from the attempt that failed.
LEMMA RecoversNext ==
    ASSUME Kept, TypeOK', Steady, NEW c \in Coordinators, Works(c),
           NEW k, Loose(k), k.busy, k.owner = c, comp' = k,
           task' = [task EXCEPT ![c] = [@ EXCEPT !.pc = "recover", !.call = "failed"]]
    PROVE  Kept'
<1>1. /\ task'[c].pc = "recover" /\ task'[c].call = "failed"
      /\ \A d \in Coordinators : d # c => task'[d] = task[d]
  BY GoesToRecover DEF Kept
<1>2. Placed(c, task'[c], k)
  BY <1>1 DEF Placed, Loose, Waiting, Resting
<1> QED
  BY <1>1, <1>2, GoesOn DEF Loose, Working

\* A step that fails.
LEMMA FailsRests ==
    ASSUME Kept, TypeOK', UNCHANGED <<code, running, loaded, ops>>,
           NEW c \in Coordinators, Works(c), NEW k \in Guards, Sound(k), k.busy, k.owner = c,
           NEW loading \in BOOLEAN, ~loading /\ ~k.needsRecovery => Loose(k),
           Fails(c, k, loading)
    PROVE  Kept'
<1> DEFINE m == Retired(k)
           r == [m EXCEPT !.activationFailed = @ \/ loading]
<1>1. m \in Guards /\ Loose(m) /\ m.busy /\ m.owner = c
  BY RetiredGuard, RetiredLoose
<1>2. \/ Held(c, k) /\ Loose(k)
      \/ Held(c, r)
      \/ /\ comp' = r /\ UNCHANGED hooks
         /\ task' = [task EXCEPT ![c] = [@ EXCEPT !.pc = "recover", !.call = "failed"]]
  BY DEF Fails
<1> HIDE DEF m
<1>3. /\ r \in Guards /\ r.busy /\ r.owner = c /\ r.token = m.token /\ r.approved = m.approved
      /\ r.pending = m.pending /\ r.phase = m.phase /\ r.previous = m.previous
      /\ r.tracked = m.tracked /\ r.expected = m.expected
  BY <1>1 DEF Guards
<1> HIDE DEF r
<1>4. Loose(r)
  BY <1>1, <1>3 DEF Loose, Sound
<1> QED
  BY <1>2, <1>3, <1>4, HeldRests, RecoversNext DEF Steady, hooks

\* The end of a recovery.
LEMMA RecoveredRests ==
    ASSUME Kept, TypeOK', UNCHANGED <<code, running, loaded, ops>>,
           NEW c \in Coordinators, Works(c), NEW k, Loose(k), k.busy,
           k.pending = 0, k.phase = "quiesced", k.owner = comp.owner, Recovered(c, k)
    PROVE  Kept'
<1>1. End(k) /\ Go(c, "idle") => Kept'
  BY EndRests
<1>2. Held(c, k) => Kept'
  BY HeldRests
<1>3. ASSUME comp.owner = c, task[c].call # "failed", comp' = k, UNCHANGED hooks,
             NEW pc \in {"unload", "verify"}, Go(c, pc)
      PROVE  Kept'
  <2>1. /\ task'[c].pc = pc /\ task'[c].call # "failed"
        /\ \A d \in Coordinators : d # c => task'[d] = task[d]
    BY <1>3, GoesTo DEF Kept, Places, Working, Resting
  <2>2. Placed(c, task'[c], k)
    BY <1>3, <2>1 DEF Placed, Loose, Waiting, Resting
  <2> QED
    BY <1>3, <2>1, <2>2, GoesOn DEF Loose, Steady, hooks, Working, Resting
<1> QED
  BY <1>1, <1>2, <1>3 DEF Recovered

\* An unload that is given up.
LEMMA UnloadHeldRests ==
    ASSUME Kept, TypeOK', UNCHANGED <<code, running, loaded, ops>>,
           NEW c \in Coordinators, Works(c), NEW k, Loose(k), k.busy, k.owner = c,
           UnloadHeld(c, k)
    PROVE  Kept'
<1>1. ASSUME Settled(k.pending), comp' = None, Go(c, "idle"), closed' = closed
      PROVE  Kept'
  <2>1. ops = {}
    BY <1>1 DEF Settled, Loose, Sound
  <2>2. /\ task'[c].pc = "idle"
        /\ \A d \in Coordinators : d # c => task'[d] = task[d]
    BY <1>1, GoesTo DEF Kept, Places
  <2> QED
    BY <1>1, <2>1, <2>2, Rests DEF Steady
<1>2. ASSUME comp' = Retired(k), closed' = closed,
             task' = [task EXCEPT ![c] = [@ EXCEPT !.pc = "recover", !.call = "failed"]]
      PROVE  Kept'
  <2> DEFINE m == Retired(k)
  <2>1. Loose(m) /\ m.busy /\ m.owner = c /\ comp' = m
    BY <1>2, RetiredGuard, RetiredLoose DEF Loose
  <2> HIDE DEF m
  <2> QED
    BY <1>2, <2>1, RecoversNext DEF Steady
<1>3. Held(c, k) => Kept'
  BY HeldRests
<1> QED
  BY <1>1, <1>2, <1>3 DEF UnloadHeld

\* Nothing is under way while a coordinator works and waits for nothing.
LEMMA NothingUnderWay ==
    ASSUME Kept
    PROVE  /\ \A c \in Coordinators : task[c].pc \in Resting => ops = {}
           /\ \A c \in Coordinators : Works(c) /\ Settled(comp.pending) => ops = {}
BY HasGuard, NoneAssumption DEF Kept, InHand, Placed, Sound, OneOperation, Works, Working, Settled

\* It starts an operation and waits for it.
LEMMA StartWaits ==
    ASSUME Kept, TypeOK', UNCHANGED <<code, closed>>, NEW c \in Coordinators, Works(c), ops = {},
           NEW k \in Guards, Sound(k), k.busy, k.approved = {}, k.phase # "active",
           NEW kind, NEW pc \in Waiting, k.token => pc = "load",
           k.owner # c => pc \in {"r_disable", "r_restore"} /\ task[c].call # "failed",
           pc \in {"r_disable", "r_restore", "manifest"} => k.phase = "quiesced",
           Start(c, k, kind, pc)
    PROVE  Kept'
<1>1. count.ops \in Nat
  BY DEF Kept, TypeOK, Outside, Counts
<1>0. PICK m : m = [k EXCEPT !.pending = count.ops + 1]
  OBVIOUS
<1>2. /\ m \in Guards /\ m.pending = count.ops + 1 /\ m.busy /\ m.approved = {}
      /\ m.phase = k.phase /\ m.owner = k.owner /\ m.token = k.token /\ m.tracked = k.tracked
      /\ m.previous = k.previous /\ m.expected = k.expected
  BY <1>0, <1>1 DEF Guards
<1>3. /\ comp' = m /\ ops' = {[id |-> count.ops + 1, kind |-> kind, step |-> 0]}
      /\ running' = running /\ loaded' = loaded
  BY <1>0 DEF Start
<1>4. /\ task'[c].pc = pc /\ task'[c].call = task[c].call
      /\ \A d \in Coordinators : d # c => task'[d] = task[d]
  BY GoesTo DEF Start, Kept, Places, Working
<1>5. comp \in Guards /\ comp.busy
  BY HasGuard, NoneAssumption DEF Kept, InHand, Placed
<1>6. \A d \in Coordinators : d # c => ~Works(d) /\ ~Works(d)'
  BY <1>4 DEF Kept, Alone, Works
<1>7. Alone'
  BY <1>4, <1>6 DEF Kept, Alone, Works, Coordinators, Working, Waiting, Resting
<1>8. RunningCurrent' /\ OneOperation'
  BY <1>1, <1>3 DEF Kept, RunningCurrent, Current, OneOperation
<1>9. Sound(m)'
  BY <1>2, <1>3 DEF Sound, Current
<1>10. Placed(c, task'[c], m)
  BY <1>1, <1>2, <1>4 DEF Placed, Waiting, Resting
<1>11. InHand'
  <2>1. m # None /\ comp' = m
    BY <1>2, <1>3, NoneAssumption
  <2>2. \A d \in Coordinators : Works(d)' => Placed(d, task'[d], m)
    BY <1>6, <1>10
  <2>3. Works(c)'
    BY <1>4 DEF Works, Working
  <2> QED
    BY <1>9, <2>1, <2>2, <2>3 DEF InHand
<1>12. Vacant'
  BY <1>4, <1>5, NoneAssumption DEF Kept, Vacant, Waiting
<1> QED
  BY <1>7, <1>8, <1>11, <1>12 DEF Kept

-----------------------------------------------------------------------------
(* The steps of a coordinator at work                                       *)

\* What a coordinator at work may rely on.
LEMMA AtWork ==
    ASSUME Kept, NEW c \in Coordinators, Works(c)
    PROVE  /\ comp \in Guards /\ Sound(comp) /\ Placed(c, task[c], comp)
           /\ \A d \in Coordinators : d # c => ~Works(d)
BY HasGuard, NoneAssumption DEF Kept, InHand, Alone

\* Recovery: it begins,
LEMMA RecoverKeeps == ASSUME Kept, TypeOK', NEW c \in Coordinators, Recover(c) PROVE Kept'
<1>1. task[c].pc = "recover" /\ Works(c)
  BY DEF Recover, Is, Works, Working
<1>2. comp \in Guards /\ Sound(comp) /\ Placed(c, task[c], comp)
  BY <1>1, AtWork
<1>3. CASE ~Settled(comp.pending)
  <2>1. Loose(comp)
    BY <1>1, <1>2, <1>3 DEF Placed, Loose, Sound, Kept, OneOperation, Settled
  <2> QED
    BY <1>1, <1>3, <2>1, HeldRests DEF Recover, manager, files
<1>4. CASE Settled(comp.pending)
  <2>1. ops = {}
    BY <1>1, <1>4, NothingUnderWay
  <2> DEFINE m == [comp EXCEPT !.pending = 0]
             k == Retired(m)
  <2>2. m \in Guards /\ m.pending = 0 /\ m.busy /\ m.owner = comp.owner /\ m.tracked = comp.tracked
    BY <1>2 DEF Guards, Placed
  <2> HIDE DEF m
  <2>3. /\ k \in Guards /\ k.pending = 0 /\ k.busy /\ k.owner = comp.owner
        /\ k.phase = "quiesced" /\ k.approved = {} /\ ~k.token /\ k.tracked = comp.tracked
    BY <2>2, RetiredGuard
  <2>4. \/ comp' = k /\ Go(c, "r_drain") /\ UNCHANGED manager
        \/ Start(c, k, "disable", "r_disable")
    BY <1>4 DEF Recover, m
  <2>5. UNCHANGED <<code, closed>>
    BY <1>4 DEF Recover, files
  <2> HIDE DEF k
  <2>6. Sound(k)
    BY <1>2, <2>1, <2>3 DEF Sound
  <2>7. task[c].call = "failed" => k.owner = c
    BY <1>2, <2>3 DEF Placed
  <2>8. CASE comp' = k /\ Go(c, "r_drain") /\ UNCHANGED manager
    <3>1. /\ task'[c].pc = "r_drain" /\ task'[c].call = task[c].call
          /\ \A d \in Coordinators : d # c => task'[d] = task[d]
      BY <2>8, GoesTo DEF Kept, Places, Working, Resting
    <3>2. Placed(c, task'[c], k)
      BY <2>3, <2>7, <3>1 DEF Placed, Waiting, Resting
    <3> QED
      BY <1>1, <2>3, <2>5, <2>6, <2>8, <3>1, <3>2, GoesOn DEF Steady, manager, Working, Resting
  <2>9. CASE Start(c, k, "disable", "r_disable")
    BY <1>1, <2>1, <2>3, <2>5, <2>6, <2>7, <2>9, StartWaits DEF Waiting
  <2> QED
    BY <2>4, <2>8, <2>9
<1> QED
  BY <1>3, <1>4

\* the plugin is disabled,
LEMMA RecoverDisabledKeeps ==
    ASSUME Kept, TypeOK', NEW c \in Coordinators, RecoverDisabled(c) PROVE Kept'
<1>1. task[c].pc = "r_disable" /\ Works(c)
  BY DEF RecoverDisabled, Is, Works, Working, Waiting
<1>2. comp \in Guards /\ Sound(comp) /\ Placed(c, task[c], comp)
  BY <1>1, AtWork
<1>3. UNCHANGED <<code, running, loaded, ops>>
  BY DEF RecoverDisabled, Still, files
<1>4. CASE Held(c, Retired(comp))
  BY <1>1, <1>2, <1>3, <1>4, HeldRests, RetiredLoose
<1>5. CASE Answered /\ comp' = [comp EXCEPT !.pending = 0] /\ Go(c, "r_drain") /\ UNCHANGED hooks
  <2>1. ops = {}
    BY <1>1, <1>5, NothingUnderWay DEF Answered
  <2> DEFINE k == [comp EXCEPT !.pending = 0]
  <2>2. /\ k \in Guards /\ k.pending = 0 /\ k.busy /\ k.owner = comp.owner
        /\ k.phase = "quiesced" /\ k.approved = {} /\ ~k.token /\ k.tracked = comp.tracked
    BY <1>1, <1>2 DEF Guards, Placed
  <2>3. comp' = k
    BY <1>5
  <2> HIDE DEF k
  <2>4. Sound(k)
    BY <1>2, <2>1, <2>2 DEF Sound
  <2>5. /\ task'[c].pc = "r_drain" /\ task'[c].call = task[c].call
        /\ \A d \in Coordinators : d # c => task'[d] = task[d]
    BY <1>5, GoesTo DEF Kept, Places, Working, Resting
  <2>6. Placed(c, task'[c], k)
    BY <1>2, <2>2, <2>5 DEF Placed, Waiting, Resting
  <2> QED
    BY <1>1, <1>3, <1>5, <2>2, <2>3, <2>4, <2>5, <2>6, GoesOn DEF Steady, hooks, Working, Resting
<1> QED
  BY <1>4, <1>5 DEF RecoverDisabled

\* its writes have drained,
LEMMA RecoverDrainedKeeps ==
    ASSUME Kept, TypeOK', NEW c \in Coordinators, RecoverDrained(c) PROVE Kept'
<1>1. task[c].pc = "r_drain" /\ Works(c)
  BY DEF RecoverDrained, Is, Works, Working, Resting
<1>2. comp \in Guards /\ Sound(comp) /\ Placed(c, task[c], comp)
  BY <1>1, AtWork
<1>3. comp.phase = "quiesced" /\ comp.pending = 0 /\ comp.busy /\ Loose(comp) /\ ops = {}
  BY <1>1, <1>2, NothingUnderWay DEF Placed, Loose, Resting
<1>4. CASE Held(c, comp) /\ UNCHANGED manager
  BY <1>1, <1>3, <1>4, HeldRests DEF RecoverDrained, files, manager
<1>5. CASE Recovered(c, [comp EXCEPT !.needsRecovery = FALSE]) /\ UNCHANGED manager
  <2> DEFINE k == [comp EXCEPT !.needsRecovery = FALSE]
  <2>1. /\ k \in Guards /\ k.pending = 0 /\ k.busy /\ k.owner = comp.owner
        /\ k.phase = "quiesced" /\ k.approved = {} /\ ~k.token /\ k.tracked = comp.tracked
    BY <1>2, <1>3 DEF Guards, Loose
  <2>2. Recovered(c, k)
    BY <1>5
  <2> HIDE DEF k
  <2>3. Loose(k)
    BY <1>2, <1>3, <2>1 DEF Sound, Loose
  <2> QED
    BY <1>1, <1>5, <2>1, <2>2, <2>3, RecoveredRests DEF RecoverDrained, files, manager
<1>6. CASE Start(c, comp, "restore", "r_restore") /\ UNCHANGED hooks
  <2>1. comp.owner # c => task[c].call # "failed"
    BY <1>2 DEF Placed
  <2> QED
    BY <1>1, <1>2, <1>3, <1>6, <2>1, StartWaits DEF RecoverDrained, files, hooks, Loose, Waiting
<1> QED
  BY <1>4, <1>5, <1>6 DEF RecoverDrained, manager

\* the incoming settings are back.
LEMMA RecoverRestoredKeeps ==
    ASSUME Kept, TypeOK', NEW c \in Coordinators, RecoverRestored(c) PROVE Kept'
<1>1. task[c].pc = "r_restore" /\ Works(c)
  BY DEF RecoverRestored, Is, Works, Working, Waiting
<1>2. comp \in Guards /\ Sound(comp) /\ Placed(c, task[c], comp)
  BY <1>1, AtWork
<1>3. UNCHANGED <<code, running, loaded, ops>>
  BY DEF RecoverRestored, Still, files
<1>4. CASE Held(c, Retired(comp))
  BY <1>1, <1>2, <1>3, <1>4, HeldRests, RetiredLoose
<1>5. CASE Answered /\ Recovered(c, [comp EXCEPT !.pending = 0, !.needsRecovery = FALSE])
  <2>1. ops = {}
    BY <1>1, <1>5, NothingUnderWay DEF Answered
  <2> DEFINE k == [comp EXCEPT !.pending = 0, !.needsRecovery = FALSE]
  <2>2. /\ k \in Guards /\ k.pending = 0 /\ k.busy /\ k.owner = comp.owner
        /\ k.phase = "quiesced" /\ k.approved = {} /\ ~k.token /\ k.tracked = comp.tracked
    BY <1>1, <1>2 DEF Guards, Placed
  <2>3. Recovered(c, k)
    BY <1>5
  <2> HIDE DEF k
  <2>4. Loose(k)
    BY <1>2, <2>1, <2>2 DEF Sound, Loose
  <2> QED
    BY <1>1, <1>3, <2>2, <2>3, <2>4, RecoveredRests
<1> QED
  BY <1>4, <1>5 DEF RecoverRestored

\* Unloading: it begins,
LEMMA UnloadKeeps == ASSUME Kept, TypeOK', NEW c \in Coordinators, Unload(c) PROVE Kept'
<1>1. task[c].pc = "unload" /\ Works(c)
  BY DEF Unload, Is, Works, Working, Resting
<1>2. comp \in Guards /\ Sound(comp) /\ Placed(c, task[c], comp) /\ ops = {}
  BY <1>1, AtWork, NothingUnderWay DEF Resting
<1>3. UNCHANGED <<code, closed>>
  BY DEF Unload, files
<1> DEFINE n == IF comp.phase = "active" THEN NewGuard(c) ELSE comp
<1>4. /\ n \in Guards /\ n.owner = c /\ n.busy /\ n.approved = {} /\ ~n.token /\ n.pending = 0
      /\ n.phase # "active" /\ Sound(n)
  <2>1. CASE comp.phase = "active"
    <3>1. n = NewGuard(c) /\ TypeOK /\ RunningCurrent
      BY <2>1 DEF Kept
    <3> QED
      BY <1>2, <3>1, FreshGuard DEF Sound, RunningCurrent
  <2>2. CASE comp.phase # "active"
    BY <1>1, <1>2, <2>2 DEF Placed, Resting
  <2> QED
    BY <2>1, <2>2
<1>5. ASSUME NEW k \in Guards, comp' = k, UNCHANGED manager, Go(c, "u_drain"),
             Sound(k), k.owner = c, k.busy, k.approved = {}, ~k.token, k.pending = 0,
             k.phase # "active"
      PROVE  Kept'
  <2>1. /\ task'[c].pc = "u_drain"
        /\ \A d \in Coordinators : d # c => task'[d] = task[d]
    BY <1>5, GoesTo DEF Kept, Places, Working, Resting
  <2>2. Placed(c, task'[c], k)
    BY <1>5, <2>1 DEF Placed, Waiting, Resting
  <2> QED
    BY <1>1, <1>3, <1>5, <2>1, <2>2, GoesOn DEF Steady, manager, Working, Resting
<1>6. CASE Start(c, n, "disable", "u_disable")
  <2> HIDE DEF n
  <2> QED
    BY <1>1, <1>2, <1>3, <1>4, <1>6, StartWaits DEF Waiting
<1>7. CASE /\ comp' = [n EXCEPT !.phase = "quiesced"] /\ Go(c, "u_drain") /\ UNCHANGED manager
  <2> HIDE DEF n
  <2> DEFINE k == [n EXCEPT !.phase = "quiesced"]
  <2>1. /\ k \in Guards /\ k.pending = 0 /\ k.busy /\ k.owner = c /\ k.approved = {}
        /\ k.phase = "quiesced" /\ ~k.token /\ k.tracked = n.tracked
    BY <1>4 DEF Guards, Phases
  <2>2. comp' = k
    BY <1>7
  <2> HIDE DEF k
  <2>3. Sound(k)
    BY <1>2, <1>4, <2>1 DEF Sound
  <2> QED
    BY <1>5, <1>7, <2>1, <2>2, <2>3
<1>8. CASE comp.phase = "quiesced" /\ Go(c, "u_drain") /\ UNCHANGED <<comp, manager>>
  BY <1>2, <1>4, <1>5, <1>8 DEF manager
<1> QED
  BY <1>6, <1>7, <1>8 DEF Unload

\* the plugin is disabled,
LEMMA UnloadDisabledKeeps ==
    ASSUME Kept, TypeOK', NEW c \in Coordinators, UnloadDisabled(c) PROVE Kept'
<1>1. task[c].pc = "u_disable" /\ Works(c)
  BY DEF UnloadDisabled, Is, Works, Working, Waiting
<1>2. comp \in Guards /\ Sound(comp) /\ Placed(c, task[c], comp) /\ comp.owner = c
  BY <1>1, AtWork DEF Placed
<1>3. UNCHANGED <<code, running, loaded, ops>>
  BY DEF UnloadDisabled, Still, files
<1>4. CASE UnloadHeld(c, Quiet(Retired(comp)))
  <2>1. /\ Retired(comp) \in Guards /\ Sound(Retired(comp))
        /\ Retired(comp).busy /\ Retired(comp).owner = c
    BY <1>2, RetiredGuard, RetiredLoose DEF Loose, Placed
  <2>2. Quiet(Retired(comp)).busy /\ Quiet(Retired(comp)).owner = c /\ Loose(Quiet(Retired(comp)))
    BY <2>1, QuietGuard, RetiredLoose
  <2> QED
    BY <1>1, <1>3, <1>4, <2>2, UnloadHeldRests
<1>5. CASE Answered /\ comp' = [comp EXCEPT !.pending = 0] /\ Go(c, "u_drain") /\ UNCHANGED hooks
  <2>1. ops = {}
    BY <1>1, <1>5, NothingUnderWay DEF Answered
  <2> DEFINE k == [comp EXCEPT !.pending = 0]
  <2>2. /\ k \in Guards /\ k.pending = 0 /\ k.busy /\ k.owner = c /\ k.phase # "active"
        /\ k.approved = {} /\ ~k.token /\ k.tracked = comp.tracked
        /\ k.phase = comp.phase /\ k.previous = comp.previous
    BY <1>1, <1>2 DEF Guards, Placed
  <2>3. comp' = k
    BY <1>5
  <2> HIDE DEF k
  <2>4. Sound(k)
    BY <1>2, <2>1, <2>2 DEF Sound
  <2>5. /\ task'[c].pc = "u_drain"
        /\ \A d \in Coordinators : d # c => task'[d] = task[d]
    BY <1>5, GoesTo DEF Kept, Places, Working, Resting
  <2>6. Placed(c, task'[c], k)
    BY <1>2, <2>2, <2>5 DEF Placed, Waiting, Resting
  <2> QED
    BY <1>1, <1>3, <1>5, <2>2, <2>3, <2>4, <2>5, <2>6, GoesOn DEF Steady, hooks, Working, Resting
<1> QED
  BY <1>4, <1>5 DEF UnloadDisabled

\* The plugin is out of use: the engine may install, or goes on to load it.
LEMMA UnloadDrainedKeeps ==
    ASSUME Kept, TypeOK', NEW c \in Coordinators, UnloadDrained(c) PROVE Kept'
<1>1. task[c].pc = "u_drain" /\ Works(c)
  BY DEF UnloadDrained, Is, Works, Working, Resting
<1>2. /\ comp \in Guards /\ Sound(comp) /\ Placed(c, task[c], comp) /\ comp.owner = c
      /\ ops = {} /\ comp.busy /\ comp.pending = 0 /\ comp.approved = {} /\ ~comp.token
      /\ \A d \in Coordinators : d # c => ~Works(d)
  BY <1>1, AtWork, NothingUnderWay DEF Placed, Resting
<1>3. UNCHANGED <<code, running, loaded, ops>>
  BY DEF UnloadDrained, Still, files
<1>4. CASE UnloadHeld(c, Quiet(comp))
  <2>1. Quiet(comp).busy /\ Quiet(comp).owner = c /\ Loose(Quiet(comp))
    BY <1>2, QuietGuard, RetiredLoose
  <2> QED
    BY <1>1, <1>3, <1>4, <2>1, UnloadHeldRests
<1>5. ASSUME NEW k, k = [comp EXCEPT !.phase = "quiesced",
                                     !.prior = IF comp.prior = None THEN Proof ELSE comp.prior],
             comp.tracked = {}, running = 0,
             \/ End(k) /\ Go(c, "install")
             \/ comp' = k /\ Go(c, "verify") /\ UNCHANGED closed
      PROVE  Kept'
  <2>1. /\ k \in Guards /\ k.pending = 0 /\ k.busy /\ k.owner = c /\ k.approved = {}
        /\ k.phase = "quiesced" /\ ~k.token /\ k.tracked = {}
    BY <1>2, <1>5, ProofType DEF Guards, Phases, Kept
  <2>2. Sound(k)
    BY <1>2, <2>1 DEF Sound
  <2>3. CASE comp' = k /\ Go(c, "verify") /\ UNCHANGED closed
    <3>1. /\ task'[c].pc = "verify"
          /\ \A d \in Coordinators : d # c => task'[d] = task[d]
      BY <2>3, GoesTo DEF Kept, Places, Working, Resting
    <3>2. Placed(c, task'[c], k)
      BY <2>1, <3>1 DEF Placed, Waiting, Resting
    <3> QED
      BY <1>1, <1>3, <2>1, <2>2, <2>3, <3>1, <3>2, GoesOn DEF Steady, Working, Resting
  <2>4. CASE End(k) /\ Go(c, "install")
    <3>1. /\ task'[c].pc = "install"
          /\ \A d \in Coordinators : d # c => task'[d] = task[d]
      BY <2>4, GoesTo DEF Kept, Places
    <3>2. \A d \in Coordinators : ~Works(d)'
      BY <1>2, <3>1 DEF Works, Working, Waiting, Resting
    <3>3. closed' = closed
      BY <2>4 DEF End
    <3>4. Alone'
      BY <3>1, <3>2, <3>3, <1>1 DEF Kept, Alone, Coordinators, Works, Working, Waiting, Resting
    <3>5. RunningCurrent' /\ OneOperation'
      BY <1>3 DEF Kept, RunningCurrent, Current, OneOperation
    <3>6. CASE comp' = None /\ c \in closed
      <4>1. Vacant'
        BY <1>2, <3>1, <3>3, <3>6, HasGuard DEF Kept, Vacant
      <4>2. InHand'
        BY <1>2, <1>3, <3>2, <3>6 DEF InHand
      <4> QED
        BY <3>4, <3>5, <4>1, <4>2 DEF Kept
    <3>7. CASE comp' = [k EXCEPT !.busy = FALSE] /\ (c \in closed => k.needsRecovery)
      <4> DEFINE m == [k EXCEPT !.busy = FALSE]
      <4>1. /\ m \in Guards /\ m.pending = 0 /\ ~m.busy /\ m.owner = c /\ m.approved = {}
            /\ m.phase = "quiesced" /\ ~m.token /\ m.tracked = {}
            /\ m.needsRecovery = k.needsRecovery
        BY <2>1 DEF Guards
      <4>2. comp' = m /\ m # None
        BY <3>7, <4>1, NoneAssumption
      <4> HIDE DEF m
      <4>3. Sound(m)'
        BY <1>2, <1>3, <4>1 DEF Sound
      <4>4. Free(m)'
        BY <3>3, <3>7, <4>1 DEF Free
      <4>5. InHand'
        BY <3>2, <4>2, <4>3, <4>4 DEF InHand
      <4>6. Vacant'
        BY <1>2, <1>3, <1>5, <3>1, <3>3, <4>1, <4>2, HasGuard DEF Kept, Vacant
      <4> QED
        BY <3>4, <3>5, <4>5, <4>6 DEF Kept
    <3> QED
      BY <2>1, <2>4, <3>6, <3>7 DEF End
  <2> QED
    BY <1>5, <2>3, <2>4
<1> QED
  BY <1>4, <1>5 DEF UnloadDrained, Drained

\* The package is replaced.
LEMMA InstallKeeps == ASSUME Kept, TypeOK', NEW c \in Coordinators, Install(c) PROVE Kept'
<1>1. task[c].pc = "install" /\ task'[c].pc = "idle"
      /\ \A d \in Coordinators : d # c => task'[d] = task[d]
  BY GoesTo DEF Install, Is, Kept, Places
<1>2. UNCHANGED <<running, loaded, ops, comp, closed>>
  BY DEF Install, manager, hooks
<1>3. \A d \in Coordinators : (Works(d)' <=> Works(d)) /\ (Works(d) => task'[d] = task[d])
  BY <1>1 DEF Works, Working, Waiting, Resting
<1>4. Alone'
  BY <1>1, <1>2, <1>3 DEF Kept, Alone, Coordinators
<1>5. CASE code' = code
  <2>1. InHand'
    BY <1>2, <1>3, <1>5, SoundStays DEF Kept, InHand, Free
  <2>2. Vacant'
    BY <1>1, <1>2 DEF Kept, Vacant
  <2> QED
    BY <1>2, <1>4, <1>5, <2>1, <2>2 DEF Kept, RunningCurrent, Current, OneOperation
<1>6. CASE c \notin closed
  <2>1. /\ running = 0 /\ ops = {} /\ comp # None /\ comp.owner = c /\ comp.phase = "quiesced"
        /\ comp.approved = {} /\ comp.tracked = {}
    BY <1>1, <1>6 DEF Kept, Vacant
  <2>2. Sound(comp)'
    BY <1>2, <2>1 DEF Sound
  <2>3. InHand'
    BY <1>2, <1>3, <2>1, <2>2 DEF Kept, InHand, Free
  <2>4. Vacant'
    BY <1>1, <1>2 DEF Kept, Vacant
  <2> QED
    BY <1>2, <1>4, <2>1, <2>3, <2>4 DEF Kept, RunningCurrent, OneOperation
<1> QED
  BY <1>5, <1>6 DEF Install, files

\* Activation: what is on disk is verified,
LEMMA VerifyKeeps == ASSUME Kept, TypeOK', NEW c \in Coordinators, Verify(c) PROVE Kept'
<1>1. task[c].pc = "verify" /\ Works(c)
  BY DEF Verify, Is, Works, Working, Resting
<1>2. /\ comp \in Guards /\ Sound(comp) /\ ops = {} /\ comp.owner = c /\ comp.busy
      /\ comp.approved = {} /\ ~comp.token /\ comp.phase = "quiesced"
  BY <1>1, AtWork, NothingUnderWay DEF Placed, Resting
<1>3. CASE Start(c, comp, "manifest", "manifest") /\ UNCHANGED hooks
  BY <1>1, <1>2, <1>3, StartWaits DEF Verify, files, hooks, Waiting
<1>4. CASE Fails(c, comp, FALSE) /\ UNCHANGED manager
  BY <1>1, <1>2, <1>4, FailsRests DEF Verify, files, manager, Loose
<1> QED
  BY <1>3, <1>4 DEF Verify, manager

\* the host has read the manifest,
LEMMA ManifestRefreshedKeeps ==
    ASSUME Kept, TypeOK', NEW c \in Coordinators, ManifestRefreshed(c) PROVE Kept'
<1>1. task[c].pc = "manifest" /\ Works(c)
  BY DEF ManifestRefreshed, Is, Works, Working, Waiting
<1>2. /\ comp \in Guards /\ Sound(comp) /\ comp.owner = c /\ comp.busy
      /\ comp.approved = {} /\ ~comp.token /\ comp.phase = "quiesced"
  BY <1>1, AtWork DEF Placed, Resting
<1>3. UNCHANGED <<code, running, loaded, ops>>
  BY DEF ManifestRefreshed, Still, files
<1>4. CASE Fails(c, Retired(comp), FALSE)
  <2>1. Retired(comp) \in Guards /\ Retired(comp).busy /\ Retired(comp).owner = c
        /\ Loose(Retired(comp))
    BY <1>2, RetiredGuard, RetiredLoose
  <2> QED
    BY <1>1, <1>3, <1>4, <2>1, FailsRests DEF Loose
<1>5. CASE Answered /\ Go(c, "protect") /\ UNCHANGED hooks
           /\ comp' = [comp EXCEPT !.pending = 0, !.phase = "loading", !.expected = task[c].want]
  <2>1. ops = {}
    BY <1>1, <1>5, NothingUnderWay DEF Answered
  <2>0. task[c].want \in Contents \cup {None}
    BY DEF Kept, TypeOK, Inside, Tasks
  <2> DEFINE k == [comp EXCEPT !.pending = 0, !.phase = "loading", !.expected = task[c].want]
  <2>2. /\ k \in Guards /\ k.pending = 0 /\ k.busy /\ k.owner = c /\ k.phase = "loading"
        /\ k.approved = {} /\ ~k.token /\ k.tracked = comp.tracked
    BY <1>2, <2>0 DEF Guards, Phases
  <2>3. comp' = k
    BY <1>5
  <2> HIDE DEF k
  <2>4. Sound(k)
    BY <1>2, <2>1, <2>2 DEF Sound
  <2>5. /\ task'[c].pc = "protect"
        /\ \A d \in Coordinators : d # c => task'[d] = task[d]
    BY <1>5, GoesTo DEF Kept, Places, Working, Resting
  <2>6. Placed(c, task'[c], k)
    BY <2>2, <2>5 DEF Placed, Waiting, Resting
  <2> QED
    BY <1>1, <1>3, <1>5, <2>2, <2>3, <2>4, <2>5, <2>6, GoesOn DEF Steady, hooks, Working, Resting
<1> QED
  BY <1>4, <1>5 DEF ManifestRefreshed

\* the incoming settings are protected,
LEMMA ProtectKeeps == ASSUME Kept, TypeOK', NEW c \in Coordinators, Protect(c) PROVE Kept'
<1>1. task[c].pc = "protect" /\ Works(c)
  BY DEF Protect, Is, Works, Working, Resting
<1>2. /\ comp \in Guards /\ Sound(comp) /\ comp.owner = c /\ comp.busy /\ ops = {}
      /\ comp.approved = {} /\ ~comp.token /\ comp.phase # "active" /\ comp.pending = 0
  BY <1>1, AtWork, NothingUnderWay DEF Placed, Resting
<1>3. UNCHANGED <<code, running, loaded, ops>>
  BY DEF Protect, Still, files
<1>4. CASE Fails(c, comp, FALSE)
  BY <1>1, <1>2, <1>3, <1>4, FailsRests DEF Loose
<1>5. CASE /\ Go(c, "enable") /\ UNCHANGED hooks
           /\ comp' = [comp EXCEPT !.incoming = public, !.vacated = FALSE,
                                   !.verified = None, !.writeFailed = FALSE]
  <2>0. public \in Contents \cup {None}
    BY DEF Kept, TypeOK, Outside
  <2> DEFINE k == [comp EXCEPT !.incoming = public, !.vacated = FALSE,
                               !.verified = None, !.writeFailed = FALSE]
  <2>2. /\ k \in Guards /\ k.pending = 0 /\ k.busy /\ k.owner = c /\ k.phase = comp.phase
        /\ k.approved = {} /\ ~k.token /\ k.tracked = comp.tracked /\ k.previous = comp.previous
    BY <1>2, <2>0 DEF Guards
  <2>3. comp' = k
    BY <1>5
  <2> HIDE DEF k
  <2>4. Sound(k)
    BY <1>2, <2>2 DEF Sound
  <2>5. /\ task'[c].pc = "enable"
        /\ \A d \in Coordinators : d # c => task'[d] = task[d]
    BY <1>5, GoesTo DEF Kept, Places, Working, Resting
  <2>6. Placed(c, task'[c], k)
    BY <1>2, <2>2, <2>5 DEF Placed, Waiting, Resting
  <2> QED
    BY <1>1, <1>3, <1>5, <2>2, <2>3, <2>4, <2>5, <2>6, GoesOn DEF Steady, hooks, Working, Resting
<1> QED
  BY <1>4, <1>5 DEF Protect

\* the plugin is enabled,
LEMMA LoadKeeps == ASSUME Kept, TypeOK', NEW c \in Coordinators, Load(c) PROVE Kept'
<1>1. task[c].pc = "enable" /\ Works(c)
  BY DEF Load, Is, Works, Working, Resting
<1>2. /\ comp \in Guards /\ Sound(comp) /\ comp.owner = c /\ comp.busy /\ ops = {}
      /\ comp.approved = {} /\ ~comp.token /\ comp.phase # "active"
  BY <1>1, AtWork, NothingUnderWay DEF Placed, Resting
<1>3. UNCHANGED files
  BY DEF Load
<1>4. CASE Fails(c, comp, TRUE) /\ UNCHANGED manager
  BY <1>1, <1>2, <1>3, <1>4, FailsRests DEF manager, files
<1>5. CASE /\ Start(c, [comp EXCEPT !.token = TRUE, !.activationFailed = FALSE], "enable", "load")
           /\ UNCHANGED hooks
  <2> DEFINE k == [comp EXCEPT !.token = TRUE, !.activationFailed = FALSE]
  <2>1. /\ k \in Guards /\ k.pending = comp.pending /\ k.busy /\ k.owner = c
        /\ k.phase = comp.phase /\ k.approved = {} /\ k.tracked = comp.tracked
        /\ k.previous = comp.previous
    BY <1>2 DEF Guards
  <2>2. Start(c, k, "enable", "load")
    BY <1>5
  <2> HIDE DEF k
  <2>3. Sound(k)
    BY <1>2, <2>1 DEF Sound
  <2> QED
    BY <1>1, <1>2, <1>3, <1>5, <2>1, <2>2, <2>3, StartWaits DEF files, hooks, Waiting
<1> QED
  BY <1>4, <1>5 DEF Load

\* an instance loads,
LEMMA LoadedKeeps == ASSUME Kept, TypeOK', NEW c \in Coordinators, Loaded(c) PROVE Kept'
<1>1. task[c].pc = "load" /\ Works(c)
  BY DEF Loaded, Is, Works, Working, Waiting
<1>2. /\ comp \in Guards /\ Sound(comp) /\ comp.owner = c /\ comp.busy /\ comp.phase # "active"
  BY <1>1, AtWork DEF Placed
<1>3. UNCHANGED <<code, running, loaded, ops>>
  BY DEF Loaded, Still, files
<1>4. CASE Fails(c, Retired(comp), TRUE)
  <2>1. Retired(comp) \in Guards /\ Retired(comp).busy /\ Retired(comp).owner = c
        /\ Loose(Retired(comp))
    BY <1>2, RetiredGuard, RetiredLoose
  <2> QED
    BY <1>1, <1>3, <1>4, <2>1, FailsRests DEF Loose
<1>5. CASE Answered /\ comp' = [comp EXCEPT !.pending = 0] /\ Go(c, "check") /\ UNCHANGED hooks
  <2>1. ops = {}
    BY <1>1, <1>5, NothingUnderWay DEF Answered
  <2> DEFINE k == [comp EXCEPT !.pending = 0]
  <2>2. /\ k \in Guards /\ k.pending = 0 /\ k.busy /\ k.owner = c /\ k.phase = comp.phase
        /\ k.approved = comp.approved /\ k.expected = comp.expected
        /\ k.tracked = comp.tracked /\ k.previous = comp.previous
    BY <1>2 DEF Guards
  <2>3. comp' = k
    BY <1>5
  <2> HIDE DEF k
  <2>4. Sound(k)
    BY <1>2, <2>1, <2>2 DEF Sound
  <2>5. /\ task'[c].pc = "check"
        /\ \A d \in Coordinators : d # c => task'[d] = task[d]
    BY <1>5, GoesTo DEF Kept, Places, Working, Resting
  <2>6. Placed(c, task'[c], k)
    BY <1>2, <2>2, <2>5 DEF Placed, Waiting, Resting
  <2> QED
    BY <1>1, <1>3, <1>5, <2>2, <2>3, <2>4, <2>5, <2>6, GoesOn DEF Steady, hooks, Working, Resting
<1> QED
  BY <1>4, <1>5 DEF Loaded

\* An acknowledged guard is free, and has approved the instance that runs.
LEMMA CheckKeeps == ASSUME Kept, TypeOK', NEW c \in Coordinators, Check(c) PROVE Kept'
<1>1. task[c].pc = "check" /\ Works(c)
  BY DEF Check, Is, Works, Working, Resting
<1>2. /\ comp \in Guards /\ Sound(comp) /\ comp.owner = c /\ comp.busy /\ ops = {}
      /\ comp.phase # "active" /\ comp.pending = 0
  BY <1>1, AtWork, NothingUnderWay DEF Placed, Resting
<1>3. UNCHANGED <<code, running, loaded, ops>>
  BY DEF Check, Still, files
<1>4. CASE Fails(c, comp, TRUE)
  BY <1>1, <1>2, <1>3, <1>4, FailsRests
<1>5. CASE running \in comp.approved /\ Acknowledge(c) /\ UNCHANGED closed
  <2> DEFINE k == [comp EXCEPT !.approved = comp.approved, !.token = FALSE,
                               !.phase = "active", !.activated = TRUE, !.busy = FALSE]
  <2>0. comp.approved \cup {running} = comp.approved
    BY <1>5
  <2>1. /\ k \in Guards /\ k.pending = 0 /\ ~k.busy /\ k.owner = c /\ k.phase = "active"
        /\ k.approved = comp.approved /\ ~k.token /\ k.tracked = comp.tracked
        /\ k.expected = comp.expected
    BY <1>2 DEF Guards, Phases
  <2>2. comp' = k
    BY <1>5, <2>0 DEF Acknowledge
  <2> HIDE DEF k
  <2>3. Sound(k)
    BY <1>2, <1>5, <2>1 DEF Sound
  <2>4. Sound(comp)'
    BY <1>3, <2>2, <2>3 DEF Sound, Current
  <2>5. Free(comp)'
    BY <2>1, <2>2 DEF Free
  <2>6. /\ task'[c].pc = "idle"
        /\ \A d \in Coordinators : d # c => task'[d] = task[d]
    BY <1>5, GoesTo DEF Acknowledge, Kept, Places
  <2> QED
    BY <1>1, <1>3, <1>5, <2>1, <2>2, <2>4, <2>5, <2>6, Rests DEF Steady
<1> QED
  BY <1>4, <1>5 DEF Check

-----------------------------------------------------------------------------
(* The calls of the engine, and what happens beside the coordinators        *)

\* A call of the installer takes the component or finds it held.
LEMMA CallKeeps ==
    ASSUME Kept, TypeOK', NEW c \in Coordinators, NEW call \in Calls \ {"failed"}, NEW want,
           call = "activate" => ~Active, call = "finish" => comp # None /\ comp.owner = c,
           Call(c, call, want)
    PROVE  Kept'
<1>1. task[c].pc = "idle" /\ c \notin closed /\ UNCHANGED <<code, running, loaded, ops, closed>>
  BY DEF Call, Is, Still, files, hooks
<1>2. CASE UNCHANGED <<comp, task>>
  BY <1>1, <1>2, SoundStays
     DEF Kept, Alone, OneOperation, RunningCurrent, Current, InHand, Works, Free, Vacant
<1>3. CASE ~UNCHANGED <<comp, task>>
  <2>1. comp # None => ~comp.busy /\ (comp.owner = c \/ comp.owner \in closed)
    BY <1>3 DEF Call
  <2>2. \A d \in Coordinators : ~Works(d)
    BY <2>1, AtWork, HasGuard DEF Placed
  <2> DEFINE k == IF comp = None THEN NewGuard(c) ELSE [comp EXCEPT !.busy = TRUE]
             next == IF k.needsRecovery \/ k.pending # 0 THEN "recover"
                     ELSE IF call = "quiesce" \/ k.phase # "quiesced" THEN "unload"
                     ELSE "verify"
  <2>3. /\ k \in Guards /\ k.busy /\ Sound(k) /\ ~k.token
        /\ k.approved # {} => k.phase = "active"
        /\ k.needsRecovery \/ k.pending # 0 \/ k.owner = c \/ (c = 2 /\ k.phase = "active")
        /\ k.phase = "active" => call # "activate"
        /\ call = "finish" => k.owner = c
    <3>1. CASE comp = None
      <4>1. k = NewGuard(c) /\ ops = {} /\ TypeOK /\ RunningCurrent
        BY <3>1 DEF Kept, InHand
      <4> QED
        BY <3>1, <4>1, FreshGuard DEF Sound, RunningCurrent
    <3>2. CASE comp # None
      <4>1. comp \in Guards /\ Sound(comp) /\ Free(comp)
        BY <2>2, <3>2, HasGuard DEF Kept, InHand
      <4>2. k = [comp EXCEPT !.busy = TRUE]
        BY <3>2
      <4>3. /\ k \in Guards /\ k.busy /\ k.token = comp.token /\ k.approved = comp.approved
            /\ k.owner = comp.owner /\ k.pending = comp.pending /\ k.phase = comp.phase
            /\ k.needsRecovery = comp.needsRecovery /\ k.tracked = comp.tracked
            /\ k.previous = comp.previous /\ k.expected = comp.expected
        BY <4>1, <4>2 DEF Guards
      <4> HIDE DEF k
      <4>4. Sound(k)
        BY <4>1, <4>3 DEF Sound
      <4> QED
        BY <2>1, <3>2, <4>1, <4>3, <4>4 DEF Free, Active, Kept, TypeOK, Inside, Coordinators
    <3> QED
      BY <3>1, <3>2
  <2>4. /\ comp' = IF call = "finish" THEN [k EXCEPT !.cleanup = TRUE] ELSE k
        /\ task' = [task EXCEPT ![c] = [pc |-> next, call |-> call, want |-> want]]
    BY <1>3 DEF Call
  <2> HIDE DEF k
  <2>5. PICK m : m = IF call = "finish" THEN [k EXCEPT !.cleanup = TRUE] ELSE k
    OBVIOUS
  <2>6. /\ m \in Guards /\ m.busy /\ m.token = k.token /\ m.approved = k.approved
        /\ m.owner = k.owner /\ m.pending = k.pending /\ m.phase = k.phase
        /\ m.needsRecovery = k.needsRecovery /\ m.tracked = k.tracked
        /\ m.previous = k.previous /\ m.expected = k.expected
    BY <2>3, <2>5 DEF Guards
  <2>7. Sound(m)
    BY <2>3, <2>6 DEF Sound
  <2>8. /\ task'[c].pc = next /\ task'[c].call = call
        /\ \A d \in Coordinators : d # c => task'[d] = task[d]
    BY <2>4 DEF Kept, TypeOK, Inside
  <2>0. /\ next \in {"recover", "unload", "verify"}
        /\ next # "recover" => k.pending = 0 /\ ~k.needsRecovery
        /\ next = "verify" => k.phase = "quiesced"
    OBVIOUS
  <2> HIDE DEF next
  <2>9. Placed(c, task'[c], m)
    BY <2>0, <2>3, <2>6, <2>8 DEF Placed, Waiting, Resting
  <2>10. \A d \in Coordinators : Works(d)' <=> d = c
    BY <2>0, <2>2, <2>8 DEF Works, Working, Resting
  <2>11. comp' = m /\ m # None
    BY <2>4, <2>5, <2>6, NoneAssumption
  <2>12. InHand'
    <3>1. Sound(m)'
      BY <1>1, <2>7, SoundStays
    <3> QED
      BY <2>9, <2>10, <2>11, <3>1 DEF InHand
  <2>13. Alone'
    BY <1>1, <2>0, <2>8, <2>10 DEF Kept, Alone, Coordinators
  <2>14. Vacant'
    BY <1>1, <2>0, <2>1, <2>8 DEF Kept, Vacant
  <2> QED
    BY <1>1, <2>12, <2>13, <2>14 DEF Kept, OneOperation, RunningCurrent, Current
<1> QED
  BY <1>2, <1>3

\* A step beside the coordinators that leaves the guard's place as it was.
LEMMA Beside ==
    ASSUME Kept, TypeOK', UNCHANGED <<code, task, closed>>, OneOperation', RunningCurrent',
           comp \in Guards => comp' \in Guards,
           comp = None => comp' = None /\ ops' = {},
           comp \in Guards =>
               /\ Sound(comp)'
               /\ \A f \in {"owner", "busy", "pending", "phase", "needsRecovery", "token"} :
                     comp'[f] = comp[f]
               /\ comp'.approved = comp.approved \/ comp.token,
           ops = {} => running' = running /\ ops' = {},
           comp \in Guards /\ comp.phase = "quiesced" /\ comp.approved = {}
               => comp'.approved = {} /\ comp'.tracked \subseteq comp.tracked
    PROVE  Kept'
<1>1. Alone'
  BY DEF Kept, Alone, Works
<1>2. comp \in Guards => /\ comp'.owner = comp.owner /\ comp'.busy = comp.busy
                         /\ comp'.pending = comp.pending /\ comp'.phase = comp.phase
                         /\ comp'.needsRecovery = comp.needsRecovery /\ comp'.token = comp.token
  OBVIOUS
<1>3. InHand'
  <2>1. CASE comp = None
    BY <2>1 DEF Kept, InHand, Works
  <2>2. CASE comp # None
    <3>1. comp \in Guards /\ comp' \in Guards /\ comp' # None
      BY <2>2, HasGuard, NoneAssumption
    <3>2. \A c \in Coordinators : Works(c) => Placed(c, task[c], comp')
      BY <1>2, <3>1, AtWork DEF Placed
    <3>3. (\A c \in Coordinators : ~Works(c)) => Free(comp')
      BY <1>2, <2>2, <3>1 DEF Kept, InHand, Free
    <3> QED
      BY <3>1, <3>2, <3>3 DEF InHand, Works, Free
  <2> QED
    BY <2>1, <2>2
<1>4. Vacant'
  BY <1>2, HasGuard, NoneAssumption DEF Kept, Vacant
<1> QED
  BY <1>1, <1>3, <1>4 DEF Kept

\* A save goes through the guard of its instance, or past it.
LEMMA SaveKeeps == ASSUME Kept, TypeOK', NEW n \in Instances, Save(n) PROVE Kept'
<1>1. UNCHANGED <<code, running, loaded, ops, closed, task>> /\ loaded[n] # None
  BY DEF Save, manager, hooks
<1>2. OneOperation' /\ RunningCurrent'
  BY <1>1 DEF Kept, OneOperation, RunningCurrent, Current
<1>3. CASE comp' = comp
  BY <1>1, <1>2, <1>3, Beside, HasGuard, SoundStays DEF Kept, InHand
<1>4. CASE GoesPublic(n) /\ InCharge(n) /\ comp' = [comp EXCEPT !.tracked = @ \cup {n}]
  <2>1. comp \in Guards /\ Sound(comp)
    BY <1>4, HasGuard DEF InCharge, Kept, InHand
  <2>2. MayWrite(comp, n)
    BY <1>4 DEF GoesPublic, InCharge, GuardOf
  <2>3. Current(n)
    BY <1>1, <2>1, <2>2, BoundAssumption DEF MayWrite, Sound, Current, Instances
  <2> DEFINE k == [comp EXCEPT !.tracked = comp.tracked \cup {n}]
  <2>4. /\ k \in Guards /\ k.token = comp.token /\ k.approved = comp.approved
        /\ k.owner = comp.owner /\ k.pending = comp.pending /\ k.phase = comp.phase
        /\ k.busy = comp.busy /\ k.needsRecovery = comp.needsRecovery
        /\ k.previous = comp.previous /\ k.expected = comp.expected
        /\ k.tracked = comp.tracked \cup {n}
    BY <2>1 DEF Guards
  <2>5. comp' = k
    BY <1>4
  <2> HIDE DEF k
  <2>6. Sound(k)
    BY <2>1, <2>3, <2>4 DEF Sound
  <2>7. Sound(comp)'
    BY <1>1, <2>5, <2>6 DEF Sound, Current
  <2>8. ~(comp.phase = "quiesced" /\ comp.approved = {})
    BY <2>2 DEF MayWrite
  <2> QED
    BY <1>1, <1>2, <2>1, <2>4, <2>5, <2>7, <2>8, Beside, HasGuard
<1> QED
  BY <1>3, <1>4 DEF Save

\* A settled save is no longer in the guard's charge.
LEMMA WriteKeeps ==
    ASSUME Kept, TypeOK', NEW w \in writes, Written(w) \/ WriteFails(w) PROVE Kept'
<1>1. UNCHANGED <<code, running, loaded, ops, closed, task>>
  BY DEF Written, WriteFails, manager, hooks, files
<1>2. OneOperation' /\ RunningCurrent'
  BY <1>1 DEF Kept, OneOperation, RunningCurrent, Current
<1>3. CASE comp' = comp
  BY <1>1, <1>2, <1>3, Beside, HasGuard, SoundStays DEF Kept, InHand
<1>4. CASE comp' # comp
  <2>1. comp \in Guards /\ Sound(comp)
    BY <1>4, HasGuard DEF Written, WriteFails, Tracked, Kept, InHand
  <2>2. /\ comp'.token = comp.token /\ comp'.approved = comp.approved
        /\ comp'.owner = comp.owner /\ comp'.pending = comp.pending /\ comp'.phase = comp.phase
        /\ comp'.busy = comp.busy /\ comp'.needsRecovery = comp.needsRecovery
        /\ comp'.previous = comp.previous /\ comp'.expected = comp.expected
        /\ comp'.tracked \subseteq comp.tracked /\ comp' # None
    <3>1. CASE Written(w)
      <4>1. PICK v \in Contents \cup {None} :
                comp' = [comp EXCEPT !.tracked = comp.tracked \ {w.by}, !.verified = v]
        <5>1. Saved(w.by) \in Contents
          BY BoundAssumption DEF Kept, TypeOK, Outside, Saved, Contents, Instances
        <5> QED
          BY <1>4, <2>1, <3>1, <5>1 DEF Written, Guards
      <4> DEFINE k == [comp EXCEPT !.tracked = comp.tracked \ {w.by}, !.verified = v]
      <4>2. k.token = comp.token /\ k.approved = comp.approved /\ k.owner = comp.owner
        BY <2>1 DEF Guards
      <4>3. k.pending = comp.pending /\ k.phase = comp.phase /\ k.busy = comp.busy
        BY <2>1 DEF Guards
      <4>4. /\ k.needsRecovery = comp.needsRecovery /\ k.previous = comp.previous
            /\ k.expected = comp.expected /\ k.tracked \subseteq comp.tracked
        BY <2>1 DEF Guards
      <4>5. k \in Guards
        BY <2>1 DEF Guards
      <4>6. comp' = k
        BY <4>1
      <4> HIDE DEF k
      <4> QED
        BY <4>2, <4>3, <4>4, <4>5, <4>6, NoneAssumption
    <3>2. CASE WriteFails(w)
      <4>1. comp' = [comp EXCEPT !.tracked = comp.tracked \ {w.by}, !.writeFailed = TRUE]
        BY <1>4, <3>2 DEF WriteFails
      <4> DEFINE k == [comp EXCEPT !.tracked = comp.tracked \ {w.by}, !.writeFailed = TRUE]
      <4>2. k.token = comp.token /\ k.approved = comp.approved /\ k.owner = comp.owner
        BY <2>1 DEF Guards
      <4>3. k.pending = comp.pending /\ k.phase = comp.phase /\ k.busy = comp.busy
        BY <2>1 DEF Guards
      <4>4. /\ k.needsRecovery = comp.needsRecovery /\ k.previous = comp.previous
            /\ k.expected = comp.expected /\ k.tracked \subseteq comp.tracked
        BY <2>1 DEF Guards
      <4>5. k \in Guards
        BY <2>1 DEF Guards
      <4>6. comp' = k
        BY <4>1
      <4> HIDE DEF k
      <4> QED
        BY <4>2, <4>3, <4>4, <4>5, <4>6, NoneAssumption
    <3> QED
      BY <3>1, <3>2
  <2>3. Sound(comp)'
    BY <1>1, <2>1, <2>2 DEF Sound, Current
  <2>4. comp' \in Guards
    BY <2>2 DEF TypeOK, Inside
  <2> QED
    BY <1>1, <1>2, <2>1, <2>2, <2>3, <2>4, Beside, HasGuard
<1> QED
  BY <1>3, <1>4

\* What the operations themselves do; only the settings to restore and the loading
\* of an instance concern the guard.
LEMMA OperationKeeps == ASSUME Kept, TypeOK', NEW o \in ops,
                               \/ Disabled(o) \/ ManifestLoaded(o) \/ Enabled(o)
                               \/ Vacates(o) \/ PutsBack(o)
                        PROVE  Kept'
<1>1. /\ UNCHANGED <<code, loaded, closed, task>> /\ running' \in {0, running}
      /\ ops' \in {ops \ {o}, (ops \ {o}) \cup {[o EXCEPT !.step = 1]}}
  BY DEF Disabled, ManifestLoaded, Enabled, Vacates, PutsBack, Ends, OpFrame, files, hooks
<1>2. /\ \A p \in ops' : \E q \in ops : p.id = q.id
      /\ OneOperation'
  <2>1. o \in Ops /\ [o EXCEPT !.step = 1].id = o.id
    BY DEF Kept, TypeOK, Outside, Ops
  <2> DEFINE p == [o EXCEPT !.step = 1]
  <2>2. p.id = o.id /\ ops' \in {ops \ {o}, (ops \ {o}) \cup {p}}
    BY <1>1, <2>1
  <2> HIDE DEF p
  <2> QED
    BY <2>2 DEF Kept, OneOperation
<1>3. RunningCurrent'
  BY <1>1 DEF Kept, RunningCurrent, Current
<1>4. comp \in Guards /\ Sound(comp)
  BY HasGuard DEF Kept, InHand
<1>5. /\ comp'.token = comp.token /\ comp'.approved = comp.approved
      /\ comp'.owner = comp.owner /\ comp'.pending = comp.pending /\ comp'.phase = comp.phase
      /\ comp'.busy = comp.busy /\ comp'.needsRecovery = comp.needsRecovery
      /\ comp'.previous = comp.previous /\ comp'.expected = comp.expected
      /\ comp'.tracked = comp.tracked /\ comp' \in Guards
  <2>1. comp' \in {comp, [comp EXCEPT !.vacated = TRUE]}
    BY DEF Disabled, ManifestLoaded, Enabled, Vacates, PutsBack
  <2> QED
    BY <1>4, <2>1 DEF Guards
<1>6. Sound(comp)'
  BY <1>1, <1>2, <1>4, <1>5 DEF Sound, Current
<1> QED
  BY <1>1, <1>2, <1>3, <1>4, <1>5, <1>6, Beside, NoneAssumption

\* The instance that is loaded gets the settings in place, and the guard approves it
\* only if these are the expected ones.
LEMMA LoadsKeeps == ASSUME Kept, TypeOK', NEW o \in ops, Loads(o) PROVE Kept'
<1>1. UNCHANGED <<code, closed, task, public>>
  BY DEF Loads, OpFrame, files, hooks
<1>2. /\ \A p \in ops' : \E q \in ops : p.id = q.id
      /\ OneOperation'
  <2>1. o \in Ops /\ [o EXCEPT !.step = 1].id = o.id
    BY DEF Kept, TypeOK, Outside, Ops
  <2> DEFINE p == [o EXCEPT !.step = 1]
  <2>2. p.id = o.id /\ ops' = (ops \ {o}) \cup {p}
    BY <2>1 DEF Loads
  <2> HIDE DEF p
  <2> QED
    BY <2>2 DEF Kept, OneOperation
<1>3. PICK n \in Instances, data \in Contents \cup {None} :
        /\ loaded[n] = None /\ running' = n
        /\ loaded' = [loaded EXCEPT ![n] = [code |-> code, data |-> data]]
        /\ \/ comp' = comp
           \/ /\ comp.phase = "loading" /\ comp.token /\ data = comp.expected
              /\ comp' = [comp EXCEPT !.approved = comp.approved \cup {n}]
  BY DEF Loads, Proof, Kept, TypeOK, Outside
<1>4. comp \in Guards /\ Sound(comp)
  BY HasGuard DEF Kept, InHand
<1>5. [code |-> code, data |-> data] \in Packages /\ [code |-> code, data |-> data] # None
  BY NoneAssumption DEF Packages, Kept, TypeOK, Outside
<1>6. /\ loaded'[n] = [code |-> code, data |-> data]
      /\ \A m \in Instances : m # n => loaded'[m] = loaded[m]
  BY <1>3 DEF Kept, TypeOK, Outside
<1>7. RunningCurrent'
  BY <1>1, <1>3, <1>5, <1>6 DEF RunningCurrent, Current
<1>8. /\ comp'.token = comp.token
      /\ comp'.owner = comp.owner /\ comp'.pending = comp.pending /\ comp'.phase = comp.phase
      /\ comp'.busy = comp.busy /\ comp'.needsRecovery = comp.needsRecovery
      /\ comp'.previous = comp.previous /\ comp'.expected = comp.expected
      /\ comp'.tracked = comp.tracked /\ comp' \in Guards
      /\ \/ comp'.approved = comp.approved
         \/ /\ comp'.approved = comp.approved \cup {n} /\ comp.token
            /\ data = comp.expected /\ comp.phase = "loading"
  BY <1>3, <1>4 DEF Guards
<1>9. Sound(comp)'
  <2>1. \A m \in Instances : Current(m) => Current(m)'
    BY <1>1, <1>3, <1>6 DEF Current
  <2>2. comp.phase # "active"
    BY <1>4 DEF Kept, OneOperation, Sound
  <2>3. comp.previous \in {0} \cup Instances /\ comp.tracked \subseteq Instances
        /\ comp.approved \subseteq Instances
    BY <1>4 DEF Guards
  <2>4. \A m \in comp.approved : m # n
    BY <1>3, <1>4, NoneAssumption DEF Sound, Packages, Kept, TypeOK, Outside, Guards
  <2>5. \A m \in comp'.approved : loaded'[m] = [code |-> code, data |-> comp.expected]
    BY <1>4, <1>6, <1>8, <2>3, <2>4 DEF Sound
  <2> QED
    BY <1>1, <1>2, <1>4, <1>8, <2>1, <2>2, <2>3, <2>5 DEF Sound
<1> QED
  BY <1>1, <1>2, <1>4, <1>7, <1>8, <1>9, Beside, NoneAssumption DEF Kept, InHand, Free, Works

\* The first coordinator is disposed.
LEMMA DisposeKeeps == ASSUME Kept, TypeOK', Dispose PROVE Kept'
<1>1. UNCHANGED <<code, running, loaded, ops, task>> /\ closed = {} /\ closed' = {1}
  BY DEF Dispose, manager, files
<1>2. Alone' /\ OneOperation' /\ RunningCurrent'
  BY <1>1 DEF Kept, Alone, Works, OneOperation, RunningCurrent, Current
<1>3. \A c \in Coordinators : task'[c].pc = "install" /\ c \notin closed' => FALSE
  BY <1>1 DEF Kept, Alone, Coordinators
<1>4. CASE comp = None
  <2>1. comp' = None
    BY <1>4 DEF Dispose
  <2> QED
    BY <1>1, <1>2, <1>3, <1>4, <2>1 DEF Kept, InHand, Works, Vacant
<1>5. CASE comp # None /\ comp.pending = 0 /\ ~comp.needsRecovery /\ ~comp.busy
  <2>1. comp' = None
    BY <1>5 DEF Dispose
  <2>2. ops = {}
    BY <1>5 DEF Kept, InHand, Sound, OneOperation
  <2>3. \A c \in Coordinators : ~Works(c)
    BY <1>5, AtWork DEF Placed
  <2> QED
    BY <1>1, <1>2, <1>3, <2>1, <2>2, <2>3 DEF Kept, InHand, Works, Vacant
<1>6. CASE comp # None /\ ~(comp.pending = 0 /\ ~comp.needsRecovery /\ ~comp.busy)
  <2>1. comp' = Retired(comp) /\ comp \in Guards /\ Sound(comp)
    BY <1>6, HasGuard DEF Dispose, Kept, InHand
  <2> DEFINE k == Retired(comp)
  <2>2. /\ k \in Guards /\ k # None /\ Loose(k) /\ k.needsRecovery /\ k.phase = "quiesced"
        /\ k.owner = comp.owner /\ k.busy = comp.busy /\ k.pending = comp.pending
    BY <2>1, RetiredGuard, RetiredLoose, NoneAssumption
  <2>3. comp' = k
    BY <2>1
  <2> HIDE DEF k
  <2>4. Sound(comp)'
    BY <1>1, <2>2, <2>3 DEF Loose, Sound, Current
  <2>5. \A c \in Coordinators : Works(c) => Placed(c, task[c], k)
    BY <1>1, <2>2, AtWork DEF Placed, Loose, Kept, Alone
  <2>6. (\A c \in Coordinators : ~Works(c)) => Free(k)
    BY <1>6, <2>2 DEF Kept, InHand, Free, Loose
  <2>7. InHand'
    BY <1>1, <2>2, <2>3, <2>4, <2>5, <2>6 DEF InHand, Works, Free
  <2> QED
    BY <1>2, <1>3, <2>7 DEF Kept, Vacant
<1> QED
  BY <1>4, <1>5, <1>6

\* The second one starts.
LEMMA ReloadKeeps == ASSUME Kept, TypeOK', OthersSettle \/ SecondStarts PROVE Kept'
<1>1. UNCHANGED <<code, running, loaded, ops, comp, closed>>
  BY DEF OthersSettle, SecondStarts, manager, files
<1>2. \A c \in Coordinators : (Works(c)' <=> Works(c)) /\ (Works(c) => task'[c] = task[c])
  BY GoesTo
     DEF OthersSettle, SecondStarts, Is, Kept, Places, Works, Working, Waiting, Resting,
         Coordinators
<1>3. Alone'
  BY <1>1, <1>2 DEF Kept, Alone, OthersSettle, SecondStarts
<1>4. InHand'
  BY <1>1, <1>2, SoundStays DEF Kept, InHand, Free
<1>5. Vacant'
  <2>1. \A c \in Coordinators : task'[c].pc = "install" => task[c].pc = "install"
    BY GoesTo DEF OthersSettle, SecondStarts, Kept, Places, Coordinators
  <2> QED
    BY <1>1, <2>1 DEF Kept, Vacant
<1> QED
  BY <1>1, <1>3, <1>4, <1>5 DEF Kept, OneOperation, RunningCurrent, Current

-----------------------------------------------------------------------------
(* The invariant                                                            *)

\* The invariant holds in the beginning.
LEMMA InitKept == Init => Kept
<1> SUFFICES ASSUME Init PROVE Kept
  OBVIOUS
<1> USE DEF Init, Coordinators
<1>1. Old \in Contents /\ 1 \in Instances /\ [code |-> 0, data |-> Old] \in Packages
      /\ [code |-> 0, data |-> Old] # None
  BY BoundAssumption, NoneAssumption DEF Old, Contents, Instances, Packages
<1>2. Outside
  BY <1>1 DEF Outside, Counts
<1>3. Inside
  BY DEF Inside, Tasks, Places, Calls
<1>4. Alone /\ InHand /\ Vacant /\ OneOperation
  BY DEF Alone, InHand, Vacant, OneOperation, Works, Working, Waiting, Resting
<1>5. RunningCurrent
  BY <1>1 DEF RunningCurrent, Current
<1> QED
  BY <1>2, <1>3, <1>4, <1>5 DEF Kept, TypeOK

\* The invariant is inductive.
LEMMA NextKept == Kept /\ [Next]_vars => Kept'
<1> SUFFICES ASSUME Kept, [Next]_vars PROVE Kept'
  OBVIOUS
<1>0. TypeOK'
  BY TypesStay
<1>1. ASSUME NEW n \in Instances, Save(n) PROVE Kept'
  BY <1>0, <1>1, SaveKeeps
<1>2. ASSUME NEW w \in writes, Written(w) \/ WriteFails(w) PROVE Kept'
  BY <1>0, <1>2, WriteKeeps
<1>3. CASE WritePast
  BY <1>0, <1>3, Beside, HasGuard, SoundStays
     DEF WritePast, manager, hooks, Kept, OneOperation, RunningCurrent, Current, InHand
<1>4. CASE Operation
  BY <1>0, <1>4, OperationKeeps, LoadsKeeps DEF Operation
<1>5. CASE Dispose \/ OthersSettle \/ SecondStarts
  BY <1>0, <1>5, DisposeKeeps, ReloadKeeps
<1>6. ASSUME NEW c \in Coordinators, Quiesce(c) \/ Activate(c) \/ Finish(c) PROVE Kept'
  BY <1>0, <1>6, CallKeeps DEF Quiesce, Activate, Finish, Calls
<1>7. ASSUME NEW c \in Coordinators,
             \/ Install(c) \/ Recover(c) \/ RecoverDisabled(c) \/ RecoverDrained(c)
             \/ RecoverRestored(c) \/ Unload(c) \/ UnloadDisabled(c) \/ UnloadDrained(c)
      PROVE  Kept'
  BY <1>0, <1>7, InstallKeeps, RecoverKeeps, RecoverDisabledKeeps, RecoverDrainedKeeps,
     RecoverRestoredKeeps, UnloadKeeps, UnloadDisabledKeeps, UnloadDrainedKeeps
<1>8. ASSUME NEW c \in Coordinators,
             \/ Verify(c) \/ ManifestRefreshed(c) \/ Protect(c) \/ Load(c) \/ Loaded(c) \/ Check(c)
      PROVE  Kept'
  BY <1>0, <1>8, VerifyKeeps, ManifestRefreshedKeeps, ProtectKeeps, LoadKeeps, LoadedKeeps,
     CheckKeeps
<1>9. CASE UNCHANGED vars
  BY <1>0, <1>9, SoundStays
     DEF vars, manager, files, hooks, Kept, Alone, Works, OneOperation, RunningCurrent, Current,
         InHand, Free, Vacant
<1> QED
  BY <1>1, <1>2, <1>3, <1>4, <1>5, <1>6, <1>7, <1>8, <1>9 DEF Next, Coordinator

\* Whatever the manager, the instances, the engine and a reload of Gib Sync do, the
\* coordinators keep the component's books: Kept holds in every reachable state.
THEOREM Invariance == Spec => []Kept
<1>1. Init => Kept
  BY InitKept
<1>2. Kept /\ [Next]_vars => Kept'
  BY NextKept
<1> QED
  BY <1>1, <1>2, PTL DEF Spec

\* The variables keep their types.
THEOREM TypeCorrect == Spec => []TypeOK
<1>1. Kept => TypeOK
  BY DEF Kept
<1> QED
  BY <1>1, Invariance, PTL

\* At most one operation on the plugin is under way, however many waits run out.
THEOREM OneAtATime == Spec => []OneOperationAtATime
<1>1. Kept => OneOperationAtATime
  <2> SUFFICES ASSUME Kept PROVE OneOperationAtATime
    OBVIOUS
  <2>1. CASE ops = {}
    BY <2>1, FS_EmptySet DEF OneOperationAtATime
  <2>2. CASE ops # {}
    <3>1. PICK o \in ops : TRUE
      BY <2>2
    <3>2. ops = {o}
      BY <3>1 DEF Kept, OneOperation
    <3> QED
      BY <3>2, FS_Singleton DEF OneOperationAtATime
  <2> QED
    BY <2>1, <2>2
<1> QED
  BY <1>1, Invariance, PTL

\* An instance in use, with its saves let through, was loaded from the package in
\* place with the settings its activation expected.
THEOREM ActiveAsVerified == Spec => []ActiveLoadedIncoming
<1>1. Kept => ActiveLoadedIncoming
  BY DEF Kept, InHand, Sound, ActiveLoadedIncoming
<1> QED
  BY <1>1, Invariance, PTL

\* No save in the guard's charge replaces settings of a package its instance was not
\* loaded from.
THEOREM SavesOfThePackage == Spec => []IncomingStands
<1>1. Kept => IncomingStands
  BY DEF Kept, InHand, Sound, Current, IncomingStands
<1> QED
  BY <1>1, Invariance, PTL


-----------------------------------------------------------------------------
(***************************************************************************)
(* The packages whose runtime this is: proofs about PackageInstall for any *)
(* versions, edits, device-local entries and bounds.  What PackageInstall  *)
(* assumes of its constants is a hypothesis here.  The types, and that     *)
(* nothing is lost (RecoveryLosesNothing).                                 *)
(*                                                                         *)
(* A directory is renamed, never copied, so the argument is a ledger of    *)
(* directories: what the record of the run says of the three places        *)
(* (RunIsOfTheRecord, DirectoriesInPlace), that one installation is open   *)
(* at a time (OneOpen), which contents an original can have (Originals),   *)
(* where the device-local entries are at each phase (Somewhere, Moved),    *)
(* and that the records a recovery is done with stay settled (Reviewed).   *)
(* NotYet is the part that is easy to miss: a recovery takes an            *)
(* installation for done when the package has its version, so before the   *)
(* rename of the stage the package must not have it.                       *)
(***************************************************************************)
CONSTANTS NoCode, First, Versions, Edits, Caches, MaxInstalls, MaxStops
VARIABLES deviceLocal, root, stage, backup, journal, run, audited, used, stops, written, tampered

\* Package!Cardinality is the Cardinality of FiniteSets, as PackageInstall has it.
Package == INSTANCE PackageInstall

\* The places of a run: before its record is on disk, with one, and on the way back.
Opening    == {"inspect", "fill", "prepare"}
Shared     == {"set-aside", "verify-original", "collect", "move", "guard-promotion", "promoting",
               "promote", "verify-promoted", "guard-finish", "finish"}
Retracting == {"retract", "reverse", "unpromote", "verify-unpromoted", "move-back", "restore"}
Journaled  == Shared \cup Retracting \cup {"recheck", "bring-back"}

\* A run, and the types.
Runs == [pc : {"idle", "next"} \cup Opening \cup Journaled,
         id : Package!Ids \cup {0}, j : Package!Records \cup {None},
         recovering : BOOLEAN, todo : SUBSET Package!Ids, back : {"fail", "next"}, clean : BOOLEAN]

TypeDisk == /\ root \in Package!Dirs \cup {None}
            /\ stage \in [Package!Ids -> Package!Dirs \cup {None}]
            /\ backup \in [Package!Ids -> Package!Dirs \cup {None}]
TypeRun  == journal \in [Package!Ids -> Package!Records \cup {None}] /\ run \in Runs
TypeRest == /\ deviceLocal \in BOOLEAN /\ audited \in BOOLEAN /\ tampered \in BOOLEAN
            /\ used \subseteq Edits /\ written \subseteq Caches /\ stops \in Nat
PackageTypeOK == TypeDisk /\ TypeRun /\ TypeRest

\* Where the run is; which records are unfinished, and which have nothing left to be done.
In(pcs)   == run.pc \in pcs
Open(i)   == journal[i] # None /\ journal[i].phase \in {"prepared", "backed-up", "promoting"}
IsSettled(i) == \/ journal[i] = None
                \/ journal[i].phase = "installed"
                \/ journal[i].phase = "local-changed" /\ backup[i] = None
Unmoved(i) == backup[i] # None => Package!Code(backup[i]) = journal[i].prior

\* The run and the record it works on.
RunIsOfTheRecord ==
    /\ In(Opening \cup Journaled) => run.id \in Package!Ids /\ run.j # None
    /\ In(Journaled) => journal[run.id] = run.j
    /\ In(Opening) => /\ journal[run.id] = None /\ run.j.phase = "prepared"
                      /\ run.j.prior # run.j.target
    /\ In({"set-aside", "verify-original", "collect"}) => run.j.phase = "prepared"
    /\ In({"move", "guard-promotion", "promoting", "promote", "verify-promoted", "guard-finish",
         "finish"}) => Open(run.id)
    /\ In({"promote", "verify-promoted"}) => run.j.phase = "promoting"
    /\ In(Retracting \ {"retract"}) => run.j.phase = "local-changed"
    /\ In(Opening \cup {"set-aside", "verify-original", "collect"}) => ~run.recovering
    /\ In({"idle", "recheck", "bring-back"}) => ~run.recovering
    /\ In(Retracting) /\ run.back = "next" => run.recovering
    /\ Package!At("next") => run.recovering

\* Which package this is.
KindOfPackage ==
    /\ deviceLocal => In({"idle", "next", "recheck", "bring-back"})
    /\ ~deviceLocal => ~In({"recheck", "bring-back"})
    /\ In({"recheck", "bring-back"}) => Package!Cardinality(Package!Candidates) = 1

\* The directories of the record under way.
DirectoriesInPlace ==
    /\ root # None => root.code # NoCode
    /\ \A i \in Package!Ids : backup[i] # None => backup[i].code # NoCode
    /\ \A i \in Package!Ids : journal[i] = None => backup[i] = None
         /\ Package!CacheOf(stage[i]) = {}
    /\ In({"set-aside"}) => backup[run.id] = None
    /\ In(Opening) => stage[run.id] # None
    /\ In({"prepare", "set-aside", "verify-original", "collect", "move", "guard-promotion",
         "promoting", "promote"}) =>
          stage[run.id] # None /\ stage[run.id].code = run.j.target
    /\ In({"move", "guard-promotion", "promoting", "promote"}) => run.j.target # NoCode
    /\ Package!At("unpromote") => root # None /\ stage[run.id] = None
    /\ In(Retracting) => backup[run.id] # None

\* At most one installation is open.
OneOpen ==
    /\ \A i, k \in Package!Ids : Open(i) /\ Open(k) => i = k
    /\ In(Opening) => \A i \in Package!Ids : ~Open(i)
    /\ audited /\ ~deviceLocal => Package!At("idle") /\ \A i \in Package!Ids : IsSettled(i)
         /\ Unmoved(i)

\* A recovery has every record still before it, or has settled it.
Pending == run.recovering => \A i \in run.todo : journal[i] # None
Reviewed ==
    run.recovering /\ ~deviceLocal =>
        \A i \in Package!Ids \ run.todo :
            Package!At("next") \/ i # run.id => IsSettled(i) /\ (run.clean => Unmoved(i))

\* What may be in an original.
Originals ==
    ~deviceLocal =>
        /\ \A i \in Package!Ids : journal[i] # None /\ backup[i] # None =>
               /\ backup[i].code \in {journal[i].prior} \cup Edits
               /\ journal[i].phase = "local-changed" => backup[i].code \in Edits
        /\ Package!At("set-aside") /\ root # None => root.code \in {run.j.prior} \cup Edits
        /\ In(Retracting) => backup[run.id].code \in Edits
        /\ Package!At("finish") /\ run.recovering /\ run.clean => Unmoved(run.id)
\* An installation that has not renamed its stage is not taken for done.
NotYet ==
    ~deviceLocal =>
        \A i \in Package!Ids : Open(i) /\ ~(journal[i].phase = "promoting" /\ stage[i] = None)
            => Package!Code(root) # journal[i].target \/ journal[i].target = NoCode
\* Device-local entries.
Somewhere ==
    \A c \in written :
        \/ c \in Package!CacheOf(root)
        \/ \E i \in Package!Ids : c \in Package!CacheOf(stage[i]) \cup Package!CacheOf(backup[i])
Moved ==
    ~deviceLocal =>
      /\ \A i \in Package!Ids : journal[i] # None /\ journal[i].phase = "prepared"
           /\ backup[i] = None =>
            Package!CacheOf(stage[i]) = {}
      /\ \A i \in Package!Ids : journal[i] # None /\ journal[i].target # NoCode =>
            /\ journal[i].phase = "promoting" /\ ~tampered => Package!CacheOf(backup[i]) = {}
            /\ journal[i].phase = "installed" /\ ~tampered => Package!CacheOf(backup[i]) = {}
                 /\ Package!CacheOf(stage[i]) = {}
            /\ journal[i].phase = "local-changed" /\ backup[i] = None =>
                  Package!CacheOf(stage[i]) \cap journal[i].unmanaged = {}
      /\ In({"set-aside", "verify-original", "collect"}) => Package!CacheOf(stage[run.id]) = {}
      /\ In({"move"}) /\ ~tampered => Package!CacheOf(backup[run.id]) \subseteq run.j.unmanaged
      /\ In({"guard-promotion", "promoting"}) /\ ~tampered => Package!CacheOf(backup[run.id]) = {}
      /\ In({"verify-promoted", "guard-finish", "finish"}) /\ run.j.target # NoCode /\ ~tampered =>
            Package!CacheOf(backup[run.id]) = {} /\ Package!CacheOf(stage[run.id]) = {}
      /\ Package!At("restore") => Package!CacheOf(stage[run.id]) \cap run.j.unmanaged = {}

\* The inductive invariant.
PackageInv == /\ PackageTypeOK /\ RunIsOfTheRecord /\ KindOfPackage /\ DirectoriesInPlace
                   /\ OneOpen /\ Pending /\ Reviewed
              /\ Originals /\ NotYet /\ Somewhere /\ Moved

\* The fields of the run, and what becomes of them when it goes on, ...
LEMMA Runnings ==
  ASSUME PackageTypeOK
  PROVE  /\ run \in Runs /\ run.id \in Package!Ids \cup {0} /\ run.j \in Package!Records \cup {None}
         /\ run.recovering \in BOOLEAN /\ run.todo \subseteq Package!Ids /\ run.clean \in BOOLEAN
         /\ run.back \in {"fail", "next"}
BY DEF PackageTypeOK, TypeRun, Runs

LEMMA Going ==
  ASSUME PackageTypeOK, NEW pc \in {"idle", "next"} \cup Opening \cup Journaled, Package!Go(pc)
  PROVE  /\ run' \in Runs /\ run'.pc = pc /\ run'.id = run.id /\ run'.j = run.j
         /\ run'.recovering = run.recovering /\ run'.todo = run.todo /\ run'.back = run.back
         /\ run'.clean = run.clean
BY DEF PackageTypeOK, TypeRun, Runs, Package!Go

\* ... goes on with another record ...
LEMMA GoingWith ==
  ASSUME PackageTypeOK, NEW pc \in {"idle", "next"} \cup Opening \cup Journaled,
         NEW j \in Package!Records, Package!GoWith(pc, j)
  PROVE  /\ run' \in Runs /\ run'.pc = pc /\ run'.id = run.id /\ run'.j = j
         /\ run'.recovering = run.recovering /\ run'.todo = run.todo /\ run'.back = run.back
         /\ run'.clean = run.clean
BY DEF PackageTypeOK, TypeRun, Runs, Package!GoWith

\* ... and is over.
LEMMA Ending ==
  /\ Package!Idle \in Runs /\ Package!Idle.pc = "idle" /\ Package!Idle.id = 0
       /\ Package!Idle.j = None /\ Package!Idle.recovering = FALSE
  /\ Package!Idle.todo = {} /\ Package!Idle.back = "fail" /\ Package!Idle.clean = TRUE
BY DEF Package!Idle, Runs

\* The record is written.
LEMMA Persisting ==
  ASSUME PackageTypeOK, run.id \in Package!Ids, NEW j \in Package!Records, Package!Persist(j)
  PROVE  /\ journal' \in [Package!Ids -> Package!Records \cup {None}] /\ journal'[run.id] = j
         /\ \A i \in Package!Ids : i # run.id => journal'[i] = journal[i]
BY DEF PackageTypeOK, TypeRun, Package!Persist

\* What a record is.
LEMMA RecordFacts ==
  ASSUME Package!NoneAssumption,
         NEW j \in Package!Records
  PROVE  /\ j # None /\ j.prior \in Package!Codes /\ j.target \in Versions \cup {NoCode}
              /\ j.unmanaged \subseteq Caches
         /\ j.phase \in {"prepared", "backed-up", "promoting", "installed", "local-changed"}
BY DEF Package!Records

\* The invariant in its parts.
LEMMA InvIs ==
  PackageInv' <=> /\ TypeDisk' /\ TypeRun' /\ TypeRest' /\ RunIsOfTheRecord' /\ KindOfPackage'
                       /\ DirectoriesInPlace' /\ OneOpen'
                  /\ Pending' /\ Reviewed' /\ Originals' /\ NotYet' /\ Somewhere' /\ Moved'
BY DEF PackageInv, PackageTypeOK

\* An error: everything stays where it is.
LEMMA FailStep ==
  ASSUME PackageInv, Package!Fail,
         UNCHANGED <<deviceLocal, Package!disk, journal, audited, Package!writes>>, stops' \in Nat
  PROVE  PackageInv'
<1>0. /\ run'.pc = "idle" /\ run' \in Runs /\ run'.recovering = FALSE BY Ending DEF Package!Fail
<1> USE DEF Package!disk, Package!writes
<1>1. TypeDisk' /\ TypeRun' /\ TypeRest'
  BY <1>0
     DEF PackageInv, PackageTypeOK, TypeDisk, TypeRun, TypeRest
<1>2. RunIsOfTheRecord'
  BY <1>0
     DEF RunIsOfTheRecord, In, Package!At, Opening, Journaled, Shared, Retracting
<1>3. KindOfPackage' BY <1>0 DEF KindOfPackage, In
<1>4. DirectoriesInPlace'
  BY <1>0
     DEF PackageInv, DirectoriesInPlace, In, Package!At, Opening, Journaled, Shared, Retracting,
         Package!CacheOf
<1>5. OneOpen'
  BY <1>0
     DEF PackageInv, OneOpen, Open, IsSettled, Unmoved, Package!Code, In, Package!At, Opening
<1>6. Reviewed' /\ Pending' BY <1>0 DEF Reviewed, Pending
<1>7. Originals' BY <1>0 DEF PackageInv, Originals, In, Package!At, Retracting
<1>8. NotYet' BY DEF PackageInv, NotYet, Open, Package!Code
<1>9. Somewhere' BY DEF PackageInv, Somewhere, Package!CacheOf
<1>10. Moved' BY <1>0 DEF PackageInv, Moved, Package!CacheOf, In, Package!At
<1> QED BY <1>1, <1>2, <1>3, <1>4, <1>5, <1>6, <1>7, <1>8, <1>9, <1>10, InvIs

\* The package is looked at again, ...
LEMMA InspectStep ==
  ASSUME Package!NoneAssumption, PackageInv, Package!Inspect,
         UNCHANGED <<deviceLocal, stops, Package!writes>>
  PROVE  PackageInv'
<1>1. CASE Package!Fail BY <1>1, FailStep DEF Package!Inspect, PackageInv, PackageTypeOK, TypeRest
<1>2. CASE Package!GoWith("fill", [run.j EXCEPT !.unmanaged = Package!CacheOf(root)])
  <2> DEFINE j == [run.j EXCEPT !.unmanaged = Package!CacheOf(root)]
  <2>0. /\ PackageTypeOK /\ run.pc = "inspect" /\ run.id \in Package!Ids
             /\ run.j \in Package!Records
        /\ UNCHANGED <<root, stage, backup, journal, audited, deviceLocal, stops, used, written,
             tampered>>
    BY Runnings
       DEF PackageInv, Package!Inspect, RunIsOfTheRecord, Package!At, In, Opening, Package!disk,
           Package!writes
  <2>1. Package!CacheOf(root) \subseteq Caches
    BY <2>0
       DEF PackageTypeOK, TypeDisk, Package!CacheOf, Package!Dirs
  <2>2. /\ j \in Package!Records /\ j.phase = run.j.phase /\ j.prior = run.j.prior
             /\ j.target = run.j.target
    BY <2>0, <2>1 DEF Package!Records
  <2> HIDE DEF j
  <2>3. /\ run' \in Runs /\ run'.pc = "fill" /\ run'.id = run.id /\ run'.j = j
        /\ run'.recovering = run.recovering
    BY <1>2, <2>0, <2>2, GoingWith DEF Opening, j
  <2>4. TypeDisk' /\ TypeRun' /\ TypeRest'
    BY <2>0, <2>3
       DEF PackageTypeOK, TypeDisk, TypeRun, TypeRest
  <2>5. RunIsOfTheRecord'
    BY <2>0, <2>2, <2>3, RecordFacts
       DEF PackageInv, RunIsOfTheRecord, In, Package!At, Opening, Journaled, Shared, Retracting
  <2>6. KindOfPackage' BY <2>0, <2>3 DEF PackageInv, KindOfPackage, In
  <2>7. DirectoriesInPlace'
    BY <2>0, <2>2, <2>3
       DEF PackageInv, DirectoriesInPlace, In, Package!At, Opening, Journaled, Shared,
           Retracting, Package!CacheOf
  <2>8. OneOpen'
    BY <2>0, <2>2, <2>3
       DEF PackageInv, OneOpen, Open, IsSettled, Unmoved, Package!Code, In, Package!At, Opening
  <2>14. Pending' BY <2>0, <2>2, <2>3 DEF PackageInv, Pending, RunIsOfTheRecord, In, Opening
  <2>9. Reviewed'
    BY <2>0, <2>2, <2>3
       DEF PackageInv, Reviewed, RunIsOfTheRecord, In, Opening, Package!At
  <2>10. Originals' BY <2>0, <2>2, <2>3 DEF PackageInv, Originals, In, Package!At, Retracting
  <2>11. NotYet' BY <2>0 DEF PackageInv, NotYet, Open, Package!Code
  <2>12. Somewhere' BY <2>0 DEF PackageInv, Somewhere, Package!CacheOf
  <2>13. Moved' BY <2>0, <2>2, <2>3 DEF PackageInv, Moved, Package!CacheOf, In, Package!At
  <2> QED BY <2>4, <2>5, <2>6, <2>7, <2>8, <2>9, <2>10, <2>11, <2>12, <2>13, <2>14, InvIs
<1> QED BY <1>1, <1>2 DEF Package!Inspect

\* Where a run may be, by the kind of its step.
LEMMA RunShared ==
  ASSUME run'.pc \in Shared, run'.id \in Package!Ids, run'.j # None, (journal[run.id])' = run'.j,
         run'.pc \in {"set-aside", "verify-original", "collect"} => run'.j.phase = "prepared"
           /\ ~run'.recovering,
         run'.pc \notin {"set-aside", "verify-original", "collect"} =>
            run'.j.phase \in {"prepared", "backed-up", "promoting"},
         run'.pc \in {"promote", "verify-promoted"} => run'.j.phase = "promoting"
  PROVE  RunIsOfTheRecord'
<1>1. /\ run'.pc \notin Opening /\ run'.pc \notin Retracting
      /\ run'.pc \notin {"idle", "next", "recheck", "bring-back"} /\ run'.pc \in Journaled
  BY DEF Shared, Opening, Retracting, Journaled
<1>2. run'.pc \notin {"set-aside", "verify-original", "collect"} => Open(run.id)'
  BY DEF Open
<1>3. run'.pc \in {"move", "guard-promotion", "promoting", "promote", "verify-promoted",
        "guard-finish", "finish"}
      => run'.pc \notin {"set-aside", "verify-original", "collect"}
  OBVIOUS
<1> QED BY <1>1, <1>2, <1>3 DEF RunIsOfTheRecord, In, Package!At

LEMMA RunRetracting ==
  ASSUME run'.pc \in Retracting, run'.id \in Package!Ids, run'.j # None,
         (journal[run.id])' = run'.j,
         run'.pc = "retract" \/ run'.j.phase = "local-changed",
         run'.back = "next" => run'.recovering
  PROVE  RunIsOfTheRecord'
<1>1. /\ run'.pc \notin Opening /\ run'.pc \notin Shared
      /\ run'.pc \notin {"idle", "next", "recheck", "bring-back"} /\ run'.pc \in Journaled
      /\ run'.pc \notin {"set-aside", "verify-original", "collect", "move", "guard-promotion",
           "promoting",
                         "promote", "verify-promoted", "guard-finish", "finish"}
  BY DEF Shared, Opening, Retracting, Journaled
<1> QED BY <1>1 DEF RunIsOfTheRecord, In, Package!At

\* A recovery is between two records.
LEMMA RunNext ==
  ASSUME run'.pc = "next", run'.recovering
  PROVE  RunIsOfTheRecord'
BY DEF RunIsOfTheRecord, In, Package!At, Shared, Opening, Retracting, Journaled

\* The facts an action of the installer starts from.
LEMMA Underway ==
  ASSUME PackageInv, NEW pc \in Opening \cup Journaled, run.pc = pc,
         UNCHANGED <<deviceLocal, stops, Package!writes>>
  PROVE  /\ PackageTypeOK /\ run.id \in Package!Ids /\ run.j \in Package!Records /\ run.j # None
         /\ UNCHANGED <<deviceLocal, stops, used, written, tampered>>
         /\ pc \notin {"recheck", "bring-back"} => ~deviceLocal
         /\ pc \in Journaled => journal[run.id] = run.j
         /\ run.recovering \in BOOLEAN /\ run.todo \subseteq Package!Ids /\ run.clean \in BOOLEAN
         /\ stage[run.id] \in Package!Dirs \cup {None}
              /\ backup[run.id] \in Package!Dirs \cup {None}
<1>1. PackageTypeOK /\ run.id \in Package!Ids /\ run.j # None
  BY DEF PackageInv, RunIsOfTheRecord, In
<1>2. pc \notin {"recheck", "bring-back"} => ~deviceLocal
  BY DEF PackageInv, KindOfPackage, In, Opening, Journaled, Shared, Retracting
<1>3. pc \in Journaled => journal[run.id] = run.j BY DEF PackageInv, RunIsOfTheRecord, In
<1> QED BY <1>1, <1>2, <1>3, Runnings DEF Package!writes, PackageTypeOK, TypeDisk

\* What a directory is.
LEMMA DirectoryFacts ==
  ASSUME Package!NoneAssumption,
         NEW d \in Package!Dirs \cup {None}
  PROVE  /\ Package!CacheOf(d) \subseteq Caches /\ Package!Code(d) \in Package!Codes
         /\ d # None => d \in Package!Dirs /\ d.code \in Package!Codes
              /\ d.cache \subseteq Caches /\ Package!Code(d) = d.code
                        /\ Package!CacheOf(d) = d.cache
         /\ d = None => Package!Code(d) = NoCode /\ Package!CacheOf(d) = {}
BY DEF Package!CacheOf, Package!Code, Package!Dirs, Package!Codes

\* ... the new version is downloaded ...
LEMMA FillStep ==
  ASSUME Package!NoneAssumption, PackageInv, Package!Fill,
         UNCHANGED <<deviceLocal, stops, Package!writes>>
  PROVE  PackageInv'
<1>0. /\ PackageTypeOK /\ run.pc = "fill" /\ run.id \in Package!Ids /\ run.j \in Package!Records
      /\ ~deviceLocal /\ run.recovering \in BOOLEAN
      /\ UNCHANGED <<root, backup, journal, audited, deviceLocal, stops, used, written, tampered>>
  BY Underway DEF Package!Fill, Package!At, Opening
<1>1. /\ run' \in Runs /\ run'.pc = "prepare" /\ run'.id = run.id /\ run'.j = run.j
      /\ run'.recovering = run.recovering
  BY <1>0, Going DEF Package!Fill, Opening
<1>2. stage[run.id] \in Package!Dirs
  BY <1>0
     DEF PackageInv, DirectoriesInPlace, In, Opening, PackageTypeOK, TypeDisk
<1>3. run.j.target \in Package!Codes BY <1>0, RecordFacts DEF Package!Codes
<1>4. /\ stage' \in [Package!Ids -> Package!Dirs \cup {None}] /\ stage'[run.id] # None
           /\ stage'[run.id].code = run.j.target
      /\ stage'[run.id].cache = stage[run.id].cache /\ stage[run.id] # None
      /\ \A i \in Package!Ids : i # run.id => stage'[i] = stage[i]
  <2> DEFINE d == [stage[run.id] EXCEPT !.code = run.j.target]
  <2>1. d \in Package!Dirs /\ d.code = run.j.target /\ d.cache = stage[run.id].cache
    BY <1>2, <1>3
       DEF Package!Dirs
  <2>2. stage' = [stage EXCEPT ![run.id] = d] BY DEF Package!Fill
  <2> HIDE DEF d
  <2> QED BY <1>0, <1>2, <2>1, <2>2 DEF PackageTypeOK, TypeDisk
<1>5. \A i \in Package!Ids : Package!CacheOf(stage'[i]) = Package!CacheOf(stage[i])
        /\ (stage'[i] = None <=> stage[i] = None)
  BY <1>4 DEF Package!CacheOf
<1>6. ~run.recovering BY <1>0 DEF PackageInv, RunIsOfTheRecord, In, Opening
<1>7. TypeDisk' BY <1>0, <1>1, <1>4, <1>5, <1>6 DEF PackageTypeOK, TypeDisk
<1>8. TypeRun' BY <1>0, <1>1, <1>4, <1>5, <1>6 DEF PackageTypeOK, TypeRun
<1>9. TypeRest' BY <1>0, <1>1, <1>4, <1>5, <1>6 DEF PackageTypeOK, TypeRest
<1>10. RunIsOfTheRecord'
  BY <1>0, <1>1, <1>4, <1>5, <1>6, RecordFacts
     DEF PackageInv, RunIsOfTheRecord, Open, In, Package!At, Opening, Journaled, Shared,
         Retracting
<1>11. KindOfPackage'
  BY <1>0, <1>1, <1>4, <1>5, <1>6
     DEF PackageInv, KindOfPackage, In, Opening, Journaled, Shared, Retracting
<1>12. DirectoriesInPlace'
  BY <1>0, <1>1, <1>4, <1>5, <1>6
     DEF PackageInv, DirectoriesInPlace, In, Package!At, Opening, Journaled, Shared, Retracting,
         Package!CacheOf
<1>13. OneOpen'
  BY <1>0, <1>1, <1>4, <1>5, <1>6
     DEF PackageInv, OneOpen, Open, IsSettled, Unmoved, Package!Code, In, Package!At, Opening
<1>14. Pending' BY <1>0, <1>1, <1>4, <1>5, <1>6, Runnings DEF PackageInv, Pending
<1>15. Reviewed'
  BY <1>0, <1>1, <1>4, <1>5, <1>6
     DEF PackageInv, Reviewed, IsSettled, Unmoved, Package!Code, In, Opening, Package!At
<1>16. Originals'
  BY <1>0, <1>1, <1>4, <1>5, <1>6
     DEF PackageInv, Originals, Unmoved, Package!Code, In, Package!At, Retracting
<1>17. NotYet' BY <1>0, <1>1, <1>4, <1>5, <1>6 DEF PackageInv, NotYet, Open, Package!Code
<1>18. Somewhere' BY <1>0, <1>1, <1>4, <1>5, <1>6 DEF PackageInv, Somewhere, Package!CacheOf
<1>19. Moved' BY <1>0, <1>1, <1>4, <1>5, <1>6 DEF PackageInv, Moved, Package!CacheOf, In, Package!At
<1> QED
  BY <1>7, <1>8, <1>9, <1>10, <1>11, <1>12, <1>13, <1>14, <1>15, <1>16, <1>17, <1>18, <1>19,
     InvIs

\* A record that is written as the run has it.
LEMMA PrepareStep ==
  ASSUME Package!NoneAssumption, PackageInv, Package!Prepare,
         UNCHANGED <<deviceLocal, stops, Package!writes>>
  PROVE  PackageInv'
<1>0. /\ PackageTypeOK /\ run.pc = "prepare" /\ run.id \in Package!Ids /\ run.j \in Package!Records
      /\ ~deviceLocal /\ run.recovering \in BOOLEAN
      /\ UNCHANGED <<root, stage, backup, audited, deviceLocal, stops, used, written, tampered>>
  BY Underway DEF Package!Prepare, Package!At, Opening, Package!disk
<1>1. CASE Package!Fail /\ UNCHANGED journal
  BY <1>1, FailStep DEF Package!Prepare, PackageInv, PackageTypeOK, TypeRest
<1>2. CASE Package!Code(root) = run.j.prior /\ Package!Persist(run.j) /\ Package!Go("set-aside")
  <2>1. /\ run' \in Runs /\ run'.pc = "set-aside" /\ run'.id = run.id /\ run'.j = run.j
        /\ run'.recovering = run.recovering
    BY <1>0, <1>2, Going DEF Journaled, Shared
  <2>2. /\ journal' \in [Package!Ids -> Package!Records \cup {None}]
             /\ journal'[run.id] = run.j /\ run.j # None
        /\ \A i \in Package!Ids : i # run.id => journal'[i] = journal[i]
    BY <1>0, <1>2, Persisting, RecordFacts
  <2>3. /\ journal[run.id] = None /\ backup[run.id] = None /\ Package!CacheOf(stage[run.id]) = {}
        /\ run.j.phase = "prepared" /\ run.j.prior # run.j.target /\ ~run.recovering
        /\ (\A i \in Package!Ids : ~Open(i)) /\ ~audited
        /\ stage[run.id] # None /\ stage[run.id].code = run.j.target
    BY <1>0 DEF PackageInv, RunIsOfTheRecord, DirectoriesInPlace, OneOpen, In, Package!At, Opening
  <2>4. TypeDisk' BY <1>0, <1>2, <2>1, <2>2, <2>3 DEF PackageTypeOK, TypeDisk
  <2>5. TypeRun' BY <1>0, <1>2, <2>1, <2>2, <2>3 DEF PackageTypeOK, TypeRun
  <2>6. TypeRest' BY <1>0, <1>2, <2>1, <2>2, <2>3 DEF PackageTypeOK, TypeRest
  <2>7. RunIsOfTheRecord'
    BY <1>0, <1>2, <2>1, <2>2, <2>3, RunShared DEF Shared
  <2>8. KindOfPackage'
    BY <1>0, <1>2, <2>1, <2>2, <2>3
       DEF PackageInv, KindOfPackage, In, Opening, Journaled, Shared, Retracting
  <2>9. DirectoriesInPlace'
    BY <1>0, <1>2, <2>1, <2>2, <2>3
       DEF PackageInv, DirectoriesInPlace, In, Package!At, Opening, Journaled, Shared,
           Retracting, Package!CacheOf
  <2>10. OneOpen'
    BY <1>0, <1>2, <2>1, <2>2, <2>3
       DEF PackageInv, OneOpen, Open, IsSettled, Unmoved, Package!Code, In, Package!At, Opening
  <2>11. Pending' BY <1>0, <1>2, <2>1, <2>2, <2>3, Runnings DEF PackageInv, Pending
  <2>12. Reviewed'
    BY <1>0, <1>2, <2>1, <2>2, <2>3
       DEF PackageInv, Reviewed, IsSettled, Unmoved, Package!Code, In, Opening, Package!At
  <2>13. Originals'
    BY <1>0, <1>2, <2>1, <2>2, <2>3
       DEF PackageInv, Originals, Unmoved, Package!Code, In, Package!At, Retracting
  <2>14. NotYet' BY <1>0, <1>2, <2>1, <2>2, <2>3 DEF PackageInv, NotYet, Open, Package!Code
  <2>15. Somewhere' BY <1>0, <1>2, <2>1, <2>2, <2>3 DEF PackageInv, Somewhere, Package!CacheOf
  <2>16. Moved'
    BY <1>0, <1>2, <2>1, <2>2, <2>3
       DEF PackageInv, Moved, Package!CacheOf, In, Package!At
  <2> QED
    BY <2>4, <2>5, <2>6, <2>7, <2>8, <2>9, <2>10, <2>11, <2>12, <2>13, <2>14, <2>15, <2>16,
       InvIs
<1> QED BY <1>1, <1>2 DEF Package!Prepare

\* The package is renamed, ...
LEMMA SetAsideStep ==
  ASSUME Package!NoneAssumption, PackageInv, Package!SetAside,
         UNCHANGED <<deviceLocal, stops, Package!writes>>
  PROVE  PackageInv'
<1>0. /\ PackageTypeOK /\ run.pc = "set-aside" /\ run.id \in Package!Ids
           /\ run.j \in Package!Records /\ run.j # None
      /\ ~deviceLocal /\ run.recovering \in BOOLEAN /\ journal[run.id] = run.j
      /\ UNCHANGED <<stage, journal, audited, deviceLocal, stops, used, written, tampered>>
  BY Underway DEF Package!SetAside, Package!At, Journaled, Shared
<1>1. /\ backup[run.id] = None /\ ~run.recovering /\ ~audited
      /\ stage[run.id] # None /\ stage[run.id].code = run.j.target /\ run.j.phase = "prepared"
      /\ Package!CacheOf(stage[run.id]) = {}
  BY <1>0
     DEF PackageInv, RunIsOfTheRecord, DirectoriesInPlace, OneOpen, Moved, In, Package!At,
         Opening
<1>2. CASE root = None /\ Package!Go("collect") /\ UNCHANGED <<root, backup>>
  <2>1. /\ run' \in Runs /\ run'.pc = "collect" /\ run'.id = run.id /\ run'.j = run.j
        /\ run'.recovering = run.recovering
    BY <1>0, <1>2, Going DEF Journaled, Shared
  <2>2. TypeDisk' BY <1>0, <1>1, <1>2, <2>1 DEF PackageTypeOK, TypeDisk
  <2>3. TypeRun' BY <1>0, <1>1, <1>2, <2>1 DEF PackageTypeOK, TypeRun
  <2>4. TypeRest' BY <1>0, <1>1, <1>2, <2>1 DEF PackageTypeOK, TypeRest
  <2>5. RunIsOfTheRecord'
    BY <1>0, <1>1, <1>2, <2>1, RunShared DEF Shared
  <2>6. KindOfPackage'
    BY <1>0, <1>1, <1>2, <2>1
       DEF PackageInv, KindOfPackage, In, Opening, Journaled, Shared, Retracting
  <2>7. DirectoriesInPlace'
    BY <1>0, <1>1, <1>2, <2>1
       DEF PackageInv, DirectoriesInPlace, In, Package!At, Opening, Journaled, Shared,
           Retracting, Package!CacheOf
  <2>8. OneOpen'
    BY <1>0, <1>1, <1>2, <2>1
       DEF PackageInv, OneOpen, Open, IsSettled, Unmoved, Package!Code, In, Package!At, Opening
  <2>9. Pending' BY <1>0, <1>1, <1>2, <2>1, Runnings DEF PackageInv, Pending
  <2>10. Reviewed'
    BY <1>0, <1>1, <1>2, <2>1
       DEF PackageInv, Reviewed, IsSettled, Unmoved, Package!Code, In, Opening, Package!At
  <2>11. Originals'
    BY <1>0, <1>1, <1>2, <2>1
       DEF PackageInv, Originals, Unmoved, Package!Code, In, Package!At, Retracting
  <2>12. NotYet' BY <1>0, <1>1, <1>2, <2>1 DEF PackageInv, NotYet, Open, Package!Code
  <2>13. Somewhere' BY <1>0, <1>1, <1>2, <2>1 DEF PackageInv, Somewhere, Package!CacheOf
  <2>14. Moved' BY <1>0, <1>1, <1>2, <2>1 DEF PackageInv, Moved, Package!CacheOf, In, Package!At
  <2> QED
    BY <2>2, <2>3, <2>4, <2>5, <2>6, <2>7, <2>8, <2>9, <2>10, <2>11, <2>12, <2>13, <2>14, InvIs
<1>3. CASE /\ root # None /\ backup' = [backup EXCEPT ![run.id] = root]
           /\ root' = None /\ Package!Go("verify-original")
  <2>1. /\ run' \in Runs /\ run'.pc = "verify-original" /\ run'.id = run.id /\ run'.j = run.j
        /\ run'.recovering = run.recovering
    BY <1>0, <1>3, Going DEF Journaled, Shared
  <2>2. /\ backup' \in [Package!Ids -> Package!Dirs \cup {None}] /\ backup'[run.id] = root
        /\ \A i \in Package!Ids : i # run.id => backup'[i] = backup[i]
    BY <1>0, <1>3 DEF PackageTypeOK, TypeDisk
  <2>3. TypeDisk' BY <1>0, <1>1, <1>3, <2>1, <2>2 DEF PackageTypeOK, TypeDisk
  <2>4. TypeRun' BY <1>0, <1>1, <1>3, <2>1, <2>2 DEF PackageTypeOK, TypeRun
  <2>5. TypeRest' BY <1>0, <1>1, <1>3, <2>1, <2>2 DEF PackageTypeOK, TypeRest
  <2>6. RunIsOfTheRecord'
    BY <1>0, <1>1, <1>3, <2>1, <2>2, RunShared DEF Shared
  <2>7. KindOfPackage'
    BY <1>0, <1>1, <1>3, <2>1, <2>2
       DEF PackageInv, KindOfPackage, In, Opening, Journaled, Shared, Retracting
  <2>8. DirectoriesInPlace'
    BY <1>0, <1>1, <1>3, <2>1, <2>2
       DEF PackageInv, DirectoriesInPlace, In, Package!At, Opening, Journaled, Shared,
           Retracting, Package!CacheOf
  <2>9. OneOpen'
    BY <1>0, <1>1, <1>3, <2>1, <2>2
       DEF PackageInv, OneOpen, Open, IsSettled, Unmoved, Package!Code, In, Package!At, Opening
  <2>10. Pending' BY <1>0, <1>1, <1>3, <2>1, <2>2, Runnings DEF PackageInv, Pending
  <2>11. Reviewed'
    BY <1>0, <1>1, <1>3, <2>1, <2>2
       DEF PackageInv, Reviewed, IsSettled, Unmoved, Package!Code, In, Opening, Package!At
  <2>12. Originals'
    BY <1>0, <1>1, <1>3, <2>1, <2>2
       DEF PackageInv, Originals, Unmoved, Package!Code, In, Package!At, Retracting
  <2>13. NotYet'
    BY <1>0, <1>1, <1>3, <2>1, <2>2, RecordFacts
       DEF PackageInv, NotYet, Open, Package!Code
  <2>14. Somewhere' BY <1>0, <1>1, <1>3, <2>1, <2>2 DEF PackageInv, Somewhere, Package!CacheOf
  <2>15. Moved'
    BY <1>0, <1>1, <1>3, <2>1, <2>2
       DEF PackageInv, Moved, Package!CacheOf, In, Package!At
  <2> QED
    BY <2>3, <2>4, <2>5, <2>6, <2>7, <2>8, <2>9, <2>10, <2>11, <2>12, <2>13, <2>14, <2>15, InvIs
<1> QED BY <1>2, <1>3 DEF Package!SetAside

\* ... compared with what it was, ...
LEMMA VerifyOriginalStep ==
  ASSUME Package!CodesAssumption, Package!NoneAssumption, PackageInv, Package!VerifyOriginal,
         UNCHANGED <<deviceLocal, stops, Package!writes>>
  PROVE  PackageInv'
<1>0. /\ PackageTypeOK /\ run.pc = "verify-original" /\ run.id \in Package!Ids
           /\ run.j \in Package!Records /\ run.j # None
      /\ ~deviceLocal /\ run.recovering \in BOOLEAN /\ journal[run.id] = run.j
      /\ UNCHANGED <<stage, journal, audited, deviceLocal, stops, used, written, tampered>>
  BY Underway DEF Package!VerifyOriginal, Package!At, Journaled, Shared
<1>1. /\ ~run.recovering /\ ~audited
      /\ stage[run.id] # None /\ stage[run.id].code = run.j.target /\ run.j.phase = "prepared"
      /\ Package!CacheOf(stage[run.id]) = {}
  BY <1>0
     DEF PackageInv, RunIsOfTheRecord, DirectoriesInPlace, OneOpen, Moved, In, Package!At,
         Opening
<1>2. CASE Package!Go("collect") /\ UNCHANGED <<root, backup>>
  <2>1. /\ run' \in Runs /\ run'.pc = "collect" /\ run'.id = run.id /\ run'.j = run.j
        /\ run'.recovering = run.recovering
    BY <1>0, <1>2, Going DEF Journaled, Shared
  <2>2. TypeDisk' BY <1>0, <1>1, <1>2, <2>1 DEF PackageTypeOK, TypeDisk
  <2>3. TypeRun' BY <1>0, <1>1, <1>2, <2>1 DEF PackageTypeOK, TypeRun
  <2>4. TypeRest' BY <1>0, <1>1, <1>2, <2>1 DEF PackageTypeOK, TypeRest
  <2>5. RunIsOfTheRecord'
    BY <1>0, <1>1, <1>2, <2>1, RunShared DEF Shared
  <2>6. KindOfPackage'
    BY <1>0, <1>1, <1>2, <2>1
       DEF PackageInv, KindOfPackage, In, Opening, Journaled, Shared, Retracting
  <2>7. DirectoriesInPlace'
    BY <1>0, <1>1, <1>2, <2>1
       DEF PackageInv, DirectoriesInPlace, In, Package!At, Opening, Journaled, Shared,
           Retracting, Package!CacheOf
  <2>8. OneOpen'
    BY <1>0, <1>1, <1>2, <2>1
       DEF PackageInv, OneOpen, Open, IsSettled, Unmoved, Package!Code, In, Package!At, Opening
  <2>9. Pending' BY <1>0, <1>1, <1>2, <2>1, Runnings DEF PackageInv, Pending
  <2>10. Reviewed'
    BY <1>0, <1>1, <1>2, <2>1
       DEF PackageInv, Reviewed, IsSettled, Unmoved, Package!Code, In, Opening, Package!At
  <2>11. Originals'
    BY <1>0, <1>1, <1>2, <2>1
       DEF PackageInv, Originals, Unmoved, Package!Code, In, Package!At, Retracting
  <2>12. NotYet' BY <1>0, <1>1, <1>2, <2>1 DEF PackageInv, NotYet, Open, Package!Code
  <2>13. Somewhere' BY <1>0, <1>1, <1>2, <2>1 DEF PackageInv, Somewhere, Package!CacheOf
  <2>14. Moved' BY <1>0, <1>1, <1>2, <2>1 DEF PackageInv, Moved, Package!CacheOf, In, Package!At
  <2> QED
    BY <2>2, <2>3, <2>4, <2>5, <2>6, <2>7, <2>8, <2>9, <2>10, <2>11, <2>12, <2>13, <2>14, InvIs
<1>3. CASE Package!Fail /\ UNCHANGED <<root, backup>>
  BY <1>0, <1>3, FailStep DEF Package!disk, Package!writes, PackageTypeOK, TypeRest
<1>4. CASE /\ Package!Changed /\ Package!Fail /\ root = None
           /\ root' = Package!Original /\ backup' = [backup EXCEPT ![run.id] = None]
  <2>1. /\ run' \in Runs /\ run'.pc = "idle" /\ ~run'.recovering BY <1>4, Ending DEF Package!Fail
  <2>2. /\ backup' \in [Package!Ids -> Package!Dirs \cup {None}] /\ backup'[run.id] = None
        /\ \A i \in Package!Ids : i # run.id => backup'[i] = backup[i]
    BY <1>0, <1>4 DEF PackageTypeOK, TypeDisk
  <2>3. backup[run.id] # None /\ backup[run.id].code # run.j.prior /\ root' = backup[run.id]
          /\ root' \in Package!Dirs
    BY <1>0, <1>4 DEF Package!Changed, Package!Original, Package!Code, PackageTypeOK, TypeDisk
  <2>4. root'.code \in Edits BY <1>0, <2>3 DEF PackageInv, Originals
  <2>5. root'.code # NoCode /\ \A i \in Package!Ids : journal[i] # None
          => root'.code # journal[i].target
    BY <1>0, <2>4, RecordFacts DEF PackageTypeOK, TypeRun
  <2>6. TypeDisk' BY <1>0, <1>1, <1>4, <2>1, <2>2, <2>3, <2>5 DEF PackageTypeOK, TypeDisk
  <2>7. TypeRun' BY <1>0, <1>1, <1>4, <2>1, <2>2, <2>3, <2>5 DEF PackageTypeOK, TypeRun
  <2>8. TypeRest' BY <1>0, <1>1, <1>4, <2>1, <2>2, <2>3, <2>5 DEF PackageTypeOK, TypeRest
  <2>9. RunIsOfTheRecord'
    BY <1>0, <1>1, <1>4, <2>1, <2>2, <2>3, <2>5, RecordFacts
       DEF PackageInv, RunIsOfTheRecord, Open, In, Package!At, Opening, Journaled, Shared,
           Retracting
  <2>10. KindOfPackage'
    BY <1>0, <1>1, <1>4, <2>1, <2>2, <2>3, <2>5
       DEF PackageInv, KindOfPackage, In, Opening, Journaled, Shared, Retracting
  <2>11. DirectoriesInPlace'
    BY <1>0, <1>1, <1>4, <2>1, <2>2, <2>3, <2>5
       DEF PackageInv, DirectoriesInPlace, In, Package!At, Opening, Journaled, Shared,
           Retracting, Package!CacheOf
  <2>12. OneOpen'
    BY <1>0, <1>1, <1>4, <2>1, <2>2, <2>3, <2>5
       DEF PackageInv, OneOpen, Open, IsSettled, Unmoved, Package!Code, In, Package!At, Opening
  <2>13. Pending' BY <1>0, <1>1, <1>4, <2>1, <2>2, <2>3, <2>5, Runnings DEF PackageInv, Pending
  <2>14. Reviewed'
    BY <1>0, <1>1, <1>4, <2>1, <2>2, <2>3, <2>5
       DEF PackageInv, Reviewed, IsSettled, Unmoved, Package!Code, In, Opening, Package!At
  <2>15. Originals'
    BY <1>0, <1>1, <1>4, <2>1, <2>2, <2>3, <2>5
       DEF PackageInv, Originals, Unmoved, Package!Code, In, Package!At, Retracting
  <2>16. NotYet'
    BY <1>0, <1>1, <1>4, <2>1, <2>2, <2>3, <2>5
       DEF PackageInv, NotYet, Open, Package!Code
  <2>17. Somewhere'
    BY <1>0, <1>1, <1>4, <2>1, <2>2, <2>3, <2>5
       DEF PackageInv, Somewhere, Package!CacheOf
  <2>18. Moved'
    BY <1>0, <1>1, <1>4, <2>1, <2>2, <2>3, <2>5
       DEF PackageInv, Moved, Package!CacheOf, In, Package!At
  <2> QED
    BY <2>6, <2>7, <2>8, <2>9, <2>10, <2>11, <2>12, <2>13, <2>14, <2>15, <2>16, <2>17, <2>18,
       InvIs
<1> QED BY <1>2, <1>3, <1>4 DEF Package!VerifyOriginal

\* ... its device-local entries are listed ...
LEMMA CollectStep ==
  ASSUME Package!NoneAssumption, PackageInv, Package!Collect,
         UNCHANGED <<deviceLocal, stops, Package!writes>>
  PROVE  PackageInv'
<1>0. /\ PackageTypeOK /\ run.pc = "collect" /\ run.id \in Package!Ids
           /\ run.j \in Package!Records /\ run.j # None
      /\ ~deviceLocal /\ run.recovering \in BOOLEAN /\ journal[run.id] = run.j
      /\ backup[run.id] \in Package!Dirs \cup {None}
      /\ UNCHANGED <<root, stage, backup, audited, deviceLocal, stops, used, written, tampered>>
  BY Underway DEF Package!Collect, Package!At, Journaled, Shared, Package!disk
<1>1. /\ ~run.recovering /\ ~audited
      /\ stage[run.id] # None /\ stage[run.id].code = run.j.target /\ run.j.phase = "prepared"
      /\ Package!CacheOf(stage[run.id]) = {}
  BY <1>0
     DEF PackageInv, RunIsOfTheRecord, DirectoriesInPlace, OneOpen, Moved, In, Package!At,
         Opening
<1> DEFINE all == run.j.unmanaged \cup Package!CacheOf(Package!Original)
           j   == [run.j EXCEPT !.phase = "backed-up", !.unmanaged = all]
           pc  == IF j.target = NoCode THEN "finish" ELSE "move"
<1>2. all \subseteq Caches BY <1>0, RecordFacts, DirectoryFacts DEF Package!Original
<1>3. /\ j \in Package!Records /\ j.phase = "backed-up" /\ j.prior = run.j.prior
           /\ j.target = run.j.target
      /\ j.unmanaged = run.j.unmanaged \cup Package!CacheOf(backup[run.id]) /\ j # None
  BY <1>0, <1>2 DEF Package!Records, Package!Original
<1>4. Package!Persist(j) /\ Package!GoWith(pc, j) BY DEF Package!Collect, Package!Collected
<1> HIDE DEF j
<1>5. /\ run' \in Runs /\ run'.id = run.id /\ run'.j = j /\ run'.recovering = run.recovering
      /\ (run'.pc = "finish" /\ run.j.target = NoCode) \/ (run'.pc = "move"
           /\ run.j.target # NoCode)
  BY <1>0, <1>3, <1>4, GoingWith DEF Journaled, Shared
<1>6. /\ journal' \in [Package!Ids -> Package!Records \cup {None}] /\ journal'[run.id] = j
      /\ \A i \in Package!Ids : i # run.id => journal'[i] = journal[i]
  BY <1>0, <1>3, <1>4, Persisting
<1>7. TypeDisk' BY <1>0, <1>1, <1>3, <1>5, <1>6 DEF PackageTypeOK, TypeDisk
<1>8. TypeRun' BY <1>0, <1>1, <1>3, <1>5, <1>6 DEF PackageTypeOK, TypeRun
<1>9. TypeRest' BY <1>0, <1>1, <1>3, <1>5, <1>6 DEF PackageTypeOK, TypeRest
<1>10. RunIsOfTheRecord'
  BY <1>0, <1>1, <1>3, <1>5, <1>6, RunShared DEF Shared
<1>11. KindOfPackage'
  BY <1>0, <1>1, <1>3, <1>5, <1>6
     DEF PackageInv, KindOfPackage, In, Opening, Journaled, Shared, Retracting
<1>12. DirectoriesInPlace'
  BY <1>0, <1>1, <1>3, <1>5, <1>6
     DEF PackageInv, DirectoriesInPlace, In, Package!At, Opening, Journaled, Shared, Retracting,
         Package!CacheOf
<1>13. OneOpen'
  BY <1>0, <1>1, <1>3, <1>5, <1>6
     DEF PackageInv, OneOpen, Open, IsSettled, Unmoved, Package!Code, In, Package!At, Opening
<1>14. Pending' BY <1>0, <1>1, <1>3, <1>5, <1>6, Runnings DEF PackageInv, Pending
<1>15. Reviewed'
  BY <1>0, <1>1, <1>3, <1>5, <1>6
     DEF PackageInv, Reviewed, IsSettled, Unmoved, Package!Code, In, Opening, Package!At
<1>16. Originals'
  BY <1>0, <1>1, <1>3, <1>5, <1>6
     DEF PackageInv, Originals, Unmoved, Package!Code, In, Package!At, Retracting
<1>17. NotYet' BY <1>0, <1>1, <1>3, <1>5, <1>6 DEF PackageInv, NotYet, Open, Package!Code
<1>18. Somewhere' BY <1>0, <1>1, <1>3, <1>5, <1>6 DEF PackageInv, Somewhere, Package!CacheOf
<1>19. Moved' BY <1>0, <1>1, <1>3, <1>5, <1>6 DEF PackageInv, Moved, Package!CacheOf, In, Package!At
<1> QED
  BY <1>7, <1>8, <1>9, <1>10, <1>11, <1>12, <1>13, <1>14, <1>15, <1>16, <1>17, <1>18, <1>19,
     InvIs

\* ... and moved, one after the other.
LEMMA MoveEntryStep ==
  ASSUME Package!NoneAssumption, PackageInv, Package!MoveEntry,
         UNCHANGED <<deviceLocal, stops, Package!writes>>
  PROVE  PackageInv'
<1>0. /\ PackageTypeOK /\ run.pc = "move" /\ run.id \in Package!Ids
           /\ run.j \in Package!Records /\ run.j # None
      /\ ~deviceLocal /\ run.recovering \in BOOLEAN /\ journal[run.id] = run.j
      /\ backup[run.id] \in Package!Dirs \cup {None} /\ stage[run.id] \in Package!Dirs \cup {None}
      /\ UNCHANGED <<root, audited, deviceLocal, stops, used, written, tampered>>
  BY Underway DEF Package!MoveEntry, Package!At, Journaled, Shared, Package!disk
<1>1. /\ ~audited /\ run.j.phase \in {"prepared", "backed-up", "promoting"} /\ run.j.target # NoCode
      /\ stage[run.id] # None /\ stage[run.id].code = run.j.target
      /\ ~tampered => Package!CacheOf(backup[run.id]) \subseteq run.j.unmanaged
  BY <1>0
     DEF PackageInv, RunIsOfTheRecord, DirectoriesInPlace, OneOpen, Moved, In, Package!At,
         Opening, Open
<1>2. CASE Package!ToMove = {} /\ Package!Persist(run.j) /\ Package!Go("guard-promotion")
             /\ UNCHANGED Package!disk
  <2>1. /\ run' \in Runs /\ run'.pc = "guard-promotion" /\ run'.id = run.id /\ run'.j = run.j
        /\ run'.recovering = run.recovering /\ run'.todo = run.todo /\ run'.clean = run.clean
    BY <1>0, <1>2, Going DEF Journaled, Shared
  <2>2. journal' = journal
    BY <1>0, <1>2 DEF Package!Persist, PackageTypeOK, TypeRun
  <2>3. ~tampered => Package!CacheOf(backup[run.id]) = {}
    BY <1>1, <1>2 DEF Package!ToMove, Package!Staged, Package!Original
  <2>4. UNCHANGED <<stage, backup>> BY <1>2 DEF Package!disk
  <2>5. TypeDisk' BY <1>0, <1>1, <2>1, <2>2, <2>3, <2>4 DEF PackageTypeOK, TypeDisk
  <2>6. TypeRun' BY <1>0, <1>1, <2>1, <2>2, <2>3, <2>4 DEF PackageTypeOK, TypeRun
  <2>7. TypeRest' BY <1>0, <1>1, <2>1, <2>2, <2>3, <2>4 DEF PackageTypeOK, TypeRest
  <2>8. RunIsOfTheRecord'
    BY <1>0, <1>1, <2>1, <2>2, <2>3, <2>4, RunShared DEF Shared
  <2>9. KindOfPackage'
    BY <1>0, <1>1, <2>1, <2>2, <2>3, <2>4
       DEF PackageInv, KindOfPackage, In, Opening, Journaled, Shared, Retracting
  <2>10. DirectoriesInPlace'
    BY <1>0, <1>1, <2>1, <2>2, <2>3, <2>4
       DEF PackageInv, DirectoriesInPlace, In, Package!At, Opening, Journaled, Shared,
           Retracting, Package!CacheOf
  <2>11. OneOpen'
    BY <1>0, <1>1, <2>1, <2>2, <2>3, <2>4
       DEF PackageInv, OneOpen, Open, IsSettled, Unmoved, Package!Code, In, Package!At, Opening
  <2>12. Pending' BY <1>0, <1>1, <2>1, <2>2, <2>3, <2>4, Runnings DEF PackageInv, Pending
  <2>13. Reviewed'
    BY <1>0, <1>1, <2>1, <2>2, <2>3, <2>4
       DEF PackageInv, Reviewed, IsSettled, Unmoved, Package!Code, In, Opening, Package!At
  <2>14. Originals'
    BY <1>0, <1>1, <2>1, <2>2, <2>3, <2>4
       DEF PackageInv, Originals, Unmoved, Package!Code, In, Package!At, Retracting
  <2>15. NotYet' BY <1>0, <1>1, <2>1, <2>2, <2>3, <2>4 DEF PackageInv, NotYet, Open, Package!Code
  <2>16. Somewhere' BY <1>0, <1>1, <2>1, <2>2, <2>3, <2>4 DEF PackageInv, Somewhere, Package!CacheOf
  <2>17. Moved'
    BY <1>0, <1>1, <2>1, <2>2, <2>3, <2>4
       DEF PackageInv, Moved, Package!CacheOf, In, Package!At
  <2> QED
    BY <2>5, <2>6, <2>7, <2>8, <2>9, <2>10, <2>11, <2>12, <2>13, <2>14, <2>15, <2>16, <2>17,
       InvIs
<1>3. ASSUME NEW c \in Caches,
             c \in Package!CacheOf(Package!Original) \ Package!CacheOf(Package!Staged),
             c \in run.j.unmanaged,
             stage' = [stage EXCEPT ![run.id].cache = @ \cup {c}],
             backup' = [backup EXCEPT ![run.id].cache = @ \ {c}], UNCHANGED <<run, journal>>
      PROVE  PackageInv'
  <2>1. backup[run.id] # None /\ backup[run.id] \in Package!Dirs /\ stage[run.id] \in Package!Dirs
    BY <1>0, <1>1, <1>3 DEF Package!Original, Package!CacheOf
  <2>2. /\ stage' \in [Package!Ids -> Package!Dirs \cup {None}] /\ stage'[run.id] # None
             /\ stage'[run.id].code = stage[run.id].code
        /\ Package!CacheOf(stage'[run.id]) = Package!CacheOf(stage[run.id]) \cup {c}
        /\ \A i \in Package!Ids : i # run.id => stage'[i] = stage[i]
    <3> DEFINE d == [stage[run.id] EXCEPT !.cache = @ \cup {c}]
    <3>1. d \in Package!Dirs /\ d.code = stage[run.id].code
            /\ d.cache = stage[run.id].cache \cup {c}
      BY <2>1 DEF Package!Dirs
    <3>2. stage' = [stage EXCEPT ![run.id] = d] BY <1>3
    <3> HIDE DEF d
    <3> QED BY <1>0, <1>1, <2>1, <3>1, <3>2, DirectoryFacts DEF PackageTypeOK, TypeDisk
  <2>3. /\ backup' \in [Package!Ids -> Package!Dirs \cup {None}] /\ backup'[run.id] # None
        /\ backup'[run.id].code = backup[run.id].code
        /\ Package!CacheOf(backup'[run.id]) = Package!CacheOf(backup[run.id]) \ {c}
        /\ \A i \in Package!Ids : i # run.id => backup'[i] = backup[i]
    <3> DEFINE d == [backup[run.id] EXCEPT !.cache = @ \ {c}]
    <3>1. d \in Package!Dirs /\ d.code = backup[run.id].code /\ d.cache = backup[run.id].cache \ {c}
      BY <2>1 DEF Package!Dirs
    <3>2. backup' = [backup EXCEPT ![run.id] = d] BY <1>3
    <3> HIDE DEF d
    <3> QED BY <1>0, <1>1, <2>1, <3>1, <3>2, DirectoryFacts DEF PackageTypeOK, TypeDisk
  <2>4. c \in Package!CacheOf(backup[run.id]) BY <1>3 DEF Package!Original
  <2>5. run.pc = "move" /\ run.pc \in Shared BY <1>0 DEF Shared
  <2>6. journal[run.id].phase = "promoting" => tampered
    BY <1>0, <1>1, <2>4 DEF PackageInv, Moved
  <2>7. TypeDisk'
    BY <1>0, <1>1, <1>3, <2>1, <2>2, <2>3, <2>4, <2>5, <2>6
       DEF PackageTypeOK, TypeDisk
  <2>8. TypeRun' BY <1>0, <1>1, <1>3, <2>1, <2>2, <2>3, <2>4, <2>5, <2>6 DEF PackageTypeOK, TypeRun
  <2>9. TypeRest'
    BY <1>0, <1>1, <1>3, <2>1, <2>2, <2>3, <2>4, <2>5, <2>6
       DEF PackageTypeOK, TypeRest
  <2>10. RunIsOfTheRecord'
    BY <1>0, <1>1, <1>3, <2>1, <2>2, <2>3, <2>4, <2>5, <2>6, RunShared DEF Shared
  <2>11. KindOfPackage'
    BY <1>0, <1>1, <1>3, <2>1, <2>2, <2>3, <2>4, <2>5, <2>6
       DEF PackageInv, KindOfPackage, In, Opening, Journaled, Shared, Retracting
  <2>12. DirectoriesInPlace'
    BY <1>0, <1>1, <1>3, <2>1, <2>2, <2>3, <2>4, <2>5, <2>6
       DEF PackageInv, DirectoriesInPlace, In, Package!At, Opening, Journaled, Shared,
           Retracting, Package!CacheOf
  <2>13. OneOpen'
    BY <1>0, <1>1, <1>3, <2>1, <2>2, <2>3, <2>4, <2>5, <2>6
       DEF PackageInv, OneOpen, Open, IsSettled, Unmoved, Package!Code, In, Package!At, Opening
  <2>14. Pending'
    BY <1>0, <1>1, <1>3, <2>1, <2>2, <2>3, <2>4, <2>5, <2>6, Runnings
       DEF PackageInv, Pending
  <2>15. Reviewed'
    BY <1>0, <1>1, <1>3, <2>1, <2>2, <2>3, <2>4, <2>5, <2>6
       DEF PackageInv, Reviewed, IsSettled, Unmoved, Package!Code, In, Opening, Package!At
  <2>16. Originals'
    BY <1>0, <1>1, <1>3, <2>1, <2>2, <2>3, <2>4, <2>5, <2>6
       DEF PackageInv, Originals, Unmoved, Package!Code, In, Package!At, Retracting
  <2>17. NotYet'
    BY <1>0, <1>1, <1>3, <2>1, <2>2, <2>3, <2>4, <2>5, <2>6
       DEF PackageInv, NotYet, Open, Package!Code
  <2>18. Somewhere'
    BY <1>0, <1>1, <1>3, <2>1, <2>2, <2>3, <2>4, <2>5, <2>6
       DEF PackageInv, Somewhere, Package!CacheOf
  <2>19. Moved'
    BY <1>0, <1>1, <1>3, <2>1, <2>2, <2>3, <2>4, <2>5, <2>6
       DEF PackageInv, Moved, Package!CacheOf, In, Package!At
  <2> QED
    BY <2>7, <2>8, <2>9, <2>10, <2>11, <2>12, <2>13, <2>14, <2>15, <2>16, <2>17, <2>18, <2>19,
       InvIs
<1>4. CASE Package!Fail /\ UNCHANGED <<stage, backup, journal>>
  BY <1>0, <1>4, FailStep DEF Package!disk, Package!writes, PackageTypeOK, TypeRest
<1>5. Package!ToMove \subseteq Caches /\ Package!ToMove \subseteq run.j.unmanaged
  BY <1>0, RecordFacts
     DEF Package!ToMove
<1> QED BY <1>2, <1>3, <1>4, <1>5 DEF Package!MoveEntry

\* An installation, or the recovery of one, turns round: the original has changed.
LEMMA RetractStep ==
  ASSUME PackageInv, run.pc \in {"guard-promotion", "guard-finish"},
         Package!Changed, Package!Retract("fail"), UNCHANGED <<Package!disk, journal, audited,
           deviceLocal, stops, Package!writes>>
  PROVE  PackageInv'
<1>0. /\ PackageTypeOK /\ run.id \in Package!Ids /\ run.j \in Package!Records /\ run.j # None
      /\ ~deviceLocal /\ run.recovering \in BOOLEAN /\ journal[run.id] = run.j
      /\ UNCHANGED <<root, stage, backup, journal, audited, deviceLocal, stops, used, written,
           tampered>>
  BY Underway DEF Journaled, Shared, Package!disk
<1>1. /\ run' \in Runs /\ run'.pc = "retract" /\ run'.id = run.id /\ run'.j = run.j
      /\ run'.recovering = run.recovering /\ run'.todo = run.todo /\ run'.clean = run.clean
           /\ run'.back = "fail"
  BY <1>0 DEF PackageTypeOK, TypeRun, Runs, Package!Retract, Journaled, Retracting
<1>2. backup[run.id] # None /\ backup[run.id].code # run.j.prior
  BY DEF Package!Changed, Package!Original, Package!Code
<1>3. backup[run.id].code \in Edits BY <1>0, <1>2 DEF PackageInv, Originals
<1>4. ~audited BY <1>0 DEF PackageInv, OneOpen, Package!At
<1>5. TypeDisk' BY <1>0, <1>1, <1>2, <1>3, <1>4 DEF PackageTypeOK, TypeDisk
<1>6. TypeRun' BY <1>0, <1>1, <1>2, <1>3, <1>4 DEF PackageTypeOK, TypeRun
<1>7. TypeRest' BY <1>0, <1>1, <1>2, <1>3, <1>4 DEF PackageTypeOK, TypeRest
<1>8. RunIsOfTheRecord'
  BY <1>0, <1>1, <1>2, <1>3, <1>4, RunRetracting DEF Retracting
<1>9. KindOfPackage'
  BY <1>0, <1>1, <1>2, <1>3, <1>4
     DEF PackageInv, KindOfPackage, In, Opening, Journaled, Shared, Retracting
<1>10. DirectoriesInPlace'
  BY <1>0, <1>1, <1>2, <1>3, <1>4
     DEF PackageInv, DirectoriesInPlace, In, Package!At, Opening, Journaled, Shared, Retracting,
         Package!CacheOf
<1>11. OneOpen'
  BY <1>0, <1>1, <1>2, <1>3, <1>4
     DEF PackageInv, OneOpen, Open, IsSettled, Unmoved, Package!Code, In, Package!At, Opening
<1>12. Pending' BY <1>0, <1>1, <1>2, <1>3, <1>4, Runnings DEF PackageInv, Pending
<1>13. Reviewed'
  BY <1>0, <1>1, <1>2, <1>3, <1>4
     DEF PackageInv, Reviewed, IsSettled, Unmoved, Package!Code, In, Opening, Package!At
<1>14. Originals'
  BY <1>0, <1>1, <1>2, <1>3, <1>4
     DEF PackageInv, Originals, Unmoved, Package!Code, In, Package!At, Retracting
<1>15. NotYet' BY <1>0, <1>1, <1>2, <1>3, <1>4 DEF PackageInv, NotYet, Open, Package!Code
<1>16. Somewhere' BY <1>0, <1>1, <1>2, <1>3, <1>4 DEF PackageInv, Somewhere, Package!CacheOf
<1>17. Moved' BY <1>0, <1>1, <1>2, <1>3, <1>4 DEF PackageInv, Moved, Package!CacheOf, In, Package!At
<1> QED
  BY <1>5, <1>6, <1>7, <1>8, <1>9, <1>10, <1>11, <1>12, <1>13, <1>14, <1>15, <1>16, <1>17, InvIs

\* The original is looked at again before the promotion and before the end.
LEMMA GuardStep ==
  ASSUME PackageInv, UNCHANGED <<deviceLocal, stops, Package!writes>>,
         Package!Guard("guard-promotion", "promoting") \/ Package!Guard("guard-finish", "finish")
  PROVE  PackageInv'
<1>1. CASE Package!Changed BY <1>1, RetractStep DEF Package!Guard, Package!At
<1>2. CASE ~Package!Changed
  <2>0. /\ PackageTypeOK /\ run.id \in Package!Ids /\ run.j \in Package!Records /\ run.j # None
        /\ run.pc \in {"guard-promotion", "guard-finish"}
        /\ ~deviceLocal /\ run.recovering \in BOOLEAN /\ journal[run.id] = run.j
        /\ UNCHANGED <<root, stage, backup, journal, audited, deviceLocal, stops, used, written,
             tampered>>
    BY Underway DEF Package!Guard, Package!At, Journaled, Shared, Package!disk
  <2>1. /\ run' \in Runs /\ run'.id = run.id /\ run'.j = run.j
        /\ (run.pc = "guard-promotion" /\ run'.pc = "promoting") \/ (run.pc = "guard-finish"
             /\ run'.pc = "finish")
        /\ run'.recovering = run.recovering /\ run'.todo = run.todo /\ run'.clean = run.clean
    BY <2>0, <1>2, Going DEF Package!Guard, Package!At, Journaled, Shared
  <2>2. backup[run.id] # None => Package!Code(backup[run.id]) = run.j.prior
    BY <1>2
       DEF Package!Changed, Package!Original
  <2>3. run.j.phase \in {"prepared", "backed-up", "promoting"} /\ ~audited
    BY <2>0 DEF PackageInv, RunIsOfTheRecord, OneOpen, In, Package!At, Open
  <2>4. TypeDisk' BY <2>0, <2>1, <2>2, <2>3 DEF PackageTypeOK, TypeDisk
  <2>5. TypeRun' BY <2>0, <2>1, <2>2, <2>3 DEF PackageTypeOK, TypeRun
  <2>6. TypeRest' BY <2>0, <2>1, <2>2, <2>3 DEF PackageTypeOK, TypeRest
  <2>7. RunIsOfTheRecord'
    BY <2>0, <2>1, <2>2, <2>3, RunShared DEF Shared
  <2>8. KindOfPackage'
    BY <2>0, <2>1, <2>2, <2>3
       DEF PackageInv, KindOfPackage, In, Opening, Journaled, Shared, Retracting
  <2>9. DirectoriesInPlace'
    BY <2>0, <2>1, <2>2, <2>3
       DEF PackageInv, DirectoriesInPlace, In, Package!At, Opening, Journaled, Shared,
           Retracting, Package!CacheOf
  <2>10. OneOpen'
    BY <2>0, <2>1, <2>2, <2>3
       DEF PackageInv, OneOpen, Open, IsSettled, Unmoved, Package!Code, In, Package!At, Opening
  <2>11. Pending' BY <2>0, <2>1, <2>2, <2>3, Runnings DEF PackageInv, Pending
  <2>12. Reviewed'
    BY <2>0, <2>1, <2>2, <2>3
       DEF PackageInv, Reviewed, IsSettled, Unmoved, Package!Code, In, Opening, Package!At
  <2>13. Originals'
    BY <2>0, <2>1, <2>2, <2>3
       DEF PackageInv, Originals, Unmoved, Package!Code, In, Package!At, Retracting
  <2>14. NotYet' BY <2>0, <2>1, <2>2, <2>3 DEF PackageInv, NotYet, Open, Package!Code
  <2>15. Somewhere' BY <2>0, <2>1, <2>2, <2>3 DEF PackageInv, Somewhere, Package!CacheOf
  <2>16. Moved' BY <2>0, <2>1, <2>2, <2>3 DEF PackageInv, Moved, Package!CacheOf, In, Package!At
  <2> QED
    BY <2>4, <2>5, <2>6, <2>7, <2>8, <2>9, <2>10, <2>11, <2>12, <2>13, <2>14, <2>15, <2>16,
       InvIs
<1> QED BY <1>1, <1>2

\* That the stage is about to be renamed is written, ...
LEMMA PromotingStep ==
  ASSUME Package!NoneAssumption, PackageInv, Package!Promoting,
         UNCHANGED <<deviceLocal, stops, Package!writes>>
  PROVE  PackageInv'
<1>0. /\ PackageTypeOK /\ run.pc = "promoting" /\ run.id \in Package!Ids
           /\ run.j \in Package!Records /\ run.j # None
      /\ ~deviceLocal /\ run.recovering \in BOOLEAN /\ journal[run.id] = run.j
      /\ UNCHANGED <<root, stage, backup, audited, deviceLocal, stops, used, written, tampered>>
  BY Underway DEF Package!Promoting, Package!At, Journaled, Shared, Package!disk
<1>1. CASE Package!Fail /\ UNCHANGED journal
  BY <1>0, <1>1, FailStep DEF Package!disk, Package!writes, PackageTypeOK, TypeRest
<1> DEFINE j == [run.j EXCEPT !.phase = "promoting"]
<1>2. CASE Package!Persist(j) /\ Package!GoWith("promote", j)
  <2>1. /\ j \in Package!Records /\ j.phase = "promoting" /\ j.prior = run.j.prior
             /\ j.target = run.j.target
        /\ j.unmanaged = run.j.unmanaged /\ j # None
    BY <1>0 DEF Package!Records
  <2> HIDE DEF j
  <2>2. /\ run' \in Runs /\ run'.pc = "promote" /\ run'.id = run.id /\ run'.j = j
        /\ run'.recovering = run.recovering /\ run'.todo = run.todo /\ run'.clean = run.clean
    BY <1>0, <1>2, <2>1, GoingWith DEF Journaled, Shared
  <2>3. /\ journal' \in [Package!Ids -> Package!Records \cup {None}] /\ journal'[run.id] = j
        /\ \A i \in Package!Ids : i # run.id => journal'[i] = journal[i]
    BY <1>0, <1>2, <2>1, Persisting
  <2>4. /\ run.j.phase \in {"prepared", "backed-up", "promoting"} /\ ~audited
        /\ stage[run.id] # None /\ run.j.target # NoCode
        /\ ~tampered => Package!CacheOf(backup[run.id]) = {}
    BY <1>0
       DEF PackageInv, RunIsOfTheRecord, OneOpen, DirectoriesInPlace, Moved, In, Package!At,
           Open
  <2>5. TypeDisk' BY <1>0, <1>2, <2>1, <2>2, <2>3, <2>4 DEF PackageTypeOK, TypeDisk
  <2>6. TypeRun' BY <1>0, <1>2, <2>1, <2>2, <2>3, <2>4 DEF PackageTypeOK, TypeRun
  <2>7. TypeRest' BY <1>0, <1>2, <2>1, <2>2, <2>3, <2>4 DEF PackageTypeOK, TypeRest
  <2>8. RunIsOfTheRecord'
    BY <1>0, <1>2, <2>1, <2>2, <2>3, <2>4, RunShared DEF Shared
  <2>9. KindOfPackage'
    BY <1>0, <1>2, <2>1, <2>2, <2>3, <2>4
       DEF PackageInv, KindOfPackage, In, Opening, Journaled, Shared, Retracting
  <2>10. DirectoriesInPlace'
    BY <1>0, <1>2, <2>1, <2>2, <2>3, <2>4
       DEF PackageInv, DirectoriesInPlace, In, Package!At, Opening, Journaled, Shared,
           Retracting, Package!CacheOf
  <2>11. OneOpen'
    BY <1>0, <1>2, <2>1, <2>2, <2>3, <2>4
       DEF PackageInv, OneOpen, Open, IsSettled, Unmoved, Package!Code, In, Package!At, Opening
  <2>12. Pending' BY <1>0, <1>2, <2>1, <2>2, <2>3, <2>4, Runnings DEF PackageInv, Pending
  <2>13. Reviewed'
    BY <1>0, <1>2, <2>1, <2>2, <2>3, <2>4
       DEF PackageInv, Reviewed, IsSettled, Unmoved, Package!Code, In, Opening, Package!At
  <2>14. Originals'
    BY <1>0, <1>2, <2>1, <2>2, <2>3, <2>4
       DEF PackageInv, Originals, Unmoved, Package!Code, In, Package!At, Retracting
  <2>15. NotYet' BY <1>0, <1>2, <2>1, <2>2, <2>3, <2>4 DEF PackageInv, NotYet, Open, Package!Code
  <2>16. Somewhere' BY <1>0, <1>2, <2>1, <2>2, <2>3, <2>4 DEF PackageInv, Somewhere, Package!CacheOf
  <2>17. Moved'
    BY <1>0, <1>2, <2>1, <2>2, <2>3, <2>4
       DEF PackageInv, Moved, Package!CacheOf, In, Package!At
  <2> QED
    BY <2>5, <2>6, <2>7, <2>8, <2>9, <2>10, <2>11, <2>12, <2>13, <2>14, <2>15, <2>16, <2>17,
       InvIs
<1> QED BY <1>1, <1>2 DEF Package!Promoting

\* ... the stage becomes the package ...
LEMMA PromoteStep ==
  ASSUME PackageInv, Package!Promote, UNCHANGED <<deviceLocal, stops, Package!writes>>
  PROVE  PackageInv'
<1>0. /\ PackageTypeOK /\ run.pc = "promote" /\ run.id \in Package!Ids
           /\ run.j \in Package!Records /\ run.j # None
      /\ ~deviceLocal /\ run.recovering \in BOOLEAN /\ journal[run.id] = run.j
      /\ UNCHANGED <<backup, journal, audited, deviceLocal, stops, used, written, tampered>>
  BY Underway DEF Package!Promote, Package!At, Journaled, Shared
<1>1. CASE Package!Fail /\ UNCHANGED <<root, stage>>
  BY <1>0, <1>1, FailStep DEF Package!disk, Package!writes, PackageTypeOK, TypeRest
<1>2. CASE /\ root = None /\ root' = Package!Staged
           /\ stage' = [stage EXCEPT ![run.id] = None] /\ Package!Go("verify-promoted")
  <2>1. /\ run' \in Runs /\ run'.pc = "verify-promoted" /\ run'.id = run.id /\ run'.j = run.j
        /\ run'.recovering = run.recovering /\ run'.todo = run.todo /\ run'.clean = run.clean
    BY <1>0, <1>2, Going DEF Journaled, Shared
  <2>2. /\ run.j.phase = "promoting" /\ ~audited /\ Open(run.id)
        /\ stage[run.id] # None /\ stage[run.id].code = run.j.target /\ run.j.target # NoCode
        /\ ~tampered => Package!CacheOf(backup[run.id]) = {}
    BY <1>0 DEF PackageInv, RunIsOfTheRecord, OneOpen, DirectoriesInPlace, Moved, In, Package!At
  <2>3. /\ stage' \in [Package!Ids -> Package!Dirs \cup {None}] /\ stage'[run.id] = None
        /\ \A i \in Package!Ids : i # run.id => stage'[i] = stage[i]
        /\ root' = stage[run.id] /\ root' \in Package!Dirs /\ root' # None /\ root'.code # NoCode
    BY <1>0, <1>2, <2>2 DEF PackageTypeOK, TypeDisk, Package!Staged
  <2>4. \A i \in Package!Ids : Open(i)' => i = run.id
    BY <1>0, <2>2 DEF PackageInv, OneOpen, Open
  <2>5. TypeDisk' BY <1>0, <1>2, <2>1, <2>2, <2>3, <2>4 DEF PackageTypeOK, TypeDisk
  <2>6. TypeRun' BY <1>0, <1>2, <2>1, <2>2, <2>3, <2>4 DEF PackageTypeOK, TypeRun
  <2>7. TypeRest' BY <1>0, <1>2, <2>1, <2>2, <2>3, <2>4 DEF PackageTypeOK, TypeRest
  <2>8. RunIsOfTheRecord'
    BY <1>0, <1>2, <2>1, <2>2, <2>3, <2>4, RunShared DEF Shared
  <2>9. KindOfPackage'
    BY <1>0, <1>2, <2>1, <2>2, <2>3, <2>4
       DEF PackageInv, KindOfPackage, In, Opening, Journaled, Shared, Retracting
  <2>10. DirectoriesInPlace'
    BY <1>0, <1>2, <2>1, <2>2, <2>3, <2>4
       DEF PackageInv, DirectoriesInPlace, In, Package!At, Opening, Journaled, Shared,
           Retracting, Package!CacheOf
  <2>11. OneOpen'
    BY <1>0, <1>2, <2>1, <2>2, <2>3, <2>4
       DEF PackageInv, OneOpen, Open, IsSettled, Unmoved, Package!Code, In, Package!At, Opening
  <2>12. Pending' BY <1>0, <1>2, <2>1, <2>2, <2>3, <2>4, Runnings DEF PackageInv, Pending
  <2>13. Reviewed'
    BY <1>0, <1>2, <2>1, <2>2, <2>3, <2>4
       DEF PackageInv, Reviewed, IsSettled, Unmoved, Package!Code, In, Opening, Package!At
  <2>14. Originals'
    BY <1>0, <1>2, <2>1, <2>2, <2>3, <2>4
       DEF PackageInv, Originals, Unmoved, Package!Code, In, Package!At, Retracting
  <2>15. NotYet' BY <1>0, <1>2, <2>1, <2>2, <2>3, <2>4 DEF PackageInv, NotYet, Open, Package!Code
  <2>16. Somewhere' BY <1>0, <1>2, <2>1, <2>2, <2>3, <2>4 DEF PackageInv, Somewhere, Package!CacheOf
  <2>17. Moved'
    BY <1>0, <1>2, <2>1, <2>2, <2>3, <2>4
       DEF PackageInv, Moved, Package!CacheOf, In, Package!At
  <2> QED
    BY <2>5, <2>6, <2>7, <2>8, <2>9, <2>10, <2>11, <2>12, <2>13, <2>14, <2>15, <2>16, <2>17,
       InvIs
<1> QED BY <1>1, <1>2 DEF Package!Promote

\* ... and is compared with the version.
LEMMA VerifyPromotedStep ==
  ASSUME PackageInv, Package!VerifyPromoted, UNCHANGED <<deviceLocal, stops, Package!writes>>
  PROVE  PackageInv'
<1>0. /\ PackageTypeOK /\ run.pc = "verify-promoted" /\ run.id \in Package!Ids
           /\ run.j \in Package!Records /\ run.j # None
      /\ ~deviceLocal /\ run.recovering \in BOOLEAN /\ journal[run.id] = run.j
      /\ UNCHANGED <<root, stage, backup, journal, audited, deviceLocal, stops, used, written,
           tampered>>
  BY Underway DEF Package!VerifyPromoted, Package!At, Journaled, Shared, Package!disk
<1>1. CASE Package!Fail
  BY <1>0, <1>1, FailStep DEF Package!disk, Package!writes, PackageTypeOK, TypeRest
<1>2. CASE Package!Go("guard-finish")
  <2>1. /\ run' \in Runs /\ run'.pc = "guard-finish" /\ run'.id = run.id /\ run'.j = run.j
        /\ run'.recovering = run.recovering /\ run'.todo = run.todo /\ run'.clean = run.clean
    BY <1>0, <1>2, Going DEF Journaled, Shared
  <2>2. run.j.phase = "promoting" /\ ~audited
    BY <1>0
       DEF PackageInv, RunIsOfTheRecord, OneOpen, In, Package!At
  <2>3. TypeDisk' BY <1>0, <1>2, <2>1, <2>2 DEF PackageTypeOK, TypeDisk
  <2>4. TypeRun' BY <1>0, <1>2, <2>1, <2>2 DEF PackageTypeOK, TypeRun
  <2>5. TypeRest' BY <1>0, <1>2, <2>1, <2>2 DEF PackageTypeOK, TypeRest
  <2>6. RunIsOfTheRecord'
    BY <1>0, <1>2, <2>1, <2>2, RunShared DEF Shared
  <2>7. KindOfPackage'
    BY <1>0, <1>2, <2>1, <2>2
       DEF PackageInv, KindOfPackage, In, Opening, Journaled, Shared, Retracting
  <2>8. DirectoriesInPlace'
    BY <1>0, <1>2, <2>1, <2>2
       DEF PackageInv, DirectoriesInPlace, In, Package!At, Opening, Journaled, Shared,
           Retracting, Package!CacheOf
  <2>9. OneOpen'
    BY <1>0, <1>2, <2>1, <2>2
       DEF PackageInv, OneOpen, Open, IsSettled, Unmoved, Package!Code, In, Package!At, Opening
  <2>10. Pending' BY <1>0, <1>2, <2>1, <2>2, Runnings DEF PackageInv, Pending
  <2>11. Reviewed'
    BY <1>0, <1>2, <2>1, <2>2
       DEF PackageInv, Reviewed, IsSettled, Unmoved, Package!Code, In, Opening, Package!At
  <2>12. Originals'
    BY <1>0, <1>2, <2>1, <2>2
       DEF PackageInv, Originals, Unmoved, Package!Code, In, Package!At, Retracting
  <2>13. NotYet' BY <1>0, <1>2, <2>1, <2>2 DEF PackageInv, NotYet, Open, Package!Code
  <2>14. Somewhere' BY <1>0, <1>2, <2>1, <2>2 DEF PackageInv, Somewhere, Package!CacheOf
  <2>15. Moved' BY <1>0, <1>2, <2>1, <2>2 DEF PackageInv, Moved, Package!CacheOf, In, Package!At
  <2> QED
    BY <2>3, <2>4, <2>5, <2>6, <2>7, <2>8, <2>9, <2>10, <2>11, <2>12, <2>13, <2>14, <2>15, InvIs
<1> QED BY <1>1, <1>2 DEF Package!VerifyPromoted

\* The installation is complete.
LEMMA FinishStep ==
  ASSUME Package!NoneAssumption, PackageInv, Package!Finish,
         UNCHANGED <<deviceLocal, stops, Package!writes>>
  PROVE  PackageInv'
<1>0. /\ PackageTypeOK /\ run.pc = "finish" /\ run.id \in Package!Ids
           /\ run.j \in Package!Records /\ run.j # None
      /\ ~deviceLocal /\ run.recovering \in BOOLEAN /\ journal[run.id] = run.j
      /\ UNCHANGED <<root, stage, backup, audited, deviceLocal, stops, used, written, tampered>>
  BY Underway DEF Package!Finish, Package!At, Journaled, Shared, Package!disk
<1> DEFINE j == [run.j EXCEPT !.phase = "installed"]
<1>1. /\ j \in Package!Records /\ j.phase = "installed" /\ j.prior = run.j.prior
           /\ j.target = run.j.target
      /\ j.unmanaged = run.j.unmanaged /\ j # None
  BY <1>0 DEF Package!Records
<1>2. Package!Persist(j) BY DEF Package!Finish
<1> HIDE DEF j
<1>3. /\ journal' \in [Package!Ids -> Package!Records \cup {None}] /\ journal'[run.id] = j
      /\ \A i \in Package!Ids : i # run.id => journal'[i] = journal[i]
  BY <1>0, <1>1, <1>2, Persisting
<1>4. /\ Open(run.id) /\ ~audited /\ (\A i \in Package!Ids : Open(i) => i = run.id)
      /\ run.j.target # NoCode /\ ~tampered => Package!CacheOf(backup[run.id]) = {}
           /\ Package!CacheOf(stage[run.id]) = {}
      /\ run.recovering /\ run.clean => Unmoved(run.id)
  BY <1>0 DEF PackageInv, RunIsOfTheRecord, OneOpen, Moved, Originals, In, Package!At
<1>5. CASE run.recovering
  <2>1. /\ run' \in Runs /\ run'.pc = "next" /\ run'.id = run.id /\ run'.j = run.j
        /\ run'.recovering = run.recovering /\ run'.todo = run.todo /\ run'.clean = run.clean
    BY <1>0, <1>5, Going DEF Package!Finish
  <2>2. TypeDisk' BY <1>0, <1>1, <1>3, <1>4, <1>5, <2>1 DEF PackageTypeOK, TypeDisk
  <2>3. TypeRun' BY <1>0, <1>1, <1>3, <1>4, <1>5, <2>1 DEF PackageTypeOK, TypeRun
  <2>4. TypeRest' BY <1>0, <1>1, <1>3, <1>4, <1>5, <2>1 DEF PackageTypeOK, TypeRest
  <2>5. RunIsOfTheRecord'
    BY <1>0, <1>1, <1>3, <1>4, <1>5, <2>1, RunNext DEF Shared
  <2>6. KindOfPackage'
    BY <1>0, <1>1, <1>3, <1>4, <1>5, <2>1
       DEF PackageInv, KindOfPackage, In, Opening, Journaled, Shared, Retracting
  <2>7. DirectoriesInPlace'
    BY <1>0, <1>1, <1>3, <1>4, <1>5, <2>1
       DEF PackageInv, DirectoriesInPlace, In, Package!At, Opening, Journaled, Shared,
           Retracting, Package!CacheOf
  <2>8. OneOpen'
    BY <1>0, <1>1, <1>3, <1>4, <1>5, <2>1
       DEF PackageInv, OneOpen, Open, IsSettled, Unmoved, Package!Code, In, Package!At, Opening
  <2>9. Pending' BY <1>0, <1>1, <1>3, <1>4, <1>5, <2>1, Runnings DEF PackageInv, Pending
  <2>10. Reviewed'
    BY <1>0, <1>1, <1>3, <1>4, <1>5, <2>1
       DEF PackageInv, Reviewed, IsSettled, Unmoved, Package!Code, In, Opening, Package!At
  <2>11. Originals'
    BY <1>0, <1>1, <1>3, <1>4, <1>5, <2>1
       DEF PackageInv, Originals, Unmoved, Package!Code, In, Package!At, Retracting
  <2>12. NotYet' BY <1>0, <1>1, <1>3, <1>4, <1>5, <2>1 DEF PackageInv, NotYet, Open, Package!Code
  <2>13. Somewhere' BY <1>0, <1>1, <1>3, <1>4, <1>5, <2>1 DEF PackageInv, Somewhere, Package!CacheOf
  <2>14. Moved'
    BY <1>0, <1>1, <1>3, <1>4, <1>5, <2>1
       DEF PackageInv, Moved, Package!CacheOf, In, Package!At
  <2> QED
    BY <2>2, <2>3, <2>4, <2>5, <2>6, <2>7, <2>8, <2>9, <2>10, <2>11, <2>12, <2>13, <2>14, InvIs
<1>6. CASE ~run.recovering
  <2>1. /\ run' \in Runs /\ run'.pc = "idle" /\ ~run'.recovering BY <1>6, Ending DEF Package!Finish
  <2>2. TypeDisk' BY <1>0, <1>1, <1>3, <1>4, <2>1 DEF PackageTypeOK, TypeDisk
  <2>3. TypeRun' BY <1>0, <1>1, <1>3, <1>4, <2>1 DEF PackageTypeOK, TypeRun
  <2>4. TypeRest' BY <1>0, <1>1, <1>3, <1>4, <2>1 DEF PackageTypeOK, TypeRest
  <2>5. RunIsOfTheRecord'
    BY <1>0, <1>1, <1>3, <1>4, <2>1, RecordFacts
       DEF PackageInv, RunIsOfTheRecord, Open, In, Package!At, Opening, Journaled, Shared,
           Retracting
  <2>6. KindOfPackage'
    BY <1>0, <1>1, <1>3, <1>4, <2>1
       DEF PackageInv, KindOfPackage, In, Opening, Journaled, Shared, Retracting
  <2>7. DirectoriesInPlace'
    BY <1>0, <1>1, <1>3, <1>4, <2>1
       DEF PackageInv, DirectoriesInPlace, In, Package!At, Opening, Journaled, Shared,
           Retracting, Package!CacheOf
  <2>8. OneOpen'
    BY <1>0, <1>1, <1>3, <1>4, <2>1
       DEF PackageInv, OneOpen, Open, IsSettled, Unmoved, Package!Code, In, Package!At, Opening
  <2>9. Pending' BY <1>0, <1>1, <1>3, <1>4, <2>1, Runnings DEF PackageInv, Pending
  <2>10. Reviewed'
    BY <1>0, <1>1, <1>3, <1>4, <2>1
       DEF PackageInv, Reviewed, IsSettled, Unmoved, Package!Code, In, Opening, Package!At
  <2>11. Originals'
    BY <1>0, <1>1, <1>3, <1>4, <2>1
       DEF PackageInv, Originals, Unmoved, Package!Code, In, Package!At, Retracting
  <2>12. NotYet' BY <1>0, <1>1, <1>3, <1>4, <2>1 DEF PackageInv, NotYet, Open, Package!Code
  <2>13. Somewhere' BY <1>0, <1>1, <1>3, <1>4, <2>1 DEF PackageInv, Somewhere, Package!CacheOf
  <2>14. Moved'
    BY <1>0, <1>1, <1>3, <1>4, <2>1
       DEF PackageInv, Moved, Package!CacheOf, In, Package!At
  <2> QED
    BY <2>2, <2>3, <2>4, <2>5, <2>6, <2>7, <2>8, <2>9, <2>10, <2>11, <2>12, <2>13, <2>14, InvIs
<1> QED BY <1>5, <1>6

\* An installation is taken back: this is written first, ...
LEMMA TakeBackStep ==
  ASSUME Package!NoneAssumption, PackageInv, Package!TakeBack,
         UNCHANGED <<deviceLocal, stops, Package!writes>>
  PROVE  PackageInv'
<1>0. /\ PackageTypeOK /\ run.pc = "retract" /\ run.id \in Package!Ids
           /\ run.j \in Package!Records /\ run.j # None
      /\ ~deviceLocal /\ run.recovering \in BOOLEAN /\ journal[run.id] = run.j
      /\ UNCHANGED <<root, stage, backup, audited, deviceLocal, stops, used, written, tampered>>
  BY Underway DEF Package!TakeBack, Package!At, Journaled, Retracting, Package!disk
<1> DEFINE j == [run.j EXCEPT !.phase = "local-changed"]
<1>1. /\ j \in Package!Records /\ j.phase = "local-changed" /\ j.prior = run.j.prior
           /\ j.target = run.j.target
      /\ j.unmanaged = run.j.unmanaged /\ j # None
  BY <1>0 DEF Package!Records
<1>2. Package!Persist(j) /\ Package!GoWith("reverse", j) BY DEF Package!TakeBack
<1> HIDE DEF j
<1>3. /\ journal' \in [Package!Ids -> Package!Records \cup {None}] /\ journal'[run.id] = j
      /\ \A i \in Package!Ids : i # run.id => journal'[i] = journal[i]
  BY <1>0, <1>1, <1>2, Persisting
<1>4. /\ run' \in Runs /\ run'.pc = "reverse" /\ run'.id = run.id /\ run'.j = j
      /\ run'.recovering = run.recovering /\ run'.todo = run.todo /\ run'.clean = run.clean
           /\ run'.back = run.back
  BY <1>0, <1>1, <1>2, GoingWith DEF Journaled, Retracting
<1>5. /\ backup[run.id] # None /\ backup[run.id].code \in Edits /\ ~audited
      /\ run.back = "next" => run.recovering
  BY <1>0
     DEF PackageInv, DirectoriesInPlace, Originals, OneOpen, RunIsOfTheRecord, In, Package!At,
         Retracting
<1>6. TypeDisk' BY <1>0, <1>1, <1>3, <1>4, <1>5 DEF PackageTypeOK, TypeDisk
<1>7. TypeRun' BY <1>0, <1>1, <1>3, <1>4, <1>5 DEF PackageTypeOK, TypeRun
<1>8. TypeRest' BY <1>0, <1>1, <1>3, <1>4, <1>5 DEF PackageTypeOK, TypeRest
<1>9. RunIsOfTheRecord'
  BY <1>0, <1>1, <1>3, <1>4, <1>5, RunRetracting DEF Retracting
<1>10. KindOfPackage'
  BY <1>0, <1>1, <1>3, <1>4, <1>5
     DEF PackageInv, KindOfPackage, In, Opening, Journaled, Shared, Retracting
<1>11. DirectoriesInPlace'
  BY <1>0, <1>1, <1>3, <1>4, <1>5
     DEF PackageInv, DirectoriesInPlace, In, Package!At, Opening, Journaled, Shared, Retracting,
         Package!CacheOf
<1>12. OneOpen'
  BY <1>0, <1>1, <1>3, <1>4, <1>5
     DEF PackageInv, OneOpen, Open, IsSettled, Unmoved, Package!Code, In, Package!At, Opening
<1>13. Pending' BY <1>0, <1>1, <1>3, <1>4, <1>5, Runnings DEF PackageInv, Pending
<1>14. Reviewed'
  BY <1>0, <1>1, <1>3, <1>4, <1>5
     DEF PackageInv, Reviewed, IsSettled, Unmoved, Package!Code, In, Opening, Package!At
<1>15. Originals'
  BY <1>0, <1>1, <1>3, <1>4, <1>5
     DEF PackageInv, Originals, Unmoved, Package!Code, In, Package!At, Retracting
<1>16. NotYet' BY <1>0, <1>1, <1>3, <1>4, <1>5 DEF PackageInv, NotYet, Open, Package!Code
<1>17. Somewhere' BY <1>0, <1>1, <1>3, <1>4, <1>5 DEF PackageInv, Somewhere, Package!CacheOf
<1>18. Moved' BY <1>0, <1>1, <1>3, <1>4, <1>5 DEF PackageInv, Moved, Package!CacheOf, In, Package!At
<1> QED
  BY <1>6, <1>7, <1>8, <1>9, <1>10, <1>11, <1>12, <1>13, <1>14, <1>15, <1>16, <1>17, <1>18,
     InvIs

\* Whose original is being taken back has one, with a change.
LEMMA Retracts ==
  ASSUME PackageInv, NEW pc \in Retracting \ {"retract"}, run.pc = pc
  PROVE  /\ backup[run.id] # None /\ run.j.phase = "local-changed" /\ ~audited
         /\ ~deviceLocal => backup[run.id].code \in Edits
         /\ run.back = "next" => run.recovering
BY DEF PackageInv, RunIsOfTheRecord, DirectoriesInPlace, Originals, OneOpen, KindOfPackage, In,
       Package!At, Retracting

\* ... then it is decided how, ...
LEMMA ReverseStep ==
  ASSUME PackageInv, Package!Reverse, UNCHANGED <<deviceLocal, stops, Package!writes>>
  PROVE  PackageInv'
<1>0. /\ PackageTypeOK /\ run.pc = "reverse" /\ run.id \in Package!Ids
           /\ run.j \in Package!Records /\ run.j # None
      /\ ~deviceLocal /\ run.recovering \in BOOLEAN /\ journal[run.id] = run.j
      /\ UNCHANGED <<root, stage, backup, journal, audited, deviceLocal, stops, used, written,
           tampered>>
  BY Underway DEF Package!Reverse, Package!At, Journaled, Retracting, Package!disk
<1>1. /\ backup[run.id] # None /\ run.j.phase = "local-changed" /\ ~audited
      /\ backup[run.id].code \in Edits /\ (run.back = "next" => run.recovering)
  BY <1>0, Retracts DEF Retracting
<1>2. CASE Package!Fail
  BY <1>0, <1>2, FailStep
     DEF Package!disk, Package!writes, PackageTypeOK, TypeRest
<1>3. CASE Package!Go("move-back") \/ (Package!Go("unpromote") /\ root # None
             /\ Package!Staged = None)
  <2>1. /\ run' \in Runs /\ run'.id = run.id /\ run'.j = run.j
        /\ run'.pc = "move-back" \/ (run'.pc = "unpromote" /\ root # None /\ stage[run.id] = None)
        /\ run'.recovering = run.recovering /\ run'.todo = run.todo /\ run'.clean = run.clean
             /\ run'.back = run.back
    BY <1>0, <1>3, Going DEF Journaled, Retracting, Package!Staged
  <2>2. TypeDisk' BY <1>0, <1>1, <2>1 DEF PackageTypeOK, TypeDisk
  <2>3. TypeRun' BY <1>0, <1>1, <2>1 DEF PackageTypeOK, TypeRun
  <2>4. TypeRest' BY <1>0, <1>1, <2>1 DEF PackageTypeOK, TypeRest
  <2>5. RunIsOfTheRecord'
    BY <1>0, <1>1, <2>1, RunRetracting DEF Retracting
  <2>6. KindOfPackage'
    BY <1>0, <1>1, <2>1
       DEF PackageInv, KindOfPackage, In, Opening, Journaled, Shared, Retracting
  <2>7. DirectoriesInPlace'
    BY <1>0, <1>1, <2>1
       DEF PackageInv, DirectoriesInPlace, In, Package!At, Opening, Journaled, Shared,
           Retracting, Package!CacheOf
  <2>8. OneOpen'
    BY <1>0, <1>1, <2>1
       DEF PackageInv, OneOpen, Open, IsSettled, Unmoved, Package!Code, In, Package!At, Opening
  <2>9. Pending' BY <1>0, <1>1, <2>1, Runnings DEF PackageInv, Pending
  <2>10. Reviewed'
    BY <1>0, <1>1, <2>1
       DEF PackageInv, Reviewed, IsSettled, Unmoved, Package!Code, In, Opening, Package!At
  <2>11. Originals'
    BY <1>0, <1>1, <2>1
       DEF PackageInv, Originals, Unmoved, Package!Code, In, Package!At, Retracting
  <2>12. NotYet' BY <1>0, <1>1, <2>1 DEF PackageInv, NotYet, Open, Package!Code
  <2>13. Somewhere' BY <1>0, <1>1, <2>1 DEF PackageInv, Somewhere, Package!CacheOf
  <2>14. Moved' BY <1>0, <1>1, <2>1 DEF PackageInv, Moved, Package!CacheOf, In, Package!At
  <2> QED
    BY <2>2, <2>3, <2>4, <2>5, <2>6, <2>7, <2>8, <2>9, <2>10, <2>11, <2>12, <2>13, <2>14, InvIs
<1> QED BY <1>1, <1>2, <1>3 DEF Package!Reverse, Package!Original

\* ... the package goes back to the stage ...
LEMMA UnpromoteStep ==
  ASSUME PackageInv, Package!Unpromote, UNCHANGED <<deviceLocal, stops, Package!writes>>
  PROVE  PackageInv'
<1>0. /\ PackageTypeOK /\ run.pc = "unpromote" /\ run.id \in Package!Ids
           /\ run.j \in Package!Records /\ run.j # None
      /\ ~deviceLocal /\ run.recovering \in BOOLEAN /\ journal[run.id] = run.j
      /\ UNCHANGED <<backup, journal, audited, deviceLocal, stops, used, written, tampered>>
  BY Underway DEF Package!Unpromote, Package!At, Journaled, Retracting
<1>1. /\ backup[run.id] # None /\ run.j.phase = "local-changed" /\ ~audited
      /\ backup[run.id].code \in Edits /\ (run.back = "next" => run.recovering) /\ root # None
           /\ stage[run.id] = None
  BY <1>0, Retracts DEF Retracting, PackageInv, DirectoriesInPlace, Package!At
<1>2. /\ run' \in Runs /\ run'.pc = "verify-unpromoted" /\ run'.id = run.id /\ run'.j = run.j
      /\ run'.recovering = run.recovering /\ run'.todo = run.todo /\ run'.clean = run.clean
           /\ run'.back = run.back
  BY <1>0, Going DEF Package!Unpromote, Journaled, Retracting
<1>3. /\ stage' \in [Package!Ids -> Package!Dirs \cup {None}] /\ stage'[run.id] = root
           /\ root' = None
      /\ \A i \in Package!Ids : i # run.id => stage'[i] = stage[i]
  BY <1>0 DEF Package!Unpromote, PackageTypeOK, TypeDisk
<1>4. TypeDisk' BY <1>0, <1>1, <1>2, <1>3 DEF PackageTypeOK, TypeDisk
<1>5. TypeRun' BY <1>0, <1>1, <1>2, <1>3 DEF PackageTypeOK, TypeRun
<1>6. TypeRest' BY <1>0, <1>1, <1>2, <1>3 DEF PackageTypeOK, TypeRest
<1>7. RunIsOfTheRecord'
  BY <1>0, <1>1, <1>2, <1>3, RunRetracting DEF Retracting
<1>8. KindOfPackage'
  BY <1>0, <1>1, <1>2, <1>3
     DEF PackageInv, KindOfPackage, In, Opening, Journaled, Shared, Retracting
<1>9. DirectoriesInPlace'
  BY <1>0, <1>1, <1>2, <1>3
     DEF PackageInv, DirectoriesInPlace, In, Package!At, Opening, Journaled, Shared, Retracting,
         Package!CacheOf
<1>10. OneOpen'
  BY <1>0, <1>1, <1>2, <1>3
     DEF PackageInv, OneOpen, Open, IsSettled, Unmoved, Package!Code, In, Package!At, Opening
<1>11. Pending' BY <1>0, <1>1, <1>2, <1>3, Runnings DEF PackageInv, Pending
<1>12. Reviewed'
  BY <1>0, <1>1, <1>2, <1>3
     DEF PackageInv, Reviewed, IsSettled, Unmoved, Package!Code, In, Opening, Package!At
<1>13. Originals'
  BY <1>0, <1>1, <1>2, <1>3
     DEF PackageInv, Originals, Unmoved, Package!Code, In, Package!At, Retracting
<1>14. NotYet' BY <1>0, <1>1, <1>2, <1>3 DEF PackageInv, NotYet, Open, Package!Code
<1>15. Somewhere' BY <1>0, <1>1, <1>2, <1>3 DEF PackageInv, Somewhere, Package!CacheOf
<1>16. Moved' BY <1>0, <1>1, <1>2, <1>3 DEF PackageInv, Moved, Package!CacheOf, In, Package!At
<1> QED
  BY <1>4, <1>5, <1>6, <1>7, <1>8, <1>9, <1>10, <1>11, <1>12, <1>13, <1>14, <1>15, <1>16, InvIs

\* ... and is compared with the version.
LEMMA VerifyUnpromotedStep ==
  ASSUME PackageInv, Package!VerifyUnpromoted, UNCHANGED <<deviceLocal, stops, Package!writes>>
  PROVE  PackageInv'
<1>0. /\ PackageTypeOK /\ run.pc = "verify-unpromoted" /\ run.id \in Package!Ids
           /\ run.j \in Package!Records /\ run.j # None
      /\ ~deviceLocal /\ run.recovering \in BOOLEAN /\ journal[run.id] = run.j
      /\ UNCHANGED <<root, stage, backup, journal, audited, deviceLocal, stops, used, written,
           tampered>>
  BY Underway DEF Package!VerifyUnpromoted, Package!At, Journaled, Retracting, Package!disk
<1>1. /\ backup[run.id] # None /\ run.j.phase = "local-changed" /\ ~audited
      /\ backup[run.id].code \in Edits /\ (run.back = "next" => run.recovering)
  BY <1>0, Retracts DEF Retracting
<1>2. CASE Package!Fail
  BY <1>0, <1>2, FailStep
     DEF Package!disk, Package!writes, PackageTypeOK, TypeRest
<1>3. CASE Package!Go("move-back")
  <2>1. /\ run' \in Runs /\ run'.id = run.id /\ run'.j = run.j /\ run'.pc = "move-back"
        /\ run'.recovering = run.recovering /\ run'.todo = run.todo /\ run'.clean = run.clean
             /\ run'.back = run.back
    BY <1>0, <1>3, Going DEF Journaled, Retracting
  <2>2. TypeDisk' BY <1>0, <1>1, <2>1 DEF PackageTypeOK, TypeDisk
  <2>3. TypeRun' BY <1>0, <1>1, <2>1 DEF PackageTypeOK, TypeRun
  <2>4. TypeRest' BY <1>0, <1>1, <2>1 DEF PackageTypeOK, TypeRest
  <2>5. RunIsOfTheRecord'
    BY <1>0, <1>1, <2>1, RunRetracting DEF Retracting
  <2>6. KindOfPackage'
    BY <1>0, <1>1, <2>1
       DEF PackageInv, KindOfPackage, In, Opening, Journaled, Shared, Retracting
  <2>7. DirectoriesInPlace'
    BY <1>0, <1>1, <2>1
       DEF PackageInv, DirectoriesInPlace, In, Package!At, Opening, Journaled, Shared,
           Retracting, Package!CacheOf
  <2>8. OneOpen'
    BY <1>0, <1>1, <2>1
       DEF PackageInv, OneOpen, Open, IsSettled, Unmoved, Package!Code, In, Package!At, Opening
  <2>9. Pending' BY <1>0, <1>1, <2>1, Runnings DEF PackageInv, Pending
  <2>10. Reviewed'
    BY <1>0, <1>1, <2>1
       DEF PackageInv, Reviewed, IsSettled, Unmoved, Package!Code, In, Opening, Package!At
  <2>11. Originals'
    BY <1>0, <1>1, <2>1
       DEF PackageInv, Originals, Unmoved, Package!Code, In, Package!At, Retracting
  <2>12. NotYet' BY <1>0, <1>1, <2>1 DEF PackageInv, NotYet, Open, Package!Code
  <2>13. Somewhere' BY <1>0, <1>1, <2>1 DEF PackageInv, Somewhere, Package!CacheOf
  <2>14. Moved' BY <1>0, <1>1, <2>1 DEF PackageInv, Moved, Package!CacheOf, In, Package!At
  <2> QED
    BY <2>2, <2>3, <2>4, <2>5, <2>6, <2>7, <2>8, <2>9, <2>10, <2>11, <2>12, <2>13, <2>14, InvIs
<1> QED BY <1>2, <1>3 DEF Package!VerifyUnpromoted

\* Its entries go back to the original, ...
LEMMA MoveBackStep ==
  ASSUME Package!NoneAssumption, PackageInv, Package!MoveBack,
         UNCHANGED <<deviceLocal, stops, Package!writes>>
  PROVE  PackageInv'
<1>0. /\ PackageTypeOK /\ run.pc = "move-back" /\ run.id \in Package!Ids
           /\ run.j \in Package!Records /\ run.j # None
      /\ ~deviceLocal /\ run.recovering \in BOOLEAN /\ journal[run.id] = run.j
      /\ backup[run.id] \in Package!Dirs \cup {None} /\ stage[run.id] \in Package!Dirs \cup {None}
      /\ UNCHANGED <<journal, audited, deviceLocal, stops, used, written, tampered>>
  BY Underway DEF Package!MoveBack, Package!At, Journaled, Retracting
<1>1. /\ backup[run.id] # None /\ run.j.phase = "local-changed" /\ ~audited
      /\ backup[run.id].code \in Edits /\ (run.back = "next" => run.recovering)
  BY <1>0, Retracts DEF Retracting
<1>2. CASE run.j.unmanaged \cap Package!CacheOf(Package!Staged) = {} /\ Package!Go("restore")
             /\ UNCHANGED Package!disk
  <2>1. /\ run' \in Runs /\ run'.id = run.id /\ run'.j = run.j /\ run'.pc = "restore"
        /\ run'.recovering = run.recovering /\ run'.todo = run.todo /\ run'.clean = run.clean
             /\ run'.back = run.back
        /\ UNCHANGED <<root, stage, backup>>
        /\ Package!CacheOf(stage[run.id]) \cap run.j.unmanaged = {}
    BY <1>0, <1>2, Going DEF Journaled, Retracting, Package!disk, Package!Staged
  <2>2. TypeDisk' BY <1>0, <1>1, <2>1 DEF PackageTypeOK, TypeDisk
  <2>3. TypeRun' BY <1>0, <1>1, <2>1 DEF PackageTypeOK, TypeRun
  <2>4. TypeRest' BY <1>0, <1>1, <2>1 DEF PackageTypeOK, TypeRest
  <2>5. RunIsOfTheRecord'
    BY <1>0, <1>1, <2>1, RunRetracting DEF Retracting
  <2>6. KindOfPackage'
    BY <1>0, <1>1, <2>1
       DEF PackageInv, KindOfPackage, In, Opening, Journaled, Shared, Retracting
  <2>7. DirectoriesInPlace'
    BY <1>0, <1>1, <2>1
       DEF PackageInv, DirectoriesInPlace, In, Package!At, Opening, Journaled, Shared,
           Retracting, Package!CacheOf
  <2>8. OneOpen'
    BY <1>0, <1>1, <2>1
       DEF PackageInv, OneOpen, Open, IsSettled, Unmoved, Package!Code, In, Package!At, Opening
  <2>9. Pending' BY <1>0, <1>1, <2>1, Runnings DEF PackageInv, Pending
  <2>10. Reviewed'
    BY <1>0, <1>1, <2>1
       DEF PackageInv, Reviewed, IsSettled, Unmoved, Package!Code, In, Opening, Package!At
  <2>11. Originals'
    BY <1>0, <1>1, <2>1
       DEF PackageInv, Originals, Unmoved, Package!Code, In, Package!At, Retracting
  <2>12. NotYet' BY <1>0, <1>1, <2>1 DEF PackageInv, NotYet, Open, Package!Code
  <2>13. Somewhere' BY <1>0, <1>1, <2>1 DEF PackageInv, Somewhere, Package!CacheOf
  <2>14. Moved' BY <1>0, <1>1, <2>1 DEF PackageInv, Moved, Package!CacheOf, In, Package!At
  <2> QED
    BY <2>2, <2>3, <2>4, <2>5, <2>6, <2>7, <2>8, <2>9, <2>10, <2>11, <2>12, <2>13, <2>14, InvIs
<1>3. CASE Package!Fail /\ UNCHANGED Package!disk
  BY <1>0, <1>3, FailStep
     DEF Package!writes, PackageTypeOK, TypeRest
<1>4. ASSUME NEW c \in Caches, c \in Package!CacheOf(Package!Staged),
             stage' = [stage EXCEPT ![run.id].cache = @ \ {c}],
             backup' = [backup EXCEPT ![run.id].cache = @ \cup {c}], UNCHANGED <<root, run>>
      PROVE  PackageInv'
  <2>1. stage[run.id] # None /\ backup[run.id] \in Package!Dirs /\ stage[run.id] \in Package!Dirs
    BY <1>0, <1>1, <1>4 DEF Package!Staged, Package!CacheOf
  <2>2. /\ stage' \in [Package!Ids -> Package!Dirs \cup {None}] /\ stage'[run.id] # None
             /\ stage'[run.id].code = stage[run.id].code
        /\ Package!CacheOf(stage'[run.id]) = Package!CacheOf(stage[run.id]) \ {c}
        /\ \A i \in Package!Ids : i # run.id => stage'[i] = stage[i]
    <3> DEFINE d == [stage[run.id] EXCEPT !.cache = @ \ {c}]
    <3>1. d \in Package!Dirs /\ d.code = stage[run.id].code /\ d.cache = stage[run.id].cache \ {c}
      BY <2>1 DEF Package!Dirs
    <3>2. stage' = [stage EXCEPT ![run.id] = d] BY <1>4
    <3> HIDE DEF d
    <3> QED BY <1>0, <1>1, <2>1, <3>1, <3>2, DirectoryFacts DEF PackageTypeOK, TypeDisk
  <2>3. /\ backup' \in [Package!Ids -> Package!Dirs \cup {None}] /\ backup'[run.id] # None
        /\ backup'[run.id].code = backup[run.id].code
        /\ Package!CacheOf(backup'[run.id]) = Package!CacheOf(backup[run.id]) \cup {c}
        /\ \A i \in Package!Ids : i # run.id => backup'[i] = backup[i]
    <3> DEFINE d == [backup[run.id] EXCEPT !.cache = @ \cup {c}]
    <3>1. d \in Package!Dirs /\ d.code = backup[run.id].code
            /\ d.cache = backup[run.id].cache \cup {c}
      BY <2>1 DEF Package!Dirs
    <3>2. backup' = [backup EXCEPT ![run.id] = d] BY <1>4
    <3> HIDE DEF d
    <3> QED BY <1>0, <1>1, <2>1, <3>1, <3>2, DirectoryFacts DEF PackageTypeOK, TypeDisk
  <2>4. run'.pc = "move-back" /\ UNCHANGED run BY <1>0, <1>4
  <2>5. TypeDisk' BY <1>0, <1>1, <1>4, <2>1, <2>2, <2>3, <2>4 DEF PackageTypeOK, TypeDisk
  <2>6. TypeRun' BY <1>0, <1>1, <1>4, <2>1, <2>2, <2>3, <2>4 DEF PackageTypeOK, TypeRun
  <2>7. TypeRest' BY <1>0, <1>1, <1>4, <2>1, <2>2, <2>3, <2>4 DEF PackageTypeOK, TypeRest
  <2>8. RunIsOfTheRecord'
    BY <1>0, <1>1, <1>4, <2>1, <2>2, <2>3, <2>4, RunRetracting DEF Retracting
  <2>9. KindOfPackage'
    BY <1>0, <1>1, <1>4, <2>1, <2>2, <2>3, <2>4
       DEF PackageInv, KindOfPackage, In, Opening, Journaled, Shared, Retracting
  <2>10. DirectoriesInPlace'
    BY <1>0, <1>1, <1>4, <2>1, <2>2, <2>3, <2>4
       DEF PackageInv, DirectoriesInPlace, In, Package!At, Opening, Journaled, Shared,
           Retracting, Package!CacheOf
  <2>11. OneOpen'
    BY <1>0, <1>1, <1>4, <2>1, <2>2, <2>3, <2>4
       DEF PackageInv, OneOpen, Open, IsSettled, Unmoved, Package!Code, In, Package!At, Opening
  <2>12. Pending' BY <1>0, <1>1, <1>4, <2>1, <2>2, <2>3, <2>4, Runnings DEF PackageInv, Pending
  <2>13. Reviewed'
    BY <1>0, <1>1, <1>4, <2>1, <2>2, <2>3, <2>4
       DEF PackageInv, Reviewed, IsSettled, Unmoved, Package!Code, In, Opening, Package!At
  <2>14. Originals'
    BY <1>0, <1>1, <1>4, <2>1, <2>2, <2>3, <2>4
       DEF PackageInv, Originals, Unmoved, Package!Code, In, Package!At, Retracting
  <2>15. NotYet'
    BY <1>0, <1>1, <1>4, <2>1, <2>2, <2>3, <2>4
       DEF PackageInv, NotYet, Open, Package!Code
  <2>16. Somewhere'
    BY <1>0, <1>1, <1>4, <2>1, <2>2, <2>3, <2>4
       DEF PackageInv, Somewhere, Package!CacheOf
  <2>17. Moved'
    BY <1>0, <1>1, <1>4, <2>1, <2>2, <2>3, <2>4
       DEF PackageInv, Moved, Package!CacheOf, In, Package!At
  <2> QED
    BY <2>5, <2>6, <2>7, <2>8, <2>9, <2>10, <2>11, <2>12, <2>13, <2>14, <2>15, <2>16, <2>17,
       InvIs
<1>5. run.j.unmanaged \subseteq Caches BY <1>0, RecordFacts
<1> QED BY <1>2, <1>3, <1>4, <1>5 DEF Package!MoveBack

\* The changed original is the package again: its record is settled.
LEMMA RestoreOriginalStep ==
  ASSUME Package!CodesAssumption, Package!NoneAssumption, PackageInv, Package!RestoreOriginal,
         UNCHANGED <<deviceLocal, stops, Package!writes>>
  PROVE  PackageInv'
<1>0. /\ PackageTypeOK /\ run.pc = "restore" /\ run.id \in Package!Ids
           /\ run.j \in Package!Records /\ run.j # None
      /\ ~deviceLocal /\ run.recovering \in BOOLEAN /\ journal[run.id] = run.j
      /\ UNCHANGED <<stage, audited, deviceLocal, stops, used, written, tampered>>
  BY Underway DEF Package!RestoreOriginal, Package!At, Journaled, Retracting
<1>1. /\ backup[run.id] # None /\ run.j.phase = "local-changed" /\ ~audited
      /\ backup[run.id].code \in Edits /\ Package!CacheOf(stage[run.id]) \cap run.j.unmanaged = {}
  BY <1>0, Retracts DEF Retracting, PackageInv, Moved, Package!At
<1>2. CASE Package!Fail /\ UNCHANGED <<root, backup, journal>>
  BY <1>0, <1>2, FailStep DEF Package!disk, Package!writes, PackageTypeOK, TypeRest
<1>3. CASE /\ root = None /\ root' = Package!Original /\ backup' = [backup EXCEPT ![run.id] = None]
           /\ Package!Persist(run.j) /\ Package!Return
  <2>1. /\ backup' \in [Package!Ids -> Package!Dirs \cup {None}] /\ backup'[run.id] = None
        /\ (\A i \in Package!Ids : i # run.id => backup'[i] = backup[i])
        /\ root' = backup[run.id] /\ root' \in Package!Dirs /\ journal' = journal
    BY <1>0, <1>1, <1>3 DEF Package!Original, Package!Persist, PackageTypeOK, TypeDisk, TypeRun
  <2>2. root'.code # NoCode /\ \A i \in Package!Ids : journal[i] # None
          => root'.code # journal[i].target
    BY <1>0, <1>1, <2>1, RecordFacts DEF PackageTypeOK, TypeRun
  <2>3. CASE Package!Fail
    <3>1. /\ run' \in Runs /\ run'.pc = "idle" /\ ~run'.recovering BY <2>3, Ending DEF Package!Fail
    <3>2. TypeDisk' BY <1>0, <1>1, <1>3, <2>1, <2>2, <3>1 DEF PackageTypeOK, TypeDisk
    <3>3. TypeRun' BY <1>0, <1>1, <1>3, <2>1, <2>2, <3>1 DEF PackageTypeOK, TypeRun
    <3>4. TypeRest' BY <1>0, <1>1, <1>3, <2>1, <2>2, <3>1 DEF PackageTypeOK, TypeRest
    <3>5. RunIsOfTheRecord'
      BY <1>0, <1>1, <1>3, <2>1, <2>2, <3>1, RecordFacts
         DEF PackageInv, RunIsOfTheRecord, Open, In, Package!At, Opening, Journaled, Shared,
             Retracting
    <3>6. KindOfPackage'
      BY <1>0, <1>1, <1>3, <2>1, <2>2, <3>1
         DEF PackageInv, KindOfPackage, In, Opening, Journaled, Shared, Retracting
    <3>7. DirectoriesInPlace'
      BY <1>0, <1>1, <1>3, <2>1, <2>2, <3>1
         DEF PackageInv, DirectoriesInPlace, In, Package!At, Opening, Journaled, Shared,
             Retracting, Package!CacheOf
    <3>8. OneOpen'
      BY <1>0, <1>1, <1>3, <2>1, <2>2, <3>1
         DEF PackageInv, OneOpen, Open, IsSettled, Unmoved, Package!Code, In, Package!At,
             Opening
    <3>9. Pending' BY <1>0, <1>1, <1>3, <2>1, <2>2, <3>1, Runnings DEF PackageInv, Pending
    <3>10. Reviewed'
      BY <1>0, <1>1, <1>3, <2>1, <2>2, <3>1
         DEF PackageInv, Reviewed, IsSettled, Unmoved, Package!Code, In, Opening, Package!At
    <3>11. Originals'
      BY <1>0, <1>1, <1>3, <2>1, <2>2, <3>1
         DEF PackageInv, Originals, Unmoved, Package!Code, In, Package!At, Retracting
    <3>12. NotYet' BY <1>0, <1>1, <1>3, <2>1, <2>2, <3>1 DEF PackageInv, NotYet, Open, Package!Code
    <3>13. Somewhere'
      BY <1>0, <1>1, <1>3, <2>1, <2>2, <3>1
         DEF PackageInv, Somewhere, Package!CacheOf
    <3>14. Moved'
      BY <1>0, <1>1, <1>3, <2>1, <2>2, <3>1
         DEF PackageInv, Moved, Package!CacheOf, In, Package!At
    <3> QED
      BY <3>2, <3>3, <3>4, <3>5, <3>6, <3>7, <3>8, <3>9, <3>10, <3>11, <3>12, <3>13, <3>14,
         InvIs
  <2>4. CASE Package!Go("next") /\ run.recovering
    <3>1. /\ run' \in Runs /\ run'.pc = "next" /\ run'.id = run.id /\ run'.j = run.j
          /\ run'.recovering = run.recovering /\ run'.todo = run.todo
               /\ run'.clean = run.clean /\ run'.back = run.back
      BY <1>0, <2>4, Going
    <3>2. TypeDisk' BY <1>0, <1>1, <1>3, <2>1, <2>2, <2>4, <3>1 DEF PackageTypeOK, TypeDisk
    <3>3. TypeRun' BY <1>0, <1>1, <1>3, <2>1, <2>2, <2>4, <3>1 DEF PackageTypeOK, TypeRun
    <3>4. TypeRest' BY <1>0, <1>1, <1>3, <2>1, <2>2, <2>4, <3>1 DEF PackageTypeOK, TypeRest
    <3>5. RunIsOfTheRecord'
      BY <1>0, <1>1, <1>3, <2>1, <2>2, <2>4, <3>1, RunNext DEF Shared
    <3>6. KindOfPackage'
      BY <1>0, <1>1, <1>3, <2>1, <2>2, <2>4, <3>1
         DEF PackageInv, KindOfPackage, In, Opening, Journaled, Shared, Retracting
    <3>7. DirectoriesInPlace'
      BY <1>0, <1>1, <1>3, <2>1, <2>2, <2>4, <3>1
         DEF PackageInv, DirectoriesInPlace, In, Package!At, Opening, Journaled, Shared,
             Retracting, Package!CacheOf
    <3>8. OneOpen'
      BY <1>0, <1>1, <1>3, <2>1, <2>2, <2>4, <3>1
         DEF PackageInv, OneOpen, Open, IsSettled, Unmoved, Package!Code, In, Package!At,
             Opening
    <3>9. Pending' BY <1>0, <1>1, <1>3, <2>1, <2>2, <2>4, <3>1, Runnings DEF PackageInv, Pending
    <3>10. Reviewed'
      BY <1>0, <1>1, <1>3, <2>1, <2>2, <2>4, <3>1
         DEF PackageInv, Reviewed, IsSettled, Unmoved, Package!Code, In, Opening, Package!At
    <3>11. Originals'
      BY <1>0, <1>1, <1>3, <2>1, <2>2, <2>4, <3>1
         DEF PackageInv, Originals, Unmoved, Package!Code, In, Package!At, Retracting
    <3>12. NotYet'
      BY <1>0, <1>1, <1>3, <2>1, <2>2, <2>4, <3>1
         DEF PackageInv, NotYet, Open, Package!Code
    <3>13. Somewhere'
      BY <1>0, <1>1, <1>3, <2>1, <2>2, <2>4, <3>1
         DEF PackageInv, Somewhere, Package!CacheOf
    <3>14. Moved'
      BY <1>0, <1>1, <1>3, <2>1, <2>2, <2>4, <3>1
         DEF PackageInv, Moved, Package!CacheOf, In, Package!At
    <3> QED
      BY <3>2, <3>3, <3>4, <3>5, <3>6, <3>7, <3>8, <3>9, <3>10, <3>11, <3>12, <3>13, <3>14,
         InvIs
  <2>5. run.back = "next" => run.recovering
    BY <1>0 DEF PackageInv, RunIsOfTheRecord, In, Retracting
  <2> QED BY <1>0, <1>3, <2>3, <2>4, <2>5, Runnings DEF Package!Return
<1> QED BY <1>2, <1>3 DEF Package!RestoreOriginal

\* A recovery begins ...
LEMMA RecoverStep ==
  ASSUME PackageInv, Package!Recover, UNCHANGED <<deviceLocal, stops, Package!writes>>
  PROVE  PackageInv'
<1>0. /\ PackageTypeOK /\ run.pc = "idle" /\ audited' = FALSE
      /\ UNCHANGED <<root, stage, backup, journal, deviceLocal, stops, used, written, tampered>>
  BY DEF Package!Recover, Package!At, Package!disk, Package!writes, PackageInv
<1>1. /\ run' \in Runs /\ run'.pc = "next" /\ run'.recovering = TRUE
      /\ run'.todo = {i \in Package!Ids : journal[i] # None}
  BY DEF Package!Recover, Package!Idle, Runs
<1>2. TypeDisk' BY <1>0, <1>1 DEF PackageTypeOK, TypeDisk
<1>3. TypeRun' BY <1>0, <1>1 DEF PackageTypeOK, TypeRun
<1>4. TypeRest' BY <1>0, <1>1 DEF PackageTypeOK, TypeRest
<1>5. RunIsOfTheRecord'
  BY <1>0, <1>1, RunNext DEF Shared
<1>6. KindOfPackage'
  BY <1>0, <1>1
     DEF PackageInv, KindOfPackage, In, Opening, Journaled, Shared, Retracting
<1>7. DirectoriesInPlace'
  BY <1>0, <1>1
     DEF PackageInv, DirectoriesInPlace, In, Package!At, Opening, Journaled, Shared, Retracting,
         Package!CacheOf
<1>8. OneOpen'
  BY <1>0, <1>1
     DEF PackageInv, OneOpen, Open, IsSettled, Unmoved, Package!Code, In, Package!At, Opening
<1>9. Pending' BY <1>0, <1>1, Runnings DEF PackageInv, Pending
<1>10. Reviewed'
  BY <1>0, <1>1
     DEF PackageInv, Reviewed, IsSettled, Unmoved, Package!Code, In, Opening, Package!At,
         DirectoriesInPlace
<1>11. Originals'
  BY <1>0, <1>1
     DEF PackageInv, Originals, Unmoved, Package!Code, In, Package!At, Retracting
<1>12. NotYet' BY <1>0, <1>1 DEF PackageInv, NotYet, Open, Package!Code
<1>13. Somewhere' BY <1>0, <1>1 DEF PackageInv, Somewhere, Package!CacheOf
<1>14. Moved' BY <1>0, <1>1 DEF PackageInv, Moved, Package!CacheOf, In, Package!At
<1> QED BY <1>2, <1>3, <1>4, <1>5, <1>6, <1>7, <1>8, <1>9, <1>10, <1>11, <1>12, <1>13, <1>14, InvIs

\* ... and has looked at every record.
LEMMA RecoveredStep ==
  ASSUME Package!NoneAssumption, PackageInv, Package!Recovered,
         UNCHANGED <<deviceLocal, stops, Package!writes>>
  PROVE  PackageInv'
<1>0. /\ PackageTypeOK /\ run.pc = "next" /\ run.todo = {} /\ audited' = run.clean
           /\ run.clean \in BOOLEAN
      /\ run.recovering
      /\ UNCHANGED <<root, stage, backup, journal, deviceLocal, stops, used, written, tampered>>
  BY Runnings
     DEF Package!Recovered, Package!At, Package!disk, Package!writes, PackageInv,
         RunIsOfTheRecord
<1>1. /\ run' \in Runs /\ run'.pc = "idle" /\ ~run'.recovering
  BY Ending
     DEF Package!Recovered, Package!Fail
<1>2. ~deviceLocal => \A i \in Package!Ids : IsSettled(i) /\ (run.clean => Unmoved(i))
  BY <1>0 DEF PackageInv, Reviewed, Package!At
<1>3. TypeDisk' BY <1>0, <1>1, <1>2 DEF PackageTypeOK, TypeDisk
<1>4. TypeRun' BY <1>0, <1>1, <1>2 DEF PackageTypeOK, TypeRun
<1>5. TypeRest' BY <1>0, <1>1, <1>2 DEF PackageTypeOK, TypeRest
<1>6. RunIsOfTheRecord'
  BY <1>0, <1>1, <1>2, RecordFacts
     DEF PackageInv, RunIsOfTheRecord, Open, In, Package!At, Opening, Journaled, Shared,
         Retracting
<1>7. KindOfPackage'
  BY <1>0, <1>1, <1>2
     DEF PackageInv, KindOfPackage, In, Opening, Journaled, Shared, Retracting
<1>8. DirectoriesInPlace'
  BY <1>0, <1>1, <1>2
     DEF PackageInv, DirectoriesInPlace, In, Package!At, Opening, Journaled, Shared, Retracting,
         Package!CacheOf
<1>9. OneOpen'
  BY <1>0, <1>1, <1>2
     DEF PackageInv, OneOpen, Open, IsSettled, Unmoved, Package!Code, In, Package!At, Opening
<1>10. Pending' BY <1>0, <1>1, <1>2, Runnings DEF PackageInv, Pending
<1>11. Reviewed'
  BY <1>0, <1>1, <1>2
     DEF PackageInv, Reviewed, IsSettled, Unmoved, Package!Code, In, Opening, Package!At
<1>12. Originals'
  BY <1>0, <1>1, <1>2
     DEF PackageInv, Originals, Unmoved, Package!Code, In, Package!At, Retracting
<1>13. NotYet' BY <1>0, <1>1, <1>2 DEF PackageInv, NotYet, Open, Package!Code
<1>14. Somewhere' BY <1>0, <1>1, <1>2 DEF PackageInv, Somewhere, Package!CacheOf
<1>15. Moved' BY <1>0, <1>1, <1>2 DEF PackageInv, Moved, Package!CacheOf, In, Package!At
<1> QED BY <1>3, <1>4, <1>5, <1>6, <1>7, <1>8, <1>9, <1>10, <1>11, <1>12, <1>13, <1>14, <1>15, InvIs

\* The next record of a recovery, by what the recovery does with it.
LEMMA ExamineStep ==
  ASSUME Package!NoneAssumption,
         PackageInv, Package!At("next"), NEW i \in run.todo, Package!Examine(i),
           UNCHANGED <<Package!disk, audited, deviceLocal, stops, Package!writes>>
  PROVE  PackageInv'
<1> DEFINE j    == journal[i]
           here == [run EXCEPT !.id = i, !.j = j, !.todo = @ \ {i}]
<1>0. /\ PackageTypeOK /\ run.pc = "next" /\ i \in Package!Ids
           /\ j \in Package!Records \cup {None} /\ run.recovering
      /\ UNCHANGED <<root, stage, backup, audited, deviceLocal, stops, used, written, tampered>>
      /\ backup[i] \in Package!Dirs \cup {None} /\ stage[i] \in Package!Dirs \cup {None}
  BY DEF Package!At, Package!disk, Package!writes, PackageInv, PackageTypeOK, TypeRun, TypeDisk,
         Runs, RunIsOfTheRecord
<1>1. /\ run \in Runs /\ here.id = i /\ here.j = j /\ here.todo = run.todo \ {i}
      /\ here.recovering = run.recovering /\ here.clean = run.clean
  BY <1>0 DEF Runs, PackageTypeOK, TypeRun
<1>3. \A pc \in {"next"} \cup Journaled :
         LET r == [here EXCEPT !.pc = pc]
         IN  /\ r \in Runs /\ r.pc = pc /\ r.id = i /\ r.j = j /\ r.todo = run.todo \ {i}
             /\ r.recovering = run.recovering /\ r.clean = run.clean /\ r.back = run.back
  BY <1>0, <1>1 DEF Runs
<1>4. ~deviceLocal => ~audited /\ \A k \in Package!Ids \ run.todo : IsSettled(k)
        /\ (run.clean => Unmoved(k))
  BY <1>0 DEF PackageInv, OneOpen, Reviewed, Package!At
<1> DEFINE Skipped   == run' = [here EXCEPT !.pc = "next"] /\ UNCHANGED journal
           Turned(b) == run' = [here EXCEPT !.pc = "retract", !.back = b] /\ UNCHANGED journal
           Goes(pc)  == run' = [here EXCEPT !.pc = pc] /\ UNCHANGED journal
           all       == [j EXCEPT !.unmanaged = @ \cup Package!CacheOf(backup[i])]
<1>5. CASE Skipped /\ (~deviceLocal => IsSettled(i) /\ Unmoved(i))
  <2>1. /\ run' \in Runs /\ run'.pc = "next" /\ run'.id = i /\ run'.todo = run.todo \ {i}
        /\ run'.recovering = run.recovering /\ run'.clean = run.clean /\ journal' = journal
    BY <1>3, <1>5
  <2> HIDE DEF here, j
  <2>2. TypeDisk' BY <1>0, <1>4, <1>5, <2>1 DEF PackageTypeOK, TypeDisk
  <2>3. TypeRun' BY <1>0, <1>4, <1>5, <2>1 DEF PackageTypeOK, TypeRun
  <2>4. TypeRest' BY <1>0, <1>4, <1>5, <2>1 DEF PackageTypeOK, TypeRest
  <2>5. RunIsOfTheRecord'
    BY <1>0, <1>4, <1>5, <2>1, RunNext DEF Shared
  <2>6. KindOfPackage'
    BY <1>0, <1>4, <1>5, <2>1
       DEF PackageInv, KindOfPackage, In, Opening, Journaled, Shared, Retracting
  <2>7. DirectoriesInPlace'
    BY <1>0, <1>4, <1>5, <2>1
       DEF PackageInv, DirectoriesInPlace, In, Package!At, Opening, Journaled, Shared,
           Retracting, Package!CacheOf
  <2>8. OneOpen'
    BY <1>0, <1>4, <1>5, <2>1
       DEF PackageInv, OneOpen, Open, IsSettled, Unmoved, Package!Code, In, Package!At, Opening
  <2>9. Pending' BY <1>0, <1>4, <1>5, <2>1, Runnings DEF PackageInv, Pending
  <2>10. Reviewed'
    BY <1>0, <1>4, <1>5, <2>1
       DEF PackageInv, Reviewed, IsSettled, Unmoved, Package!Code, In, Opening, Package!At
  <2>11. Originals'
    BY <1>0, <1>4, <1>5, <2>1
       DEF PackageInv, Originals, Unmoved, Package!Code, In, Package!At, Retracting
  <2>12. NotYet' BY <1>0, <1>4, <1>5, <2>1 DEF PackageInv, NotYet, Open, Package!Code
  <2>13. Somewhere' BY <1>0, <1>4, <1>5, <2>1 DEF PackageInv, Somewhere, Package!CacheOf
  <2>14. Moved' BY <1>0, <1>4, <1>5, <2>1 DEF PackageInv, Moved, Package!CacheOf, In, Package!At
  <2> QED
    BY <2>2, <2>3, <2>4, <2>5, <2>6, <2>7, <2>8, <2>9, <2>10, <2>11, <2>12, <2>13, <2>14, InvIs
<1>6. ASSUME NEW b \in {"fail", "next"}, Turned(b), ~deviceLocal, j # None, backup[i] # None,
             backup[i].code \in Edits
      PROVE  PackageInv'
  <2>1. /\ run' \in Runs /\ run'.pc = "retract" /\ run'.id = i /\ run'.j = j
             /\ run'.todo = run.todo \ {i}
        /\ run'.recovering = run.recovering /\ run'.clean = run.clean /\ run'.back = b
             /\ journal' = journal
    BY <1>0, <1>1, <1>6 DEF Runs, Journaled, Retracting
  <2>2. journal[i] = j /\ run'.j = journal'[i] BY <2>1
  <2> HIDE DEF here, j
  <2>3. TypeDisk' BY <1>0, <1>4, <1>6, <2>1, <2>2 DEF PackageTypeOK, TypeDisk
  <2>4. TypeRun' BY <1>0, <1>4, <1>6, <2>1, <2>2 DEF PackageTypeOK, TypeRun
  <2>5. TypeRest' BY <1>0, <1>4, <1>6, <2>1, <2>2 DEF PackageTypeOK, TypeRest
  <2>6. RunIsOfTheRecord'
    BY <1>0, <1>4, <1>6, <2>1, <2>2, RunRetracting DEF Retracting
  <2>7. KindOfPackage'
    BY <1>0, <1>4, <1>6, <2>1, <2>2
       DEF PackageInv, KindOfPackage, In, Opening, Journaled, Shared, Retracting
  <2>8. DirectoriesInPlace'
    BY <1>0, <1>4, <1>6, <2>1, <2>2
       DEF PackageInv, DirectoriesInPlace, In, Package!At, Opening, Journaled, Shared,
           Retracting, Package!CacheOf
  <2>9. OneOpen'
    BY <1>0, <1>4, <1>6, <2>1, <2>2
       DEF PackageInv, OneOpen, Open, IsSettled, Unmoved, Package!Code, In, Package!At, Opening
  <2>10. Pending' BY <1>0, <1>4, <1>6, <2>1, <2>2, Runnings DEF PackageInv, Pending
  <2>11. Reviewed'
    BY <1>0, <1>4, <1>6, <2>1, <2>2
       DEF PackageInv, Reviewed, IsSettled, Unmoved, Package!Code, In, Opening, Package!At
  <2>12. Originals'
    BY <1>0, <1>4, <1>6, <2>1, <2>2
       DEF PackageInv, Originals, Unmoved, Package!Code, In, Package!At, Retracting
  <2>13. NotYet' BY <1>0, <1>4, <1>6, <2>1, <2>2 DEF PackageInv, NotYet, Open, Package!Code
  <2>14. Somewhere' BY <1>0, <1>4, <1>6, <2>1, <2>2 DEF PackageInv, Somewhere, Package!CacheOf
  <2>15. Moved'
    BY <1>0, <1>4, <1>6, <2>1, <2>2
       DEF PackageInv, Moved, Package!CacheOf, In, Package!At
  <2> QED
    BY <2>3, <2>4, <2>5, <2>6, <2>7, <2>8, <2>9, <2>10, <2>11, <2>12, <2>13, <2>14, <2>15, InvIs
<1>7. CASE Goes("guard-finish") /\ ~deviceLocal /\ Open(i) /\ root # None
             /\ Package!Code(root) = j.target
  <2>1. /\ run' \in Runs /\ run'.pc = "guard-finish" /\ run'.id = i /\ run'.j = j
             /\ run'.todo = run.todo \ {i}
        /\ run'.recovering = run.recovering /\ run'.clean = run.clean /\ journal' = journal
    BY <1>3, <1>7 DEF Journaled, Shared
  <2>2. /\ journal[i] = j /\ run'.j = journal'[i] /\ j # None
        /\ j.phase \in {"prepared", "backed-up", "promoting"}
    BY <1>7, <2>1 DEF Open
  <2>3. ~tampered => Package!CacheOf(backup[i]) = {} /\ Package!CacheOf(stage[i]) = {}
    <3>1. j.target # NoCode BY <1>7 DEF PackageInv, DirectoriesInPlace, Package!Code
    <3>2. j.phase = "promoting" /\ stage[i] = None BY <1>0, <1>7, <3>1 DEF PackageInv, NotYet
    <3> QED BY <1>0, <1>7, <2>2, <3>1, <3>2 DEF PackageInv, Moved, Package!CacheOf
  <2> HIDE DEF here, j
  <2>4. TypeDisk' BY <1>0, <1>4, <1>7, <2>1, <2>2, <2>3 DEF PackageTypeOK, TypeDisk
  <2>5. TypeRun' BY <1>0, <1>4, <1>7, <2>1, <2>2, <2>3 DEF PackageTypeOK, TypeRun
  <2>6. TypeRest' BY <1>0, <1>4, <1>7, <2>1, <2>2, <2>3 DEF PackageTypeOK, TypeRest
  <2>7. RunIsOfTheRecord'
    BY <1>0, <1>4, <1>7, <2>1, <2>2, <2>3, RunShared DEF Shared
  <2>8. KindOfPackage'
    BY <1>0, <1>4, <1>7, <2>1, <2>2, <2>3
       DEF PackageInv, KindOfPackage, In, Opening, Journaled, Shared, Retracting
  <2>9. DirectoriesInPlace'
    BY <1>0, <1>4, <1>7, <2>1, <2>2, <2>3
       DEF PackageInv, DirectoriesInPlace, In, Package!At, Opening, Journaled, Shared,
           Retracting, Package!CacheOf
  <2>10. OneOpen'
    BY <1>0, <1>4, <1>7, <2>1, <2>2, <2>3
       DEF PackageInv, OneOpen, Open, IsSettled, Unmoved, Package!Code, In, Package!At, Opening
  <2>11. Pending' BY <1>0, <1>4, <1>7, <2>1, <2>2, <2>3, Runnings DEF PackageInv, Pending
  <2>12. Reviewed'
    BY <1>0, <1>4, <1>7, <2>1, <2>2, <2>3
       DEF PackageInv, Reviewed, IsSettled, Unmoved, Package!Code, In, Opening, Package!At
  <2>13. Originals'
    BY <1>0, <1>4, <1>7, <2>1, <2>2, <2>3
       DEF PackageInv, Originals, Unmoved, Package!Code, In, Package!At, Retracting
  <2>14. NotYet' BY <1>0, <1>4, <1>7, <2>1, <2>2, <2>3 DEF PackageInv, NotYet, Open, Package!Code
  <2>15. Somewhere' BY <1>0, <1>4, <1>7, <2>1, <2>2, <2>3 DEF PackageInv, Somewhere, Package!CacheOf
  <2>16. Moved'
    BY <1>0, <1>4, <1>7, <2>1, <2>2, <2>3
       DEF PackageInv, Moved, Package!CacheOf, In, Package!At
  <2> QED
    BY <2>4, <2>5, <2>6, <2>7, <2>8, <2>9, <2>10, <2>11, <2>12, <2>13, <2>14, <2>15, <2>16,
       InvIs
<1>8. CASE Goes("finish") /\ ~deviceLocal /\ Open(i) /\ Package!Code(backup[i]) = j.prior
             /\ j.target = NoCode
  <2>1. /\ run' \in Runs /\ run'.pc = "finish" /\ run'.id = i /\ run'.j = j
             /\ run'.todo = run.todo \ {i}
        /\ run'.recovering = run.recovering /\ run'.clean = run.clean /\ journal' = journal
    BY <1>3, <1>8 DEF Journaled, Shared
  <2>2. /\ journal[i] = j /\ run'.j = journal'[i] /\ j # None
        /\ j.phase \in {"prepared", "backed-up", "promoting"}
    BY <1>8, <2>1 DEF Open
  <2> HIDE DEF here, j
  <2>3. TypeDisk' BY <1>0, <1>4, <1>8, <2>1, <2>2 DEF PackageTypeOK, TypeDisk
  <2>4. TypeRun' BY <1>0, <1>4, <1>8, <2>1, <2>2 DEF PackageTypeOK, TypeRun
  <2>5. TypeRest' BY <1>0, <1>4, <1>8, <2>1, <2>2 DEF PackageTypeOK, TypeRest
  <2>6. RunIsOfTheRecord'
    BY <1>0, <1>4, <1>8, <2>1, <2>2, RunShared DEF Shared
  <2>7. KindOfPackage'
    BY <1>0, <1>4, <1>8, <2>1, <2>2
       DEF PackageInv, KindOfPackage, In, Opening, Journaled, Shared, Retracting
  <2>8. DirectoriesInPlace'
    BY <1>0, <1>4, <1>8, <2>1, <2>2
       DEF PackageInv, DirectoriesInPlace, In, Package!At, Opening, Journaled, Shared,
           Retracting, Package!CacheOf
  <2>9. OneOpen'
    BY <1>0, <1>4, <1>8, <2>1, <2>2
       DEF PackageInv, OneOpen, Open, IsSettled, Unmoved, Package!Code, In, Package!At, Opening
  <2>10. Pending' BY <1>0, <1>4, <1>8, <2>1, <2>2, Runnings DEF PackageInv, Pending
  <2>11. Reviewed'
    BY <1>0, <1>4, <1>8, <2>1, <2>2
       DEF PackageInv, Reviewed, IsSettled, Unmoved, Package!Code, In, Opening, Package!At
  <2>12. Originals'
    BY <1>0, <1>4, <1>8, <2>1, <2>2
       DEF PackageInv, Originals, Unmoved, Package!Code, In, Package!At, Retracting
  <2>13. NotYet' BY <1>0, <1>4, <1>8, <2>1, <2>2 DEF PackageInv, NotYet, Open, Package!Code
  <2>14. Somewhere' BY <1>0, <1>4, <1>8, <2>1, <2>2 DEF PackageInv, Somewhere, Package!CacheOf
  <2>15. Moved'
    BY <1>0, <1>4, <1>8, <2>1, <2>2
       DEF PackageInv, Moved, Package!CacheOf, In, Package!At
  <2> QED
    BY <2>3, <2>4, <2>5, <2>6, <2>7, <2>8, <2>9, <2>10, <2>11, <2>12, <2>13, <2>14, <2>15, InvIs
<1>9. CASE /\ ~deviceLocal /\ j # None /\ j.phase = "prepared" /\ backup[i] = None
           /\ run' = [here EXCEPT !.pc = "next"] /\ journal' = [journal EXCEPT ![i] = None]
  <2>1. /\ run' \in Runs /\ run'.pc = "next" /\ run'.id = i /\ run'.todo = run.todo \ {i}
        /\ run'.recovering = run.recovering /\ run'.clean = run.clean
    BY <1>3, <1>9
  <2>2. /\ journal' \in [Package!Ids -> Package!Records \cup {None}] /\ journal'[i] = None
        /\ \A k \in Package!Ids : k # i => journal'[k] = journal[k]
    BY <1>0, <1>9 DEF PackageTypeOK, TypeRun
  <2>3. Package!CacheOf(stage[i]) = {} BY <1>0, <1>9 DEF PackageInv, Moved
  <2>4. journal[i] = j OBVIOUS
  <2> HIDE DEF here, j
  <2>5. TypeDisk' BY <1>0, <1>4, <1>9, <2>1, <2>2, <2>3, <2>4 DEF PackageTypeOK, TypeDisk
  <2>6. TypeRun' BY <1>0, <1>4, <1>9, <2>1, <2>2, <2>3, <2>4 DEF PackageTypeOK, TypeRun
  <2>7. TypeRest' BY <1>0, <1>4, <1>9, <2>1, <2>2, <2>3, <2>4 DEF PackageTypeOK, TypeRest
  <2>8. RunIsOfTheRecord'
    BY <1>0, <1>4, <1>9, <2>1, <2>2, <2>3, <2>4, RunNext DEF Shared
  <2>9. KindOfPackage'
    BY <1>0, <1>4, <1>9, <2>1, <2>2, <2>3, <2>4
       DEF PackageInv, KindOfPackage, In, Opening, Journaled, Shared, Retracting
  <2>10. DirectoriesInPlace'
    BY <1>0, <1>4, <1>9, <2>1, <2>2, <2>3, <2>4
       DEF PackageInv, DirectoriesInPlace, In, Package!At, Opening, Journaled, Shared,
           Retracting, Package!CacheOf
  <2>11. OneOpen'
    BY <1>0, <1>4, <1>9, <2>1, <2>2, <2>3, <2>4
       DEF PackageInv, OneOpen, Open, IsSettled, Unmoved, Package!Code, In, Package!At, Opening
  <2>12. Pending' BY <1>0, <1>4, <1>9, <2>1, <2>2, <2>3, <2>4, Runnings DEF PackageInv, Pending
  <2>13. Reviewed'
    BY <1>0, <1>4, <1>9, <2>1, <2>2, <2>3, <2>4
       DEF PackageInv, Reviewed, IsSettled, Unmoved, Package!Code, In, Opening, Package!At
  <2>14. Originals'
    BY <1>0, <1>4, <1>9, <2>1, <2>2, <2>3, <2>4
       DEF PackageInv, Originals, Unmoved, Package!Code, In, Package!At, Retracting
  <2>15. NotYet'
    BY <1>0, <1>4, <1>9, <2>1, <2>2, <2>3, <2>4
       DEF PackageInv, NotYet, Open, Package!Code
  <2>16. Somewhere'
    BY <1>0, <1>4, <1>9, <2>1, <2>2, <2>3, <2>4
       DEF PackageInv, Somewhere, Package!CacheOf
  <2>17. Moved'
    BY <1>0, <1>4, <1>9, <2>1, <2>2, <2>3, <2>4
       DEF PackageInv, Moved, Package!CacheOf, In, Package!At
  <2> QED
    BY <2>5, <2>6, <2>7, <2>8, <2>9, <2>10, <2>11, <2>12, <2>13, <2>14, <2>15, <2>16, <2>17,
       InvIs
<1>10. CASE /\ ~deviceLocal /\ Open(i) /\ root = None
            /\ Package!Code(stage[i]) = j.target /\ j.target # NoCode
            /\ journal' = [journal EXCEPT ![i] = all]
                 /\ run' = [here EXCEPT !.pc = "move", !.j = all]
  <2>0. j \in Package!Records /\ j # None /\ j.phase \in {"prepared", "backed-up", "promoting"}
    BY <1>0, <1>10 DEF Open
  <2>1. /\ all \in Package!Records /\ all.phase = j.phase /\ all.prior = j.prior
             /\ all.target = j.target
        /\ all.unmanaged = j.unmanaged \cup Package!CacheOf(backup[i]) /\ all # None
    <3>1. Package!CacheOf(backup[i]) \subseteq Caches BY <1>0, DirectoryFacts
    <3> QED BY <2>0, <3>1 DEF Package!Records
  <2> HIDE DEF all
  <2>2. /\ run' \in Runs /\ run'.pc = "move" /\ run'.id = i /\ run'.j = all
             /\ run'.todo = run.todo \ {i}
        /\ run'.recovering = run.recovering /\ run'.clean = run.clean
    BY <1>0, <1>1, <1>10, <2>1 DEF Runs, Journaled, Shared
  <2>3. /\ journal' \in [Package!Ids -> Package!Records \cup {None}] /\ journal'[i] = all
        /\ \A k \in Package!Ids : k # i => journal'[k] = journal[k]
    BY <1>0, <1>10, <2>1 DEF PackageTypeOK, TypeRun
  <2>4. stage[i] # None /\ stage[i].code = j.target /\ journal[i] = j BY <1>10 DEF Package!Code
  <2> HIDE DEF here, j
  <2>5. TypeDisk' BY <1>0, <1>4, <1>10, <2>0, <2>1, <2>2, <2>3, <2>4 DEF PackageTypeOK, TypeDisk
  <2>6. TypeRun' BY <1>0, <1>4, <1>10, <2>0, <2>1, <2>2, <2>3, <2>4 DEF PackageTypeOK, TypeRun
  <2>7. TypeRest' BY <1>0, <1>4, <1>10, <2>0, <2>1, <2>2, <2>3, <2>4 DEF PackageTypeOK, TypeRest
  <2>8. RunIsOfTheRecord'
    BY <1>0, <1>4, <1>10, <2>0, <2>1, <2>2, <2>3, <2>4, RunShared DEF Shared
  <2>9. KindOfPackage'
    BY <1>0, <1>4, <1>10, <2>0, <2>1, <2>2, <2>3, <2>4
       DEF PackageInv, KindOfPackage, In, Opening, Journaled, Shared, Retracting
  <2>10. DirectoriesInPlace'
    BY <1>0, <1>4, <1>10, <2>0, <2>1, <2>2, <2>3, <2>4
       DEF PackageInv, DirectoriesInPlace, In, Package!At, Opening, Journaled, Shared,
           Retracting, Package!CacheOf
  <2>11. OneOpen'
    BY <1>0, <1>4, <1>10, <2>0, <2>1, <2>2, <2>3, <2>4
       DEF PackageInv, OneOpen, Open, IsSettled, Unmoved, Package!Code, In, Package!At, Opening
  <2>12. Pending'
    BY <1>0, <1>4, <1>10, <2>0, <2>1, <2>2, <2>3, <2>4, Runnings
       DEF PackageInv, Pending
  <2>13. Reviewed'
    BY <1>0, <1>4, <1>10, <2>0, <2>1, <2>2, <2>3, <2>4
       DEF PackageInv, Reviewed, IsSettled, Unmoved, Package!Code, In, Opening, Package!At
  <2>14. Originals'
    BY <1>0, <1>4, <1>10, <2>0, <2>1, <2>2, <2>3, <2>4
       DEF PackageInv, Originals, Unmoved, Package!Code, In, Package!At, Retracting
  <2>15. NotYet'
    BY <1>0, <1>4, <1>10, <2>0, <2>1, <2>2, <2>3, <2>4
       DEF PackageInv, NotYet, Open, Package!Code
  <2>16. Somewhere'
    BY <1>0, <1>4, <1>10, <2>0, <2>1, <2>2, <2>3, <2>4
       DEF PackageInv, Somewhere, Package!CacheOf
  <2>17. Moved'
    BY <1>0, <1>4, <1>10, <2>0, <2>1, <2>2, <2>3, <2>4
       DEF PackageInv, Moved, Package!CacheOf, In, Package!At
  <2> QED
    BY <2>5, <2>6, <2>7, <2>8, <2>9, <2>10, <2>11, <2>12, <2>13, <2>14, <2>15, <2>16, <2>17,
       InvIs
<1>11. CASE Package!Fail /\ UNCHANGED journal
  BY <1>0, <1>11, FailStep DEF Package!disk, Package!writes, PackageTypeOK, TypeRest
<1>12. CASE deviceLocal BY <1>5, <1>12 DEF Package!Examine
<1>13. CASE ~deviceLocal
  <2>1. j # None => j \in Package!Records
          /\ (backup[i] # None => backup[i].code \in {j.prior} \cup Edits)
    BY <1>0, <1>13 DEF PackageInv, Originals
  <2>2. j # None BY <1>0 DEF PackageInv, Pending
  <2>3. CASE j # None /\ j.phase = "local-changed"
    <3>1. backup[i] # None => backup[i].code \in Edits
      BY <1>0, <1>13, <2>3
         DEF PackageInv, Originals
    <3> QED BY <1>5, <1>6, <1>13, <2>3, <3>1 DEF Package!Examine, IsSettled, Unmoved
  <2>4. CASE j # None /\ j.phase = "installed"
    <3>1. Package!Late(i) => backup[i] # None /\ backup[i].code \in Edits
      BY <2>1, <2>4
         DEF Package!Late, Package!Code
    <3> QED BY <1>5, <1>6, <1>13, <2>4, <3>1 DEF Package!Examine, IsSettled, Unmoved, Package!Late
  <2>5. CASE j # None /\ j.phase \notin {"local-changed", "installed"}
    <3>1. Open(i) BY <2>1, <2>5, RecordFacts DEF Open
    <3>2. Package!Late(i) => backup[i] # None /\ backup[i].code \in Edits
      BY <2>1, <2>5
         DEF Package!Late, Package!Code
    <3> QED BY <1>6, <1>7, <1>8, <1>9, <1>10, <1>11, <1>13, <2>5, <3>1, <3>2 DEF Package!Examine
  <2> QED BY <2>2, <2>3, <2>4, <2>5
<1> QED BY <1>12, <1>13

\* So the recovery's step.
LEMMA ExamineRecordStep ==
  ASSUME Package!NoneAssumption, PackageInv, Package!ExamineRecord,
         UNCHANGED <<deviceLocal, stops, Package!writes>>
  PROVE  PackageInv'
BY ExamineStep DEF Package!ExamineRecord

\* An installation is prepared while no other is open.
LEMMA InstallStep ==
  ASSUME Package!NoneAssumption, PackageInv, Package!Install,
         UNCHANGED <<deviceLocal, stops, Package!writes>>
  PROVE  PackageInv'
<1>0. /\ PackageTypeOK /\ run.pc = "idle" /\ audited /\ ~deviceLocal /\ audited' = FALSE
      /\ UNCHANGED <<root, backup, journal, deviceLocal, stops, used, written, tampered>>
  BY DEF Package!Install, Package!At, Package!writes, PackageInv
<1>1. PICK id \in Package!Ids, target \in Versions \cup {NoCode} :
         /\ stage[id] = None /\ journal[id] = None /\ target # Package!Code(root)
         /\ stage' = [stage EXCEPT ![id] = Package!Dir(NoCode, {})]
         /\ run' = [Package!Idle EXCEPT !.pc = "inspect", !.id = id,
              !.j = Package!Record("prepared", Package!Code(root), target, {})]
  BY DEF Package!Install
<1>2. Package!Code(root) \in Package!Codes BY <1>0, DirectoryFacts DEF PackageTypeOK, TypeDisk
<1> DEFINE j == Package!Record("prepared", Package!Code(root), target, {})
<1>3. j \in Package!Records /\ j.phase = "prepared" /\ j.prior = Package!Code(root)
        /\ j.target = target /\ j # None
  BY <1>2 DEF Package!Record, Package!Records
<1>4. Package!Dir(NoCode, {}) \in Package!Dirs /\ Package!Dir(NoCode, {}) # None
        /\ Package!CacheOf(Package!Dir(NoCode, {})) = {}
  BY DEF Package!Dir, Package!Dirs, Package!Codes, Package!CacheOf
<1> HIDE DEF j
<1>5. run' \in Runs /\ run'.pc = "inspect" /\ run'.id = id /\ run'.j = j /\ ~run'.recovering
  BY <1>1, <1>3 DEF Runs, Opening, Package!Idle, j
<1>6. /\ stage' \in [Package!Ids -> Package!Dirs \cup {None}] /\ stage'[id] # None
           /\ Package!CacheOf(stage'[id]) = {}
      /\ Package!CacheOf(stage[id]) = {} /\ \A i \in Package!Ids : i # id => stage'[i] = stage[i]
  BY <1>0, <1>1, <1>4 DEF PackageTypeOK, TypeDisk, Package!CacheOf
<1>7. \A i \in Package!Ids : ~Open(i) BY <1>0 DEF PackageInv, OneOpen, IsSettled, Open
<1>8. j.prior # j.target BY <1>1, <1>3
<1>9. TypeDisk' BY <1>0, <1>1, <1>3, <1>5, <1>6, <1>7, <1>8 DEF PackageTypeOK, TypeDisk
<1>10. TypeRun' BY <1>0, <1>1, <1>3, <1>5, <1>6, <1>7, <1>8 DEF PackageTypeOK, TypeRun
<1>11. TypeRest' BY <1>0, <1>1, <1>3, <1>5, <1>6, <1>7, <1>8 DEF PackageTypeOK, TypeRest
<1>12. RunIsOfTheRecord'
  BY <1>0, <1>1, <1>3, <1>5, <1>6, <1>7, <1>8, RecordFacts
     DEF PackageInv, RunIsOfTheRecord, Open, In, Package!At, Opening, Journaled, Shared,
         Retracting
<1>13. KindOfPackage'
  BY <1>0, <1>1, <1>3, <1>5, <1>6, <1>7, <1>8
     DEF PackageInv, KindOfPackage, In, Opening, Journaled, Shared, Retracting
<1>14. DirectoriesInPlace'
  BY <1>0, <1>1, <1>3, <1>5, <1>6, <1>7, <1>8
     DEF PackageInv, DirectoriesInPlace, In, Package!At, Opening, Journaled, Shared, Retracting,
         Package!CacheOf
<1>15. OneOpen'
  BY <1>0, <1>1, <1>3, <1>5, <1>6, <1>7, <1>8
     DEF PackageInv, OneOpen, Open, IsSettled, Unmoved, Package!Code, In, Package!At, Opening
<1>16. Pending' BY <1>0, <1>1, <1>3, <1>5, <1>6, <1>7, <1>8, Runnings DEF PackageInv, Pending
<1>17. Reviewed'
  BY <1>0, <1>1, <1>3, <1>5, <1>6, <1>7, <1>8
     DEF PackageInv, Reviewed, IsSettled, Unmoved, Package!Code, In, Opening, Package!At
<1>18. Originals'
  BY <1>0, <1>1, <1>3, <1>5, <1>6, <1>7, <1>8
     DEF PackageInv, Originals, Unmoved, Package!Code, In, Package!At, Retracting
<1>19. NotYet'
  BY <1>0, <1>1, <1>3, <1>5, <1>6, <1>7, <1>8
     DEF PackageInv, NotYet, Open, Package!Code
<1>20. Somewhere'
  BY <1>0, <1>1, <1>3, <1>5, <1>6, <1>7, <1>8
     DEF PackageInv, Somewhere, Package!CacheOf
<1>21. Moved'
  BY <1>0, <1>1, <1>3, <1>5, <1>6, <1>7, <1>8
     DEF PackageInv, Moved, Package!CacheOf, In, Package!At
<1> QED
  BY <1>9, <1>10, <1>11, <1>12, <1>13, <1>14, <1>15, <1>16, <1>17, <1>18, <1>19, <1>20, <1>21,
     InvIs

\* Bringing a retired package back: the candidates stay the same until then.
LEMMA RestoreRetiredStep ==
  ASSUME Package!NoneAssumption, PackageInv, Package!RestoreRetired,
         UNCHANGED <<deviceLocal, stops, Package!writes>>
  PROVE  PackageInv'
<1>0. /\ PackageTypeOK /\ run.pc = "idle" /\ deviceLocal
           /\ Package!Cardinality(Package!Candidates) = 1
      /\ UNCHANGED <<root, stage, backup, journal, audited, deviceLocal, stops, used, written,
           tampered>>
  BY DEF Package!RestoreRetired, Package!At, Package!writes, Package!disk, PackageInv
<1>1. PICK i \in Package!Candidates : run' = [Package!Idle EXCEPT !.pc = "recheck", !.id = i,
        !.j = journal[i]]
  BY DEF Package!RestoreRetired
<1>2. i \in Package!Ids /\ journal[i] # None /\ journal[i] \in Package!Records
  BY <1>0 DEF Package!Candidates, PackageTypeOK, TypeRun
<1>3. run' \in Runs /\ run'.pc = "recheck" /\ run'.id = i /\ run'.j = journal[i] /\ ~run'.recovering
  BY <1>1, <1>2 DEF Runs, Journaled, Package!Idle
<1>4. Package!Candidates' = Package!Candidates BY <1>0 DEF Package!Candidates
<1>5. TypeDisk' BY <1>0, <1>2, <1>3, <1>4 DEF PackageTypeOK, TypeDisk
<1>6. TypeRun' BY <1>0, <1>2, <1>3, <1>4 DEF PackageTypeOK, TypeRun
<1>7. TypeRest' BY <1>0, <1>2, <1>3, <1>4 DEF PackageTypeOK, TypeRest
<1>8. RunIsOfTheRecord'
  BY <1>0, <1>2, <1>3, <1>4, RecordFacts
     DEF PackageInv, RunIsOfTheRecord, Open, In, Package!At, Opening, Journaled, Shared,
         Retracting
<1>9. KindOfPackage'
  BY <1>0, <1>2, <1>3, <1>4
     DEF PackageInv, KindOfPackage, In, Opening, Journaled, Shared, Retracting
<1>10. DirectoriesInPlace'
  BY <1>0, <1>2, <1>3, <1>4
     DEF PackageInv, DirectoriesInPlace, In, Package!At, Opening, Journaled, Shared, Retracting,
         Package!CacheOf
<1>11. OneOpen'
  BY <1>0, <1>2, <1>3, <1>4
     DEF PackageInv, OneOpen, Open, IsSettled, Unmoved, Package!Code, In, Package!At, Opening
<1>12. Pending' BY <1>0, <1>2, <1>3, <1>4, Runnings DEF PackageInv, Pending
<1>13. Reviewed'
  BY <1>0, <1>2, <1>3, <1>4
     DEF PackageInv, Reviewed, IsSettled, Unmoved, Package!Code, In, Opening, Package!At
<1>14. Originals'
  BY <1>0, <1>2, <1>3, <1>4
     DEF PackageInv, Originals, Unmoved, Package!Code, In, Package!At, Retracting
<1>15. NotYet' BY <1>0, <1>2, <1>3, <1>4 DEF PackageInv, NotYet, Open, Package!Code
<1>16. Somewhere' BY <1>0, <1>2, <1>3, <1>4 DEF PackageInv, Somewhere, Package!CacheOf
<1>17. Moved' BY <1>0, <1>2, <1>3, <1>4 DEF PackageInv, Moved, Package!CacheOf, In, Package!At
<1> QED
  BY <1>5, <1>6, <1>7, <1>8, <1>9, <1>10, <1>11, <1>12, <1>13, <1>14, <1>15, <1>16, <1>17, InvIs

\* Once more before the rename.
LEMMA RecheckStep ==
  ASSUME Package!NoneAssumption, PackageInv, Package!Recheck,
         UNCHANGED <<deviceLocal, stops, Package!writes>>
  PROVE  PackageInv'
<1>0. /\ PackageTypeOK /\ run.pc = "recheck" /\ run.id \in Package!Ids
           /\ run.j \in Package!Records /\ run.j # None
      /\ run.recovering \in BOOLEAN /\ journal[run.id] = run.j
      /\ UNCHANGED <<root, stage, backup, audited, deviceLocal, stops, used, written, tampered>>
  BY Underway DEF Package!Recheck, Package!At, Journaled, Package!disk
<1>1. deviceLocal /\ Package!Cardinality(Package!Candidates) = 1 /\ ~run.recovering
  BY <1>0 DEF PackageInv, KindOfPackage, RunIsOfTheRecord, In, PackageTypeOK, TypeRest
<1>2. CASE Package!Fail /\ UNCHANGED journal
  BY <1>0, <1>2, FailStep DEF Package!disk, Package!writes, PackageTypeOK, TypeRest
<1> DEFINE j == [run.j EXCEPT !.phase = "local-changed"]
<1>3. CASE Package!Persist(j) /\ Package!GoWith("bring-back", j)
  <2>1. /\ j \in Package!Records /\ j.phase = "local-changed" /\ j.prior = run.j.prior
             /\ j.target = run.j.target
        /\ j.unmanaged = run.j.unmanaged /\ j # None
    BY <1>0 DEF Package!Records
  <2> HIDE DEF j
  <2>2. /\ run' \in Runs /\ run'.pc = "bring-back" /\ run'.id = run.id /\ run'.j = j
        /\ run'.recovering = run.recovering /\ run'.todo = run.todo
    BY <1>0, <1>3, <2>1, GoingWith DEF Journaled
  <2>3. /\ journal' \in [Package!Ids -> Package!Records \cup {None}] /\ journal'[run.id] = j
        /\ \A i \in Package!Ids : i # run.id => journal'[i] = journal[i]
    BY <1>0, <1>3, <2>1, Persisting
  <2>4. Package!Candidates' = Package!Candidates BY <1>0, <2>1, <2>3 DEF Package!Candidates
  <2>5. TypeDisk' BY <1>0, <1>1, <1>3, <2>1, <2>2, <2>3, <2>4 DEF PackageTypeOK, TypeDisk
  <2>6. TypeRun' BY <1>0, <1>1, <1>3, <2>1, <2>2, <2>3, <2>4 DEF PackageTypeOK, TypeRun
  <2>7. TypeRest' BY <1>0, <1>1, <1>3, <2>1, <2>2, <2>3, <2>4 DEF PackageTypeOK, TypeRest
  <2>8. RunIsOfTheRecord'
    BY <1>0, <1>1, <1>3, <2>1, <2>2, <2>3, <2>4, RecordFacts
       DEF PackageInv, RunIsOfTheRecord, Open, In, Package!At, Opening, Journaled, Shared,
           Retracting
  <2>9. KindOfPackage'
    BY <1>0, <1>1, <1>3, <2>1, <2>2, <2>3, <2>4
       DEF PackageInv, KindOfPackage, In, Opening, Journaled, Shared, Retracting
  <2>10. DirectoriesInPlace'
    BY <1>0, <1>1, <1>3, <2>1, <2>2, <2>3, <2>4
       DEF PackageInv, DirectoriesInPlace, In, Package!At, Opening, Journaled, Shared,
           Retracting, Package!CacheOf
  <2>11. OneOpen'
    BY <1>0, <1>1, <1>3, <2>1, <2>2, <2>3, <2>4
       DEF PackageInv, OneOpen, Open, IsSettled, Unmoved, Package!Code, In, Package!At, Opening
  <2>12. Pending' BY <1>0, <1>1, <1>3, <2>1, <2>2, <2>3, <2>4, Runnings DEF PackageInv, Pending
  <2>13. Reviewed'
    BY <1>0, <1>1, <1>3, <2>1, <2>2, <2>3, <2>4
       DEF PackageInv, Reviewed, IsSettled, Unmoved, Package!Code, In, Opening, Package!At
  <2>14. Originals'
    BY <1>0, <1>1, <1>3, <2>1, <2>2, <2>3, <2>4
       DEF PackageInv, Originals, Unmoved, Package!Code, In, Package!At, Retracting
  <2>15. NotYet'
    BY <1>0, <1>1, <1>3, <2>1, <2>2, <2>3, <2>4
       DEF PackageInv, NotYet, Open, Package!Code
  <2>16. Somewhere'
    BY <1>0, <1>1, <1>3, <2>1, <2>2, <2>3, <2>4
       DEF PackageInv, Somewhere, Package!CacheOf
  <2>17. Moved'
    BY <1>0, <1>1, <1>3, <2>1, <2>2, <2>3, <2>4
       DEF PackageInv, Moved, Package!CacheOf, In, Package!At
  <2> QED
    BY <2>5, <2>6, <2>7, <2>8, <2>9, <2>10, <2>11, <2>12, <2>13, <2>14, <2>15, <2>16, <2>17,
       InvIs
<1> QED BY <1>2, <1>3 DEF Package!Recheck

\* The package is in its place again, unless something is there.
LEMMA BringBackStep ==
  ASSUME Package!NoneAssumption, PackageInv, Package!BringBack,
         UNCHANGED <<deviceLocal, stops, Package!writes>>
  PROVE  PackageInv'
<1>0. /\ PackageTypeOK /\ run.pc = "bring-back" /\ run.id \in Package!Ids
           /\ run.j \in Package!Records /\ run.j # None
      /\ journal[run.id] = run.j /\ backup[run.id] \in Package!Dirs \cup {None} /\ Package!Fail
      /\ UNCHANGED <<stage, journal, audited, deviceLocal, stops, used, written, tampered>>
  BY Underway DEF Package!BringBack, Package!At, Journaled
<1>1. deviceLocal BY <1>0 DEF PackageInv, KindOfPackage, In, PackageTypeOK, TypeRest
<1>2. CASE UNCHANGED <<root, backup>>
  BY <1>0, <1>2, FailStep DEF Package!disk, Package!writes, PackageTypeOK, TypeRest
<1>3. CASE root = None /\ root' = Package!Original /\ backup' = [backup EXCEPT ![run.id] = None]
  <2>1. /\ backup' \in [Package!Ids -> Package!Dirs \cup {None}] /\ backup'[run.id] = None
        /\ (\A i \in Package!Ids : i # run.id => backup'[i] = backup[i])
        /\ root' = backup[run.id]
    BY <1>0, <1>3 DEF Package!Original, PackageTypeOK, TypeDisk
  <2>2. run' \in Runs /\ run'.pc = "idle" /\ ~run'.recovering BY <1>0, Ending DEF Package!Fail
  <2>3. root' # None => root'.code # NoCode BY <1>0, <2>1 DEF PackageInv, DirectoriesInPlace
  <2>4. TypeDisk' BY <1>0, <1>1, <1>3, <2>1, <2>2, <2>3 DEF PackageTypeOK, TypeDisk
  <2>5. TypeRun' BY <1>0, <1>1, <1>3, <2>1, <2>2, <2>3 DEF PackageTypeOK, TypeRun
  <2>6. TypeRest' BY <1>0, <1>1, <1>3, <2>1, <2>2, <2>3 DEF PackageTypeOK, TypeRest
  <2>7. RunIsOfTheRecord'
    BY <1>0, <1>1, <1>3, <2>1, <2>2, <2>3, RecordFacts
       DEF PackageInv, RunIsOfTheRecord, Open, In, Package!At, Opening, Journaled, Shared,
           Retracting
  <2>8. KindOfPackage'
    BY <1>0, <1>1, <1>3, <2>1, <2>2, <2>3
       DEF PackageInv, KindOfPackage, In, Opening, Journaled, Shared, Retracting
  <2>9. DirectoriesInPlace'
    BY <1>0, <1>1, <1>3, <2>1, <2>2, <2>3
       DEF PackageInv, DirectoriesInPlace, In, Package!At, Opening, Journaled, Shared,
           Retracting, Package!CacheOf
  <2>10. OneOpen'
    BY <1>0, <1>1, <1>3, <2>1, <2>2, <2>3
       DEF PackageInv, OneOpen, Open, IsSettled, Unmoved, Package!Code, In, Package!At, Opening
  <2>11. Pending' BY <1>0, <1>1, <1>3, <2>1, <2>2, <2>3, Runnings DEF PackageInv, Pending
  <2>12. Reviewed'
    BY <1>0, <1>1, <1>3, <2>1, <2>2, <2>3
       DEF PackageInv, Reviewed, IsSettled, Unmoved, Package!Code, In, Opening, Package!At
  <2>13. Originals'
    BY <1>0, <1>1, <1>3, <2>1, <2>2, <2>3
       DEF PackageInv, Originals, Unmoved, Package!Code, In, Package!At, Retracting
  <2>14. NotYet' BY <1>0, <1>1, <1>3, <2>1, <2>2, <2>3 DEF PackageInv, NotYet, Open, Package!Code
  <2>15. Somewhere' BY <1>0, <1>1, <1>3, <2>1, <2>2, <2>3 DEF PackageInv, Somewhere, Package!CacheOf
  <2>16. Moved'
    BY <1>0, <1>1, <1>3, <2>1, <2>2, <2>3
       DEF PackageInv, Moved, Package!CacheOf, In, Package!At
  <2> QED
    BY <2>4, <2>5, <2>6, <2>7, <2>8, <2>9, <2>10, <2>11, <2>12, <2>13, <2>14, <2>15, <2>16,
       InvIs
<1> QED BY <1>2, <1>3 DEF Package!BringBack

\* What the installer does is one of these.
LEMMA InstallerStep ==
  ASSUME Package!CodesAssumption, Package!NoneAssumption, PackageInv, Package!Installer
  PROVE  PackageInv'
BY InstallStep, InspectStep, FillStep, PrepareStep, SetAsideStep, VerifyOriginalStep, CollectStep,
   MoveEntryStep, GuardStep, PromotingStep, PromoteStep, VerifyPromotedStep, FinishStep,
     TakeBackStep,
   ReverseStep, UnpromoteStep, VerifyUnpromotedStep, MoveBackStep, RestoreOriginalStep, RecoverStep,
   ExamineRecordStep, RecoveredStep, RestoreRetiredStep, RecheckStep, BringBackStep
DEF Package!Installer

\* The process ends, or the operation is cancelled.
LEMMA StopStep == ASSUME PackageInv, Package!Stop PROVE PackageInv'
<1>1. stops' \in Nat BY DEF Package!Stop, PackageInv, PackageTypeOK, TypeRest
<1> QED BY <1>1, FailStep DEF Package!Stop

\* A write disturbs the recovery under way, if there is one.
LEMMA Disturbing ==
  ASSUME PackageTypeOK, Package!Disturb
  PROVE  /\ audited' = FALSE /\ run' \in Runs /\ run'.pc = run.pc /\ run'.id = run.id
              /\ run'.j = run.j
         /\ run'.recovering = run.recovering /\ run'.todo = run.todo /\ run'.back = run.back
         /\ run'.clean = FALSE
BY DEF Package!Disturb, PackageTypeOK, TypeRun, Runs

\* Who writes makes contents that no version has.
LEMMA Editing ==
  ASSUME Package!CodesAssumption, Package!NoneAssumption,
         PackageTypeOK, NEW e \in Edits
  PROVE  /\ e \in Package!Codes /\ e # NoCode
              /\ \A i \in Package!Ids : journal[i] # None => e # journal[i].target
         /\ \A r \in Package!Records : e # r.target
BY RecordFacts DEF Package!Codes, PackageTypeOK, TypeRun

\* The owner or the plugin writes: into the package, into the original, or anew.
LEMMA EditStep ==
  ASSUME Package!CodesAssumption, Package!NoneAssumption, PackageInv, Package!Edit
  PROVE  PackageInv'
<1>0. /\ PackageTypeOK /\ audited' = FALSE /\ run' \in Runs /\ run'.pc = run.pc /\ run'.id = run.id
      /\ run'.j = run.j /\ run'.recovering = run.recovering /\ run'.todo = run.todo
      /\ run'.back = run.back /\ run'.clean = FALSE
      /\ UNCHANGED <<deviceLocal, stage, journal, stops, written>>
  BY Disturbing DEF Package!Edit, PackageInv
<1>1. PICK e \in Edits : used' = used \cup {e} /\ (Package!EditRoot(e)
        \/ Package!EditOriginal(e) \/ Package!Reinstall(e))
  BY DEF Package!Edit, Package!Unused
<1>2. /\ e \in Package!Codes /\ e # NoCode
           /\ \A i \in Package!Ids : journal[i] # None => e # journal[i].target
  BY <1>0, Editing
<1>3. used' \subseteq Edits BY <1>0, <1>1 DEF PackageTypeOK, TypeRest
<1>4. CASE Package!EditRoot(e) \/ Package!Reinstall(e)
  <2>1. /\ root' \in Package!Dirs /\ root' # None /\ root'.code = e
             /\ Package!CacheOf(root') = Package!CacheOf(root)
        /\ UNCHANGED backup /\ tampered' \in BOOLEAN /\ tampered \in BOOLEAN
             /\ (tampered => tampered')
    <3>1. CASE Package!EditRoot(e)
      <4>1. root \in Package!Dirs /\ root # None
        BY <1>0, <3>1
           DEF Package!EditRoot, PackageTypeOK, TypeDisk
      <4>2. /\ [root EXCEPT !.code = e] \in Package!Dirs /\ [root EXCEPT !.code = e].code = e
            /\ [root EXCEPT !.code = e].cache = root.cache
        BY <1>2, <4>1 DEF Package!Dirs
      <4> QED
        BY <1>0, <3>1, <4>1, <4>2
           DEF Package!EditRoot, Package!CacheOf, PackageTypeOK, TypeRest
    <3>2. CASE Package!Reinstall(e)
      <4>1. Package!Dir(e, {}) \in Package!Dirs /\ Package!Dir(e, {}).code = e
              /\ Package!Dir(e, {}).cache = {}
        BY <1>2
           DEF Package!Dir, Package!Dirs
      <4> QED BY <1>0, <3>2, <4>1 DEF Package!Reinstall, Package!CacheOf, PackageTypeOK, TypeRest
    <3> QED BY <1>4, <3>1, <3>2
  <2>2. TypeDisk' BY <1>0, <1>1, <1>2, <1>3, <2>1 DEF PackageTypeOK, TypeDisk
  <2>3. TypeRun' BY <1>0, <1>1, <1>2, <1>3, <2>1 DEF PackageTypeOK, TypeRun
  <2>4. TypeRest' BY <1>0, <1>1, <1>2, <1>3, <2>1 DEF PackageTypeOK, TypeRest
  <2>5. RunIsOfTheRecord'
    BY <1>0, <1>1, <1>2, <1>3, <2>1, RecordFacts
       DEF PackageInv, RunIsOfTheRecord, Open, In, Package!At, Opening, Journaled, Shared,
           Retracting
  <2>6. KindOfPackage'
    BY <1>0, <1>1, <1>2, <1>3, <2>1
       DEF PackageInv, KindOfPackage, In, Opening, Journaled, Shared, Retracting,
           Package!Candidates
  <2>7. DirectoriesInPlace'
    BY <1>0, <1>1, <1>2, <1>3, <2>1
       DEF PackageInv, DirectoriesInPlace, In, Package!At, Opening, Journaled, Shared,
           Retracting, Package!CacheOf
  <2>8. OneOpen'
    BY <1>0, <1>1, <1>2, <1>3, <2>1
       DEF PackageInv, OneOpen, Open, IsSettled, Unmoved, Package!Code, In, Package!At, Opening
  <2>9. Pending' BY <1>0, <1>1, <1>2, <1>3, <2>1, Runnings DEF PackageInv, Pending
  <2>10. Reviewed'
    BY <1>0, <1>1, <1>2, <1>3, <2>1
       DEF PackageInv, Reviewed, IsSettled, Unmoved, Package!Code, In, Opening, Package!At
  <2>11. Originals'
    BY <1>0, <1>1, <1>2, <1>3, <2>1
       DEF PackageInv, Originals, Unmoved, Package!Code, In, Package!At, Retracting
  <2>12. NotYet' BY <1>0, <1>1, <1>2, <1>3, <2>1 DEF PackageInv, NotYet, Open, Package!Code
  <2>13. Somewhere' BY <1>0, <1>1, <1>2, <1>3, <2>1 DEF PackageInv, Somewhere, Package!CacheOf
  <2>14. Moved'
    BY <1>0, <1>1, <1>2, <1>3, <2>1
       DEF PackageInv, Moved, Package!CacheOf, In, Package!At
  <2> QED
    BY <2>2, <2>3, <2>4, <2>5, <2>6, <2>7, <2>8, <2>9, <2>10, <2>11, <2>12, <2>13, <2>14, InvIs
<1>5. CASE Package!EditOriginal(e)
  <2>1. PICK n \in Package!Ids : backup[n] # None /\ backup' = [backup EXCEPT ![n].code = e]
    BY <1>5 DEF Package!EditOriginal
  <2>2. /\ backup' \in [Package!Ids -> Package!Dirs \cup {None}] /\ backup'[n] # None
             /\ backup'[n].code = e
        /\ Package!CacheOf(backup'[n]) = Package!CacheOf(backup[n])
        /\ \A i \in Package!Ids : i # n => backup'[i] = backup[i]
    <3> DEFINE d == [backup[n] EXCEPT !.code = e]
    <3>1. backup[n] \in Package!Dirs BY <1>0, <2>1 DEF PackageTypeOK, TypeDisk
    <3>2. d \in Package!Dirs /\ d.code = e /\ d.cache = backup[n].cache
      BY <1>2, <3>1
         DEF Package!Dirs
    <3>3. backup' = [backup EXCEPT ![n] = d] BY <2>1
    <3> HIDE DEF d
    <3> QED BY <1>0, <2>1, <3>2, <3>3 DEF PackageTypeOK, TypeDisk, Package!CacheOf
  <2>3. UNCHANGED <<root, tampered>> BY <1>5 DEF Package!EditOriginal
  <2>4. \A i \in Package!Ids : (backup'[i] = None <=> backup[i] = None)
          /\ Package!CacheOf(backup'[i]) = Package!CacheOf(backup[i])
    BY <2>1, <2>2
  <2>5. Package!Candidates' = Package!Candidates BY <1>0, <2>4 DEF Package!Candidates
  <2>6. TypeDisk'
    BY <1>0, <1>1, <1>2, <1>3, <2>1, <2>2, <2>3, <2>4, <2>5
       DEF PackageTypeOK, TypeDisk
  <2>7. TypeRun' BY <1>0, <1>1, <1>2, <1>3, <2>1, <2>2, <2>3, <2>4, <2>5 DEF PackageTypeOK, TypeRun
  <2>8. TypeRest'
    BY <1>0, <1>1, <1>2, <1>3, <2>1, <2>2, <2>3, <2>4, <2>5
       DEF PackageTypeOK, TypeRest
  <2>9. RunIsOfTheRecord'
    BY <1>0, <1>1, <1>2, <1>3, <2>1, <2>2, <2>3, <2>4, <2>5, RecordFacts
       DEF PackageInv, RunIsOfTheRecord, Open, In, Package!At, Opening, Journaled, Shared,
           Retracting
  <2>10. KindOfPackage'
    BY <1>0, <1>1, <1>2, <1>3, <2>1, <2>2, <2>3, <2>4, <2>5
       DEF PackageInv, KindOfPackage, In, Opening, Journaled, Shared, Retracting
  <2>11. DirectoriesInPlace'
    BY <1>0, <1>1, <1>2, <1>3, <2>1, <2>2, <2>3, <2>4, <2>5
       DEF PackageInv, DirectoriesInPlace, In, Package!At, Opening, Journaled, Shared,
           Retracting, Package!CacheOf
  <2>12. OneOpen'
    BY <1>0, <1>1, <1>2, <1>3, <2>1, <2>2, <2>3, <2>4, <2>5
       DEF PackageInv, OneOpen, Open, IsSettled, Unmoved, Package!Code, In, Package!At, Opening
  <2>13. Pending'
    BY <1>0, <1>1, <1>2, <1>3, <2>1, <2>2, <2>3, <2>4, <2>5, Runnings
       DEF PackageInv, Pending
  <2>14. Reviewed'
    BY <1>0, <1>1, <1>2, <1>3, <2>1, <2>2, <2>3, <2>4, <2>5
       DEF PackageInv, Reviewed, IsSettled, Unmoved, Package!Code, In, Opening, Package!At
  <2>15. Originals'
    BY <1>0, <1>1, <1>2, <1>3, <2>1, <2>2, <2>3, <2>4, <2>5
       DEF PackageInv, Originals, Unmoved, Package!Code, In, Package!At, Retracting
  <2>16. NotYet'
    BY <1>0, <1>1, <1>2, <1>3, <2>1, <2>2, <2>3, <2>4, <2>5
       DEF PackageInv, NotYet, Open, Package!Code
  <2>17. Somewhere'
    BY <1>0, <1>1, <1>2, <1>3, <2>1, <2>2, <2>3, <2>4, <2>5
       DEF PackageInv, Somewhere, Package!CacheOf
  <2>18. Moved'
    BY <1>0, <1>1, <1>2, <1>3, <2>1, <2>2, <2>3, <2>4, <2>5
       DEF PackageInv, Moved, Package!CacheOf, In, Package!At
  <2> QED
    BY <2>6, <2>7, <2>8, <2>9, <2>10, <2>11, <2>12, <2>13, <2>14, <2>15, <2>16, <2>17, <2>18,
       InvIs
<1> QED BY <1>1, <1>4, <1>5

\* The plugin makes a device-local entry.
LEMMA NewEntryStep ==
  ASSUME Package!NoneAssumption, PackageInv, Package!NewEntry
  PROVE  PackageInv'
<1>0. /\ PackageTypeOK /\ UNCHANGED <<deviceLocal, stage, journal, run, audited, used, stops>>
  BY DEF Package!NewEntry, PackageInv
<1>1. PICK c \in Caches :
         /\ written' = written \cup {c}
         /\ \/ /\ root # None /\ root' = [root EXCEPT !.cache = @ \cup {c}]
               /\ UNCHANGED <<backup, tampered>>
            \/ /\ \E i \in Package!Ids : backup[i] # None
                    /\ backup' = [backup EXCEPT ![i].cache = @ \cup {c}]
               /\ tampered' = TRUE /\ UNCHANGED root
  BY DEF Package!NewEntry
<1>2. CASE root # None /\ root' = [root EXCEPT !.cache = @ \cup {c}]
             /\ UNCHANGED <<backup, tampered>>
  <2>1. root \in Package!Dirs BY <1>0, <1>2 DEF PackageTypeOK, TypeDisk
  <2>2. /\ root' \in Package!Dirs /\ root' # None /\ root'.code = root.code
        /\ root'.cache = root.cache \cup {c}
    BY <1>2, <2>1 DEF Package!Dirs
  <2>3. UNCHANGED Package!Candidates BY <1>0, <1>2 DEF Package!Candidates
  <2>4. TypeDisk' BY <1>0, <1>1, <1>2, <2>2, <2>3 DEF PackageTypeOK, TypeDisk
  <2>5. TypeRun' BY <1>0, <1>1, <1>2, <2>2, <2>3 DEF PackageTypeOK, TypeRun
  <2>6. TypeRest' BY <1>0, <1>1, <1>2, <2>2, <2>3 DEF PackageTypeOK, TypeRest
  <2>7. RunIsOfTheRecord'
    BY <1>0, <1>1, <1>2, <2>2, <2>3, RecordFacts
       DEF PackageInv, RunIsOfTheRecord, Open, In, Package!At, Opening, Journaled, Shared,
           Retracting
  <2>8. KindOfPackage'
    BY <1>0, <1>1, <1>2, <2>2, <2>3
       DEF PackageInv, KindOfPackage, In, Opening, Journaled, Shared, Retracting
  <2>9. DirectoriesInPlace'
    BY <1>0, <1>1, <1>2, <2>2, <2>3
       DEF PackageInv, DirectoriesInPlace, In, Package!At, Opening, Journaled, Shared,
           Retracting, Package!CacheOf
  <2>10. OneOpen'
    BY <1>0, <1>1, <1>2, <2>2, <2>3
       DEF PackageInv, OneOpen, Open, IsSettled, Unmoved, Package!Code, In, Package!At, Opening
  <2>11. Pending' BY <1>0, <1>1, <1>2, <2>2, <2>3, Runnings DEF PackageInv, Pending
  <2>12. Reviewed'
    BY <1>0, <1>1, <1>2, <2>2, <2>3
       DEF PackageInv, Reviewed, IsSettled, Unmoved, Package!Code, In, Opening, Package!At
  <2>13. Originals'
    BY <1>0, <1>1, <1>2, <2>2, <2>3
       DEF PackageInv, Originals, Unmoved, Package!Code, In, Package!At, Retracting
  <2>14. NotYet' BY <1>0, <1>1, <1>2, <2>2, <2>3 DEF PackageInv, NotYet, Open, Package!Code
  <2>15. Somewhere' BY <1>0, <1>1, <1>2, <2>2, <2>3 DEF PackageInv, Somewhere, Package!CacheOf
  <2>16. Moved'
    BY <1>0, <1>1, <1>2, <2>2, <2>3
       DEF PackageInv, Moved, Package!CacheOf, In, Package!At
  <2> QED
    BY <2>4, <2>5, <2>6, <2>7, <2>8, <2>9, <2>10, <2>11, <2>12, <2>13, <2>14, <2>15, <2>16,
       InvIs
<1>3. ASSUME NEW n \in Package!Ids, backup[n] # None,
             backup' = [backup EXCEPT ![n].cache = @ \cup {c}],
             tampered' = TRUE, UNCHANGED root
      PROVE  PackageInv'
  <2>2. /\ backup' \in [Package!Ids -> Package!Dirs \cup {None}] /\ backup'[n] # None
             /\ backup'[n].code = backup[n].code
        /\ Package!CacheOf(backup'[n]) = Package!CacheOf(backup[n]) \cup {c}
        /\ \A i \in Package!Ids : i # n => backup'[i] = backup[i]
    <3> DEFINE d == [backup[n] EXCEPT !.cache = @ \cup {c}]
    <3>1. backup[n] \in Package!Dirs BY <1>0, <1>3 DEF PackageTypeOK, TypeDisk
    <3>2. d \in Package!Dirs /\ d.code = backup[n].code /\ d.cache = backup[n].cache \cup {c}
      BY <3>1
         DEF Package!Dirs
    <3>3. backup' = [backup EXCEPT ![n] = d] BY <1>3
    <3> HIDE DEF d
    <3> QED BY <1>0, <1>3, <3>2, <3>3 DEF PackageTypeOK, TypeDisk, Package!CacheOf
  <2>4. \A i \in Package!Ids : /\ (backup'[i] = None <=> backup[i] = None)
                               /\ backup[i] # None => backup'[i].code = backup[i].code
                               /\ Package!CacheOf(backup[i]) \subseteq Package!CacheOf(backup'[i])
    BY <1>3, <2>2
  <2>5. UNCHANGED Package!Candidates BY <1>0, <2>4 DEF Package!Candidates
  <2>6. TypeDisk' BY <1>0, <1>1, <1>3, <2>2, <2>4, <2>5 DEF PackageTypeOK, TypeDisk
  <2>7. TypeRun' BY <1>0, <1>1, <1>3, <2>2, <2>4, <2>5 DEF PackageTypeOK, TypeRun
  <2>8. TypeRest' BY <1>0, <1>1, <1>3, <2>2, <2>4, <2>5 DEF PackageTypeOK, TypeRest
  <2>9. RunIsOfTheRecord'
    BY <1>0, <1>1, <1>3, <2>2, <2>4, <2>5, RecordFacts
       DEF PackageInv, RunIsOfTheRecord, Open, In, Package!At, Opening, Journaled, Shared,
           Retracting
  <2>10. KindOfPackage'
    BY <1>0, <1>1, <1>3, <2>2, <2>4, <2>5
       DEF PackageInv, KindOfPackage, In, Opening, Journaled, Shared, Retracting
  <2>11. DirectoriesInPlace'
    BY <1>0, <1>1, <1>3, <2>2, <2>4, <2>5
       DEF PackageInv, DirectoriesInPlace, In, Package!At, Opening, Journaled, Shared,
           Retracting, Package!CacheOf
  <2>12. OneOpen'
    BY <1>0, <1>1, <1>3, <2>2, <2>4, <2>5
       DEF PackageInv, OneOpen, Open, IsSettled, Unmoved, Package!Code, In, Package!At, Opening
  <2>13. Pending' BY <1>0, <1>1, <1>3, <2>2, <2>4, <2>5, Runnings DEF PackageInv, Pending
  <2>14. Reviewed'
    BY <1>0, <1>1, <1>3, <2>2, <2>4, <2>5
       DEF PackageInv, Reviewed, IsSettled, Unmoved, Package!Code, In, Opening, Package!At
  <2>15. Originals'
    BY <1>0, <1>1, <1>3, <2>2, <2>4, <2>5
       DEF PackageInv, Originals, Unmoved, Package!Code, In, Package!At, Retracting
  <2>16. NotYet' BY <1>0, <1>1, <1>3, <2>2, <2>4, <2>5 DEF PackageInv, NotYet, Open, Package!Code
  <2>17. Somewhere' BY <1>0, <1>1, <1>3, <2>2, <2>4, <2>5 DEF PackageInv, Somewhere, Package!CacheOf
  <2>18. Moved'
    BY <1>0, <1>1, <1>3, <2>2, <2>4, <2>5
       DEF PackageInv, Moved, Package!CacheOf, In, Package!At
  <2> QED
    BY <2>6, <2>7, <2>8, <2>9, <2>10, <2>11, <2>12, <2>13, <2>14, <2>15, <2>16, <2>17, <2>18,
       InvIs
<1> QED BY <1>1, <1>2, <1>3

\* The invariant holds at first ...
LEMMA InitInv ==
  ASSUME Package!CodesAssumption, Package!NoneAssumption
  PROVE  Package!Init => PackageInv
<1> SUFFICES ASSUME Package!Init PROVE PackageInv OBVIOUS
<1>0. /\ Package!Idle \in Runs /\ run.pc = "idle" /\ ~run.recovering
           /\ stage = [i \in Package!Ids |-> None] /\ audited = FALSE
      /\ written = {} /\ tampered = FALSE
  BY Ending DEF Package!Init
<1>1. Package!Dir(First, {}) \in Package!Dirs /\ Package!Dir(First, {}).code = First
  BY DEF Package!Dir, Package!Dirs, Package!Codes
<1>2. Package!Record("installed", First, NoCode, {}) \in Package!Records
        /\ Package!Record("installed", First, NoCode, {}).phase = "installed"
  BY DEF Package!Record, Package!Records, Package!Codes
<1>3. PICK retired \in SUBSET Package!Ids :
          /\ deviceLocal <=> retired # {}
          /\ root = IF deviceLocal THEN None ELSE Package!Dir(First, {})
          /\ backup = [i \in Package!Ids |-> IF i \in retired THEN Package!Dir(First, {}) ELSE None]
          /\ journal = [i \in Package!Ids |-> IF i \in retired THEN Package!Record("installed",
               First, NoCode, {}) ELSE None]
  BY DEF Package!Init
<1>4. ~deviceLocal => \A i \in Package!Ids : backup[i] = None /\ journal[i] = None BY <1>3
<1>6. \A i \in Package!Ids : journal[i] # None => journal[i].phase = "installed" BY <1>2, <1>3
<1>7. TypeDisk BY <1>0, <1>1, <1>3 DEF TypeDisk
<1>8. TypeRun /\ TypeRest BY <1>0, <1>2, <1>3 DEF TypeRun, TypeRest, Package!Init
<1>9. RunIsOfTheRecord
  BY <1>0
     DEF RunIsOfTheRecord, In, Package!At, Opening, Journaled, Shared, Retracting
<1>10. KindOfPackage BY <1>0 DEF KindOfPackage, In
<1>11. DirectoriesInPlace
  <2>1. First # NoCode OBVIOUS
  <2>2. \A i \in Package!Ids : (journal[i] = None => backup[i] = None)
          /\ Package!CacheOf(stage[i]) = {}
    BY <1>0, <1>2, <1>3 DEF Package!CacheOf
  <2> QED
    BY <1>0, <1>1, <1>3, <2>1, <2>2
       DEF DirectoriesInPlace, In, Package!At, Opening, Retracting
<1>12. OneOpen BY <1>0, <1>6 DEF OneOpen, Open, In, Opening
<1>13. Pending /\ Reviewed BY <1>0 DEF Pending, Reviewed
<1>14. Originals /\ NotYet
  BY <1>0, <1>4, <1>6
     DEF Originals, NotYet, Open, In, Package!At, Retracting
<1>15. Somewhere BY <1>0 DEF Somewhere
<1>16. Moved BY <1>0, <1>4 DEF Moved, In, Package!At
<1> QED
  BY <1>7, <1>8, <1>9, <1>10, <1>11, <1>12, <1>13, <1>14, <1>15, <1>16
     DEF PackageInv, PackageTypeOK

\* ... and after every step.
LEMMA NextInv ==
  ASSUME Package!CodesAssumption, Package!NoneAssumption
  PROVE  PackageInv /\ [Package!Next]_(Package!vars) => PackageInv'
<1> SUFFICES ASSUME PackageInv, [Package!Next]_(Package!vars) PROVE PackageInv' OBVIOUS
<1>1. CASE UNCHANGED Package!vars
  <2>0. /\ PackageTypeOK
        /\ UNCHANGED <<deviceLocal, root, stage, backup, journal, run, audited, stops, used,
             written, tampered>>
    BY <1>1 DEF Package!vars, Package!disk, Package!writes, PackageInv
  <2>1. TypeDisk' BY <2>0 DEF PackageTypeOK, TypeDisk
  <2>2. TypeRun' BY <2>0 DEF PackageTypeOK, TypeRun
  <2>3. TypeRest' BY <2>0 DEF PackageTypeOK, TypeRest
  <2>4. RunIsOfTheRecord'
    BY <2>0, RecordFacts
       DEF PackageInv, RunIsOfTheRecord, Open, In, Package!At, Opening, Journaled, Shared,
           Retracting
  <2>5. KindOfPackage'
    BY <2>0
       DEF PackageInv, KindOfPackage, In, Opening, Journaled, Shared, Retracting,
           Package!Candidates
  <2>6. DirectoriesInPlace'
    BY <2>0
       DEF PackageInv, DirectoriesInPlace, In, Package!At, Opening, Journaled, Shared,
           Retracting, Package!CacheOf
  <2>7. OneOpen'
    BY <2>0
       DEF PackageInv, OneOpen, Open, IsSettled, Unmoved, Package!Code, In, Package!At, Opening
  <2>8. Pending' BY <2>0, Runnings DEF PackageInv, Pending
  <2>9. Reviewed'
    BY <2>0
       DEF PackageInv, Reviewed, IsSettled, Unmoved, Package!Code, In, Opening, Package!At
  <2>10. Originals'
    BY <2>0
       DEF PackageInv, Originals, Unmoved, Package!Code, In, Package!At, Retracting
  <2>11. NotYet' BY <2>0 DEF PackageInv, NotYet, Open, Package!Code
  <2>12. Somewhere' BY <2>0 DEF PackageInv, Somewhere, Package!CacheOf
  <2>13. Moved' BY <2>0 DEF PackageInv, Moved, Package!CacheOf, In, Package!At
  <2> QED BY <2>1, <2>2, <2>3, <2>4, <2>5, <2>6, <2>7, <2>8, <2>9, <2>10, <2>11, <2>12, <2>13, InvIs
<1> QED BY <1>1, InstallerStep, StopStep, EditStep, NewEntryStep DEF Package!Next

\* In every behaviour of the installer the invariant holds.
THEOREM PackageInvariance ==
  ASSUME Package!CodesAssumption, Package!NoneAssumption
  PROVE  Package!Spec => []PackageInv
BY InitInv, NextInv, PTL DEF Package!Spec

\* Every variable of the installer keeps its type.
THEOREM PackageTypeCorrect ==
  ASSUME Package!CodesAssumption, Package!NoneAssumption
  PROVE  Package!Spec => []PackageTypeOK
<1>1. PackageInv => PackageTypeOK BY DEF PackageInv
<1> QED BY <1>1, PackageInvariance, PTL

\* After a recovery no original differs from what was recorded.
LEMMA LateReturned == PackageInv => Package!LateChangeReturns
BY DEF PackageInv, OneOpen, Unmoved, Package!LateChangeReturns

\* Every entry is somewhere, and after a recovery only the package in use and a version taken
\* back hold any.
LEMMA CachesFollow == PackageInv => Package!CacheFollowsPackage
<1> SUFFICES ASSUME PackageInv, audited, ~deviceLocal, ~tampered, ~Package!Retired,
  NEW c \in written
             PROVE  \/ c \in Package!CacheOf(root)
                    \/ \E i \in Package!Ids : /\ c \in Package!CacheOf(stage[i])
                                              /\ journal[i].phase = "local-changed"
                                                   /\ c \notin journal[i].unmanaged
  BY DEF Package!CacheFollowsPackage
<1>1. CASE c \in Package!CacheOf(root) BY <1>1
<1>2. ASSUME NEW i \in Package!Ids, c \in Package!CacheOf(stage[i]) \cup Package!CacheOf(backup[i])
      PROVE  c \in Package!CacheOf(stage[i]) /\ journal[i].phase = "local-changed"
               /\ c \notin journal[i].unmanaged
  <2>1. IsSettled(i) /\ (journal[i] = None => backup[i] = None /\ Package!CacheOf(stage[i]) = {})
    BY DEF PackageInv, OneOpen, DirectoriesInPlace
  <2>2. journal[i] # None BY <1>2, <2>1 DEF Package!CacheOf
  <2>3. journal[i].target # NoCode BY <2>2 DEF Package!Retired
  <2>4. journal[i].phase = "local-changed" /\ backup[i] = None
    BY <1>2, <2>1, <2>2, <2>3 DEF PackageInv, Moved, IsSettled
  <2> QED BY <1>2, <2>2, <2>3, <2>4 DEF PackageInv, Moved, Package!CacheOf
<1> QED BY <1>1, <1>2 DEF PackageInv, Somewhere

\* Of a device-local package only BringBack and its owner touch the directory.
LEMMA RetiredCertain ==
  ASSUME PackageInv, [Package!Next]_(Package!vars)
  PROVE  Package!RetirementIsCertain
<1> SUFFICES ASSUME deviceLocal, root' # root, used' = used, written' = written
             PROVE  root = None /\ Package!Cardinality(Package!Candidates) = 1
  BY DEF Package!RetirementIsCertain
<1>1. run.pc \in {"idle", "next", "recheck", "bring-back"} BY DEF PackageInv, KindOfPackage, In
<1>2. ~Package!Stop /\ ~Package!Edit /\ ~Package!NewEntry /\ ~UNCHANGED Package!vars
  BY DEF Package!Stop, Package!Edit, Package!Unused, Package!NewEntry, Package!disk,
         Package!vars
<1>3. Package!Installer BY <1>2 DEF Package!Next
<1>4. Package!BringBack
  BY <1>1, <1>3
     DEF Package!Installer, Package!Install, Package!Inspect, Package!Fill, Package!Prepare,
         Package!SetAside, Package!VerifyOriginal, Package!Collect, Package!MoveEntry,
     Package!Guard, Package!Promoting, Package!Promote, Package!VerifyPromoted, Package!Finish,
       Package!TakeBack, Package!Reverse, Package!Unpromote, Package!VerifyUnpromoted,
         Package!MoveBack,
     Package!RestoreOriginal, Package!Recover, Package!ExamineRecord, Package!Recovered,
       Package!RestoreRetired, Package!Recheck, Package!At, Package!disk
<1> QED BY <1>4 DEF Package!BringBack, Package!At, PackageInv, KindOfPackage, In

\* What the owner or the plugin wrote survives every crash and recovery: a change that came late
\* is the package again, the device-local entries are with the package in use, and a retired
\* device-local package is brought back only when exactly one original is left and nothing is in
\* its place (atomic-package.ts recover, guardOriginal, restoreDeviceLocalRetirements).
THEOREM NothingLost ==
  ASSUME Package!CodesAssumption, Package!NoneAssumption
  PROVE  Package!Spec => Package!RecoveryLosesNothing
<1>1. PackageInv /\ [Package!Next]_(Package!vars) => Package!LateChangeReturns'
        /\ Package!CacheFollowsPackage' /\ Package!RetirementIsCertain
  <2> SUFFICES ASSUME PackageInv, [Package!Next]_(Package!vars)
    PROVE Package!LateChangeReturns' /\ Package!CacheFollowsPackage'
      /\ Package!RetirementIsCertain OBVIOUS
  <2>1. PackageInv' BY NextInv
  <2>2. PackageInv' => Package!LateChangeReturns' /\ Package!CacheFollowsPackage'
    BY LateReturned, CachesFollow, PTL
  <2> QED BY <2>1, <2>2, RetiredCertain
<1> QED BY <1>1, PackageInvariance, PTL DEF Package!Spec, Package!RecoveryLosesNothing
==============================================================================
