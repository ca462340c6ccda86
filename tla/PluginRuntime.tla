--------------------------- MODULE PluginRuntime ----------------------------
(***************************************************************************)
(* How a running plugin is taken out of use, updated and loaded again      *)
(* (plugin/src/plugin-runtime.ts). The plugin manager of the host and the  *)
(* plugin itself are third parties: an operation of the manager may outlast*)
(* the wait for it, an old instance may save its settings at any time, and *)
(* Gib Sync itself may be reloaded: the coordinator is disposed and a      *)
(* second one finds what the first left. One plugin id is modelled; of the *)
(* others only whether one of them still has unfinished work.              *)
(***************************************************************************)
EXTENDS Naturals, FiniteSets, FiniteSetsExt

CONSTANTS None,
          MaxInstances,  \* bound: instances of the plugin, the first included
          MaxUpdates,    \* bound: incoming packages
          MaxOps,        \* bound: operations started by the coordinators
          MaxSaves,      \* bound: saves of settings by instances
          MaxBypass,     \* bound: writes to the settings file past saveData
          MaxFaults      \* bound: waits that run out, operations and saves that fail

Coordinators == {1, 2}   \* the second one follows the first
Instances    == 1 .. MaxInstances
Contents     == [kind : {"old", "incoming", "bypass", "save"}, by : Nat]
Packages     == [code : Nat, data : Contents \cup {None}]
Phases       == {"unloading", "quiesced", "loading", "active"}
Guards       ==
    [owner : Coordinators, busy : BOOLEAN, needsRecovery : BOOLEAN, pending : Nat,
     phase : Phases, previous : {0} \cup Instances, approved : SUBSET Instances,
     token : BOOLEAN, expected : Contents \cup {None}, verified : Contents \cup {None},
     incoming : Contents \cup {None}, vacated : BOOLEAN, prior : Packages \cup {None},
     activated : BOOLEAN, activationFailed : BOOLEAN, cleanup : BOOLEAN,
     tracked : SUBSET Instances, writeFailed : BOOLEAN]

ASSUME BoundAssumption == MaxInstances \in Nat \ {0}
ASSUME NoneAssumption  == None \notin Contents \cup Packages \cup Guards

VARIABLES
    code,     \* the package at the plugin's directory: the number of the update
    public,   \* the settings file there, or None
    kept,     \* settings in local recovery
    running,  \* the manager's instance, 0: none
    loaded,   \* per instance: [code, data] it was loaded with, or None
    fence,    \* per instance: the coordinator whose wrapper it saves through, 0: none
    writes,   \* saves to the public file under way: [by, guarded]
    ops,      \* operations under way: [id, kind, step]
    lastOk,   \* whether the operation that settled last succeeded
    comp,     \* the protected component, shared by the coordinators, or None
    left,     \* the guard a disposed coordinator keeps without a component
    hooked,   \* coordinators loadData and saveData still ask
    closed,   \* disposed coordinators
    others,   \* another plugin of the first coordinator has unfinished work
    task,     \* per coordinator: where its work is, for which call, for which settings
    count     \* bounded events so far: [ops, saves, bypass, faults]

manager == <<running, loaded, ops, lastOk>>
files   == <<code, public, kept>>
hooks   == <<fence, left, hooked, closed, others>>
vars    == <<manager, files, hooks, writes, comp, task, count>>

Old         == [kind |-> "old", by |-> 0]
Incoming(u) == [kind |-> "incoming", by |-> u]
Bypass      == [kind |-> "bypass", by |-> 0]
Saved(n)    == [kind |-> "save", by |-> n]

Proof == [code |-> code, data |-> public]

\* The guard of newGuard, with the component's own fields. The plugin is wanted.
NewGuard(c) ==
    [owner |-> c, busy |-> TRUE, needsRecovery |-> FALSE, pending |-> 0,
     phase |-> "unloading", previous |-> running, approved |-> {}, token |-> FALSE,
     expected |-> None, verified |-> None, incoming |-> None, vacated |-> FALSE,
     prior |-> None, activated |-> FALSE, activationFailed |-> FALSE,
     cleanup |-> FALSE, tracked |-> {}, writeFailed |-> FALSE]

Settled(id) == ~\E o \in ops : o.id = id

Retired(k) == [k EXCEPT !.token = FALSE, !.approved = {}, !.phase = "quiesced",
                        !.activated = FALSE, !.needsRecovery = TRUE]

Is(c, pc) == task[c].pc = pc
Go(c, pc) == task' = [task EXCEPT ![c].pc = pc]

Init ==
    /\ code = 0 /\ public = Old /\ kept = {}
    /\ running = 1
    /\ loaded = [n \in Instances |-> IF n = 1 THEN [code |-> 0, data |-> Old] ELSE None]
    /\ ops = {} /\ lastOk = TRUE
    /\ fence = [n \in Instances |-> 0] /\ writes = {} /\ left = None
    /\ hooked = {1} /\ closed = {} /\ others \in BOOLEAN
    /\ comp = None
    /\ task = [c \in Coordinators |->
                 [pc |-> IF c = 1 THEN "idle" ELSE "off", call |-> "none", want |-> None]]
    /\ count = [ops |-> 0, saves |-> 0, bypass |-> 0, faults |-> 0]

-----------------------------------------------------------------------------
(* loadData and saveData of every instance                                  *)

\* The coordinator that is asked for an instance without a wrapper.
Asked == {c \in hooked : (comp # None /\ comp.owner = c) \/ (left # None /\ left.owner = c)}
GuardOf(c) == IF comp # None /\ comp.owner = c THEN comp ELSE left

MayWrite(k, n) == (k.phase = "unloading" /\ n = k.previous) \/ n \in k.approved

\* Whether a save of the instance goes to the public file; else to recovery.
GoesPublic(n) ==
    IF fence[n] # 0
    THEN comp # None /\ comp.owner = fence[n] /\ MayWrite(comp, n)
    ELSE Asked = {} \/ MayWrite(GuardOf(Min(Asked)), n)

\* The component's guard takes charge of a save it lets through; a save nobody
\* is asked about is in no one's charge.
InCharge(n) == comp # None /\ (fence[n] # 0 \/ (Asked # {} /\ comp.owner = Min(Asked)))

Save(n) ==
    /\ loaded[n] # None /\ (\A w \in writes : w.by # n) /\ count.saves < MaxSaves
    /\ count' = [count EXCEPT !.saves = @ + 1]
    /\ IF GoesPublic(n)
       THEN /\ writes' = writes \cup {[by |-> n, guarded |-> InCharge(n)]} /\ UNCHANGED kept
            /\ comp' = IF InCharge(n) THEN [comp EXCEPT !.tracked = @ \cup {n}] ELSE comp
       ELSE kept' = kept \cup {Saved(n)} /\ UNCHANGED <<writes, comp>>
    /\ UNCHANGED <<code, public, manager, hooks, task>>

Tracked(w) == comp # None /\ w.by \in comp.tracked

\* A write settles; one tracked during the load becomes what must be verified.
Written(w) ==
    /\ writes' = writes \ {w}
    /\ public' = Saved(w.by)
    /\ comp' = IF ~Tracked(w) THEN comp
               ELSE [comp EXCEPT !.tracked = @ \ {w.by},
                                 !.verified = IF comp.phase = "loading" /\ w.by # comp.previous
                                              THEN Saved(w.by) ELSE @]
    /\ UNCHANGED <<code, kept, manager, hooks, task, count>>

WriteFails(w) ==
    /\ count.faults < MaxFaults
    /\ writes' = writes \ {w} /\ count' = [count EXCEPT !.faults = @ + 1]
    /\ comp' = IF Tracked(w) THEN [comp EXCEPT !.tracked = @ \ {w.by}, !.writeFailed = TRUE]
               ELSE comp
    /\ UNCHANGED <<files, manager, hooks, task>>

\* A plugin writes its settings file without saveData.
WritePast ==
    /\ count.bypass < MaxBypass
    /\ count' = [count EXCEPT !.bypass = @ + 1]
    /\ public' = Bypass
    /\ UNCHANGED <<code, kept, manager, hooks, writes, comp, task>>

-----------------------------------------------------------------------------
(* The operations themselves, run by the manager or, for the settings, here *)

Ends(o, good) == ops' = ops \ {o} /\ lastOk' = good
OpFrame       == UNCHANGED <<hooks, writes, task>>

Disabled(o) ==
    /\ o.kind = "disable"
    /\ \/ running' = 0 /\ Ends(o, TRUE) /\ UNCHANGED count
       \/ /\ count.faults < MaxFaults /\ count' = [count EXCEPT !.faults = @ + 1]
          /\ Ends(o, FALSE) /\ UNCHANGED running
    /\ UNCHANGED <<loaded, files, comp>> /\ OpFrame

ManifestLoaded(o) ==
    /\ o.kind = "manifest" /\ Ends(o, TRUE)
    /\ UNCHANGED <<running, loaded, files, comp, count>> /\ OpFrame

\* enablePlugin makes the next instance, which asks for its settings, through the
\* guard of the first coordinator that has one (wrappedLoad), or does not ask.
Loads(o) ==
    /\ o.kind = "enable" /\ o.step = 0
    /\ \E n \in Instances :
          /\ loaded[n] = None /\ \A m \in 1 .. n - 1 : loaded[m] # None
          /\ running' = n
          /\ \/ /\ loaded' = [loaded EXCEPT ![n] = Proof]
                /\ comp' = IF /\ Asked # {} /\ comp # None /\ comp.owner = Min(Asked)
                              /\ comp.phase = "loading" /\ comp.token /\ public = comp.expected
                           THEN [comp EXCEPT !.approved = @ \cup {n}] ELSE comp
             \/ loaded' = [loaded EXCEPT ![n] = [code |-> code, data |-> None]] /\ UNCHANGED comp
    /\ ops' = (ops \ {o}) \cup {[o EXCEPT !.step = 1]}
    /\ UNCHANGED <<lastOk, files, count>> /\ OpFrame

Enabled(o) ==
    /\ o.kind = "enable" /\ o.step = 1 /\ Ends(o, TRUE)
    /\ UNCHANGED <<running, loaded, files, comp, count>> /\ OpFrame

\* restoreIncoming: what is there is moved to recovery, then the protected
\* settings are copied into the vacant place. A file that appears there, now
\* or after an earlier attempt, stays.
Vacates(o) ==
    /\ o.kind = "restore" /\ o.step = 0
    /\ IF public = comp.incoming THEN Ends(o, TRUE) /\ UNCHANGED <<public, kept, comp>>
       ELSE IF comp.vacated /\ public # None THEN Ends(o, FALSE) /\ UNCHANGED <<public, kept, comp>>
       ELSE /\ kept' = IF public = None THEN kept ELSE kept \cup {public}
            /\ public' = None
            /\ comp' = [comp EXCEPT !.vacated = TRUE]
            /\ ops' = (ops \ {o}) \cup {[o EXCEPT !.step = 1]} /\ UNCHANGED lastOk
    /\ UNCHANGED <<running, loaded, code, count>> /\ OpFrame

PutsBack(o) ==
    /\ o.kind = "restore" /\ o.step = 1
    /\ IF public # None THEN Ends(o, FALSE) /\ UNCHANGED public
       ELSE Ends(o, TRUE) /\ public' = comp.incoming
    /\ UNCHANGED <<running, loaded, code, kept, comp, count>> /\ OpFrame

Operation == \E o \in ops : \/ Disabled(o) \/ ManifestLoaded(o) \/ Loads(o) \/ Enabled(o)
                            \/ Vacates(o) \/ PutsBack(o)

-----------------------------------------------------------------------------
(* lifecycle: one operation, watched; a wait that ends is no cancellation   *)

\* Starts the operation on component k and waits for it at pc.
Start(c, k, kind, pc) ==
    /\ count.ops < MaxOps
    /\ ops' = ops \cup {[id |-> count.ops + 1, kind |-> kind, step |-> 0]}
    /\ count' = [count EXCEPT !.ops = @ + 1]
    /\ comp' = [k EXCEPT !.pending = count.ops + 1]
    /\ Go(c, pc)
    /\ UNCHANGED <<running, loaded, lastOk>>

Stopped(c) == comp.owner \in closed /\ ~comp.cleanup
Answered   == Settled(comp.pending) /\ lastOk

\* The wait is over without an answer: the operation failed, or it goes on and
\* its time has run out or, unless this is clean-up, the coordinator is closed.
GivesUp(stopped) ==
    \/ Settled(comp.pending) /\ ~lastOk /\ UNCHANGED count
    \/ ~Settled(comp.pending) /\ stopped /\ UNCHANGED count
    \/ /\ ~Settled(comp.pending) /\ count.faults < MaxFaults
       /\ count' = [count EXCEPT !.faults = @ + 1]

\* A drain ends when the guard's writes have settled, or its time runs out.
Drained    == comp.tracked = {} /\ UNCHANGED count
DrainFails == \/ comp.tracked = {} /\ comp.writeFailed /\ UNCHANGED count
              \/ /\ comp.tracked # {} /\ count.faults < MaxFaults
                 /\ count' = [count EXCEPT !.faults = @ + 1]

\* end: the component k is free; one of a closed coordinator without unfinished
\* work goes, and with the last such one the coordinator's hooks.
End(k) ==
    LET gone == k.owner \in closed /\ k.pending = 0 /\ ~k.needsRecovery
    IN  /\ comp' = IF gone THEN None ELSE [k EXCEPT !.busy = FALSE]
        /\ hooked' = IF gone /\ ~others THEN hooked \ {k.owner} ELSE hooked
        /\ UNCHANGED <<left, closed, others>>

Still == UNCHANGED <<running, loaded, ops, lastOk, files, writes>>

-----------------------------------------------------------------------------
(* begin and recover                                                        *)

\* A call of the engine: quiesce before an update, activate after it, finish
\* at the end of every run. want: the settings activation must find.
Call(c, call, want) ==
    /\ Is(c, "idle") /\ c \notin closed
    /\ IF comp # None /\ (comp.busy \/ (comp.owner # c /\ comp.owner \notin closed))
       THEN UNCHANGED <<comp, task>>
       ELSE LET k == IF comp = None THEN NewGuard(c) ELSE [comp EXCEPT !.busy = TRUE]
                next == IF k.needsRecovery \/ k.pending # 0 THEN "recover"
                        ELSE IF call = "quiesce" \/ k.phase # "quiesced" THEN "unload"
                        ELSE "verify"
            IN  /\ comp' = IF call = "finish" THEN [k EXCEPT !.cleanup = TRUE] ELSE k
                /\ task' = [task EXCEPT ![c] = [pc |-> next, call |-> call, want |-> want]]
    /\ Still /\ UNCHANGED <<hooks, count>>

Active      == comp # None /\ comp.phase = "active"
Quiesce(c)  == code < MaxUpdates /\ Call(c, "quiesce", None)
Activate(c) == code > 0 /\ ~Active /\ Call(c, "activate", Incoming(code))
\* finish: only a package that is exactly what was taken out of use is loaded.
Finish(c)   ==
    /\ comp # None /\ comp.owner = c /\ Settled(comp.pending)
    /\ ~comp.activated /\ comp.phase # "active" /\ ~comp.activationFailed
    /\ comp.prior = Proof
    /\ Call(c, "finish", public)

\* A call ends without its result; the engine retries it in a later run.
Held(c, k) == End(k) /\ Go(c, "idle")

\* Mutant: recovery does not ask whether the earlier operation has finished.
RecoverPending(c) ==
    /\ Is(c, "recover")
    /\ LET k == Retired([comp EXCEPT !.pending = 0])
       IN  IF running = 0
           THEN comp' = k /\ Go(c, "r_drain") /\ UNCHANGED <<manager, count, fence>>
           ELSE Start(c, k, "disable", "r_disable")
                /\ fence' = [fence EXCEPT ![running] = comp.owner]
    /\ UNCHANGED <<files, writes, left, hooked, closed, others>>

Recover(c) ==
    /\ Is(c, "recover")
    /\ IF ~Settled(comp.pending)
       THEN Held(c, comp) /\ UNCHANGED <<manager, count, fence>>
       ELSE /\ LET k == Retired([comp EXCEPT !.pending = 0])
               IN  IF running = 0
                   THEN comp' = k /\ Go(c, "r_drain") /\ UNCHANGED <<manager, count, fence>>
                   ELSE Start(c, k, "disable", "r_disable")
                        /\ fence' = [fence EXCEPT ![running] = comp.owner]
            /\ UNCHANGED <<left, hooked, closed, others>>
    /\ UNCHANGED <<files, writes>>

RecoverDisabled(c) ==
    /\ Is(c, "r_disable")
    /\ \/ /\ Answered /\ comp' = [comp EXCEPT !.pending = 0] /\ Go(c, "r_drain")
          /\ UNCHANGED <<hooks, count>>
       \/ GivesUp(FALSE) /\ Held(c, Retired(comp)) /\ UNCHANGED fence
    /\ Still

\* What follows a recovery: the call that began with it, or the end of the one
\* that failed. A component recovered for another coordinator is gone; that one
\* starts afresh.
Recovered(c, k) ==
    IF comp.owner # c
    THEN /\ End(k) /\ UNCHANGED fence
         /\ Go(c, "idle")
    ELSE IF task[c].call = "failed" THEN Held(c, k) /\ UNCHANGED fence
    ELSE /\ comp' = k /\ UNCHANGED hooks
         /\ Go(c, IF task[c].call = "quiesce" THEN "unload" ELSE "verify")

RecoverDrained(c) ==
    /\ Is(c, "r_drain")
    /\ \/ /\ comp.tracked = {}
          /\ \/ /\ comp.incoming = None /\ ~comp.writeFailed
                /\ Recovered(c, [comp EXCEPT !.needsRecovery = FALSE])
                /\ UNCHANGED <<manager, count>>
             \/ /\ comp.incoming # None
                /\ Start(c, comp, "restore", "r_restore") /\ UNCHANGED hooks
             \/ /\ comp.incoming = None /\ comp.writeFailed
                /\ Held(c, comp) /\ UNCHANGED <<manager, count, fence>>
       \/ /\ comp.tracked # {} /\ DrainFails
          /\ Held(c, comp) /\ UNCHANGED <<manager, fence>>
    /\ UNCHANGED <<files, writes>>

RecoverRestored(c) ==
    /\ Is(c, "r_restore")
    /\ \/ /\ Answered /\ UNCHANGED count
          /\ Recovered(c, [comp EXCEPT !.pending = 0, !.needsRecovery = FALSE])
       \/ GivesUp(FALSE) /\ Held(c, Retired(comp)) /\ UNCHANGED fence
    /\ Still

-----------------------------------------------------------------------------
(* quiesceOwned                                                             *)

\* A guard that is quiesced already is drained; an active one is replaced, and
\* the instance it approved becomes the one to unload.
Unload(c) ==
    /\ Is(c, "unload")
    /\ IF comp.phase = "quiesced"
       THEN Go(c, "u_drain") /\ UNCHANGED <<comp, manager, count, fence>>
       ELSE LET k == IF comp.phase = "active" THEN NewGuard(c) ELSE comp
            IN  IF k.previous = 0
                THEN /\ comp' = [k EXCEPT !.phase = "quiesced"]
                     /\ Go(c, "u_drain") /\ UNCHANGED <<manager, count, fence>>
                ELSE /\ Start(c, k, "disable", "u_disable")
                     /\ fence' = [fence EXCEPT ![k.previous] = c]
    /\ UNCHANGED <<files, writes, left, hooked, closed, others>>

\* The call that needed the plugin out of use fails; a plugin that never left
\* and whose operation is over is given back, its guard is dropped.
UnloadHeld(c, k) ==
    IF k.previous # 0 /\ running = k.previous /\ Settled(k.pending)
    THEN /\ comp' = None /\ fence' = [fence EXCEPT ![running] = 0]
         /\ Go(c, "idle") /\ UNCHANGED <<left, hooked, closed, others>>
    ELSE /\ UNCHANGED fence
         /\ IF task[c].call # "quiesce" /\ k.needsRecovery /\ Settled(k.pending)
            THEN /\ comp' = Retired(k) /\ UNCHANGED <<left, hooked, closed, others>>
                 /\ task' = [task EXCEPT ![c] = [@ EXCEPT !.pc = "recover", !.call = "failed"]]
            ELSE Held(c, k)

Quiet(k) == [k EXCEPT !.phase = "quiesced", !.token = FALSE, !.approved = {}]

UnloadDisabled(c) ==
    /\ Is(c, "u_disable")
    /\ \/ /\ Answered /\ comp' = [comp EXCEPT !.pending = 0] /\ Go(c, "u_drain")
          /\ UNCHANGED <<hooks, count>>
       \/ GivesUp(Stopped(c)) /\ UnloadHeld(c, Quiet(Retired(comp)))
    /\ Still

\* Mutant: the package is replaced while saves of the old instance are under way.
UnloadUndrained(c) ==
    /\ Is(c, "u_drain") /\ running = 0 /\ ~Stopped(c)
    /\ LET k == [comp EXCEPT !.phase = "quiesced", !.prior = Proof]
       IN  IF task[c].call = "quiesce" THEN End(k) /\ Go(c, "install")
           ELSE comp' = k /\ Go(c, "verify") /\ UNCHANGED <<left, hooked, closed, others>>
    /\ Still /\ UNCHANGED <<fence, count>>

UnloadDrained(c) ==
    /\ Is(c, "u_drain")
    /\ \/ /\ Drained /\ ~comp.writeFailed /\ running = 0 /\ ~Stopped(c)
          /\ LET k == [comp EXCEPT !.phase = "quiesced",
                                   !.prior = IF @ = None THEN Proof ELSE @]
             IN  IF task[c].call = "quiesce" THEN End(k) /\ Go(c, "install")
                 ELSE comp' = k /\ Go(c, "verify") /\ UNCHANGED <<left, hooked, closed, others>>
          /\ UNCHANGED fence
       \/ DrainFails /\ UnloadHeld(c, Quiet(comp))
       \/ /\ Drained /\ ~comp.writeFailed /\ (running # 0 \/ Stopped(c))
          /\ UnloadHeld(c, Quiet(comp))
    /\ Still

\* The engine installs the package; what was there goes to local recovery. Or
\* the installation is given up and the old package stays.
Install(c) ==
    /\ Is(c, "install") /\ Go(c, "idle")
    /\ \/ /\ c \notin closed
          /\ code' = code + 1 /\ public' = Incoming(code + 1)
          /\ kept' = kept \cup ({public} \ {None})
       \/ UNCHANGED files
    /\ UNCHANGED <<manager, hooks, writes, comp, count>>

-----------------------------------------------------------------------------
(* activate                                                                 *)

\* An attempt that has come to load the plugin is retired and recovered from;
\* while its operation goes on it is only retired.
Fails(c, k, loading) ==
    IF ~(loading \/ k.needsRecovery) THEN Held(c, k) /\ UNCHANGED fence
    ELSE LET r == [Retired(k) EXCEPT !.activationFailed = @ \/ loading]
         IN  IF Settled(k.pending)
             THEN /\ comp' = r /\ UNCHANGED hooks
                  /\ task' = [task EXCEPT ![c] = [@ EXCEPT !.pc = "recover", !.call = "failed"]]
             ELSE Held(c, r) /\ UNCHANGED fence

\* The complete package with the expected settings must be there.
Verify(c) ==
    /\ Is(c, "verify")
    /\ IF public = task[c].want /\ ~Stopped(c)
       THEN Start(c, comp, "manifest", "manifest") /\ UNCHANGED hooks
       ELSE Fails(c, comp, FALSE) /\ UNCHANGED <<manager, count>>
    /\ UNCHANGED <<files, writes>>

ManifestRefreshed(c) ==
    /\ Is(c, "manifest")
    /\ \/ /\ Answered /\ Go(c, "protect") /\ UNCHANGED <<hooks, count>>
          /\ comp' = [comp EXCEPT !.pending = 0, !.phase = "loading", !.expected = task[c].want]
       \/ GivesUp(Stopped(c)) /\ Fails(c, Retired(comp), FALSE)
    /\ Still

\* The incoming settings are copied to a private place before the plugin can run.
Protect(c) ==
    /\ Is(c, "protect") /\ UNCHANGED count
    /\ IF public = comp.expected /\ ~Stopped(c)
       THEN /\ comp' = [comp EXCEPT !.incoming = public, !.vacated = FALSE,
                                    !.verified = None, !.writeFailed = FALSE]
            /\ Go(c, "enable") /\ UNCHANGED hooks
       ELSE Fails(c, comp, FALSE)
    /\ Still

Load(c) ==
    /\ Is(c, "enable")
    /\ IF public = comp.expected /\ ~Stopped(c)
       THEN /\ Start(c, [comp EXCEPT !.token = TRUE, !.activationFailed = FALSE], "enable", "load")
            /\ UNCHANGED hooks
       ELSE Fails(c, comp, TRUE) /\ UNCHANGED <<manager, count>>
    /\ UNCHANGED <<files, writes>>

Loaded(c) ==
    /\ Is(c, "load")
    /\ \/ /\ Answered /\ comp' = [comp EXCEPT !.pending = 0] /\ Go(c, "check")
          /\ UNCHANGED <<hooks, count>>
       \/ GivesUp(Stopped(c)) /\ Fails(c, Retired(comp), TRUE)
    /\ Still

AsVerified == public = IF comp.verified = None THEN comp.expected ELSE comp.verified

Acknowledge(c) ==
    /\ comp' = [comp EXCEPT !.approved = @ \cup {running}, !.token = FALSE,
                            !.phase = "active", !.activated = TRUE, !.busy = FALSE]
    /\ fence' = [fence EXCEPT ![running] = c]
    /\ Go(c, "idle")

\* Mutant: an instance that never asked for the verified settings is accepted.
CheckUnapproved(c) ==
    /\ Is(c, "check")
    /\ \/ /\ Drained /\ ~comp.writeFailed /\ ~Stopped(c) /\ AsVerified /\ running # 0
          /\ Acknowledge(c) /\ UNCHANGED <<left, hooked, closed, others>>
       \/ DrainFails /\ Fails(c, comp, TRUE)
    /\ Still

\* The writes of the load have settled, the settings are the incoming ones or what
\* a verified save made of them, and the instance loaded them under the guard.
Check(c) ==
    /\ Is(c, "check")
    /\ \/ /\ Drained /\ ~comp.writeFailed
          /\ IF ~Stopped(c) /\ AsVerified /\ running \in comp.approved
             THEN Acknowledge(c) /\ UNCHANGED <<left, hooked, closed, others>>
             ELSE Fails(c, comp, TRUE)
       \/ DrainFails /\ Fails(c, comp, TRUE)
    /\ Still

-----------------------------------------------------------------------------
(* dispose, and the coordinator of the reloaded Gib Sync                    *)

Dispose ==
    /\ closed = {} /\ closed' = {1}
    /\ LET idle == comp # None /\ comp.pending = 0 /\ ~comp.needsRecovery /\ ~comp.busy
           free == comp # None /\ comp.phase = "active" /\ running \in comp.approved
       IN  /\ fence' = IF free THEN [fence EXCEPT ![running] = 0] ELSE fence
           /\ comp' = IF comp = None \/ idle THEN None ELSE Retired(comp)
           /\ left' = IF idle THEN comp ELSE None
           /\ hooked' = IF (comp = None \/ idle) /\ ~others THEN {} ELSE hooked
    /\ UNCHANGED <<others, manager, files, writes, task, count>>

\* The other plugin's operation ends at last and is recovered.
OthersSettle ==
    /\ others /\ others' = FALSE
    /\ hooked' = IF 1 \in closed /\ (comp = None \/ comp.owner # 1) THEN hooked \ {1} ELSE hooked
    /\ UNCHANGED <<fence, left, closed, manager, files, writes, comp, task, count>>

SecondStarts ==
    /\ Is(2, "off") /\ 1 \in closed
    /\ hooked' = hooked \cup {2} /\ Go(2, "idle")
    /\ UNCHANGED <<fence, left, closed, others, manager, files, writes, comp, count>>

Coordinator(c) ==
    \/ Quiesce(c) \/ Activate(c) \/ Finish(c) \/ Install(c)
    \/ Recover(c) \/ RecoverDisabled(c) \/ RecoverDrained(c) \/ RecoverRestored(c)
    \/ Unload(c) \/ UnloadDisabled(c) \/ UnloadDrained(c)
    \/ Verify(c) \/ ManifestRefreshed(c) \/ Protect(c) \/ Load(c) \/ Loaded(c) \/ Check(c)

Next == \/ \E c \in Coordinators : Coordinator(c)
        \/ \E n \in Instances : Save(n)
        \/ \E w \in writes : Written(w) \/ WriteFails(w)
        \/ WritePast \/ Operation
        \/ Dispose \/ OthersSettle \/ SecondStarts

Spec == Init /\ [][Next]_vars

-----------------------------------------------------------------------------
(* Properties                                                               *)

\* However many waits run out and whoever takes over, at most one operation on
\* the plugin is under way: nothing new starts while one that was given up may
\* still act (the pending attempt, plugin-runtime.ts:74, 96).
OneOperationAtATime == Cardinality(ops) <= 1

\* An instance that is in use with its saves let through was loaded from the
\* verified package, with the settings that activation expected.
ActiveLoadedIncoming ==
    (comp # None /\ comp.phase = "active" /\ running # 0 /\ comp.owner \notin closed)
        => /\ running \in comp.approved
           /\ loaded[running] = [code |-> code, data |-> comp.expected]

\* A save the component's guard is in charge of cannot replace settings of a
\* package its instance was not loaded from: it is awaited before the package is
\* replaced, or it goes to local recovery.
IncomingStands ==
    (comp # None /\ comp.owner \notin closed) => \A n \in comp.tracked : loaded[n].code = code

=============================================================================
