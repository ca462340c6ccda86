---------------------------- MODULE SyncScheduler ----------------------------
(***************************************************************************)
(* When the plugin of one device works and when it must not                *)
(* (plugin/src/main.ts, with the operation queue of engine.ts): the sync   *)
(* session and its retries, the operations that exclude it, the inventory  *)
(* check in the background, the pause of the owner, the blocks put up by   *)
(* Obsidian Sync, an incompatible server or a safety hold, the timers, and *)
(* the tracking of one file: its events, the events of Gib Sync's own      *)
(* writes, which are expected, and the verification that tells them apart. *)
(*                                                                         *)
(* What a session does with the file is left to DeviceJournal and          *)
(* LocalApply: here it reads the file when it has reason to, and may write *)
(* a version that arrived.                                                 *)
(***************************************************************************)
EXTENDS Naturals, Sequences

CONSTANTS None,
          MaxEdits,    \* bound: the owner's edits of the file
          MaxRemote,   \* bound: versions that arrive from the server
          MaxFaults    \* bound: failures of a session

VARIABLES
    gate,      \* [stopped, paused, blocked, hold]: what forbids work; Obsidian Sync
               \* (nativeSyncBlocked) and an incompatible server are both "blocked"
    owned,     \* operationOwner = operationGeneration
    queue,     \* operationTail, the first one runs: [kind, at, result], whether its
               \* generation is the engine's (fresh), no cancellation since (asked)
    session,   \* where performSync is; "none": no syncTask
    running,   \* liveStatus.running
    debounce,  \* a queued sync is waiting for its time
    armed,     \* the interval timer and the watch of incoming changes are on
    again,     \* fileChangePending
    disk,      \* the file: the number of its version
    known,     \* the version the device last reconciled
    seen,      \* the version the inventory recorded
    owes,      \* an apply was begun and has not been completed
    event,     \* a vault event of the file is undelivered
    expected,  \* expectedLocalMutations of the file, or None
    verify,    \* expectedVerificationQueue: what is to be found there, or None
    recent,    \* a change was noted within the settle window
    dirty,     \* the file in pathVersions: "no", or noted "before" the session began
               \* or "since"
    read,      \* the session's view: [disk, target]
    count,     \* bounded events so far: [edits, remote, faults]
    unsaid     \* history: the last change had no event, and the check that recorded
               \* it was cancelled before it could tell

gates    == <<gate, armed>>
task     == <<session, running, debounce, again>>
tracking == <<event, expected, verify, dirty, recent>>
file     == <<disk, known, seen, owes, unsaid>>
vars     == <<gates, owned, queue, task, tracking, file, read, count>>

Unread  == [disk |-> None, target |-> None]
Version == count.edits + count.remote

Init ==
    /\ gate = [stopped |-> FALSE, paused |-> FALSE, blocked |-> FALSE, hold |-> FALSE]
    /\ armed = TRUE
    /\ owned = TRUE /\ queue = <<>>
    /\ session = "none" /\ running = FALSE /\ debounce = FALSE /\ again = FALSE
    /\ disk = 0 /\ known = 0 /\ seen = 0 /\ owes = FALSE /\ unsaid = FALSE
    /\ event = FALSE /\ expected = None /\ verify = None
    /\ dirty = "no" /\ recent = FALSE /\ read = Unread
    /\ count = [edits |-> 0, remote |-> 0, faults |-> 0]

Closed == gate.stopped \/ gate.paused \/ gate.blocked
Held   == Closed \/ gate.hold

CanContinueOperation == ~Closed /\ owned

-----------------------------------------------------------------------------
(* The owner's file and its events                                          *)

\* In Obsidian, with an event, or from outside, without.
Edit ==
    /\ count.edits < MaxEdits /\ ~gate.stopped
    /\ count' = [count EXCEPT !.edits = @ + 1]
    /\ disk' = Version + 1 /\ event' \in {TRUE, event} /\ unsaid' = FALSE
    /\ UNCHANGED <<gates, owned, queue, task, expected, verify, dirty, recent,
                   known, seen, owes, read>>

\* queueSync
Queued == ~Held
\* scheduleFileChangeSync of a path nothing is expected of: it is pending, and a
\* sync is queued, or the session under way is asked to queue one.
Note ==
    /\ dirty' = IF running THEN "since" ELSE "before"
    /\ recent' = TRUE
    /\ again' = (again \/ running)
    /\ debounce' = (debounce \/ (~running /\ Queued))

NoNote == UNCHANGED <<dirty, recent, again, debounce>>

Hear ==
    /\ event /\ event' = FALSE /\ ~gate.stopped
    /\ IF expected # None
       THEN verify' = expected /\ NoNote
       ELSE Note /\ UNCHANGED verify
    /\ UNCHANGED <<gates, owned, queue, session, running, expected, file, read, count>>

Taken ==
    /\ verify # None /\ ~running /\ ~gate.stopped
    /\ verify' = None /\ expected' = IF expected = verify THEN None ELSE expected
    /\ UNCHANGED <<gates, owned, queue, session, running, event, file, read, count>>

\* Mutant: an event of an expected write is taken for it without a look.
VerifyUnseen == Taken /\ NoNote

\* drainExpectedVerifications, verifyExpectedMutation: what is there is compared
\* with what was expected.
Verify == Taken /\ IF disk # verify /\ expected = verify THEN Note ELSE NoNote

-----------------------------------------------------------------------------
(* What forbids work                                                        *)

\* cancelOperation
Cancel ==
    /\ owned' = FALSE
    /\ queue' = [i \in 1 .. Len(queue) |-> [queue[i] EXCEPT !.fresh = FALSE, !.asked = FALSE]]

Raise(g) ==
    /\ ~gate[g] /\ ~gate.stopped /\ gate' = [gate EXCEPT ![g] = TRUE]
    /\ UNCHANGED <<session, running, again, expected, dirty, recent, file, read, count>>

\* setPaused, checkObsidianSyncProtection, applyCompatibility: work is cancelled
\* and nothing is scheduled any more.
Block(g) == Raise(g) /\ Cancel /\ armed' = FALSE /\ debounce' = FALSE
Pause   == Block("paused") /\ UNCHANGED <<event, verify>>
Protect == Block("blocked") /\ UNCHANGED <<event, verify>>

\* onunload: events are not heard and the file is not followed any more.
Stop == Block("stopped") /\ event' = FALSE /\ verify' = None

\* A safeguard or a containment holds the vault; what runs goes on.
Hold == Raise("hold") /\ UNCHANGED <<owned, queue, armed, debounce, event, verify>>

\* The way back: the timer is set when nothing else forbids it. Obsidian Sync
\* or the pause gone, a sync is queued; a compatible server or the end of a
\* hold only leaves the timer to act.
Open(g) ==
    /\ gate[g] /\ ~gate.stopped
    /\ gate' = [gate EXCEPT ![g] = FALSE]
    /\ armed' = IF g = "hold" THEN armed
                ELSE ~gate'.paused /\ ~gate'.blocked
    /\ \/ UNCHANGED debounce
       \/ g # "hold" /\ ~gate'.paused /\ ~gate'.blocked /\ ~gate'.hold /\ debounce' = TRUE
    /\ UNCHANGED <<owned, queue, session, running, again, tracking, file, read, count>>

-----------------------------------------------------------------------------
(* runSync and performSync                                                  *)

\* A request joins the session under way, if there is one. operationOwner is the
\* session's from here on.
RunSync ==
    IF session # "none" \/ gate.stopped \/ gate.paused \/ running
    THEN UNCHANGED <<session, owned>>
    ELSE session' = "settle" /\ owned' = TRUE

DebounceFires ==
    /\ debounce /\ debounce' = FALSE /\ RunSync
    /\ UNCHANGED <<gates, queue, running, again, tracking, file, read, count>>

\* The interval, or the watch of incoming changes.
TimerFires ==
    /\ armed /\ ~gate.hold /\ RunSync
    /\ UNCHANGED <<gates, queue, running, debounce, again, tracking, file, read, count>>

\* The vault has been quiet for long enough, or the session waits for its turn.
Settle ==
    /\ session = "settle"
    /\ \/ /\ gate.stopped \/ gate.paused \/ ~owned
          /\ session' = "none" /\ UNCHANGED <<running, debounce, dirty>>
       \/ /\ ~(gate.stopped \/ gate.paused \/ ~owned) /\ ~recent
          /\ session' = "try" /\ running' = TRUE /\ debounce' = FALSE
          /\ dirty' = IF dirty = "since" THEN "before" ELSE dirty
    /\ UNCHANGED <<gates, owned, queue, again, event, expected, verify, recent, file, read, count>>

NotQuiet ==
    /\ session = "settle" /\ recent
    /\ session' = "none" /\ debounce' = (debounce \/ Queued)
    /\ UNCHANGED <<gates, owned, queue, running, again, tracking, file, read, count>>

Quiet ==
    /\ recent /\ recent' = FALSE
    /\ UNCHANGED <<gates, owned, queue, task, event, expected, verify, dirty, file, read, count>>

\* engine.sync, verifyInventory, ownedOperation: an operation takes its place in
\* the queue; a background check before it is told to give way.
Yield(op) == IF op.kind = "inventory" THEN [op EXCEPT !.fresh = FALSE] ELSE op
Ask(kind) ==
    LET before == IF kind = "inventory" THEN queue
                  ELSE [i \in 1 .. Len(queue) |-> Yield(queue[i])]
    IN  queue' = Append(before, [kind |-> kind, fresh |-> TRUE, asked |-> TRUE,
                                 at |-> "queued", result |-> "none"])

Try ==
    /\ session = "try"
    /\ IF CanContinueOperation
       THEN Ask("sync") /\ session' = "engine"
       ELSE session' = "cancelled" /\ UNCHANGED queue
    /\ UNCHANGED <<gates, owned, running, debounce, again, tracking, file, read, count>>

\* The session goes on when the engine's promise settles.
Settled(kind) == queue # <<>> /\ Head(queue).kind = kind /\ Head(queue).at = "done"

Return ==
    /\ session = "engine" /\ Settled("sync")
    /\ queue' = Tail(queue)
    /\ session' = IF Head(queue).result = "ok" /\ ~CanContinueOperation THEN "cancelled"
                  ELSE Head(queue).result
    /\ UNCHANGED <<gates, owned, running, debounce, again, tracking, file, read, count>>

\* recoverSync waits and tries again, unless it was stopped meanwhile.
Retry ==
    /\ session = "transient"
    /\ session' = IF CanContinueOperation /\ ~gate.hold THEN "try" ELSE "cancelled"
    /\ UNCHANGED <<gates, owned, queue, running, debounce, again, tracking, file, read, count>>

\* Success: what was pending when the session began, and has not changed since,
\* is pending no more.
Succeed ==
    /\ session = "ok"
    /\ session' = "end" /\ running' = FALSE
    /\ dirty' = IF dirty = "before" THEN "no" ELSE dirty
    /\ gate' = [gate EXCEPT !.hold = FALSE]
    /\ UNCHANGED <<armed, owned, queue, debounce, again, event, expected, verify, recent, file, read, count>>

\* A failure the session does not retry; a safety error or a 423 is a hold.
Fail ==
    /\ session \in {"cancelled", "changed", "error"}
    /\ session' = IF session = "changed" THEN "again" ELSE "end"
    /\ running' = FALSE
    /\ \/ UNCHANGED gate
       \/ session = "error" /\ gate' = [gate EXCEPT !.hold = TRUE]
    /\ UNCHANGED <<armed, owned, queue, debounce, again, tracking, file, read, count>>

\* The finally block.
End ==
    /\ session \in {"end", "again"} /\ session' = "none" /\ read' = Unread
    /\ IF Held THEN UNCHANGED <<again, debounce>>
       ELSE again' = FALSE /\ debounce' = (debounce \/ session = "again" \/ again)
    /\ UNCHANGED <<gates, owned, queue, running, tracking, file, count>>

\* exclusiveOperation: recovery, a repair or a decision the owner asks for.
Exclude ==
    /\ session = "none" /\ ~running /\ ~gate.stopped /\ ~gate.paused
    /\ count.faults < MaxFaults /\ count' = [count EXCEPT !.faults = @ + 1]
    /\ owned' = TRUE /\ running' = TRUE /\ session' = "exclusive"
    /\ Ask("exclusive")
    /\ UNCHANGED <<gates, debounce, again, tracking, file, read>>

Excluded ==
    /\ session = "exclusive" /\ Settled("exclusive")
    /\ queue' = Tail(queue) /\ session' = "none" /\ running' = FALSE
    /\ UNCHANGED <<gates, owned, debounce, again, tracking, file, read, count>>

\* checkInventory: every two seconds, when nothing else is going on.
CheckInventory ==
    /\ session = "none" /\ ~running /\ ~Held
    /\ \A i \in 1 .. Len(queue) : queue[i].kind # "inventory"
    /\ disk # seen
    /\ owned' = TRUE /\ Ask("inventory")
    /\ UNCHANGED <<gates, task, tracking, file, read, count>>

Inventoried ==
    /\ Settled("inventory") /\ queue' = Tail(queue)
    /\ IF Head(queue).result = "found" /\ ~gate.stopped
       THEN IF expected # None
            THEN verify' = expected /\ NoNote
            ELSE Note /\ UNCHANGED verify
       ELSE NoNote /\ UNCHANGED verify
    /\ UNCHANGED <<gates, owned, session, running, event, expected, file, read, count>>

-----------------------------------------------------------------------------
(* The engine: one operation at a time, each with its generation            *)

\* Mutant: the engine asks only whether the plugin may work.
CheckpointOwner == CanContinueOperation

\* checkpoint, before every step
Checkpoint == Head(queue).fresh /\ CanContinueOperation

Current        == queue # <<>> /\ Head(queue).at \notin {"queued", "done"}
Became(at)     == queue' = [queue EXCEPT ![1].at = at]
Ends(result)   == queue' = [queue EXCEPT ![1].at = "done", ![1].result = result]
EngineFrame    == UNCHANGED <<gates, owned, task, verify, dirty, recent>>

Start ==
    /\ queue # <<>> /\ Head(queue).at = "queued"
    /\ IF Head(queue).fresh /\ CanContinueOperation THEN Became("scan") ELSE Ends("cancelled")
    /\ EngineFrame /\ UNCHANGED <<event, expected, file, read, count>>

Cancelled ==
    /\ Current /\ ~Checkpoint /\ Ends("cancelled")
    /\ unsaid' = (unsaid \/ Head(queue).result = "found")
    /\ EngineFrame /\ UNCHANGED <<event, expected, disk, known, seen, owes, read, count>>

\* A session looks at the file when it is pending, an apply of it was cut off or
\* a version of it arrives; the audit every six hours is left out.
ScanSession ==
    /\ Current /\ Checkpoint /\ Head(queue).at = "scan" /\ Head(queue).kind = "sync"
    /\ \/ /\ Became("final") /\ UNCHANGED <<owes, count>>
          /\ read' = [read EXCEPT !.disk = IF dirty # "no" \/ owes THEN disk ELSE None]
       \/ /\ count.remote < MaxRemote /\ Became("expect") /\ owes' = TRUE
          /\ count' = [count EXCEPT !.remote = @ + 1]
          /\ read' = [disk |-> disk, target |-> Version + 1]
       \/ /\ count.faults < MaxFaults
          /\ count' = [count EXCEPT !.faults = @ + 1] /\ UNCHANGED <<owes, read>>
          /\ \E r \in {"transient", "error", "changed"} : Ends(r)
    /\ seen' = IF read'.disk # None THEN read'.disk ELSE seen
    /\ EngineFrame /\ UNCHANGED <<event, expected, disk, known, unsaid>>

\* verifyInventory: what is there is compared with what was recorded, and recorded.
Inspect ==
    /\ Current /\ Checkpoint /\ Head(queue).at = "scan" /\ Head(queue).kind = "inventory"
    /\ queue' = [queue EXCEPT ![1].at = "final",
                             ![1].result = IF disk # seen THEN "found" ELSE "nothing"]
    /\ seen' = disk
    /\ EngineFrame /\ UNCHANGED <<event, expected, disk, known, owes, unsaid, read, count>>

Decide ==
    /\ Current /\ Checkpoint /\ Head(queue).at = "scan" /\ Head(queue).kind = "exclusive"
    /\ Ends("ok")
    /\ EngineFrame /\ UNCHANGED <<event, expected, file, read, count>>

\* A write is announced, then made, unless the file is no longer what was read
\* or has been noted as changed since.
Expect ==
    /\ Current /\ Checkpoint /\ Head(queue).at = "expect"
    /\ expected' = read.target /\ Became("write")
    /\ EngineFrame /\ UNCHANGED <<event, file, read, count>>

Write ==
    /\ Current /\ Checkpoint /\ Head(queue).at = "write"
    /\ IF disk = read.disk /\ dirty # "since"
       THEN /\ disk' = read.target /\ event' = TRUE /\ Became("final")
            /\ read' = [read EXCEPT !.disk = read.target]
       ELSE Ends("changed") /\ UNCHANGED <<disk, event, read>>
    /\ EngineFrame /\ UNCHANGED <<expected, known, seen, owes, unsaid, count>>

Finish ==
    /\ Current /\ Checkpoint /\ Head(queue).at = "final"
    /\ IF Head(queue).kind = "inventory" THEN Became("done") ELSE Ends("ok")
    /\ IF Head(queue).kind = "sync" /\ read.disk # None
       THEN known' = read.disk /\ owes' = FALSE ELSE UNCHANGED <<known, owes>>
    /\ EngineFrame /\ UNCHANGED <<event, expected, disk, seen, unsaid, read, count>>

Work   == ScanSession \/ Inspect \/ Decide \/ Expect \/ Write \/ Finish
Engine == Start \/ Cancelled \/ Work

Session == Settle \/ NotQuiet \/ Try \/ Return \/ Retry \/ Succeed \/ Fail \/ End
           \/ Excluded

Next ==
    \/ Edit \/ Hear \/ Verify 
    \/ Pause \/ Protect \/ Stop \/ Hold \/ \E g \in {"paused", "blocked", "hold"} : Open(g)
    \/ DebounceFires \/ TimerFires \/ Exclude \/ CheckInventory
    \/ Quiet \/ Inventoried \/ Session \/ Engine

\* Promises settle, timers fire and events are delivered. The inventory check
\* comes round every two seconds and takes milliseconds, a session comes every
\* fifteen seconds at most: a check cannot be put off by sessions for ever, nor can
\* a verification, due a tenth of a second after each.
Fairness ==
    /\ WF_vars(Hear) /\ SF_vars(Verify)
    /\ WF_vars(Quiet) /\ WF_vars(Inventoried)
    /\ WF_vars(DebounceFires) /\ WF_vars(TimerFires)
    /\ WF_vars(Session) /\ WF_vars(Engine)
    /\ SF_vars(CheckInventory) /\ SF_vars(Inspect)
    /\ SF_vars(Start /\ Head(queue).kind = "inventory" /\ Head(queue).fresh)

Spec == Init /\ [][Next]_vars /\ Fairness

-----------------------------------------------------------------------------
(* Properties                                                               *)

\* Whatever is paused, resumed, blocked and started again meanwhile, an operation
\* asked for before a cancellation does no step of its work after it.
CancelledStaysCancelled == [][Work => Head(queue).asked]_vars

\* Every change of the file is reconciled, also one whose event fell together
\* with an expected write or a session, as long as the device works at all and
\* its interval is on.
EditReachesSync == []<>(Held \/ disk = known \/ unsaid)
=============================================================================
