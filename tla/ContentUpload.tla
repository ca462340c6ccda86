---------------------------- MODULE ContentUpload ----------------------------
(***************************************************************************)
(* The resumable upload of one large file: the server's session            *)
(* (content-upload.ts) and the device that drives it                       *)
(* (plugin/src/outbound-stream.ts).                                        *)
(*                                                                         *)
(* A session is named by the hash and size the device declares.  Each      *)
(* chunk is written to a private staging file, synced, and then recorded   *)
(* with its hash; a restarted server hashes what is recorded again before  *)
(* it trusts it.  One background job verifies the whole, stores the        *)
(* encrypted object and registers it.  Requests and the job hold a lease   *)
(* of 30 s that is renewed while the process is awake and named after the  *)
(* process, not after the request.                                         *)
(*                                                                         *)
(* Abstractions.  A chunk has the declared content (TRUE) or that of an    *)
(* edit made while the device reads (FALSE); Torn bytes match no hash.  A  *)
(* lease whose time is over is as good as none.  Sessions share nothing    *)
(* but quotas and the single job; quotas and expiry are left out.          *)
(***************************************************************************)
EXTENDS Naturals, Sequences

CONSTANTS Requests,    \* requests the server can have in progress
          Finalizer,   \* the background completion job
          Chunks,      \* number of chunks of the file
          MaxEdits,    \* bound: edits of the file on the device
          MaxFaults,   \* bound: requests given up, restarts, damage
          MaxStalls,   \* bound: times a lease of this process runs out
          Torn, None

Values == {TRUE, FALSE, Torn}

ASSUME ChunksAssumption == Chunks \in Nat \ {0}
ASSUME NoneAssumption   == None \notin Values \cup Seq(Values)
ASSUME JobAssumption    == Finalizer \notin Requests

VARIABLES
    row,       \* content_uploads: [offset, complete]
    receipts,  \* content_upload_chunks: the content recorded for each chunk
    lease,     \* "free", "ours", or "past": held by a process that died
    staged,    \* the staging file, None when there is none
    sealed,    \* the encrypted copy the job has made
    object,    \* the content of the object in storage
    blob,      \* the hash is registered in table blobs
    verified,  \* the receipts were checked by this process
    calls,     \* requests and the job in progress
    failure,   \* failures: the job ended with an error nobody has read
    known,     \* the device holds the id of the job in progress
    source,    \* the file on the device, chunk by chunk
    client,    \* the device: [pc, next, changed]
    edits, faults, stalls,
    damaged    \* history: the staging file was damaged from outside

session == <<row, receipts, lease, staged>>
stored  == <<sealed, object, blob>>
memory  == <<verified, calls, failure, known>>
device  == <<source, client>>
bounds  == <<edits, faults, stalls, damaged>>
vars    == <<row, receipts, lease, staged, sealed, object, blob, verified, calls, failure,
             known, source, client, edits, faults, stalls, damaged>>

Index    == 1..Chunks
Original == [i \in Index |-> TRUE]
Workers  == Requests \cup {Finalizer}
Bytes    == IF staged = None THEN <<>> ELSE staged
NoCall   == [pc |-> "idle", kind |-> "begin", index |-> 1, val |-> TRUE,
             size |-> 0, offset |-> 0, complete |-> FALSE, live |-> FALSE]
Idle     == [pc |-> "idle", next |-> 1, changed |-> FALSE]

Init ==
    /\ row = [offset |-> 0, complete |-> FALSE]
    /\ receipts = [i \in Index |-> None]
    /\ lease = "free" /\ staged = None
    /\ sealed = None /\ object = None /\ blob = FALSE
    /\ verified = FALSE /\ failure = FALSE /\ known = FALSE
    /\ calls = [w \in Workers |-> NoCall]
    /\ source = Original /\ client = Idle
    /\ edits = 0 /\ faults = 0 /\ stalls = 0 /\ damaged = FALSE

At(w, pc)   == calls[w].pc = pc
Go(w, pc)   == calls' = [calls EXCEPT ![w].pc = pc]
Running     == ~At(Finalizer, "idle")
Free(w)     == w \in Requests /\ At(w, "idle")

-----------------------------------------------------------------------------
(* The lease, and how a request or the job ends *)

Released == IF lease = "ours" THEN "free" ELSE lease

\* The reply reaches the device if it still waits for it.
Reply(w, state) == client' = IF calls[w].live THEN state ELSE client

End(w) ==
    /\ calls' = [calls EXCEPT ![w] = NoCall]
    /\ lease' = Released
    /\ known' = (known /\ w # Finalizer)

\* An error of a request ends the device's attempt; one of the job is kept for
\* the next poll unless the job was cancelled (its live flag is taken away).
Abort(w) ==
    /\ End(w)
    /\ IF w = Finalizer
       THEN failure' = calls[w].live /\ UNCHANGED client
       ELSE Reply(w, Idle) /\ UNCHANGED failure

Cancelled(w) == w = Finalizer /\ ~calls[w].live

-----------------------------------------------------------------------------
(* recover: what every request and the job does first *)

\* exclusive takes a lease that is free and then reads the row.
Acquired(w, call) ==
    /\ lease' = "ours"
    /\ calls' = [calls EXCEPT ![w] = [call EXCEPT !.pc = "stat", !.offset = row.offset,
                                                  !.complete = row.complete]]

\* A session that is complete is left alone; the file is created if missing.
Stat(w) ==
    /\ At(w, "stat")
    /\ IF calls[w].complete
       THEN Go(w, "act") /\ UNCHANGED staged
       ELSE /\ staged' = Bytes
            /\ calls' = [calls EXCEPT ![w].size = Len(Bytes),
                   ![w].pc = IF ~verified \/ Len(Bytes) < calls[w].offset
                             THEN "read" ELSE "trim"]
    /\ UNCHANGED <<row, receipts, lease, stored, verified, failure, known, device,
                   bounds>>

\* The chunks whose receipt and bytes agree, up to the first that do not.
Proven(size) ==
    LET proven(n) == \A i \in 1..n : receipts[i] # None /\ i <= size
                                       /\ i <= Len(Bytes) /\ Bytes[i] = receipts[i]
    IN  CHOOSE n \in 0..Chunks : proven(n) /\ \A m \in 0..Chunks : proven(m) => m <= n

Read(w) ==
    /\ At(w, "read")
    /\ calls' = [calls EXCEPT ![w].offset = Proven(calls[w].size), ![w].pc = "record"]
    /\ UNCHANGED <<session, stored, verified, failure, known, device, bounds>>

\* The session goes back to what was proven.
RecordProven(w) ==
    /\ receipts' = [i \in Index |-> IF i <= calls[w].offset THEN receipts[i] ELSE None]
    /\ row' = [offset |-> calls[w].offset, complete |-> FALSE]
    /\ verified' = TRUE

Record(w) ==
    /\ At(w, "record")
    /\ IF lease = "ours"
       THEN /\ RecordProven(w) /\ Go(w, "trim")
            /\ UNCHANGED <<lease, failure, known, client>>
       ELSE Abort(w) /\ UNCHANGED <<row, receipts, verified>>
    /\ UNCHANGED <<staged, stored, source, bounds>>

\* The file at its new length; the gap before a write holds no content.
Resized(n) == [i \in 1..n |-> IF i <= Len(Bytes) THEN Bytes[i] ELSE Torn]

\* Bytes nobody acknowledged are cut off.
Trim(w) ==
    /\ At(w, "trim") /\ Go(w, "act")
    /\ staged' = IF staged # None /\ calls[w].size # calls[w].offset
                 THEN Resized(calls[w].offset) ELSE staged
    /\ UNCHANGED <<row, receipts, lease, stored, verified, failure, known, device,
                   bounds>>

-----------------------------------------------------------------------------
(* POST /v1/content-uploads and PUT .../chunks/:index *)

\* The next chunk the device has to send.
Resume(state) == IF state.complete THEN Chunks + 1 ELSE state.offset + 1

\* Mutant: requests of the same process share their lease.
LeaseTakenByOther == lease = "past"

\* The lease is not reentrant.
LeaseTaken == lease # "free"

\* A request reaches the handler: begin answers at once while the job runs, and
\* whoever finds the lease taken is refused.
Arrive(w) ==
    /\ At(w, "sent")
    /\ \/ /\ calls[w].kind = "begin" /\ Running
          /\ calls' = [calls EXCEPT ![w] = NoCall]
          /\ Reply(w, [client EXCEPT !.pc = "send",
                           !.next = Resume(row)])
          /\ known' = (known \/ calls[w].live) /\ UNCHANGED lease
       \/ /\ ~(calls[w].kind = "begin" /\ Running) /\ LeaseTaken
          /\ calls' = [calls EXCEPT ![w] = NoCall]
          /\ Reply(w, Idle) /\ UNCHANGED <<lease, known>>
       \/ /\ ~(calls[w].kind = "begin" /\ Running) /\ ~LeaseTaken
          /\ Acquired(w, calls[w]) /\ UNCHANGED <<client, known>>
    /\ UNCHANGED <<row, receipts, staged, stored, verified, failure, source, bounds>>

AnswerBegin(w) ==
    /\ At(w, "act") /\ calls[w].kind = "begin"
    /\ End(w)
    /\ Reply(w, [client EXCEPT !.pc = "send",
                     !.next = Resume(calls[w])])
    /\ UNCHANGED <<row, receipts, staged, stored, verified, failure, source, bounds>>

Acknowledged(w) ==
    Reply(w, [client EXCEPT !.pc = "send", !.next = calls[w].index + 1])

\* A chunk that is acknowledged already is answered from its receipt; the next
\* one is written; anything else is refused.
Chunk(w) ==
    /\ At(w, "act") /\ calls[w].kind = "chunk"
    /\ \/ /\ calls[w].index <= calls[w].offset
          /\ receipts[calls[w].index] = calls[w].val
          /\ End(w) /\ Acknowledged(w) /\ UNCHANGED failure
       \/ /\ \/ calls[w].index <= calls[w].offset
                /\ receipts[calls[w].index] # calls[w].val
             \/ calls[w].index > calls[w].offset
                /\ (calls[w].complete \/ calls[w].index # calls[w].offset + 1)
          /\ Abort(w)
       \/ /\ calls[w].index = calls[w].offset + 1 /\ ~calls[w].complete
          /\ Go(w, "write") /\ UNCHANGED <<lease, known, client, failure>>
    /\ UNCHANGED <<row, receipts, staged, stored, verified, source, bounds>>

\* The bytes go to their place and are synced before the receipt is written.
Write(w) ==
    /\ At(w, "write")
    /\ IF staged = None
       THEN Abort(w) /\ UNCHANGED staged
       ELSE /\ LET i == calls[w].index
                   n == IF Len(staged) < i THEN i ELSE Len(staged)
               IN  staged' = [Resized(n) EXCEPT ![i] = calls[w].val]
            /\ Go(w, "receipt") /\ UNCHANGED <<lease, known, client, failure>>
    /\ UNCHANGED <<row, receipts, stored, verified, source, bounds>>

Receipt(w) ==
    /\ At(w, "receipt")
    /\ IF lease = "ours" /\ receipts[calls[w].index] = None
       THEN /\ receipts' = [receipts EXCEPT ![calls[w].index] = calls[w].val]
            /\ row' = [row EXCEPT !.offset = calls[w].index]
            /\ Go(w, "close") /\ UNCHANGED <<lease, known, client, failure>>
       ELSE Abort(w) /\ UNCHANGED <<row, receipts>>
    /\ UNCHANGED <<staged, stored, verified, source, bounds>>

Close(w) ==
    /\ At(w, "close")
    /\ End(w) /\ Acknowledged(w)
    /\ UNCHANGED <<row, receipts, staged, stored, verified, failure, source, bounds>>

-----------------------------------------------------------------------------
(* The completion job *)

Complete(w) ==
    /\ At(w, "act") /\ calls[w].kind = "complete"
    /\ IF calls[w].complete THEN End(w) /\ UNCHANGED <<client, failure>>
       ELSE IF calls[w].offset # Chunks \/ Cancelled(w) \/ lease # "ours"
       THEN Abort(w)
       ELSE Go(w, "encrypt") /\ UNCHANGED <<lease, known, client, failure>>
    /\ UNCHANGED <<row, receipts, staged, stored, verified, source, bounds>>

\* Mutant: only the number of bytes is compared.
LengthMatches == Len(Bytes) = Chunks

\* The bytes read are those declared; anything else makes the receipts suspect.
DigestMatches == Bytes = Original

\* Mutant: the receipts stay trusted.
StillTrusted == UNCHANGED verified

\* The next request checks the receipts against the disk again.
Suspect == verified' = FALSE

Encrypt(w) ==
    /\ At(w, "encrypt")
    /\ IF Cancelled(w) \/ lease # "ours" \/ ~DigestMatches
       THEN Suspect /\ Abort(w) /\ UNCHANGED sealed
       ELSE /\ sealed' = Bytes /\ Go(w, "put")
            /\ UNCHANGED <<lease, known, client, failure, verified>>
    /\ UNCHANGED <<row, receipts, staged, object, blob, source, bounds>>

\* The object is stored under its hash, again if an earlier reply was lost.
Put(w) ==
    /\ At(w, "put")
    /\ \/ /\ ~Cancelled(w) /\ lease = "ours"
          /\ object' = sealed /\ Go(w, "register")
          /\ UNCHANGED <<lease, known, client, failure, sealed>>
       \/ /\ Cancelled(w) \/ lease # "ours"
          /\ Abort(w) /\ sealed' = None /\ UNCHANGED object
    /\ UNCHANGED <<row, receipts, staged, blob, verified, source, bounds>>

\* Storage fails, with or without having kept the object.
PutFails(w) ==
    /\ At(w, "put") /\ faults < MaxFaults
    /\ faults' = faults + 1
    /\ Abort(w) /\ sealed' = None
    /\ object' \in {object, sealed}
    /\ UNCHANGED <<row, receipts, staged, blob, verified, source, edits, stalls, damaged>>

MayRegister(w) == ~Cancelled(w) /\ lease = "ours"

Register(w) ==
    /\ At(w, "register") /\ sealed' = None
    /\ IF MayRegister(w)
       THEN /\ blob' = TRUE /\ row' = [row EXCEPT !.complete = TRUE]
            /\ Go(w, "unlink") /\ UNCHANGED <<lease, known, client, failure>>
       ELSE Abort(w) /\ UNCHANGED <<blob, row>>
    /\ UNCHANGED <<receipts, staged, object, verified, source, bounds>>

\* The clear bytes are removed only now.
Unlink(w) ==
    /\ At(w, "unlink") /\ End(w)
    /\ staged' = None /\ verified' = FALSE
    /\ UNCHANGED <<row, receipts, stored, failure, source, client, bounds>>

\* POST .../complete: the answer of the session, of the job or of its failure;
\* with the whole file acknowledged and nobody at work the job starts.
Poll ==
    /\ client.pc = "poll"
    /\ CASE row.complete -> client' = [client EXCEPT !.pc = "finish"]
                            /\ UNCHANGED <<lease, calls, failure, known>>
         [] ~row.complete /\ Running -> known' = TRUE
                            /\ UNCHANGED <<lease, calls, failure, client>>
         [] ~row.complete /\ ~Running /\ failure ->
                            failure' = FALSE /\ client' = Idle
                            /\ UNCHANGED <<lease, calls, known>>
         [] ~row.complete /\ ~Running /\ ~failure /\ row.offset # Chunks ->
                            client' = Idle /\ UNCHANGED <<lease, calls, failure, known>>
         [] ~row.complete /\ ~Running /\ ~failure /\ row.offset = Chunks ->
                            /\ lease = "free" /\ known' = TRUE
                            /\ Acquired(Finalizer, [NoCall EXCEPT !.kind = "complete", !.live = TRUE])
                            /\ UNCHANGED <<failure, client>>
    /\ UNCHANGED <<row, receipts, staged, stored, verified, source, bounds>>

-----------------------------------------------------------------------------
(* The device *)

Ask(w, call) == calls' = [calls EXCEPT ![w] = [call EXCEPT !.pc = "sent", !.live = TRUE]]

\* A sync finds the file with the declared hash.
Begin(w) ==
    /\ client.pc = "idle" /\ source = Original /\ Free(w)
    /\ client' = [Idle EXCEPT !.pc = "begin"]
    /\ Ask(w, NoCall) /\ known' = FALSE
    /\ UNCHANGED <<session, stored, verified, failure, source, bounds>>

\* Each chunk is what the file holds when it is read.
Send(w) ==
    /\ client.pc = "send" /\ client.next \in Index /\ Free(w)
    /\ client' = [client EXCEPT !.pc = "chunk"]
    /\ Ask(w, [NoCall EXCEPT !.kind = "chunk", !.index = client.next,
                             !.val = source[client.next]])
    /\ UNCHANGED <<session, stored, verified, failure, known, source, bounds>>

\* The digest, size and times of what was read must be those of the start.
AllSent ==
    /\ client.pc = "send" /\ client.next > Chunks
    /\ client' = IF client.changed THEN Idle ELSE [client EXCEPT !.pc = "poll"]
    /\ UNCHANGED <<session, stored, memory, source, bounds>>

\* The content counts as uploaded if the file has not changed meanwhile.
Finish ==
    /\ client.pc = "finish"
    /\ client' = IF client.changed THEN Idle ELSE [client EXCEPT !.pc = "done"]
    /\ UNCHANGED <<session, stored, memory, source, bounds>>

\* The owner edits the file, or takes an edit back.
Edit(i) ==
    /\ edits < MaxEdits /\ client.pc # "done"
    /\ edits' = edits + 1
    /\ source' = [source EXCEPT ![i] = ~@]
    /\ client' = [client EXCEPT !.changed = client.pc # "idle"]
    /\ UNCHANGED <<session, stored, memory, faults, stalls, damaged>>

Unheard == [w \in Workers |-> IF w = Finalizer THEN calls[w]
                                               ELSE [calls[w] EXCEPT !.live = FALSE]]

\* The connection is lost, or the sync is stopped: then a job it knows of is
\* cancelled, and no other.
GiveUp ==
    /\ client.pc \notin {"idle", "done"} /\ faults < MaxFaults
    /\ faults' = faults + 1
    /\ client' = Idle
    /\ calls' \in {Unheard,
          IF known
          THEN [Unheard EXCEPT ![Finalizer].live = FALSE] ELSE Unheard}
    /\ UNCHANGED <<session, stored, verified, failure, known, source, edits, stalls,
                   damaged>>

-----------------------------------------------------------------------------
(* What may go wrong *)

\* The server restarts.  Bytes that were not synced may be gone.
Crash ==
    /\ faults < MaxFaults
    /\ faults' = faults + 1
    /\ calls' = [w \in Workers |-> NoCall]
    /\ lease' = IF lease = "ours" THEN "past" ELSE lease
    /\ verified' = FALSE /\ failure' = FALSE /\ known' = FALSE /\ sealed' = None
    /\ client' = IF client.pc \in {"begin", "chunk"} THEN Idle ELSE client
    /\ staged' \in {staged} \cup {SubSeq(Bytes, 1, n) : n \in row.offset..Len(Bytes)}
    /\ UNCHANGED <<row, receipts, object, blob, source, edits, stalls, damaged>>

\* Time runs out for the lease of a process that died.
Expire ==
    /\ lease = "past" /\ lease' = "free"
    /\ UNCHANGED <<row, receipts, staged, stored, memory, device, bounds>>

\* The process sleeps for longer than its lease, which is not renewed then.
Stall ==
    /\ lease = "ours" /\ lease' = "free"
    /\ stalls < MaxStalls /\ stalls' = stalls + 1
    /\ UNCHANGED <<row, receipts, staged, stored, memory, device, edits, faults, damaged>>

\* The staging file is damaged or cut.
Damage ==
    /\ faults < MaxFaults /\ Bytes # <<>>
    /\ faults' = faults + 1 /\ damaged' = TRUE
    /\ \E i \in DOMAIN Bytes :
          staged' \in {[Bytes EXCEPT ![i] = Torn], SubSeq(Bytes, 1, i - 1)}
    /\ UNCHANGED <<row, receipts, lease, stored, memory, device, edits, stalls>>

-----------------------------------------------------------------------------
Work(w) == \/ Arrive(w) \/ Stat(w) \/ Read(w) \/ Record(w) \/ Trim(w)
           \/ AnswerBegin(w) \/ Chunk(w) \/ Write(w) \/ Receipt(w) \/ Close(w)
           \/ Complete(w) \/ Encrypt(w) \/ Put(w) \/ Register(w) \/ Unlink(w)
Sync == \/ \E w \in Requests : Begin(w) \/ Send(w)
        \/ AllSent \/ Poll \/ Finish

Next == \/ \E w \in Workers : Work(w)
        \/ Sync
        \/ \E i \in Index : Edit(i)
        \/ PutFails(Finalizer) \/ GiveUp \/ Crash \/ Expire \/ Stall \/ Damage

\* Awaited steps settle, the device syncs again after an error, and time passes.
Fairness == /\ \A w \in Workers : WF_vars(Work(w))
            /\ WF_vars(Sync) /\ WF_vars(Expire)

Spec == Init /\ [][Next]_vars /\ Fairness

-----------------------------------------------------------------------------
StoredIsDeclared ==
    /\ blob => object = Original
    /\ client.pc = "done" => blob

CancelHolds == ~blob /\ blob' => calls[Finalizer].live

\* A device is told that its content is stored, and the hash is registered, only
\* when the object in storage has exactly that content, whatever was edited,
\* repeated, damaged or restarted on the way; and a completion that was cancelled
\* never registers its content later (ContentUploads.complete, cancel).
OnlyTheDeclaredIsStored == [][StoredIsDeclared' /\ CancelHolds]_vars

AcknowledgedIsStaged ==
    ~damaged /\ stalls = 0 /\ ~row.complete =>
        \A i \in 1..row.offset : i <= Len(Bytes) /\ receipts[i] = Bytes[i]

ProgressKept == row'.offset < row.offset => damaged \/ stalls > 0

\* As long as nobody damages the file and no lease runs out under a request, each
\* acknowledged chunk is on disk as its receipt says and is never taken back: a
\* restart or a retry that meets the request it repeats loses nothing
\* (ContentUploads.recover, chunk).
AcknowledgedStays == [][AcknowledgedIsStaged' /\ ProgressKept]_vars

\* A session whose acknowledged bytes are not those declared can never complete.
Poisoned == \E i \in Index : receipts[i] = FALSE

\* The upload gets there if the file is left as it was declared.
Uploaded == []<>(source # Original) \/ <>(blob \/ Poisoned \/ stalls > 0)
=============================================================================
