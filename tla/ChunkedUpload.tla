---------------------------- MODULE ChunkedUpload ----------------------------
(***************************************************************************)
(* One chunked upload (src/src/api/storage/chunked_upload.py): requests    *)
(* that write a chunk, finalize or cancel interleave at every await, and   *)
(* share the session dictionary, the chunk files and the target file.      *)
(*                                                                         *)
(* The cache is the default backend, "memory": get hands out the one       *)
(* dictionary of the session, and get, set and delete do not suspend.      *)
(* Only the worker that was asked to initiate holds the session; the files *)
(* are shared.  Removing a tree is taken to be atomic.                     *)
(***************************************************************************)
EXTENDS Naturals, Sequences

CONSTANTS Total,     \* session["total_chunks"]
          Sent,      \* bound: the chunk indices that clients send, in range or not
          MaxTries,  \* bound: how often a chunk is sent
          Slots,     \* bound: how many requests are in flight at once
          Checksum,  \* whether the session has a checksum_sha256
          Corrupts,  \* bound: whether a chunk may arrive with bytes that fail its hash
          Crashes    \* bound: whether the worker may crash

ASSUME ChunkedUploadAssumption ==
    /\ Total \in Nat
    /\ Sent \subseteq Nat
    /\ 0..Total - 1 \subseteq Sent
    /\ MaxTries \in Nat
    /\ Checksum \in BOOLEAN
    /\ Corrupts \in BOOLEAN
    /\ Crashes \in BOOLEAN

VARIABLES begun,     \* whether initiate has run
          cached,    \* whether the cache holds the session
          uploaded,  \* session["uploaded_chunks"]; the dictionary outlives its cache entry
          dir,       \* whether the temporary directory exists
          chunk,     \* the chunk files
          target,    \* the target file, which may exist before the upload
          task,      \* the requests in flight
          tries,     \* history: how often each chunk was sent
          settled    \* history: a finalize succeeded with no other request in flight

vars == <<begun, cached, uploaded, dir, chunk, target, task, tries, settled>>

\* A file that is truncated, partly written or mixed up is damaged.
Contents == {"absent", "damaged", "good"}

\* linked: the path still names the file that the request has open; holed: another has
\* truncated that file since.
Write == [kind : {"write"}, pc : {"open", "write", "conclude"}, index : Sent, intact : BOOLEAN,
          linked : BOOLEAN, holed : BOOLEAN]

\* good: all it has read; sole (history): no other finalize ran at the same time.
Finalize == [kind : {"finalize"}, pc : {"open", "check", "read", "close", "answer"},
             next : 0..Total, good : BOOLEAN, linked : BOOLEAN, holed : BOOLEAN,
             sole : BOOLEAN]

Free == [kind |-> "free"]

TypeOK ==
    /\ begun \in BOOLEAN
    /\ cached \in BOOLEAN
    /\ uploaded \in Seq(Sent)
    /\ dir \in BOOLEAN
    /\ chunk \in [Sent -> Contents]
    /\ target \in {"old", "absent", "damaged", "good"}
    /\ task \in [Slots -> Write \cup Finalize \cup {Free}]
    /\ tries \in [Sent -> 0..MaxTries]
    /\ settled \in BOOLEAN

Init ==
    /\ begun = FALSE
    /\ cached = FALSE
    /\ uploaded = <<>>
    /\ dir = FALSE
    /\ chunk = [i \in Sent |-> "absent"]
    /\ target \in {"old", "absent"}
    /\ task = [t \in Slots |-> Free]
    /\ tries = [i \in Sent |-> 0]
    /\ settled = FALSE

IsWrite(t)    == task[t].kind = "write"
IsFinalize(t) == task[t].kind = "finalize"
At(t, pc)     == task[t].kind # "free" /\ task[t].pc = pc

\* The tasks once the chunk files in I are unlinked.
Unlink(I) ==
    [t \in Slots |-> IF IsWrite(t) /\ task[t].index \in I
                     THEN [task[t] EXCEPT !.linked = FALSE] ELSE task[t]]

\* The tasks once the target file is unlinked.
UnlinkTarget(tasks) ==
    [t \in Slots |-> IF tasks[t].kind = "finalize"
                     THEN [tasks[t] EXCEPT !.linked = FALSE] ELSE tasks[t]]

NoChunks == [i \in Sent |-> "absent"]

-----------------------------------------------------------------------------

Initiate ==
    /\ ~begun
    /\ begun' = TRUE
    /\ cached' = TRUE
    /\ dir' = TRUE
    /\ UNCHANGED <<uploaded, chunk, target, task, tries, settled>>

\* The time to live of the cache, or its eviction.
Expire ==
    /\ cached
    /\ cached' = FALSE
    /\ UNCHANGED <<begun, uploaded, dir, chunk, target, task, tries, settled>>

-----------------------------------------------------------------------------
(* write_chunk_stream.                                                     *)

\* The session is there; what follows is a read from the spooled form.
SendChunk(t, i, intact) ==
    /\ task[t] = Free
    /\ cached
    /\ tries[i] < MaxTries
    /\ intact \/ Corrupts
    /\ task' = [task EXCEPT ![t] = [kind |-> "write", pc |-> "open", index |-> i,
                                    intact |-> intact, linked |-> FALSE,
                                    holed |-> FALSE]]
    /\ tries' = [tries EXCEPT ![i] = @ + 1]
    /\ UNCHANGED <<begun, cached, uploaded, dir, chunk, target, settled>>

\* s has the chunk file that t is about to write open.
Shares(s, t) ==
    /\ IsWrite(s) /\ At(s, "write")
    /\ task[s].index = task[t].index
    /\ task[s].linked

\* open(temp_path, "wb") truncates the file, or fails if the directory is gone.
OpenChunk(t) ==
    /\ IsWrite(t) /\ At(t, "open")
    /\ \/ /\ dir
          /\ chunk' = [chunk EXCEPT ![task[t].index] = "damaged"]
          /\ task' = [s \in Slots |->
               IF s = t THEN [task[t] EXCEPT !.pc = "write", !.linked = TRUE]
               ELSE IF Shares(s, t) THEN [task[s] EXCEPT !.holed = TRUE] ELSE task[s]]
       \/ /\ ~dir
          /\ task' = [task EXCEPT ![t] = Free]
          /\ UNCHANGED chunk
    /\ UNCHANGED <<begun, cached, uploaded, dir, target, tries, settled>>

\* The bytes are written and the file is closed.  While another request writes the same
\* file the two mix, and what another truncated is what that one has written.
WriteChunk(t) ==
    /\ IsWrite(t) /\ At(t, "write")
    /\ task' = [task EXCEPT ![t].pc = "conclude"]
    /\ \/ /\ task[t].linked
          /\ \E c \in {IF task[t].intact THEN "good" ELSE "damaged"}
                \cup (IF task[t].holed THEN {chunk[task[t].index]} ELSE {})
                \cup (IF \E s \in Slots \ {t} : Shares(s, t) THEN {"damaged"} ELSE {}) :
                chunk' = [chunk EXCEPT ![task[t].index] = c]
       \/ /\ ~task[t].linked
          /\ UNCHANGED chunk
    /\ UNCHANGED <<begun, cached, uploaded, dir, target, tries, settled>>

\* Mutant: a corrupted chunk is left in place and counted.
Conclude_unchecked(t) ==
    /\ IsWrite(t) /\ At(t, "conclude")
    /\ task' = [task EXCEPT ![t] = Free]
    /\ uploaded' = Append(uploaded, task[t].index)
    /\ cached' = TRUE
    /\ UNCHANGED <<begun, dir, chunk, target, tries, settled>>

\* The hash of what was received is compared; only then is the chunk counted and the
\* session set, whether or not the cache still holds it.
Conclude(t) ==
    /\ IsWrite(t) /\ At(t, "conclude")
    /\ \/ /\ task[t].intact
          /\ uploaded' = Append(uploaded, task[t].index)
          /\ cached' = TRUE
          /\ task' = [task EXCEPT ![t] = Free]
          /\ UNCHANGED chunk
       \/ /\ ~task[t].intact
          /\ chunk' = [chunk EXCEPT ![task[t].index] = "absent"]
          /\ task' = [Unlink({task[t].index}) EXCEPT ![t] = Free]
          /\ UNCHANGED <<uploaded, cached>>
    /\ UNCHANGED <<begun, dir, target, tries, settled>>

-----------------------------------------------------------------------------
(* finalize.                                                               *)

\* The session is there and counts enough chunks.
BeginFinalize(t) ==
    /\ task[t] = Free
    /\ cached
    /\ Len(uploaded) >= Total
    /\ LET others == {s \in Slots : IsFinalize(s)}
       IN  task' = [s \in Slots |->
             IF s = t THEN [kind |-> "finalize", pc |-> "open", next |-> 0, good |-> TRUE,
                            linked |-> FALSE, holed |-> FALSE, sole |-> others = {}]
             ELSE IF s \in others THEN [task[s] EXCEPT !.sole = FALSE] ELSE task[s]]
    /\ UNCHANGED <<begun, cached, uploaded, dir, chunk, target, tries, settled>>

\* _reassemble_chunks: open(target_path, "wb") creates or truncates the target.
OpenTarget(t) ==
    /\ IsFinalize(t) /\ At(t, "open")
    /\ target' = "damaged"
    /\ task' = [s \in Slots |->
         IF s = t THEN [task[t] EXCEPT !.pc = IF Total = 0 THEN "close" ELSE "check",
                                       !.linked = TRUE]
         ELSE IF IsFinalize(s) /\ task[s].linked THEN [task[s] EXCEPT !.holed = TRUE]
         ELSE task[s]]
    /\ UNCHANGED <<begun, cached, uploaded, dir, chunk, tries, settled>>

\* os.path.exists(chunk_path); a missing chunk ends the request in
\* _cleanup_failed_reassembly, which leaves the session.
CheckChunk(t) ==
    /\ IsFinalize(t) /\ At(t, "check")
    /\ \/ /\ chunk[task[t].next] # "absent"
          /\ task' = [task EXCEPT ![t].pc = "read"]
          /\ UNCHANGED <<dir, chunk, target>>
       \/ /\ chunk[task[t].next] = "absent"
          /\ dir' = FALSE
          /\ chunk' = NoChunks
          /\ target' = "absent"
          /\ task' = [UnlinkTarget(Unlink(Sent)) EXCEPT ![t] = Free]
    /\ UNCHANGED <<begun, cached, uploaded, tries, settled>>

\* _stream_chunk_to_file; open fails if the chunk was removed after the check, and
\* nothing catches that.
ReadChunk(t) ==
    /\ IsFinalize(t) /\ At(t, "read")
    /\ \/ /\ chunk[task[t].next] # "absent"
          /\ task' = [task EXCEPT ![t].pc = IF task[t].next + 1 = Total THEN "close" ELSE "check",
                                  ![t].next = task[t].next + 1,
                                  ![t].good = task[t].good /\ chunk[task[t].next] = "good"]
       \/ /\ chunk[task[t].next] = "absent"
          /\ task' = [task EXCEPT ![t] = Free]
    /\ UNCHANGED <<begun, cached, uploaded, dir, chunk, target, tries, settled>>

\* The target is flushed and closed.  Where another request truncated it meanwhile, the
\* bytes written before are only there if the other has written them again.
CloseTarget(t) ==
    /\ IsFinalize(t) /\ At(t, "close")
    /\ task' = [task EXCEPT ![t].pc = "answer"]
    /\ \/ /\ task[t].linked
          /\ target' = IF task[t].good /\ (task[t].holed => target = "good")
                       THEN "good" ELSE "damaged"
       \/ /\ ~task[t].linked
          /\ UNCHANGED target
    /\ UNCHANGED <<begun, cached, uploaded, dir, chunk, tries, settled>>

\* _verify_final_hash: SHA-256 tells any damage.
Verified(t) == Checksum => task[t].good

\* No request but t is in flight, and no other finalize has been since t began.
Alone(t) == task[t].sole /\ \A s \in Slots \ {t} : task[s] = Free

\* Mutant: the session is deleted only if the hash is right, after the answer.
Answer_keeps_session(t) ==
    /\ IsFinalize(t) /\ At(t, "answer")
    /\ dir' = FALSE
    /\ chunk' = NoChunks
    /\ \/ /\ Verified(t)
          /\ task' = [Unlink(Sent) EXCEPT ![t] = Free]
          /\ settled' = (settled \/ Alone(t))
          /\ UNCHANGED target
       \/ /\ ~Verified(t)
          /\ target' = "absent"
          /\ task' = [UnlinkTarget(Unlink(Sent)) EXCEPT ![t] = Free]
          /\ UNCHANGED settled
    /\ UNCHANGED <<begun, cached, uploaded, tries>>

\* The directory and the session are removed, then the hash of what was read is verified:
\* success, or the target is removed.
Answer(t) ==
    /\ IsFinalize(t) /\ At(t, "answer")
    /\ dir' = FALSE
    /\ chunk' = NoChunks
    /\ cached' = FALSE
    /\ \/ /\ Verified(t)
          /\ task' = [Unlink(Sent) EXCEPT ![t] = Free]
          /\ settled' = (settled \/ Alone(t))
          /\ UNCHANGED target
       \/ /\ ~Verified(t)
          /\ target' = "absent"
          /\ task' = [UnlinkTarget(Unlink(Sent)) EXCEPT ![t] = Free]
          /\ UNCHANGED settled
    /\ UNCHANGED <<begun, uploaded, tries>>

-----------------------------------------------------------------------------

\* cancel, at the worker that holds the session or at another one.
Cancel ==
    /\ begun
    /\ dir' = FALSE
    /\ chunk' = NoChunks
    /\ task' = Unlink(Sent)
    /\ cached' = FALSE \/ UNCHANGED cached
    /\ UNCHANGED <<begun, uploaded, target, tries, settled>>

\* The worker crashes: the requests and the cache are gone, the files stay as they are.
Crash ==
    /\ Crashes
    /\ begun
    /\ cached' = FALSE
    /\ uploaded' = <<>>
    /\ task' = [t \in Slots |-> Free]
    /\ UNCHANGED <<begun, dir, chunk, target, tries, settled>>

Request(t) ==
    \/ \E i \in Sent, intact \in BOOLEAN : SendChunk(t, i, intact)
    \/ BeginFinalize(t)

Resume(t) ==
    \/ OpenChunk(t) \/ WriteChunk(t) \/ Conclude(t)
    \/ OpenTarget(t) \/ CheckChunk(t) \/ ReadChunk(t) \/ CloseTarget(t) \/ Answer(t)

Next ==
    \/ Initiate \/ Expire \/ Cancel \/ Crash
    \/ \E t \in Slots : Request(t) \/ Resume(t)

Spec == Init /\ [][Next]_vars

-----------------------------------------------------------------------------
(* Properties.                                                             *)

\* A file that finalize has answered for, with no other request of the upload in flight,
\* stays: no session that is set again, no retry and no cancel touches it any more.
AnsweredFileStays == settled => target = "good"

\* A chunk that was counted after being sent once is on disk as it was sent, until the
\* directory is removed: what finalize counts is what it will read.
CountedIsStored ==
    \A k \in 1..Len(uploaded) :
        dir /\ tries[uploaded[k]] = 1 => chunk[uploaded[k]] = "good"

-----------------------------------------------------------------------------
(* Why they hold.                                                          *)

\* A finalize has a chunk to check or to read while it is in the loop.
InLoop ==
    \A t \in Slots : IsFinalize(t) =>
        /\ At(t, "open") => task[t].next = 0
        /\ At(t, "check") \/ At(t, "read") => task[t].next < Total

\* Nothing happens to an upload that has not begun.
NothingBefore ==
    ~begun => ~cached /\ ~settled /\ \A t \in Slots : task[t] = Free

\* A finalize that has run alone has its target to itself.
SoleStates ==
    \A t \in Slots : IsFinalize(t) /\ task[t].sole =>
        /\ \A s \in Slots \ {t} : ~IsFinalize(s)
        /\ ~task[t].holed
        /\ At(t, "check") \/ At(t, "read") \/ At(t, "close") => task[t].linked
        /\ At(t, "answer") /\ task[t].good => target = "good"

\* After it has answered there is neither a session nor a request to start from.
SettledStates ==
    settled => target = "good" /\ ~cached /\ \A t \in Slots : task[t] = Free

\* The inductive invariant of AnsweredFileStays.
Inv == TypeOK /\ InLoop /\ NothingBefore /\ SoleStates /\ SettledStates

Writes(t, i) == IsWrite(t) /\ task[t].index = i

Counted(i) == \E k \in 1..Len(uploaded) : uploaded[k] = i

\* A chunk that was sent once has one request that writes it, until it is counted.
OneAttempt ==
    \A i \in Sent : tries[i] <= 1 =>
        /\ tries[i] = 0 => ~Counted(i) /\ \A t \in Slots : ~Writes(t, i)
        /\ Counted(i) => \A t \in Slots : ~Writes(t, i)
        /\ \A s, t \in Slots : Writes(s, i) /\ Writes(t, i) => s = t

\* Its file is what that request has made of it, as long as the directory is there.
Stored ==
    /\ ~begun => uploaded = <<>>
    /\ dir => \A i \in Sent : tries[i] <= 1 =>
         /\ Counted(i) => chunk[i] = "good"
         /\ \A t \in Slots : Writes(t, i) =>
              /\ At(t, "write") => task[t].linked
              /\ At(t, "open") \/ At(t, "write") => ~task[t].holed
              /\ At(t, "conclude") /\ task[t].intact => chunk[i] = "good"

\* The inductive invariant of CountedIsStored.
StoredInv == TypeOK /\ InLoop /\ NothingBefore /\ OneAttempt /\ Stored
=============================================================================
