------------------------- MODULE ChunkedUploadProofs -------------------------
(***************************************************************************)
(* That the target a finalize has answered for stays, when nothing else    *)
(* of the upload was in flight, and that the chunks it counts are stored;  *)
(* for any number of chunks and requests.                                  *)
(***************************************************************************)
EXTENDS ChunkedUpload, TLAPS

\* What the kind of a request says of its record.
LEMMA TaskKinds ==
    ASSUME TypeOK, NEW t \in Slots
    PROVE  /\ IsWrite(t) => task[t] \in Write
           /\ IsFinalize(t) => task[t] \in Finalize
           /\ task[t] = Free \/ IsWrite(t) \/ IsFinalize(t)
           /\ task[t] = Free => ~IsWrite(t) /\ ~IsFinalize(t)
           /\ ~(IsWrite(t) /\ IsFinalize(t))
  BY DEF TypeOK, IsWrite, IsFinalize, Write, Finalize, Free

\* What Unlink and UnlinkTarget leave of a request.
LEMMA Unlinked ==
    ASSUME TypeOK, NEW I \in SUBSET Sent, NEW s \in Slots
    PROVE  /\ Unlink(I)[s] \in Write \cup Finalize \cup {Free}
           /\ IsFinalize(s) => Unlink(I)[s] = task[s]
           /\ Unlink(I)[s].kind = task[s].kind
           /\ UnlinkTarget(Unlink(I))[s] \in Write \cup Finalize \cup {Free}
           /\ IsFinalize(s) =>
                UnlinkTarget(Unlink(I))[s] = [task[s] EXCEPT !.linked = FALSE]
           /\ UnlinkTarget(Unlink(I))[s].kind = task[s].kind
<1>1. CASE IsWrite(s)
  <2>1. task[s] \in Write /\ ~IsFinalize(s)
    BY <1>1, TaskKinds
  <2>2. Unlink(I)[s] \in Write /\ Unlink(I)[s].kind = "write"
    BY <1>1, <2>1 DEF Unlink, Write, IsWrite
  <2>3. UnlinkTarget(Unlink(I))[s] = Unlink(I)[s]
    BY <2>2 DEF UnlinkTarget
  <2> QED BY <1>1, <2>1, <2>2, <2>3 DEF IsWrite
<1>2. CASE IsFinalize(s)
  <2>1. task[s] \in Finalize /\ ~IsWrite(s)
    BY <1>2, TaskKinds
  <2>2. Unlink(I)[s] = task[s]
    BY <2>1 DEF Unlink
  <2>3. UnlinkTarget(Unlink(I))[s] = [task[s] EXCEPT !.linked = FALSE]
    BY <1>2, <2>2 DEF UnlinkTarget, IsFinalize
  <2>4. [task[s] EXCEPT !.linked = FALSE] \in Finalize
    BY <2>1 DEF Finalize
  <2>5. [task[s] EXCEPT !.linked = FALSE].kind = task[s].kind
    BY <2>1 DEF Finalize
  <2> QED BY <2>1, <2>2, <2>3, <2>4, <2>5
<1>3. CASE task[s] = Free
  <2>1. Unlink(I)[s] = Free
    BY <1>3, TaskKinds DEF Unlink
  <2>2. UnlinkTarget(Unlink(I))[s] = Free
    BY <2>1 DEF UnlinkTarget, Free
  <2> QED BY <1>3, <2>1, <2>2, TaskKinds
<1> QED BY <1>1, <1>2, <1>3, TaskKinds

\* The tasks that a removed directory or target leaves are tasks.
LEMMA UnlinkTypes ==
    ASSUME TypeOK, NEW I \in SUBSET Sent
    PROVE  /\ Unlink(I) \in [Slots -> Write \cup Finalize \cup {Free}]
           /\ UnlinkTarget(Unlink(I)) \in [Slots -> Write \cup Finalize \cup {Free}]
  BY Unlinked DEF Unlink, UnlinkTarget

LEMMA InitType == Init => TypeOK /\ InLoop
<1> SUFFICES ASSUME Init PROVE TypeOK /\ InLoop
  OBVIOUS
<1>1. tries \in [Sent -> 0..MaxTries] /\ uploaded \in Seq(Sent)
  BY ChunkedUploadAssumption DEF Init
<1>2. TypeOK
  BY <1>1 DEF Init, TypeOK, Contents
<1>3. \A t \in Slots : ~IsFinalize(t)
  BY DEF Init, IsFinalize, Free
<1> QED BY <1>2, <1>3 DEF InLoop

LEMMA NoChunksType == NoChunks \in [Sent -> Contents]
  BY DEF NoChunks, Contents

-----------------------------------------------------------------------------
(* Every step keeps the types.                                             *)

\* The steps of a request that writes a chunk.
LEMMA WriteType ==
    ASSUME TypeOK, NEW t \in Slots, OpenChunk(t) \/ WriteChunk(t) \/ Conclude(t)
    PROVE  TypeOK'
<1>1. task[t] \in Write /\ task[t].index \in Sent /\ IsWrite(t)
  BY TaskKinds DEF OpenChunk, WriteChunk, Conclude, Write
<1>2. CASE OpenChunk(t)
  <2>1. ASSUME NEW s \in Slots, Shares(s, t)
        PROVE  [task[s] EXCEPT !.holed = TRUE] \in Write
    BY <2>1, TaskKinds DEF Shares, Write
  <2>2. [task[t] EXCEPT !.pc = "write", !.linked = TRUE] \in Write
    BY <1>1 DEF Write
  <2>3. task' \in [Slots -> Write \cup Finalize \cup {Free}]
    BY <1>2, <2>1, <2>2 DEF OpenChunk, TypeOK
  <2> QED BY <1>1, <1>2, <2>3 DEF OpenChunk, TypeOK, Contents
<1>3. CASE WriteChunk(t)
  <2>1. [task[t] EXCEPT !.pc = "conclude"] \in Write
    BY <1>1 DEF Write
  <2>2. task' \in [Slots -> Write \cup Finalize \cup {Free}]
    BY <1>3, <2>1 DEF WriteChunk, TypeOK
  <2>3. chunk' \in [Sent -> Contents]
    BY <1>1, <1>3 DEF WriteChunk, TypeOK, Contents
  <2> QED BY <1>3, <2>2, <2>3 DEF WriteChunk, TypeOK
<1>4. CASE Conclude(t)
  <2>1. Unlink({task[t].index}) \in [Slots -> Write \cup Finalize \cup {Free}]
    BY <1>1, UnlinkTypes
  <2>2. task' \in [Slots -> Write \cup Finalize \cup {Free}]
    <3> DEFINE U == Unlink({task[t].index})
    <3>1. task' = [task EXCEPT ![t] = Free] \/ task' = [U EXCEPT ![t] = Free]
      BY <1>4 DEF Conclude
    <3> HIDE DEF U
    <3>2. task' = [task EXCEPT ![t] = Free] \/ task' = [U EXCEPT ![t] = Free]
      BY <3>1
    <3>3. U \in [Slots -> Write \cup Finalize \cup {Free}]
      BY <2>1 DEF U
    <3> QED BY <3>2, <3>3 DEF TypeOK
  <2>3. uploaded' \in Seq(Sent) /\ chunk' \in [Sent -> Contents] /\ cached' \in BOOLEAN
    <3> DEFINE i == task[t].index
    <3>1. /\ uploaded' = Append(uploaded, i) \/ uploaded' = uploaded
          /\ chunk' = [chunk EXCEPT ![i] = "absent"] \/ chunk' = chunk
          /\ cached' = TRUE \/ cached' = cached
      BY <1>4 DEF Conclude
    <3>2. i \in Sent /\ uploaded \in Seq(Sent)
      BY <1>1 DEF TypeOK
    <3> HIDE DEF i
    <3>3. uploaded' \in Seq(Sent)
      BY <3>1, <3>2
    <3> QED BY <3>1, <3>3 DEF TypeOK, Contents
  <2> QED BY <1>4, <2>2, <2>3 DEF Conclude, TypeOK
<1> QED BY <1>2, <1>3, <1>4

\* The record of a finalize that begins.
LEMMA NewFinalize ==
    ASSUME NEW b \in BOOLEAN
    PROVE  [kind |-> "finalize", pc |-> "open", next |-> 0, good |-> TRUE,
            linked |-> FALSE, holed |-> FALSE, sole |-> b] \in Finalize
  BY ChunkedUploadAssumption DEF Finalize

\* The record of a finalize that reads its next chunk.
LEMMA NextChunk ==
    ASSUME NEW f \in Finalize, f.next < Total, NEW g \in BOOLEAN
    PROVE  /\ [f EXCEPT !.pc = "close", !.next = f.next + 1, !.good = g] \in Finalize
           /\ [f EXCEPT !.pc = "check", !.next = f.next + 1, !.good = g] \in Finalize
           /\ f.next + 1 \in 0..Total
<1>1. f.next + 1 \in 0..Total
  BY ChunkedUploadAssumption DEF Finalize
<1> DEFINE n == f.next + 1
<1> HIDE DEF n
<1>2. [f EXCEPT !.pc = "close", !.next = n, !.good = g] \in Finalize
  BY <1>1 DEF Finalize, n
<1>3. [f EXCEPT !.pc = "check", !.next = n, !.good = g] \in Finalize
  BY <1>1 DEF Finalize, n
<1> QED BY <1>1, <1>2, <1>3 DEF n

\* The steps of a finalize.
LEMMA FinalizeType ==
    ASSUME TypeOK, InLoop, NEW t \in Slots,
           OpenTarget(t) \/ CheckChunk(t) \/ ReadChunk(t) \/ CloseTarget(t) \/ Answer(t)
    PROVE  TypeOK'
<1> DEFINE Tasks == [Slots -> Write \cup Finalize \cup {Free}]
<1>1. task[t] \in Finalize /\ IsFinalize(t)
  BY TaskKinds DEF OpenTarget, CheckChunk, ReadChunk, CloseTarget, Answer
<1>2. Unlink(Sent) \in Tasks /\ UnlinkTarget(Unlink(Sent)) \in Tasks
  BY UnlinkTypes
<1>3. CASE OpenTarget(t)
  <2>1. ASSUME NEW s \in Slots, IsFinalize(s)
        PROVE  [task[s] EXCEPT !.holed = TRUE] \in Finalize
    BY <2>1, TaskKinds DEF Finalize
  <2>2. /\ [task[t] EXCEPT !.pc = "close", !.linked = TRUE] \in Finalize
        /\ [task[t] EXCEPT !.pc = "check", !.linked = TRUE] \in Finalize
    BY <1>1 DEF Finalize
  <2>3. task' \in Tasks
    BY <1>3, <2>1, <2>2 DEF OpenTarget, TypeOK
  <2> QED BY <1>3, <2>3 DEF OpenTarget, TypeOK
<1>4. CASE CheckChunk(t)
  <2>1. [task[t] EXCEPT !.pc = "read"] \in Finalize
    BY <1>1 DEF Finalize
  <2> DEFINE U == UnlinkTarget(Unlink(Sent))
  <2>2. task' = [task EXCEPT ![t].pc = "read"] \/ task' = [U EXCEPT ![t] = Free]
    BY <1>4 DEF CheckChunk
  <2>3. U \in Tasks
    BY <1>2
  <2> HIDE DEF U
  <2>4. task' \in Tasks
    BY <2>1, <2>2, <2>3 DEF TypeOK
  <2>5. chunk' \in [Sent -> Contents]
    BY <1>4, NoChunksType DEF CheckChunk, TypeOK
  <2> QED BY <1>4, <2>4, <2>5 DEF CheckChunk, TypeOK
<1>5. CASE ReadChunk(t)
  <2>1. task[t].next < Total
    BY <1>5 DEF InLoop, ReadChunk
  <2> DEFINE g == task[t].good /\ chunk[task[t].next] = "good"
             pc == IF task[t].next + 1 = Total THEN "close" ELSE "check"
             f == [task[t] EXCEPT !.pc = pc, !.next = task[t].next + 1, !.good = g]
  <2>2. f \in Finalize
    <3>1. g \in BOOLEAN
      BY <1>1 DEF Finalize
    <3> HIDE DEF g
    <3> QED BY <1>1, <2>1, <3>1, NextChunk
  <2>3. task' = [task EXCEPT ![t] = f] \/ task' = [task EXCEPT ![t] = Free]
    BY <1>5 DEF ReadChunk, TypeOK
  <2> HIDE DEF f
  <2>4. task' \in Tasks
    BY <2>2, <2>3 DEF TypeOK
  <2> QED BY <1>5, <2>4 DEF ReadChunk, TypeOK
<1>6. CASE CloseTarget(t)
  <2>1. [task[t] EXCEPT !.pc = "answer"] \in Finalize
    BY <1>1 DEF Finalize
  <2>2. task' \in Tasks
    BY <1>6, <2>1 DEF CloseTarget, TypeOK
  <2> QED BY <1>6, <2>2 DEF CloseTarget, TypeOK
<1>7. CASE Answer(t)
  <2> DEFINE U == UnlinkTarget(Unlink(Sent))
             V == Unlink(Sent)
  <2>1. task' = [V EXCEPT ![t] = Free] \/ task' = [U EXCEPT ![t] = Free]
    BY <1>7 DEF Answer
  <2>2. U \in Tasks /\ V \in Tasks
    BY <1>2
  <2> HIDE DEF U, V
  <2>3. task' \in Tasks
    BY <2>1, <2>2
  <2>4. settled' \in BOOLEAN
    BY <1>7 DEF Answer, TypeOK, Alone
  <2> QED BY <1>7, <2>3, <2>4, NoChunksType DEF Answer, TypeOK
<1> QED BY <1>3, <1>4, <1>5, <1>6, <1>7

LEMMA NextType == TypeOK /\ InLoop /\ [Next]_vars => TypeOK'
<1> SUFFICES ASSUME TypeOK, InLoop, [Next]_vars PROVE TypeOK'
  OBVIOUS
<1>1. CASE Initiate \/ Expire
  BY <1>1 DEF Initiate, Expire, TypeOK
<1>2. CASE Cancel
  <2>1. task' \in [Slots -> Write \cup Finalize \cup {Free}]
    BY <1>2, UnlinkTypes DEF Cancel
  <2> QED BY <1>2, <2>1, NoChunksType DEF Cancel, TypeOK
<1>3. CASE Crash
  <2>1. <<>> \in Seq(Sent)
    OBVIOUS
  <2> QED BY <1>3, <2>1 DEF Crash, TypeOK
<1>4. ASSUME NEW t \in Slots, NEW i \in Sent, NEW intact \in BOOLEAN, SendChunk(t, i, intact)
      PROVE  TypeOK'
  <2>1. [kind |-> "write", pc |-> "open", index |-> i, intact |-> intact,
         linked |-> FALSE, holed |-> FALSE] \in Write
    BY DEF Write
  <2>2. tries' \in [Sent -> 0..MaxTries]
    BY <1>4, ChunkedUploadAssumption DEF SendChunk, TypeOK
  <2> QED BY <1>4, <2>1, <2>2 DEF SendChunk, TypeOK
<1>5. ASSUME NEW t \in Slots, BeginFinalize(t) PROVE TypeOK'
  <2>1. ASSUME NEW s \in Slots, IsFinalize(s)
        PROVE  [task[s] EXCEPT !.sole = FALSE] \in Finalize
    BY <2>1, TaskKinds DEF Finalize
  <2>2. task' \in [Slots -> Write \cup Finalize \cup {Free}]
    BY <1>5, <2>1, NewFinalize DEF BeginFinalize, TypeOK
  <2> QED BY <1>5, <2>2 DEF BeginFinalize, TypeOK
<1>6. ASSUME NEW t \in Slots, Resume(t) PROVE TypeOK'
  BY <1>6, WriteType, FinalizeType DEF Resume
<1>7. CASE UNCHANGED vars
  BY <1>7 DEF vars, TypeOK
<1> QED BY <1>1, <1>2, <1>3, <1>4, <1>5, <1>6, <1>7 DEF Next, Request

-----------------------------------------------------------------------------
(* What a step of one request does to the others.                          *)

\* A request that writes goes on writing or ends, and leaves every finalize as it is.
LEMMA WriteStep ==
    ASSUME TypeOK, NEW t \in Slots, OpenChunk(t) \/ WriteChunk(t) \/ Conclude(t)
    PROVE  /\ IsWrite(t)
           /\ task'[t].kind \in {"write", "free"}
           /\ \A s \in Slots \ {t} : task'[s].kind = task[s].kind
           /\ \A s \in Slots : IsFinalize(s) => task'[s] = task[s]
           /\ UNCHANGED <<begun, target, settled>>
<1>1. task[t] \in Write /\ IsWrite(t) /\ task[t].index \in Sent /\ ~IsFinalize(t)
  BY TaskKinds DEF OpenChunk, WriteChunk, Conclude, Write
<1>2. CASE OpenChunk(t)
  <2>1. task'[t].kind \in {"write", "free"}
    <3>1. task'[t] = Free \/ task'[t] = [task[t] EXCEPT !.pc = "write", !.linked = TRUE]
      BY <1>2 DEF OpenChunk, TypeOK
    <3>2. [task[t] EXCEPT !.pc = "write", !.linked = TRUE].kind = "write"
      BY <1>1 DEF Write
    <3>3. Free.kind = "free"
      BY DEF Free
    <3> QED BY <3>1, <3>2, <3>3, Zenon
  <2>2. ASSUME NEW s \in Slots \ {t}
        PROVE  task'[s].kind = task[s].kind /\ (IsFinalize(s) => task'[s] = task[s])
    <3>1. task'[s] = task[s] \/ (IsWrite(s) /\ task'[s] = [task[s] EXCEPT !.holed = TRUE])
      BY <1>2 DEF OpenChunk, Shares, TypeOK
    <3>2. CASE task'[s] = task[s]
      BY <3>2
    <3>3. CASE IsWrite(s) /\ task'[s] = [task[s] EXCEPT !.holed = TRUE]
      BY <3>3, TaskKinds DEF Write
    <3> QED BY <3>1, <3>2, <3>3
  <2> QED BY <1>1, <1>2, <2>1, <2>2 DEF OpenChunk
<1>3. CASE WriteChunk(t)
  BY <1>1, <1>3 DEF WriteChunk, TypeOK, Write
<1>4. CASE Conclude(t)
  <2> DEFINE U == Unlink({task[t].index})
  <2>1. task' = [task EXCEPT ![t] = Free] \/ task' = [U EXCEPT ![t] = Free]
    BY <1>4 DEF Conclude
  <2>2. U \in [Slots -> Write \cup Finalize \cup {Free}]
    BY <1>1, UnlinkTypes
  <2>3. \A s \in Slots : U[s].kind = task[s].kind /\ (IsFinalize(s) => U[s] = task[s])
    <3>1. {task[t].index} \in SUBSET Sent
      BY <1>1
    <3>2. ASSUME NEW s \in Slots, NEW I \in SUBSET Sent
          PROVE  Unlink(I)[s].kind = task[s].kind
                 /\ (IsFinalize(s) => Unlink(I)[s] = task[s])
      BY Unlinked
    <3> QED BY <3>1, <3>2
  <2> HIDE DEF U
  <2>4. task'[t] = Free /\ \A s \in Slots \ {t} : task'[s] = task[s] \/ task'[s] = U[s]
    BY <2>1, <2>2 DEF TypeOK
  <2> QED BY <1>1, <1>4, <2>3, <2>4 DEF Conclude, Free
<1> QED BY <1>2, <1>3, <1>4

\* A step of a finalize keeps the kinds of the others and how far they have come.
LEMMA FinalizeStep ==
    ASSUME TypeOK, NEW t \in Slots,
           OpenTarget(t) \/ CheckChunk(t) \/ ReadChunk(t) \/ CloseTarget(t) \/ Answer(t)
    PROVE  /\ IsFinalize(t)
           /\ task'[t].kind \in {"finalize", "free"}
           /\ \A s \in Slots \ {t} : task'[s].kind = task[s].kind
           /\ \A s \in Slots \ {t} : IsFinalize(s) =>
                 /\ task'[s].pc = task[s].pc
                 /\ task'[s].next = task[s].next
                 /\ task'[s].sole = task[s].sole
           /\ UNCHANGED begun
<1>1. task[t] \in Finalize /\ IsFinalize(t)
  BY TaskKinds DEF OpenTarget, CheckChunk, ReadChunk, CloseTarget, Answer
<1> DEFINE U == UnlinkTarget(Unlink(Sent))
           V == Unlink(Sent)
           Keeps(s, r) == /\ r.kind = task[s].kind
                          /\ IsFinalize(s) => /\ r.pc = task[s].pc
                                              /\ r.next = task[s].next
                                              /\ r.sole = task[s].sole
<1>2. ASSUME NEW s \in Slots
      PROVE  /\ Keeps(s, task[s])
             /\ Keeps(s, U[s])
             /\ Keeps(s, V[s])
             /\ IsFinalize(s) => Keeps(s, [task[s] EXCEPT !.holed = TRUE])
  <2>1. IsFinalize(s) => /\ Keeps(s, [task[s] EXCEPT !.linked = FALSE])
                         /\ Keeps(s, [task[s] EXCEPT !.holed = TRUE])
    BY TaskKinds DEF Finalize
  <2>2. /\ V[s].kind = task[s].kind
        /\ IsFinalize(s) => V[s] = task[s]
        /\ U[s].kind = task[s].kind
        /\ IsFinalize(s) => U[s] = [task[s] EXCEPT !.linked = FALSE]
    BY Unlinked
  <2> QED BY <2>1, <2>2
<1>3. /\ U \in [Slots -> Write \cup Finalize \cup {Free}]
      /\ V \in [Slots -> Write \cup Finalize \cup {Free}]
  BY UnlinkTypes
<1>4. task'[t].kind \in {"finalize", "free"} /\ \A s \in Slots \ {t} : Keeps(s, task'[s])
  <2>1. CASE OpenTarget(t)
    <3>1. task'[t].kind = "finalize"
      BY <1>1, <2>1 DEF OpenTarget, Finalize
    <3>2. ASSUME NEW s \in Slots \ {t} PROVE Keeps(s, task'[s])
      <4>1. \/ task'[s] = task[s]
            \/ IsFinalize(s) /\ task'[s] = [task[s] EXCEPT !.holed = TRUE]
        BY <2>1 DEF OpenTarget
      <4> HIDE DEF Keeps
      <4> QED BY <1>2, <4>1
    <3> QED BY <3>1, <3>2
  <2>2. CASE CheckChunk(t) \/ Answer(t)
    <3>1. \/ task' = [task EXCEPT ![t].pc = "read"]
          \/ task' = [V EXCEPT ![t] = Free]
          \/ task' = [U EXCEPT ![t] = Free]
      BY <2>2 DEF CheckChunk, Answer
    <3> HIDE DEF Keeps, U, V
    <3>2. /\ task'[t] = Free \/ task'[t] = [task[t] EXCEPT !.pc = "read"]
          /\ \A s \in Slots \ {t} : task'[s] \in {task[s], U[s], V[s]}
      BY <1>3, <3>1 DEF TypeOK
    <3>3. task'[t].kind \in {"finalize", "free"}
      BY <1>1, <3>2 DEF Finalize, Free
    <3> QED BY <1>2, <3>2, <3>3
  <2>3. CASE ReadChunk(t) \/ CloseTarget(t)
    <3>1. task'[t].kind \in {"finalize", "free"}
      BY <1>1, <2>3 DEF ReadChunk, CloseTarget, TypeOK, Finalize, Free
    <3>2. \A s \in Slots \ {t} : task'[s] = task[s]
      BY <2>3 DEF ReadChunk, CloseTarget, TypeOK
    <3> HIDE DEF Keeps
    <3> QED BY <1>2, <3>1, <3>2
  <2> QED BY <2>1, <2>2, <2>3
<1> QED BY <1>1, <1>4 DEF OpenTarget, CheckChunk, ReadChunk, CloseTarget, Answer

\* What BeginFinalize does to the requests.
LEMMA BeginStep ==
    ASSUME TypeOK, NEW t \in Slots, BeginFinalize(t)
    PROVE  /\ task[t] = Free /\ cached
           /\ task'[t].kind = "finalize" /\ task'[t].pc = "open" /\ task'[t].next = 0
           /\ ~task'[t].holed
           /\ task'[t].sole => \A s \in Slots : ~IsFinalize(s)
           /\ \A s \in Slots \ {t} : task'[s].kind = task[s].kind
           /\ \A s \in Slots \ {t} : IsFinalize(s) =>
                 /\ task'[s].pc = task[s].pc
                 /\ task'[s].next = task[s].next
                 /\ ~task'[s].sole
<1>1. ASSUME NEW s \in Slots \ {t}, IsFinalize(s)
      PROVE  /\ task'[s].kind = task[s].kind /\ task'[s].pc = task[s].pc
             /\ task'[s].next = task[s].next /\ ~task'[s].sole
  <2>1. task'[s] = [task[s] EXCEPT !.sole = FALSE]
    BY <1>1 DEF BeginFinalize
  <2> QED BY <1>1, <2>1, TaskKinds DEF Finalize
<1>2. ASSUME NEW s \in Slots \ {t}, ~IsFinalize(s)
      PROVE  task'[s].kind = task[s].kind
  BY <1>2 DEF BeginFinalize
<1>3. task'[t] = [kind |-> "finalize", pc |-> "open", next |-> 0, good |-> TRUE,
                  linked |-> FALSE, holed |-> FALSE, sole |-> {s \in Slots : IsFinalize(s)} = {}]
  BY DEF BeginFinalize
<1> QED BY <1>1, <1>2, <1>3 DEF BeginFinalize

\* The loop over the chunks stays within them.
LEMMA NextInLoop == TypeOK /\ InLoop /\ [Next]_vars => InLoop'
<1> SUFFICES ASSUME TypeOK, InLoop, [Next]_vars, NEW s \in Slots, IsFinalize(s)'
             PROVE  /\ At(s, "open")' => task'[s].next = 0
                    /\ At(s, "check")' \/ At(s, "read")' => task'[s].next < Total
  BY DEF InLoop
<1>0. IsFinalize(s) => /\ task[s].pc = "open" => task[s].next = 0
                       /\ task[s].pc \in {"check", "read"} => task[s].next < Total
  BY DEF InLoop, At, IsFinalize
<1> DEFINE Same == IsFinalize(s) /\ task'[s].pc = task[s].pc /\ task'[s].next = task[s].next
<1>1. ASSUME Same
      PROVE  /\ At(s, "open")' => task'[s].next = 0
             /\ At(s, "check")' \/ At(s, "read")' => task'[s].next < Total
  BY <1>0, <1>1 DEF At
<1>2. CASE Initiate \/ Expire \/ UNCHANGED vars
  BY <1>1, <1>2 DEF Initiate, Expire, vars, IsFinalize
<1>3. CASE Cancel
  <2>1. task'[s].kind = task[s].kind /\ (IsFinalize(s) => task'[s] = task[s])
    BY <1>3, Unlinked DEF Cancel
  <2> QED BY <1>1, <2>1 DEF IsFinalize
<1>4. CASE Crash
  BY <1>4 DEF Crash, Free, IsFinalize
<1>5. ASSUME NEW t \in Slots, NEW i \in Sent, NEW intact \in BOOLEAN, SendChunk(t, i, intact)
      PROVE  Same
  BY <1>5 DEF SendChunk, IsFinalize, TypeOK
<1>6. ASSUME NEW t \in Slots, BeginFinalize(t)
      PROVE  Same \/ (task'[s].pc = "open" /\ task'[s].next = 0)
  BY <1>6, BeginStep DEF IsFinalize
<1>7. ASSUME NEW t \in Slots, OpenChunk(t) \/ WriteChunk(t) \/ Conclude(t)
      PROVE  Same
  BY <1>7, WriteStep DEF IsFinalize
<1>8. ASSUME NEW t \in Slots, t # s,
             OpenTarget(t) \/ CheckChunk(t) \/ ReadChunk(t) \/ CloseTarget(t) \/ Answer(t)
      PROVE  Same
  BY <1>8, FinalizeStep DEF IsFinalize
<1>9. ASSUME OpenTarget(s) \/ CheckChunk(s) \/ ReadChunk(s) \/ CloseTarget(s) \/ Answer(s)
      PROVE  /\ At(s, "open")' => task'[s].next = 0
             /\ At(s, "check")' \/ At(s, "read")' => task'[s].next < Total
  <2>1. task[s] \in Finalize /\ IsFinalize(s)
    BY <1>9, FinalizeStep, TaskKinds
  <2>2. CASE OpenTarget(s)
    <3>1. /\ task[s].next = 0
          /\ task'[s] = [task[s] EXCEPT !.pc = IF Total = 0 THEN "close" ELSE "check",
                                        !.linked = TRUE]
      BY <1>0, <2>1, <2>2 DEF OpenTarget, At
    <3>2. /\ task'[s].pc = IF Total = 0 THEN "close" ELSE "check"
          /\ task'[s].next = 0
      BY <2>1, <3>1 DEF Finalize
    <3> QED BY <3>2, ChunkedUploadAssumption DEF At
  <2>3. CASE CheckChunk(s)
    <3>1. task[s].next < Total
      BY <1>0, <2>1, <2>3 DEF CheckChunk, At
    <3>2. task'[s] = [task[s] EXCEPT !.pc = "read"] \/ task'[s] = Free
      BY <2>3, UnlinkTypes DEF CheckChunk, TypeOK
    <3>3. task'[s] = [task[s] EXCEPT !.pc = "read"]
      BY <3>2 DEF Free, IsFinalize
    <3> QED BY <2>1, <3>1, <3>3 DEF At, Finalize
  <2>4. CASE ReadChunk(s)
    <3> DEFINE n == task[s].next + 1
               g == task[s].good /\ chunk[task[s].next] = "good"
               pc == IF n = Total THEN "close" ELSE "check"
    <3>1. task[s].next < Total
      BY <1>0, <2>1, <2>4 DEF ReadChunk, At
    <3>2. task'[s] = [task[s] EXCEPT !.pc = pc, !.next = n, !.good = g] \/ task'[s] = Free
      BY <2>4 DEF ReadChunk, TypeOK
    <3>3. task'[s] = [task[s] EXCEPT !.pc = pc, !.next = n, !.good = g]
      BY <3>2 DEF Free, IsFinalize
    <3>4. n \in 0..Total
      BY <2>1, <3>1, ChunkedUploadAssumption DEF Finalize
    <3> HIDE DEF n, g, pc
    <3>5. task'[s].pc = pc /\ task'[s].next = n
      BY <2>1, <3>3 DEF Finalize
    <3> QED BY <3>4, <3>5, ChunkedUploadAssumption DEF At, pc
  <2>5. CASE CloseTarget(s)
    BY <2>1, <2>5 DEF CloseTarget, TypeOK, Finalize, At
  <2>6. CASE Answer(s)
    <3>1. task'[s] = Free
      BY <2>6, UnlinkTypes DEF Answer
    <3> QED BY <3>1 DEF Free, IsFinalize
  <2> QED BY <1>9, <2>2, <2>3, <2>4, <2>5, <2>6
<1> HIDE DEF Same
<1> QED
  BY <1>1, <1>2, <1>3, <1>4, <1>5, <1>6, <1>7, <1>8, <1>9 DEF Next, Request, Resume, At

\* The chunk requests, the target and the session have types at every moment.
THEOREM TypeCorrect == Spec => []TypeOK
<1>1. TypeOK /\ InLoop /\ [Next]_vars => TypeOK' /\ InLoop'
  BY NextType, NextInLoop
<1> QED BY InitType, <1>1, PTL DEF Spec

-----------------------------------------------------------------------------
(* An answered file stays.                                                 *)

LEMMA NextNothingBefore == TypeOK /\ NothingBefore /\ [Next]_vars => NothingBefore'
<1> SUFFICES ASSUME TypeOK, NothingBefore, [Next]_vars, ~begun'
             PROVE  ~cached' /\ ~settled' /\ \A t \in Slots : task'[t] = Free
  BY DEF NothingBefore
<1>1. CASE Expire \/ UNCHANGED vars
  BY <1>1 DEF Expire, vars, NothingBefore
<1>4. ~Initiate
  BY DEF Initiate
<1>5. ~Cancel
  BY DEF Cancel
<1>6. ~Crash
  BY DEF Crash
<1>2. ASSUME NEW t \in Slots, Request(t) PROVE FALSE
  BY <1>2 DEF Request, SendChunk, BeginFinalize, NothingBefore
<1>3. ASSUME NEW t \in Slots, Resume(t) PROVE FALSE
  <2>1. begun' = begun
    BY <1>3 DEF Resume, OpenChunk, WriteChunk, Conclude, OpenTarget, CheckChunk, ReadChunk,
                CloseTarget, Answer
  <2>2. task[t] = Free
    BY <2>1 DEF NothingBefore
  <2> QED BY <1>3, <2>2, TaskKinds
          DEF Resume, OpenChunk, WriteChunk, Conclude, OpenTarget, CheckChunk, ReadChunk,
              CloseTarget, Answer
<1> QED BY <1>1, <1>2, <1>3, <1>4, <1>5, <1>6 DEF Next

\* What SoleStates says of one finalize.
SoleAt(f, tgt) ==
    /\ ~f.holed
    /\ f.pc \in {"check", "read", "close"} => f.linked
    /\ f.pc = "answer" /\ f.good => tgt = "good"

\* A finalize that is alone goes from one such state to the next.
LEMMA SoleSelf ==
    ASSUME TypeOK, NEW t \in Slots, IsFinalize(t)', SoleAt(task[t], target),
           \A s \in Slots \ {t} : ~IsFinalize(s),
           OpenTarget(t) \/ CheckChunk(t) \/ ReadChunk(t) \/ CloseTarget(t) \/ Answer(t)
    PROVE  SoleAt(task'[t], target')
<1>1. task[t] \in Finalize
  BY FinalizeStep, TaskKinds
<1>2. CASE OpenTarget(t)
  <2> DEFINE pc == IF Total = 0 THEN "close" ELSE "check"
  <2>1. task'[t] = [task[t] EXCEPT !.pc = pc, !.linked = TRUE]
    BY <1>2 DEF OpenTarget
  <2> HIDE DEF pc
  <2>2. /\ task'[t].pc = pc /\ task'[t].linked /\ task'[t].holed = task[t].holed
    BY <1>1, <2>1 DEF Finalize
  <2> QED BY <2>2 DEF SoleAt, pc
<1>3. CASE CheckChunk(t)
  <2>1. task'[t] = [task[t] EXCEPT !.pc = "read"] \/ task'[t] = Free
    BY <1>3, UnlinkTypes DEF CheckChunk, TypeOK
  <2>2. task'[t] = [task[t] EXCEPT !.pc = "read"] /\ task[t].pc = "check"
    BY <1>3, <2>1 DEF Free, IsFinalize, CheckChunk, At
  <2>3. /\ task'[t].pc = "read" /\ task'[t].linked = task[t].linked
        /\ task'[t].holed = task[t].holed
    BY <1>1, <2>2 DEF Finalize
  <2> QED BY <2>2, <2>3 DEF SoleAt
<1>4. CASE ReadChunk(t)
  <2> DEFINE n == task[t].next + 1
             g == task[t].good /\ chunk[task[t].next] = "good"
             pc == IF n = Total THEN "close" ELSE "check"
  <2>1. task'[t] = [task[t] EXCEPT !.pc = pc, !.next = n, !.good = g] \/ task'[t] = Free
    BY <1>4 DEF ReadChunk, TypeOK
  <2>2. /\ task'[t] = [task[t] EXCEPT !.pc = pc, !.next = n, !.good = g]
        /\ task[t].pc = "read"
    BY <1>4, <2>1 DEF Free, IsFinalize, ReadChunk, At
  <2>3. pc \in {"close", "check"}
    OBVIOUS
  <2> HIDE DEF n, g, pc
  <2>4. /\ task'[t].pc = pc /\ task'[t].linked = task[t].linked
        /\ task'[t].holed = task[t].holed
    BY <1>1, <2>2 DEF Finalize
  <2> QED BY <2>2, <2>3, <2>4 DEF SoleAt
<1>5. CASE CloseTarget(t)
  <2>1. task'[t] = [task[t] EXCEPT !.pc = "answer"] /\ task[t].pc = "close"
    BY <1>5 DEF CloseTarget, TypeOK, At
  <2>2. /\ task'[t].pc = "answer" /\ task'[t].good = task[t].good
        /\ task'[t].holed = task[t].holed
    BY <1>1, <2>1 DEF Finalize
  <2>3. task[t].linked /\ ~task[t].holed
    BY <2>1 DEF SoleAt
  <2>4. task[t].good => target' = "good"
    BY <1>5, <2>3 DEF CloseTarget
  <2> QED BY <2>2, <2>3, <2>4 DEF SoleAt
<1>6. CASE Answer(t)
  <2>1. task'[t] = Free
    BY <1>6, UnlinkTypes DEF Answer
  <2> QED BY <2>1 DEF Free, IsFinalize
<1> QED BY <1>2, <1>3, <1>4, <1>5, <1>6

\* A finalize that goes on keeps its history.
LEMMA SoleKept ==
    ASSUME TypeOK, NEW t \in Slots, IsFinalize(t)',
           OpenTarget(t) \/ CheckChunk(t) \/ ReadChunk(t) \/ CloseTarget(t) \/ Answer(t)
    PROVE  task'[t].sole = task[t].sole
<1>1. task[t] \in Finalize
  BY FinalizeStep, TaskKinds
<1>2. task'[t] # Free
  BY DEF Free, IsFinalize
<1>3. CASE OpenTarget(t)
  BY <1>1, <1>3 DEF OpenTarget, Finalize
<1>4. CASE CheckChunk(t)
  <2>1. task'[t] = [task[t] EXCEPT !.pc = "read"]
    BY <1>2, <1>4, UnlinkTypes DEF CheckChunk, TypeOK
  <2> QED BY <1>1, <2>1 DEF Finalize
<1>5. CASE ReadChunk(t)
  <2> DEFINE n == task[t].next + 1
             g == task[t].good /\ chunk[task[t].next] = "good"
             pc == IF n = Total THEN "close" ELSE "check"
  <2>1. task'[t] = [task[t] EXCEPT !.pc = pc, !.next = n, !.good = g]
    BY <1>2, <1>5 DEF ReadChunk, TypeOK
  <2> HIDE DEF n, g, pc
  <2> QED BY <1>1, <2>1 DEF Finalize
<1>6. CASE CloseTarget(t)
  BY <1>1, <1>6 DEF CloseTarget, TypeOK, Finalize
<1>7. CASE Answer(t)
  BY <1>2, <1>7, UnlinkTypes DEF Answer
<1> QED BY <1>3, <1>4, <1>5, <1>6, <1>7

LEMMA NextSole == TypeOK /\ SoleStates /\ [Next]_vars => SoleStates'
<1> SUFFICES ASSUME TypeOK, SoleStates, [Next]_vars,
                    NEW t \in Slots, IsFinalize(t)', task'[t].sole
             PROVE  (\A s \in Slots \ {t} : ~IsFinalize(s)') /\ SoleAt(task'[t], target')
  BY DEF SoleStates, SoleAt, At
<1> DEFINE Goal == (\A s \in Slots \ {t} : ~IsFinalize(s)') /\ SoleAt(task'[t], target')
<1>0. IsFinalize(t) /\ task[t].sole =>
        (\A s \in Slots \ {t} : ~IsFinalize(s)) /\ SoleAt(task[t], target)
  BY DEF SoleStates, SoleAt, At, IsFinalize
<1>1. CASE Initiate \/ Expire \/ UNCHANGED vars
  BY <1>0, <1>1 DEF Initiate, Expire, vars, IsFinalize
<1>2. CASE Cancel
  <2>1. \A s \in Slots : task'[s].kind = task[s].kind /\ (IsFinalize(s) => task'[s] = task[s])
    BY <1>2, Unlinked DEF Cancel
  <2> QED BY <1>0, <1>2, <2>1 DEF IsFinalize, Cancel
<1>3. CASE Crash
  BY <1>3 DEF Crash, Free, IsFinalize
<1>4. ASSUME NEW r \in Slots, NEW i \in Sent, NEW intact \in BOOLEAN, SendChunk(r, i, intact)
      PROVE  Goal
  <2>1. task'[r].kind = "write" /\ \A s \in Slots \ {r} : task'[s] = task[s]
    BY <1>4 DEF SendChunk, TypeOK
  <2> QED BY <1>0, <1>4, <2>1 DEF IsFinalize, SendChunk
<1>5. ASSUME NEW r \in Slots, BeginFinalize(r) PROVE Goal
  <2>1. r = t
    BY <1>5, BeginStep DEF IsFinalize
  <2>2. \A s \in Slots \ {t} : ~IsFinalize(s)'
    BY <1>5, <2>1, BeginStep DEF IsFinalize
  <2> QED BY <1>5, <2>1, <2>2, BeginStep DEF SoleAt
<1>6. ASSUME NEW r \in Slots, OpenChunk(r) \/ WriteChunk(r) \/ Conclude(r) PROVE Goal
  <2>1. IsFinalize(t) /\ task'[t] = task[t] /\ target' = target
    BY <1>6, WriteStep DEF IsFinalize
  <2>2. \A s \in Slots \ {t} : ~IsFinalize(s)'
    BY <1>0, <1>6, <2>1, WriteStep DEF IsFinalize
  <2> QED BY <1>0, <2>1, <2>2
<1>7. ASSUME NEW r \in Slots,
             OpenTarget(r) \/ CheckChunk(r) \/ ReadChunk(r) \/ CloseTarget(r) \/ Answer(r)
      PROVE  Goal
  <2>1. IsFinalize(r)
    BY <1>7, FinalizeStep
  <2>2. r = t
    <3>1. ASSUME r # t PROVE FALSE
      <4>1. IsFinalize(t) /\ task[t].sole
        BY <1>7, <3>1, FinalizeStep DEF IsFinalize
      <4> QED BY <1>0, <2>1, <3>1, <4>1
    <3> QED BY <3>1
  <2>3. task[t].sole /\ task[t] \in Finalize
    <3>1. task[t] \in Finalize
      BY <2>1, <2>2, TaskKinds
    <3>2. task'[t].sole = task[t].sole
      BY <1>7, <2>2, <3>1, SoleKept
    <3> QED BY <3>1, <3>2
  <2>4. (\A s \in Slots \ {t} : ~IsFinalize(s)) /\ SoleAt(task[t], target)
    BY <1>0, <2>1, <2>2, <2>3
  <2>5. SoleAt(task'[t], target')
    BY <1>7, <2>2, <2>4, SoleSelf
  <2>6. \A s \in Slots \ {t} : ~IsFinalize(s)'
    BY <1>7, <2>2, <2>4, FinalizeStep DEF IsFinalize
  <2> QED BY <2>5, <2>6
<1> HIDE DEF Goal
<1> QED BY <1>1, <1>2, <1>3, <1>4, <1>5, <1>6, <1>7 DEF Next, Request, Resume, Goal

\* An answer that is alone finds the target good and leaves no request.
LEMMA AnswerAlone ==
    ASSUME TypeOK, SoleStates, Checksum, NEW t \in Slots, Answer(t), Alone(t), settled'
    PROVE  settled \/ (target' = "good" /\ ~cached' /\ \A s \in Slots : task'[s] = Free)
<1> SUFFICES ASSUME ~settled
             PROVE  target' = "good" /\ ~cached' /\ \A s \in Slots : task'[s] = Free
  OBVIOUS
<1>1. task[t].good /\ UNCHANGED target /\ task' = [Unlink(Sent) EXCEPT ![t] = Free] /\ ~cached'
  BY DEF Answer, Verified
<1>2. target = "good"
  BY <1>1 DEF SoleStates, Answer, Alone
<1>3. ASSUME NEW s \in Slots PROVE task'[s] = Free
  <2>1. CASE s = t
    BY <1>1, <2>1, UnlinkTypes
  <2>2. CASE s # t
    <3>1. task[s] = Free /\ ~IsWrite(s)
      BY <2>2, TaskKinds DEF Alone
    <3>2. task'[s] = Unlink(Sent)[s]
      BY <1>1, <2>2, UnlinkTypes
    <3> QED BY <3>1, <3>2 DEF Unlink
  <2> QED BY <2>1, <2>2
<1> QED BY <1>1, <1>2, <1>3

LEMMA NextSettled ==
    ASSUME Checksum
    PROVE  Inv /\ [Next]_vars => SettledStates'
<1> SUFFICES ASSUME Inv, [Next]_vars, settled'
             PROVE  target' = "good" /\ ~cached' /\ \A s \in Slots : task'[s] = Free
  BY DEF SettledStates
<1>1. CASE settled
  <2>1. target = "good" /\ ~cached /\ begun /\ \A s \in Slots : task[s] = Free
    BY <1>1 DEF Inv, SettledStates, NothingBefore
  <2>2. ASSUME NEW t \in Slots, Request(t) \/ Resume(t) PROVE FALSE
    BY <2>1, <2>2, TaskKinds
       DEF Inv, Request, SendChunk, BeginFinalize, Resume, OpenChunk, WriteChunk, Conclude,
           OpenTarget, CheckChunk, ReadChunk, CloseTarget, Answer
  <2>3. CASE Cancel
    <3>1. ASSUME NEW s \in Slots PROVE Unlink(Sent)[s] = Free
      <4>1. task[s] = Free /\ ~IsWrite(s)
        BY <2>1, TaskKinds DEF Inv
      <4> QED BY <4>1 DEF Unlink
    <3>2. task' = Unlink(Sent)
      BY <2>3 DEF Cancel
    <3>3. \A s \in Slots : task'[s] = Free
      BY <3>1, <3>2
    <3>4. target' = target
      BY <2>3 DEF Cancel
    <3>5. ~cached'
      BY <2>1, <2>3 DEF Cancel
    <3> QED BY <2>1, <3>3, <3>4, <3>5
  <2>4. CASE Expire
    BY <2>1, <2>4 DEF Expire
  <2>6. CASE Crash
    BY <2>1, <2>6 DEF Crash
  <2>7. CASE UNCHANGED vars
    BY <2>1, <2>7 DEF vars
  <2>5. ~Initiate
    BY <2>1 DEF Initiate
  <2> QED BY <2>2, <2>3, <2>4, <2>5, <2>6, <2>7 DEF Next
<1>2. CASE ~settled
  <2>1. PICK t \in Slots : Answer(t) /\ Alone(t)
    BY <1>2 DEF Next, Initiate, Expire, Cancel, Crash, Request, SendChunk, BeginFinalize, Resume,
                OpenChunk, WriteChunk, Conclude, OpenTarget, CheckChunk, ReadChunk, CloseTarget,
                Answer, vars
  <2> QED BY <1>2, <2>1, AnswerAlone DEF Inv
<1> QED BY <1>1, <1>2

LEMMA InitInv == Init => Inv
  BY InitType DEF Init, Inv, NothingBefore, SoleStates, SettledStates, IsFinalize, Free

\* With a checksum, the file of a finalize that has answered, while no other request of the
\* upload was in flight and after no other finalize overlapped it, stays as it is.
THEOREM AnsweredFile == ASSUME Checksum PROVE Spec => []AnsweredFileStays
<1>1. Inv /\ [Next]_vars => Inv'
  <2> SUFFICES ASSUME Inv, [Next]_vars PROVE Inv'
    OBVIOUS
  <2>1. TypeOK' /\ InLoop'
    BY NextType, NextInLoop DEF Inv
  <2>2. NothingBefore' /\ SoleStates'
    BY NextNothingBefore, NextSole DEF Inv
  <2>3. SettledStates'
    BY NextSettled
  <2> QED BY <2>1, <2>2, <2>3 DEF Inv
<1>2. Inv => AnsweredFileStays
  BY DEF Inv, SettledStates, AnsweredFileStays
<1> QED BY InitInv, <1>1, <1>2, PTL DEF Spec

-----------------------------------------------------------------------------
(* What is counted is stored.                                              *)

\* Unlinking its file or the target leaves a request the chunk it writes.
LEMMA UnlinkedWrite ==
    ASSUME TypeOK, NEW s \in Slots, IsWrite(s)
    PROVE  /\ Unlink(Sent)[s].kind = "write" /\ Unlink(Sent)[s].index = task[s].index
           /\ UnlinkTarget(Unlink(Sent))[s].index = task[s].index
<1>1. task[s] \in Write
  BY TaskKinds
<1>2. Unlink(Sent)[s] = [task[s] EXCEPT !.linked = FALSE]
  BY <1>1 DEF Unlink, Write
<1>3. Unlink(Sent)[s].kind = "write" /\ Unlink(Sent)[s].index = task[s].index
  BY <1>1, <1>2 DEF Write
<1>4. UnlinkTarget(Unlink(Sent))[s] = Unlink(Sent)[s]
  BY <1>3 DEF UnlinkTarget
<1> QED BY <1>3, <1>4

\* Whatever is not about a chunk alone begins no request that writes one, and changes a chunk, or
\* what such a request knows of its file, only when it removes the directory.
LEMMA OthersLeave ==
    ASSUME TypeOK,
           \/ Initiate \/ Expire \/ Cancel \/ Crash \/ UNCHANGED vars
           \/ \E t \in Slots : \/ BeginFinalize(t) \/ OpenTarget(t) \/ CheckChunk(t)
                               \/ ReadChunk(t) \/ CloseTarget(t) \/ Answer(t)
    PROVE  /\ \A s \in Slots : IsWrite(s)' =>
                /\ IsWrite(s) /\ task'[s].index = task[s].index
                /\ dir' => task'[s] = task[s]
           /\ tries' = tries
           /\ uploaded' = uploaded \/ uploaded' = <<>>
           /\ dir' => chunk' = chunk
<1> DEFINE Left(s) == IsWrite(s)' => /\ IsWrite(s) /\ task'[s].index = task[s].index
                                     /\ dir' => task'[s] = task[s]
<1>1. ASSUME NEW s \in Slots, task'[s] = task[s] \/ task'[s].kind # "write" PROVE Left(s)
  BY <1>1 DEF IsWrite
<1>2. ASSUME NEW s \in Slots, ~dir',
             task'[s] = Unlink(Sent)[s] \/ task'[s] = UnlinkTarget(Unlink(Sent))[s]
      PROVE  Left(s)
  <2>1. Sent \in SUBSET Sent
    OBVIOUS
  <2>2. task'[s].kind = task[s].kind
    BY <1>2, <2>1, Unlinked
  <2> QED BY <1>2, <2>2, UnlinkedWrite DEF IsWrite
<1>3. Free.kind # "write"
  BY DEF Free
<1>4. CASE Initiate \/ Expire \/ UNCHANGED vars
  BY <1>4 DEF Initiate, Expire, vars, IsWrite
<1>5. CASE Cancel
  <2>1. ~dir' /\ \A s \in Slots : task'[s] = Unlink(Sent)[s]
    BY <1>5 DEF Cancel
  <2> HIDE DEF Left
  <2>2. \A s \in Slots : Left(s)
    BY <1>2, <2>1
  <2> QED BY <1>5, <2>2 DEF Cancel, Left
<1>6. CASE Crash
  BY <1>3, <1>6 DEF Crash, IsWrite
<1>7. ASSUME NEW t \in Slots, BeginFinalize(t) PROVE \A s \in Slots : Left(s)
  <2> SUFFICES ASSUME NEW s \in Slots PROVE Left(s)
    OBVIOUS
  <2>1. CASE s = t \/ IsFinalize(s)
    <3>1. task'[s].kind = "finalize"
      BY <1>7, <2>1, BeginStep DEF IsFinalize
    <3> QED BY <1>1, <3>1
  <2>2. CASE s # t /\ ~IsFinalize(s)
    <3>1. task'[s] = task[s]
      BY <1>7, <2>2 DEF BeginFinalize
    <3> QED BY <1>1, <3>1
  <2> QED BY <2>1, <2>2
<1>8. ASSUME NEW t \in Slots, OpenTarget(t) \/ CheckChunk(t) \/ ReadChunk(t) \/ CloseTarget(t) \/ Answer(t)
      PROVE  \A s \in Slots : Left(s)
  <2> SUFFICES ASSUME NEW s \in Slots PROVE Left(s)
    OBVIOUS
  <2>1. CASE s = t
    BY <1>1, <1>8, <2>1, FinalizeStep
  <2>2. CASE s # t
    <3>1. CASE OpenTarget(t)
      <4>1. task'[s] = task[s] \/ IsFinalize(s)
        BY <2>2, <3>1 DEF OpenTarget
      <4>2. task'[s].kind = task[s].kind
        BY <2>2, <3>1, FinalizeStep
      <4> QED BY <1>1, <4>1, <4>2 DEF IsFinalize
    <3>2. CASE ReadChunk(t) \/ CloseTarget(t)
      <4>1. task'[s] = task[s]
        BY <2>2, <3>2 DEF ReadChunk, CloseTarget, TypeOK
      <4> QED BY <1>1, <4>1
    <3>3. CASE CheckChunk(t) \/ Answer(t)
      <4> DEFINE U == UnlinkTarget(Unlink(Sent))
                 V == Unlink(Sent)
      <4>1. \/ task' = [task EXCEPT ![t].pc = "read"]
            \/ ~dir' /\ task' = [V EXCEPT ![t] = Free]
            \/ ~dir' /\ task' = [U EXCEPT ![t] = Free]
        BY <3>3 DEF CheckChunk, Answer
      <4>2. U \in [Slots -> Write \cup Finalize \cup {Free}] /\ V \in [Slots -> Write \cup Finalize \cup {Free}]
        BY UnlinkTypes
      <4> HIDE DEF U, V
      <4>3. \/ task'[s] = task[s]
            \/ ~dir' /\ task'[s] = V[s]
            \/ ~dir' /\ task'[s] = U[s]
        BY <2>2, <4>1, <4>2 DEF TypeOK
      <4> HIDE DEF Left
      <4> QED BY <1>1, <1>2, <4>3 DEF U, V
    <3> QED BY <1>8, <3>1, <3>2, <3>3
  <2> QED BY <2>1, <2>2
<1>9. ASSUME NEW t \in Slots,
             \/ BeginFinalize(t) \/ OpenTarget(t) \/ CheckChunk(t)
             \/ ReadChunk(t) \/ CloseTarget(t) \/ Answer(t)
      PROVE  tries' = tries /\ uploaded' = uploaded /\ (dir' => chunk' = chunk)
  BY <1>9 DEF BeginFinalize, OpenTarget, CheckChunk, ReadChunk, CloseTarget, Answer
<1> HIDE DEF Left
<1>10. ASSUME NEW t \in Slots,
             \/ BeginFinalize(t) \/ OpenTarget(t) \/ CheckChunk(t)
             \/ ReadChunk(t) \/ CloseTarget(t) \/ Answer(t)
       PROVE  \A s \in Slots : Left(s)
  BY <1>7, <1>8, <1>10
<1> QED BY <1>4, <1>5, <1>6, <1>9, <1>10 DEF Left

\* They leave the attempts and what is stored.
LEMMA OthersStored ==
    ASSUME StoredInv,
           \A s \in Slots : IsWrite(s)' =>
                /\ IsWrite(s) /\ task'[s].index = task[s].index
                /\ dir' => task'[s] = task[s],
           tries' = tries, uploaded' = uploaded \/ uploaded' = <<>>,
           dir' => chunk' = chunk, dir' => dir \/ ~begun, ~begun' => ~begun
    PROVE  OneAttempt' /\ Stored'
<1>1. \A s \in Slots, i \in Sent : Writes(s, i)' => Writes(s, i) /\ (dir' => task'[s] = task[s])
  BY DEF Writes
<1>2. \A i \in Sent : Counted(i)' => Counted(i)
  BY DEF Counted
<1>3. OneAttempt'
  BY <1>1, <1>2 DEF StoredInv, OneAttempt
<1>4. ~begun => uploaded = <<>> /\ \A t \in Slots, i \in Sent : ~Writes(t, i)
  BY DEF StoredInv, Stored, NothingBefore, Writes, IsWrite, Free
<1>5. ASSUME dir', NEW i \in Sent, tries[i] <= 1
      PROVE  /\ Counted(i)' => chunk'[i] = "good"
             /\ \A t \in Slots : Writes(t, i)' =>
                  /\ At(t, "write")' => task'[t].linked
                  /\ At(t, "open")' \/ At(t, "write")' => ~task'[t].holed
                  /\ At(t, "conclude")' /\ task'[t].intact => chunk'[i] = "good"
  <2>1. CASE ~begun
    <3>1. ~Counted(i)
      BY <1>4, <2>1 DEF Counted
    <3> QED BY <1>1, <1>2, <1>4, <2>1, <3>1
  <2>2. CASE dir
    BY <1>1, <1>2, <1>5, <2>2 DEF StoredInv, Stored, At
  <2> QED BY <1>5, <2>1, <2>2
<1>6. ~begun' => uploaded' = <<>>
  BY <1>4
<1> QED BY <1>3, <1>5, <1>6 DEF Stored

\* A request for a chunk: if it is the first there is no other.
LEMMA SendStored ==
    ASSUME StoredInv, NEW t \in Slots, NEW i \in Sent, NEW intact \in BOOLEAN, SendChunk(t, i, intact)
    PROVE  OneAttempt' /\ Stored'
<1>1. /\ task[t] = Free /\ cached /\ UNCHANGED <<begun, uploaded, dir, chunk>>
      /\ tries'[i] = tries[i] + 1 /\ tries[i] \in Nat
      /\ \A j \in Sent : j # i => tries'[j] = tries[j]
      /\ task'[t] = [kind |-> "write", pc |-> "open", index |-> i, intact |-> intact,
                     linked |-> FALSE, holed |-> FALSE]
      /\ \A s \in Slots : s # t => task'[s] = task[s]
  BY ChunkedUploadAssumption DEF SendChunk, StoredInv, TypeOK
<1>2. /\ \A j \in Sent : j # i => (Writes(t, j)' <=> Writes(t, j))
      /\ \A s \in Slots : s # t => \A j \in Sent : Writes(s, j)' <=> Writes(s, j)
      /\ \A j \in Sent : Counted(j)' <=> Counted(j)
  BY <1>1 DEF Writes, IsWrite, Free, Counted
<1>3. tries'[i] <= 1 => tries[i] = 0
  BY <1>1
<1>4. OneAttempt'
  BY <1>1, <1>2, <1>3 DEF StoredInv, OneAttempt
<1>5. begun
  BY <1>1 DEF StoredInv, NothingBefore
<1>6. ASSUME dir', NEW j \in Sent, tries'[j] <= 1
      PROVE  /\ Counted(j)' => chunk'[j] = "good"
             /\ \A s \in Slots : Writes(s, j)' =>
                  /\ At(s, "write")' => task'[s].linked
                  /\ At(s, "open")' \/ At(s, "write")' => ~task'[s].holed
                  /\ At(s, "conclude")' /\ task'[s].intact => chunk'[j] = "good"
  <2>1. CASE j = i
    <3>1. ~Counted(j) /\ \A s \in Slots : ~Writes(s, j)
      BY <1>3, <1>6, <2>1 DEF StoredInv, OneAttempt
    <3>2. ~At(t, "write")' /\ ~At(t, "conclude")' /\ ~task'[t].holed
      BY <1>1 DEF At
    <3> QED BY <1>2, <3>1, <3>2
  <2>2. CASE j # i
    <3>1. \A s \in Slots : Writes(s, j)' => Writes(s, j) /\ task'[s] = task[s]
      BY <1>1, <1>2, <2>2 DEF Writes, IsWrite, Free
    <3> QED BY <1>1, <1>2, <1>6, <2>2, <3>1 DEF StoredInv, Stored, At
  <2> QED BY <2>1, <2>2
<1> QED BY <1>1, <1>4, <1>5, <1>6 DEF Stored

\* The steps of a request that writes leave the chunks of the others.
LEMMA WriterAttempt ==
    ASSUME StoredInv, NEW t \in Slots, OpenChunk(t) \/ WriteChunk(t) \/ Conclude(t)
    PROVE  /\ task[t] \in Write /\ task[t].index \in Sent /\ Writes(t, task[t].index) /\ begun
           /\ \A s \in Slots, i \in Sent : Writes(s, i)' => Writes(s, i)
           /\ \A s \in Slots, i \in Sent :
                 Writes(s, i)' /\ i # task[t].index => task'[s] = task[s]
           /\ \A i \in Sent : i # task[t].index => chunk'[i] = chunk[i]
           /\ tries' = tries /\ begun' = begun /\ dir' = dir
<1> DEFINE j == task[t].index
<1>1. /\ task[t] \in Write /\ j \in Sent /\ Writes(t, j) /\ begun
      /\ TypeOK /\ task'[t].kind \in {"write", "free"}
      /\ \A s \in Slots \ {t} : task'[s].kind = task[s].kind
  <2>1. TypeOK
    BY DEF StoredInv
  <2>2. IsWrite(t) /\ task[t] \in Write
    BY <2>1, WriteStep, TaskKinds
  <2>3. j \in Sent /\ Writes(t, j)
    BY <2>2 DEF Write, Writes
  <2>4. begun
    BY <2>1, <2>2, TaskKinds DEF StoredInv, NothingBefore
  <2> QED BY <2>1, <2>2, <2>3, <2>4, WriteStep
<1>2. tries' = tries /\ begun' = begun /\ dir' = dir
  BY DEF OpenChunk, WriteChunk, Conclude
<1>3. \A i \in Sent : i # j => chunk'[i] = chunk[i]
  BY <1>1 DEF OpenChunk, WriteChunk, Conclude, TypeOK
<1>4. ASSUME NEW s \in Slots \ {t}, IsWrite(s)
      PROVE  task'[s].index = task[s].index /\ (task[s].index # j => task'[s] = task[s])
  <2>1. task[s] \in Write
    BY <1>1, <1>4, TaskKinds
  <2>2. CASE OpenChunk(t)
    <3>1. task'[s] = task[s] \/ (task[s].index = j /\ task'[s] = [task[s] EXCEPT !.holed = TRUE])
      BY <1>1, <2>2 DEF OpenChunk, Shares, TypeOK
    <3> QED BY <2>1, <3>1 DEF Write
  <2>3. CASE WriteChunk(t)
    BY <2>3, <1>1 DEF WriteChunk, TypeOK
  <2>4. CASE Conclude(t)
    <3> DEFINE U == Unlink({j})
    <3>1. task' = [task EXCEPT ![t] = Free] \/ task' = [U EXCEPT ![t] = Free]
      BY <2>4 DEF Conclude
    <3>2. U[s] = IF task[s].index = j THEN [task[s] EXCEPT !.linked = FALSE] ELSE task[s]
      BY <1>4 DEF Unlink
    <3>3. U \in [Slots -> Write \cup Finalize \cup {Free}]
      BY <1>1, UnlinkTypes
    <3> HIDE DEF U, j
    <3>4. task'[s] = task[s] \/ task'[s] = U[s]
      BY <1>1, <3>1, <3>3 DEF TypeOK
    <3> QED BY <2>1, <3>2, <3>4 DEF Write
  <2> QED BY <2>2, <2>3, <2>4
<1>5. task'[t] = Free \/ task'[t].index = j
  <2>1. CASE OpenChunk(t)
    <3>1. task'[t] = Free \/ task'[t] = [task[t] EXCEPT !.pc = "write", !.linked = TRUE]
      BY <1>1, <2>1 DEF OpenChunk, TypeOK
    <3> QED BY <1>1, <3>1 DEF Write
  <2>2. CASE WriteChunk(t)
    BY <1>1, <2>2 DEF WriteChunk, TypeOK, Write
  <2>3. CASE Conclude(t)
    <3> DEFINE U == Unlink({j})
    <3>1. task' = [task EXCEPT ![t] = Free] \/ task' = [U EXCEPT ![t] = Free]
      BY <2>3 DEF Conclude
    <3>2. U \in [Slots -> Write \cup Finalize \cup {Free}]
      BY <1>1, UnlinkTypes
    <3> HIDE DEF U, j
    <3> QED BY <1>1, <3>1, <3>2 DEF TypeOK
  <2> QED BY <2>1, <2>2, <2>3
<1>6. ASSUME NEW s \in Slots, NEW i \in Sent, Writes(s, i)'
      PROVE  Writes(s, i) /\ (i # j => task'[s] = task[s])
  <2>1. CASE s = t
    <3>1. i = j
      BY <1>5, <1>6, <2>1 DEF Writes, IsWrite, Free
    <3> QED BY <1>1, <2>1, <3>1
  <2>2. CASE s # t
    <3>1. IsWrite(s)
      BY <1>1, <1>6, <2>2 DEF Writes, IsWrite
    <3> QED BY <1>4, <1>6, <2>2, <3>1 DEF Writes
  <2> QED BY <2>1, <2>2
<1> QED BY <1>1, <1>2, <1>3, <1>6

LEMMA WriterStored ==
    ASSUME StoredInv, NEW t \in Slots, OpenChunk(t) \/ WriteChunk(t) \/ Conclude(t)
    PROVE  OneAttempt' /\ Stored'
<1>0. PICK j \in Sent : j = task[t].index
  BY WriterAttempt
<1> DEFINE Fine(i) == /\ Counted(i)' => chunk'[i] = "good"
                      /\ \A s \in Slots : Writes(s, i)' =>
                           /\ At(s, "write")' => task'[s].linked
                           /\ At(s, "open")' \/ At(s, "write")' => ~task'[s].holed
                           /\ At(s, "conclude")' /\ task'[s].intact => chunk'[i] = "good"
<1>1. /\ task[t] \in Write /\ j \in Sent /\ Writes(t, j) /\ begun /\ TypeOK
      /\ \A s \in Slots, i \in Sent : Writes(s, i)' => Writes(s, i)
      /\ \A s \in Slots, i \in Sent : Writes(s, i)' /\ i # j => task'[s] = task[s]
      /\ \A i \in Sent : i # j => chunk'[i] = chunk[i]
      /\ tries' = tries /\ begun' = begun /\ dir' = dir
  BY <1>0, WriterAttempt DEF StoredInv
<1>2. ASSUME uploaded' = uploaded PROVE \A i \in Sent : Counted(i)' <=> Counted(i)
  BY <1>2 DEF Counted
<1>3. ASSUME tries[j] <= 1
      PROVE  /\ ~Counted(j) /\ \A s \in Slots : Writes(s, j) => s = t
             /\ dir => /\ At(t, "write") => task[t].linked
                       /\ At(t, "open") \/ At(t, "write") => ~task[t].holed
                       /\ At(t, "conclude") /\ task[t].intact => chunk[j] = "good"
  BY <1>1, <1>3 DEF StoredInv, OneAttempt, Stored
<1>4. tries[j] # 0
  BY <1>1 DEF StoredInv, OneAttempt, TypeOK
<1>5. ASSUME UNCHANGED uploaded PROVE OneAttempt'
  BY <1>1, <1>2, <1>5 DEF StoredInv, OneAttempt
<1>6. ASSUME UNCHANGED uploaded, NEW i \in Sent, i # j, dir, tries[i] <= 1 PROVE Fine(i)
  BY <1>1, <1>2, <1>6 DEF StoredInv, Stored, At
<1>7. ASSUME UNCHANGED uploaded, dir /\ tries[j] <= 1 => Fine(j) PROVE Stored'
  <2> HIDE DEF Fine
  <2>1. \A i \in Sent : dir /\ tries[i] <= 1 => Fine(i)
    BY <1>1, <1>6, <1>7
  <2> QED BY <1>1, <2>1 DEF Stored, Fine
<1>8. CASE OpenChunk(t)
  <2>1. ASSUME dir, tries[j] <= 1 PROVE Fine(j)
    <3>1. task'[t] = [task[t] EXCEPT !.pc = "write", !.linked = TRUE]
      BY <1>0, <1>8, <2>1 DEF OpenChunk
    <3>2. task'[t].pc = "write" /\ task'[t].linked /\ task'[t].holed = task[t].holed
      BY <1>1, <3>1 DEF Write
    <3>3. ~task[t].holed
      BY <1>3, <1>8, <2>1 DEF OpenChunk
    <3>4. \A s \in Slots : Writes(s, j)' => s = t
      BY <1>1, <1>3, <2>1
    <3>5. ~Counted(j)'
      BY <1>1, <1>2, <1>3, <1>8, <2>1 DEF OpenChunk
    <3> QED BY <3>2, <3>3, <3>4, <3>5 DEF At
  <2> QED BY <1>5, <1>7, <1>8, <2>1 DEF OpenChunk
<1>9. CASE WriteChunk(t)
  <2>1. ASSUME dir, tries[j] <= 1 PROVE Fine(j)
    <3>1. task'[t].pc = "conclude" /\ task'[t].intact = task[t].intact
      BY <1>1, <1>9 DEF WriteChunk, Write, TypeOK
    <3>2. task[t].linked /\ ~task[t].holed
      BY <1>0, <1>3, <1>9, <2>1 DEF WriteChunk
    <3>3. ~\E s \in Slots \ {t} : Shares(s, t)
      BY <1>0, <1>3, <2>1 DEF Shares, Writes
    <3>4. task[t].intact => chunk'[j] = "good"
      BY <1>0, <1>1, <1>9, <3>2, <3>3 DEF WriteChunk, TypeOK
    <3>5. \A s \in Slots : Writes(s, j)' => s = t
      BY <1>1, <1>3, <2>1
    <3>6. ~Counted(j)'
      BY <1>1, <1>2, <1>3, <1>9, <2>1 DEF WriteChunk
    <3> QED BY <3>1, <3>4, <3>5, <3>6 DEF At
  <2> QED BY <1>5, <1>7, <1>9, <2>1 DEF WriteChunk
<1>10. CASE Conclude(t)
  <2>1. task'[t] = Free /\ \A s \in Slots : Writes(s, j)' => s # t
    <3> DEFINE U == Unlink({j})
    <3>1. task' = [task EXCEPT ![t] = Free] \/ task' = [U EXCEPT ![t] = Free]
      BY <1>0, <1>10 DEF Conclude
    <3>2. U \in [Slots -> Write \cup Finalize \cup {Free}]
      BY <1>1, UnlinkTypes
    <3> HIDE DEF U
    <3>3. task'[t] = Free
      BY <1>1, <3>1, <3>2 DEF TypeOK
    <3> QED BY <3>3 DEF Writes, IsWrite, Free
  <2>2. tries[j] <= 1 => \A s \in Slots : ~Writes(s, j)'
    BY <1>1, <1>3, <2>1
  <2>3. CASE ~task[t].intact
    <3>1. uploaded' = uploaded
      BY <1>10, <2>3 DEF Conclude
    <3>2. tries[j] <= 1 => Fine(j)
      BY <1>1, <1>2, <1>3, <2>2, <3>1
    <3> QED BY <1>5, <1>7, <3>1, <3>2
  <2>4. CASE task[t].intact
    <3>1. uploaded' = Append(uploaded, j) /\ chunk' = chunk /\ At(t, "conclude")
      BY <1>0, <1>10, <2>4 DEF Conclude
    <3>2. uploaded \in Seq(Sent)
      BY <1>1 DEF TypeOK
    <3>3. \A i \in Sent : Counted(i)' => Counted(i) \/ i = j
      BY <1>1, <3>1, <3>2 DEF Counted
    <3>4. OneAttempt'
      BY <1>1, <1>4, <2>2, <3>3 DEF StoredInv, OneAttempt
    <3>5. ASSUME dir, NEW i \in Sent, tries[i] <= 1 PROVE Fine(i)
      <4>1. CASE i = j
        BY <1>3, <2>2, <2>4, <3>1, <3>5, <4>1
      <4>2. CASE i # j
        BY <1>1, <3>3, <3>5, <4>2 DEF StoredInv, Stored, At
      <4> QED BY <4>1, <4>2
    <3>6. Stored'
      BY <1>1, <3>5 DEF Stored
    <3> QED BY <3>4, <3>6
  <2> QED BY <2>3, <2>4
<1> QED BY <1>8, <1>9, <1>10

LEMMA NextStored == StoredInv /\ [Next]_vars => StoredInv'
<1> SUFFICES ASSUME StoredInv, [Next]_vars PROVE StoredInv'
  OBVIOUS
<1>1. TypeOK' /\ InLoop' /\ NothingBefore'
  BY NextType, NextInLoop, NextNothingBefore DEF StoredInv
<1>2. CASE \/ Initiate \/ Expire \/ Cancel \/ Crash \/ UNCHANGED vars
           \/ \E t \in Slots : \/ BeginFinalize(t) \/ OpenTarget(t) \/ CheckChunk(t)
                               \/ ReadChunk(t) \/ CloseTarget(t) \/ Answer(t)
  <2>1. (dir' => dir \/ ~begun) /\ (~begun' => ~begun)
    <3>1. CASE Initiate \/ Expire \/ Cancel \/ Crash \/ UNCHANGED vars
      BY <3>1 DEF Initiate, Expire, Cancel, Crash, vars
    <3>2. ASSUME NEW t \in Slots, \/ BeginFinalize(t) \/ OpenTarget(t) \/ CheckChunk(t)
                                 \/ ReadChunk(t) \/ CloseTarget(t) \/ Answer(t)
          PROVE  (dir' => dir) /\ begun' = begun
      BY <3>2 DEF BeginFinalize, OpenTarget, CheckChunk, ReadChunk, CloseTarget, Answer
    <3> QED BY <1>2, <3>1, <3>2
  <2>2. OneAttempt' /\ Stored'
    BY <1>1, <1>2, <2>1, OthersLeave, OthersStored DEF StoredInv
  <2> QED BY <1>1, <2>2 DEF StoredInv
<1>3. ASSUME NEW t \in Slots, NEW i \in Sent, NEW intact \in BOOLEAN, SendChunk(t, i, intact)
      PROVE  OneAttempt' /\ Stored'
  BY <1>3, SendStored
<1>4. ASSUME NEW t \in Slots, OpenChunk(t) \/ WriteChunk(t) \/ Conclude(t)
      PROVE  OneAttempt' /\ Stored'
  BY <1>4, WriterStored
<1> QED BY <1>1, <1>2, <1>3, <1>4 DEF Next, Request, Resume, StoredInv

\* What finalize counts, of chunks sent once, is on disk as it was sent as long as the directory
\* is, whatever requests and crashes come between.
THEOREM CountedStored == Spec => []CountedIsStored
<1>1. Init => StoredInv
  <2> SUFFICES ASSUME Init PROVE StoredInv
    OBVIOUS
  <2>1. /\ TypeOK /\ InLoop /\ NothingBefore /\ ~dir /\ uploaded = <<>>
        /\ \A t \in Slots : ~IsWrite(t)
    BY InitType DEF Init, NothingBefore, IsWrite, Free
  <2>2. \A i \in Sent : ~Counted(i)
    BY <2>1 DEF Counted
  <2> QED BY <2>1, <2>2 DEF StoredInv, OneAttempt, Stored, Writes
<1>2. StoredInv => CountedIsStored
  <2> SUFFICES ASSUME StoredInv, NEW k \in 1..Len(uploaded), dir, tries[uploaded[k]] = 1
               PROVE  chunk[uploaded[k]] = "good"
    BY DEF CountedIsStored
  <2>1. uploaded[k] \in Sent /\ Counted(uploaded[k])
    BY DEF StoredInv, TypeOK, Counted
  <2> QED BY <2>1 DEF StoredInv, Stored
<1> QED BY NextStored, <1>1, <1>2, PTL DEF Spec
=============================================================================
