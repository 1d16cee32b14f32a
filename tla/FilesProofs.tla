----------------------------- MODULE FilesProofs -----------------------------
(***************************************************************************)
(* What the files of a storage are made of, that none of them begins with  *)
(* bytes that the scanner rejects, that they form a tree, and that what    *)
(* uploads, copies, deletions, moves and downloads tell is so, unless      *)
(* other requests came near: for any paths, requests and limit.            *)
(***************************************************************************)
EXTENDS Files, SequenceTheorems, FiniteSetTheorems, TLAPS

-----------------------------------------------------------------------------
(* The inductive invariant.                                                *)

\* What a request that asks for q has with it while it is at step t, with so many results and
\* that body: a step of its own kind, and what that step goes on to use.
StepFits(q, t, n, b) ==
    t # None =>
      /\ t.at \in {"open", "write", "discard"} => q.kind = "upload"
      /\ t.at = "write" => /\ t.node \in Nodes /\ t.i <= Limit
                           /\ q.scan = "magic" => t.i = 0
      /\ t.at \in {"tree", "file", "copy"} => q.kind = "copy"
      /\ t.at = "copy" /\ t.node # None => t.from \in Nodes
      /\ t.at \in {"item", "scan", "remove", "rmtree"} =>
             q.kind = "items" /\ t.i \in Executed(q.ops) /\ n < t.i
      /\ t.at \in {"serve", "stream"} => q.kind = "download"
      /\ t.at \in {"lookup", "scandir", "store"} => q.kind = "list"
      /\ t.at = "stream" => b \in [head : Seq(Blocks), sent : Seq(Blocks)]

\* Where a request is, its kind of request may be.
Placed(r) == StepFits(asked[r], task[r], Len(results[r]), body[r])

\* A request that has not begun has no results.
Fresh(r) == asked[r] = None => Len(results[r]) = 0

\* A block that a file may have: the scanner let its request through.
Magic(r)  == asked[r] # None /\ asked[r].kind = "upload" /\ asked[r].scan = "magic"
Passed(x) == x # None /\ x[1] # Old => asked[x[1]] # None /\ ~Magic(x[1])
Clean     == \A n \in Nodes : \A i \in 1..Len(content[n]) : Passed(content[n][i])

FilesInv == TypeOK /\ Clean /\ \A r \in Requests : Placed(r) /\ Fresh(r)

-----------------------------------------------------------------------------
(* What the parts of a step leave.                                         *)

Outcomes == {"none", "ok", "refused", "failed"}
Bodies   == [head : Seq(Blocks), sent : Seq(Blocks)] \cup {None}

\* The request r asks for something, and no other one for anything else than before.
Asking(r) ==
    /\ asked' \in [Requests -> Asks \cup {None}]
    /\ asked'[r] # None
    /\ \A q \in Requests : asked[q] # None \/ q # r => asked'[q] = asked[q]

\* The request r is at another step, which fits it, and the others stay where they are.
Stepped(r) ==
    /\ Asking(r)
    /\ task' \in [Requests -> Tasks \cup {None}]
    /\ outcome' \in [Requests -> Outcomes]
    /\ results' \in [Requests -> Seq(Answer)]
    /\ Len(results'[r]) <= 2
    /\ body' \in [Requests -> Bodies]
    /\ \A q \in Requests \ {r} :
          task'[q] = task[q] /\ results'[q] = results[q] /\ body'[q] = body[q]
    /\ StepFits(asked'[r], task'[r], Len(results'[r]), body'[r])

\* The disk has files and folders, and no block in a file that the scanner rejected.
DiskKept ==
    /\ fs' \in [Paths -> Nodes \cup {Dir, None}]
    /\ content' \in [Nodes -> Seq(Blocks)]
    /\ \A n \in Nodes : Len(content'[n]) <= Limit + 1
    /\ Clean'

-----------------------------------------------------------------------------
(* The constants.                                                          *)

\* One side of a range.
Offset == 0..Limit \cup {None}

\* What every kind of request names.
LEMMA AskFields ==
    ASSUME NEW q \in Asks
    PROVE  /\ q.kind = "upload" => /\ q.path \in Paths /\ q.n \in 0..Limit + 1
                                   /\ q.scan \in {"clean", "name", "magic"}
           /\ q.kind = "copy" => q.path \in Paths /\ q.to \in Paths
           /\ q.kind = "mkdir" => q.path \in Paths
           /\ q.kind = "items" => /\ DOMAIN q.ops \subseteq 1..2
                                  /\ \A i \in DOMAIN q.ops : q.ops[i] \in Operation
           /\ q.kind = "download" => /\ q.path \in Paths
                                     /\ q.range \in (Offset \X Offset) \cup {None}
<1>1. q \in Ask
  BY FilesAssumption
<1>2. q.kind = "items" => q \in [kind : {"items"}, bulk : BOOLEAN,
                                 ops : UNION {[1..k -> Operation] : k \in 1..2}]
  BY <1>1 DEF Ask
<1>3. ASSUME q.kind = "items"
      PROVE  DOMAIN q.ops \subseteq 1..2 /\ \A i \in DOMAIN q.ops : q.ops[i] \in Operation
  <2>1. q.ops \in UNION {[1..k -> Operation] : k \in 1..2}
    BY <1>2, <1>3
  <2>2. PICK k \in 1..2 : q.ops \in [1..k -> Operation]
    BY <2>1
  <2> QED BY <2>2
<1>4. q.kind = "upload" => /\ q.path \in Paths /\ q.n \in 0..Limit + 1
                           /\ q.scan \in {"clean", "name", "magic"}
  BY <1>1 DEF Ask
<1>5. q.kind = "copy" => q.path \in Paths /\ q.to \in Paths
  BY <1>1 DEF Ask
<1>6. q.kind = "mkdir" => q.path \in Paths
  BY <1>1 DEF Ask
<1>7. q.kind = "download" => /\ q.path \in Paths
                             /\ q.range \in (Offset \X Offset) \cup {None}
  BY <1>1 DEF Ask, Offset
<1> QED BY <1>3, <1>4, <1>5, <1>6, <1>7

\* A child of a folder is below it.
LEMMA ChildUnder ==
    ASSUME NEW s \in Paths, NEW c \in Children(s)
    PROVE  c \in Under(s)
<1>1. c \in Paths /\ Parent(c) = s
  BY DEF Children
<1> DEFINE X == ToSet(c)
           n == Len(c)
<1>2. c \in Seq(X) /\ c # <<>>
  BY <1>1, FilesAssumption
<1> HIDE DEF X
<1>3. n \in Nat \ {0} /\ \A i \in 1..n : c[i] \in X
  BY <1>2, EmptySeq, ElementOfSeq
<1>4. s = SubSeq(c, 1, n - 1)
  BY <1>1 DEF Parent, Front
<1> HIDE DEF n
<1>5. s \in Seq(X) /\ Len(s) = n - 1
  <2>1. \A i \in 1..n - 1 : c[i] \in X
    BY <1>3
  <2> QED BY <2>1, <1>3, <1>4, SubSeqProperties
<1>6. SubSeq(s, 1, Len(s)) = s
  BY <1>5, SubSeqFull
<1>7. n = Len(c)
  BY DEF n
<1>8. IsPrefix(s, c)
  BY <1>3, <1>4, <1>5, <1>6, <1>7 DEF IsPrefix
<1>9. s # c
  BY <1>3, <1>5, <1>7
<1> QED BY <1>1, <1>8, <1>9 DEF Under, IsStrictPrefix

\* What the steps of a request that begins one are made of.
LEMMA StepIsTask ==
    ASSUME NEW at \in Steps
    PROVE  Step(at) \in Tasks
  BY FilesAssumption DEF Step, Tasks

-----------------------------------------------------------------------------
(* Ends, steps and items.                                                  *)

\* A request in flight has asked for something, and goes on asking for that.
LEMMA StillAsking ==
    ASSUME FilesInv, NEW r \in Requests, task[r] # None, UNCHANGED asked
    PROVE  Asking(r) /\ asked[r] \in Asks /\ asked'[r] = asked[r] /\ task[r] \in Tasks
  BY DEF FilesInv, TypeOK, Asking

\* A request that ends is nowhere any more.
LEMMA Ends ==
    ASSUME FilesInv, NEW r \in Requests, NEW result \in Outcomes, Asking(r),
           End(r, result), UNCHANGED <<results, body>>
    PROVE  Stepped(r)
<1>1. task \in [Requests -> Tasks \cup {None}] /\ outcome \in [Requests -> Outcomes]
  BY DEF FilesInv, TypeOK, Outcomes
<1>2. /\ results \in [Requests -> Seq(Answer)] /\ Len(results[r]) <= 2
      /\ body \in [Requests -> Bodies]
  BY DEF FilesInv, TypeOK, Bodies
<1>3. /\ task' \in [Requests -> Tasks \cup {None}] /\ outcome' \in [Requests -> Outcomes]
      /\ task'[r] = None /\ \A q \in Requests \ {r} : task'[q] = task[q]
  BY <1>1 DEF End
<1> QED BY <1>2, <1>3 DEF Stepped, StepFits

\* A request that goes on is at the next step, if that fits it.
LEMMA Goes ==
    ASSUME FilesInv, NEW r \in Requests, NEW step \in Tasks, Asking(r),
           StepFits(asked'[r], step, Len(results[r]), body[r]),
           Go(r, step), UNCHANGED <<results, body>>
    PROVE  Stepped(r)
<1>1. task \in [Requests -> Tasks \cup {None}] /\ outcome \in [Requests -> Outcomes]
  BY DEF FilesInv, TypeOK, Outcomes
<1>2. /\ results \in [Requests -> Seq(Answer)] /\ Len(results[r]) <= 2
      /\ body \in [Requests -> Bodies]
  BY DEF FilesInv, TypeOK, Bodies
<1>3. /\ task' \in [Requests -> Tasks \cup {None}] /\ outcome' \in [Requests -> Outcomes]
      /\ task'[r] = step /\ \A q \in Requests \ {r} : task'[q] = task[q]
  BY <1>1 DEF Go
<1>4. StepFits(asked'[r], task'[r], Len(results'[r]), body'[r])
  BY <1>3
<1> QED BY <1>2, <1>3, <1>4 DEF Stepped

\* A first step that keeps nothing fits a request of its kind.
LEMMA FirstStep ==
    ASSUME NEW q, NEW n, NEW b, NEW at \in {"open", "tree", "file", "copy", "serve", "lookup"},
           at = "open" => q.kind = "upload",
           at \in {"tree", "file", "copy"} => q.kind = "copy",
           at = "serve" => q.kind = "download",
           at = "lookup" => q.kind = "list"
    PROVE  Step(at) \in Tasks /\ StepFits(q, Step(at), n, b)
<1>1. Step(at).at = at /\ Step(at).node = None
  BY DEF Step
<1>2. at \in Steps
  BY DEF Steps
<1> QED BY <1>1, <1>2, StepIsTask DEF StepFits

\* The turn of an item whose position is beyond the results.
LEMMA TurnStep ==
    ASSUME NEW q \in Asks, q.kind = "items", NEW i \in Executed(q.ops), NEW n, n < i, NEW b
    PROVE  /\ [Step("item") EXCEPT !.i = i] \in Tasks
           /\ StepFits(q, [Step("item") EXCEPT !.i = i], n, b)
<1> DEFINE step == [Step("item") EXCEPT !.i = i]
<1>1. Step("item") \in Tasks
  BY StepIsTask DEF Steps
<1>2. i \in 1..2
  BY AskFields DEF Executed
<1>3. i \in 0..Limit + 1
  BY <1>2, FilesAssumption
<1>4. step \in Tasks /\ step.at = "item" /\ step.i = i
  BY <1>1, <1>3 DEF Tasks, Step
<1> HIDE DEF step
<1>5. StepFits(q, step, n, b)
  BY <1>4 DEF StepFits
<1> QED BY <1>4, <1>5 DEF step

\* The end of an item: one result more, and the next item beyond it or the end.
LEMMA ItemSteps ==
    ASSUME FilesInv, NEW r \in Requests, task[r] # None,
           task[r].at \in {"item", "scan", "remove", "rmtree"},
           NEW ok \in BOOLEAN, Item(r, ok), UNCHANGED <<asked, body>>
    PROVE  Stepped(r)
<1> DEFINE new == [item |-> Len(results[r]) + 1, ok |-> ok]
           more == Append(results[r], new)
<1>1. Asking(r) /\ asked[r] \in Asks /\ asked'[r] = asked[r]
  BY StillAsking
<1>2. /\ results \in [Requests -> Seq(Answer)] /\ body \in [Requests -> Bodies]
      /\ task \in [Requests -> Tasks \cup {None}] /\ outcome \in [Requests -> Outcomes]
  BY DEF FilesInv, TypeOK, Bodies, Outcomes
<1>3. asked[r].kind = "items" /\ task[r].i \in Executed(asked[r].ops) /\ Len(results[r]) < task[r].i
  <2>1. Placed(r)
    BY DEF FilesInv
  <2> QED BY <2>1 DEF Placed, StepFits
<1>4. task[r].i \in 1..2 /\ Rest(r) \subseteq Executed(asked[r].ops) /\ Rest(r) \subseteq 1..2
  BY <1>1, <1>3, AskFields DEF Rest, Executed
<1>5. more \in Seq(Answer) /\ Len(more) = Len(results[r]) + 1 /\ Len(results[r]) \in Nat
  <2>1. results[r] \in Seq(Answer) /\ Len(results[r]) \in Nat
    BY <1>2, LenProperties
  <2>2. new \in Answer
    BY <1>3, <1>4, <2>1 DEF Answer
  <2> HIDE DEF new
  <2> QED BY <2>1, <2>2, AppendProperties
<1>6. Len(more) <= task[r].i /\ Len(more) <= 2
  BY <1>3, <1>4, <1>5
<1> HIDE DEF more, new
<1>7. results' = [results EXCEPT ![r] = more]
  BY DEF Item, more, new
<1>8. /\ results' \in [Requests -> Seq(Answer)] /\ results'[r] = more
      /\ \A q \in Requests \ {r} : results'[q] = results[q]
  BY <1>2, <1>5, <1>7
<1>9. Len(results'[r]) <= 2
  BY <1>6, <1>8
<1>10. \/ Turn(r, Rest(r))
       \/ \E result \in Outcomes : End(r, result)
  BY DEF Item, Outcomes
<1>11. /\ task' \in [Requests -> Tasks \cup {None}] /\ outcome' \in [Requests -> Outcomes]
       /\ \A q \in Requests \ {r} : task'[q] = task[q]
       /\ StepFits(asked[r], task'[r], Len(more), body[r])
  <2>1. CASE Turn(r, Rest(r))
    <3>1. PICK i \in Rest(r) : Go(r, [Step("item") EXCEPT !.i = i])
      BY <2>1 DEF Turn
    <3> DEFINE step == [Step("item") EXCEPT !.i = i]
    <3>2. i \in Executed(asked[r].ops) /\ task[r].i < i /\ i \in 1..2
      BY <1>4, <3>1 DEF Rest
    <3>3. Len(more) < i
      BY <1>4, <1>5, <1>6, <3>2
    <3>4. step \in Tasks /\ StepFits(asked[r], step, Len(more), body[r])
      BY <1>1, <1>3, <3>2, <3>3, TurnStep
    <3> HIDE DEF step
    <3>5. task' = [task EXCEPT ![r] = step] /\ outcome' = outcome
      BY <3>1 DEF Go, step
    <3>6. /\ task' \in [Requests -> Tasks \cup {None}] /\ task'[r] = step
          /\ \A q \in Requests \ {r} : task'[q] = task[q]
      BY <1>2, <3>4, <3>5
    <3> QED BY <1>2, <3>4, <3>5, <3>6
  <2>2. CASE \E result \in Outcomes : End(r, result)
    <3>1. PICK result \in Outcomes : End(r, result)
      BY <2>2
    <3>2. /\ task' \in [Requests -> Tasks \cup {None}] /\ outcome' \in [Requests -> Outcomes]
          /\ task'[r] = None /\ \A q \in Requests \ {r} : task'[q] = task[q]
      BY <1>2, <3>1 DEF End
    <3> QED BY <3>2 DEF StepFits
  <2> QED BY <1>10, <2>1, <2>2
<1>12. StepFits(asked'[r], task'[r], Len(results'[r]), body'[r])
  BY <1>1, <1>8, <1>11
<1> QED BY <1>1, <1>2, <1>8, <1>9, <1>11, <1>12 DEF Stepped

-----------------------------------------------------------------------------
(* The disk.                                                               *)

\* A block that was let through still is when a request begins.
LEMMA PassedKept ==
    ASSUME FilesInv, NEW r \in Requests, Asking(r), NEW x \in Blocks, Passed(x)
    PROVE  Passed(x)'
<1> SUFFICES ASSUME x # None, x[1] # Old
             PROVE  asked'[x[1]] # None /\ ~Magic(x[1])'
  BY DEF Passed
<1>1. x[1] \in Requests
  BY DEF Blocks
<1>2. asked[x[1]] # None /\ ~Magic(x[1])
  BY DEF Passed
<1>3. asked'[x[1]] = asked[x[1]]
  BY <1>1, <1>2 DEF Asking
<1> QED BY <1>2, <1>3 DEF Magic

\* What files have are blocks that were let through.
LEMMA Through ==
    ASSUME FilesInv, NEW n \in Nodes, NEW i \in 1..Len(content[n])
    PROVE  content[n][i] \in Blocks /\ Passed(content[n][i])
<1>1. content[n] \in Seq(Blocks)
  BY DEF FilesInv, TypeOK
<1>2. content[n][i] \in Blocks
  BY <1>1, ElementOfSeq
<1> QED BY <1>2 DEF FilesInv, Clean

\* Files whose blocks had all been let through stay so when a request begins.
LEMMA CleanKept ==
    ASSUME FilesInv, NEW r \in Requests, Asking(r), content' \in [Nodes -> Seq(Blocks)],
           \A n \in Nodes : \A i \in 1..Len(content'[n]) : Passed(content'[n][i])
    PROVE  Clean'
<1>1. \A x \in Blocks : Passed(x) => Passed(x)'
  BY PassedKept
<1>2. \A x \in Blocks : Passed(x) =>
        (x # None /\ x[1] # Old => asked'[x[1]] # None /\ ~Magic(x[1])')
  BY <1>1 DEF Passed
<1>3. \A n \in Nodes : \A i \in 1..Len(content'[n]) : content'[n][i] \in Blocks
  BY ElementOfSeq
<1>4. ASSUME NEW n \in Nodes, NEW i \in 1..Len(content'[n])
      PROVE  Passed(content[n][i])'
  <2>1. content'[n][i] \in Blocks /\ Passed(content'[n][i])
    BY <1>3, <1>4
  <2> QED BY <1>2, <2>1 DEF Passed, Magic
<1> QED BY <1>4 DEF Clean

\* The contents are as they were: so are their blocks.
LEMMA SameContent ==
    ASSUME FilesInv, NEW r \in Requests, Asking(r), UNCHANGED content,
           fs' \in [Paths -> Nodes \cup {Dir, None}]
    PROVE  DiskKept
<1>1. /\ content \in [Nodes -> Seq(Blocks)] /\ \A n \in Nodes : Len(content[n]) <= Limit + 1
  BY DEF FilesInv, TypeOK
<1>2. \A n \in Nodes : \A i \in 1..Len(content'[n]) : Passed(content'[n][i])
  BY Through
<1>3. Clean'
  BY <1>1, <1>2, CleanKept
<1> QED BY <1>1, <1>3 DEF DiskKept

\* An opened file is one, new or not.
LEMMA OpenedNode ==
    ASSUME FilesInv, NEW r \in Requests, NEW p \in Paths, CanOpen(p)
    PROVE  Opened(r, p) \in Nodes
  BY DEF FilesInv, TypeOK, CanOpen, Opened, Nodes

\* Opening a file empties it and changes no other one.
LEMMA OpeningKeeps ==
    ASSUME FilesInv, NEW r \in Requests, NEW p \in Paths, CanOpen(p), Opening(r, p), Asking(r)
    PROVE  DiskKept
<1> DEFINE m == Opened(r, p)
<1>1. m \in Nodes
  BY OpenedNode
<1>2. fs' = [fs EXCEPT ![p] = m] /\ content' = [content EXCEPT ![m] = <<>>]
  BY DEF Opening
<1> HIDE DEF m
<1>3. /\ fs \in [Paths -> Nodes \cup {Dir, None}] /\ content \in [Nodes -> Seq(Blocks)]
      /\ \A n \in Nodes : Len(content[n]) <= Limit + 1
  BY DEF FilesInv, TypeOK
<1>4. fs' \in [Paths -> Nodes \cup {Dir, None}]
  BY <1>1, <1>2, <1>3
<1>5. /\ content' \in [Nodes -> Seq(Blocks)]
      /\ \A n \in Nodes : content'[n] = IF n = m THEN <<>> ELSE content[n]
  BY <1>1, <1>2, <1>3
<1>6. Len(<<>>) = 0 /\ 1..0 = {} /\ 0 <= Limit + 1
  BY FilesAssumption
<1>7. \A n \in Nodes : Len(content'[n]) <= Limit + 1
  BY <1>3, <1>5, <1>6
<1>8. \A n \in Nodes : \A i \in 1..Len(content'[n]) : Passed(content'[n][i])
  <2>1. SUFFICES ASSUME NEW n \in Nodes, NEW i \in 1..Len(content'[n])
                 PROVE  Passed(content'[n][i])
    OBVIOUS
  <2>2. n # m /\ content'[n] = content[n]
    BY <1>5, <1>6
  <2> QED BY <2>2, Through
<1>9. Clean'
  BY <1>5, <1>8, CleanKept
<1> QED BY <1>4, <1>5, <1>7, <1>9 DEF DiskKept

\* A block written: it is there, and the others are or there is a hole.
LEMMA WrittenBlocks ==
    ASSUME NEW c \in Seq(Blocks), NEW i \in 1..Limit + 1, NEW x \in Blocks,
           Len(c) <= Limit + 1
    PROVE  /\ Written(c, i, x) \in Seq(Blocks)
           /\ Len(Written(c, i, x)) <= Limit + 1
           /\ \A j \in 1..Len(Written(c, i, x)) :
                 \/ Written(c, i, x)[j] \in {x, None}
                 \/ j \in 1..Len(c) /\ Written(c, i, x)[j] = c[j]
<1> DEFINE n == IF i > Len(c) THEN i ELSE Len(c)
           e(j) == IF j = i THEN x ELSE IF j <= Len(c) THEN c[j] ELSE None
           w == [j \in 1..n |-> e(j)]
<1>1. Limit \in Nat /\ Len(c) \in Nat
  BY FilesAssumption, LenProperties
<1>2. n \in Nat /\ n <= Limit + 1
  BY <1>1
<1>3. \A j \in 1..n : e(j) \in Blocks
  <2>1. \A j \in 1..Len(c) : c[j] \in Blocks
    BY ElementOfSeq
  <2>2. None \in Blocks
    BY DEF Blocks
  <2> QED BY <1>1, <2>1, <2>2
<1>4. w \in Seq(Blocks)
  <2> HIDE DEF n, e
  <2> QED BY <1>2, <1>3, IsASeq
<1>5. Len(w) = n /\ \A j \in 1..n : w[j] = e(j)
  <2> HIDE DEF n, e
  <2>1. DOMAIN w = 1..n
    OBVIOUS
  <2>2. DOMAIN w = 1..Len(w) /\ Len(w) \in Nat
    BY <1>4, LenProperties
  <2>3. Len(w) = n
    <3> HIDE DEF w
    <3> QED BY <1>2, <2>1, <2>2
  <2> QED BY <2>3
<1>6. \A j \in 1..n : e(j) \in {x, None} \/ (j \in 1..Len(c) /\ e(j) = c[j])
  <2>1. SUFFICES ASSUME NEW j \in 1..n
                 PROVE  e(j) \in {x, None} \/ (j \in 1..Len(c) /\ e(j) = c[j])
    OBVIOUS
  <2>2. j \in Nat \ {0}
    <3> HIDE DEF n
    <3> QED BY <1>2
  <2>3. j <= Len(c) => j \in 1..Len(c)
    BY <1>1, <2>2
  <2>4. e(j) = x \/ e(j) = None \/ (j <= Len(c) /\ e(j) = c[j])
    OBVIOUS
  <2> HIDE DEF e, n
  <2> QED BY <2>3, <2>4
<1>7. Written(c, i, x) = w
  BY DEF Written
<1> HIDE DEF n, e, w
<1> QED BY <1>2, <1>4, <1>5, <1>6, <1>7

\* Writing a block that was let through changes one file, to one of such blocks.
LEMMA WritingKeeps ==
    ASSUME FilesInv, NEW r \in Requests, Asking(r), NEW m \in Nodes, NEW i \in 1..Limit + 1,
           NEW x \in Blocks, Passed(x), UNCHANGED fs,
           content' = [content EXCEPT ![m] = Written(@, i, x)]
    PROVE  DiskKept
<1> DEFINE w == Written(content[m], i, x)
<1>1. /\ fs \in [Paths -> Nodes \cup {Dir, None}] /\ content \in [Nodes -> Seq(Blocks)]
      /\ \A n \in Nodes : Len(content[n]) <= Limit + 1
  BY DEF FilesInv, TypeOK
<1>2. /\ w \in Seq(Blocks) /\ Len(w) <= Limit + 1
      /\ \A j \in 1..Len(w) : \/ w[j] \in {x, None}
                              \/ j \in 1..Len(content[m]) /\ w[j] = content[m][j]
  BY <1>1, WrittenBlocks
<1>3. content' = [content EXCEPT ![m] = w]
  OBVIOUS
<1> HIDE DEF w
<1>4. /\ content' \in [Nodes -> Seq(Blocks)]
      /\ \A n \in Nodes : content'[n] = IF n = m THEN w ELSE content[n]
  BY <1>1, <1>2, <1>3
<1>5. \A n \in Nodes : Len(content'[n]) <= Limit + 1
  BY <1>1, <1>2, <1>4
<1>6. \A n \in Nodes : \A j \in 1..Len(content'[n]) : Passed(content'[n][j])
  <2>1. SUFFICES ASSUME NEW n \in Nodes, NEW j \in 1..Len(content'[n])
                 PROVE  Passed(content'[n][j])
    OBVIOUS
  <2>2. CASE n # m
    BY <1>4, <2>2, Through
  <2>3. CASE n = m
    <3>1. content'[n] = w /\ j \in 1..Len(w)
      BY <1>4, <2>3
    <3>2. Passed(None)
      BY DEF Passed
    <3>3. CASE w[j] \in {x, None}
      BY <3>1, <3>2, <3>3
    <3>4. CASE j \in 1..Len(content[m]) /\ w[j] = content[m][j]
      BY <3>1, <3>4, Through
    <3> QED BY <1>2, <3>1, <3>3, <3>4
  <2> QED BY <2>2, <2>3
<1>7. Clean'
  BY <1>4, <1>6, CleanKept
<1> QED BY <1>1, <1>4, <1>5, <1>7 DEF DiskKept

-----------------------------------------------------------------------------
(* How requests begin.                                                     *)

\* A request that begins with q asks for that from now on.
LEMMA NowAsking ==
    ASSUME FilesInv, NEW r \in Requests, NEW q \in Asks, asked[r] = None,
           asked' = [asked EXCEPT ![r] = q]
    PROVE  Asking(r) /\ asked'[r] = q
<1>1. asked \in [Requests -> Asks \cup {None}]
  BY DEF FilesInv, TypeOK
<1>2. q # None
  BY FilesAssumption
<1> QED BY <1>1, <1>2 DEF Asking

\* Folders made leave folders and files at the paths.
LEMMA DirsMade ==
    ASSUME FilesInv, NEW p
    PROVE  WithDirs(p) \in [Paths -> Nodes \cup {Dir, None}]
<1>1. fs \in [Paths -> Nodes \cup {Dir, None}]
  BY DEF FilesInv, TypeOK
<1> QED BY <1>1 DEF WithDirs

LEMMA BeginUploadSteps ==
    ASSUME FilesInv, NEW r \in Requests, NEW q \in Asks, Asking(r), asked'[r] = q,
           BeginUpload(r, q)
    PROVE  Stepped(r) /\ DiskKept
<1>1. fs \in [Paths -> Nodes \cup {Dir, None}]
  BY DEF FilesInv, TypeOK
<1>2. UNCHANGED <<content, results, body>> /\ q.kind = "upload"
  BY DEF BeginUpload, told
<1>3. \/ (\E result \in Outcomes : End(r, result)) /\ UNCHANGED fs
      \/ fs' = WithDirs(Parent(q.path)) /\ Go(r, Step("open"))
  BY DEF BeginUpload, Outcomes
<1>4. fs' \in [Paths -> Nodes \cup {Dir, None}]
  BY <1>1, <1>3, DirsMade
<1>5. DiskKept
  BY <1>2, <1>4, SameContent
<1>6. Step("open") \in Tasks /\ StepFits(q, Step("open"), Len(results[r]), body[r])
  BY <1>2, FirstStep
<1>7. Stepped(r)
  BY <1>2, <1>3, <1>6, Ends, Goes
<1> QED BY <1>5, <1>7

LEMMA BeginCopySteps ==
    ASSUME FilesInv, NEW r \in Requests, NEW q \in Asks, Asking(r), asked'[r] = q,
           BeginCopy(r, q)
    PROVE  Stepped(r) /\ DiskKept
<1>1. fs \in [Paths -> Nodes \cup {Dir, None}]
  BY DEF FilesInv, TypeOK
<1>2. UNCHANGED <<fs, content, results, body>> /\ q.kind = "copy"
  BY DEF BeginCopy, told, disk
<1>3. PICK at \in {"tree", "file"} : Go(r, Step(at))
  BY DEF BeginCopy
<1>4. Step(at) \in Tasks /\ StepFits(q, Step(at), Len(results[r]), body[r])
  BY <1>2, FirstStep
<1>5. DiskKept
  BY <1>1, <1>2, SameContent
<1> QED BY <1>2, <1>3, <1>4, <1>5, Goes

LEMMA BeginMkdirSteps ==
    ASSUME FilesInv, NEW r \in Requests, NEW q \in Asks, Asking(r), asked'[r] = q,
           BeginMkdir(r, q)
    PROVE  Stepped(r) /\ DiskKept
<1>1. fs \in [Paths -> Nodes \cup {Dir, None}]
  BY DEF FilesInv, TypeOK
<1>2. UNCHANGED <<content, results, body>> /\ \E result \in Outcomes : End(r, result)
  BY DEF BeginMkdir, told, Outcomes
<1>3. fs' \in [Paths -> Nodes \cup {Dir, None}]
  BY <1>1, DirsMade DEF BeginMkdir
<1> QED BY <1>2, <1>3, SameContent, Ends

LEMMA BeginItemsSteps ==
    ASSUME FilesInv, NEW r \in Requests, NEW q \in Asks, asked[r] = None,
           Asking(r), asked'[r] = q, BeginItems(r, q)
    PROVE  Stepped(r) /\ DiskKept
<1>1. fs \in [Paths -> Nodes \cup {Dir, None}]
  BY DEF FilesInv, TypeOK
<1>2. UNCHANGED <<fs, content, results, body>> /\ q.kind = "items"
  BY DEF BeginItems, told, disk
<1>3. Len(results[r]) = 0
  BY DEF FilesInv, Fresh
<1>4. CASE Turn(r, Executed(q.ops))
  <2>1. PICK i \in Executed(q.ops) : Go(r, [Step("item") EXCEPT !.i = i])
    BY <1>4 DEF Turn
  <2>2. i \in 1..2
    BY <1>2, AskFields DEF Executed
  <2>3. Len(results[r]) < i
    BY <1>3, <2>2
  <2>4. /\ [Step("item") EXCEPT !.i = i] \in Tasks
        /\ StepFits(q, [Step("item") EXCEPT !.i = i], Len(results[r]), body[r])
    BY <1>2, <2>3, TurnStep
  <2> QED BY <1>1, <1>2, <2>1, <2>4, Goes, SameContent
<1>5. CASE End(r, "ok")
  BY <1>1, <1>2, <1>5, Ends, SameContent DEF Outcomes
<1> QED BY <1>4, <1>5 DEF BeginItems

LEMMA BeginDownloadSteps ==
    ASSUME FilesInv, NEW r \in Requests, NEW q \in Asks, Asking(r), asked'[r] = q,
           BeginDownload(r, q)
    PROVE  Stepped(r) /\ DiskKept
<1>1. fs \in [Paths -> Nodes \cup {Dir, None}]
  BY DEF FilesInv, TypeOK
<1>2. UNCHANGED <<fs, content, results, body>> /\ q.kind = "download"
  BY DEF BeginDownload, told, disk
<1>3. Step("serve") \in Tasks /\ StepFits(q, Step("serve"), Len(results[r]), body[r])
  BY <1>2, FirstStep
<1>4. (\E result \in Outcomes : End(r, result)) \/ Go(r, Step("serve"))
  BY DEF BeginDownload, Outcomes
<1> QED BY <1>1, <1>2, <1>3, <1>4, Ends, Goes, SameContent

LEMMA BeginListSteps ==
    ASSUME FilesInv, NEW r \in Requests, NEW q \in Asks, Asking(r), asked'[r] = q,
           BeginList(r, q)
    PROVE  Stepped(r) /\ DiskKept
<1>1. fs \in [Paths -> Nodes \cup {Dir, None}]
  BY DEF FilesInv, TypeOK
<1>2. UNCHANGED <<fs, content, results, body>> /\ Go(r, Step("lookup")) /\ q.kind = "list"
  BY DEF BeginList, told, disk
<1>3. Step("lookup") \in Tasks /\ StepFits(q, Step("lookup"), Len(results[r]), body[r])
  BY <1>2, FirstStep
<1> QED BY <1>1, <1>2, <1>3, Goes, SameContent

\* One request at another step, on a disk kept, is all that the invariant needs.
LEMMA Assembled ==
    ASSUME FilesInv, NEW r \in Requests, Stepped(r), DiskKept,
           before' \in [Requests -> SUBSET Requests]
    PROVE  FilesInv'
<1>1. /\ \A q \in Requests : task[q] # None => asked[q] # None
      /\ \A q \in Requests : Len(results[q]) <= 2
      /\ \A q \in Requests : Placed(q) /\ Fresh(q)
  BY DEF FilesInv, TypeOK
<1>2. /\ \A q \in Requests : task'[q] # None => asked'[q] # None
      /\ \A q \in Requests : Len(results'[q]) <= 2
  BY <1>1 DEF Stepped, Asking
<1>3. TypeOK'
  BY <1>2 DEF TypeOK, Stepped, Asking, DiskKept, Outcomes, Bodies
<1>4. ASSUME NEW q \in Requests
      PROVE  Placed(q)' /\ Fresh(q)'
  <2>1. CASE q = r
    BY <2>1 DEF Stepped, Asking, Placed, Fresh
  <2>2. CASE q # r
    <3>1. /\ task'[q] = task[q] /\ results'[q] = results[q] /\ body'[q] = body[q]
          /\ asked'[q] = asked[q]
      BY <2>2 DEF Stepped, Asking
    <3>2. Fresh(q)'
      BY <1>1, <3>1 DEF Fresh
    <3>3. Placed(q)'
      BY <1>1, <3>1 DEF Placed
    <3> QED BY <3>2, <3>3
  <2> QED BY <2>1, <2>2
<1> QED BY <1>3, <1>4 DEF FilesInv, DiskKept

LEMMA BeginKeeps ==
    ASSUME FilesInv, NEW r \in Requests, Begin(r)
    PROVE  FilesInv'
<1>1. before' \in [Requests -> SUBSET Requests]
  BY DEF FilesInv, TypeOK, Begin
<1>2. asked[r] = None
  BY DEF Begin
<1>3. PICK q \in Asks :
        /\ asked' = [asked EXCEPT ![r] = q]
        /\ \/ BeginUpload(r, q) \/ BeginCopy(r, q) \/ BeginMkdir(r, q)
           \/ BeginItems(r, q) \/ BeginDownload(r, q) \/ BeginList(r, q)
  BY DEF Begin
<1>4. Asking(r) /\ asked'[r] = q
  BY <1>2, <1>3, NowAsking
<1>5. Stepped(r) /\ DiskKept
  BY <1>2, <1>3, <1>4, BeginUploadSteps, BeginCopySteps, BeginMkdirSteps,
     BeginItemsSteps, BeginDownloadSteps, BeginListSteps
<1> QED BY <1>1, <1>5, Assembled

-----------------------------------------------------------------------------
(* Uploads.                                                                *)

\* What a request in flight has with it.
LEMMA InFlight ==
    ASSUME FilesInv, NEW r \in Requests, task[r] # None
    PROVE  /\ task[r] \in Tasks /\ asked[r] \in Asks
           /\ StepFits(asked[r], task[r], Len(results[r]), body[r])
           /\ fs \in [Paths -> Nodes \cup {Dir, None}]
  BY DEF FilesInv, TypeOK, Placed

LEMMA OpenSteps ==
    ASSUME FilesInv, NEW r \in Requests, Open(r)
    PROVE  Stepped(r) /\ DiskKept
<1> DEFINE p    == asked[r].path
           step == [Step("write") EXCEPT !.node = Opened(r, p)]
<1>1. task[r] # None /\ task[r].at = "open" /\ UNCHANGED <<asked, results, body>>
  BY DEF Open, At, told
<1>2. Asking(r) /\ asked'[r] = asked[r]
  BY <1>1, StillAsking
<1>3. asked[r].kind = "upload" /\ p \in Paths
  BY <1>1, InFlight, AskFields DEF StepFits
<1>4. CASE End(r, "failed") /\ UNCHANGED disk
  BY <1>1, <1>2, <1>4, InFlight, Ends, SameContent DEF disk, Outcomes
<1>5. CASE CanOpen(p) /\ Opening(r, p) /\ Go(r, step)
  <2>1. DiskKept
    BY <1>2, <1>3, <1>5, OpeningKeeps
  <2>2. Opened(r, p) \in Nodes
    BY <1>3, <1>5, OpenedNode
  <2>3. Step("write") \in Tasks
    BY StepIsTask DEF Steps
  <2>4. step \in Tasks /\ step.at = "write" /\ step.node = Opened(r, p) /\ step.i = 0
    BY <2>2, <2>3 DEF Tasks, Step
  <2> HIDE DEF step
  <2>5. StepFits(asked'[r], step, Len(results[r]), body[r])
    BY <1>2, <1>3, <2>2, <2>4, FilesAssumption DEF StepFits
  <2>6. Stepped(r)
    BY <1>1, <1>2, <1>5, <2>4, <2>5, Goes
  <2> QED BY <2>1, <2>6
<1> QED BY <1>4, <1>5 DEF Open

LEMMA WriteSteps ==
    ASSUME FilesInv, NEW r \in Requests, Write(r)
    PROVE  Stepped(r) /\ DiskKept
<1> DEFINE q == asked[r]
           i == task[r].i + 1
           n == task[r].node
           step == [task[r] EXCEPT !.i = i]
<1>1. /\ task[r] # None /\ task[r].at = "write"
      /\ UNCHANGED <<fs, asked, results, body>>
  BY DEF Write, At, told
<1>2. Asking(r) /\ asked'[r] = q /\ task[r] \in Tasks
  BY <1>1, StillAsking
<1>3. /\ q.kind = "upload" /\ q \in Asks /\ n \in Nodes /\ task[r].i <= Limit
      /\ q.scan = "magic" => task[r].i = 0
  BY <1>1, InFlight DEF StepFits
<1>4. Limit \in Nat /\ task[r].i \in 0..Limit + 1
  BY <1>2, FilesAssumption DEF Tasks
<1>5. i \in 1..Limit + 1
  BY <1>3, <1>4
<1>6. Step("discard") \in Tasks /\ StepFits(q, Step("discard"), Len(results[r]), body[r])
  <2>1. Step("discard").at = "discard"
    BY DEF Step
  <2>2. Step("discard") \in Tasks
    BY StepIsTask DEF Steps
  <2> QED BY <1>3, <2>1, <2>2 DEF StepFits
<1>7. CASE UNCHANGED content /\ (End(r, "ok") \/ Go(r, Step("discard")))
  <2>1. DiskKept
    BY <1>1, <1>2, <1>7, InFlight, SameContent
  <2>2. Stepped(r)
    BY <1>1, <1>2, <1>6, <1>7, Ends, Goes DEF Outcomes
  <2> QED BY <2>1, <2>2
<1>8. CASE /\ ~(i = 1 /\ q.scan = "magic")
           /\ content' = [content EXCEPT ![n] = Written(@, i, <<r, i>>)]
           /\ IF i > Limit THEN Go(r, Step("discard")) ELSE Go(r, step)
  <2>1. q.scan # "magic"
    BY <1>3, <1>8
  <2>2. <<r, i>> \in Blocks
    BY <1>5 DEF Blocks
  <2>3. Passed(<<r, i>>)
    BY <1>2, <2>1 DEF Passed, Magic, Asking
  <2>4. DiskKept
    <3> HIDE DEF i
    <3> QED BY <1>1, <1>2, <1>3, <1>5, <1>8, <2>2, <2>3, WritingKeeps
  <2>5. CASE i > Limit
    <3>1. Go(r, Step("discard"))
      BY <1>8, <2>5
    <3> QED BY <1>1, <1>2, <1>6, <2>4, <3>1, Goes
  <2>6. CASE ~(i > Limit)
    <3>1. Go(r, step)
      BY <1>8, <2>6
    <3>2. step \in Tasks /\ step.at = "write" /\ step.node = n /\ step.i = i
      BY <1>1, <1>2, <1>5 DEF Tasks
    <3> HIDE DEF step
    <3>3. StepFits(q, step, Len(results[r]), body[r])
      BY <1>3, <1>4, <2>1, <2>6, <3>2 DEF StepFits
    <3> QED BY <1>1, <1>2, <2>4, <3>1, <3>2, <3>3, Goes
  <2> QED BY <2>5, <2>6
<1> QED BY <1>7, <1>8 DEF Write

LEMMA DiscardSteps ==
    ASSUME FilesInv, NEW r \in Requests, Discard(r)
    PROVE  Stepped(r) /\ DiskKept
<1>1. task[r] # None /\ UNCHANGED <<content, asked, results, body>>
  BY DEF Discard, At, told
<1>2. Asking(r)
  BY <1>1, StillAsking
<1>3. \E result \in Outcomes : End(r, result)
  BY DEF Discard, Outcomes
<1>4. fs \in [Paths -> Nodes \cup {Dir, None}]
  BY <1>1, InFlight
<1>5. fs' \in [Paths -> Nodes \cup {Dir, None}]
  BY <1>4 DEF Discard
<1> QED BY <1>1, <1>2, <1>3, <1>5, Ends, SameContent

-----------------------------------------------------------------------------
(* Copies.                                                                 *)

\* A step of a copy that is between two entries.
LEMMA BetweenEntries ==
    ASSUME FilesInv, NEW r \in Requests, task[r] # None, asked[r].kind = "copy",
           NEW step \in Tasks, step.at = "copy", step.node = None,
           UNCHANGED <<asked, results, body>>, Go(r, step)
    PROVE  Stepped(r)
<1>1. Asking(r) /\ asked'[r] = asked[r]
  BY StillAsking
<1>2. StepFits(asked'[r], step, Len(results[r]), body[r])
  BY <1>1 DEF StepFits
<1> QED BY <1>1, <1>2, Goes

LEMMA CopyTreeSteps ==
    ASSUME FilesInv, NEW r \in Requests, CopyTree(r)
    PROVE  Stepped(r) /\ DiskKept
<1> DEFINE s == asked[r].path
           t == asked[r].to
           todo == {<<c, Image(c, s, t)>> : c \in Children(s)}
           step == [Step("copy") EXCEPT !.todo = todo]
<1>1. /\ task[r] # None /\ task[r].at = "tree"
      /\ UNCHANGED <<content, asked, results, body>>
  BY DEF CopyTree, At, told
<1>2. Asking(r) /\ asked'[r] = asked[r]
  BY <1>1, StillAsking
<1>3. asked[r].kind = "copy" /\ s \in Paths /\ t \in Paths
  BY <1>1, InFlight, AskFields DEF StepFits
<1>4. CASE End(r, "failed") /\ UNCHANGED fs
  BY <1>1, <1>2, <1>4, InFlight, Ends, SameContent DEF Outcomes
<1>5. CASE InBounds(s, t) /\ fs' = WithDirs(t) /\ Go(r, step)
  <2>1. DiskKept
    BY <1>1, <1>2, <1>5, DirsMade, SameContent
  <2>2. \A c \in Children(s) : <<c, Image(c, s, t)>> \in Paths \X Paths
    <3>1. \A c \in Children(s) : c \in Paths /\ fs[c] # None
      BY DEF Children
    <3> QED BY <1>3, <1>5, <3>1, ChildUnder DEF InBounds
  <2>3. todo \subseteq Paths \X Paths
    BY <2>2
  <2>4. Step("copy") \in Tasks
    BY StepIsTask DEF Steps
  <2> HIDE DEF todo
  <2>5. step \in Tasks /\ step.at = "copy" /\ step.node = None
    BY <2>3, <2>4 DEF Tasks, Step
  <2> HIDE DEF step
  <2>6. Stepped(r)
    BY <1>1, <1>3, <1>5, <2>5, BetweenEntries
  <2> QED BY <2>1, <2>6
<1> QED BY <1>4, <1>5 DEF CopyTree

LEMMA CopyFileSteps ==
    ASSUME FilesInv, NEW r \in Requests, CopyFile(r)
    PROVE  Stepped(r) /\ DiskKept
<1>1. /\ task[r] # None /\ task[r].at = "file"
      /\ UNCHANGED <<fs, content, asked, results, body>>
  BY DEF CopyFile, At, told, disk
<1>2. Asking(r)
  BY <1>1, StillAsking
<1>3. asked[r].kind = "copy" /\ asked[r].path \in Paths
  BY <1>1, InFlight, AskFields DEF StepFits
<1>4. PICK goal \in Paths :
        Go(r, [Step("copy") EXCEPT !.todo = {<<asked[r].path, goal>>}])
  BY DEF CopyFile
<1> DEFINE todo == {<<asked[r].path, goal>>}
           step == [Step("copy") EXCEPT !.todo = todo]
<1>5. Step("copy") \in Tasks /\ todo \subseteq Paths \X Paths
  BY <1>3, <1>4, StepIsTask DEF Steps
<1>6. Go(r, step)
  BY <1>4
<1> HIDE DEF todo
<1>7. step \in Tasks /\ step.at = "copy" /\ step.node = None
  BY <1>5 DEF Tasks, Step
<1> HIDE DEF step
<1> QED BY <1>1, <1>2, <1>3, <1>6, <1>7, InFlight, BetweenEntries, SameContent

LEMMA CopyOpenSteps ==
    ASSUME FilesInv, NEW r \in Requests, CopyOpen(r)
    PROVE  Stepped(r) /\ DiskKept
<1>1. /\ task[r] # None /\ task[r].at = "copy" /\ task[r].node = None
      /\ UNCHANGED <<asked, results, body>>
  BY DEF CopyOpen, At, told
<1>2. Asking(r) /\ asked'[r] = asked[r] /\ task[r] \in Tasks
  BY <1>1, StillAsking
<1>3. asked[r].kind = "copy" /\ fs \in [Paths -> Nodes \cup {Dir, None}]
  BY <1>1, InFlight DEF StepFits
<1>4. PICK e \in task[r].todo :
        LET rest == [task[r] EXCEPT !.todo = @ \ {e}]   s == e[1]   t == e[2]
        IN  \/ /\ IsFile(s) /\ CanOpen(t)
               /\ Opening(r, t)
               /\ Go(r, [rest EXCEPT !.node = Opened(r, t), !.from = fs[s]])
            \/ fs' = WithDirs(t) /\ Go(r, rest) /\ UNCHANGED content
            \/ Go(r, [rest EXCEPT !.bad = TRUE]) /\ UNCHANGED disk
  BY DEF CopyOpen
<1> DEFINE rest == [task[r] EXCEPT !.todo = @ \ {e}]
           s    == e[1]
           t    == e[2]
<1>5. rest \in Tasks /\ rest.at = "copy" /\ rest.node = None
  BY <1>1, <1>2 DEF Tasks
<1>6. s \in Paths /\ t \in Paths
  BY <1>2, <1>4 DEF Tasks
<1> HIDE DEF rest
<1>7. CASE /\ IsFile(s) /\ CanOpen(t) /\ Opening(r, t)
           /\ Go(r, [rest EXCEPT !.node = Opened(r, t), !.from = fs[s]])
  <2> DEFINE step == [rest EXCEPT !.node = Opened(r, t), !.from = fs[s]]
  <2>1. Opened(r, t) \in Nodes /\ fs[s] \in Nodes
    BY <1>6, <1>7, OpenedNode DEF IsFile
  <2>2. DiskKept
    BY <1>2, <1>6, <1>7, OpeningKeeps
  <2>3. step \in Tasks /\ step.at = "copy" /\ step.from \in Nodes
    BY <1>5, <2>1 DEF Tasks
  <2> HIDE DEF step
  <2>4. StepFits(asked'[r], step, Len(results[r]), body[r])
    BY <1>2, <1>3, <2>3 DEF StepFits
  <2>5. Go(r, step)
    BY <1>7 DEF step
  <2>6. Stepped(r)
    BY <1>1, <1>2, <2>3, <2>4, <2>5, Goes
  <2> QED BY <2>2, <2>6
<1>8. CASE fs' = WithDirs(t) /\ Go(r, rest) /\ UNCHANGED content
  <2>1. fs' \in [Paths -> Nodes \cup {Dir, None}]
    BY <1>8, DirsMade
  <2> QED BY <1>1, <1>2, <1>3, <1>5, <1>8, <2>1, BetweenEntries, SameContent
<1>9. CASE Go(r, [rest EXCEPT !.bad = TRUE]) /\ UNCHANGED disk
  <2> DEFINE step == [rest EXCEPT !.bad = TRUE]
  <2>1. step \in Tasks /\ step.at = "copy" /\ step.node = None
    BY <1>5 DEF Tasks
  <2> HIDE DEF step
  <2>2. Go(r, step) /\ UNCHANGED <<fs, content>>
    BY <1>9 DEF step, disk
  <2> QED BY <1>1, <1>2, <1>3, <2>1, <2>2, BetweenEntries, SameContent
<1> QED BY <1>4, <1>7, <1>8, <1>9 DEF rest

LEMMA CopyBlockSteps ==
    ASSUME FilesInv, NEW r \in Requests, CopyBlock(r)
    PROVE  Stepped(r) /\ DiskKept
<1> DEFINE i == task[r].i + 1
           source == content[task[r].from]
           next == [task[r] EXCEPT !.i = i]
           rest == [task[r] EXCEPT !.node = None, !.from = None, !.i = 0]
<1>1. /\ task[r] # None /\ task[r].at = "copy" /\ task[r].node # None
      /\ UNCHANGED <<fs, asked, results, body>>
  BY DEF CopyBlock, At, told
<1>2. Asking(r) /\ asked'[r] = asked[r] /\ task[r] \in Tasks
  BY <1>1, StillAsking
<1>3. asked[r].kind = "copy" /\ task[r].from \in Nodes
  BY <1>1, InFlight DEF StepFits
<1>4. task[r].node \in Nodes /\ Limit \in Nat /\ task[r].i \in 0..Limit + 1
  BY <1>1, <1>2, FilesAssumption DEF Tasks
<1>5. source \in Seq(Blocks) /\ Len(source) \in Nat /\ Len(source) <= Limit + 1
  <2>1. source \in Seq(Blocks) /\ Len(source) <= Limit + 1
    BY <1>3 DEF FilesInv, TypeOK
  <2> QED BY <2>1, LenProperties
<1>6. CASE /\ i <= Len(source)
           /\ content' = [content EXCEPT ![task[r].node] = Written(@, i, source[i])]
           /\ Go(r, next)
  <2>1. i \in 1..Limit + 1 /\ i \in 1..Len(source)
    BY <1>4, <1>5, <1>6
  <2>2. source[i] \in Blocks /\ Passed(source[i])
    BY <1>3, <2>1, Through
  <2>3. next \in Tasks /\ next.at = "copy" /\ next.from = task[r].from
    BY <1>1, <1>2, <2>1 DEF Tasks
  <2> HIDE DEF next
  <2>4. StepFits(asked'[r], next, Len(results[r]), body[r])
    BY <1>2, <1>3, <2>3 DEF StepFits
  <2>5. Stepped(r)
    BY <1>1, <1>2, <1>6, <2>3, <2>4, Goes
  <2>6. DiskKept
    <3> DEFINE x == source[i]
    <3>1. x \in Blocks /\ Passed(x)
      BY <2>2
    <3>2. content' = [content EXCEPT ![task[r].node] = Written(@, i, x)]
      BY <1>6
    <3> HIDE DEF x, i
    <3> QED BY <1>1, <1>2, <1>4, <2>1, <3>1, <3>2, WritingKeeps
  <2> QED BY <2>5, <2>6
<1>7. CASE Go(r, rest) /\ UNCHANGED content
  <2>1. rest \in Tasks /\ rest.at = "copy" /\ rest.node = None
    <3>1. 0 \in 0..Limit + 1
      BY <1>4
    <3> QED BY <1>1, <1>2, <3>1 DEF Tasks
  <2> HIDE DEF rest
  <2> QED BY <1>1, <1>2, <1>3, <1>7, <2>1, InFlight, BetweenEntries, SameContent
<1> QED BY <1>6, <1>7 DEF CopyBlock

LEMMA CopyEndSteps ==
    ASSUME FilesInv, NEW r \in Requests, CopyEnd(r)
    PROVE  Stepped(r) /\ DiskKept
<1>1. task[r] # None /\ UNCHANGED <<fs, content, asked, results, body>>
  BY DEF CopyEnd, At, told, disk
<1>2. \E result \in Outcomes : End(r, result)
  BY DEF CopyEnd, Outcomes
<1> QED BY <1>1, <1>2, StillAsking, InFlight, Ends, SameContent

-----------------------------------------------------------------------------
(* Moves and deletions.                                                    *)

\* What a request that works on an item has with it.
LEMMA OnItem ==
    ASSUME FilesInv, NEW r \in Requests, task[r] # None,
           task[r].at \in {"item", "scan", "remove", "rmtree"}
    PROVE  /\ asked[r].kind = "items" /\ task[r].i \in Executed(asked[r].ops)
           /\ Len(results[r]) < task[r].i
           /\ Current(r) \in Operation /\ Current(r).path \in Paths
           /\ Current(r).op = "move" => Current(r).to \in Paths
<1>1. /\ asked[r].kind = "items" /\ task[r].i \in Executed(asked[r].ops)
      /\ Len(results[r]) < task[r].i /\ asked[r] \in Asks
  BY InFlight DEF StepFits
<1>2. Current(r) \in Operation /\ Complete(Current(r))
  BY <1>1, AskFields DEF Executed, Current
<1> QED BY <1>1, <1>2 DEF Operation, Complete

\* Another step with the same item.
LEMMA SameItem ==
    ASSUME FilesInv, NEW r \in Requests, task[r] # None,
           task[r].at \in {"item", "scan", "remove", "rmtree"},
           NEW step \in Tasks, step.at \in {"item", "scan", "remove", "rmtree"},
           step.i = task[r].i, UNCHANGED <<asked, results, body>>, Go(r, step)
    PROVE  Stepped(r)
<1>1. Asking(r) /\ asked'[r] = asked[r]
  BY StillAsking
<1>2. StepFits(asked'[r], step, Len(results[r]), body[r])
  BY <1>1, OnItem DEF StepFits
<1> QED BY <1>1, <1>2, Goes

LEMMA MoveSteps ==
    ASSUME FilesInv, NEW r \in Requests, Move(r)
    PROVE  Stepped(r) /\ DiskKept
<1>1. /\ task[r] # None /\ task[r].at = "item" /\ Current(r).op = "move"
      /\ UNCHANGED <<content, asked, body>>
  BY DEF Move, At
<1>2. Asking(r) /\ fs \in [Paths -> Nodes \cup {Dir, None}]
  BY <1>1, StillAsking, InFlight
<1>3. fs' \in [Paths -> Nodes \cup {Dir, None}]
  BY <1>2 DEF Move, Renamed
<1>4. \E ok \in BOOLEAN : Item(r, ok)
  BY DEF Move
<1> QED BY <1>1, <1>2, <1>3, <1>4, ItemSteps, SameContent

LEMMA DeleteSteps ==
    ASSUME FilesInv, NEW r \in Requests, Delete(r)
    PROVE  Stepped(r) /\ DiskKept
<1>1. task[r] # None /\ task[r].at = "item" /\ UNCHANGED <<fs, content, asked, body>>
  BY DEF Delete, At, disk
<1>2. Asking(r) /\ task[r] \in Tasks /\ fs \in [Paths -> Nodes \cup {Dir, None}]
  BY <1>1, StillAsking, InFlight
<1>3. DiskKept
  BY <1>1, <1>2, SameContent
<1>4. CASE Item(r, FALSE)
  BY <1>1, <1>3, <1>4, ItemSteps
<1>5. CASE UNCHANGED results /\ \E at \in {"scan", "remove"} :
             Go(r, [Step(at) EXCEPT !.i = task[r].i])
  <2>1. PICK at \in {"scan", "remove"} : Go(r, [Step(at) EXCEPT !.i = task[r].i])
    BY <1>5
  <2> DEFINE step == [Step(at) EXCEPT !.i = task[r].i]
  <2>2. Step(at) \in Tasks
    BY StepIsTask DEF Steps
  <2>3. step \in Tasks /\ step.at = at /\ step.i = task[r].i
    BY <1>2, <2>2 DEF Tasks, Step
  <2> HIDE DEF step
  <2>4. Go(r, step)
    BY <2>1 DEF step
  <2>5. Stepped(r)
    BY <1>1, <1>5, <2>3, <2>4, SameItem
  <2> QED BY <1>3, <2>5
<1> QED BY <1>4, <1>5 DEF Delete

LEMMA UnlinkSteps ==
    ASSUME FilesInv, NEW r \in Requests, Unlink(r)
    PROVE  Stepped(r) /\ DiskKept
<1>1. task[r] # None /\ task[r].at = "remove" /\ UNCHANGED <<content, asked, body>>
  BY DEF Unlink, At
<1>2. Asking(r) /\ fs \in [Paths -> Nodes \cup {Dir, None}]
  BY <1>1, StillAsking, InFlight
<1>3. fs' \in [Paths -> Nodes \cup {Dir, None}]
  BY <1>2 DEF Unlink
<1>4. \E ok \in BOOLEAN : Item(r, ok)
  BY DEF Unlink
<1> QED BY <1>1, <1>2, <1>3, <1>4, ItemSteps, SameContent

LEMMA RmtreeScanSteps ==
    ASSUME FilesInv, NEW r \in Requests, RmtreeScan(r)
    PROVE  Stepped(r) /\ DiskKept
<1> DEFINE todo == {<<c, c>> : c \in Children(Current(r).path)}
           step == [task[r] EXCEPT !.at = "rmtree", !.todo = todo]
<1>1. task[r] # None /\ task[r].at = "scan" /\ UNCHANGED <<fs, content, asked, body>>
  BY DEF RmtreeScan, At, disk
<1>2. Asking(r) /\ task[r] \in Tasks /\ fs \in [Paths -> Nodes \cup {Dir, None}]
  BY <1>1, StillAsking, InFlight
<1>3. DiskKept
  BY <1>1, <1>2, SameContent
<1>4. CASE Item(r, FALSE)
  BY <1>1, <1>3, <1>4, ItemSteps
<1>5. CASE UNCHANGED results /\ Go(r, step)
  <2>1. todo \subseteq Paths \X Paths
    BY DEF Children
  <2> HIDE DEF todo
  <2>2. step \in Tasks /\ step.at = "rmtree" /\ step.i = task[r].i
    BY <1>2, <2>1 DEF Tasks, Steps
  <2> HIDE DEF step
  <2>3. Stepped(r)
    BY <1>1, <1>5, <2>2, SameItem
  <2> QED BY <1>3, <2>3
<1> QED BY <1>4, <1>5 DEF RmtreeScan

LEMMA RmtreeSteps ==
    ASSUME FilesInv, NEW r \in Requests, Rmtree(r)
    PROVE  Stepped(r) /\ DiskKept
<1>1. task[r] # None /\ task[r].at = "rmtree" /\ UNCHANGED <<content, asked, body>>
  BY DEF Rmtree, At
<1>2. Asking(r) /\ task[r] \in Tasks /\ fs \in [Paths -> Nodes \cup {Dir, None}]
  BY <1>1, StillAsking, InFlight
<1>3. UNCHANGED fs \/ \E p \in Paths : fs' = [fs EXCEPT ![p] = None]
  <2>1. \A e \in task[r].todo : e[1] \in Paths
    BY <1>2 DEF Tasks
  <2>2. Current(r).path \in Paths
    BY <1>1, OnItem
  <2> QED BY <2>1, <2>2 DEF Rmtree
<1>4. fs' \in [Paths -> Nodes \cup {Dir, None}]
  BY <1>2, <1>3
<1>5. DiskKept
  BY <1>1, <1>2, <1>4, SameContent
<1>6. \/ \E ok \in BOOLEAN : Item(r, ok)
      \/ \E e \in task[r].todo :
           UNCHANGED results /\ Go(r, [task[r] EXCEPT !.todo = @ \ {e}])
  BY DEF Rmtree
<1>7. CASE \E ok \in BOOLEAN : Item(r, ok)
  BY <1>1, <1>5, <1>7, ItemSteps
<1>8. CASE \E e \in task[r].todo :
             UNCHANGED results /\ Go(r, [task[r] EXCEPT !.todo = @ \ {e}])
  <2>1. PICK e \in task[r].todo :
          UNCHANGED results /\ Go(r, [task[r] EXCEPT !.todo = @ \ {e}])
    BY <1>8
  <2> DEFINE step == [task[r] EXCEPT !.todo = @ \ {e}]
  <2>2. step \in Tasks /\ step.at = "rmtree" /\ step.i = task[r].i
    BY <1>1, <1>2 DEF Tasks
  <2> HIDE DEF step
  <2>3. UNCHANGED results /\ Go(r, step)
    BY <2>1 DEF step
  <2>4. Stepped(r)
    BY <1>1, <2>2, <2>3, SameItem
  <2> QED BY <1>5, <2>4
<1> QED BY <1>6, <1>7, <1>8

-----------------------------------------------------------------------------
(* Downloads and listings.                                                 *)

\* The offsets that a range comes to are those of blocks of the file.
LEMMA BoundsInside ==
    ASSUME NEW range \in Offset \X Offset, NEW size \in 0..Limit + 1,
           Bounds(range, size) # None
    PROVE  /\ Bounds(range, size)[1] \in 0..Limit
           /\ Bounds(range, size)[2] \in 0..size - 1
<1> DEFINE a == range[1]
           b == range[2]
           end == IF b = None THEN size - 1 ELSE b
<1>1. a \in Offset /\ b \in Offset /\ Limit \in Nat
  BY FilesAssumption
<1>2. CASE a = None
  <2>1. b # None /\ 0 < b /\ b <= size /\ Bounds(range, size) = <<size - b, size - 1>>
    BY <1>2 DEF Bounds
  <2>2. b \in 0..Limit
    BY <1>1, <2>1 DEF Offset
  <2>3. size - b \in 0..Limit /\ size - 1 \in 0..size - 1
    BY <1>1, <2>1, <2>2
  <2> QED BY <2>1, <2>3
<1>3. CASE a # None
  <2>1. a < size /\ a <= end /\ end < size /\ Bounds(range, size) = <<a, end>>
    BY <1>3 DEF Bounds
  <2>2. a \in 0..Limit /\ end \in Int
    BY <1>1, <1>3 DEF Offset
  <2> HIDE DEF a, end
  <2>3. end \in 0..size - 1
    BY <1>1, <2>1, <2>2
  <2> QED BY <2>1, <2>2, <2>3
<1> QED BY <1>2, <1>3

\* The step of a request whose body changes.
LEMMA GoesWith ==
    ASSUME FilesInv, NEW r \in Requests, task[r] # None, UNCHANGED <<asked, results>>,
           NEW step \in Tasks, NEW x \in [head : Seq(Blocks), sent : Seq(Blocks)],
           StepFits(asked[r], step, Len(results[r]), x),
           Go(r, step), body' = [body EXCEPT ![r] = x]
    PROVE  Stepped(r)
<1>1. task \in [Requests -> Tasks \cup {None}] /\ outcome \in [Requests -> Outcomes]
  BY DEF FilesInv, TypeOK, Outcomes
<1>2. /\ results \in [Requests -> Seq(Answer)] /\ Len(results[r]) <= 2
      /\ body \in [Requests -> Bodies]
  BY DEF FilesInv, TypeOK, Bodies
<1>3. /\ task' \in [Requests -> Tasks \cup {None}] /\ outcome' \in [Requests -> Outcomes]
      /\ task'[r] = step /\ \A q \in Requests \ {r} : task'[q] = task[q]
  BY <1>1 DEF Go
<1>4. x \in Bodies
  BY DEF Bodies
<1>5. /\ body' \in [Requests -> Bodies] /\ body'[r] = x
      /\ \A q \in Requests \ {r} : body'[q] = body[q]
  BY <1>2, <1>4
<1>6. Asking(r) /\ asked'[r] = asked[r]
  BY StillAsking
<1>7. StepFits(asked'[r], task'[r], Len(results'[r]), body'[r])
  BY <1>3, <1>5, <1>6
<1> QED BY <1>2, <1>3, <1>5, <1>6, <1>7 DEF Stepped

LEMMA ServeSteps ==
    ASSUME FilesInv, NEW r \in Requests, Serve(r)
    PROVE  Stepped(r) /\ DiskKept
<1> DEFINE p == asked[r].path
           range == asked[r].range
           c == content[fs[p]]
           b == IF range = None THEN <<0, Len(c) - 1>> ELSE Bounds(range, Len(c))
           x == [head |-> SubSeq(c, b[1] + 1, b[2] + 1), sent |-> <<>>]
           step == [Step("stream") EXCEPT !.i = b[1]]
<1>1. /\ task[r] # None /\ task[r].at = "serve"
      /\ UNCHANGED <<fs, content, asked, results>>
  BY DEF Serve, At, disk
<1>2. Asking(r) /\ fs \in [Paths -> Nodes \cup {Dir, None}]
  BY <1>1, StillAsking, InFlight
<1>3. DiskKept
  BY <1>1, <1>2, SameContent
<1>4. asked[r].kind = "download" /\ p \in Paths /\ range \in (Offset \X Offset) \cup {None}
  BY <1>1, InFlight, AskFields DEF StepFits
<1>5. CASE End(r, "refused") /\ UNCHANGED body
  BY <1>1, <1>2, <1>3, <1>5, Ends DEF Outcomes
<1>6. CASE IsFile(p) /\ b # None /\ body' = [body EXCEPT ![r] = x] /\ Go(r, step)
  <2>1. c \in Seq(Blocks) /\ Len(c) <= Limit + 1
    BY <1>6 DEF FilesInv, TypeOK, IsFile
  <2>2. Len(c) \in 0..Limit + 1 /\ Limit \in Nat /\ \A i \in 1..Len(c) : c[i] \in Blocks
    BY <2>1, LenProperties, ElementOfSeq, FilesAssumption
  <2> HIDE DEF c
  <2>3. b[1] \in 0..Limit /\ b[2] \in Int /\ b[2] < Len(c)
    <3>1. CASE range = None
      <4>1. b = <<0, Len(c) - 1>>
        BY <3>1
      <4> HIDE DEF b
      <4> QED BY <2>2, <4>1
    <3>2. CASE range # None
      <4>1. b = Bounds(range, Len(c)) /\ range \in Offset \X Offset
        BY <1>4, <3>2
      <4>2. b[1] \in 0..Limit /\ b[2] \in 0..Len(c) - 1
        <5> HIDE DEF b
        <5> QED BY <1>6, <2>2, <4>1, BoundsInside
      <4> HIDE DEF b
      <4> QED BY <2>2, <4>2
    <3> QED BY <3>1, <3>2
  <2>4. step = [Step("stream") EXCEPT !.i = b[1]]
    OBVIOUS
  <2>5. x = [head |-> SubSeq(c, b[1] + 1, b[2] + 1), sent |-> <<>>]
    OBVIOUS
  <2> HIDE DEF b, x, step
  <2>6. SubSeq(c, b[1] + 1, b[2] + 1) \in Seq(Blocks)
    <3>1. b[1] + 1 \in Int /\ b[2] + 1 \in Int
      BY <2>2, <2>3
    <3>2. \A i \in b[1] + 1..b[2] + 1 : c[i] \in Blocks
      BY <2>2, <2>3
    <3> QED BY <3>1, <3>2, SubSeqProperties
  <2>7. x \in [head : Seq(Blocks), sent : Seq(Blocks)]
    BY <2>5, <2>6, EmptySeq
  <2>8. step \in Tasks /\ step.at = "stream"
    <3>1. Step("stream") \in Tasks /\ Step("stream").at = "stream"
      BY StepIsTask DEF Steps, Step
    <3>2. b[1] \in 0..Limit + 1
      BY <2>2, <2>3
    <3> QED BY <2>4, <3>1, <3>2 DEF Tasks
  <2>9. StepFits(asked[r], step, Len(results[r]), x)
    BY <1>4, <2>7, <2>8 DEF StepFits
  <2>10. Stepped(r)
    BY <1>1, <1>6, <2>7, <2>8, <2>9, GoesWith
  <2> QED BY <1>3, <2>10
<1> QED BY <1>5, <1>6 DEF Serve

LEMMA StreamOpenSteps ==
    ASSUME FilesInv, NEW r \in Requests, StreamOpen(r)
    PROVE  Stepped(r) /\ DiskKept
<1> DEFINE p == asked[r].path
           step == [task[r] EXCEPT !.node = fs[p]]
<1>1. /\ task[r] # None /\ task[r].at = "stream"
      /\ UNCHANGED <<fs, content, asked, results, body>>
  BY DEF StreamOpen, At, disk, told
<1>2. /\ Asking(r) /\ asked'[r] = asked[r] /\ task[r] \in Tasks
      /\ fs \in [Paths -> Nodes \cup {Dir, None}]
  BY <1>1, StillAsking, InFlight
<1>3. DiskKept
  BY <1>1, <1>2, SameContent
<1>4. CASE End(r, "failed")
  BY <1>1, <1>2, <1>3, <1>4, Ends DEF Outcomes
<1>5. CASE IsFile(p) /\ Go(r, step)
  <2>1. step \in Tasks /\ step.at = "stream"
    BY <1>1, <1>2, <1>5 DEF Tasks, IsFile
  <2> HIDE DEF step
  <2>2. StepFits(asked'[r], step, Len(results[r]), body[r])
    BY <1>1, <1>2, <2>1, InFlight DEF StepFits
  <2> QED BY <1>1, <1>2, <1>3, <1>5, <2>1, <2>2, Goes
<1> QED BY <1>4, <1>5 DEF StreamOpen

LEMMA StreamSteps ==
    ASSUME FilesInv, NEW r \in Requests, Stream(r)
    PROVE  Stepped(r) /\ DiskKept
<1> DEFINE c == content[task[r].node]
           i == task[r].i + 1
           step == [task[r] EXCEPT !.i = i]
           x == [body[r] EXCEPT !.sent = Append(@, c[i])]
<1>1. /\ task[r] # None /\ task[r].at = "stream" /\ task[r].node # None
      /\ UNCHANGED <<fs, content, asked, results>>
  BY DEF Stream, At, disk
<1>2. /\ Asking(r) /\ task[r] \in Tasks /\ fs \in [Paths -> Nodes \cup {Dir, None}]
  BY <1>1, StillAsking, InFlight
<1>3. DiskKept
  BY <1>1, <1>2, SameContent
<1>4. asked[r].kind = "download" /\ body[r] \in [head : Seq(Blocks), sent : Seq(Blocks)]
  BY <1>1, InFlight DEF StepFits
<1>5. CASE (\E result \in Outcomes : End(r, result)) /\ UNCHANGED body
  BY <1>1, <1>2, <1>3, <1>5, Ends
<1>6. CASE i <= Len(c) /\ body' = [body EXCEPT ![r].sent = Append(@, c[i])] /\ Go(r, step)
  <2>1. task[r].node \in Nodes /\ task[r].i \in 0..Limit + 1 /\ Limit \in Nat
    BY <1>1, <1>2, FilesAssumption DEF Tasks
  <2>2. c \in Seq(Blocks) /\ Len(c) <= Limit + 1
    BY <2>1 DEF FilesInv, TypeOK
  <2>3. i \in 1..Len(c) /\ i \in 0..Limit + 1
    BY <1>6, <2>1, <2>2, LenProperties
  <2>4. c[i] \in Blocks
    BY <2>2, <2>3, ElementOfSeq
  <2>5. body' = [body EXCEPT ![r] = x]
    BY <1>6
  <2>6. x \in [head : Seq(Blocks), sent : Seq(Blocks)]
    BY <1>4, <2>4, AppendProperties
  <2>7. step \in Tasks /\ step.at = "stream"
    BY <1>1, <1>2, <2>3 DEF Tasks
  <2> HIDE DEF x, step
  <2>8. StepFits(asked[r], step, Len(results[r]), x)
    BY <1>4, <2>6, <2>7 DEF StepFits
  <2>9. Stepped(r)
    BY <1>1, <1>6, <2>5, <2>6, <2>7, <2>8, GoesWith
  <2> QED BY <1>3, <2>9
<1> QED BY <1>5, <1>6 DEF Stream, Outcomes

\* The steps of a listing, of which only the page and the cache keep something.
LEMMA ListSteps ==
    ASSUME FilesInv, NEW r \in Requests, Lookup(r) \/ Scandir(r) \/ Store(r)
    PROVE  Stepped(r) /\ DiskKept
<1>1. /\ task[r] # None /\ task[r].at \in {"lookup", "scandir", "store"}
      /\ UNCHANGED <<fs, content, asked, results, body>>
  BY DEF Lookup, Scandir, Store, At, disk, told
<1>2. /\ Asking(r) /\ asked'[r] = asked[r] /\ fs \in [Paths -> Nodes \cup {Dir, None}]
      /\ asked[r].kind = "list"
  BY <1>1, StillAsking, InFlight DEF StepFits
<1>3. \/ \E result \in Outcomes : End(r, result)
      \/ \E at \in {"scandir", "store"} : Go(r, Step(at))
  BY DEF Lookup, Scandir, Store, Outcomes
<1>4. ASSUME NEW at \in {"scandir", "store"}
      PROVE  Step(at) \in Tasks /\ StepFits(asked'[r], Step(at), Len(results[r]), body[r])
  <2>1. Step(at).at = at
    BY DEF Step
  <2>2. Step(at) \in Tasks
    BY StepIsTask DEF Steps
  <2> QED BY <1>2, <2>1, <2>2 DEF StepFits
<1> QED BY <1>1, <1>2, <1>3, <1>4, Ends, Goes, SameContent

-----------------------------------------------------------------------------
(* What the files are made of, and begin with.                             *)

\* What any request in flight does keeps the invariant.
LEMMA RunKeeps ==
    ASSUME FilesInv, NEW r \in Requests, Run(r)
    PROVE  FilesInv'
<1>1. Stepped(r) /\ DiskKept
  BY OpenSteps, WriteSteps, DiscardSteps, CopyTreeSteps, CopyFileSteps, CopyOpenSteps,
     CopyBlockSteps, CopyEndSteps, MoveSteps, DeleteSteps, UnlinkSteps, RmtreeScanSteps,
     RmtreeSteps, ServeSteps, StreamOpenSteps, StreamSteps, ListSteps DEF Run
<1>2. UNCHANGED before
  BY DEF Run, Open, Write, Discard, CopyTree, CopyFile, CopyOpen, CopyBlock, CopyEnd, Move,
     Delete, Unlink, RmtreeScan, Rmtree, Serve, StreamOpen, Stream, Lookup, Scandir, Store
<1>3. before' \in [Requests -> SUBSET Requests]
  BY <1>2 DEF FilesInv, TypeOK
<1> QED BY <1>1, <1>3, Assembled

\* So does whatever touches neither the files nor a request.
LEMMA StutterKeeps ==
    ASSUME FilesInv, UNCHANGED <<disk, asked, task, outcome, results, body, before>>
    PROVE  FilesInv'
<1>1. UNCHANGED <<fs, content, asked, task, outcome, results, body, before>>
  BY DEF disk
<1>2. TypeOK'
  BY <1>1 DEF FilesInv, TypeOK
<1>3. Clean'
  BY <1>1 DEF FilesInv, Clean, Passed, Magic
<1>4. \A r \in Requests : Placed(r)' /\ Fresh(r)'
  BY <1>1 DEF FilesInv, Placed, Fresh
<1> QED BY <1>2, <1>3, <1>4 DEF FilesInv

\* And the death of the process, which ends what was in flight.
LEMMA CrashKeeps ==
    ASSUME FilesInv, Crash
    PROVE  FilesInv'
<1>1. /\ UNCHANGED <<fs, content, asked, results, body, before>>
      /\ \A r \in Requests : task'[r] = None
  BY DEF Crash, disk, told
<1>2. /\ task' \in [Requests -> Tasks \cup {None}]
      /\ outcome' \in [Requests -> {"none", "ok", "refused", "failed"}]
  BY DEF FilesInv, TypeOK, Crash
<1>3. TypeOK'
  BY <1>1, <1>2 DEF FilesInv, TypeOK
<1>4. Clean'
  BY <1>1 DEF FilesInv, Clean, Passed, Magic
<1>5. \A r \in Requests : Placed(r)' /\ Fresh(r)'
  BY <1>1 DEF FilesInv, Placed, Fresh, StepFits
<1> QED BY <1>3, <1>4, <1>5 DEF FilesInv

LEMMA InitHolds ==
    ASSUME Init
    PROVE  FilesInv
<1>1. Limit \in Nat \ {0} /\ Folders \cup Stored \subseteq Paths
  BY FilesAssumption
<1> DEFINE two == <<<<Old, 1>>, <<Old, 2>>>>
           empty == <<>>
<1>2. two \in Seq(Blocks) /\ Len(two) = 2 /\ two[1] = <<Old, 1>> /\ two[2] = <<Old, 2>>
  <2>1. <<Old, 1>> \in Blocks /\ <<Old, 2>> \in Blocks
    BY <1>1 DEF Blocks
  <2> QED BY <2>1
<1>3. empty \in Seq(Blocks) /\ Len(empty) = 0 /\ 1..0 = {} /\ empty \in Seq(Answer)
  OBVIOUS
<1>4. content = [n \in Nodes |-> IF n[1] = Old /\ n[2] \in Stored THEN two ELSE empty]
  BY DEF Init
<1>5. results = [r \in Requests |-> empty]
  BY DEF Init
<1> HIDE DEF two, empty
<1>6. /\ content \in [Nodes -> Seq(Blocks)]
      /\ \A n \in Nodes : content[n] = two \/ content[n] = empty
  BY <1>2, <1>3, <1>4
<1>7. \A n \in Nodes : Len(content[n]) <= Limit + 1
  <2>1. Len(two) <= Limit + 1 /\ Len(empty) <= Limit + 1
    BY <1>1, <1>2, <1>3
  <2> QED BY <1>6, <2>1
<1>8. fs \in [Paths -> Nodes \cup {Dir, None}]
  BY DEF Init, Nodes
<1>9. asked = [r \in Requests |-> None] /\ task = [r \in Requests |-> None]
  BY DEF Init
<1>10. TypeOK
  <2>1. /\ outcome \in [Requests -> {"none", "ok", "refused", "failed"}]
        /\ body \in [Requests -> [head : Seq(Blocks), sent : Seq(Blocks)] \cup {None}]
        /\ before \in [Requests -> SUBSET Requests]
    BY DEF Init
  <2>2. /\ results \in [Requests -> Seq(Answer)]
        /\ \A r \in Requests : Len(results[r]) <= 2
    BY <1>3, <1>5
  <2> QED BY <1>6, <1>7, <1>8, <1>9, <2>1, <2>2 DEF TypeOK
<1>11. Clean
  <2>1. SUFFICES ASSUME NEW n \in Nodes, NEW i \in 1..Len(content[n])
                 PROVE  Passed(content[n][i])
    BY DEF Clean
  <2>2. content[n] = two /\ i \in {1, 2}
    <3>1. content[n] = two \/ content[n] = empty
      BY <1>6
    <3>2. content[n] # empty
      BY <1>3
    <3>3. Len(content[n]) = 2
      BY <1>2, <3>1, <3>2
    <3> QED BY <3>1, <3>2, <3>3
  <2>3. content[n][i][1] = Old
    BY <1>2, <2>2
  <2> QED BY <2>3 DEF Passed
<1>12. \A r \in Requests : Placed(r) /\ Fresh(r)
  BY <1>3, <1>5, <1>9 DEF Placed, Fresh, StepFits
<1> QED BY <1>10, <1>11, <1>12 DEF FilesInv

LEMMA NextKeeps ==
    ASSUME FilesInv, [Next]_vars
    PROVE  FilesInv'
<1>1. CASE \E r \in Requests : Begin(r) \/ Run(r)
  BY <1>1, BeginKeeps, RunKeeps
<1>2. CASE \E k \in DOMAIN cache : Expire(k)
  <2>1. UNCHANGED <<disk, asked, task, outcome, results, body, before>>
    BY <1>2 DEF Expire, told
  <2> QED BY <2>1, StutterKeeps
<1>3. CASE Crash
  BY <1>3, CrashKeeps
<1>4. CASE UNCHANGED vars
  <2>1. UNCHANGED <<disk, asked, task, outcome, results, body, before>>
    BY <1>4 DEF vars, disk
  <2> QED BY <2>1, StutterKeeps
<1> QED BY <1>1, <1>2, <1>3, <1>4 DEF Next

THEOREM Invariance == Spec => []FilesInv
<1>1. Init => FilesInv
  BY InitHolds
<1>2. FilesInv /\ [Next]_vars => FilesInv'
  BY NextKeeps
<1> QED BY <1>1, <1>2, PTL DEF Spec

\* The state is made of what it should be, however the requests interleave and wherever the
\* process dies: a file is never longer than the limit and one block, and no bulk request has
\* more results than items.
THEOREM TypeCorrect == Spec => []TypeOK
<1>1. FilesInv => TypeOK
  BY DEF FilesInv
<1> QED BY <1>1, Invariance, PTL

\* No file ever begins with bytes that the scanner rejects, whoever wrote, copied or moved it:
\* every block of every file, also of those that only a handle has, was let through.
THEOREM NothingDangerousStored == Spec => []NothingDangerous
<1>1. FilesInv => NothingDangerous
  <2>1. SUFFICES ASSUME FilesInv, NEW p \in Paths, IsFile(p), content[fs[p]] # <<>>,
                        NEW r \in Requests, Magic(r), content[fs[p]][1] = <<r, 1>>
                 PROVE  FALSE
    BY DEF NothingDangerous, Magic
  <2>2. fs[p] \in Nodes /\ content[fs[p]] \in Seq(Blocks)
    BY <2>1 DEF FilesInv, TypeOK, IsFile
  <2>3. 1 \in 1..Len(content[fs[p]])
    BY <2>1, <2>2, EmptySeq
  <2>4. Passed(content[fs[p]][1])
    BY <2>1, <2>2, <2>3, Through
  <2>5. <<r, 1>> # None /\ r # Old
    BY <2>1, FilesAssumption
  <2> QED BY <2>1, <2>4, <2>5 DEF Passed
<1> QED BY <1>1, Invariance, PTL

-----------------------------------------------------------------------------
(* Paths.                                                                  *)

\* What paths are made of.
Names == UNION {ToSet(p) : p \in Paths}

\* A path has one or two names, and a place is a path or the root.
LEMMA PathIs ==
    ASSUME NEW p \in Paths
    PROVE  p \in Seq(Names) /\ Len(p) \in 1..2
<1>1. p \in Seq(ToSet(p)) \ {<<>>}
  BY FilesAssumption
<1>2. ToSet(p) \subseteq Names
  BY DEF Names
<1> HIDE DEF Names
<1>3. p \in Seq(Names)
  BY <1>1, <1>2, SeqMonotonic
<1>4. Len(p) \in Nat \ {0}
  BY <1>1, <1>3, EmptySeq
<1>5. Len(p) <= 2
  BY FilesAssumption
<1> DEFINE n == Len(p)
<1> HIDE DEF n
<1>6. n \in 1..2
  <2>1. n \in Nat \ {0} /\ n <= 2
    BY <1>4, <1>5 DEF n
  <2> QED BY <2>1
<1> QED BY <1>3, <1>6 DEF n

\* The root is the empty path.
LEMMA RootIs == <<>> \in Seq(Names) /\ Len(<<>>) = 0
  BY EmptySeq

\* One sequence of names is a prefix of another when it is no longer and their names agree.
LEMMA PrefixIs ==
    ASSUME NEW s \in Seq(Names), NEW t \in Seq(Names)
    PROVE  IsPrefix(s, t) <=> Len(s) <= Len(t) /\ \A i \in 1..Len(s) : s[i] = t[i]
<1> DEFINE n == Len(s)
<1>1. n \in Nat /\ Len(t) \in Nat
  BY LenProperties
<1>2. SubSeq(s, 1, n) = s
  BY SubSeqFull
<1>3. ASSUME n <= Len(t)
      PROVE  SubSeq(t, 1, n) = s <=> \A i \in 1..n : s[i] = t[i]
  <2>1. \A i \in 1..n : t[i] \in Names
    BY <1>1, <1>3, ElementOfSeq
  <2>2. n \in Int /\ 1 \in Int
    BY <1>1
  <2> DEFINE u == SubSeq(t, 1, n)
  <2> HIDE DEF n
  <2>3. u \in Seq(Names) /\ Len(u) = n /\ \A i \in 1..n : u[i] = t[i]
    BY <1>1, <2>1, <2>2, SubSeqProperties
  <2> HIDE DEF u
  <2>4. (\A i \in 1..n : s[i] = t[i]) => u = s
    BY <2>3, SeqEqual DEF n
  <2> QED BY <2>3, <2>4 DEF u
<1>4. IsPrefix(s, t) <=> n <= Len(t) /\ s = SubSeq(t, 1, n)
  BY <1>2 DEF IsPrefix
<1> HIDE DEF n
<1>5. IsPrefix(s, t) <=> n <= Len(t) /\ \A i \in 1..n : s[i] = t[i]
  BY <1>3, <1>4
<1> QED BY <1>5 DEF n

\* Prefixes are an order, in which those of one sequence are a chain.
LEMMA PrefixOrder ==
    ASSUME NEW s \in Seq(Names), NEW t \in Seq(Names), NEW u \in Seq(Names)
    PROVE  /\ IsPrefix(s, s)
           /\ IsPrefix(s, t) /\ IsPrefix(t, u) => IsPrefix(s, u)
           /\ IsPrefix(s, t) /\ IsPrefix(t, s) => s = t
           /\ IsPrefix(s, u) /\ IsPrefix(t, u) => IsPrefix(s, t) \/ IsPrefix(t, s)
<1>1. Len(s) \in Nat /\ Len(t) \in Nat /\ Len(u) \in Nat
  BY LenProperties
<1>2. /\ IsPrefix(s, s) <=> Len(s) <= Len(s) /\ \A i \in 1..Len(s) : s[i] = s[i]
      /\ IsPrefix(s, t) <=> Len(s) <= Len(t) /\ \A i \in 1..Len(s) : s[i] = t[i]
      /\ IsPrefix(t, s) <=> Len(t) <= Len(s) /\ \A i \in 1..Len(t) : t[i] = s[i]
      /\ IsPrefix(s, u) <=> Len(s) <= Len(u) /\ \A i \in 1..Len(s) : s[i] = u[i]
      /\ IsPrefix(t, u) <=> Len(t) <= Len(u) /\ \A i \in 1..Len(t) : t[i] = u[i]
  BY PrefixIs
<1>3. IsPrefix(s, s)
  BY <1>1, <1>2
<1>4. ASSUME IsPrefix(s, t), IsPrefix(t, u)
      PROVE  IsPrefix(s, u)
  <2>1. Len(s) <= Len(u)
    BY <1>1, <1>2, <1>4
  <2>2. \A i \in 1..Len(s) : i \in 1..Len(t)
    BY <1>1, <1>2, <1>4
  <2> QED BY <1>2, <1>4, <2>1, <2>2
<1>5. ASSUME IsPrefix(s, t), IsPrefix(t, s)
      PROVE  s = t
  <2>1. Len(s) = Len(t) /\ \A i \in 1..Len(s) : s[i] = t[i]
    BY <1>1, <1>2, <1>5
  <2> QED BY <2>1, SeqEqual
<1>6. ASSUME IsPrefix(s, u), IsPrefix(t, u)
      PROVE  IsPrefix(s, t) \/ IsPrefix(t, s)
  <2>1. CASE Len(s) <= Len(t)
    <3>1. \A i \in 1..Len(s) : i \in 1..Len(t)
      BY <1>1, <2>1
    <3> QED BY <1>2, <1>6, <2>1, <3>1
  <2>2. CASE Len(t) <= Len(s)
    <3>1. \A i \in 1..Len(t) : i \in 1..Len(s)
      BY <1>1, <2>2
    <3> QED BY <1>2, <1>6, <2>2, <3>1
  <2> QED BY <1>1, <2>1, <2>2
<1> QED BY <1>3, <1>4, <1>5, <1>6

\* The folder of a path is the longest of its strict prefixes.
LEMMA ParentIs ==
    ASSUME NEW p \in Paths
    PROVE  /\ Parent(p) \in Paths \cup {<<>>} /\ Parent(p) \in Seq(Names)
           /\ Len(Parent(p)) = Len(p) - 1
           /\ IsPrefix(Parent(p), p) /\ Parent(p) # p
           /\ \A s \in Seq(Names) : IsPrefix(s, p) /\ s # p => IsPrefix(s, Parent(p))
<1> DEFINE f == Parent(p)
<1>1. p \in Seq(Names) /\ Len(p) \in 1..2
  BY PathIs
<1>2. f \in Paths \cup {<<>>}
  BY FilesAssumption DEF Parent
<1>3. f \in Seq(Names)
  BY <1>2, PathIs, RootIs
<1>4. Len(f) = Len(p) - 1 /\ \A i \in 1..Len(p) - 1 : f[i] = p[i]
  <2>1. \A i \in 1..Len(p) - 1 : p[i] \in Names
    BY <1>1, ElementOfSeq
  <2>2. f = SubSeq(p, 1, Len(p) - 1) /\ 1 \in Int /\ Len(p) - 1 \in Int
    BY <1>1 DEF Parent, Front
  <2> HIDE DEF f
  <2> DEFINE n == Len(p) - 1
  <2>3. n \in 0..1
    BY <1>1
  <2> HIDE DEF n
  <2>4. f = SubSeq(p, 1, n) /\ \A i \in 1..n : p[i] \in Names
    BY <2>1, <2>2 DEF n
  <2>5. Len(f) = IF 1 <= n THEN n - 1 + 1 ELSE 0
    BY <2>3, <2>4, SubSeqProperties
  <2>6. \A i \in 1..n - 1 + 1 : f[i] = p[1 + i - 1]
    BY <2>3, <2>4, SubSeqProperties
  <2>7. Len(f) = n /\ \A i \in 1..n : f[i] = p[i]
    BY <2>3, <2>5, <2>6
  <2> QED BY <2>7 DEF n
<1> HIDE DEF f
<1>5. IsPrefix(f, p)
  BY <1>1, <1>3, <1>4, PrefixIs
<1>6. ASSUME NEW s \in Seq(Names), IsPrefix(s, p), s # p
      PROVE  IsPrefix(s, f)
  <2>1. Len(s) <= Len(p) /\ Len(s) \in Nat /\ \A i \in 1..Len(s) : s[i] = p[i]
    BY <1>1, <1>6, PrefixIs, LenProperties
  <2>2. Len(s) # Len(p)
    BY <1>1, <1>6, <2>1, SeqEqual
  <2>3. Len(s) <= Len(f) /\ \A i \in 1..Len(s) : i \in 1..Len(p) - 1
    BY <1>1, <1>4, <2>1, <2>2
  <2> QED BY <1>3, <1>4, <2>1, <2>3, PrefixIs
<1>7. f # p
  BY <1>1, <1>4
<1> QED BY <1>2, <1>3, <1>4, <1>5, <1>6, <1>7 DEF f

\* What is below a path is in it: no path has a third name.
LEMMA UnderIs ==
    ASSUME NEW s \in Paths, NEW p \in Paths, IsPrefix(s, p), p # s
    PROVE  Parent(p) = s /\ Len(s) = 1 /\ Len(p) = 2
<1>1. /\ s \in Seq(Names) /\ Len(s) \in 1..2
      /\ p \in Seq(Names) /\ Len(p) \in 1..2
  BY PathIs
<1>2. Len(s) <= Len(p) /\ \A i \in 1..Len(s) : s[i] = p[i]
  BY <1>1, PrefixIs
<1>3. Len(s) # Len(p)
  BY <1>1, <1>2, SeqEqual
<1>4. Len(s) = 1 /\ Len(p) = 2
  BY <1>1, <1>2, <1>3
<1>5. IsPrefix(s, Parent(p)) /\ Parent(p) \in Seq(Names) /\ Len(Parent(p)) = 1
  BY <1>1, <1>4, ParentIs
<1>6. \A i \in 1..Len(s) : s[i] = Parent(p)[i]
  BY <1>1, <1>5, PrefixIs
<1>7. s = Parent(p)
  BY <1>1, <1>4, <1>5, <1>6, SeqEqual
<1> QED BY <1>4, <1>7

\* What is at p below s goes, below t, to a place of its own, and from there back.
LEMMA ImageIs ==
    ASSUME NEW s \in Paths, NEW t \in Paths, NEW p \in Seq(Names), IsPrefix(s, p)
    PROVE  /\ Image(p, s, t) \in Seq(Names) /\ IsPrefix(t, Image(p, s, t))
           /\ Len(Image(p, s, t)) = Len(t) + Len(p) - Len(s)
           /\ Image(Image(p, s, t), t, s) = p
           /\ p = s => Image(p, s, t) = t
           /\ s = t => Image(p, s, t) = p
<1> DEFINE l == Len(s)   m == Len(t)   n == Len(p)
           tail == SubSeq(p, l + 1, n)
           x == t \o tail
<1>1. s \in Seq(Names) /\ t \in Seq(Names) /\ l \in 1..2 /\ m \in 1..2
  BY PathIs
<1>2. n \in Nat /\ l <= n /\ \A i \in 1..l : s[i] = p[i]
  BY <1>1, PrefixIs, LenProperties
<1>3. \A i \in 1..l : s[i] \in Names
  BY <1>1, ElementOfSeq
<1>4. \A i \in 1..m : t[i] \in Names
  BY <1>1, ElementOfSeq
<1>5. \A i \in 1..n : p[i] \in Names
  BY ElementOfSeq
<1>6. x = Image(p, s, t)
  BY DEF Image
<1> HIDE DEF l, m, n
<1>7. tail \in Seq(Names) /\ Len(tail) = n - l /\ \A i \in 1..n - l : tail[i] = p[l + i]
  <2>1. l + 1 \in Int /\ n \in Int /\ \A i \in l + 1..n : p[i] \in Names
    BY <1>1, <1>2, <1>5
  <2>2. tail \in Seq(Names)
    BY <2>1, SubSeqProperties
  <2>3. Len(tail) = IF l + 1 <= n THEN n - (l + 1) + 1 ELSE 0
    BY <2>1, SubSeqProperties
  <2>4. \A i \in 1..n - (l + 1) + 1 : tail[i] = p[l + 1 + i - 1]
    BY <2>1, SubSeqProperties
  <2> HIDE DEF tail
  <2>5. Len(tail) = n - l /\ \A i \in 1..n - l : tail[i] = p[l + i]
    BY <1>1, <1>2, <2>3, <2>4
  <2> QED BY <2>2, <2>5
<1> HIDE DEF tail
<1>8. x \in Seq(Names) /\ Len(x) = m + n - l
      /\ \A i \in 1..m + n - l : x[i] = IF i <= m THEN t[i] ELSE tail[i - m]
  <2>1. x \in Seq(Names)
    BY <1>1, <1>7, ConcatProperties
  <2>2. Len(x) = m + (n - l)
    BY <1>1, <1>7, ConcatProperties DEF m
  <2>3. \A i \in 1..m + (n - l) : x[i] = IF i <= m THEN t[i] ELSE tail[i - m]
    BY <1>1, <1>7, ConcatProperties DEF m
  <2> HIDE DEF x
  <2> QED BY <1>1, <1>2, <2>1, <2>2, <2>3
<1> HIDE DEF x
<1>9. IsPrefix(t, x)
  <2>1. m <= m + n - l /\ \A i \in 1..m : i \in 1..m + n - l /\ i <= m
    BY <1>1, <1>2
  <2> QED BY <1>1, <1>8, <2>1, PrefixIs DEF m
<1>10. Image(x, t, s) = p
  <2> DEFINE back == SubSeq(x, m + 1, m + n - l)
             y == s \o back
  <2>1. back \in Seq(Names) /\ Len(back) = n - l /\ \A i \in 1..n - l : back[i] = x[m + i]
    <3> DEFINE a == m + 1   b == m + n - l
    <3>1. a \in Int /\ b \in Int /\ a = m + 1 /\ b = m + n - l
      BY <1>1, <1>2
    <3>2. \A i \in a..b : x[i] \in Names
      <4>1. \A i \in a..b : i \in 1..Len(x)
        BY <1>1, <1>2, <1>8
      <4> QED BY <1>8, <4>1, ElementOfSeq
    <3>3. back = SubSeq(x, a, b)
      OBVIOUS
    <3> HIDE DEF a, b, back
    <3>4. back \in Seq(Names)
      BY <3>1, <3>2, <3>3, SubSeqProperties
    <3>5. Len(back) = IF a <= b THEN b - a + 1 ELSE 0
      BY <3>1, <3>2, <3>3, SubSeqProperties
    <3>6. \A i \in 1..b - a + 1 : back[i] = x[a + i - 1]
      BY <3>1, <3>2, <3>3, SubSeqProperties
    <3>7. Len(back) = n - l
      BY <1>1, <1>2, <3>1, <3>5
    <3>8. ASSUME NEW i \in 1..n - l
          PROVE  back[i] = x[m + i]
      <4>1. i \in 1..b - a + 1 /\ a + i - 1 = m + i
        BY <1>1, <1>2, <3>1
      <4> QED BY <3>6, <4>1
    <3> QED BY <3>4, <3>7, <3>8
  <2>2. y = Image(x, t, s)
    BY <1>8 DEF Image, m
  <2> HIDE DEF back
  <2>3. y \in Seq(Names) /\ Len(y) = n /\ \A i \in 1..n : y[i] = IF i <= l THEN s[i] ELSE back[i - l]
    <3>1. y \in Seq(Names)
      BY <1>1, <2>1, ConcatProperties
    <3>2. Len(y) = l + (n - l)
      BY <1>1, <2>1, ConcatProperties DEF l
    <3>3. \A i \in 1..l + (n - l) : y[i] = IF i <= l THEN s[i] ELSE back[i - l]
      BY <1>1, <2>1, ConcatProperties DEF l
    <3> HIDE DEF y
    <3> QED BY <1>1, <1>2, <3>1, <3>2, <3>3
  <2> HIDE DEF y
  <2>4. ASSUME NEW i \in 1..n
        PROVE  y[i] = p[i]
    <3>1. CASE i <= l
      BY <1>1, <1>2, <2>3, <3>1
    <3>2. CASE i > l
      <4> DEFINE j == i - l
      <4>1. j \in 1..n - l /\ j + l = i
        BY <1>1, <1>2, <3>2
      <4>2. y[i] = back[j]
        BY <1>1, <1>2, <2>3, <3>2
      <4>3. back[j] = x[m + j]
        BY <2>1, <4>1
      <4> DEFINE k == m + j
      <4>4. k \in 1..m + n - l /\ ~(k <= m) /\ k - m = j
        BY <1>1, <1>2, <4>1
      <4> HIDE DEF j, k
      <4>5. x[k] = tail[j]
        BY <1>8, <4>4
      <4>6. tail[j] = p[l + j] /\ l + j = i
        BY <1>1, <1>2, <1>7, <4>1
      <4> QED BY <4>2, <4>3, <4>5, <4>6 DEF k
    <3> QED BY <1>1, <1>2, <3>1, <3>2
  <2>5. y = p
    BY <2>3, <2>4, SeqEqual DEF n
  <2> QED BY <2>2, <2>5
<1>11. ASSUME p = s
       PROVE  x = t
  <2>1. n = l
    BY <1>11 DEF n, l
  <2>2. Len(x) = Len(t) /\ \A i \in 1..Len(x) : x[i] = t[i]
    BY <1>1, <1>8, <2>1 DEF m
  <2> QED BY <1>1, <1>8, <2>2, SeqEqual
<1>12. ASSUME s = t
       PROVE  x = p
  <2>1. m = l
    BY <1>12 DEF m, l
  <2>2. Len(x) = n
    BY <1>1, <1>2, <1>8, <2>1
  <2>3. ASSUME NEW i \in 1..n
        PROVE  x[i] = p[i]
    <3>1. CASE i <= l
      <4>1. x[i] = t[i]
        BY <1>1, <1>2, <1>8, <2>1, <3>1
      <4>2. s[i] = p[i]
        BY <1>1, <1>2, <3>1
      <4> QED BY <1>12, <4>1, <4>2
    <3>2. CASE i > l
      <4> DEFINE j == i - l
      <4>1. j \in 1..n - l /\ l + j = i
        BY <1>1, <1>2, <3>2
      <4>2. x[i] = tail[j]
        BY <1>1, <1>2, <1>8, <2>1, <3>2
      <4> QED BY <1>7, <4>1, <4>2
    <3> QED BY <1>1, <1>2, <3>1, <3>2
  <2> QED BY <1>8, <2>2, <2>3, SeqEqual DEF n
<1>13. Len(x) = Len(t) + Len(p) - Len(s)
  BY <1>8 DEF m, n, l
<1> QED BY <1>6, <1>8, <1>9, <1>10, <1>11, <1>12, <1>13

-----------------------------------------------------------------------------
(* The tree of files.                                                      *)

\* What is somewhere is in a folder, and a file is in one place only.
InFolders(f) == \A p \in Paths : f[p] # None => Parent(p) = <<>> \/ f[Parent(p)] = Dir
Unique(f)    == \A p, q \in Paths : f[p] \in Nodes /\ f[p] = f[q] => p = q
IsTree(f)    == f \in [Paths -> Nodes \cup {Dir, None}] /\ InFolders(f) /\ Unique(f)

\* What is at or below a path of T.
Reach(T, x) == \E p \in T : IsPrefix(p, x)

\* A step turns one tree into another, and touches only what is at or below the paths of T, and
\* folders above them that were missing: files stay, go from one of these places to another, or
\* are made by one of the requests M.
TreeStep(M, T) ==
    /\ IsTree(fs')
    /\ \A x \in Paths : \/ fs'[x] = fs[x]
                        \/ Reach(T, x)
                        \/ fs[x] = None /\ fs'[x] = Dir /\ \E p \in T : IsPrefix(x, p)
    /\ \A x \in Paths : fs'[x] \in Nodes =>
          \/ fs'[x] = fs[x]
          \/ Reach(T, x) /\ \E y \in Paths : Reach(T, y) /\ fs[y] = fs'[x]
          \/ \E r \in M : Reach(T, x) /\ fs'[x] = <<r, x>> /\ \A y \in Paths : fs[y] # <<r, x>>

\* What may be at a path is told apart.
LEMMA Kinds ==
    /\ Dir \notin Nodes /\ None \notin Nodes /\ Dir # None
    /\ <<>> \notin Paths /\ None \notin Paths
<1>1. <<>> \notin Paths
  BY PathIs, RootIs
<1> QED BY <1>1, FilesAssumption

\* The folders.
LEMMA IsDirIs ==
    ASSUME NEW p \in Paths
    PROVE  /\ IsDir(p) <=> fs[p] = Dir
           /\ IsDir(Parent(p)) <=> Parent(p) = <<>> \/ fs[Parent(p)] = Dir
<1>1. p # <<>>
  BY Kinds
<1>2. Parent(p) \in Paths \cup {<<>>}
  BY ParentIs
<1> QED BY <1>1, <1>2, Kinds DEF IsDir

\* What has something below it is a folder, and that is in it.
LEMMA Above ==
    ASSUME IsTree(fs), NEW s \in Paths, NEW p \in Paths, IsPrefix(s, p), p # s, fs[p] # None
    PROVE  fs[s] = Dir /\ p \in Children(s)
<1>1. Parent(p) = s
  BY UnderIs
<1>2. s # <<>>
  BY Kinds
<1> QED BY <1>1, <1>2 DEF IsTree, InFolders, Children

\* A step that leaves everything where it is.
LEMMA StaysTree ==
    ASSUME IsTree(fs), UNCHANGED fs, NEW M, NEW T
    PROVE  TreeStep(M, T)
  BY DEF TreeStep

\* Missing folders are made, down to p, which is above, at or below one of these paths.
LEMMA MakesFolders ==
    ASSUME IsTree(fs), NEW M, NEW T, T \subseteq Paths,
           NEW p \in Paths \cup {<<>>}, CanMakeDirs(p), fs' = WithDirs(p),
           \E t \in T : IsPrefix(p, t) \/ IsPrefix(t, p)
    PROVE  TreeStep(M, T)
<1>1. fs \in [Paths -> Nodes \cup {Dir, None}]
  BY DEF IsTree
<1>2. \A x \in Paths : fs'[x] = IF IsPrefix(x, p) THEN Dir ELSE fs[x]
  BY DEF WithDirs
<1>3. fs' \in [Paths -> Nodes \cup {Dir, None}]
  BY <1>1 DEF WithDirs
<1>4. p \in Seq(Names)
  BY PathIs, RootIs
<1>5. InFolders(fs')
  <2>1. SUFFICES ASSUME NEW x \in Paths, fs'[x] # None, Parent(x) # <<>>
                 PROVE  fs'[Parent(x)] = Dir
    BY DEF InFolders
  <2>2. Parent(x) \in Paths /\ IsPrefix(Parent(x), x) /\ x \in Seq(Names) /\ Parent(x) \in Seq(Names)
    BY <2>1, ParentIs, PathIs
  <2>3. CASE IsPrefix(x, p)
    <3>1. IsPrefix(Parent(x), p)
      BY <1>4, <2>2, <2>3, PrefixOrder
    <3> QED BY <1>2, <2>2, <3>1
  <2>4. CASE ~IsPrefix(x, p)
    <3>1. fs[x] # None
      BY <1>2, <2>1, <2>4
    <3>2. fs[Parent(x)] = Dir
      BY <2>1, <3>1 DEF IsTree, InFolders
    <3> QED BY <1>2, <2>2, <3>2
  <2> QED BY <2>3, <2>4
<1>6. Unique(fs')
  <2>1. \A x \in Paths : fs'[x] \in Nodes => fs[x] = fs'[x]
    BY <1>2, Kinds
  <2> QED BY <2>1 DEF IsTree, Unique
<1>7. PICK t \in T : IsPrefix(p, t) \/ IsPrefix(t, p)
  OBVIOUS
<1>8. t \in Seq(Names)
  BY PathIs
<1>9. ASSUME NEW x \in Paths, fs'[x] # fs[x]
      PROVE  fs[x] = None /\ fs'[x] = Dir /\ (Reach(T, x) \/ \E q \in T : IsPrefix(x, q))
  <2>1. IsPrefix(x, p) /\ fs'[x] = Dir
    BY <1>2, <1>9
  <2>2. fs[x] \notin Nodes
    BY <2>1 DEF CanMakeDirs, IsFile
  <2>3. fs[x] = None
    BY <1>1, <1>9, <2>1, <2>2
  <2>4. IsPrefix(x, t) \/ IsPrefix(t, x)
    BY <1>4, <1>7, <1>8, <2>1, PathIs, PrefixOrder
  <2> QED BY <1>7, <2>1, <2>3, <2>4 DEF Reach
<1>10. \A x \in Paths : fs'[x] \in Nodes => fs'[x] = fs[x]
  BY <1>9, Kinds
<1> QED BY <1>3, <1>5, <1>6, <1>9, <1>10 DEF TreeStep, IsTree

\* One path gets another value: a folder where nothing was, or nothing where nothing is below,
\* or a file that is new or was there.
LEMMA ChangesOne ==
    ASSUME IsTree(fs), NEW M, NEW T, NEW p \in Paths, Reach(T, p),
           NEW v \in Nodes \cup {Dir, None}, fs' = [fs EXCEPT ![p] = v],
           v # None => IsDir(Parent(p)),
           v # Dir => fs[p] # Dir \/ Children(p) = {},
           v \in Nodes => v = fs[p] \/ \E r \in M : v = <<r, p>> /\ \A x \in Paths : fs[x] # v
    PROVE  TreeStep(M, T)
<1>1. fs \in [Paths -> Nodes \cup {Dir, None}]
  BY DEF IsTree
<1>2. fs'[p] = v /\ \A x \in Paths \ {p} : fs'[x] = fs[x]
  BY <1>1
<1>3. fs' \in [Paths -> Nodes \cup {Dir, None}]
  BY <1>1
<1>4. InFolders(fs')
  <2>1. SUFFICES ASSUME NEW x \in Paths, fs'[x] # None, Parent(x) # <<>>
                 PROVE  fs'[Parent(x)] = Dir
    BY DEF InFolders
  <2>2. Parent(x) \in Paths /\ IsPrefix(Parent(x), x) /\ Parent(x) # x
    BY <2>1, ParentIs
  <2>3. CASE x = p
    <3>1. fs[Parent(p)] = Dir
      BY <1>2, <2>1, <2>3, IsDirIs
    <3> QED BY <1>2, <2>2, <2>3, <3>1
  <2>4. CASE x # p
    <3>1. fs[x] # None
      BY <1>2, <2>1, <2>4
    <3>2. fs[Parent(x)] = Dir
      BY <2>1, <3>1 DEF IsTree, InFolders
    <3>3. CASE Parent(x) # p
      BY <1>2, <2>2, <3>2, <3>3
    <3>4. CASE Parent(x) = p
      <4>1. x \in Children(p) /\ fs[p] = Dir
        BY <3>1, <3>2, <3>4 DEF Children
      <4> QED BY <1>2, <3>4, <4>1
    <3> QED BY <3>3, <3>4
  <2> QED BY <2>3, <2>4
<1>5. Unique(fs')
  <2>1. SUFFICES ASSUME NEW x \in Paths, NEW y \in Paths, fs'[x] \in Nodes, fs'[x] = fs'[y], x # y
                 PROVE  FALSE
    BY DEF Unique
  <2>2. Unique(fs)
    BY DEF IsTree
  <2>3. CASE x # p /\ y # p
    BY <1>2, <2>1, <2>2, <2>3 DEF Unique
  <2>4. CASE x = p
    <3>1. fs'[y] = fs[y] /\ v \in Nodes /\ fs[y] = v
      BY <1>2, <2>1, <2>4
    <3>2. v = fs[p]
      BY <3>1
    <3> QED BY <2>1, <2>2, <2>4, <3>1, <3>2 DEF Unique
  <2>5. CASE y = p
    <3>1. fs'[x] = fs[x] /\ v \in Nodes /\ fs[x] = v
      BY <1>2, <2>1, <2>5
    <3>2. v = fs[p]
      BY <3>1
    <3> QED BY <2>1, <2>2, <2>5, <3>1, <3>2 DEF Unique
  <2> QED BY <2>3, <2>4, <2>5
<1>6. \A x \in Paths : fs'[x] = fs[x] \/ Reach(T, x)
  BY <1>2
<1>7. ASSUME NEW x \in Paths, fs'[x] \in Nodes
      PROVE  \/ fs'[x] = fs[x]
             \/ \E r \in M : Reach(T, x) /\ fs'[x] = <<r, x>> /\ \A y \in Paths : fs[y] # <<r, x>>
  <2>1. CASE x # p
    <3>1. x \in Paths \ {p}
      BY <2>1
    <3>2. fs'[x] = fs[x]
      BY <1>2, <3>1
    <3> QED BY <3>2
  <2>2. CASE x = p
    <3>1. v \in Nodes /\ (v = fs[p] \/ \E r \in M : v = <<r, p>> /\ \A y \in Paths : fs[y] # v)
      BY <1>2, <1>7, <2>2
    <3> QED BY <1>2, <2>2, <3>1
  <2> QED BY <2>1, <2>2
<1>8. IsTree(fs')
  BY <1>3, <1>4, <1>5 DEF IsTree
<1> QED BY <1>6, <1>7, <1>8 DEF TreeStep

\* What is where after a rename.
LEMMA RenamedIs ==
    ASSUME NEW s \in Paths, NEW t \in Paths, fs' = Renamed(s, t), s # t, NEW p \in Paths
    PROVE  /\ IsPrefix(t, p) /\ Image(p, t, s) \in Paths => fs'[p] = fs[Image(p, t, s)]
           /\ IsPrefix(t, p) /\ Image(p, t, s) \notin Paths => fs'[p] = fs[p]
           /\ ~IsPrefix(t, p) /\ IsPrefix(s, p) => fs'[p] = None
           /\ ~IsPrefix(t, p) /\ ~IsPrefix(s, p) => fs'[p] = fs[p]
<1>1. fs'[p] = CASE s # t /\ IsPrefix(t, p) /\ Image(p, t, s) \in Paths -> fs[Image(p, t, s)]
                 [] s # t /\ ~IsPrefix(t, p) /\ IsPrefix(s, p) -> None
                 [] OTHER -> fs[p]
  BY DEF Renamed
<1> HIDE DEF Image
<1> QED BY <1>1

\* Renaming something to its own name changes nothing.
LEMMA RenamedSame ==
    ASSUME NEW s \in Paths, IsTree(fs), fs' = Renamed(s, s)
    PROVE  fs' = fs
<1>1. fs \in [Paths -> Nodes \cup {Dir, None}]
  BY DEF IsTree
<1>2. fs' = [p \in Paths |-> fs[p]]
  BY DEF Renamed
<1> QED BY <1>1, <1>2

\* A rename moves what is at and below s to t.
LEMMA Moves ==
    ASSUME IsTree(fs), NEW M, NEW T, NEW s \in Paths, NEW t \in Paths, s \in T, t \in T,
           CanRename(s, t), fs' = Renamed(s, t), s # t
    PROVE  /\ TreeStep(M, T)
           /\ \A p \in Paths : IsPrefix(s, p) /\ ~IsPrefix(t, p) => fs'[p] = None
<1>1. fs \in [Paths -> Nodes \cup {Dir, None}] /\ s \in Seq(Names) /\ t \in Seq(Names)
  BY PathIs DEF IsTree
<1>2. \A p \in Paths : p \in Seq(Names)
  BY PathIs
<1>3. fs[s] # None /\ ~(IsPrefix(s, t)) /\ (Parent(t) = <<>> \/ fs[Parent(t)] = Dir)
  BY IsDirIs DEF CanRename, IsStrictPrefix
<1>4. ASSUME NEW p \in Paths, IsPrefix(t, p)
      PROVE  IsPrefix(s, Image(p, t, s)) /\ Image(Image(p, t, s), s, t) = p
  BY <1>2, <1>4, ImageIs
<1>5. fs' \in [Paths -> Nodes \cup {Dir, None}]
  <2>1. \A p \in Paths : fs'[p] \in Nodes \cup {Dir, None}
    BY <1>1, RenamedIs
  <2>2. DOMAIN fs' = Paths /\ fs' = [p \in Paths |-> fs'[p]]
    BY DEF Renamed
  <2> QED BY <2>1, <2>2
\* Nothing is below the target but what comes there.
<1>6. ASSUME NEW p \in Paths, IsPrefix(t, p), p # t
      PROVE  fs[p] = None
  <2>1. SUFFICES ASSUME fs[p] # None
                 PROVE  FALSE
    OBVIOUS
  <2>2. fs[t] = Dir /\ p \in Children(t)
    BY <1>6, <2>1, Above
  <2> QED BY <2>2, Kinds DEF CanRename, IsFile
<1>7. Image(t, t, s) = s
  BY <1>1, ImageIs, PrefixOrder
<1>8. fs'[t] = fs[s]
  BY <1>1, <1>7, RenamedIs, PrefixOrder
<1>9. InFolders(fs')
  <2>1. SUFFICES ASSUME NEW p \in Paths, fs'[p] # None, Parent(p) # <<>>
                 PROVE  fs'[Parent(p)] = Dir
    BY DEF InFolders
  <2>2. /\ Parent(p) \in Paths /\ Parent(p) \in Seq(Names) /\ IsPrefix(Parent(p), p)
        /\ Parent(p) # p /\ p \in Seq(Names)
    BY <2>1, ParentIs, PathIs
  <2>3. CASE p = t
    <3>1. ~IsPrefix(t, Parent(t))
      BY <1>1, <2>2, <2>3, PrefixOrder
    <3>2. ~IsPrefix(s, Parent(t))
      BY <1>1, <1>3, <2>2, <2>3, PrefixOrder
    <3>3. fs'[Parent(t)] = fs[Parent(t)]
      BY <2>2, <2>3, <3>1, <3>2, RenamedIs
    <3> QED BY <1>3, <2>1, <2>3, <3>3
  <2>4. CASE p # t /\ IsPrefix(t, p)
    <3> DEFINE y == Image(p, t, s)
    <3>1. fs[p] = None
      BY <1>6, <2>4
    <3>2. y \in Paths /\ fs'[p] = fs[y]
      BY <2>1, <2>4, <3>1, RenamedIs
    <3>3. IsPrefix(s, y) /\ Image(y, s, t) = p
      BY <1>4, <2>4
    <3> HIDE DEF y
    <3>4. y # s
      BY <1>1, <2>4, <3>3, ImageIs, PrefixOrder
    <3>5. fs[s] = Dir
      BY <2>1, <3>2, <3>3, <3>4, Above
    <3>6. Parent(p) = t
      BY <2>4, UnderIs
    <3> QED BY <1>8, <3>5, <3>6
  <2>5. CASE ~IsPrefix(t, p)
    <3>1. ~IsPrefix(s, p) /\ fs'[p] = fs[p]
      BY <2>1, <2>5, RenamedIs
    <3>2. fs[Parent(p)] = Dir
      BY <2>1, <3>1 DEF IsTree, InFolders
    <3>3. ~IsPrefix(t, Parent(p)) /\ ~IsPrefix(s, Parent(p))
      BY <1>1, <2>2, <2>5, <3>1, PrefixOrder
    <3> QED BY <2>2, <3>2, <3>3, RenamedIs
  <2> QED BY <2>3, <2>4, <2>5
\* Where the files come from.
<1>10. ASSUME NEW p \in Paths, fs'[p] \in Nodes
       PROVE  \/ ~IsPrefix(t, p) /\ ~IsPrefix(s, p) /\ fs'[p] = fs[p]
              \/ /\ IsPrefix(t, p) /\ Image(p, t, s) \in Paths /\ fs'[p] = fs[Image(p, t, s)]
                 /\ IsPrefix(s, Image(p, t, s)) /\ Image(Image(p, t, s), s, t) = p
  <2>1. CASE IsPrefix(t, p)
    <3>1. Image(p, t, s) \in Paths
      <4>1. SUFFICES ASSUME Image(p, t, s) \notin Paths
                     PROVE  FALSE
        OBVIOUS
      <4>2. fs'[p] = fs[p] /\ p # t
        BY <1>7, <2>1, <4>1, RenamedIs
      <4> QED BY <1>6, <1>10, <2>1, <4>2, Kinds
    <3> QED BY <1>4, <2>1, <3>1, RenamedIs
  <2>2. CASE ~IsPrefix(t, p)
    BY <1>10, <2>2, Kinds, RenamedIs
  <2> QED BY <2>1, <2>2
<1>11. Unique(fs')
  <2>1. SUFFICES ASSUME NEW p \in Paths, NEW q \in Paths, fs'[p] \in Nodes, fs'[p] = fs'[q]
                 PROVE  p = q
    BY DEF Unique
  <2>2. Unique(fs)
    BY DEF IsTree
  <2> DEFINE y == Image(p, t, s)
             z == Image(q, t, s)
  <2>3. \/ ~IsPrefix(t, p) /\ ~IsPrefix(s, p) /\ fs'[p] = fs[p]
        \/ IsPrefix(t, p) /\ y \in Paths /\ fs'[p] = fs[y] /\ IsPrefix(s, y) /\ Image(y, s, t) = p
    BY <1>10, <2>1
  <2>4. \/ ~IsPrefix(t, q) /\ ~IsPrefix(s, q) /\ fs'[q] = fs[q]
        \/ IsPrefix(t, q) /\ z \in Paths /\ fs'[q] = fs[z] /\ IsPrefix(s, z) /\ Image(z, s, t) = q
    BY <1>10, <2>1
  <2> HIDE DEF y, z
  <2> QED BY <2>1, <2>2, <2>3, <2>4 DEF Unique
<1>12. \A p \in Paths : fs'[p] = fs[p] \/ IsPrefix(t, p) \/ IsPrefix(s, p)
  BY RenamedIs
<1>13. \A p \in Paths : fs'[p] = fs[p] \/ Reach(T, p)
  BY <1>12 DEF Reach
<1>14. \A p \in Paths : fs'[p] \in Nodes =>
         \/ fs'[p] = fs[p]
         \/ Reach(T, p) /\ \E y \in Paths : Reach(T, y) /\ fs[y] = fs'[p]
  BY <1>10 DEF Reach
<1>15. IsTree(fs')
  BY <1>5, <1>9, <1>11 DEF IsTree
<1>16. TreeStep(M, T)
  BY <1>13, <1>14, <1>15 DEF TreeStep
<1>17. \A p \in Paths : IsPrefix(s, p) /\ ~IsPrefix(t, p) => fs'[p] = None
  BY RenamedIs
<1> QED BY <1>16, <1>17

-----------------------------------------------------------------------------
(* Who may reach a file.                                                   *)

\* The request r, which asks for q and is at step t, may still make a node for the path p.
Unmade(q, t, p) ==
    \/ q = None
    \/ t # None /\ t.at \in {"open", "tree", "file"}
    \/ t # None /\ t.at = "copy" /\ \E e \in t.todo : e[2] = p

\* Who is at step t writes to the node n.
Holds(t, n) == t # None /\ t.at \in {"write", "copy"} /\ t.node = n

\* What has come as near to m as w has: every closed set with m has w.
Begun           == {s \in Requests : asked[s] # None}
Connected(w, m) == \A S \in SUBSET Requests : S \subseteq Begun /\ m \in S /\ Closed(S) => w \in S

\* A node that may still be made is nowhere, and nobody writes to it.
NodesNew ==
    \A r \in Requests, p \in Paths : Unmade(asked[r], task[r], p) =>
        /\ \A x \in Paths : fs[x] # <<r, p>>
        /\ \A k \in Requests : ~Holds(task[k], <<r, p>>)

\* A file to which k writes is where k, or who came near to what did, has put it.
HandlesNear ==
    \A k \in Requests, x \in Paths : fs[x] \in Nodes /\ Holds(task[k], fs[x]) =>
        \E m \in Changing : Reach(Named(asked[m]), x) /\ Connected(k, m)

\* A request has ended when it is no more in flight, and those before it have.
EndedIs ==
    \A r \in Requests : /\ task[r] # None \/ asked[r] = None => outcome[r] = "none"
                        /\ before[r] \in SUBSET Requests
                        /\ \A q \in before[r] : outcome[q] # "none"

\* What is still to be copied or removed is at or below what was named.
TodoFits(q, t) ==
    t # None =>
      /\ t.at = "copy" => \A e \in t.todo :
            /\ IsPrefix(q.path, e[1]) /\ IsPrefix(q.to, e[2])
            /\ \A f \in t.todo : f[2] = e[2] => e = f
      /\ t.at = "rmtree" => \A e \in t.todo : IsPrefix(q.ops[t.i].path, e[1])

DiskInv ==
    IsTree(fs) /\ NodesNew /\ HandlesNear /\ EndedIs /\ \A r \in Requests : TodoFits(asked[r], task[r])

\* What any step of r does.
Acts(r) ==
    LET T == Named(asked'[r])
    IN  /\ task[r] # None \/ asked[r] = None
        /\ Stepped(r)
        /\ \A k \in Requests \ {r} : outcome'[k] = outcome[k] /\ before'[k] = before[k]
        /\ task'[r] # None => outcome'[r] = outcome[r]
        /\ before'[r] = before[r] \/ before'[r] = {q \in Requests : outcome[q] # "none"}
        /\ asked[r] # None => before'[r] = before[r]
        /\ TodoFits(asked'[r], task'[r])
        /\ TreeStep({r}, T)
        /\ asked'[r].kind \in {"download", "list"} => UNCHANGED disk
        /\ \A p \in Paths : Unmade(asked'[r], task'[r], p) => /\ Unmade(asked[r], task[r], p)
                                                              /\ fs'[p] = <<r, p>> => fs[p] = <<r, p>>
        /\ \A p \in Paths : fs'[p] = <<r, p>> /\ fs[p] # <<r, p>> /\ (\A y \in Paths : fs[y] # <<r, p>>)
              => Unmade(asked[r], task[r], p)
        /\ \A n \in Nodes : content'[n] = content[n] \/ Holds(task[r], n)
                              \/ \E p \in Paths : Reach(T, p) /\ fs'[p] = n
        /\ \A n \in Nodes : Holds(task'[r], n) => \/ Holds(task[r], n)
                                                  \/ \E p \in Paths : Reach(T, p) /\ fs'[p] = n

-----------------------------------------------------------------------------
\* Names are paths, or the root of a listing.
LEMMA NamedIs ==
    ASSUME NEW q \in Asks
    PROVE  /\ Named(q) \in SUBSET Seq(Names)
           /\ q.kind # "list" => Named(q) \in SUBSET Paths
           /\ q.kind \in {"upload", "mkdir", "download"} => Named(q) = {q.path}
           /\ q.kind = "copy" => Named(q) = {q.path, q.to}
           /\ q.kind = "items" => \A i \in DOMAIN q.ops :
                 q.ops[i].path \in Named(q) /\ (q.ops[i].to # None => q.ops[i].to \in Named(q))
<1>1. q \in Ask
  BY FilesAssumption
<1>2. q.kind \in {"upload", "copy", "mkdir", "items", "download", "list"}
  BY <1>1 DEF Ask
<1>3. \A p \in Paths : p \in Seq(Names)
  BY PathIs
<1>4. q.kind \in {"upload", "mkdir", "download"} => Named(q) = {q.path} /\ q.path \in Paths
  BY AskFields DEF Named
<1>5. q.kind = "copy" => Named(q) = {q.path, q.to} /\ q.path \in Paths /\ q.to \in Paths
  BY AskFields DEF Named
<1>6. q.kind = "list" => Named(q) = {q.path} /\ q.path \in Paths \cup {<<>>}
  BY <1>1 DEF Named, Ask
<1>7. ASSUME q.kind = "items"
      PROVE  /\ Named(q) \in SUBSET Paths
             /\ \A i \in DOMAIN q.ops :
                 q.ops[i].path \in Named(q) /\ (q.ops[i].to # None => q.ops[i].to \in Named(q))
  <2>1. \A i \in DOMAIN q.ops : q.ops[i] \in Operation
    BY <1>7, AskFields
  <2>2. Named(q) = UNION {{o.path, o.to} \ {None} : o \in ToSet(q.ops)}
    BY <1>7 DEF Named
  <2>3. \A o \in Operation : o.path \in Paths /\ o.to \in Paths \cup {None} /\ o.path # None
    BY Kinds DEF Operation
  <2>4. \A o \in ToSet(q.ops) : \E i \in DOMAIN q.ops : o = q.ops[i]
    BY DEF ToSet
  <2>5. \A i \in DOMAIN q.ops : q.ops[i] \in ToSet(q.ops)
    BY DEF ToSet
  <2>6. ASSUME NEW p \in Named(q)
        PROVE  p \in Paths
    <3>1. PICK o \in ToSet(q.ops) : p \in {o.path, o.to} \ {None}
      BY <2>2
    <3>2. o \in Operation
      BY <2>1, <2>4
    <3> QED BY <2>3, <3>1, <3>2
  <2>7. ASSUME NEW i \in DOMAIN q.ops
        PROVE  q.ops[i].path \in Named(q) /\ (q.ops[i].to # None => q.ops[i].to \in Named(q))
    <3> DEFINE o == q.ops[i]
    <3>1. o \in ToSet(q.ops) /\ o.path # None
      BY <2>1, <2>3, <2>5
    <3>2. {o.path, o.to} \ {None} \subseteq Named(q)
      BY <2>2, <3>1
    <3> QED BY <3>1, <3>2
  <2> QED BY <2>6, <2>7
<1> HIDE DEF Named, Names
<1>8. Named(q) \in SUBSET Seq(Names)
  <2>1. Named(q) \subseteq Paths \cup {<<>>}
    BY <1>2, <1>4, <1>5, <1>6, <1>7
  <2>2. <<>> \in Seq(Names)
    BY RootIs
  <2> QED BY <1>3, <2>1, <2>2
<1> QED BY <1>2, <1>4, <1>5, <1>6, <1>7, <1>8

\* Two requests that reach the same place are near.
LEMMA MeetIsNear ==
    ASSUME NEW q \in Asks, NEW s \in Asks, NEW x \in Paths, Reach(Named(q), x),
           Reach(Named(s), x) \/ \E t \in Named(s) : IsPrefix(x, t)
    PROVE  Near(q, s) /\ Near(s, q)
<1>1. PICK p \in Named(q) : IsPrefix(p, x)
  BY DEF Reach
<1>2. p \in Seq(Names) /\ x \in Seq(Names) /\ \A t \in Named(s) : t \in Seq(Names)
  BY NamedIs, PathIs
<1>3. CASE Reach(Named(s), x)
  <2>1. PICK t \in Named(s) : IsPrefix(t, x)
    BY <1>3 DEF Reach
  <2>2. IsPrefix(p, t) \/ IsPrefix(t, p)
    BY <1>1, <1>2, <2>1, PrefixOrder
  <2> QED BY <2>2 DEF Near
<1>4. CASE \E t \in Named(s) : IsPrefix(x, t)
  <2>1. PICK t \in Named(s) : IsPrefix(x, t)
    BY <1>4
  <2>2. IsPrefix(p, t)
    BY <1>1, <1>2, <2>1, PrefixOrder
  <2> QED BY <2>2 DEF Near
<1> QED BY <1>3, <1>4

\* A request that begins makes no set closed that was not, but for itself.
LEMMA ClosedBefore ==
    ASSUME FilesInv, NEW r \in Requests, Asking(r), task[r] # None => asked[r] # None
    PROVE  /\ Changing \subseteq Changing' /\ Begun \subseteq Begun'
           /\ \A k \in Begun : asked'[k] = asked[k]
           /\ \A S \in SUBSET Requests : S \subseteq Begun' /\ Closed(S)' =>
                Closed(S \cap Begun)
<1>1. \A k \in Begun : asked'[k] = asked[k]
  BY DEF Begun, Asking
<1>2. Changing \subseteq Changing' /\ Begun \subseteq Begun' /\ Changing \subseteq Begun
  BY <1>1 DEF Changing, Begun
<1>3. ASSUME NEW S \in SUBSET Requests, Closed(S)'
      PROVE  Closed(S \cap Begun)
  <2>1. SUFFICES ASSUME NEW s \in S \cap Begun, NEW t \in Changing, Near(asked[s], asked[t])
                 PROVE  t \in S \cap Begun
    BY DEF Closed
  <2>2. t \in Changing' /\ t \in Begun /\ asked'[t] = asked[t] /\ asked'[s] = asked[s]
    BY <1>1, <1>2
  <2>3. \A u \in Changing' : Near(asked'[s], asked'[u]) => u \in S
    BY <1>3 DEF Closed
  <2> QED BY <2>1, <2>2, <2>3
<1> QED BY <1>1, <1>2, <1>3

\* Who was connected to a request stays so: a request that begins opens no way around.
LEMMA ConnectedKept ==
    ASSUME FilesInv, NEW r \in Requests, Asking(r), NEW w \in Requests, NEW m \in Changing,
           Connected(w, m)
    PROVE  Connected(w, m)'
<1>1. SUFFICES ASSUME NEW S \in SUBSET Requests, S \subseteq Begun', m \in S, Closed(S)'
               PROVE  w \in S
  BY DEF Connected
<1>2. task[r] # None => asked[r] # None
  BY DEF FilesInv, TypeOK
<1>3. Closed(S \cap Begun)
  BY <1>1, <1>2, ClosedBefore
<1>4. m \in Begun
  BY DEF Changing, Begun
<1>5. S \cap Begun \in SUBSET Requests /\ m \in S \cap Begun
  BY <1>1, <1>4
<1>6. w \in S \cap Begun
  BY <1>3, <1>5 DEF Connected
<1> QED BY <1>6

\* What a step leaves of who asks for what.
LEMMA ActsAsk ==
    ASSUME FilesInv, DiskInv, NEW r \in Requests, Acts(r)
    PROVE  /\ Asking(r) /\ asked'[r] \in Asks /\ asked'[r] # None
           /\ \A k \in Requests \ {r} : /\ task'[k] = task[k] /\ asked'[k] = asked[k]
                                        /\ results'[k] = results[k] /\ body'[k] = body[k]
                                        /\ outcome'[k] = outcome[k] /\ before'[k] = before[k]
           /\ task[r] # None => asked'[r] = asked[r]
           /\ r \in Changing' \/ UNCHANGED disk
<1>1. Stepped(r)
  BY DEF Acts
<1>2. Asking(r)
  BY <1>1 DEF Stepped
<1>3. asked'[r] \in Asks /\ asked'[r] # None
  BY <1>2 DEF Asking
<1>4. \A k \in Requests \ {r} : asked'[k] = asked[k]
  <2>1. asked \in [Requests -> Asks \cup {None}] /\ asked' \in [Requests -> Asks \cup {None}]
    BY <1>2 DEF FilesInv, TypeOK, Asking
  <2> QED BY <1>2 DEF Asking
<1>5. \A k \in Requests \ {r} : /\ task'[k] = task[k]
                                /\ results'[k] = results[k] /\ body'[k] = body[k]
  BY <1>1 DEF Stepped
<1>6. \A k \in Requests \ {r} : outcome'[k] = outcome[k] /\ before'[k] = before[k]
  BY DEF Acts
<1>7. task[r] # None => asked'[r] = asked[r]
  BY <1>2 DEF Asking, FilesInv, TypeOK
<1>8. asked'[r].kind \in {"download", "list"} => UNCHANGED disk
  BY DEF Acts
<1>9. r \in Changing' \/ UNCHANGED disk
  BY <1>3, <1>8 DEF Changing
<1> QED BY <1>2, <1>3, <1>4, <1>5, <1>6, <1>7, <1>9

\* The parts of the invariant, one by one: no step of r spoils them.
LEMMA NodesNewKept ==
    ASSUME FilesInv, DiskInv, NEW r \in Requests, Acts(r)
    PROVE  NodesNew'
<1>1. SUFFICES ASSUME NEW k \in Requests, NEW p \in Paths, Unmade(asked'[k], task'[k], p)
               PROVE  /\ \A x \in Paths : fs'[x] # <<k, p>>
                      /\ \A j \in Requests : ~Holds(task'[j], <<k, p>>)
  BY DEF NodesNew
<1>2. Unmade(asked[k], task[k], p) /\ (fs'[p] = <<k, p>> => fs[p] = <<k, p>> \/ k # r)
  <2>1. CASE k = r
    BY <1>1, <2>1 DEF Acts
  <2>2. CASE k # r
    BY <1>1, <2>2, ActsAsk
  <2> QED BY <2>1, <2>2
<1>3. (\A x \in Paths : fs[x] # <<k, p>>) /\ \A j \in Requests : ~Holds(task[j], <<k, p>>)
  BY <1>2 DEF DiskInv, NodesNew
<1>4. <<k, p>> \in Nodes
  BY DEF Nodes
<1>5. ASSUME NEW x \in Paths, fs'[x] = <<k, p>>
      PROVE  FALSE
  <2>1. \/ fs'[x] = fs[x]
        \/ \E y \in Paths : fs[y] = fs'[x]
        \/ fs'[x] = <<r, x>>
    BY <1>4, <1>5 DEF Acts, TreeStep
  <2>2. <<k, p>> = <<r, x>>
    BY <1>3, <1>5, <2>1
  <2>3. k = r /\ p = x
    BY <2>2
  <2> QED BY <1>2, <1>3, <1>5, <2>3
<1>6. ASSUME NEW j \in Requests, Holds(task'[j], <<k, p>>)
      PROVE  FALSE
  <2>1. CASE j = r
    <3>1. Holds(task[r], <<k, p>>) \/ \E x \in Paths : fs'[x] = <<k, p>>
      BY <1>4, <1>6, <2>1 DEF Acts
    <3> QED BY <1>3, <1>5, <3>1
  <2>2. CASE j # r
    <3>1. task'[j] = task[j]
      BY <2>2, ActsAsk
    <3> QED BY <1>3, <1>6, <3>1
  <2> QED BY <2>1, <2>2
<1> QED BY <1>5, <1>6

\* Whoever moves a file to which another one writes is near, or near one who is.
LEMMA HandlesNearKept ==
    ASSUME FilesInv, DiskInv, NEW r \in Requests, Acts(r)
    PROVE  HandlesNear'
<1>1. SUFFICES ASSUME NEW k \in Requests, NEW x \in Paths, fs'[x] \in Nodes, Holds(task'[k], fs'[x])
               PROVE  \E m \in Changing' : Reach(Named(asked'[m]), x) /\ Connected(k, m)'
  BY DEF HandlesNear
<1> DEFINE T == Named(asked'[r])
           n == fs'[x]
<1>2. /\ Asking(r) /\ asked'[r] \in Asks /\ asked'[r] # None
      /\ r \in Changing' \/ UNCHANGED disk
      /\ \A j \in Requests \ {r} : task'[j] = task[j]
  BY ActsAsk
<1>3. task[r] # None => asked[r] # None
  BY DEF FilesInv, TypeOK
<1>4. Changing \subseteq Changing' /\ \A j \in Changing : asked'[j] = asked[j]
  BY <1>2, <1>3, ClosedBefore DEF Changing, Begun
<1>5. CASE Holds(task[k], n)
  <2>1. ASSUME NEW y \in Paths, fs[y] = n
        PROVE  \E m \in Changing' : Reach(Named(asked'[m]), y) /\ Connected(k, m)'
    <3>1. PICK m \in Changing : Reach(Named(asked[m]), y) /\ Connected(k, m)
      BY <1>1, <1>5, <2>1 DEF DiskInv, HandlesNear
    <3>2. Connected(k, m)'
      BY <1>2, <3>1, ConnectedKept
    <3> QED BY <1>4, <3>1, <3>2
  <2>2. CASE fs'[x] = fs[x]
    BY <2>1, <2>2
  <2>3. CASE fs'[x] # fs[x]
    <3>1. \/ Reach(T, x) /\ \E y \in Paths : Reach(T, y) /\ fs[y] = fs'[x]
          \/ fs'[x] = <<r, x>> /\ \A y \in Paths : fs[y] # <<r, x>>
      BY <1>1, <2>3 DEF Acts, TreeStep
    <3>2. CASE Reach(T, x) /\ \E y \in Paths : Reach(T, y) /\ fs[y] = fs'[x]
      <4>1. PICK y \in Paths : Reach(T, y) /\ fs[y] = n
        BY <3>2
      <4>2. PICK m \in Changing' : Reach(Named(asked'[m]), y) /\ Connected(k, m)'
        BY <2>1, <4>1
      <4>3. r \in Changing'
        BY <1>2, <2>3 DEF disk
      <4>4. asked'[m] \in Asks
        BY <1>2 DEF Asking, Changing
      <4>5. Near(asked'[r], asked'[m])
        BY <1>2, <4>1, <4>2, <4>4, MeetIsNear
      <4>6. \A S \in SUBSET Requests : S \subseteq Begun' /\ r \in S /\ Closed(S)' => m \in S
        BY <4>2, <4>5 DEF Closed
      <4>7. Connected(k, r)'
        BY <4>2, <4>6 DEF Connected
      <4> QED BY <3>2, <4>3, <4>7
    <3>3. CASE fs'[x] = <<r, x>> /\ \A y \in Paths : fs[y] # <<r, x>>
      <4>1. Unmade(asked[r], task[r], x)
        BY <3>3 DEF Acts
      <4>2. ~Holds(task[k], <<r, x>>)
        BY <4>1 DEF DiskInv, NodesNew
      <4> QED BY <1>5, <3>3, <4>2
    <3> QED BY <3>1, <3>2, <3>3
  <2> QED BY <2>2, <2>3
<1>6. CASE ~Holds(task[k], n)
  <2>1. k = r
    BY <1>1, <1>2, <1>6
  <2>2. PICK p \in Paths : Reach(T, p) /\ fs'[p] = n
    BY <1>1, <1>6, <2>1 DEF Acts
  <2>3. x = p
    BY <1>1, <2>2 DEF Acts, TreeStep, IsTree, Unique
  <2>4. StepFits(asked'[r], task'[r], Len(results'[r]), body'[r])
    BY DEF Acts, Stepped
  <2>5. asked'[r].kind \in {"upload", "copy"}
    BY <1>1, <2>1, <2>4 DEF StepFits, Holds
  <2>6. r \in Changing'
    BY <1>2, <2>5 DEF Changing, Asking
  <2>7. Connected(r, r)'
    BY DEF Connected
  <2> QED BY <2>1, <2>2, <2>3, <2>6, <2>7
<1> QED BY <1>5, <1>6

\* A request ends once.
LEMMA EndedIsKept ==
    ASSUME FilesInv, DiskInv, NEW r \in Requests, Acts(r)
    PROVE  EndedIs'
<1>1. SUFFICES ASSUME NEW k \in Requests
               PROVE  /\ task'[k] # None \/ asked'[k] = None => outcome'[k] = "none"
                      /\ before'[k] \in SUBSET Requests
                      /\ \A q \in before'[k] : outcome'[q] # "none"
  BY DEF EndedIs
<1>2. \A q \in Requests : outcome[q] # "none" => outcome'[q] = outcome[q]
  <2>1. outcome[r] = "none"
    BY DEF DiskInv, EndedIs, Acts
  <2> QED BY <2>1, ActsAsk
<1>3. before'[k] = before[k] \/ before'[k] = {q \in Requests : outcome[q] # "none"}
  BY ActsAsk DEF Acts
<1>4. before'[k] \in SUBSET Requests /\ \A q \in before'[k] : outcome'[q] # "none"
  <2>1. before[k] \in SUBSET Requests /\ \A q \in before[k] : outcome[q] # "none"
    BY DEF DiskInv, EndedIs
  <2>2. before'[k] \in SUBSET Requests /\ \A q \in before'[k] : outcome[q] # "none"
    BY <1>3, <2>1
  <2> QED BY <1>2, <2>2
<1>5. task'[k] # None \/ asked'[k] = None => outcome'[k] = "none"
  <2>1. CASE k = r
    <3>1. outcome[r] = "none"
      BY DEF DiskInv, EndedIs, Acts
    <3>2. asked'[r] # None /\ (task'[r] # None => outcome'[r] = outcome[r])
      BY ActsAsk DEF Acts
    <3> QED BY <2>1, <3>1, <3>2
  <2>2. CASE k # r
    BY <2>2, ActsAsk DEF DiskInv, EndedIs
  <2> QED BY <2>1, <2>2
<1> QED BY <1>4, <1>5

\* Every step keeps the invariant of the disk.
LEMMA ActsKeeps ==
    ASSUME FilesInv, DiskInv, NEW r \in Requests, Acts(r)
    PROVE  DiskInv'
<1>1. IsTree(fs')
  BY DEF Acts, TreeStep
<1>2. \A k \in Requests : TodoFits(asked'[k], task'[k])
  <2>1. TodoFits(asked'[r], task'[r])
    BY DEF Acts
  <2>2. \A k \in Requests \ {r} : TodoFits(asked'[k], task'[k])
    BY ActsAsk DEF DiskInv
  <2> QED BY <2>1, <2>2
<1>3. NodesNew' /\ HandlesNear' /\ EndedIs'
  BY NodesNewKept, HandlesNearKept, EndedIsKept
<1> QED BY <1>1, <1>2, <1>3 DEF DiskInv

-----------------------------------------------------------------------------
(* Requests that are left alone.                                           *)

\* Who is undisturbed after a step was so before it.
LEMMA UndisturbedBefore ==
    ASSUME FilesInv, DiskInv, NEW k \in Requests, Acts(k), NEW r \in Requests, asked[r] # None,
           Undisturbed(r)'
    PROVE  Undisturbed(r)
<1>1. before'[r] = before[r]
  BY ActsAsk DEF Acts
<1>2. PICK S \in SUBSET (before[r] \cup {r}) : r \in S /\ Closed(S)'
  BY <1>1 DEF Undisturbed
<1>3. S \in SUBSET Requests /\ S \subseteq Begun
  BY <1>2 DEF DiskInv, EndedIs, Begun
<1>4. Asking(k) /\ (task[k] # None => asked[k] # None)
  BY ActsAsk DEF FilesInv, TypeOK
<1>5. S \subseteq Begun' /\ S \cap Begun = S
  BY <1>3, <1>4, ClosedBefore
<1>6. Closed(S)
  BY <1>2, <1>3, <1>4, <1>5, ClosedBefore
<1> QED BY <1>2, <1>6 DEF Undisturbed

\* A step of another request changes nothing that an undisturbed one names, and no file there.
LEMMA Quiet ==
    ASSUME FilesInv, DiskInv, NEW k \in Requests, Acts(k), NEW r \in Requests \ {k},
           asked[r] # None, Undisturbed(r)', NEW x \in Paths, Reach(Named(asked[r]), x)
    PROVE  fs'[x] = fs[x] /\ (fs[x] \in Nodes => content'[fs[x]] = content[fs[x]])
<1>1. SUFFICES ASSUME k \in Changing'
               PROVE  fs'[x] = fs[x] /\ (fs[x] \in Nodes => content'[fs[x]] = content[fs[x]])
  BY ActsAsk DEF disk
<1>2. before'[r] = before[r] /\ asked'[r] = asked[r] /\ asked[r] \in Asks /\ asked'[k] \in Asks
  BY ActsAsk DEF FilesInv, TypeOK
<1>3. PICK S \in SUBSET (before[r] \cup {r}) : r \in S /\ Closed(S)'
  BY <1>2 DEF Undisturbed
<1>4. S \in SUBSET Requests /\ S \subseteq Begun
  BY <1>3 DEF DiskInv, EndedIs, Begun
<1>5. Asking(k) /\ (task[k] # None => asked[k] # None)
  BY ActsAsk DEF FilesInv, TypeOK
<1>6. S \subseteq Begun'
  BY <1>4, <1>5, ClosedBefore
<1>7. k \notin S
  <2>1. task[k] # None \/ asked[k] = None
    BY DEF Acts
  <2>2. k \notin before[r]
    BY <2>1 DEF DiskInv, EndedIs
  <2> QED BY <1>3, <2>2
<1>8. ~Near(asked[r], asked'[k])
  BY <1>1, <1>2, <1>3, <1>7 DEF Closed
<1>9. ~Reach(Named(asked'[k]), x) /\ ~\E t \in Named(asked'[k]) : IsPrefix(x, t)
  BY <1>2, <1>8, MeetIsNear
<1>10. fs'[x] = fs[x]
  BY <1>9 DEF Acts, TreeStep
<1>11. ASSUME fs[x] \in Nodes, content'[fs[x]] # content[fs[x]]
       PROVE  FALSE
  <2>1. \/ Holds(task[k], fs[x])
        \/ \E p \in Paths : Reach(Named(asked'[k]), p) /\ fs'[p] = fs[x]
    BY <1>11 DEF Acts
  <2>2. CASE Holds(task[k], fs[x])
    <3>1. PICK m \in Changing : Reach(Named(asked[m]), x) /\ Connected(k, m)
      BY <1>11, <2>2 DEF DiskInv, HandlesNear
    <3>2. asked[m] \in Asks /\ m \in Requests
      BY <3>1 DEF Changing, FilesInv, TypeOK
    <3>3. Near(asked[r], asked[m])
      BY <1>2, <3>1, <3>2, MeetIsNear
    <3>4. m \in Changing' /\ asked'[m] = asked[m]
      BY <1>5, <3>1, ClosedBefore DEF Changing, Begun
    <3>5. m \in S
      BY <1>2, <1>3, <3>3, <3>4 DEF Closed
    <3>6. Connected(k, m)'
      BY <1>5, <3>1, ConnectedKept
    <3>7. k \in S
      BY <1>3, <1>4, <1>6, <3>5, <3>6 DEF Connected
    <3> QED BY <1>7, <3>7
  <2>3. CASE \E p \in Paths : Reach(Named(asked'[k]), p) /\ fs'[p] = fs[x]
    <3>1. PICK p \in Paths : Reach(Named(asked'[k]), p) /\ fs'[p] = fs[x]
      BY <2>3
    <3>2. Unique(fs')
      BY DEF Acts, TreeStep, IsTree
    <3>3. p = x
      BY <1>10, <1>11, <3>1, <3>2 DEF Unique
    <3> QED BY <1>9, <3>1, <3>3
  <2> QED BY <2>1, <2>2, <2>3
<1> QED BY <1>10, <1>11

-----------------------------------------------------------------------------
(* The steps one by one: what each does to the disk.                       *)

\* What an end, a further step or the end of an item does to the others: nothing.
Passes(r) ==
    /\ \A k \in Requests \ {r} : outcome'[k] = outcome[k]
    /\ task'[r] # None => outcome'[r] = outcome[r]

\* What the ends of the actions do to the requests: one goes on, ends, has its turn, is told.
LEMMA GoPasses ==
    ASSUME FilesInv, NEW r \in Requests, NEW step, Go(r, step)
    PROVE  Passes(r) /\ task'[r] = step /\ outcome'[r] = outcome[r]
<1>1. DOMAIN task = Requests
  BY DEF FilesInv, TypeOK
<1> QED BY <1>1 DEF Go, Passes

\* One that ends.
LEMMA EndPasses ==
    ASSUME FilesInv, NEW r \in Requests, NEW result, End(r, result)
    PROVE  Passes(r) /\ task'[r] = None /\ outcome'[r] = result
<1>1. DOMAIN task = Requests /\ DOMAIN outcome = Requests
  BY DEF FilesInv, TypeOK
<1> QED BY <1>1 DEF End, Passes

\* One whose next item has its turn.
LEMMA TurnPasses ==
    ASSUME FilesInv, NEW r \in Requests, NEW S, Turn(r, S)
    PROVE  /\ Passes(r) /\ task'[r].at = "item" /\ outcome'[r] = outcome[r]
           /\ \E i \in S : (\A j \in S : i <= j) /\ task'[r] = [Step("item") EXCEPT !.i = i]
<1>1. PICK i \in S : (\A j \in S : i <= j) /\ Go(r, [Step("item") EXCEPT !.i = i])
  BY DEF Turn
<1>2. [Step("item") EXCEPT !.i = i].at = "item"
  BY DEF Step
<1> QED BY <1>1, <1>2, GoPasses

\* One whose item has ended.
LEMMA ItemPasses ==
    ASSUME FilesInv, NEW r \in Requests, NEW ok, Item(r, ok)
    PROVE  Passes(r) /\ (task'[r] = None \/ task'[r].at = "item")
<1>1. CASE Turn(r, Rest(r))
  BY <1>1, TurnPasses
<1>2. CASE \E result : End(r, result)
  BY <1>2, EndPasses
<1> QED BY <1>1, <1>2 DEF Item

\* What follows a step that only keeps what the request had to do and to write.
Onward(r) ==
    /\ TodoFits(asked'[r], task'[r])
    /\ \A p \in Paths : Unmade(asked'[r], task'[r], p) => Unmade(asked[r], task[r], p)
    /\ \A n \in Nodes : Holds(task'[r], n) => Holds(task[r], n)

\* A request that has not yet anything to make, or nothing any more.
LEMMA PlainOnward ==
    ASSUME NEW r \in Requests, Asking(r),
           task'[r] # None => task'[r].at \notin {"open", "tree", "file", "write", "copy", "rmtree"}
    PROVE  Onward(r)
<1>1. asked'[r] # None
  BY DEF Asking
<1> QED BY <1>1 DEF Onward, TodoFits, Unmade, Holds

\* One that begins: so far it could make anything.
LEMMA FirstOnward ==
    ASSUME NEW r \in Requests, asked[r] = None,
           task'[r] # None => task'[r].at \notin {"write", "copy", "rmtree"}
    PROVE  Onward(r)
  BY DEF Onward, TodoFits, Unmade, Holds

\* The requests before one are those that had ended when it began.
Follows(r) ==
    /\ \A k \in Requests \ {r} : before'[k] = before[k]
    /\ \/ asked[r] = None /\ before'[r] = {q \in Requests : outcome[q] # "none"}
       \/ task[r] # None /\ before'[r] = before[r]

\* A step that makes no file.
LEMMA TreeActs ==
    ASSUME FilesInv, DiskInv, NEW r \in Requests, Stepped(r), Passes(r), Follows(r), Onward(r),
           TreeStep({}, Named(asked'[r])),
           \A n \in Nodes : content'[n] = content[n] \/ Holds(task[r], n),
           asked'[r].kind \in {"download", "list"} => UNCHANGED disk
    PROVE  Acts(r)
<1> DEFINE T == Named(asked'[r])
<1> HIDE DEF T
<1>1. TreeStep({}, T)
  BY DEF T
<1>2. TreeStep({r}, T)
  BY <1>1 DEF TreeStep
<1>3. ASSUME NEW x \in Paths, fs'[x] \in Nodes
      PROVE  \E y \in Paths : fs[y] = fs'[x]
  BY <1>1, <1>3 DEF TreeStep
<1>4. \A p \in Paths : <<r, p>> \in Nodes
  BY DEF Nodes
<1>5. \A p \in Paths : Unmade(asked[r], task[r], p) => fs'[p] # <<r, p>>
  BY <1>3, <1>4 DEF DiskInv, NodesNew
<1>6. \A p \in Paths : ~(fs'[p] = <<r, p>> /\ (\A y \in Paths : fs[y] # <<r, p>>))
  BY <1>3, <1>4
<1>7. task[r] # None => asked[r] # None
  BY DEF FilesInv, TypeOK
<1>8. /\ task[r] # None \/ asked[r] = None
      /\ \A k \in Requests \ {r} : outcome'[k] = outcome[k] /\ before'[k] = before[k]
      /\ task'[r] # None => outcome'[r] = outcome[r]
      /\ before'[r] = before[r] \/ before'[r] = {q \in Requests : outcome[q] # "none"}
      /\ asked[r] # None => before'[r] = before[r]
  BY DEF Follows, Passes
<1>9. /\ TodoFits(asked'[r], task'[r])
      /\ \A p \in Paths : Unmade(asked'[r], task'[r], p) => Unmade(asked[r], task[r], p)
      /\ \A n \in Nodes : Holds(task'[r], n) => Holds(task[r], n)
  BY DEF Onward
<1> QED BY <1>2, <1>5, <1>6, <1>8, <1>9 DEF Acts, T

\* A step that leaves the disk as it is.
LEMMA QuietActs ==
    ASSUME FilesInv, DiskInv, NEW r \in Requests, Stepped(r), Passes(r), Follows(r), Onward(r),
           UNCHANGED disk
    PROVE  Acts(r)
<1>1. UNCHANGED <<fs, content>> /\ IsTree(fs)
  BY DEF disk, DiskInv
<1>2. TreeStep({}, Named(asked'[r]))
  BY <1>1, StaysTree
<1> QED BY <1>1, <1>2, TreeActs

\* The opening of a file, to which the request goes on to write.
LEMMA OpenActs ==
    ASSUME FilesInv, DiskInv, NEW r \in Requests, Stepped(r), Passes(r), Follows(r),
           NEW p \in Paths, Reach(Named(asked'[r]), p), CanOpen(p), Opening(r, p),
           Unmade(asked[r], task[r], p),
           TodoFits(asked'[r], task'[r]),
           \A x \in Paths : Unmade(asked'[r], task'[r], x) => Unmade(asked[r], task[r], x) /\ x # p,
           task'[r].node = Opened(r, p),
           asked'[r].kind \notin {"download", "list"}
    PROVE  Acts(r)
<1> DEFINE T == Named(asked'[r])
           m == Opened(r, p)
<1>1. m \in Nodes /\ fs' = [fs EXCEPT ![p] = m] /\ content' = [content EXCEPT ![m] = <<>>]
  BY OpenedNode DEF Opening
<1>2. m = fs[p] \/ (m = <<r, p>> /\ \A x \in Paths : fs[x] # m)
  BY DEF Opened, DiskInv, NodesNew
<1>3. IsTree(fs) /\ IsDir(Parent(p)) /\ fs[p] # Dir
  BY DEF DiskInv, CanOpen
<1> HIDE DEF T, m
<1>4. Reach(T, p)
  BY DEF T
<1>5. TreeStep({r}, T)
  <2>1. m \in Nodes => m = fs[p] \/ \E k \in {r} : m = <<k, p>> /\ \A x \in Paths : fs[x] # m
    BY <1>2
  <2>2. m # None => IsDir(Parent(p))
    BY <1>3
  <2>3. m # Dir => fs[p] # Dir \/ Children(p) = {}
    BY <1>3
  <2> QED BY <1>1, <1>3, <1>4, <2>1, <2>2, <2>3, ChangesOne
<1>6. fs'[p] = m /\ \A x \in Paths \ {p} : fs'[x] = fs[x]
  <2>1. DOMAIN fs = Paths
    BY <1>3 DEF IsTree
  <2> QED BY <1>1, <2>1
<1>7. \A n \in Nodes : n # m => content'[n] = content[n]
  <2>1. DOMAIN content = Nodes
    BY DEF FilesInv, TypeOK
  <2> QED BY <1>1, <2>1
<1>8. \A n \in Nodes : content'[n] = content[n] \/ \E x \in Paths : Reach(T, x) /\ fs'[x] = n
  BY <1>4, <1>6, <1>7
<1>9. \A n \in Nodes : Holds(task'[r], n) => \E x \in Paths : Reach(T, x) /\ fs'[x] = n
  BY <1>4, <1>6 DEF Holds, m
<1>10. \A x \in Paths : fs'[x] = <<r, x>> /\ fs[x] # <<r, x>> => Unmade(asked[r], task[r], x)
  <2>1. \A x \in Paths : fs'[x] # fs[x] => x = p
    BY <1>6
  <2> QED BY <2>1
<1>11. \A x \in Paths : Unmade(asked'[r], task'[r], x) => fs'[x] = fs[x]
  BY <1>6
<1>12. /\ task[r] # None \/ asked[r] = None
       /\ \A k \in Requests \ {r} : outcome'[k] = outcome[k] /\ before'[k] = before[k]
       /\ task'[r] # None => outcome'[r] = outcome[r]
       /\ before'[r] = before[r] \/ before'[r] = {q \in Requests : outcome[q] # "none"}
       /\ asked[r] # None => before'[r] = before[r]
  BY DEF Follows, Passes, FilesInv, TypeOK
<1> QED BY <1>5, <1>8, <1>9, <1>10, <1>11, <1>12 DEF Acts, T

\* A step at its start.
LEMMA StepAt ==
    ASSUME NEW at
    PROVE  Step(at).at = at /\ Step(at).node = None
  BY DEF Step

\* A request begins with a first step or ends at once, with the disk as it was or folders made.
LEMMA FirstActs ==
    ASSUME FilesInv, DiskInv, NEW r \in Requests, asked[r] = None, Stepped(r), Follows(r),
           \/ \E at \in {"open", "tree", "file", "serve", "lookup"} : Go(r, Step(at))
           \/ Turn(r, Executed(asked'[r].ops))
           \/ \E result : End(r, result),
           TreeStep({}, Named(asked'[r])), UNCHANGED content,
           asked'[r].kind \in {"download", "list"} => UNCHANGED disk
    PROVE  Acts(r)
<1>1. Passes(r) /\ (task'[r] = None \/ task'[r].at \in {"open", "tree", "file", "serve", "lookup", "item"})
  <2>1. CASE \E at \in {"open", "tree", "file", "serve", "lookup"} : Go(r, Step(at))
    BY <2>1, GoPasses, StepAt
  <2>2. CASE Turn(r, Executed(asked'[r].ops))
    BY <2>2, TurnPasses
  <2>3. CASE \E result : End(r, result)
    BY <2>3, EndPasses
  <2> QED BY <2>1, <2>2, <2>3
<1>2. Onward(r)
  BY <1>1, FirstOnward
<1> QED BY <1>1, <1>2, TreeActs

\* The beginnings: what each kind of request does at once.
LEMMA BeginUploadActs ==
    ASSUME FilesInv, DiskInv, NEW r \in Requests, NEW q \in Asks, asked[r] = None, Asking(r),
           asked'[r] = q, Follows(r), BeginUpload(r, q)
    PROVE  Acts(r)
<1>1. Stepped(r) /\ q.kind = "upload" /\ UNCHANGED content
  BY BeginUploadSteps DEF BeginUpload
<1>2. Go(r, Step("open")) \/ \E result : End(r, result)
  BY DEF BeginUpload
<1>3. Named(q) = {q.path} /\ q.path \in Paths
  BY <1>1, NamedIs, AskFields
<1>4. TreeStep({}, Named(q))
  <2>1. IsTree(fs)
    BY DEF DiskInv
  <2>2. CASE UNCHANGED fs
    BY <2>1, <2>2, StaysTree
  <2>3. CASE CanMakeDirs(Parent(q.path)) /\ fs' = WithDirs(Parent(q.path))
    <3>1. Parent(q.path) \in Paths \cup {<<>>} /\ IsPrefix(Parent(q.path), q.path)
      BY <1>3, ParentIs
    <3>2. Named(q) \subseteq Paths /\ \E t \in Named(q) : IsPrefix(Parent(q.path), t)
      BY <1>3, <3>1
    <3> QED BY <2>1, <2>3, <3>1, <3>2, MakesFolders
  <2> QED BY <2>2, <2>3 DEF BeginUpload
<1> QED BY <1>1, <1>2, <1>4, FirstActs

\* One that makes folders and ends.
LEMMA BeginMkdirActs ==
    ASSUME FilesInv, DiskInv, NEW r \in Requests, NEW q \in Asks, asked[r] = None, Asking(r),
           asked'[r] = q, Follows(r), BeginMkdir(r, q)
    PROVE  Acts(r)
<1>1. Stepped(r) /\ q.kind = "mkdir" /\ UNCHANGED content
  BY BeginMkdirSteps DEF BeginMkdir
<1>2. \E result : End(r, result)
  BY DEF BeginMkdir
<1>3. Named(q) = {q.path} /\ q.path \in Paths
  BY <1>1, NamedIs, AskFields
<1>4. TreeStep({}, Named(q))
  <2>1. IsTree(fs)
    BY DEF DiskInv
  <2>2. CASE UNCHANGED fs
    BY <2>1, <2>2, StaysTree
  <2>3. CASE CanMakeDirs(q.path) /\ fs' = WithDirs(q.path)
    <3>1. IsPrefix(q.path, q.path)
      BY <1>3, PathIs, PrefixOrder
    <3>2. Named(q) \subseteq Paths /\ \E t \in Named(q) : IsPrefix(q.path, t)
      BY <1>3, <3>1
    <3> QED BY <1>3, <2>1, <2>3, <3>2, MakesFolders
  <2> QED BY <2>2, <2>3 DEF BeginMkdir
<1> QED BY <1>1, <1>2, <1>4, FirstActs

\* Those that only look.
LEMMA BeginOtherActs ==
    ASSUME FilesInv, DiskInv, NEW r \in Requests, NEW q \in Asks, asked[r] = None, Asking(r),
           asked'[r] = q, Follows(r),
           BeginCopy(r, q) \/ BeginItems(r, q) \/ BeginDownload(r, q) \/ BeginList(r, q)
    PROVE  Acts(r)
<1>1. Stepped(r)
  BY BeginCopySteps, BeginItemsSteps, BeginDownloadSteps, BeginListSteps
<1>2. UNCHANGED <<fs, content>>
  BY DEF BeginCopy, BeginItems, BeginDownload, BeginList, disk
<1>3. TreeStep({}, Named(q))
  BY <1>2, StaysTree DEF DiskInv
<1>4. \/ \E at \in {"open", "tree", "file", "serve", "lookup"} : Go(r, Step(at))
      \/ Turn(r, Executed(q.ops))
      \/ \E result : End(r, result)
  <2>1. CASE BeginCopy(r, q)
    <3>1. \E at \in {"tree", "file"} : Go(r, Step(at))
      BY <2>1 DEF BeginCopy
    <3> QED BY <3>1
  <2>2. CASE BeginItems(r, q)
    BY <2>2 DEF BeginItems
  <2>3. CASE BeginDownload(r, q)
    BY <2>3 DEF BeginDownload
  <2>4. CASE BeginList(r, q)
    BY <2>4 DEF BeginList
  <2> QED BY <2>1, <2>2, <2>3, <2>4
<1>5. UNCHANGED disk
  BY <1>2 DEF disk
<1> QED BY <1>1, <1>2, <1>3, <1>4, <1>5, FirstActs

\* All of them.
LEMMA BeginActs ==
    ASSUME FilesInv, DiskInv, NEW r \in Requests, Begin(r)
    PROVE  Acts(r)
<1>1. asked[r] = None
  BY DEF Begin
<1>2. PICK q \in Asks :
        /\ asked' = [asked EXCEPT ![r] = q]
        /\ \/ BeginUpload(r, q) \/ BeginCopy(r, q) \/ BeginMkdir(r, q)
           \/ BeginItems(r, q) \/ BeginDownload(r, q) \/ BeginList(r, q)
  BY DEF Begin
<1>3. Asking(r) /\ asked'[r] = q
  BY <1>1, <1>2, NowAsking
<1>4. Follows(r)
  <2>1. DOMAIN before = Requests
    BY DEF FilesInv, TypeOK
  <2>2. before' = [before EXCEPT ![r] = {k \in Requests : outcome[k] # "none"}]
    BY DEF Begin
  <2> QED BY <1>1, <2>1, <2>2 DEF Follows
<1> QED BY <1>1, <1>2, <1>3, <1>4, BeginUploadActs, BeginMkdirActs, BeginOtherActs

\* What holds of every step of a request in flight.
LEMMA RunFollows ==
    ASSUME FilesInv, DiskInv, NEW r \in Requests, task[r] # None, UNCHANGED <<asked, before>>
    PROVE  /\ Follows(r) /\ Asking(r) /\ asked'[r] = asked[r] /\ asked[r] \in Asks
           /\ task[r] \in Tasks /\ StepFits(asked[r], task[r], Len(results[r]), body[r])
           /\ TodoFits(asked[r], task[r]) /\ IsTree(fs)
<1>1. Follows(r)
  BY DEF Follows
<1> QED BY <1>1, StillAsking, InFlight DEF DiskInv

\* An upload opens its file, writes to it, and removes what is at its path.
LEMMA OpenActsOn ==
    ASSUME FilesInv, DiskInv, NEW r \in Requests, Open(r)
    PROVE  Acts(r)
<1> DEFINE p == asked[r].path
<1>1. /\ task[r] # None /\ task[r].at = "open" /\ UNCHANGED <<asked, before>>
  BY DEF Open, At
<1>2. /\ Follows(r) /\ Asking(r) /\ asked'[r] = asked[r] /\ asked[r] \in Asks
      /\ asked[r].kind = "upload"
  BY <1>1, RunFollows DEF StepFits
<1>3. p \in Paths /\ Reach(Named(asked[r]), p)
  BY <1>2, NamedIs, AskFields, PathIs, PrefixOrder DEF Reach
<1>4. Stepped(r)
  BY OpenSteps
<1>5. CASE End(r, "failed") /\ UNCHANGED disk
  <2>1. Passes(r) /\ task'[r] = None
    BY <1>5, EndPasses
  <2> QED BY <1>2, <1>4, <1>5, <2>1, PlainOnward, QuietActs
<1>6. CASE CanOpen(p) /\ Opening(r, p) /\ Go(r, [Step("write") EXCEPT !.node = Opened(r, p)])
  <2> DEFINE step == [Step("write") EXCEPT !.node = Opened(r, p)]
  <2>1. step.at = "write" /\ step.node = Opened(r, p)
    BY DEF Step
  <2> HIDE DEF step
  <2>2. Passes(r) /\ task'[r] = step
    BY <1>6, GoPasses DEF step
  <2>3. Unmade(asked[r], task[r], p)
    BY <1>1 DEF Unmade
  <2>4. TodoFits(asked'[r], task'[r])
    BY <2>1, <2>2 DEF TodoFits
  <2>5. \A x \in Paths : ~Unmade(asked'[r], task'[r], x)
    BY <1>2, <2>1, <2>2 DEF Unmade, Asking
  <2> HIDE DEF p
  <2> QED BY <1>2, <1>3, <1>4, <1>6, <2>1, <2>2, <2>3, <2>4, <2>5, OpenActs
<1> QED BY <1>5, <1>6 DEF Open

\* A step that goes on with the same node and no more to do.
LEMMA SameOnward ==
    ASSUME NEW r \in Requests, task[r] # None, Asking(r), asked'[r] = asked[r],
           TodoFits(asked[r], task[r]), task'[r].at = task[r].at,
           task'[r].node \in {task[r].node, None}, task'[r].todo \subseteq task[r].todo,
           task'[r].i = task[r].i \/ task[r].at # "rmtree"
    PROVE  Onward(r)
<1>1. None \notin Nodes
  BY Kinds
<1>2. asked[r] # None
  BY DEF Asking
<1>3. TodoFits(asked'[r], task'[r])
  BY DEF TodoFits
<1>4. \A p \in Paths : Unmade(asked'[r], task'[r], p) => Unmade(asked[r], task[r], p)
  BY <1>2 DEF Unmade
<1>5. \A n \in Nodes : Holds(task'[r], n) => Holds(task[r], n)
  BY <1>1 DEF Holds
<1> QED BY <1>3, <1>4, <1>5 DEF Onward

\* It writes to the node that it has.
LEMMA WriteActs ==
    ASSUME FilesInv, DiskInv, NEW r \in Requests, Write(r)
    PROVE  Acts(r)
<1> DEFINE q == asked[r]
           i == task[r].i + 1
           n == task[r].node
<1>1. /\ task[r] # None /\ task[r].at = "write" /\ UNCHANGED <<fs, asked, before>>
  BY DEF Write, At
<1>2. /\ Follows(r) /\ Asking(r) /\ asked'[r] = asked[r] /\ asked[r] \in Asks
      /\ task[r] \in Tasks /\ TodoFits(asked[r], task[r]) /\ IsTree(fs)
      /\ asked[r].kind = "upload"
  BY <1>1, RunFollows DEF StepFits
<1>3. Stepped(r)
  BY WriteSteps
<1>4. TreeStep({}, Named(asked'[r]))
  BY <1>1, <1>2, StaysTree
<1>5. \A m \in Nodes : content'[m] = content[m] \/ Holds(task[r], m)
  <2>1. UNCHANGED content \/ content' = [content EXCEPT ![n] = Written(@, i, <<r, i>>)]
    BY DEF Write
  <2>2. DOMAIN content = Nodes
    BY DEF FilesInv, TypeOK
  <2>3. \A m \in Nodes : m # n => content'[m] = content[m]
    BY <2>1, <2>2
  <2> QED BY <1>1, <2>3 DEF Holds
<1>6. \/ \E result : End(r, result)
      \/ Go(r, Step("discard"))
      \/ Go(r, [task[r] EXCEPT !.i = i])
  BY DEF Write
<1>7. Passes(r) /\ Onward(r)
  <2>1. CASE \E result : End(r, result)
    BY <1>2, <2>1, EndPasses, PlainOnward
  <2>2. CASE Go(r, Step("discard"))
    BY <1>2, <2>2, GoPasses, StepAt, PlainOnward
  <2>3. CASE Go(r, [task[r] EXCEPT !.i = i])
    <3> DEFINE step == [task[r] EXCEPT !.i = i]
    <3>1. step.at = task[r].at /\ step.node = task[r].node /\ step.todo = task[r].todo
      BY <1>2 DEF Tasks
    <3> HIDE DEF step
    <3>2. Passes(r) /\ task'[r] = step
      BY <2>3, GoPasses DEF step
    <3> QED BY <1>1, <1>2, <3>1, <3>2, SameOnward
  <2> QED BY <1>6, <2>1, <2>2, <2>3
<1> QED BY <1>2, <1>3, <1>4, <1>5, <1>7, TreeActs

\* It removes whatever is there by then.
LEMMA DiscardActs ==
    ASSUME FilesInv, DiskInv, NEW r \in Requests, Discard(r)
    PROVE  Acts(r)
<1> DEFINE p == asked[r].path
<1>1. /\ task[r] # None /\ task[r].at = "discard" /\ UNCHANGED <<content, asked, before>>
  BY DEF Discard, At
<1>2. /\ Follows(r) /\ Asking(r) /\ asked'[r] = asked[r] /\ asked[r] \in Asks /\ IsTree(fs)
      /\ asked[r].kind = "upload"
  BY <1>1, RunFollows DEF StepFits
<1>3. p \in Paths /\ Reach(Named(asked[r]), p)
  BY <1>2, NamedIs, AskFields, PathIs, PrefixOrder DEF Reach
<1>4. Stepped(r)
  BY DiscardSteps
<1>5. Passes(r) /\ Onward(r)
  <2>1. \E result : End(r, result)
    BY DEF Discard
  <2> QED BY <1>2, <2>1, EndPasses, PlainOnward
<1>6. TreeStep({}, Named(asked[r]))
  <2>1. CASE UNCHANGED fs
    BY <1>2, <2>1, StaysTree
  <2>2. CASE fs[p] # Dir /\ fs' = [fs EXCEPT ![p] = None]
    BY <1>2, <1>3, <2>2, Kinds, ChangesOne
  <2> QED BY <2>1, <2>2 DEF Discard
<1> QED BY <1>1, <1>2, <1>4, <1>5, <1>6, TreeActs

\* A name more makes a path below.
LEMMA AppendBelow ==
    ASSUME NEW t \in Paths, NEW e, Append(t, e) \in Paths
    PROVE  IsPrefix(t, Append(t, e)) /\ Append(t, e) # t
<1> DEFINE x == Append(t, e)
           X == Names \cup {e}
<1>1. t \in Seq(Names) /\ x \in Seq(Names) /\ Len(t) \in 1..2
  BY PathIs
<1>2. t \in Seq(X) /\ e \in X
  BY <1>1, SeqMonotonic
<1> HIDE DEF X
<1>3. Len(x) = Len(t) + 1 /\ \A i \in 1..Len(t) : x[i] = t[i]
  BY <1>2, AppendProperties
<1> HIDE DEF x
<1>4. IsPrefix(t, x)
  BY <1>1, <1>3, PrefixIs
<1>5. x # t
  BY <1>1, <1>3
<1> QED BY <1>4, <1>5 DEF x

\* The images of two places are two.
LEMMA ImagesDiffer ==
    ASSUME NEW s \in Paths, NEW t \in Paths, NEW p \in Seq(Names), NEW q \in Seq(Names),
           IsPrefix(s, p), IsPrefix(s, q), Image(p, s, t) = Image(q, s, t)
    PROVE  p = q
<1>1. Image(Image(p, s, t), t, s) = p
  BY ImageIs
<1>2. Image(Image(q, s, t), t, s) = q
  BY ImageIs
<1> QED BY <1>1, <1>2

\* The names of a copy.
LEMMA CopyNames ==
    ASSUME NEW q \in Asks, q.kind = "copy"
    PROVE  /\ q.path \in Paths /\ q.to \in Paths /\ Named(q) = {q.path, q.to}
           /\ q.path \in Seq(Names) /\ q.to \in Seq(Names)
           /\ IsPrefix(q.path, q.path) /\ IsPrefix(q.to, q.to)
  BY NamedIs, AskFields, PathIs, PrefixOrder

\* A copy makes its folder, and notes what it will make in it.
LEMMA CopyTreeActs ==
    ASSUME FilesInv, DiskInv, NEW r \in Requests, CopyTree(r)
    PROVE  Acts(r)
<1> DEFINE s == asked[r].path
           t == asked[r].to
           todo == {<<c, Image(c, s, t)>> : c \in Children(s)}
           step == [Step("copy") EXCEPT !.todo = todo]
<1>1. /\ task[r] # None /\ task[r].at = "tree" /\ UNCHANGED <<content, asked, before>>
  BY DEF CopyTree, At
<1>2. /\ Follows(r) /\ Asking(r) /\ asked'[r] = asked[r] /\ asked[r] \in Asks /\ IsTree(fs)
      /\ asked[r].kind = "copy"
  BY <1>1, RunFollows DEF StepFits
<1>3. /\ s \in Paths /\ t \in Paths /\ Named(asked[r]) = {s, t}
      /\ IsPrefix(s, s) /\ IsPrefix(t, t)
  BY <1>2, CopyNames
<1>4. Stepped(r)
  BY CopyTreeSteps
<1> HIDE DEF todo
<1>5. CASE End(r, "failed") /\ UNCHANGED fs
  <2>1. Passes(r) /\ task'[r] = None
    BY <1>5, EndPasses
  <2> QED BY <1>1, <1>2, <1>4, <1>5, <2>1, PlainOnward, QuietActs DEF disk
<1>6. CASE CanMakeDirs(t) /\ fs' = WithDirs(t) /\ Go(r, step)
  <2>1. step.at = "copy" /\ step.node = None /\ step.todo = todo
    BY DEF Step
  <2> HIDE DEF step
  <2>2. Passes(r) /\ task'[r] = step
    BY <1>6, GoPasses
  <2> HIDE DEF s, t
  <2>3. \A e \in todo : \E c \in Paths : e = <<c, Image(c, s, t)>> /\ IsPrefix(s, c)
    <3>1. \A c \in Children(s) : c \in Paths /\ IsPrefix(s, c)
      BY <1>3, ChildUnder DEF Under, IsStrictPrefix
    <3> QED BY <3>1 DEF todo
  <2>4. ASSUME NEW e \in todo
        PROVE  IsPrefix(s, e[1]) /\ IsPrefix(t, e[2]) /\ \A f \in todo : f[2] = e[2] => e = f
    <3>1. PICK c \in Paths : e = <<c, Image(c, s, t)>> /\ IsPrefix(s, c)
      BY <2>3, <2>4
    <3>2. IsPrefix(t, Image(c, s, t))
      BY <1>3, <3>1, PathIs, ImageIs
    <3>3. ASSUME NEW f \in todo, f[2] = e[2]
          PROVE  e = f
      <4>1. PICK d \in Paths : f = <<d, Image(d, s, t)>> /\ IsPrefix(s, d)
        BY <2>3, <3>3
      <4>2. c = d
        BY <1>3, <3>1, <3>3, <4>1, PathIs, ImagesDiffer
      <4> QED BY <3>1, <4>1, <4>2
    <3> QED BY <3>1, <3>2, <3>3
  <2>5. TodoFits(asked'[r], task'[r])
    <3>1. \A e \in task'[r].todo : /\ IsPrefix(asked'[r].path, e[1]) /\ IsPrefix(asked'[r].to, e[2])
                                   /\ \A f \in task'[r].todo : f[2] = e[2] => e = f
      BY <1>2, <2>1, <2>2, <2>4 DEF s, t
    <3> QED BY <2>1, <2>2, <3>1 DEF TodoFits
  <2>6. Onward(r)
    <3>1. \A p \in Paths : Unmade(asked[r], task[r], p)
      BY <1>1 DEF Unmade
    <3>2. \A n \in Nodes : ~Holds(task'[r], n)
      BY <2>1, <2>2, Kinds DEF Holds
    <3> QED BY <2>5, <3>1, <3>2 DEF Onward
  <2>7. TreeStep({}, Named(asked[r]))
    BY <1>2, <1>3, <1>6, MakesFolders
  <2> QED BY <1>1, <1>2, <1>4, <2>2, <2>6, <2>7, TreeActs
<1> QED BY <1>5, <1>6 DEF CopyTree, todo

\* It notes the one file that it will make.
LEMMA CopyFileActs ==
    ASSUME FilesInv, DiskInv, NEW r \in Requests, CopyFile(r)
    PROVE  Acts(r)
<1> DEFINE s == asked[r].path
           t == asked[r].to
           goal == IF IsDir(t) THEN Append(t, Last(s)) ELSE t
           step == [Step("copy") EXCEPT !.todo = {<<s, goal>>}]
<1>1. /\ task[r] # None /\ task[r].at = "file" /\ UNCHANGED <<disk, asked, before>>
  BY DEF CopyFile, At
<1>2. /\ Follows(r) /\ Asking(r) /\ asked'[r] = asked[r] /\ asked[r] \in Asks /\ IsTree(fs)
      /\ asked[r].kind = "copy"
  BY <1>1, RunFollows DEF StepFits
<1>3. s \in Paths /\ t \in Paths /\ IsPrefix(s, s) /\ IsPrefix(t, t)
  BY <1>2, CopyNames
<1>4. Stepped(r)
  BY CopyFileSteps
<1>5. goal \in Paths /\ Go(r, step)
  BY DEF CopyFile
<1>6. IsPrefix(t, goal)
  BY <1>3, <1>5, AppendBelow
<1>7. step.at = "copy" /\ step.node = None /\ step.todo = {<<s, goal>>}
  BY DEF Step
<1> HIDE DEF step, goal
<1>8. Passes(r) /\ task'[r] = step
  BY <1>5, GoPasses
<1>9. TodoFits(asked'[r], task'[r])
  BY <1>2, <1>3, <1>6, <1>7, <1>8 DEF TodoFits
<1>10. Onward(r)
  <2>1. \A p \in Paths : Unmade(asked[r], task[r], p)
    BY <1>1 DEF Unmade
  <2>2. \A n \in Nodes : ~Holds(task'[r], n)
    BY <1>7, <1>8, Kinds DEF Holds
  <2> QED BY <1>9, <2>1, <2>2 DEF Onward
<1> QED BY <1>1, <1>2, <1>4, <1>8, <1>10, QuietActs

\* It makes a file or a folder where it noted one.
LEMMA CopyOpenActs ==
    ASSUME FilesInv, DiskInv, NEW r \in Requests, CopyOpen(r)
    PROVE  Acts(r)
<1>1. /\ task[r] # None /\ task[r].at = "copy" /\ task[r].node = None /\ UNCHANGED <<asked, before>>
  BY DEF CopyOpen, At
<1>2. /\ Follows(r) /\ Asking(r) /\ asked'[r] = asked[r] /\ asked[r] \in Asks /\ IsTree(fs)
      /\ asked[r].kind = "copy" /\ task[r] \in Tasks /\ TodoFits(asked[r], task[r])
  BY <1>1, RunFollows DEF StepFits
<1>3. Stepped(r)
  BY CopyOpenSteps
<1>4. PICK e \in task[r].todo :
        LET rest == [task[r] EXCEPT !.todo = @ \ {e}]
        IN  \/ /\ CanOpen(e[2]) /\ Opening(r, e[2])
               /\ Go(r, [rest EXCEPT !.node = Opened(r, e[2]), !.from = fs[e[1]]])
            \/ /\ CanMakeDirs(e[2]) /\ fs' = WithDirs(e[2])
               /\ Go(r, rest) /\ UNCHANGED content
            \/ Go(r, [rest EXCEPT !.bad = TRUE]) /\ UNCHANGED disk
  BY DEF CopyOpen
<1>5. e[1] \in Paths /\ e[2] \in Paths
  BY <1>2 DEF Tasks
<1>6. Reach(Named(asked[r]), e[2])
  BY <1>1, <1>2, CopyNames DEF TodoFits, Reach
<1> DEFINE p    == e[2]
           todo == task[r].todo \ {e}
           rest == [task[r] EXCEPT !.todo = todo]
           open == [rest EXCEPT !.node = Opened(r, p), !.from = fs[e[1]]]
           bad  == [rest EXCEPT !.bad = TRUE]
<1>7. /\ rest.at = "copy" /\ rest.node = None /\ rest.todo = todo
      /\ open.at = "copy" /\ open.node = Opened(r, p) /\ open.todo = todo
      /\ bad.at = "copy" /\ bad.node = None /\ bad.todo = todo
  BY <1>1, <1>2 DEF Tasks
<1>8. \/ CanOpen(p) /\ Opening(r, p) /\ Go(r, open)
      \/ CanMakeDirs(p) /\ fs' = WithDirs(p) /\ Go(r, rest) /\ UNCHANGED content
      \/ Go(r, bad) /\ UNCHANGED disk
  BY <1>4
<1> HIDE DEF p, todo, rest, open, bad
<1>9. p \in Paths /\ Reach(Named(asked[r]), p) /\ todo \subseteq task[r].todo
  BY <1>5, <1>6 DEF p, todo
<1>10. CASE CanOpen(p) /\ Opening(r, p) /\ Go(r, open)
  <2>1. Passes(r) /\ task'[r] = open
    BY <1>10, GoPasses
  <2>2. Unmade(asked[r], task[r], p)
    BY <1>1 DEF Unmade, p
  <2>3. TodoFits(asked'[r], task'[r])
    BY <1>1, <1>2, <1>7, <1>9, <2>1 DEF TodoFits
  <2>4. ASSUME NEW x \in Paths, Unmade(asked'[r], task'[r], x)
        PROVE  Unmade(asked[r], task[r], x) /\ x # p
    <3>1. PICK f \in todo : f[2] = x
      BY <1>2, <1>7, <2>1, <2>4 DEF Unmade, Asking
    <3>2. f \in task[r].todo /\ f # e
      BY <3>1 DEF todo
    <3>3. f[2] # e[2]
      BY <1>1, <1>2, <3>2 DEF TodoFits
    <3> QED BY <1>1, <3>1, <3>2, <3>3 DEF Unmade, p
  <2>5. task'[r].node = Opened(r, p)
    BY <1>7, <2>1
  <2> QED BY <1>2, <1>3, <1>9, <1>10, <2>1, <2>2, <2>3, <2>4, <2>5, OpenActs
<1>11. CASE CanMakeDirs(p) /\ fs' = WithDirs(p) /\ Go(r, rest) /\ UNCHANGED content
  <2>1. Passes(r) /\ task'[r] = rest
    BY <1>11, GoPasses
  <2>2. Onward(r)
    BY <1>1, <1>2, <1>7, <1>9, <2>1, SameOnward
  <2>3. Named(asked[r]) \subseteq Paths /\ \E t \in Named(asked[r]) : IsPrefix(t, p)
    BY <1>2, <1>9, CopyNames DEF Reach
  <2>4. TreeStep({}, Named(asked[r]))
    BY <1>2, <1>9, <1>11, <2>3, MakesFolders
  <2> QED BY <1>2, <1>3, <1>11, <2>1, <2>2, <2>4, TreeActs
<1>12. CASE Go(r, bad) /\ UNCHANGED disk
  <2>1. Passes(r) /\ task'[r] = bad
    BY <1>12, GoPasses
  <2>2. Onward(r)
    BY <1>1, <1>2, <1>7, <1>9, <2>1, SameOnward
  <2> QED BY <1>2, <1>3, <1>12, <2>1, <2>2, QuietActs
<1> QED BY <1>8, <1>10, <1>11, <1>12

\* It writes to the node that it has.
LEMMA CopyBlockActs ==
    ASSUME FilesInv, DiskInv, NEW r \in Requests, CopyBlock(r)
    PROVE  Acts(r)
<1> DEFINE i == task[r].i + 1
           n == task[r].node
           source == content[task[r].from]
           next == [task[r] EXCEPT !.i = i]
           done == [task[r] EXCEPT !.node = None, !.from = None, !.i = 0]
<1>1. /\ task[r] # None /\ task[r].at = "copy" /\ UNCHANGED <<fs, asked, before>>
  BY DEF CopyBlock, At
<1>2. /\ Follows(r) /\ Asking(r) /\ asked'[r] = asked[r] /\ asked[r] \in Asks
      /\ task[r] \in Tasks /\ TodoFits(asked[r], task[r]) /\ IsTree(fs)
      /\ asked[r].kind = "copy"
  BY <1>1, RunFollows DEF StepFits
<1>3. Stepped(r)
  BY CopyBlockSteps
<1>4. TreeStep({}, Named(asked'[r]))
  BY <1>1, <1>2, StaysTree
<1>5. \A m \in Nodes : content'[m] = content[m] \/ Holds(task[r], m)
  <2>1. UNCHANGED content \/ content' = [content EXCEPT ![n] = Written(@, i, source[i])]
    BY DEF CopyBlock
  <2>2. DOMAIN content = Nodes
    BY DEF FilesInv, TypeOK
  <2>3. \A m \in Nodes : m # n => content'[m] = content[m]
    BY <2>1, <2>2
  <2> QED BY <1>1, <2>3 DEF Holds
<1>6. Go(r, next) \/ Go(r, done)
  BY DEF CopyBlock
<1>7. /\ next.at = "copy" /\ next.node = n /\ next.todo = task[r].todo
      /\ done.at = "copy" /\ done.node = None /\ done.todo = task[r].todo
  BY <1>1, <1>2 DEF Tasks
<1> HIDE DEF next, done
<1>8. Passes(r) /\ task'[r] \in {next, done}
  BY <1>6, GoPasses
<1>9. Onward(r)
  BY <1>1, <1>2, <1>7, <1>8, SameOnward
<1> QED BY <1>2, <1>3, <1>4, <1>5, <1>8, <1>9, TreeActs

\* It ends.
LEMMA CopyEndActs ==
    ASSUME FilesInv, DiskInv, NEW r \in Requests, CopyEnd(r)
    PROVE  Acts(r)
<1>1. task[r] # None /\ UNCHANGED <<disk, asked, before>>
  BY DEF CopyEnd, At
<1>2. \E result : End(r, result)
  BY DEF CopyEnd
<1>3. Stepped(r) /\ Follows(r) /\ Asking(r)
  BY <1>1, CopyEndSteps, RunFollows
<1>4. Passes(r) /\ task'[r] = None
  BY <1>2, EndPasses
<1> QED BY <1>1, <1>3, <1>4, PlainOnward, QuietActs

-----------------------------------------------------------------------------
\* What a request that works on an item names with it.
LEMMA ItemNames ==
    ASSUME FilesInv, DiskInv, NEW r \in Requests, task[r] # None,
           task[r].at \in {"item", "scan", "remove", "rmtree"}, UNCHANGED <<asked, before>>
    PROVE  /\ Follows(r) /\ Asking(r) /\ asked'[r] = asked[r] /\ asked[r] \in Asks
           /\ task[r] \in Tasks /\ TodoFits(asked[r], task[r]) /\ IsTree(fs)
           /\ asked[r].kind = "items" /\ Current(r) \in Operation /\ Current(r).path \in Paths
           /\ Current(r).path \in Named(asked[r]) /\ Reach(Named(asked[r]), Current(r).path)
           /\ Current(r).op = "move" => Current(r).to \in Paths /\ Current(r).to \in Named(asked[r])
<1>1. /\ Follows(r) /\ Asking(r) /\ asked'[r] = asked[r] /\ asked[r] \in Asks
      /\ task[r] \in Tasks /\ TodoFits(asked[r], task[r]) /\ IsTree(fs)
  BY RunFollows
<1>2. /\ asked[r].kind = "items" /\ task[r].i \in DOMAIN asked[r].ops
      /\ Current(r) \in Operation /\ Current(r).path \in Paths
      /\ Current(r).op = "move" => Current(r).to \in Paths
  BY OnItem DEF Executed
<1>3. /\ Current(r).path \in Named(asked[r])
      /\ Current(r).to # None => Current(r).to \in Named(asked[r])
  BY <1>1, <1>2, NamedIs DEF Current
<1>4. Reach(Named(asked[r]), Current(r).path)
  BY <1>2, <1>3, PathIs, PrefixOrder DEF Reach
<1>5. None \notin Paths
  BY Kinds
<1> QED BY <1>1, <1>2, <1>3, <1>4, <1>5

\* The end of an item, on a tree that it changed.
LEMMA ItemActs ==
    ASSUME FilesInv, DiskInv, NEW r \in Requests, task[r] # None, Stepped(r),
           task[r].at \in {"item", "scan", "remove", "rmtree"}, UNCHANGED <<content, asked, before>>,
           NEW ok, Item(r, ok), TreeStep({}, Named(asked[r]))
    PROVE  Acts(r)
<1>1. /\ Follows(r) /\ Asking(r) /\ asked'[r] = asked[r] /\ asked[r].kind = "items"
  BY ItemNames
<1>2. Passes(r) /\ (task'[r] = None \/ task'[r].at = "item")
  BY ItemPasses
<1>3. Onward(r)
  BY <1>1, <1>2, PlainOnward
<1> QED BY <1>1, <1>2, <1>3, TreeActs

\* An item moves a tree to where no other is.
LEMMA MoveActs ==
    ASSUME FilesInv, DiskInv, NEW r \in Requests, Move(r)
    PROVE  Acts(r)
<1> DEFINE s == Current(r).path
           t == Current(r).to
<1>1. /\ task[r] # None /\ task[r].at = "item" /\ Current(r).op = "move"
      /\ UNCHANGED <<content, asked, before>>
  BY DEF Move, At
<1>2. /\ IsTree(fs) /\ s \in Paths /\ t \in Paths
      /\ s \in Named(asked[r]) /\ t \in Named(asked[r])
  BY <1>1, ItemNames
<1>3. PICK ok \in BOOLEAN : /\ Item(r, ok)
                            /\ UNCHANGED fs \/ (CanRename(s, t) /\ fs' = Renamed(s, t))
  BY DEF Move
<1>4. TreeStep({}, Named(asked[r]))
  <2> HIDE DEF s, t
  <2>1. CASE UNCHANGED fs
    BY <1>2, <2>1, StaysTree
  <2>2. CASE CanRename(s, t) /\ fs' = Renamed(s, t) /\ s # t
    BY <1>2, <2>2, Moves
  <2>3. CASE fs' = Renamed(s, t) /\ s = t
    <3>1. fs' = Renamed(s, s)
      BY <2>3
    <3>2. UNCHANGED fs
      BY <1>2, <3>1, RenamedSame
    <3> QED BY <1>2, <3>2, StaysTree
  <2> QED BY <1>3, <2>1, <2>2, <2>3
<1> QED BY <1>1, <1>3, <1>4, MoveSteps, ItemActs

\* It looks at what it will remove.
LEMMA DeleteActs ==
    ASSUME FilesInv, DiskInv, NEW r \in Requests, Delete(r)
    PROVE  Acts(r)
<1>1. task[r] # None /\ task[r].at = "item" /\ UNCHANGED <<disk, fs, content, asked, before>>
  BY DEF Delete, At, disk
<1>2. Follows(r) /\ Asking(r) /\ IsTree(fs)
  BY <1>1, ItemNames
<1>3. Stepped(r)
  BY DeleteSteps
<1>4. CASE Item(r, FALSE)
  BY <1>1, <1>2, <1>3, <1>4, StaysTree, ItemActs
<1>5. CASE \E at \in {"scan", "remove"} : Go(r, [Step(at) EXCEPT !.i = task[r].i])
  <2>1. PICK at \in {"scan", "remove"} : Go(r, [Step(at) EXCEPT !.i = task[r].i])
    BY <1>5
  <2> DEFINE step == [Step(at) EXCEPT !.i = task[r].i]
  <2>2. step.at = at
    BY DEF Step
  <2> HIDE DEF step
  <2>3. Passes(r) /\ task'[r] = step
    BY <2>1, GoPasses DEF step
  <2>4. Onward(r)
    BY <1>2, <2>2, <2>3, PlainOnward
  <2> QED BY <1>1, <1>2, <1>3, <2>3, <2>4, QuietActs
<1> QED BY <1>4, <1>5 DEF Delete

\* It removes a file.
LEMMA UnlinkActs ==
    ASSUME FilesInv, DiskInv, NEW r \in Requests, Unlink(r)
    PROVE  Acts(r)
<1> DEFINE p == Current(r).path
<1>1. task[r] # None /\ task[r].at = "remove" /\ UNCHANGED <<content, asked, before>>
  BY DEF Unlink, At
<1>2. IsTree(fs) /\ p \in Paths /\ Reach(Named(asked[r]), p)
  BY <1>1, ItemNames
<1>3. PICK ok \in BOOLEAN : /\ Item(r, ok)
                            /\ UNCHANGED fs \/ (IsFile(p) /\ fs' = [fs EXCEPT ![p] = None])
  BY DEF Unlink
<1>4. TreeStep({}, Named(asked[r]))
  <2>1. CASE UNCHANGED fs
    BY <1>2, <2>1, StaysTree
  <2>2. CASE IsFile(p) /\ fs' = [fs EXCEPT ![p] = None]
    <3>1. fs[p] # Dir
      BY <2>2, Kinds DEF IsFile
    <3> HIDE DEF p
    <3> QED BY <1>2, <2>2, <3>1, Kinds, ChangesOne
  <2> QED BY <1>3, <2>1, <2>2
<1> QED BY <1>1, <1>3, <1>4, UnlinkSteps, ItemActs

\* It notes what is in a folder.
LEMMA RmtreeScanActs ==
    ASSUME FilesInv, DiskInv, NEW r \in Requests, RmtreeScan(r)
    PROVE  Acts(r)
<1> DEFINE p == Current(r).path
           todo == {<<c, c>> : c \in Children(p)}
           step == [task[r] EXCEPT !.at = "rmtree", !.todo = todo]
<1>1. task[r] # None /\ task[r].at = "scan" /\ UNCHANGED <<disk, fs, content, asked, before>>
  BY DEF RmtreeScan, At, disk
<1>2. /\ Follows(r) /\ Asking(r) /\ asked'[r] = asked[r] /\ IsTree(fs) /\ p \in Paths
      /\ task[r] \in Tasks
  BY <1>1, ItemNames
<1>3. Stepped(r)
  BY RmtreeScanSteps
<1>4. CASE Item(r, FALSE)
  BY <1>1, <1>2, <1>3, <1>4, StaysTree, ItemActs
<1>5. CASE Go(r, step)
  <2>1. \A e \in todo : IsPrefix(p, e[1])
    BY <1>2, ChildUnder DEF Under, IsStrictPrefix
  <2> HIDE DEF todo
  <2>2. step.at = "rmtree" /\ step.i = task[r].i /\ step.todo = todo
    BY <1>2 DEF Tasks
  <2> HIDE DEF step
  <2>3. Passes(r) /\ task'[r] = step
    BY <1>5, GoPasses
  <2>4. TodoFits(asked'[r], task'[r])
    BY <1>2, <2>1, <2>2, <2>3 DEF TodoFits, Current
  <2>5. Onward(r)
    BY <1>2, <2>2, <2>3, <2>4 DEF Onward, Unmade, Holds, Asking
  <2> QED BY <1>1, <1>2, <1>3, <2>3, <2>5, QuietActs
<1> QED BY <1>4, <1>5 DEF RmtreeScan

\* It removes what it noted, then the folder.
LEMMA RmtreeActs ==
    ASSUME FilesInv, DiskInv, NEW r \in Requests, Rmtree(r)
    PROVE  Acts(r)
<1> DEFINE p == Current(r).path
<1>1. task[r] # None /\ task[r].at = "rmtree" /\ UNCHANGED <<content, asked, before>>
  BY DEF Rmtree, At
<1>2. /\ Follows(r) /\ Asking(r) /\ asked'[r] = asked[r] /\ IsTree(fs) /\ p \in Paths
      /\ task[r] \in Tasks /\ TodoFits(asked[r], task[r])
      /\ p \in Named(asked[r]) /\ Reach(Named(asked[r]), p)
  BY <1>1, ItemNames
<1>3. Stepped(r)
  BY RmtreeSteps
<1>4. UNCHANGED fs \/ \E x \in Paths : /\ Reach(Named(asked[r]), x) /\ Children(x) = {}
                                       /\ fs' = [fs EXCEPT ![x] = None]
  <2>1. \A e \in task[r].todo : e[1] \in Paths
    BY <1>2 DEF Tasks
  <2>2. \A e \in task[r].todo : Reach(Named(asked[r]), e[1])
    BY <1>1, <1>2 DEF TodoFits, Current, Reach
  <2> QED BY <1>2, <2>1, <2>2 DEF Rmtree
<1>5. TreeStep({}, Named(asked[r]))
  <2>1. CASE UNCHANGED fs
    BY <1>2, <2>1, StaysTree
  <2>2. ASSUME NEW x \in Paths, Reach(Named(asked[r]), x), Children(x) = {},
               fs' = [fs EXCEPT ![x] = None]
        PROVE  TreeStep({}, Named(asked[r]))
    BY <1>2, <2>2, Kinds, ChangesOne
  <2> QED BY <1>4, <2>1, <2>2
<1>6. CASE \E ok \in BOOLEAN : Item(r, ok)
  BY <1>1, <1>3, <1>5, <1>6, ItemActs
<1>7. CASE \E e \in task[r].todo : Go(r, [task[r] EXCEPT !.todo = @ \ {e}])
  <2>1. PICK e \in task[r].todo : Go(r, [task[r] EXCEPT !.todo = @ \ {e}])
    BY <1>7
  <2> DEFINE step == [task[r] EXCEPT !.todo = @ \ {e}]
  <2>2. /\ step.at = "rmtree" /\ step.i = task[r].i /\ step.node = task[r].node
        /\ step.todo \subseteq task[r].todo
    BY <1>1, <1>2 DEF Tasks
  <2> HIDE DEF step
  <2>3. Passes(r) /\ task'[r] = step
    BY <2>1, GoPasses DEF step
  <2>4. Onward(r)
    BY <1>1, <1>2, <2>2, <2>3, SameOnward
  <2>5. asked'[r].kind = "items"
    BY <1>1, <1>2, ItemNames
  <2> QED BY <1>1, <1>2, <1>3, <1>5, <2>3, <2>4, <2>5, TreeActs
<1> QED BY <1>6, <1>7 DEF Rmtree

\* Downloads and listings leave the disk as it is.
LEMMA ReadActs ==
    ASSUME FilesInv, DiskInv, NEW r \in Requests,
           Serve(r) \/ StreamOpen(r) \/ Stream(r) \/ Lookup(r) \/ Scandir(r) \/ Store(r)
    PROVE  Acts(r)
<1>1. /\ task[r] # None /\ UNCHANGED <<disk, asked, before>>
      /\ task[r].at \in {"serve", "stream", "lookup", "scandir", "store"}
  BY DEF Serve, StreamOpen, Stream, Lookup, Scandir, Store, At
<1>2. Stepped(r)
  BY ServeSteps, StreamOpenSteps, StreamSteps, ListSteps
<1>3. Follows(r) /\ Asking(r) /\ task[r] \in Tasks
  BY <1>1, RunFollows
<1>4. Passes(r) /\ (task'[r] = None \/ task'[r].at \in {"stream", "scandir", "store"})
  <2>1. CASE \E result : End(r, result)
    BY <2>1, EndPasses
  <2>2. CASE \E i : Go(r, [Step("stream") EXCEPT !.i = i])
    <3>1. PICK i : Go(r, [Step("stream") EXCEPT !.i = i])
      BY <2>2
    <3> DEFINE step == [Step("stream") EXCEPT !.i = i]
    <3>2. step.at = "stream"
      BY DEF Step
    <3> HIDE DEF step
    <3> QED BY <3>1, <3>2, GoPasses DEF step
  <2>3. CASE task[r].at = "stream" /\ \E n : Go(r, [task[r] EXCEPT !.node = n])
    <3>1. PICK n : Go(r, [task[r] EXCEPT !.node = n])
      BY <2>3
    <3> DEFINE step == [task[r] EXCEPT !.node = n]
    <3>2. step.at = "stream"
      BY <1>3, <2>3 DEF Tasks
    <3> HIDE DEF step
    <3> QED BY <3>1, <3>2, GoPasses DEF step
  <2>4. CASE task[r].at = "stream" /\ \E i : Go(r, [task[r] EXCEPT !.i = i])
    <3>1. PICK i : Go(r, [task[r] EXCEPT !.i = i])
      BY <2>4
    <3> DEFINE step == [task[r] EXCEPT !.i = i]
    <3>2. step.at = "stream"
      BY <1>3, <2>4 DEF Tasks
    <3> HIDE DEF step
    <3> QED BY <3>1, <3>2, GoPasses DEF step
  <2>5. CASE \E at \in {"scandir", "store"} : Go(r, Step(at))
    BY <2>5, GoPasses, StepAt
  <2>6. CASE Serve(r)
    BY <2>1, <2>2, <2>6 DEF Serve
  <2>7. CASE StreamOpen(r)
    BY <1>1, <2>1, <2>3, <2>7 DEF StreamOpen, At
  <2>8. CASE Stream(r)
    BY <1>1, <2>1, <2>4, <2>8 DEF Stream, At
  <2>9. CASE Lookup(r) \/ Scandir(r) \/ Store(r)
    BY <2>1, <2>5, <2>9 DEF Lookup, Scandir, Store
  <2> QED BY <2>6, <2>7, <2>8, <2>9
<1>5. Onward(r)
  BY <1>3, <1>4, PlainOnward
<1> QED BY <1>1, <1>2, <1>3, <1>4, <1>5, QuietActs

\* Every step of a request is of that form.
LEMMA StepActs ==
    ASSUME FilesInv, DiskInv, NEW r \in Requests, Begin(r) \/ Run(r)
    PROVE  Acts(r)
<1>1. CASE Begin(r)
  BY <1>1, BeginActs
<1>2. CASE Run(r)
  BY <1>2, OpenActsOn, WriteActs, DiscardActs, CopyTreeActs, CopyFileActs, CopyOpenActs,
     CopyBlockActs, CopyEndActs, MoveActs, DeleteActs, UnlinkActs, RmtreeScanActs, RmtreeActs,
     ReadActs DEF Run
<1> QED BY <1>1, <1>2

\* At the start there is a tree, of which every file is at its own path.
LEMMA InitDisk ==
    ASSUME Init
    PROVE  DiskInv
<1>1. \A p \in Paths : fs[p] = IF p \in Folders THEN Dir ELSE IF p \in Stored THEN <<Old, p>> ELSE None
  BY DEF Init
<1>2. \A r \in Requests : /\ asked[r] = None /\ task[r] = None /\ outcome[r] = "none"
                          /\ before[r] = {}
  BY DEF Init
<1>3. IsTree(fs)
  <2>1. fs \in [Paths -> Nodes \cup {Dir, None}]
    BY DEF Init, Nodes
  <2>2. InFolders(fs)
    <3>1. SUFFICES ASSUME NEW p \in Paths, fs[p] # None
                   PROVE  Parent(p) = <<>> \/ fs[Parent(p)] = Dir
      BY DEF InFolders
    <3>2. p \in Folders \cup Stored
      BY <1>1, <3>1
    <3>3. Parent(p) \in Folders \cup {<<>>} /\ Folders \subseteq Paths
      BY <3>2, FilesAssumption DEF Parent
    <3> QED BY <1>1, <3>3
  <2>3. Unique(fs)
    <3>1. SUFFICES ASSUME NEW p \in Paths, NEW q \in Paths, fs[p] \in Nodes, fs[p] = fs[q]
                   PROVE  p = q
      BY DEF Unique
    <3>2. fs[p] = <<Old, p>> /\ fs[q] = <<Old, q>>
      BY <1>1, <3>1, Kinds
    <3>3. <<Old, p>> = <<Old, q>>
      BY <3>1, <3>2
    <3> QED BY <3>3
  <2> QED BY <2>1, <2>2, <2>3 DEF IsTree
<1>4. NodesNew
  <2>1. \A r \in Requests, p \in Paths, x \in Paths : fs[x] # <<r, p>>
    <3>1. SUFFICES ASSUME NEW r \in Requests, NEW p \in Paths, NEW x \in Paths, fs[x] = <<r, p>>
                   PROVE  FALSE
      OBVIOUS
    <3>2. <<r, p>> \in Nodes
      BY DEF Nodes
    <3>3. fs[x] = <<Old, x>>
      BY <1>1, <3>1, <3>2, Kinds
    <3>4. r = Old
      BY <3>1, <3>3
    <3> QED BY <3>4, FilesAssumption
  <2> QED BY <1>2, <2>1 DEF NodesNew, Holds
<1>5. HandlesNear /\ EndedIs /\ \A r \in Requests : TodoFits(asked[r], task[r])
  BY <1>2 DEF HandlesNear, Holds, EndedIs, TodoFits
<1> QED BY <1>3, <1>4, <1>5 DEF DiskInv

\* What touches neither the disk nor a request leaves everything as it is.
LEMMA StutterDisk ==
    ASSUME DiskInv, UNCHANGED <<disk, asked, task, outcome, before>>
    PROVE  DiskInv'
<1>1. UNCHANGED <<fs, content, asked, task, outcome, before>>
  BY DEF disk
<1>2. IsTree(fs)' /\ NodesNew' /\ EndedIs' /\ \A r \in Requests : TodoFits(asked'[r], task'[r])
  BY <1>1 DEF DiskInv, IsTree, InFolders, Unique, NodesNew, EndedIs
<1>3. \A S : Closed(S)' <=> Closed(S)
  BY <1>1 DEF Closed, Changing
<1>4. \A w, m : Connected(w, m) => Connected(w, m)'
  BY <1>1, <1>3 DEF Connected, Begun
<1>5. HandlesNear'
  BY <1>1, <1>4 DEF DiskInv, HandlesNear, Changing
<1> QED BY <1>2, <1>5 DEF DiskInv

\* The process dies: the tree stays, and who wrote writes no more.
LEMMA CrashDisk ==
    ASSUME FilesInv, DiskInv, Crash
    PROVE  DiskInv'
<1>1. /\ UNCHANGED <<fs, content, asked, before>>
      /\ \A r \in Requests : task'[r] = None
      /\ \A r \in Requests : outcome'[r] = IF task[r] # None THEN "failed" ELSE outcome[r]
  BY DEF Crash, disk
<1>2. IsTree(fs')
  BY <1>1 DEF DiskInv
<1>3. NodesNew'
  <2>1. \A r \in Requests, p \in Paths : Unmade(asked'[r], task'[r], p) => Unmade(asked[r], task[r], p)
    BY <1>1 DEF Unmade
  <2>2. \A k \in Requests : \A n \in Nodes : ~Holds(task'[k], n)
    BY <1>1 DEF Holds
  <2>3. \A r \in Requests, p \in Paths : <<r, p>> \in Nodes
    BY DEF Nodes
  <2> QED BY <1>1, <2>1, <2>2, <2>3 DEF DiskInv, NodesNew
<1>4. HandlesNear' /\ \A r \in Requests : TodoFits(asked'[r], task'[r])
  BY <1>1 DEF HandlesNear, Holds, TodoFits
<1>5. EndedIs'
  <2>1. \A r \in Requests : asked[r] = None => task[r] = None
    BY DEF FilesInv, TypeOK
  <2>2. "failed" # "none"
    OBVIOUS
  <2> QED BY <1>1, <2>1, <2>2 DEF DiskInv, EndedIs
<1> QED BY <1>2, <1>3, <1>4, <1>5 DEF DiskInv

\* The invariant of the disk is inductive.
LEMMA NextDisk ==
    ASSUME FilesInv, DiskInv, [Next]_vars
    PROVE  DiskInv'
<1>1. CASE \E r \in Requests : Begin(r) \/ Run(r)
  BY <1>1, StepActs, ActsKeeps
<1>2. CASE (\E k \in DOMAIN cache : Expire(k)) \/ UNCHANGED vars
  <2>1. UNCHANGED <<disk, asked, task, outcome, before>>
    BY <1>2 DEF Expire, vars, disk
  <2> QED BY <2>1, StutterDisk
<1>3. CASE Crash
  BY <1>3, CrashDisk
<1> QED BY <1>1, <1>2, <1>3 DEF Next

-----------------------------------------------------------------------------
(* What a request has come to, while others act.                           *)

\* A step that is not its own leaves a request as it is, or ends it with the process.
LEMMA OtherStep ==
    ASSUME FilesInv, DiskInv, [Next]_vars, NEW r \in Requests, ~Begin(r), ~Run(r)
    PROVE  /\ asked'[r] = asked[r] /\ results'[r] = results[r] /\ body'[r] = body[r]
           /\ before'[r] = before[r]
           /\ \/ task'[r] = task[r] /\ outcome'[r] = outcome[r]
              \/ task[r] # None /\ task'[r] = None /\ outcome'[r] = "failed"
<1>1. ASSUME NEW k \in Requests, Begin(k) \/ Run(k)
      PROVE  /\ task'[r] = task[r] /\ asked'[r] = asked[r]
             /\ results'[r] = results[r] /\ body'[r] = body[r]
             /\ outcome'[r] = outcome[r] /\ before'[r] = before[r]
  <2>1. Acts(k) /\ r # k
    BY <1>1, StepActs
  <2> QED BY <2>1, ActsAsk
<1>2. CASE (\E k \in DOMAIN cache : Expire(k)) \/ UNCHANGED vars
  <2>1. UNCHANGED <<asked, task, outcome, results, body, before>>
    BY <1>2 DEF Expire, vars, told
  <2> QED BY <2>1
<1>3. CASE Crash
  <2>1. UNCHANGED <<asked, results, body, before>>
    BY <1>3 DEF Crash, told
  <2>2. task'[r] = None /\ outcome'[r] = IF task[r] # None THEN "failed" ELSE outcome[r]
    BY <1>3 DEF Crash
  <2> QED BY <2>1, <2>2
<1> QED BY <1>1, <1>2, <1>3 DEF Next

\* And what an undisturbed one named is as it was.
LEMMA LeftAlone ==
    ASSUME FilesInv, DiskInv, [Next]_vars, NEW r \in Requests, ~Begin(r), ~Run(r),
           asked[r] # None, Undisturbed(r)'
    PROVE  /\ Undisturbed(r)
           /\ \A x \in Paths : Reach(Named(asked[r]), x) =>
                 fs'[x] = fs[x] /\ (fs[x] \in Nodes => content'[fs[x]] = content[fs[x]])
<1>1. ASSUME NEW k \in Requests, Begin(k) \/ Run(k)
      PROVE  /\ Undisturbed(r)
             /\ \A x \in Paths : Reach(Named(asked[r]), x) =>
                   fs'[x] = fs[x] /\ (fs[x] \in Nodes => content'[fs[x]] = content[fs[x]])
  <2>1. Acts(k) /\ r # k
    BY <1>1, StepActs
  <2> QED BY <2>1, UndisturbedBefore, Quiet
<1>2. CASE Crash \/ (\E k \in DOMAIN cache : Expire(k)) \/ UNCHANGED vars
  <2>1. UNCHANGED <<fs, content, asked, before>>
    BY <1>2 DEF Crash, Expire, vars, disk
  <2>2. Undisturbed(r)
    BY <2>1 DEF Undisturbed, Closed, Changing
  <2> QED BY <2>1, <2>2
<1> QED BY <1>1, <1>2 DEF Next

\* What a request is when it acts.
LEMMA OwnStep ==
    ASSUME FilesInv, DiskInv, NEW r \in Requests, Run(r)
    PROVE  /\ task[r] # None /\ asked[r] # None /\ asked[r] \in Asks /\ UNCHANGED <<asked, before>>
           /\ outcome[r] = "none" /\ task[r] \in Tasks
           /\ StepFits(asked[r], task[r], Len(results[r]), body[r])
           /\ TodoFits(asked[r], task[r])
           /\ Undisturbed(r)' => Undisturbed(r)
<1>1. task[r] # None /\ UNCHANGED <<asked, before>>
  BY DEF Run, Open, Write, Discard, CopyTree, CopyFile, CopyOpen, CopyBlock, CopyEnd, Move,
     Delete, Unlink, RmtreeScan, Rmtree, Serve, StreamOpen, Stream, Lookup, Scandir, Store, At
<1>2. asked[r] # None
  BY <1>1 DEF FilesInv, TypeOK
<1>3. outcome[r] = "none" /\ TodoFits(asked[r], task[r])
  BY <1>1 DEF DiskInv, EndedIs
<1>4. Undisturbed(r)' => Undisturbed(r)
  BY <1>1 DEF Undisturbed, Closed, Changing
<1> QED BY <1>1, <1>2, <1>3, <1>4, InFlight

-----------------------------------------------------------------------------
(* Uploads.                                                                *)

\* An undisturbed upload has so far written its first blocks to its path, and no others.
UploadFits(r) ==
    LET p == asked[r].path
    IN  /\ At(r, "write") => /\ task[r].node = fs[p] /\ task[r].i <= asked[r].n
                             /\ content[fs[p]] = [i \in 1..task[r].i |-> <<r, i>>]
        /\ outcome[r] = "ok" => IsFile(p) /\ content[fs[p]] = Sent(r)
        /\ outcome[r] = "refused" /\ asked[r].scan # "name" => fs[p] = None
UploadGoes(r) == asked[r] # None /\ asked[r].kind = "upload" /\ Undisturbed(r) => UploadFits(r)

\* A block written where a file ends is its last one.
LEMMA WrittenNext ==
    ASSUME NEW c \in Seq(Blocks), NEW i \in Nat, Len(c) = i, NEW x
    PROVE  Written(c, i + 1, x) = [j \in 1..i + 1 |-> IF j = i + 1 THEN x ELSE c[j]]
<1>1. (IF i + 1 > Len(c) THEN i + 1 ELSE Len(c)) = i + 1
  OBVIOUS
<1>2. \A j \in 1..i + 1 : j # i + 1 => j <= Len(c)
  OBVIOUS
<1>3. Written(c, i + 1, x) = [j \in 1..i + 1 |->
            IF j = i + 1 THEN x ELSE IF j <= Len(c) THEN c[j] ELSE None]
  BY <1>1 DEF Written
<1> QED BY <1>2, <1>3

\* The block that is written comes after those before it.
LEMMA UploadWrites ==
    ASSUME FilesInv, DiskInv, NEW r \in Requests, Write(r), UploadGoes(r)
    PROVE  UploadGoes(r)'
<1> DEFINE q == asked[r]
           k == task[r].i
           n == task[r].node
           p == asked[r].path
<1>1. Run(r)
  BY DEF Run
<1>2. /\ task[r] # None /\ q \in Asks /\ UNCHANGED <<fs, asked>>
      /\ outcome[r] = "none" /\ task[r] \in Tasks
      /\ StepFits(asked[r], task[r], Len(results[r]), body[r])
  BY <1>1, OwnStep DEF Write
<1>3. SUFFICES ASSUME Undisturbed(r)'
               PROVE  UploadFits(r)'
  BY DEF UploadGoes
<1>4. /\ At(r, "write") /\ q.kind = "upload" /\ n \in Nodes /\ k \in Nat /\ k <= Limit
      /\ q.n \in 0..Limit + 1 /\ p \in Paths /\ Limit \in Nat
  BY <1>2, AskFields, FilesAssumption DEF Write, At, StepFits, Tasks
<1>5. UploadFits(r)
  BY <1>1, <1>2, <1>3, <1>4, OwnStep DEF UploadGoes
<1>6. n = fs[p] /\ k <= q.n /\ content[n] = [i \in 1..k |-> <<r, i>>]
  BY <1>4, <1>5 DEF UploadFits
<1>7. CASE End(r, "ok") /\ k + 1 > q.n /\ UNCHANGED content
  <2>1. task'[r] = None /\ outcome'[r] = "ok"
    BY <1>7, EndPasses
  <2>2. k = q.n
    BY <1>4, <1>6, <1>7
  <2>3. IsFile(p)' /\ content'[fs'[p]] = Sent(r)'
    BY <1>2, <1>4, <1>6, <1>7, <2>2 DEF IsFile, Sent
  <2> QED BY <1>2, <2>1, <2>3 DEF UploadFits, At
<1>8. CASE Go(r, Step("discard"))
  <2>1. task'[r].at = "discard" /\ outcome'[r] = "none"
    BY <1>2, <1>8, GoPasses, StepAt
  <2> QED BY <2>1 DEF UploadFits, At
<1>9. CASE /\ k + 1 <= q.n /\ content' = [content EXCEPT ![n] = Written(@, k + 1, <<r, k + 1>>)]
           /\ Go(r, [task[r] EXCEPT !.i = k + 1])
  <2> DEFINE step == [task[r] EXCEPT !.i = k + 1]
  <2>1. step.at = "write" /\ step.i = k + 1 /\ step.node = n
    BY <1>2, <1>4 DEF At, Tasks
  <2> HIDE DEF step
  <2>2. task'[r] = step /\ outcome'[r] = "none"
    BY <1>2, <1>9, GoPasses DEF step
  <2>3. content \in [Nodes -> Seq(Blocks)] /\ content[n] \in Seq(Blocks)
    BY <1>4 DEF FilesInv, TypeOK
  <2>4. content'[n] = Written(content[n], k + 1, <<r, k + 1>>)
    BY <1>4, <1>9, <2>3
  <2>5. Len(content[n]) = k
    <3>1. DOMAIN content[n] = 1..k
      BY <1>6
    <3>2. DOMAIN content[n] = 1..Len(content[n]) /\ Len(content[n]) \in Nat
      BY <2>3, LenProperties
    <3> HIDE DEF k
    <3> QED BY <1>4, <3>1, <3>2
  <2>6. content'[n] = [j \in 1..k + 1 |-> IF j = k + 1 THEN <<r, k + 1>> ELSE content[n][j]]
    <3> DEFINE c == content[n]
    <3>1. k \in Nat /\ c \in Seq(Blocks) /\ Len(c) = k
      BY <1>4, <2>3, <2>5
    <3>2. content'[n] = Written(c, k + 1, <<r, k + 1>>)
      BY <2>4
    <3> HIDE DEF c, k
    <3>3. Written(c, k + 1, <<r, k + 1>>)
             = [j \in 1..k + 1 |-> IF j = k + 1 THEN <<r, k + 1>> ELSE c[j]]
      BY <3>1, WrittenNext
    <3> QED BY <3>2, <3>3 DEF c
  <2>7. content'[n] = [j \in 1..k + 1 |-> <<r, j>>]
    <3>1. \A j \in 1..k + 1 : j # k + 1 => content[n][j] = <<r, j>>
      <4> HIDE DEF k, n
      <4>1. \A j \in 1..k + 1 : j # k + 1 => j \in 1..k
        BY <1>4
      <4> QED BY <1>6, <4>1
    <3> QED BY <2>6, <3>1
  <2>8. fs'[p] = n /\ asked'[r] = q
    BY <1>2, <1>6
  <2> QED BY <1>9, <2>1, <2>2, <2>7, <2>8 DEF UploadFits, At
<1> QED BY <1>7, <1>8, <1>9 DEF Write

\* No step of an upload leaves anything else.
LEMMA UploadSteps ==
    ASSUME FilesInv, DiskInv, NEW r \in Requests, Begin(r) \/ Run(r), UploadGoes(r)
    PROVE  UploadGoes(r)'
<1>1. SUFFICES ASSUME asked'[r] # None, asked'[r].kind = "upload", Undisturbed(r)'
               PROVE  UploadFits(r)'
  BY DEF UploadGoes
<1>2. CASE Begin(r)
  <2>1. PICK q \in Asks : /\ asked' = [asked EXCEPT ![r] = q]
                          /\ \/ BeginUpload(r, q) \/ BeginCopy(r, q) \/ BeginMkdir(r, q)
                             \/ BeginItems(r, q) \/ BeginDownload(r, q) \/ BeginList(r, q)
    BY <1>2 DEF Begin
  <2>2. asked'[r] = q /\ asked[r] = None
    BY <1>2, <2>1, NowAsking DEF Begin
  <2>3. BeginUpload(r, q)
    BY <1>1, <2>1, <2>2 DEF BeginCopy, BeginMkdir, BeginItems, BeginDownload, BeginList
  <2>4. outcome[r] = "none"
    BY <2>2 DEF DiskInv, EndedIs
  <2>5. \/ task'[r] = None /\ (outcome'[r] = "failed" \/ (outcome'[r] = "refused" /\ q.scan = "name"))
        \/ task'[r].at = "open" /\ outcome'[r] = "none"
    BY <2>3, <2>4, EndPasses, GoPasses, StepAt DEF BeginUpload
  <2> QED BY <2>2, <2>5 DEF UploadFits, At
<1>3. CASE Run(r)
  <2>1. /\ task[r] # None /\ asked[r] \in Asks /\ UNCHANGED asked /\ outcome[r] = "none"
        /\ StepFits(asked[r], task[r], Len(results[r]), body[r])
    BY <1>3, OwnStep
  <2> DEFINE p == asked[r].path
  <2>2. Open(r) \/ Write(r) \/ Discard(r)
    BY <1>1, <1>3, <2>1 DEF StepFits, Run, CopyTree, CopyFile, CopyOpen, CopyBlock, CopyEnd,
       Move, Delete, Unlink, RmtreeScan, Rmtree, Serve, StreamOpen, Stream, Lookup, Scandir,
       Store, At
  <2>3. p \in Paths /\ DOMAIN fs = Paths
    BY <1>1, <2>1, AskFields DEF FilesInv, TypeOK
  <2>4. CASE Open(r)
    <3> DEFINE step == [Step("write") EXCEPT !.node = Opened(r, p)]
    <3>1. CASE End(r, "failed")
      BY <3>1, EndPasses DEF UploadFits, At
    <3>2. CASE CanOpen(p) /\ Opening(r, p) /\ Go(r, step)
      <4>1. step.at = "write" /\ step.node = Opened(r, p) /\ step.i = 0
        BY DEF Step
      <4> HIDE DEF step
      <4>2. task'[r] = step /\ outcome'[r] = "none"
        BY <2>1, <3>2, GoPasses
      <4>3. Opened(r, p) \in Nodes
        BY <2>3, <3>2, OpenedNode
      <4>4. fs'[p] = Opened(r, p) /\ content'[Opened(r, p)] = <<>>
        BY <2>3, <3>2, <4>3 DEF Opening, FilesInv, TypeOK
      <4>5. <<>> = [i \in 1..0 |-> <<r, i>>]
        OBVIOUS
      <4>6. 0 <= asked[r].n
        BY <1>1, <2>1, AskFields, FilesAssumption
      <4> QED BY <2>1, <4>1, <4>2, <4>4, <4>5, <4>6 DEF UploadFits, At
    <3> QED BY <2>4, <3>1, <3>2 DEF Open
  <2>5. CASE Write(r)
    BY <1>1, <2>5, UploadWrites DEF UploadGoes
  <2>6. CASE Discard(r)
    <3>1. \/ End(r, "failed")
          \/ End(r, "refused") /\ fs' = [fs EXCEPT ![p] = None]
      BY <2>6 DEF Discard
    <3>2. task'[r] = None /\ (outcome'[r] = "failed" \/ (outcome'[r] = "refused" /\ fs'[p] = None))
      BY <2>3, <3>1, EndPasses
    <3> QED BY <2>1, <3>2 DEF UploadFits, At
  <2> QED BY <2>2, <2>4, <2>5, <2>6
<1> QED BY <1>2, <1>3

\* Others leave it so.
LEMMA UploadAlone ==
    ASSUME FilesInv, DiskInv, [Next]_vars, NEW r \in Requests, ~Begin(r), ~Run(r), UploadGoes(r)
    PROVE  UploadGoes(r)'
<1> DEFINE p == asked[r].path
<1>1. /\ asked'[r] = asked[r]
      /\ \/ task'[r] = task[r] /\ outcome'[r] = outcome[r]
         \/ task'[r] = None /\ outcome'[r] = "failed"
  BY OtherStep
<1>2. SUFFICES ASSUME asked[r] # None, asked[r].kind = "upload", Undisturbed(r)'
               PROVE  UploadFits(r)'
  BY <1>1 DEF UploadGoes
<1>3. asked[r] \in Asks
  BY <1>2 DEF FilesInv, TypeOK
<1>4. p \in Paths /\ Reach(Named(asked[r]), p)
  BY <1>2, <1>3, AskFields, NamedIs, PathIs, PrefixOrder DEF Reach
<1>5. Undisturbed(r) /\ fs'[p] = fs[p] /\ (fs[p] \in Nodes => content'[fs[p]] = content[fs[p]])
  BY <1>2, <1>4, LeftAlone
<1>6. UploadFits(r)
  BY <1>2, <1>5 DEF UploadGoes
<1>7. At(r, "write") => task[r].node \in Nodes
  BY DEF At, FilesInv, Placed, StepFits
<1> QED BY <1>1, <1>5, <1>6, <1>7 DEF UploadFits, At, IsFile, Sent

-----------------------------------------------------------------------------
(* Downloads.                                                              *)

\* What an undisturbed download has sent so far is the beginning of what was asked for, of the
\* file that is at its path.
BodyFits(r) ==
    LET p == asked[r].path   range == asked[r].range   c == content[fs[p]]
        a == First(range, Len(c))   b == Final(range, Len(c))   i == task[r].i
    IN  /\ At(r, "stream") =>
              /\ IsFile(p) /\ task[r].node \in {None, fs[p]}
              /\ a \in Nat \ {0} /\ a - 1 <= i /\ i <= b /\ b <= Len(c)
              /\ body[r].head = SubSeq(c, a, b) /\ body[r].sent = SubSeq(c, a, i)
        /\ outcome[r] = "ok" /\ body[r] # None =>
              IsFile(p) /\ b <= Len(c) /\ body[r].sent = SubSeq(c, a, b)
BodyGoes(r) ==
    /\ body[r] # None => /\ asked[r] # None /\ asked[r].kind = "download"
                         /\ task[r] # None => task[r].at = "stream"
                         /\ outcome[r] = "ok" => Len(body[r].sent) = Len(body[r].head)
    /\ asked[r] # None /\ asked[r].kind = "download" /\ Undisturbed(r) => BodyFits(r)

\* The offsets that a range comes to are those before the first block and of the last.
LEMMA BoundsAre ==
    ASSUME NEW range \in Offset \X Offset, NEW size \in 0..Limit + 1,
           Bounds(range, size) # None
    PROVE  /\ Bounds(range, size)[1] = First(range, size) - 1
           /\ Bounds(range, size)[2] = Final(range, size) - 1
           /\ First(range, size) \in 1..size /\ Final(range, size) \in First(range, size)..size
<1> DEFINE a == range[1]
           b == range[2]
           end == IF b = None THEN size - 1 ELSE b
<1>1. a \in Offset /\ b \in Offset /\ Limit \in Nat /\ range # None
  <2>1. None \notin Offset \X Offset
    BY FilesAssumption DEF Offset
  <2> QED BY <2>1, FilesAssumption
<1>2. CASE a = None
  <2>1. b # None /\ 0 < b /\ b <= size /\ Bounds(range, size) = <<size - b, size - 1>>
    BY <1>2 DEF Bounds
  <2>2. b \in 0..Limit
    BY <1>1, <2>1 DEF Offset
  <2>3. First(range, size) = size - b + 1 /\ Final(range, size) = size
    BY <1>1, <1>2 DEF First, Final
  <2> HIDE DEF b
  <2> QED BY <1>1, <2>1, <2>2, <2>3
<1>3. CASE a # None
  <2>1. a < size /\ a <= end /\ end < size /\ Bounds(range, size) = <<a, end>>
    BY <1>3 DEF Bounds
  <2>2. a \in 0..Limit /\ end \in Int
    BY <1>1, <1>3 DEF Offset
  <2>3. First(range, size) = a + 1 /\ Final(range, size) = end + 1
    <3>1. First(range, size) = a + 1
      BY <1>1, <1>3 DEF First
    <3>2. CASE b = None
      BY <1>1, <3>1, <3>2 DEF Final
    <3>3. CASE b # None
      BY <1>1, <1>3, <3>1, <3>3 DEF Final
    <3> QED BY <3>2, <3>3
  <2> HIDE DEF a, end
  <2> QED BY <1>1, <2>1, <2>2, <2>3
<1> QED BY <1>2, <1>3

\* A part of a file, and its next block.
LEMMA SubSeqNext ==
    ASSUME NEW c \in Seq(Blocks), NEW a \in Nat \ {0}, NEW i \in Nat, a - 1 <= i, i <= Len(c)
    PROVE  /\ SubSeq(c, a, i) \in Seq(Blocks) /\ Len(SubSeq(c, a, i)) = i - a + 1
           /\ i < Len(c) => Append(SubSeq(c, a, i), c[i + 1]) = SubSeq(c, a, i + 1)
<1>1. Len(c) \in Nat /\ \A j \in 1..Len(c) : c[j] \in Blocks
  BY LenProperties, ElementOfSeq
<1>2. ASSUME NEW b \in Nat, a - 1 <= b, b <= Len(c)
      PROVE  /\ SubSeq(c, a, b) \in Seq(Blocks) /\ Len(SubSeq(c, a, b)) = b - a + 1
             /\ \A j \in 1..b - a + 1 : SubSeq(c, a, b)[j] = c[a + j - 1]
  <2>1. a \in Int /\ b \in Int /\ \A j \in a..b : c[j] \in Blocks
    BY <1>1, <1>2
  <2>2. SubSeq(c, a, b) \in Seq(Blocks)
    BY <2>1, SubSeqProperties
  <2>3. Len(SubSeq(c, a, b)) = IF a <= b THEN b - a + 1 ELSE 0
    BY <2>1, SubSeqProperties
  <2>4. \A j \in 1..b - a + 1 : SubSeq(c, a, b)[j] = c[a + j - 1]
    BY <2>1, SubSeqProperties
  <2>5. (IF a <= b THEN b - a + 1 ELSE 0) = b - a + 1
    BY <1>2
  <2> QED BY <2>2, <2>3, <2>4, <2>5
<1> DEFINE s == SubSeq(c, a, i)
           u == SubSeq(c, a, i + 1)
<1>3. s \in Seq(Blocks) /\ Len(s) = i - a + 1 /\ \A j \in 1..i - a + 1 : s[j] = c[a + j - 1]
  BY <1>2
<1>4. ASSUME i < Len(c)
      PROVE  Append(s, c[i + 1]) = u
  <2>1. c[i + 1] \in Blocks
    BY <1>1, <1>4
  <2>2. i + 1 \in Nat /\ a - 1 <= i + 1 /\ i + 1 <= Len(c) /\ i + 1 - a + 1 = i - a + 2
    BY <1>1, <1>4
  <2>3. u \in Seq(Blocks) /\ Len(u) = i - a + 2 /\ \A j \in 1..i - a + 2 : u[j] = c[a + j - 1]
    BY <1>2, <2>2
  <2> DEFINE x == c[i + 1]
             v == Append(s, x)
  <2>4. x \in Blocks
    BY <2>1
  <2>5. v \in Seq(Blocks) /\ Len(v) = Len(s) + 1 /\ v[Len(s) + 1] = x /\ \A j \in 1..Len(s) : v[j] = s[j]
    <3> HIDE DEF s, x
    <3> QED BY <1>3, <2>4, AppendProperties
  <2> HIDE DEF s, u, v
  <2>6. ASSUME NEW j \in 1..i - a + 2
        PROVE  v[j] = u[j]
    <3>1. CASE j = i - a + 2
      <4>1. a + j - 1 = i + 1 /\ j = Len(s) + 1
        BY <1>3, <3>1
      <4> QED BY <2>3, <2>5, <2>6, <4>1
    <3>2. CASE j # i - a + 2
      <4>1. j \in 1..i - a + 1
        BY <3>2
      <4> QED BY <1>3, <2>3, <2>5, <2>6, <4>1
    <3> QED BY <3>1, <3>2
  <2>7. Len(v) = i - a + 2
    BY <1>3, <2>5
  <2>8. v = u
    <3> DEFINE m == i - a + 2
    <3>1. Len(v) = m /\ Len(u) = m /\ \A j \in 1..m : v[j] = u[j]
      BY <2>3, <2>6, <2>7
    <3> HIDE DEF m
    <3> QED BY <2>3, <2>5, <3>1, SeqEqual
  <2> QED BY <2>8 DEF v
<1> QED BY <1>3, <1>4

\* The first step of a request.
LEMMA FirstAt ==
    ASSUME FilesInv, NEW r \in Requests, Begin(r)
    PROVE  task'[r] # None => task'[r].at \in {"open", "tree", "file", "serve", "lookup", "item"}
<1>1. PICK q \in Asks : \/ BeginUpload(r, q) \/ BeginCopy(r, q) \/ BeginMkdir(r, q)
                        \/ BeginItems(r, q) \/ BeginDownload(r, q) \/ BeginList(r, q)
  BY DEF Begin
<1>2. \/ \E at \in {"open", "tree", "file", "serve", "lookup"} : Go(r, Step(at))
      \/ Turn(r, Executed(q.ops))
      \/ \E result : End(r, result)
  <2>1. CASE BeginCopy(r, q)
    <3>1. \E at \in {"tree", "file"} : Go(r, Step(at))
      BY <2>1 DEF BeginCopy
    <3> QED BY <3>1
  <2>2. CASE BeginUpload(r, q)
    BY <2>2 DEF BeginUpload
  <2>3. CASE BeginMkdir(r, q) \/ BeginList(r, q)
    BY <2>3 DEF BeginMkdir, BeginList
  <2>4. CASE BeginItems(r, q) \/ BeginDownload(r, q)
    BY <2>4 DEF BeginItems, BeginDownload
  <2> QED BY <1>1, <2>1, <2>2, <2>3, <2>4
<1> QED BY <1>2, GoPasses, StepAt, TurnPasses, EndPasses

\* Who does not download has no body.
LEMMA BodyElse ==
    ASSUME FilesInv, DiskInv, NEW r \in Requests,
           Begin(r) \/ (Run(r) /\ ~Serve(r) /\ ~StreamOpen(r) /\ ~Stream(r)), BodyGoes(r)
    PROVE  BodyGoes(r)'
<1>1. body[r] = None /\ UNCHANGED body /\ ~At(r, "stream")'
  <2>1. CASE Begin(r)
    <3>1. asked[r] = None /\ UNCHANGED body
      BY <2>1 DEF Begin, BeginUpload, BeginCopy, BeginMkdir, BeginItems, BeginDownload, BeginList,
         told
    <3>2. body[r] = None
      BY <3>1 DEF BodyGoes
    <3> QED BY <2>1, <3>1, <3>2, FirstAt DEF At
  <2>2. CASE Run(r) /\ ~Serve(r) /\ ~StreamOpen(r) /\ ~Stream(r)
    <3>1. /\ task[r] # None /\ asked[r] # None
          /\ StepFits(asked[r], task[r], Len(results[r]), body[r])
      BY <2>2, OwnStep
    <3>2. asked[r].kind # "download" /\ UNCHANGED <<asked, body>>
      BY <2>2, <3>1 DEF StepFits, Run, Open, Write, Discard, CopyTree, CopyFile, CopyOpen,
         CopyBlock, CopyEnd, Move, Delete, Unlink, RmtreeScan, Rmtree, Lookup, Scandir, Store,
         At, told
    <3>3. StepFits(asked'[r], task'[r], Len(results'[r]), body'[r])
      BY <2>2, StepActs DEF Acts, Stepped
    <3>4. ~At(r, "stream")'
      BY <3>2, <3>3 DEF StepFits, At
    <3> QED BY <3>2, <3>4 DEF BodyGoes
  <2> QED BY <2>1, <2>2
<1> QED BY <1>1 DEF BodyGoes, BodyFits

\* The headers tell of the file as it is.
LEMMA BodyServes ==
    ASSUME FilesInv, DiskInv, NEW r \in Requests, Serve(r), BodyGoes(r)
    PROVE  BodyGoes(r)'
<1> DEFINE p == asked[r].path
           range == asked[r].range
           c == content[fs[p]]
           b == IF range = None THEN <<0, Len(c) - 1>> ELSE Bounds(range, Len(c))
           x == [head |-> SubSeq(c, b[1] + 1, b[2] + 1), sent |-> <<>>]
           step == [Step("stream") EXCEPT !.i = b[1]]
<1>1. Run(r)
  BY DEF Run
<1>2. /\ task[r] # None /\ task[r].at = "serve" /\ asked[r] # None /\ asked[r] \in Asks
      /\ UNCHANGED <<fs, content, asked>> /\ outcome[r] = "none"
      /\ StepFits(asked[r], task[r], Len(results[r]), body[r])
  BY <1>1, OwnStep DEF Serve, At, disk
<1>3. /\ asked[r].kind = "download" /\ p \in Paths /\ range \in (Offset \X Offset) \cup {None}
      /\ body[r] = None
  BY <1>2, AskFields DEF StepFits, BodyGoes
<1>4. CASE End(r, "refused") /\ UNCHANGED body
  <2>1. task'[r] = None /\ outcome'[r] = "refused" /\ body'[r] = None
    BY <1>3, <1>4, EndPasses
  <2> QED BY <2>1 DEF BodyGoes, BodyFits, At
<1>5. CASE IsFile(p) /\ b # None /\ body' = [body EXCEPT ![r] = x] /\ Go(r, step)
  <2>1. c \in Seq(Blocks) /\ Len(c) \in 0..Limit + 1
    BY <1>5, LenProperties, FilesAssumption DEF FilesInv, TypeOK, IsFile
  <2> DEFINE n == Len(c)
  <2>2. /\ b[1] = First(range, n) - 1 /\ b[2] = Final(range, n) - 1
        /\ First(range, n) \in Nat \ {0} /\ Final(range, n) \in Nat
        /\ First(range, n) - 1 <= Final(range, n) /\ Final(range, n) <= n
    <3> HIDE DEF c
    <3>1. CASE range = None
      <4>1. First(range, n) = 1 /\ Final(range, n) = n
        BY <3>1 DEF First, Final
      <4>2. b[1] = 0 /\ b[2] = n - 1
        BY <3>1
      <4> HIDE DEF b, n
      <4>3. n \in Nat
        BY <2>1 DEF n
      <4> QED BY <4>1, <4>2, <4>3
    <3>2. CASE range # None
      <4>1. b = Bounds(range, n) /\ range \in Offset \X Offset
        BY <1>3, <3>2
      <4> HIDE DEF b, n
      <4>2. n \in 0..Limit + 1 /\ n \in Nat
        BY <2>1, FilesAssumption DEF n
      <4>3. /\ b[1] = First(range, n) - 1 /\ b[2] = Final(range, n) - 1
            /\ First(range, n) \in 1..n /\ Final(range, n) \in First(range, n)..n
        BY <1>5, <4>1, <4>2, BoundsAre
      <4> QED BY <4>2, <4>3
    <3> QED BY <3>1, <3>2
  <2> DEFINE lo == First(range, n)
             hi == Final(range, n)
  <2> HIDE DEF c, b
  <2>3. x = [head |-> SubSeq(c, lo, hi), sent |-> <<>>] /\ b[1] = lo - 1
    <3>1. b[1] + 1 = lo /\ b[2] + 1 = hi
      BY <2>2
    <3> QED BY <2>2, <3>1
  <2>4. step.at = "stream" /\ step.node = None /\ step.i = lo - 1
    BY <2>3 DEF Step
  <2>5. x.head = SubSeq(c, lo, hi) /\ x.sent = <<>>
    BY <2>3
  <2> HIDE DEF x, step
  <2>6. task'[r] = step /\ outcome'[r] = "none" /\ body'[r] = x
    <3>1. DOMAIN body = Requests
      BY DEF FilesInv, TypeOK
    <3> QED BY <1>2, <1>5, <3>1, GoPasses
  <2>7. SubSeq(c, lo, lo - 1) = <<>>
    <3> HIDE DEF lo
    <3>1. lo \in Nat \ {0}
      BY <2>2 DEF lo
    <3>2. SubSeq(c, lo, lo - 1) \in Seq(Blocks) /\ Len(SubSeq(c, lo, lo - 1)) = 0
      <4>1. lo - 1 \in Int /\ lo \in Int /\ \A i \in lo..lo - 1 : c[i] \in Blocks
        BY <3>1
      <4>2. SubSeq(c, lo, lo - 1) \in Seq(Blocks)
        BY <4>1, SubSeqProperties
      <4>3. Len(SubSeq(c, lo, lo - 1)) = IF lo <= lo - 1 THEN lo - 1 - lo + 1 ELSE 0
        BY <4>1, SubSeqProperties
      <4> QED BY <3>1, <4>2, <4>3
    <3> QED BY <3>2, EmptySeq
  <2>8. BodyFits(r)'
    <3>1. c = content'[fs'[p]] /\ asked'[r] = asked[r] /\ IsFile(p)'
      BY <1>2, <1>5 DEF c, IsFile
    <3>2. /\ lo \in Nat \ {0} /\ lo - 1 <= task'[r].i /\ task'[r].i <= hi /\ hi <= n
          /\ body'[r].head = SubSeq(c, lo, hi) /\ body'[r].sent = SubSeq(c, lo, task'[r].i)
      <4>1. lo \in Nat \ {0} /\ hi \in Nat /\ lo - 1 <= hi /\ hi <= n
        BY <2>2
      <4>2. task'[r].i = lo - 1
        BY <2>4, <2>6
      <4>3. body'[r].head = SubSeq(c, lo, hi) /\ body'[r].sent = SubSeq(c, lo, lo - 1)
        BY <2>5, <2>6, <2>7
      <4> HIDE DEF lo, hi, n
      <4>4. lo - 1 <= task'[r].i /\ task'[r].i <= hi
        BY <4>1, <4>2
      <4> QED BY <4>1, <4>2, <4>3, <4>4
    <3>3. task'[r].node = None /\ outcome'[r] = "none"
      BY <2>4, <2>6
    <3> HIDE DEF p
    <3> QED BY <3>1, <3>2, <3>3 DEF BodyFits, p
  <2> QED BY <1>2, <1>3, <2>4, <2>6, <2>8 DEF BodyGoes
<1> QED BY <1>4, <1>5 DEF Serve

\* The file that is opened is that one.
LEMMA BodyOpens ==
    ASSUME FilesInv, DiskInv, NEW r \in Requests, StreamOpen(r), BodyGoes(r)
    PROVE  BodyGoes(r)'
<1> DEFINE p == asked[r].path
           step == [task[r] EXCEPT !.node = fs[p]]
<1>1. Run(r)
  BY DEF Run
<1>2. /\ task[r] # None /\ task[r].at = "stream" /\ asked[r] # None /\ task[r] \in Tasks
      /\ UNCHANGED <<fs, content, asked, body>> /\ outcome[r] = "none"
      /\ StepFits(asked[r], task[r], Len(results[r]), body[r])
      /\ Undisturbed(r)' => Undisturbed(r)
  BY <1>1, OwnStep DEF StreamOpen, At, disk, told
<1>3. asked[r].kind = "download"
  BY <1>2 DEF StepFits
<1>4. CASE End(r, "failed")
  <2>1. task'[r] = None /\ outcome'[r] = "failed"
    BY <1>4, EndPasses
  <2> QED BY <1>2, <1>3, <2>1 DEF BodyGoes, BodyFits, At
<1>5. CASE IsFile(p) /\ Go(r, step)
  <2>1. step.at = "stream" /\ step.node = fs[p] /\ step.i = task[r].i
    BY <1>2 DEF Tasks
  <2> HIDE DEF step
  <2>2. task'[r] = step /\ outcome'[r] = "none"
    BY <1>2, <1>5, GoPasses
  <2>3. ASSUME Undisturbed(r)'
        PROVE  BodyFits(r)'
    <3>1. BodyFits(r)
      BY <1>2, <1>3, <2>3 DEF BodyGoes
    <3> QED BY <1>2, <2>1, <2>2, <3>1 DEF BodyFits, At, IsFile
  <2> QED BY <1>2, <1>3, <2>1, <2>2, <2>3 DEF BodyGoes
<1> QED BY <1>4, <1>5 DEF StreamOpen

\* Each block that is sent comes after those before it.
LEMMA BodyStreams ==
    ASSUME FilesInv, DiskInv, NEW r \in Requests, Stream(r), BodyGoes(r)
    PROVE  BodyGoes(r)'
<1> DEFINE p == asked[r].path
           range == asked[r].range
           c == content[fs[p]]
           n == Len(c)
           i == task[r].i
           a == First(range, n)
           b == Final(range, n)
           f == content[task[r].node]
           step == [task[r] EXCEPT !.i = i + 1]
<1>1. Run(r)
  BY DEF Run
<1>2. /\ task[r] # None /\ task[r].at = "stream" /\ task[r].node # None
      /\ asked[r] # None /\ task[r] \in Tasks
      /\ UNCHANGED <<fs, content, asked>> /\ outcome[r] = "none"
      /\ StepFits(asked[r], task[r], Len(results[r]), body[r])
      /\ Undisturbed(r)' => Undisturbed(r)
  BY <1>1, OwnStep DEF Stream, At, disk
<1>3. asked[r].kind = "download" /\ body[r] \in [head : Seq(Blocks), sent : Seq(Blocks)]
  BY <1>2 DEF StepFits
\* An undisturbed one reads the file at its path.
<1>4. ASSUME Undisturbed(r)'
      PROVE  /\ IsFile(p) /\ task[r].node = fs[p] /\ c \in Seq(Blocks)
             /\ a \in Nat \ {0} /\ i \in Nat /\ b \in Nat /\ n \in Nat
             /\ a - 1 <= i /\ i <= b /\ b <= n
             /\ body[r].head = SubSeq(c, a, b) /\ body[r].sent = SubSeq(c, a, i)
             /\ Len(SubSeq(c, a, i)) = i - a + 1 /\ Len(SubSeq(c, a, b)) = b - a + 1
             /\ i < n => Append(SubSeq(c, a, i), c[i + 1]) = SubSeq(c, a, i + 1)
  <2>1. BodyFits(r) /\ At(r, "stream")
    BY <1>2, <1>3, <1>4 DEF BodyGoes, At
  <2>2. /\ IsFile(p) /\ task[r].node = fs[p] /\ a \in Nat \ {0} /\ a - 1 <= i /\ i <= b /\ b <= n
        /\ body[r].head = SubSeq(c, a, b) /\ body[r].sent = SubSeq(c, a, i)
    BY <1>2, <2>1 DEF BodyFits
  <2>3. c \in Seq(Blocks) /\ n \in Nat
    BY <2>2, LenProperties DEF IsFile, FilesInv, TypeOK
  <2>4. i \in Nat
    BY <1>2, FilesAssumption DEF Tasks
  <2>5. a \in Int /\ b \in Int
    <3>1. asked[r] \in Asks
      BY <1>1, OwnStep
    <3>2. range \in (Offset \X Offset) \cup {None}
      BY <1>3, <3>1, AskFields
    <3>3. range = None \/ (range[1] \in Int \cup {None} /\ range[2] \in Int \cup {None})
      BY <3>2, FilesAssumption DEF Offset
    <3> HIDE DEF range, n
    <3>4. b \in Int
      BY <2>3, <3>3 DEF Final
    <3> QED BY <2>2, <3>4
  <2> HIDE DEF a, b, c, i, n
  <2>6. a \in Nat \ {0} /\ b \in Nat
    BY <2>2, <2>4, <2>5
  <2>7. a - 1 <= b /\ i <= n /\ n = Len(c)
    BY <2>2, <2>3, <2>4, <2>6 DEF n
  <2>8. /\ Len(SubSeq(c, a, i)) = i - a + 1
        /\ i < n => Append(SubSeq(c, a, i), c[i + 1]) = SubSeq(c, a, i + 1)
    BY <2>2, <2>3, <2>4, <2>6, <2>7, SubSeqNext
  <2>9. Len(SubSeq(c, a, b)) = b - a + 1
    BY <2>2, <2>3, <2>6, <2>7, SubSeqNext
  <2> QED BY <2>2, <2>3, <2>4, <2>6, <2>8, <2>9
<1>5. CASE End(r, "failed") /\ UNCHANGED body
  <2>1. task'[r] = None /\ outcome'[r] = "failed" /\ body'[r] = body[r]
    BY <1>5, EndPasses
  <2> QED BY <1>2, <1>3, <2>1 DEF BodyGoes, BodyFits, At
<1>6. CASE End(r, "ok") /\ Len(body[r].sent) = Len(body[r].head) /\ UNCHANGED body
  <2>1. task'[r] = None /\ outcome'[r] = "ok" /\ body'[r] = body[r]
    BY <1>6, EndPasses
  <2>2. ASSUME Undisturbed(r)'
        PROVE  BodyFits(r)'
    <3> HIDE DEF a, b, c, i, n
    <3>1. i = b
      BY <1>4, <1>6, <2>2
    <3>2. IsFile(p) /\ b <= n /\ body'[r].sent = SubSeq(c, a, b)
      BY <1>4, <2>1, <2>2, <3>1
    <3>3. c = content'[fs'[p]] /\ asked'[r] = asked[r] /\ IsFile(p)'
      BY <1>2, <3>2 DEF c, IsFile
    <3> QED BY <2>1, <3>2, <3>3 DEF BodyFits, At, a, b, n
  <2> QED BY <1>2, <1>3, <1>6, <2>1, <2>2 DEF BodyGoes
<1>7. CASE /\ i + 1 <= Len(f) /\ Len(body[r].sent) < Len(body[r].head)
           /\ body' = [body EXCEPT ![r].sent = Append(@, f[i + 1])] /\ Go(r, step)
  <2>1. step.at = "stream" /\ step.node = task[r].node /\ step.i = i + 1
    BY <1>2 DEF Tasks
  <2> HIDE DEF step
  <2>2. task'[r] = step /\ outcome'[r] = "none"
    BY <1>2, <1>7, GoPasses
  <2>3. body'[r].head = body[r].head /\ body'[r].sent = Append(body[r].sent, f[i + 1])
    <3>1. DOMAIN body = Requests
      BY DEF FilesInv, TypeOK
    <3> QED BY <1>3, <1>7, <3>1
  <2>4. ASSUME Undisturbed(r)'
        PROVE  BodyFits(r)'
    <3> HIDE DEF a, b, c, i, n
    <3>1. f = c
      BY <1>4, <2>4 DEF c
    <3> HIDE DEF f
    <3>2. i + 1 <= b /\ a - 1 <= i + 1 /\ i < n
      <4>1. Len(body[r].sent) = i - a + 1 /\ Len(body[r].head) = b - a + 1
        BY <1>4, <2>4
      <4>2. i - a + 1 < b - a + 1
        BY <1>7, <4>1
      <4>3. i \in Nat /\ a \in Nat /\ b \in Nat /\ n \in Nat /\ a - 1 <= i /\ b <= n
        BY <1>4, <2>4
      <4> QED BY <4>2, <4>3
    <3>3. body'[r].sent = SubSeq(c, a, i + 1)
      BY <1>4, <2>3, <2>4, <3>1, <3>2
    <3>4. c = content'[fs'[p]] /\ asked'[r] = asked[r] /\ IsFile(p)' /\ task[r].node = fs'[p]
      BY <1>2, <1>4, <2>4 DEF c, IsFile
    <3>5. /\ a \in Nat \ {0} /\ b <= n /\ body'[r].head = SubSeq(c, a, b)
      BY <1>4, <2>3, <2>4
    <3> QED BY <2>1, <2>2, <3>2, <3>3, <3>4, <3>5 DEF BodyFits, At, a, b, n
  <2> QED BY <1>2, <1>3, <2>1, <2>2, <2>4 DEF BodyGoes
<1> QED BY <1>5, <1>6, <1>7 DEF Stream

\* Others leave it so.
LEMMA BodyAlone ==
    ASSUME FilesInv, DiskInv, [Next]_vars, NEW r \in Requests, ~Begin(r), ~Run(r), BodyGoes(r)
    PROVE  BodyGoes(r)'
<1> DEFINE p == asked[r].path
<1>1. /\ asked'[r] = asked[r] /\ body'[r] = body[r]
      /\ \/ task'[r] = task[r] /\ outcome'[r] = outcome[r]
         \/ task'[r] = None /\ outcome'[r] = "failed"
  BY OtherStep
<1>2. ASSUME asked[r] # None, asked[r].kind = "download", Undisturbed(r)'
      PROVE  BodyFits(r)'
  <2>1. asked[r] \in Asks
    BY <1>2 DEF FilesInv, TypeOK
  <2>2. p \in Paths /\ Reach(Named(asked[r]), p)
    BY <1>2, <2>1, AskFields, NamedIs, PathIs, PrefixOrder DEF Reach
  <2>3. Undisturbed(r) /\ fs'[p] = fs[p] /\ (fs[p] \in Nodes => content'[fs[p]] = content[fs[p]])
    BY <1>2, <2>2, LeftAlone
  <2>4. BodyFits(r)
    BY <1>2, <2>3 DEF BodyGoes
  <2> QED BY <1>1, <2>3, <2>4 DEF BodyFits, At, IsFile
<1> QED BY <1>1, <1>2 DEF BodyGoes

-----------------------------------------------------------------------------
(* Items.                                                                  *)

\* The items that a request has tried so far, the place of one's answer, and that what one took
\* away has stayed away.
Tried(r)   == {i \in Executed(asked[r].ops) : task[r] # None => i < task[r].i}
Place(ops, i) == Cardinality({j \in Executed(ops) : j <= i})
Gone(r, i) == LET ops == asked[r].ops
              IN  results[r][Place(ops, i)].ok /\ ~Back(ops, i) =>
                      \A p \in Paths : IsPrefix(ops[i].path, p) => fs[p] = None
ItemsGo(r) ==
    asked[r] # None /\ asked[r].kind = "items" /\ (task[r] # None \/ outcome[r] = "ok") =>
        /\ Len(results[r]) = Cardinality(Tried(r))
        /\ \A k \in DOMAIN results[r] : results[r][k].item = k
        /\ Undisturbed(r) => \A i \in Tried(r) : Gone(r, i)

\* The place of an operation comes after those of the ones before it.
LEMMA Places ==
    ASSUME NEW q \in Asks, q.kind = "items", NEW i \in Executed(q.ops)
    PROVE  LET S == {j \in Executed(q.ops) : j < i}
           IN  /\ Cardinality(S) \in Nat /\ i \in 1..2
               /\ Cardinality(S \cup {i}) = Cardinality(S) + 1
               /\ Place(q.ops, i) = Cardinality(S) + 1
               /\ \A j \in S : Place(q.ops, j) \in 1..Cardinality(S)
<1> DEFINE E == Executed(q.ops)
           S == {j \in E : j < i}
           Upto(j) == {k \in E : k <= j}
<1>1. E \subseteq 1..2 /\ IsFiniteSet(1..2)
  <2>1. E \subseteq 1..2
    BY AskFields DEF Executed
  <2>2. IsFiniteSet(1..2)
    <3>1. \A k \in 1..2 : k \in Nat /\ k <= 2
      OBVIOUS
    <3>2. 1..2 \in SUBSET Nat /\ 2 \in Nat
      BY <3>1
    <3> DEFINE T == 1..2
    <3> HIDE DEF T
    <3>3. T \in SUBSET Nat /\ \A k \in T : k <= 2
      BY <3>1, <3>2 DEF T
    <3>4. IsFiniteSet(T)
      BY <3>2, <3>3, FS_BoundedSetOfNaturals
    <3> QED BY <3>4 DEF T
  <2> QED BY <2>1, <2>2
<1>2. \A T \in SUBSET E : IsFiniteSet(T) /\ Cardinality(T) \in Nat
  <2> HIDE DEF E
  <2>1. IsFiniteSet(E)
    BY <1>1, FS_Subset
  <2>2. \A T \in SUBSET E : IsFiniteSet(T)
    BY <2>1, FS_Subset
  <2> QED BY <2>2, FS_CardinalityType
<1> HIDE DEF E
<1>3. i \in E
  BY DEF E
<1>4. \A j \in E : Place(q.ops, j) = Cardinality(Upto(j))
  BY DEF Place, E
<1>5. S \cup {i} = Upto(i) /\ i \notin S
  <2>1. \A k \in E : k <= i <=> k < i \/ k = i
    BY <1>1, <1>3
  <2>2. ~(i < i)
    BY <1>1, <1>3
  <2> QED BY <1>3, <2>1, <2>2
<1>6. IsFiniteSet(S) /\ Cardinality(S) \in Nat
  BY <1>2
<1>7. Cardinality(S \cup {i}) = Cardinality(S) + 1
  BY <1>5, <1>6, FS_AddElement
<1>8. ASSUME NEW j \in S
      PROVE  Place(q.ops, j) \in 1..Cardinality(S)
  <2>1. j \in E /\ Upto(j) \subseteq S /\ j \in Upto(j)
    <3>1. j \in E /\ j < i /\ j <= j
      BY <1>1, <1>3, <1>8
    <3>2. \A k \in E : k <= j => k < i
      BY <1>1, <1>3, <3>1
    <3> QED BY <3>1, <3>2
  <2>2. IsFiniteSet(Upto(j)) /\ Cardinality(Upto(j)) \in Nat
    BY <1>2
  <2>3. Cardinality(Upto(j)) <= Cardinality(S)
    <3> HIDE DEF S, Upto
    <3> QED BY <1>6, <2>1, FS_Subset
  <2>4. Cardinality(Upto(j)) # 0
    <3> HIDE DEF Upto
    <3> QED BY <2>1, <2>2, FS_EmptySet
  <2>5. Place(q.ops, j) = Cardinality(Upto(j))
    BY <1>4, <2>1
  <2> HIDE DEF Upto, S
  <2> QED BY <1>6, <2>2, <2>3, <2>4, <2>5
<1>9. Place(q.ops, i) = Cardinality(S) + 1
  BY <1>3, <1>4, <1>5, <1>7
<1>10. i \in 1..2
  BY <1>1, <1>3
<1> QED BY <1>6, <1>7, <1>8, <1>9, <1>10 DEF E

\* The end of an item that puts something only at and below its target, and takes away what it
\* says.
LEMMA ItemEnds ==
    ASSUME FilesInv, DiskInv, NEW r \in Requests, Run(r), ItemsGo(r),
           task[r].at \in {"item", "scan", "remove", "rmtree"},
           NEW ok \in BOOLEAN, Item(r, ok),
           \A p \in Paths : \/ fs'[p] \in {None, fs[p]}
                            \/ Current(r).to \in Paths /\ IsPrefix(Current(r).to, p),
           ok /\ ~Back(asked[r].ops, task[r].i) =>
               \A p \in Paths : IsPrefix(Current(r).path, p) => fs'[p] = None
    PROVE  ItemsGo(r)'
<1> DEFINE q == asked[r]
           ops == asked[r].ops
           i == task[r].i
           S == {j \in Executed(ops) : j < i}
           n == Cardinality(S)
<1>1. /\ task[r] # None /\ asked[r] # None /\ q \in Asks /\ asked' = asked
      /\ Undisturbed(r)' => Undisturbed(r)
  BY OwnStep
<1>2. q.kind = "items" /\ i \in Executed(ops)
  BY <1>1, OnItem
<1>3. /\ Tried(r) = S /\ Len(results[r]) = n /\ \A k \in DOMAIN results[r] : results[r][k].item = k
      /\ Undisturbed(r)' => \A j \in S : Gone(r, j)
  <2>1. Tried(r) = S
    BY <1>1 DEF Tried
  <2> QED BY <1>1, <1>2, <2>1 DEF ItemsGo
<1>4. /\ n \in Nat /\ Cardinality(S \cup {i}) = n + 1 /\ Place(ops, i) = n + 1
      /\ \A j \in S : Place(ops, j) \in 1..n
      /\ Executed(ops) \subseteq Int
  <2>1. \A j \in Executed(ops) : j \in 1..2
    BY <1>1, <1>2, Places
  <2>2. /\ n \in Nat /\ Cardinality(S \cup {i}) = n + 1 /\ Place(ops, i) = n + 1
        /\ \A j \in S : Place(ops, j) \in 1..n
    <3>1. q \in Asks /\ q.kind = "items" /\ i \in Executed(q.ops)
      BY <1>1, <1>2
    <3> HIDE DEF q, i
    <3>2. LET T == {j \in Executed(q.ops) : j < i}
          IN  /\ Cardinality(T) \in Nat /\ i \in 1..2
              /\ Cardinality(T \cup {i}) = Cardinality(T) + 1
              /\ Place(q.ops, i) = Cardinality(T) + 1
              /\ \A j \in T : Place(q.ops, j) \in 1..Cardinality(T)
      BY <3>1, Places
    <3> QED BY <3>2 DEF q, i
  <2>3. Executed(ops) \subseteq Int
    BY <2>1
  <2> QED BY <2>2, <2>3
<1>5. /\ Len(results'[r]) = n + 1 /\ results'[r][n + 1].ok = ok
      /\ \A j \in 1..n : results'[r][j] = results[r][j]
      /\ \A k \in DOMAIN results'[r] : results'[r][k].item = k
  <2> DEFINE new == [item |-> Len(results[r]) + 1, ok |-> ok]
  <2>1. results \in [Requests -> Seq(Answer)]
    BY DEF FilesInv, TypeOK
  <2>2. results'[r] = Append(results[r], new)
    BY <2>1 DEF Item
  <2> HIDE DEF n
  <2>3. new.ok = ok /\ new.item = n + 1
    BY <1>3
  <2> HIDE DEF new
  <2>4. results[r] \in Seq(Answer \cup {new}) /\ new \in Answer \cup {new}
    BY <2>1, SeqMonotonic
  <2>5. /\ Len(results'[r]) = n + 1 /\ results'[r][n + 1] = new
        /\ \A j \in 1..n : results'[r][j] = results[r][j]
        /\ DOMAIN results'[r] = 1..n + 1 /\ DOMAIN results[r] = 1..n
    BY <1>3, <2>2, <2>4, AppendProperties, LenProperties
  <2>6. ASSUME NEW k \in 1..n + 1
        PROVE  results'[r][k].item = k
    <3>1. k = n + 1 \/ k \in 1..n
      BY <1>4
    <3> QED BY <1>3, <2>3, <2>5, <3>1
  <2> QED BY <2>3, <2>5, <2>6
<1>6. ASSUME task'[r] # None \/ outcome'[r] = "ok"
      PROVE  Tried(r)' = S \cup {i}
  <2>1. Rest(r) = {j \in Executed(ops) : j > i}
    BY DEF Rest
  <2>2. CASE Turn(r, Rest(r))
    <3>1. PICK k \in Rest(r) : (\A j \in Rest(r) : k <= j) /\ task'[r] = [Step("item") EXCEPT !.i = k]
      BY <2>2, TurnPasses
    <3>2. task'[r].i = k /\ task'[r] # None
      <4>1. k \in Executed(ops) /\ k \in 1..2
        BY <1>1, <1>2, <2>1, <3>1, Places
      <4>2. [Step("item") EXCEPT !.i = k] \in Tasks
        BY <1>1, <1>2, <4>1, TurnStep
      <4>3. [Step("item") EXCEPT !.i = k].i = k
        BY DEF Step
      <4> QED BY <3>1, <4>2, <4>3, TaskAssumption
    <3>3. \A j \in Executed(ops) : j < k <=> j \in S \cup {i}
      <4>1. k \in Int /\ i \in Int /\ k > i /\ \A j \in Executed(ops) : j > i => k <= j
        BY <1>2, <1>4, <2>1, <3>1
      <4> HIDE DEF ops, i
      <4> QED BY <1>4, <4>1 DEF S
    <3> QED BY <1>1, <1>2, <3>2, <3>3 DEF Tried
  <2>3. CASE Rest(r) = {} /\ \E result : End(r, result)
    <3>1. task'[r] = None
      BY <2>3, EndPasses
    <3>2. \A j \in Executed(ops) : j < i \/ j = i
      BY <1>2, <1>4, <2>1, <2>3
    <3> QED BY <1>1, <1>2, <3>1, <3>2 DEF Tried
  <2> QED BY <2>2, <2>3 DEF Item
<1> HIDE DEF n
<1>7. ASSUME Undisturbed(r)', NEW j \in S \cup {i}
      PROVE  Gone(r, j)'
  <2>1. SUFFICES ASSUME results'[r][Place(ops, j)].ok, ~Back(ops, j),
                        NEW p \in Paths, IsPrefix(ops[j].path, p)
                 PROVE  fs'[p] = None
    BY <1>1 DEF Gone
  <2>2. CASE j = i
    <3>1. ok
      BY <1>4, <1>5, <2>1, <2>2
    <3> QED BY <2>1, <2>2, <3>1 DEF Current
  <2>3. CASE j \in S
    <3>1. results[r][Place(ops, j)].ok
      BY <1>4, <1>5, <2>1, <2>3
    <3>2. fs[p] = None
      BY <1>3, <1>7, <2>1, <2>3, <3>1 DEF Gone
    <3>3. ~(Current(r).to \in Paths /\ IsPrefix(Current(r).to, p))
      <4>1. SUFFICES ASSUME Current(r).to \in Paths, IsPrefix(Current(r).to, p)
                     PROVE  FALSE
        OBVIOUS
      <4>2. ops[i].to = Current(r).to /\ ops[i].to # None /\ i >= j
        <5>1. i >= j
          BY <1>2, <1>4, <2>3
        <5> QED BY <4>1, <5>1, Kinds DEF Current
      <4>3. ops[j] \in Operation
        BY <1>1, <1>2, <2>3, AskFields DEF Executed
      <4>4. IsPrefix(ops[i].to, ops[j].path) \/ IsPrefix(ops[j].path, ops[i].to)
        <5>1. ops[j].path \in Seq(Names) /\ ops[i].to \in Seq(Names) /\ p \in Seq(Names)
          BY <4>1, <4>2, <4>3, PathIs DEF Operation
        <5> QED BY <2>1, <4>1, <4>2, <5>1, PrefixOrder
      <4> QED BY <1>2, <2>1, <4>2, <4>4 DEF Back
    <3> QED BY <3>2, <3>3
  <2> QED BY <2>2, <2>3
<1> QED BY <1>1, <1>4, <1>5, <1>6, <1>7 DEF ItemsGo

\* A step within an item, which puts nothing anywhere.
LEMMA ItemGoesOn ==
    ASSUME FilesInv, DiskInv, NEW r \in Requests, Run(r), ItemsGo(r),
           task[r].at \in {"item", "scan", "remove", "rmtree"},
           NEW step \in Tasks, step.i = task[r].i, Go(r, step), UNCHANGED results,
           \A p \in Paths : fs'[p] \in {None, fs[p]}
    PROVE  ItemsGo(r)'
<1>1. /\ task[r] # None /\ asked[r] # None /\ asked[r] \in Asks /\ asked' = asked
      /\ Undisturbed(r)' => Undisturbed(r)
  BY OwnStep
<1>2. asked[r].kind = "items"
  BY <1>1, OnItem
<1>3. task'[r] = step /\ task'[r] # None
  BY GoPasses, TaskAssumption
<1>4. Tried(r)' = Tried(r)
  BY <1>1, <1>3 DEF Tried
<1>5. ASSUME Undisturbed(r)', NEW i \in Tried(r)
      PROVE  Gone(r, i)'
  <2>1. Gone(r, i)
    BY <1>1, <1>2, <1>5 DEF ItemsGo
  <2> QED BY <1>1, <2>1 DEF Gone
<1> QED BY <1>1, <1>2, <1>4, <1>5 DEF ItemsGo

\* A move leaves nothing where it came from, unless it went there itself.
LEMMA MoveTells ==
    ASSUME FilesInv, DiskInv, NEW r \in Requests, Move(r), ItemsGo(r)
    PROVE  ItemsGo(r)'
<1> DEFINE s == Current(r).path
           t == Current(r).to
           i == task[r].i
<1>1. /\ task[r] # None /\ task[r].at = "item" /\ Current(r).op = "move"
      /\ UNCHANGED <<asked, before>>
  BY DEF Move, At
<1>2. /\ IsTree(fs) /\ s \in Paths /\ t \in Paths /\ t # None
      /\ s \in Seq(Names) /\ t \in Seq(Names) /\ i \in Executed(asked[r].ops)
      /\ asked[r] \in Asks /\ asked[r].kind = "items"
  BY <1>1, ItemNames, OnItem, Kinds, PathIs
<1>3. Run(r)
  BY DEF Run
<1>4. CASE UNCHANGED fs /\ Item(r, FALSE)
  BY <1>1, <1>3, <1>4, ItemEnds
<1>5. CASE CanRename(s, t) /\ fs' = Renamed(s, t) /\ Item(r, TRUE)
  <2> HIDE DEF s, t
  <2>1. ASSUME NEW p \in Paths
        PROVE  fs'[p] \in {None, fs[p]} \/ IsPrefix(t, p)
    <3>1. CASE s = t
      <4>1. fs' = Renamed(s, s)
        BY <1>5, <3>1
      <4> QED BY <1>2, <4>1, RenamedSame
    <3>2. CASE s # t
      BY <1>2, <1>5, <3>2, RenamedIs
    <3> QED BY <3>1, <3>2
  <2>2. ASSUME ~Back(asked[r].ops, i), NEW p \in Paths, IsPrefix(s, p)
        PROVE  fs'[p] = None
    <3>1. i >= i
      <4>1. i \in 1..2
        BY <1>2, Places
      <4> HIDE DEF i
      <4> QED BY <4>1
    <3>2. ~IsPrefix(t, s) /\ ~IsPrefix(s, t)
      BY <1>2, <2>2, <3>1 DEF Back, Current, s, t
    <3>3. ~IsPrefix(t, p) /\ s # t
      BY <1>2, <2>2, <3>2, PathIs, PrefixOrder
    <3> QED BY <1>2, <1>5, <2>2, <3>3, Moves
  <2> QED BY <1>1, <1>2, <1>3, <1>5, <2>1, <2>2, ItemEnds DEF s, t
<1> QED BY <1>4, <1>5 DEF Move

\* A deletion that finds nothing is told as failed.
LEMMA DeleteTells ==
    ASSUME FilesInv, DiskInv, NEW r \in Requests, Delete(r), ItemsGo(r)
    PROVE  ItemsGo(r)'
<1>1. task[r] # None /\ task[r].at = "item" /\ UNCHANGED <<fs, asked, before>>
  BY DEF Delete, At, disk
<1>2. Run(r) /\ task[r] \in Tasks
  BY <1>1, ItemNames DEF Run
<1>3. CASE Item(r, FALSE)
  BY <1>1, <1>2, <1>3, ItemEnds
<1>4. CASE UNCHANGED results /\ \E at \in {"scan", "remove"} :
             Go(r, [Step(at) EXCEPT !.i = task[r].i])
  <2>1. PICK at \in {"scan", "remove"} : Go(r, [Step(at) EXCEPT !.i = task[r].i])
    BY <1>4
  <2> DEFINE step == [Step(at) EXCEPT !.i = task[r].i]
  <2>2. Step(at) \in Tasks
    BY StepIsTask DEF Steps
  <2>3. step \in Tasks /\ step.i = task[r].i
    BY <1>2, <2>2 DEF Tasks, Step
  <2> HIDE DEF step
  <2>4. Go(r, step)
    BY <2>1 DEF step
  <2> QED BY <1>1, <1>2, <1>4, <2>3, <2>4, ItemGoesOn
<1> QED BY <1>3, <1>4 DEF Delete

\* Where a file was removed, nothing was below it.
LEMMA UnlinkTells ==
    ASSUME FilesInv, DiskInv, NEW r \in Requests, Unlink(r), ItemsGo(r)
    PROVE  ItemsGo(r)'
<1> DEFINE p == Current(r).path
<1>1. task[r] # None /\ task[r].at = "remove" /\ UNCHANGED <<asked, before>>
  BY DEF Unlink, At
<1>2. IsTree(fs) /\ p \in Paths /\ DOMAIN fs = Paths
  BY <1>1, ItemNames DEF IsTree
<1>3. Run(r)
  BY DEF Run
<1>4. CASE UNCHANGED fs /\ Item(r, FALSE)
  BY <1>1, <1>3, <1>4, ItemEnds
<1>5. CASE IsFile(p) /\ fs' = [fs EXCEPT ![p] = None] /\ Item(r, TRUE)
  <2> HIDE DEF p
  <2>1. fs'[p] = None /\ \A x \in Paths \ {p} : fs'[x] = fs[x]
    BY <1>2, <1>5
  <2>2. \A x \in Paths : IsPrefix(p, x) /\ x # p => fs[x] = None
    BY <1>2, <1>5, Above, Kinds DEF IsFile
  <2>3. \A x \in Paths : IsPrefix(p, x) => fs'[x] = None
    BY <2>1, <2>2
  <2>4. \A x \in Paths : fs'[x] \in {None, fs[x]}
    BY <2>1
  <2> QED BY <1>1, <1>3, <1>5, <2>3, <2>4, ItemEnds DEF p
<1> QED BY <1>4, <1>5 DEF Unlink

\* A folder that is listed is not yet gone.
LEMMA RmtreeScanTells ==
    ASSUME FilesInv, DiskInv, NEW r \in Requests, RmtreeScan(r), ItemsGo(r)
    PROVE  ItemsGo(r)'
<1> DEFINE todo == {<<c, c>> : c \in Children(Current(r).path)}
           step == [task[r] EXCEPT !.at = "rmtree", !.todo = todo]
<1>1. task[r] # None /\ task[r].at = "scan" /\ UNCHANGED <<fs, asked, before>>
  BY DEF RmtreeScan, At, disk
<1>2. Run(r) /\ task[r] \in Tasks
  BY <1>1, ItemNames DEF Run
<1>3. CASE Item(r, FALSE)
  BY <1>1, <1>2, <1>3, ItemEnds
<1>4. CASE UNCHANGED results /\ Go(r, step)
  <2>1. todo \subseteq Paths \X Paths
    BY DEF Children
  <2> HIDE DEF todo
  <2>2. step \in Tasks /\ step.i = task[r].i
    BY <1>2, <2>1 DEF Tasks, Steps
  <2> HIDE DEF step
  <2> QED BY <1>1, <1>2, <1>4, <2>2, ItemGoesOn
<1> QED BY <1>3, <1>4 DEF RmtreeScan

\* A folder that is removed had nothing in it any more.
LEMMA RmtreeTells ==
    ASSUME FilesInv, DiskInv, NEW r \in Requests, Rmtree(r), ItemsGo(r)
    PROVE  ItemsGo(r)'
<1> DEFINE p == Current(r).path
<1>1. task[r] # None /\ task[r].at = "rmtree" /\ UNCHANGED <<asked, before>>
  BY DEF Rmtree, At
<1>2. IsTree(fs) /\ p \in Paths /\ DOMAIN fs = Paths /\ task[r] \in Tasks
  BY <1>1, ItemNames DEF IsTree
<1>3. Run(r)
  BY DEF Run
<1>4. CASE \E e \in task[r].todo : /\ fs' = [fs EXCEPT ![e[1]] = None] /\ UNCHANGED results
                                   /\ Go(r, [task[r] EXCEPT !.todo = @ \ {e}])
  <2>1. PICK e \in task[r].todo : /\ fs' = [fs EXCEPT ![e[1]] = None] /\ UNCHANGED results
                                  /\ Go(r, [task[r] EXCEPT !.todo = @ \ {e}])
    BY <1>4
  <2> DEFINE step == [task[r] EXCEPT !.todo = @ \ {e}]
  <2>2. step \in Tasks /\ step.i = task[r].i
    BY <1>2 DEF Tasks
  <2> HIDE DEF step
  <2>3. Go(r, step) /\ UNCHANGED results
    BY <2>1 DEF step
  <2>4. \A x \in Paths : fs'[x] \in {None, fs[x]}
    BY <1>2, <2>1
  <2> QED BY <1>1, <1>3, <2>2, <2>3, <2>4, ItemGoesOn
<1>5. CASE UNCHANGED fs /\ Item(r, FALSE)
  BY <1>1, <1>3, <1>5, ItemEnds
<1>6. CASE Children(p) = {} /\ fs' = [fs EXCEPT ![p] = None] /\ Item(r, TRUE)
  <2> HIDE DEF p
  <2>1. fs'[p] = None /\ \A x \in Paths \ {p} : fs'[x] = fs[x]
    BY <1>2, <1>6
  <2>2. \A x \in Paths : IsPrefix(p, x) /\ x # p => fs[x] = None
    BY <1>2, <1>6, Above
  <2>3. \A x \in Paths : IsPrefix(p, x) => fs'[x] = None
    BY <2>1, <2>2
  <2>4. \A x \in Paths : fs'[x] \in {None, fs[x]}
    BY <2>1
  <2> QED BY <1>1, <1>3, <1>6, <2>3, <2>4, ItemEnds DEF p
<1> QED BY <1>4, <1>5, <1>6 DEF Rmtree

\* How it begins.
LEMMA ItemsBegin ==
    ASSUME FilesInv, DiskInv, NEW r \in Requests, Begin(r)
    PROVE  ItemsGo(r)'
<1>1. PICK q \in Asks : /\ asked' = [asked EXCEPT ![r] = q]
                        /\ \/ BeginUpload(r, q) \/ BeginCopy(r, q) \/ BeginMkdir(r, q)
                           \/ BeginItems(r, q) \/ BeginDownload(r, q) \/ BeginList(r, q)
  BY DEF Begin
<1>2. asked'[r] = q /\ asked[r] = None
  BY <1>1, NowAsking DEF Begin
<1>3. SUFFICES ASSUME q.kind = "items"
               PROVE  ItemsGo(r)'
  BY <1>2 DEF ItemsGo
<1>4. BeginItems(r, q)
  BY <1>1, <1>3 DEF BeginUpload, BeginCopy, BeginMkdir, BeginDownload, BeginList
<1>5. Len(results'[r]) = 0
  BY <1>2, <1>4 DEF FilesInv, Fresh, BeginItems, told
<1>6. Tried(r)' = {}
  <2>1. CASE Turn(r, Executed(q.ops))
    <3>1. PICK i \in Executed(q.ops) :
            (\A j \in Executed(q.ops) : i <= j) /\ task'[r] = [Step("item") EXCEPT !.i = i]
      BY <2>1, TurnPasses
    <3>2. i \in 1..2 /\ \A j \in Executed(q.ops) : j \in 1..2
      BY <1>3, Places
    <3>3. [Step("item") EXCEPT !.i = i].i = i
      BY DEF Step
    <3>4. 0 < i
      BY <3>2
    <3>5. [Step("item") EXCEPT !.i = i] \in Tasks
      BY <1>3, <3>4, TurnStep
    <3>6. task'[r] # None /\ task'[r].i = i
      BY <3>1, <3>3, <3>5, TaskAssumption
    <3>7. \A j \in Executed(q.ops) : ~(j < i)
      BY <3>1, <3>2
    <3> QED BY <1>2, <3>6, <3>7 DEF Tried
  <2>2. CASE Executed(q.ops) = {}
    BY <1>2, <2>2 DEF Tried
  <2> QED BY <1>4, <2>1, <2>2 DEF BeginItems
<1> QED BY <1>5, <1>6, FS_EmptySet DEF ItemsGo

\* No step of a bulk request tells anything else.
LEMMA ItemsSteps ==
    ASSUME FilesInv, DiskInv, NEW r \in Requests, Begin(r) \/ Run(r), ItemsGo(r)
    PROVE  ItemsGo(r)'
<1>1. CASE Run(r) /\ asked[r].kind # "items"
  <2>1. asked' = asked
    BY <1>1, OwnStep
  <2> QED BY <1>1, <2>1 DEF ItemsGo
<1>2. CASE Run(r) /\ asked[r].kind = "items"
  <2>1. task[r] # None /\ StepFits(asked[r], task[r], Len(results[r]), body[r])
    BY <1>2, OwnStep
  <2>2. Move(r) \/ Delete(r) \/ Unlink(r) \/ RmtreeScan(r) \/ Rmtree(r)
    BY <1>2, <2>1 DEF StepFits, Run, Open, Write, Discard, CopyTree, CopyFile, CopyOpen,
       CopyBlock, CopyEnd, Serve, StreamOpen, Stream, Lookup, Scandir, Store, At
  <2> QED BY <2>2, MoveTells, DeleteTells, UnlinkTells, RmtreeScanTells, RmtreeTells
<1> QED BY <1>1, <1>2, ItemsBegin

\* Others leave it so.
LEMMA ItemsAlone ==
    ASSUME FilesInv, DiskInv, [Next]_vars, NEW r \in Requests, ~Begin(r), ~Run(r), ItemsGo(r)
    PROVE  ItemsGo(r)'
<1>1. /\ asked'[r] = asked[r] /\ results'[r] = results[r]
      /\ \/ task'[r] = task[r] /\ outcome'[r] = outcome[r]
         \/ task'[r] = None /\ outcome'[r] = "failed"
  BY OtherStep
<1>2. SUFFICES ASSUME asked[r] # None, asked[r].kind = "items", task'[r] = task[r],
                      outcome'[r] = outcome[r], task[r] # None \/ outcome[r] = "ok"
               PROVE  ItemsGo(r)'
  BY <1>1 DEF ItemsGo
<1>3. asked[r] \in Asks
  BY <1>2 DEF FilesInv, TypeOK
<1>4. Tried(r)' = Tried(r)
  BY <1>1, <1>2 DEF Tried
<1>5. ASSUME Undisturbed(r)', NEW i \in Tried(r)
      PROVE  Gone(r, i)'
  <2>1. Gone(r, i) /\ i \in DOMAIN asked[r].ops
    BY <1>2, <1>5, LeftAlone DEF ItemsGo, Tried, Executed
  <2>2. asked[r].ops[i].path \in Named(asked[r])
    BY <1>2, <1>3, <2>1, NamedIs
  <2>3. \A p \in Paths : IsPrefix(asked[r].ops[i].path, p) => fs'[p] = fs[p]
    BY <1>2, <1>5, <2>2, LeftAlone DEF Reach
  <2> QED BY <1>1, <2>1, <2>3 DEF Gone
<1> QED BY <1>1, <1>2, <1>4, <1>5 DEF ItemsGo

-----------------------------------------------------------------------------
(* Copies.                                                                 *)

\* What a copy is to be like: its source and all that is below, but for the copy itself.
Part(q) == {p \in Paths : IsPrefix(q.path, p) /\ ~IsPrefix(Goal(q), p)}

\* The file at p is being copied to x, and its first blocks have been.
InCopy(r, p, x) ==
    /\ x \in Paths /\ task[r].node # None /\ task[r].from = fs[p] /\ task[r].node = fs[x]
    /\ fs[p] # fs[x] /\ task[r].i <= Len(content[fs[p]])
    /\ content[fs[x]] = SubSeq(content[fs[p]], 1, task[r].i)

\* An undisturbed copy, in which nothing has failed so far, has copied each part, or has it
\* still to do, or is at it.
CopyFits(r) ==
    LET q == asked[r]   s == q.path   t == Goal(q)
    IN  /\ At(r, "file") => fs[s] # Dir
        /\ (At(r, "copy") /\ ~task[r].bad) \/ outcome[r] = "ok" =>
              /\ t \in Paths
              /\ \A p \in Part(q) :
                    \/ Like(p, Image(p, s, t))
                    \/ /\ At(r, "copy")
                       /\ <<p, Image(p, s, t)>> \in task[r].todo \/ InCopy(r, p, Image(p, s, t))
        /\ At(r, "copy") /\ ~task[r].bad =>
              /\ task[r].node = None => task[r].i = 0
              /\ task[r].node # None => \E p \in Part(q) : InCopy(r, p, Image(p, s, t))
              /\ \A e \in task[r].todo :
                    /\ e[2] = Image(e[1], s, t)
                    /\ IsPrefix(t, e[1]) => task[r].todo = {e} /\ (e[1] = e[2] \/ fs[e[1]] = None)
CopyGoes(r) == asked[r] # None /\ asked[r].kind = "copy" /\ Undisturbed(r) => CopyFits(r)

\* Where a copy goes is at or below its target, and stays so while folders stay folders.
LEMMA GoalIs ==
    ASSUME IsTree(fs), NEW q \in Asks, q.kind = "copy"
    PROVE  /\ Goal(q) \in Paths => IsPrefix(q.to, Goal(q)) /\ Goal(q) \in Seq(Names)
           /\ Goal(q) \in Paths /\ fs[q.path] # Dir =>
                 \A x \in Paths : IsPrefix(Goal(q), x) /\ x # Goal(q) => fs[x] = None
<1>1. q.path \in Paths /\ q.to \in Paths /\ IsPrefix(q.to, q.to)
  BY CopyNames
<1>2. ASSUME Goal(q) \in Paths
      PROVE  IsPrefix(q.to, Goal(q)) /\ Goal(q) \in Seq(Names)
  <2>1. Goal(q) \in {q.to, Append(q.to, Last(q.path))}
    BY DEF Goal
  <2> QED BY <1>1, <1>2, <2>1, AppendBelow, PathIs
<1>3. ASSUME Goal(q) \in Paths, fs[q.path] # Dir, NEW x \in Paths, IsPrefix(Goal(q), x),
             x # Goal(q), fs[x] # None
      PROVE  FALSE
  <2>1. fs[Goal(q)] = Dir /\ Len(Goal(q)) = 1
    BY <1>3, Above, UnderIs
  <2>2. fs[q.to] = Dir
    BY <1>3, <2>1 DEF Goal
  <2>3. Goal(q) = Append(q.to, Last(q.path))
    BY <1>3, <2>2 DEF Goal
  <2>4. IsPrefix(q.to, Goal(q)) /\ Goal(q) # q.to
    BY <1>1, <1>3, <2>3, AppendBelow
  <2>5. Len(Goal(q)) = 2
    BY <1>1, <1>3, <2>4, UnderIs
  <2> QED BY <2>1, <2>5
<1> QED BY <1>2, <1>3

\* It stays the same goal, and its parts the same, while its ends are folders or not as before.
LEMMA GoalStays ==
    ASSUME NEW q, fs'[q.path] = Dir <=> fs[q.path] = Dir, fs'[q.to] = Dir <=> fs[q.to] = Dir
    PROVE  Goal(q)' = Goal(q) /\ Part(q)' = Part(q)
<1>1. Goal(q)' = Goal(q)
  BY DEF Goal
<1> QED BY <1>1 DEF Part

\* What is left as it is stays like what it was like.
LEMMA LikeStays ==
    ASSUME NEW p, NEW x, Like(p, x), fs'[p] = fs[p], x \in Paths => fs'[x] = fs[x],
           fs[p] \in Nodes => content'[fs[p]] = content[fs[p]],
           x \in Paths /\ fs[x] \in Nodes => content'[fs[x]] = content[fs[x]]
    PROVE  Like(p, x)'
  BY DEF Like, IsFile

\* The paths of a copy: where its parts go is below its goal, and each to another place.
LEMMA PartIs ==
    ASSUME IsTree(fs), NEW q \in Asks, q.kind = "copy", Goal(q) \in Paths, NEW p \in Part(q)
    PROVE  /\ p \in Paths /\ IsPrefix(q.path, p) /\ ~IsPrefix(Goal(q), p) /\ Reach(Named(q), p)
           /\ IsPrefix(Goal(q), Image(p, q.path, Goal(q))) /\ p # Image(p, q.path, Goal(q))
           /\ Image(p, q.path, Goal(q)) \in Paths => Reach(Named(q), Image(p, q.path, Goal(q)))
           /\ \A c \in Paths : IsPrefix(q.path, c) /\ Image(c, q.path, Goal(q)) = Image(p, q.path, Goal(q))
                 => c = p
<1>1. q.path \in Paths /\ q.to \in Paths /\ Named(q) = {q.path, q.to}
  BY CopyNames
<1>2. p \in Paths /\ IsPrefix(q.path, p) /\ ~IsPrefix(Goal(q), p)
  BY DEF Part
<1>3. IsPrefix(q.to, Goal(q))
  BY GoalIs
<1> DEFINE t == Goal(q)
           x == Image(p, q.path, t)
<1>4. IsPrefix(t, x) /\ x \in Seq(Names) /\ t \in Seq(Names) /\ q.to \in Seq(Names)
  BY <1>1, <1>2, PathIs, ImageIs
<1>5. \A c \in Paths : IsPrefix(q.path, c) /\ Image(c, q.path, t) = x => c = p
  BY <1>1, <1>2, PathIs, ImagesDiffer
<1> HIDE DEF t, x
<1>6. IsPrefix(q.to, x)
  BY <1>3, <1>4, PrefixOrder DEF t
<1>7. p # x
  BY <1>2, <1>4 DEF t
<1> QED BY <1>1, <1>2, <1>4, <1>5, <1>6, <1>7 DEF Reach, t, x

\* Others leave an undisturbed copy as it is.
LEMMA CopyAlone ==
    ASSUME FilesInv, DiskInv, [Next]_vars, NEW r \in Requests, ~Begin(r), ~Run(r), CopyGoes(r)
    PROVE  CopyGoes(r)'
<1>1. /\ asked'[r] = asked[r]
      /\ \/ task'[r] = task[r] /\ outcome'[r] = outcome[r]
         \/ task'[r] = None /\ outcome'[r] = "failed"
  BY OtherStep
<1>2. SUFFICES ASSUME asked[r] # None, asked[r].kind = "copy", Undisturbed(r)'
               PROVE  CopyFits(r)'
  BY <1>1 DEF CopyGoes
<1>3. asked[r] \in Asks /\ IsTree(fs)
  BY <1>2 DEF FilesInv, TypeOK, DiskInv
<1>4. CopyFits(r)
  BY <1>2, LeftAlone DEF CopyGoes
<1>5. \A x \in Paths : Reach(Named(asked[r]), x) =>
         fs'[x] = fs[x] /\ (fs[x] \in Nodes => content'[fs[x]] = content[fs[x]])
  BY <1>2, LeftAlone
<1>6. PICK q \in Asks : q = asked[r] /\ asked'[r] = q
  BY <1>1, <1>3
<1>7. /\ q.path \in Paths /\ q.to \in Paths /\ Reach(Named(q), q.path) /\ Reach(Named(q), q.to)
      /\ q.kind = "copy"
  BY <1>2, <1>6, CopyNames DEF Reach
<1>8. fs'[q.path] = fs[q.path] /\ fs'[q.to] = fs[q.to]
  BY <1>5, <1>6, <1>7
<1>9. Goal(q)' = Goal(q) /\ Part(q)' = Part(q)
  BY <1>8, GoalStays
<1>10. CASE task'[r] = None /\ outcome'[r] = "failed"
  BY <1>10 DEF CopyFits, At
<1>11. CASE task'[r] = task[r] /\ outcome'[r] = outcome[r]
  <2>1. At(r, "file")' => fs'[q.path] # Dir
    BY <1>4, <1>6, <1>8, <1>11 DEF CopyFits, At
  <2>2. SUFFICES ASSUME (At(r, "copy") /\ ~task[r].bad) \/ outcome[r] = "ok"
                 PROVE  CopyFits(r)'
    BY <1>6, <1>11, <2>1 DEF CopyFits, At
  <2>3. PICK t \in Paths : t = Goal(q)
    BY <1>4, <1>6, <2>2 DEF CopyFits
  <2> DEFINE x(p) == Image(p, q.path, t)
  <2>4. ASSUME NEW p \in Part(q)
        PROVE  /\ Like(p, x(p)) => Like(p, x(p))'
               /\ task[r] # None /\ InCopy(r, p, x(p)) => InCopy(r, p, x(p))'
    <3>1. /\ p \in Paths /\ Reach(Named(q), p) /\ (x(p) \in Paths => Reach(Named(q), x(p)))
      BY <1>3, <1>6, <1>7, <2>3, <2>4, PartIs
    <3>2. PICK y : y = x(p)
      OBVIOUS
    <3>3. fs'[p] = fs[p] /\ (y \in Paths => fs'[y] = fs[y])
      BY <1>5, <1>6, <3>1, <3>2
    <3>4. /\ fs[p] \in Nodes => content'[fs[p]] = content[fs[p]]
          /\ y \in Paths /\ fs[y] \in Nodes => content'[fs[y]] = content[fs[y]]
      BY <1>5, <1>6, <3>1, <3>2
    <3>5. Like(p, y) => Like(p, y)'
      BY <3>3, <3>4, LikeStays
    <3>6. ASSUME task[r] # None, InCopy(r, p, y)
          PROVE  InCopy(r, p, y)'
      <4>1. task[r] \in Tasks
        BY <3>6 DEF FilesInv, TypeOK
      <4>2. StepFits(q, task[r], Len(results[r]), body[r])
        BY <1>6 DEF FilesInv, Placed
      <4>3. fs[y] \in Nodes /\ y \in Paths
        BY <3>6, <4>1 DEF InCopy, Tasks
      <4>4. At(r, "copy")
        BY <1>4, <1>6, <2>2, <3>6 DEF At, DiskInv, EndedIs
      <4>5. fs[p] \in Nodes
        BY <3>6, <4>2, <4>4 DEF InCopy, StepFits, At
      <4> QED BY <1>11, <3>3, <3>4, <3>6, <4>3, <4>5 DEF InCopy
    <3> QED BY <3>2, <3>5, <3>6
  <2>5. \A p \in Part(q) : \/ Like(p, x(p))'
                           \/ /\ At(r, "copy")'
                              /\ <<p, x(p)>> \in task'[r].todo \/ InCopy(r, p, x(p))'
    <3>1. \A p \in Part(q) : \/ Like(p, x(p))
                             \/ /\ At(r, "copy")
                                /\ <<p, x(p)>> \in task[r].todo \/ InCopy(r, p, x(p))
      BY <1>4, <1>6, <2>2, <2>3 DEF CopyFits
    <3> HIDE DEF x
    <3> QED BY <1>11, <2>4, <3>1 DEF At
  <2>6. ASSUME At(r, "copy"), ~task[r].bad
        PROVE  /\ task[r].node = None => task[r].i = 0
               /\ task[r].node # None => \E p \in Part(q) : InCopy(r, p, x(p))'
               /\ \A e \in task[r].todo :
                     /\ e[2] = x(e[1])
                     /\ IsPrefix(t, e[1]) => task[r].todo = {e} /\ (e[1] = e[2] \/ fs'[e[1]] = None)
    <3>1. /\ task[r].node = None => task[r].i = 0
          /\ task[r].node # None => \E p \in Part(q) : InCopy(r, p, x(p))
          /\ \A e \in task[r].todo :
                /\ e[2] = x(e[1])
                /\ IsPrefix(t, e[1]) => task[r].todo = {e} /\ (e[1] = e[2] \/ fs[e[1]] = None)
      BY <1>4, <1>6, <2>3, <2>6 DEF CopyFits
    <3>2. task[r] \in Tasks /\ TodoFits(q, task[r])
      BY <1>6, <2>6 DEF FilesInv, TypeOK, At, DiskInv
    <3>3. \A e \in task[r].todo : fs'[e[1]] = fs[e[1]]
      <4>1. \A e \in task[r].todo : e[1] \in Paths /\ IsPrefix(q.path, e[1])
        BY <2>6, <3>2 DEF Tasks, TodoFits, At
      <4>2. \A e \in task[r].todo : Reach(Named(q), e[1])
        BY <1>7, <4>1, CopyNames DEF Reach
      <4> QED BY <1>5, <1>6, <4>1, <4>2
    <3> HIDE DEF x
    <3>4. task[r] # None
      BY <2>6 DEF At
    <3> QED BY <2>4, <3>1, <3>3, <3>4
  <2>7. Goal(q)' = t
    BY <1>9, <2>3
  <2> QED BY <1>6, <1>9, <1>11, <2>1, <2>5, <2>6, <2>7 DEF CopyFits, At
<1> QED BY <1>1, <1>10, <1>11

\* What a copy is when it acts.
LEMMA CopySelf ==
    ASSUME FilesInv, DiskInv, NEW r \in Requests, Run(r), asked[r].kind = "copy", CopyGoes(r),
           Undisturbed(r)'
    PROVE  /\ task[r] # None /\ task[r] \in Tasks /\ outcome[r] = "none" /\ IsTree(fs)
           /\ asked[r] \in Asks /\ asked'[r] = asked[r]
           /\ StepFits(asked[r], task[r], Len(results[r]), body[r])
           /\ TodoFits(asked[r], task[r]) /\ CopyFits(r)
<1>1. /\ task[r] # None /\ asked[r] # None /\ asked[r] \in Asks /\ UNCHANGED <<asked, before>>
      /\ outcome[r] = "none" /\ task[r] \in Tasks
      /\ StepFits(asked[r], task[r], Len(results[r]), body[r])
      /\ TodoFits(asked[r], task[r])
      /\ Undisturbed(r)
  BY OwnStep
<1>2. CopyFits(r) /\ IsTree(fs)
  BY <1>1 DEF CopyGoes, DiskInv
<1> QED BY <1>1, <1>2

\* A copy begins with a file or a folder.
LEMMA CopyBegins ==
    ASSUME FilesInv, DiskInv, NEW r \in Requests, Begin(r)
    PROVE  CopyGoes(r)'
<1>1. PICK q \in Asks : /\ asked' = [asked EXCEPT ![r] = q]
                        /\ \/ BeginUpload(r, q) \/ BeginCopy(r, q) \/ BeginMkdir(r, q)
                           \/ BeginItems(r, q) \/ BeginDownload(r, q) \/ BeginList(r, q)
  BY DEF Begin
<1>2. asked'[r] = q /\ outcome[r] = "none"
  BY <1>1, NowAsking DEF Begin, DiskInv, EndedIs
<1>3. SUFFICES ASSUME q.kind = "copy"
               PROVE  CopyFits(r)'
  BY <1>2 DEF CopyGoes
<1>4. BeginCopy(r, q)
  BY <1>1, <1>3 DEF BeginUpload, BeginItems, BeginMkdir, BeginDownload, BeginList
<1>5. q.path \in Paths
  BY <1>3, CopyNames
<1>6. UNCHANGED fs
  BY <1>4 DEF BeginCopy, disk
<1>7. PICK at : at = IF IsDir(q.path) THEN "tree" ELSE "file"
  OBVIOUS
<1>8. task'[r] = Step(at) /\ outcome'[r] = "none"
  BY <1>2, <1>4, <1>7, GoPasses DEF BeginCopy
<1>9. /\ ~At(r, "copy")'
      /\ At(r, "file")' => fs'[q.path] # Dir
  BY <1>5, <1>6, <1>7, <1>8, StepAt, IsDirIs DEF At
<1> QED BY <1>2, <1>8, <1>9 DEF CopyFits

\* A folder is made, and what the source has is still to do.
LEMMA CopyTreeGoes ==
    ASSUME FilesInv, DiskInv, NEW r \in Requests, CopyTree(r), CopyGoes(r)
    PROVE  CopyGoes(r)'
<1>1. Run(r) /\ task[r].at = "tree"
  BY DEF Run, CopyTree, At
<1>2. asked[r].kind = "copy"
  BY <1>1, OwnStep DEF StepFits
<1>3. SUFFICES ASSUME Undisturbed(r)'
               PROVE  CopyFits(r)'
  BY DEF CopyGoes
<1>4. /\ asked[r] \in Asks /\ asked'[r] = asked[r] /\ IsTree(fs) /\ outcome[r] = "none"
  BY <1>1, <1>2, <1>3, CopySelf
<1>5. PICK q \in Asks : q = asked[r] /\ asked'[r] = q
  BY <1>4
<1>6. PICK s \in Paths, t \in Paths : s = q.path /\ t = q.to
  BY <1>2, <1>5, CopyNames
<1>7. /\ s \in Seq(Names) /\ t \in Seq(Names) /\ IsPrefix(s, s) /\ IsPrefix(t, t)
  BY PathIs, PrefixOrder
<1> DEFINE todo == {<<c, Image(c, s, t)>> : c \in Children(s)}
           step == [Step("copy") EXCEPT !.todo = todo]
<1>8. CASE End(r, "failed")
  BY <1>8, EndPasses DEF CopyFits, At
<1>9. CASE IsDir(s) /\ fs[t] = None /\ CanMakeDirs(t) /\ fs' = WithDirs(t) /\ Go(r, step)
  <2>1. /\ step.at = "copy" /\ step.node = None /\ step.todo = todo /\ step.i = 0
    BY DEF Step
  <2> HIDE DEF todo, step
  <2>2. task'[r] = step /\ outcome'[r] = "none"
    BY <1>4, <1>9, GoPasses
  <2>3. \A x \in Paths : fs'[x] = IF IsPrefix(x, t) THEN Dir ELSE fs[x]
    BY <1>9 DEF WithDirs
  <2>4. fs[s] = Dir /\ fs'[s] = Dir /\ fs'[t] = Dir
    BY <1>7, <1>9, <2>3, IsDirIs
  <2>5. Goal(q)' = t
    BY <1>6, <2>4 DEF Goal
  <2>6. ASSUME NEW p \in Paths, IsPrefix(s, p), ~IsPrefix(t, p)
        PROVE  Like(p, Image(p, s, t))' \/ <<p, Image(p, s, t)>> \in todo
    <3>1. PICK x : x = Image(p, s, t)
      OBVIOUS
    <3>2. x \in Seq(Names) /\ IsPrefix(t, x) /\ (p = s => x = t) /\ Image(x, t, s) = p
      BY <2>6, <3>1, PathIs, ImageIs
    <3>3. CASE p = s
      BY <2>4, <3>1, <3>2, <3>3 DEF Like
    <3>4. CASE p # s /\ fs[p] # None
      <4>1. p \in Children(s)
        BY <1>4, <2>6, <3>4, Above
      <4> QED BY <4>1 DEF todo
    <3>5. CASE p # s /\ fs[p] = None
      <4>1. Parent(p) = s /\ Len(s) = 1 /\ Len(p) = 2
        BY <2>6, <3>5, UnderIs
      <4>2. ~IsPrefix(p, t)
        <5>1. ASSUME IsPrefix(p, t)
              PROVE  FALSE
          <6>1. p # t
            BY <1>7, <2>6
          <6>2. Len(p) = 1
            BY <5>1, <6>1, UnderIs
          <6> QED BY <4>1, <6>2
        <5> QED BY <5>1
      <4>3. fs'[p] = None
        BY <2>3, <3>5, <4>2
      <4>4. x # t
        <5>1. x = t => Image(x, t, s) = s
          BY <1>7, ImageIs
        <5> QED BY <3>2, <3>5, <5>1
      <4>5. ASSUME x \in Paths
            PROVE  fs'[x] = None
        <5>1. fs[x] = None
          BY <1>4, <1>9, <3>2, <4>4, <4>5, Above, Kinds
        <5>2. ~IsPrefix(x, t)
          BY <1>7, <3>2, <4>4, PrefixOrder
        <5> QED BY <2>3, <4>5, <5>1, <5>2
      <4> QED BY <3>1, <4>3, <4>5 DEF Like
    <3> QED BY <3>3, <3>4, <3>5
  <2>7. ASSUME NEW e \in todo
        PROVE  e[2] = Image(e[1], s, t) /\ ~IsPrefix(t, e[1])
    <3>1. PICK c \in Children(s) : e = <<c, Image(c, s, t)>>
      BY <2>7 DEF todo
    <3>2. c \in Paths /\ fs[c] # None
      BY DEF Children
    <3>3. ~IsPrefix(t, c)
      BY <1>4, <1>9, <3>2, Above, Kinds
    <3> QED BY <3>1, <3>3
  <2>8. Part(q)' = {p \in Paths : IsPrefix(s, p) /\ ~IsPrefix(t, p)}
    BY <1>6, <2>5 DEF Part
  <2>9. ~At(r, "file")'
    BY <2>1, <2>2 DEF At
  <2> QED BY <1>5, <1>6, <2>1, <2>2, <2>5, <2>6, <2>7, <2>8, <2>9 DEF CopyFits
<1> QED BY <1>5, <1>6, <1>8, <1>9 DEF CopyTree

\* The file is still to do, and nothing else is.
LEMMA CopyFileGoes ==
    ASSUME FilesInv, DiskInv, NEW r \in Requests, CopyFile(r), CopyGoes(r)
    PROVE  CopyGoes(r)'
<1>1. Run(r) /\ task[r] # None /\ task[r].at = "file" /\ UNCHANGED fs
  BY DEF Run, CopyFile, At, disk
<1>2. asked[r].kind = "copy"
  BY <1>1, OwnStep DEF StepFits
<1>3. SUFFICES ASSUME Undisturbed(r)'
               PROVE  CopyFits(r)'
  BY DEF CopyGoes
<1>4. /\ asked[r] \in Asks /\ asked'[r] = asked[r] /\ IsTree(fs) /\ outcome[r] = "none"
      /\ CopyFits(r)
  BY <1>1, <1>2, <1>3, CopySelf
<1>5. PICK q \in Asks : q = asked[r] /\ asked'[r] = q
  BY <1>4
<1>6. /\ q.path \in Paths /\ q.to \in Paths /\ IsPrefix(q.path, q.path) /\ q.kind = "copy"
      /\ fs[q.path] # Dir
  BY <1>1, <1>2, <1>4, <1>5, CopyNames DEF CopyFits, At
<1>7. PICK t \in Paths : t = Goal(q) /\ Go(r, [Step("copy") EXCEPT !.todo = {<<q.path, t>>}])
  <2>1. (IF IsDir(q.to) THEN Append(q.to, Last(q.path)) ELSE q.to) = Goal(q)
    BY <1>6, IsDirIs DEF Goal
  <2> QED BY <1>5, <2>1 DEF CopyFile
<1> DEFINE step == [Step("copy") EXCEPT !.todo = {<<q.path, t>>}]
<1>8. step.at = "copy" /\ step.node = None /\ step.i = 0 /\ step.todo = {<<q.path, t>>}
  BY DEF Step
<1> HIDE DEF step
<1>9. task'[r] = step /\ outcome'[r] = "none"
  BY <1>4, <1>7, GoPasses DEF step
<1>10. Goal(q)' = t /\ Part(q)' = Part(q)
  BY <1>1, <1>7, GoalStays
<1>11. Image(q.path, q.path, t) = t
  BY <1>6, PathIs, ImageIs
<1>12. ASSUME NEW p \in Part(q), p # q.path
       PROVE  Like(p, Image(p, q.path, t))'
  <2>1. PICK x : x = Image(p, q.path, t)
    OBVIOUS
  <2>2. /\ p \in Paths /\ IsPrefix(q.path, p) /\ IsPrefix(t, x)
        /\ (Image(q.path, q.path, t) = x => q.path = p)
    BY <1>4, <1>6, <1>7, <2>1, PartIs
  <2>3. fs[p] = None
    BY <1>4, <1>6, <1>12, <2>2, Above
  <2>4. x \in Paths => fs[x] = None
    BY <1>4, <1>6, <1>7, <1>11, <1>12, <2>2, GoalIs
  <2> QED BY <1>1, <2>1, <2>3, <2>4 DEF Like
<1>13. IsPrefix(t, q.path) => q.path = t \/ fs'[q.path] = None
  BY <1>1, <1>4, <1>6, <1>7, GoalIs
<1>14. ~At(r, "file")'
  BY <1>8, <1>9 DEF At
<1>15. \A p \in Part(q) : Like(p, Image(p, q.path, t))' \/ <<p, Image(p, q.path, t)>> \in step.todo
  BY <1>8, <1>11, <1>12
<1> QED BY <1>5, <1>8, <1>9, <1>10, <1>11, <1>13, <1>14, <1>15 DEF CopyFits

\* When nothing is left to do, each part is like its image.
LEMMA CopyEnds ==
    ASSUME FilesInv, DiskInv, NEW r \in Requests, CopyEnd(r), CopyGoes(r)
    PROVE  CopyGoes(r)'
<1>1. Run(r) /\ task[r].at = "copy" /\ UNCHANGED disk /\ task[r].node = None /\ task[r].todo = {}
  BY DEF Run, CopyEnd, At
<1>2. asked[r].kind = "copy"
  BY <1>1, OwnStep DEF StepFits
<1>3. SUFFICES ASSUME Undisturbed(r)'
               PROVE  CopyFits(r)'
  BY DEF CopyGoes
<1>4. asked[r] \in Asks /\ asked'[r] = asked[r] /\ CopyFits(r) /\ task[r] # None
  BY <1>1, <1>2, <1>3, CopySelf
<1>5. PICK q \in Asks : q = asked[r] /\ asked'[r] = q
  BY <1>4
<1>6. task'[r] = None /\ outcome'[r] = IF task[r].bad THEN "failed" ELSE "ok"
  BY EndPasses DEF CopyEnd
<1>7. UNCHANGED <<fs, content>>
  BY <1>1 DEF disk
<1>8. Goal(q)' = Goal(q) /\ Part(q)' = Part(q)
  BY <1>7, GoalStays
<1>9. ASSUME ~task[r].bad
      PROVE  Goal(q) \in Paths /\ \A p \in Part(q) : Like(p, Image(p, q.path, Goal(q)))
  BY <1>1, <1>4, <1>5, <1>9 DEF CopyFits, At, InCopy
<1>10. \A p, x : Like(p, x)' = Like(p, x)
  BY <1>7 DEF Like, IsFile
<1>11. \A p \in Part(q) : ~task[r].bad => Like(p, Image(p, q.path, Goal(q)))'
  BY <1>8, <1>9, <1>10
<1> QED BY <1>5, <1>6, <1>8, <1>9, <1>11 DEF CopyFits, At

\* What a copy finds when it goes on, and what is left when it has dealt with the part a.
LEMMA CopyOn ==
    ASSUME FilesInv, DiskInv, NEW r \in Requests, Run(r), task[r].at = "copy", CopyGoes(r),
           Undisturbed(r)', ~task[r].bad
    PROVE  \E q \in Asks, t \in Paths :
             /\ q = asked[r] /\ asked'[r] = q /\ q.kind = "copy" /\ q.path \in Paths /\ q.to \in Paths
             /\ t = Goal(q) /\ outcome[r] = "none" /\ IsTree(fs)
             /\ task[r] # None /\ task[r] \in Tasks
             /\ task[r].node # None => task[r].from \in Nodes
             /\ task[r].node = None => task[r].i = 0
             /\ task[r].node # None => \E p \in Part(q) : InCopy(r, p, Image(p, q.path, t))
             /\ \A p \in Part(q) : \/ Like(p, Image(p, q.path, t))
                                   \/ <<p, Image(p, q.path, t)>> \in task[r].todo
                                   \/ InCopy(r, p, Image(p, q.path, t))
             /\ \A e \in task[r].todo :
                   /\ e[1] \in Paths /\ e[2] \in Paths /\ IsPrefix(q.path, e[1])
                   /\ e[2] = Image(e[1], q.path, t)
                   /\ IsPrefix(t, e[1]) => task[r].todo = {e} /\ (e[1] = e[2] \/ fs[e[1]] = None)
<1>1. asked[r].kind = "copy"
  BY OwnStep DEF StepFits
<1>2. /\ task[r] # None /\ task[r] \in Tasks /\ outcome[r] = "none" /\ IsTree(fs)
      /\ asked[r] \in Asks /\ asked'[r] = asked[r]
      /\ StepFits(asked[r], task[r], Len(results[r]), body[r])
      /\ TodoFits(asked[r], task[r]) /\ CopyFits(r)
  BY <1>1, CopySelf
<1>3. PICK q \in Asks : q = asked[r] /\ asked'[r] = q
  BY <1>2
<1>4. q.kind = "copy" /\ q.path \in Paths /\ q.to \in Paths
  BY <1>1, <1>3, CopyNames
<1>5. PICK t \in Paths : t = Goal(q)
  BY <1>2, <1>3 DEF CopyFits, At
<1>6. /\ task[r].node = None => task[r].i = 0
      /\ task[r].node # None => \E p \in Part(q) : InCopy(r, p, Image(p, q.path, t))
      /\ \A p \in Part(q) : \/ Like(p, Image(p, q.path, t))
                            \/ <<p, Image(p, q.path, t)>> \in task[r].todo
                            \/ InCopy(r, p, Image(p, q.path, t))
      /\ \A e \in task[r].todo :
            /\ e[2] = Image(e[1], q.path, t)
            /\ IsPrefix(t, e[1]) => task[r].todo = {e} /\ (e[1] = e[2] \/ fs[e[1]] = None)
  BY <1>2, <1>3, <1>5 DEF CopyFits, At
<1>7. task[r].node # None => task[r].from \in Nodes
  BY <1>2 DEF StepFits
<1>8. \A e \in task[r].todo : e[1] \in Paths /\ e[2] \in Paths /\ IsPrefix(q.path, e[1])
  BY <1>2, <1>3 DEF Tasks, TodoFits
<1> QED BY <1>2, <1>3, <1>4, <1>5, <1>6, <1>7, <1>8

\* What it leaves is as it should be.
LEMMA CopyThen ==
    ASSUME NEW r \in Requests, NEW q \in Asks, asked'[r] = q, NEW t \in Paths, Goal(q)' = t,
           NEW P, Part(q)' = P, task'[r].at = "copy", outcome'[r] = "none",
           task'[r].node = None => task'[r].i = 0,
           task'[r].node # None => \E p \in P : InCopy(r, p, Image(p, q.path, t))',
           \A p \in P : \/ Like(p, Image(p, q.path, t))'
                        \/ <<p, Image(p, q.path, t)>> \in task'[r].todo
                        \/ InCopy(r, p, Image(p, q.path, t))',
           \A e \in task'[r].todo :
              /\ e[2] = Image(e[1], q.path, t)
              /\ IsPrefix(t, e[1]) => task'[r].todo = {e} /\ (e[1] = e[2] \/ fs'[e[1]] = None)
    PROVE  CopyFits(r)'
  BY DEF CopyFits, At

\* Where an entry is written has no part of the source.
LEMMA CopyOpenGoes ==
    ASSUME FilesInv, DiskInv, NEW r \in Requests, CopyOpen(r), CopyGoes(r)
    PROVE  CopyGoes(r)'
<1>1. Run(r) /\ task[r].at = "copy" /\ task[r].node = None
  BY DEF Run, CopyOpen, At
<1>2. SUFFICES ASSUME Undisturbed(r)'
               PROVE  CopyFits(r)'
  BY DEF CopyGoes
<1>3. /\ task[r] # None /\ task[r] \in Tasks /\ outcome[r] = "none"
  BY <1>1, OwnStep
<1>4. PICK e \in task[r].todo :
        LET rest == [task[r] EXCEPT !.todo = @ \ {e}]
        IN  \/ /\ IsFile(e[1]) /\ CanOpen(e[2]) /\ fs[e[1]] # fs[e[2]]
               /\ Opening(r, e[2])
               /\ Go(r, [rest EXCEPT !.node = Opened(r, e[2]), !.from = fs[e[1]]])
            \/ /\ fs[e[1]] = Dir /\ asked[r].path # e[1] /\ fs[e[2]] = None
               /\ fs' = WithDirs(e[2])
               /\ Go(r, rest) /\ UNCHANGED content
            \/ Go(r, [rest EXCEPT !.bad = TRUE])
  BY DEF CopyOpen
<1> DEFINE a    == e[1]
           b    == e[2]
           todo == task[r].todo \ {e}
           rest == [task[r] EXCEPT !.todo = todo]
           open == [rest EXCEPT !.node = Opened(r, b), !.from = fs[a]]
           bad  == [rest EXCEPT !.bad = TRUE]
<1>5. /\ rest.at = "copy" /\ rest.node = None /\ rest.todo = todo /\ rest.i = task[r].i
      /\ rest.bad = task[r].bad
      /\ open.at = "copy" /\ open.node = Opened(r, b) /\ open.from = fs[a] /\ open.todo = todo
      /\ open.i = task[r].i /\ open.bad = task[r].bad
      /\ bad.at = "copy" /\ bad.bad
  BY <1>1, <1>3 DEF Tasks
<1>6. \/ /\ IsFile(a) /\ CanOpen(b) /\ fs[a] # fs[b] /\ Opening(r, b) /\ Go(r, open)
      \/ /\ fs[a] = Dir /\ asked[r].path # a /\ fs[b] = None
         /\ fs' = WithDirs(b) /\ Go(r, rest) /\ UNCHANGED content
      \/ Go(r, bad)
  BY <1>4
<1> HIDE DEF todo, rest, open, bad
<1>7. CASE Go(r, bad) \/ task[r].bad
  <2>1. task'[r].at = "copy" /\ task'[r].bad /\ outcome'[r] = "none"
    BY <1>3, <1>5, <1>6, <1>7, GoPasses
  <2> QED BY <2>1 DEF CopyFits, At
<1>8. SUFFICES ASSUME ~task[r].bad, ~Go(r, bad)
               PROVE  CopyFits(r)'
  BY <1>7
<1>9. PICK q \in Asks, t \in Paths :
             /\ q = asked[r] /\ asked'[r] = q /\ q.kind = "copy" /\ q.path \in Paths /\ q.to \in Paths
             /\ t = Goal(q) /\ outcome[r] = "none" /\ IsTree(fs)
             /\ task[r].node = None => task[r].i = 0
             /\ \A p \in Part(q) : \/ Like(p, Image(p, q.path, t))
                                   \/ <<p, Image(p, q.path, t)>> \in task[r].todo
                                   \/ InCopy(r, p, Image(p, q.path, t))
             /\ \A f \in task[r].todo :
                   /\ f[1] \in Paths /\ f[2] \in Paths /\ IsPrefix(q.path, f[1])
                   /\ f[2] = Image(f[1], q.path, t)
                   /\ IsPrefix(t, f[1]) => task[r].todo = {f} /\ (f[1] = f[2] \/ fs[f[1]] = None)
  BY <1>1, <1>2, <1>8, CopyOn
<1>10. /\ a \in Paths /\ b \in Paths /\ IsPrefix(q.path, a) /\ b = Image(a, q.path, t)
       /\ fs[a] # None /\ fs[a] # fs[b]
  BY <1>6, <1>8, <1>9, Kinds DEF IsFile
<1>11. a \in Part(q) /\ IsPrefix(t, b) /\ \A p \in Part(q) : IsPrefix(t, p) = FALSE
  <2>1. ~IsPrefix(t, a)
    BY <1>9, <1>10
  <2>2. IsPrefix(t, b)
    BY <1>9, <1>10, PathIs, ImageIs
  <2> QED BY <1>9, <1>10, <2>1, <2>2 DEF Part
<1>12. \A f \in todo : /\ f[2] = Image(f[1], q.path, t)
                       /\ ~IsPrefix(t, f[1])
  BY <1>9 DEF todo
<1>13. \A p \in Part(q) \ {a} :
          /\ p \in Paths /\ p # b /\ Image(p, q.path, t) # b
          /\ Like(p, Image(p, q.path, t)) \/ <<p, Image(p, q.path, t)>> \in todo
  <2>1. ASSUME NEW p \in Part(q) \ {a}
        PROVE  p \in Paths /\ p # b /\ Image(p, q.path, t) # b
    BY <1>9, <1>10, <1>11, PartIs
  <2>2. ASSUME NEW p \in Part(q) \ {a}
        PROVE  Like(p, Image(p, q.path, t)) \/ <<p, Image(p, q.path, t)>> \in todo
    <3>1. ~InCopy(r, p, Image(p, q.path, t))
      BY <1>1 DEF InCopy
    <3>2. p # a
      OBVIOUS
    <3> QED BY <1>9, <3>1, <3>2 DEF todo
  <2> QED BY <2>1, <2>2
<1>14. a # b
  BY <1>10
<1> HIDE DEF a, b
<1>15. CASE IsFile(a) /\ CanOpen(b) /\ fs[a] # fs[b] /\ Opening(r, b) /\ Go(r, open)
  <2>1. PICK m \in Nodes : m = Opened(r, b)
    BY <1>10, <1>15, OpenedNode
  <2>2. /\ task'[r].at = "copy" /\ task'[r].node = m /\ task'[r].from = fs[a] /\ task'[r].todo = todo
        /\ task'[r].i = 0 /\ outcome'[r] = "none"
    BY <1>1, <1>3, <1>5, <1>9, <1>15, <2>1, GoPasses
  <2>3. /\ fs \in [Paths -> Nodes \cup {Dir, None}] /\ content \in [Nodes -> Seq(Blocks)]
        /\ fs' = [fs EXCEPT ![b] = m] /\ content' = [content EXCEPT ![m] = <<>>]
    BY <1>15, <2>1 DEF FilesInv, TypeOK, Opening
  <2>4. /\ fs'[b] = m /\ content'[m] = <<>> /\ (\A x \in Paths \ {b} : fs'[x] = fs[x])
        /\ \A n \in Nodes \ {m} : content'[n] = content[n]
    BY <1>10, <2>1, <2>3
  <2>5. \A x \in Paths : fs'[x] = Dir <=> fs[x] = Dir
    BY <1>15, <2>1, <2>4, Kinds DEF CanOpen
  <2>6. Goal(q)' = t /\ Part(q)' = Part(q)
    BY <1>9, <2>5, GoalStays
  <2>7. \A x \in Paths \ {b} : fs[x] # m
    <3>1. CASE fs[b] = None
      <4>1. m = <<r, b>> /\ Unmade(asked[r], task[r], b)
        BY <1>1, <1>3, <2>1, <3>1 DEF Opened, Unmade, b
      <4> QED BY <1>10, <4>1 DEF DiskInv, NodesNew
    <3>2. CASE fs[b] # None
      BY <1>9, <1>10, <2>1, <3>2 DEF Opened, IsTree, Unique
    <3> QED BY <3>1, <3>2
  <2>8. InCopy(r, a, Image(a, q.path, t))'
    <3>1. fs[a] \in Nodes /\ fs[a] # m /\ fs'[a] = fs[a]
      BY <1>10, <1>14, <1>15, <2>4, <2>7 DEF IsFile
    <3>2. content'[fs[a]] \in Seq(Blocks) /\ content'[fs[a]] = content[fs[a]]
      BY <2>3, <2>4, <3>1
    <3>3. SubSeq(content'[fs[a]], 1, 0) = <<>>
      BY <3>2
    <3>4. 0 <= Len(content'[fs[a]])
      BY <3>2, LenProperties
    <3>5. m # None
      BY <2>1, Kinds
    <3> QED BY <1>10, <2>2, <2>4, <3>1, <3>3, <3>4, <3>5 DEF InCopy
  <2>9. ASSUME NEW p \in Part(q), p # a, Like(p, Image(p, q.path, t))
        PROVE  Like(p, Image(p, q.path, t))'
    <3>1. PICK x : x = Image(p, q.path, t)
      OBVIOUS
    <3>2. p \in Paths /\ p # b /\ x # b
      BY <1>13, <2>9, <3>1
    <3>3. fs'[p] = fs[p] /\ (x \in Paths => fs'[x] = fs[x])
      BY <2>4, <3>2
    <3>4. fs[p] # m /\ (x \in Paths => fs[x] # m)
      BY <2>7, <3>2
    <3>5. /\ fs[p] \in Nodes => content'[fs[p]] = content[fs[p]]
          /\ x \in Paths /\ fs[x] \in Nodes => content'[fs[x]] = content[fs[x]]
      BY <2>4, <3>4
    <3> QED BY <2>9, <3>1, <3>3, <3>5, LikeStays
  <2>10. \A p \in Part(q) : \/ Like(p, Image(p, q.path, t))'
                            \/ <<p, Image(p, q.path, t)>> \in task'[r].todo
                            \/ InCopy(r, p, Image(p, q.path, t))'
    BY <1>13, <2>2, <2>8, <2>9
  <2> QED BY <1>9, <1>11, <1>12, <2>2, <2>6, <2>8, <2>10, CopyThen
<1>16. CASE /\ fs[a] = Dir /\ asked[r].path # a /\ fs[b] = None
            /\ fs' = WithDirs(b) /\ Go(r, rest) /\ UNCHANGED content
  <2>1. /\ task'[r].at = "copy" /\ task'[r].node = None /\ task'[r].todo = todo
        /\ task'[r].i = 0 /\ outcome'[r] = "none"
    BY <1>1, <1>3, <1>5, <1>9, <1>16, GoPasses
  <2>2. \A x \in Paths : fs'[x] = IF IsPrefix(x, b) THEN Dir ELSE fs[x]
    BY <1>16 DEF WithDirs
  <2>3. Len(q.path) = 1 /\ Len(a) = 2
    BY <1>9, <1>10, <1>16, UnderIs
  <2>4. Len(b) = 2 /\ Len(t) = 1
    <3>1. Len(b) = Len(t) + Len(a) - Len(q.path)
      <4>1. a \in Seq(Names) /\ q.path \in Paths /\ IsPrefix(q.path, a) /\ b = Image(a, q.path, t)
        BY <1>9, <1>10, PathIs
      <4>2. Len(Image(a, q.path, t)) = Len(t) + Len(a) - Len(q.path)
        BY <4>1, ImageIs
      <4> QED BY <4>1, <4>2
    <3>2. Len(b) \in 1..2 /\ Len(t) \in 1..2
      BY <1>10, PathIs
    <3>3. Len(b) = Len(t) + 2 - 1
      BY <2>3, <3>1
    <3> DEFINE m == Len(b)
               n == Len(t)
    <3>4. m \in 1..2 /\ n \in 1..2 /\ m = n + 2 - 1
      BY <3>2, <3>3
    <3> HIDE DEF m, n
    <3>5. m = 2 /\ n = 1
      BY <3>4
    <3> QED BY <3>5 DEF m, n
  <2>5. q.to = t
    <3>1. IsPrefix(q.to, t)
      BY <1>9, GoalIs
    <3>2. q.to # t => Len(t) = 2
      BY <1>9, <3>1, UnderIs
    <3> QED BY <2>4, <3>2
  <2>6. \A x \in Paths : IsPrefix(x, b) <=> x = b \/ x = t
    <3>1. IsPrefix(t, b) /\ t # b /\ IsPrefix(b, b)
      BY <1>10, <1>11, <2>4, PathIs, PrefixOrder
    <3>2. \A x \in Paths : IsPrefix(x, b) /\ x # b => x = Parent(b)
      BY <1>10, UnderIs
    <3> QED BY <3>1, <3>2
  <2>7. /\ fs'[t] = Dir /\ fs'[b] = Dir
        /\ \A x \in Paths : x # t /\ x # b => fs'[x] = fs[x]
    BY <1>10, <2>2, <2>6
  <2>8. fs[q.path] = Dir /\ fs'[q.path] = Dir
    <3>1. fs[q.path] = Dir
      BY <1>9, <1>10, <1>16, Above
    <3> QED BY <1>9, <2>2, <3>1
  <2>9. Goal(q)' = t /\ Part(q)' = Part(q)
    <3>1. Goal(q)' = t
      BY <2>5, <2>8 DEF Goal
    <3> QED BY <1>9, <3>1 DEF Part
  <2>10. Like(a, Image(a, q.path, t))'
    <3>1. a # t
      BY <2>3, <2>4
    <3> QED BY <1>10, <1>14, <1>16, <2>7, <3>1 DEF Like
  <2>11. ASSUME NEW p \in Part(q), p # a, Like(p, Image(p, q.path, t))
         PROVE  Like(p, Image(p, q.path, t))'
    <3>1. PICK x : x = Image(p, q.path, t)
      OBVIOUS
    <3>2. p \in Paths /\ p # b /\ x # b /\ p # t /\ IsPrefix(q.path, p)
      <4>1. IsPrefix(t, t) /\ ~IsPrefix(t, p) /\ IsPrefix(q.path, p)
        BY <1>9, <1>11, PathIs, PrefixOrder DEF Part
      <4> QED BY <1>13, <2>11, <3>1, <4>1
    <3>3. fs'[p] = fs[p]
      BY <2>7, <3>2
    <3>4. CASE x = t
      <4>1. p = q.path
        <5>1. Image(q.path, q.path, t) = t /\ IsPrefix(q.path, q.path)
          BY <1>9, PathIs, ImageIs, PrefixOrder
        <5> QED BY <1>9, <3>1, <3>2, <3>4, <5>1, PathIs, ImagesDiffer
      <4> QED BY <2>7, <2>8, <3>1, <3>4, <4>1 DEF Like
    <3>5. CASE x # t
      <4>1. x \in Paths => fs'[x] = fs[x]
        BY <2>7, <3>2, <3>5
      <4> QED BY <1>16, <2>11, <3>1, <3>3, <4>1, LikeStays
    <3> QED BY <3>4, <3>5
  <2>12. \A p \in Part(q) : \/ Like(p, Image(p, q.path, t))'
                            \/ <<p, Image(p, q.path, t)>> \in task'[r].todo
                            \/ InCopy(r, p, Image(p, q.path, t))'
    BY <1>13, <2>1, <2>10, <2>11
  <2> QED BY <1>9, <1>12, <2>1, <2>9, <2>12, CopyThen
<1> QED BY <1>6, <1>8, <1>15, <1>16

\* The first blocks of a file, and one more.
LEMMA WrittenPart ==
    ASSUME NEW c \in Seq(Blocks), NEW d \in Seq(Blocks), NEW i \in Nat, i + 1 <= Len(d),
           c = SubSeq(d, 1, i)
    PROVE  Written(c, i + 1, d[i + 1]) = SubSeq(d, 1, i + 1)
<1>1. Len(c) = i
  <2>1. Len(d) \in Nat
    BY LenProperties
  <2>2. i <= Len(d)
    BY <2>1
  <2> QED BY <2>2, SubSeqNext
<1>2. \A j \in 1..i : c[j] = d[j]
  OBVIOUS
<1>3. Written(c, i + 1, d[i + 1]) = [j \in 1..i + 1 |-> IF j = i + 1 THEN d[i + 1] ELSE c[j]]
  <2>1. ASSUME NEW k \in Seq(Blocks), Len(k) = i, NEW x
        PROVE  Written(k, i + 1, x) = [j \in 1..i + 1 |-> IF j = i + 1 THEN x ELSE k[j]]
    BY <2>1, WrittenNext
  <2> QED BY <1>1, <2>1
<1>4. SubSeq(d, 1, i + 1) = [j \in 1..i + 1 |-> d[j]]
  OBVIOUS
<1>5. \A j \in 1..i + 1 : j = i + 1 \/ j \in 1..i
  OBVIOUS
<1> QED BY <1>2, <1>3, <1>4, <1>5

\* A block that a copy writes goes to no other part's place.
LEMMA CopyBlockGoes ==
    ASSUME FilesInv, DiskInv, NEW r \in Requests, CopyBlock(r), CopyGoes(r)
    PROVE  CopyGoes(r)'
<1>1. Run(r) /\ task[r].at = "copy" /\ task[r].node # None /\ UNCHANGED fs
  BY DEF Run, CopyBlock, At
<1>2. SUFFICES ASSUME Undisturbed(r)'
               PROVE  CopyFits(r)'
  BY DEF CopyGoes
<1>3. task[r] # None /\ task[r] \in Tasks /\ outcome[r] = "none"
  BY <1>1, OwnStep
<1> DEFINE next == [task[r] EXCEPT !.i = task[r].i + 1]
           done == [task[r] EXCEPT !.node = None, !.from = None, !.i = 0]
<1>4. /\ next.at = "copy" /\ next.node = task[r].node /\ next.from = task[r].from
      /\ next.todo = task[r].todo /\ next.i = task[r].i + 1 /\ next.bad = task[r].bad
      /\ done.at = "copy" /\ done.node = None /\ done.todo = task[r].todo /\ done.i = 0
      /\ done.bad = task[r].bad
  BY <1>1, <1>3 DEF Tasks
<1>5. \/ /\ task[r].i + 1 <= Len(content[task[r].from])
         /\ content' = [content EXCEPT ![task[r].node] =
                            Written(@, task[r].i + 1, content[task[r].from][task[r].i + 1])]
         /\ Go(r, next)
      \/ task[r].i + 1 > Len(content[task[r].from]) /\ Go(r, done) /\ UNCHANGED content
  BY DEF CopyBlock
<1> HIDE DEF next, done
<1>6. task'[r] \in {next, done} /\ outcome'[r] = "none" /\ task'[r].at = "copy"
  BY <1>3, <1>4, <1>5, GoPasses
<1>7. CASE task[r].bad
  BY <1>4, <1>6, <1>7 DEF CopyFits, At
<1>8. SUFFICES ASSUME ~task[r].bad
               PROVE  CopyFits(r)'
  BY <1>7
<1>9. PICK q \in Asks, t \in Paths :
             /\ q = asked[r] /\ asked'[r] = q /\ q.kind = "copy" /\ q.path \in Paths /\ q.to \in Paths
             /\ t = Goal(q) /\ IsTree(fs) /\ task[r].from \in Nodes
             /\ \E p \in Part(q) : InCopy(r, p, Image(p, q.path, t))
             /\ \A p \in Part(q) : \/ Like(p, Image(p, q.path, t))
                                   \/ <<p, Image(p, q.path, t)>> \in task[r].todo
                                   \/ InCopy(r, p, Image(p, q.path, t))
             /\ \A f \in task[r].todo :
                   /\ f[2] = Image(f[1], q.path, t)
                   /\ IsPrefix(t, f[1]) => task[r].todo = {f} /\ (f[1] = f[2] \/ fs[f[1]] = None)
  BY <1>1, <1>2, <1>8, CopyOn
<1>10. PICK a \in Part(q) : InCopy(r, a, Image(a, q.path, t))
  BY <1>9
<1>11. PICK b \in Paths : b = Image(a, q.path, t)
  BY <1>10 DEF InCopy
<1>12. PICK i \in Nat, m \in Nodes, n \in Nodes :
         /\ i = task[r].i /\ m = task[r].from /\ n = task[r].node /\ m = fs[a] /\ n = fs[b] /\ m # n
         /\ i <= Len(content[m]) /\ content[n] = SubSeq(content[m], 1, i)
  <2>1. task[r].i \in Nat /\ task[r].from \in Nodes /\ task[r].node \in Nodes
    BY <1>1, <1>3, <1>9, FilesAssumption DEF Tasks
  <2>2. /\ task[r].from = fs[a] /\ task[r].node = fs[b] /\ fs[a] # fs[b]
        /\ task[r].i <= Len(content[fs[a]]) /\ content[fs[b]] = SubSeq(content[fs[a]], 1, task[r].i)
    BY <1>10, <1>11 DEF InCopy
  <2> QED BY <2>1, <2>2
<1>13. /\ a \in Paths /\ IsPrefix(t, b) /\ IsPrefix(q.path, a)
       /\ \A p \in Part(q) : p \in Paths /\ p # b /\ (p # a => Image(p, q.path, t) # b)
  <2>1. a \in Paths /\ IsPrefix(t, b) /\ IsPrefix(q.path, a)
    BY <1>9, <1>11, PartIs
  <2>2. \A p \in Part(q) : p \in Paths /\ p # b
    BY <1>9, <2>1, PartIs
  <2>3. ASSUME NEW p \in Part(q), p # a
        PROVE  Image(p, q.path, t) # b
    BY <1>9, <1>11, <2>1, <2>3, PartIs
  <2> QED BY <2>1, <2>2, <2>3
<1>14. Goal(q)' = t /\ Part(q)' = Part(q)
  BY <1>1, <1>9, GoalStays
<1>15. \A p \in Part(q) : p # a => \/ Like(p, Image(p, q.path, t))
                                   \/ <<p, Image(p, q.path, t)>> \in task[r].todo
  <2>1. ASSUME NEW p \in Part(q), p # a, InCopy(r, p, Image(p, q.path, t))
        PROVE  FALSE
    <3>1. fs[p] = fs[a] /\ fs[a] \in Nodes
      BY <1>12, <2>1 DEF InCopy
    <3> QED BY <1>9, <1>13, <2>1, <3>1 DEF IsTree, Unique
  <2> QED BY <1>9, <2>1
<1>16. content \in [Nodes -> Seq(Blocks)] /\ \A k \in Nodes \ {n} : content'[k] = content[k]
  BY <1>5, <1>12 DEF FilesInv, TypeOK
<1>17. ASSUME NEW p \in Part(q), p # a, Like(p, Image(p, q.path, t))
       PROVE  Like(p, Image(p, q.path, t))'
  <2>1. PICK x : x = Image(p, q.path, t)
    OBVIOUS
  <2>2. p \in Paths /\ p # b /\ x # b
    BY <1>13, <1>17, <2>1
  <2>3. fs[p] # n /\ (x \in Paths => fs[x] # n)
    BY <1>9, <1>12, <2>2 DEF IsTree, Unique
  <2>4. /\ fs[p] \in Nodes => content'[fs[p]] = content[fs[p]]
        /\ x \in Paths /\ fs[x] \in Nodes => content'[fs[x]] = content[fs[x]]
    BY <1>16, <2>3
  <2>5. fs'[p] = fs[p] /\ (x \in Paths => fs'[x] = fs[x])
    BY <1>1
  <2> QED BY <1>17, <2>1, <2>4, <2>5, LikeStays
<1>18. \A p \in Part(q) : p # a => \/ Like(p, Image(p, q.path, t))'
                                   \/ <<p, Image(p, q.path, t)>> \in task'[r].todo
  <2>1. task'[r].todo = task[r].todo
    BY <1>4, <1>6
  <2> QED BY <1>15, <1>17, <2>1
<1>19. \A f \in task'[r].todo :
          /\ f[2] = Image(f[1], q.path, t)
          /\ IsPrefix(t, f[1]) => task'[r].todo = {f} /\ (f[1] = f[2] \/ fs'[f[1]] = None)
  <2>1. task'[r].todo = task[r].todo
    BY <1>4, <1>6
  <2> QED BY <1>1, <1>9, <2>1
<1>20. content[m] \in Seq(Blocks) /\ content'[m] = content[m] /\ Len(content[m]) \in Nat
  BY <1>12, <1>16, LenProperties
<1>21. CASE /\ task[r].i + 1 <= Len(content[task[r].from])
            /\ content' = [content EXCEPT ![task[r].node] =
                            Written(@, task[r].i + 1, content[task[r].from][task[r].i + 1])]
            /\ Go(r, next)
  <2>1. /\ task'[r].node = n /\ task'[r].from = m /\ task'[r].i = i + 1
    BY <1>4, <1>12, <1>21, GoPasses
  <2>2. content'[n] = SubSeq(content[m], 1, i + 1)
    <3>1. content'[n] = Written(content[n], i + 1, content[m][i + 1])
      BY <1>12, <1>16, <1>21
    <3>2. i + 1 <= Len(content[m]) /\ content[n] \in Seq(Blocks)
      BY <1>12, <1>16, <1>21
    <3> QED BY <1>12, <1>20, <3>1, <3>2, WrittenPart
  <2>3. InCopy(r, a, Image(a, q.path, t))'
    <3>1. n # None /\ fs'[a] = m /\ fs'[b] = n
      BY <1>1, <1>12, Kinds
    <3>2. i + 1 <= Len(content'[m])
      BY <1>12, <1>20, <1>21
    <3> QED BY <1>11, <1>12, <1>20, <2>1, <2>2, <3>1, <3>2 DEF InCopy
  <2>4. \A p \in Part(q) : \/ Like(p, Image(p, q.path, t))'
                           \/ <<p, Image(p, q.path, t)>> \in task'[r].todo
                           \/ InCopy(r, p, Image(p, q.path, t))'
    BY <1>18, <2>3
  <2>5. task'[r].node # None
    BY <1>12, <2>1, Kinds
  <2> QED BY <1>6, <1>9, <1>14, <1>19, <2>3, <2>4, <2>5, CopyThen
<1>22. CASE task[r].i + 1 > Len(content[task[r].from]) /\ Go(r, done) /\ UNCHANGED content
  <2>1. task'[r].node = None /\ task'[r].i = 0
    BY <1>4, <1>22, GoPasses
  <2>2. i = Len(content[m])
    BY <1>12, <1>20, <1>22
  <2>3. content[n] = content[m]
    BY <1>12, <1>20, <2>2
  <2>4. Like(a, Image(a, q.path, t))'
    BY <1>1, <1>11, <1>12, <1>22, <2>3 DEF Like, IsFile
  <2>5. \A p \in Part(q) : \/ Like(p, Image(p, q.path, t))'
                           \/ <<p, Image(p, q.path, t)>> \in task'[r].todo
                           \/ InCopy(r, p, Image(p, q.path, t))'
    BY <1>18, <2>4
  <2> QED BY <1>6, <1>9, <1>14, <1>19, <2>1, <2>5, CopyThen
<1> QED BY <1>5, <1>21, <1>22

\* No step of a copy leaves a part out.
LEMMA CopySteps ==
    ASSUME FilesInv, DiskInv, NEW r \in Requests, Begin(r) \/ Run(r), CopyGoes(r)
    PROVE  CopyGoes(r)'
<1>1. CASE Run(r) /\ asked[r].kind # "copy"
  <2>1. asked' = asked
    BY <1>1, OwnStep
  <2> QED BY <1>1, <2>1 DEF CopyGoes
<1>2. CASE Run(r) /\ asked[r].kind = "copy"
  <2>1. task[r] # None /\ StepFits(asked[r], task[r], Len(results[r]), body[r])
    BY <1>2, OwnStep
  <2>2. CopyTree(r) \/ CopyFile(r) \/ CopyOpen(r) \/ CopyBlock(r) \/ CopyEnd(r)
    BY <1>2, <2>1 DEF StepFits, Run, Open, Write, Discard, Move, Delete, Unlink, RmtreeScan,
       Rmtree, Serve, StreamOpen, Stream, Lookup, Scandir, Store, At
  <2> QED BY <2>2, CopyTreeGoes, CopyFileGoes, CopyOpenGoes, CopyBlockGoes, CopyEnds
<1> QED BY <1>1, <1>2, CopyBegins

-----------------------------------------------------------------------------
(* What requests tell.                                                     *)

\* Where each request is, according to its kind.
Progress(r) == UploadGoes(r) /\ CopyGoes(r) /\ ItemsGo(r) /\ BodyGoes(r)
WholeInv    == FilesInv /\ DiskInv /\ \A r \in Requests : Progress(r)

\* No step of a download sends anything else.
LEMMA BodySteps ==
    ASSUME FilesInv, DiskInv, NEW r \in Requests, Begin(r) \/ Run(r), BodyGoes(r)
    PROVE  BodyGoes(r)'
  BY BodyElse, BodyServes, BodyOpens, BodyStreams

\* A step takes a request of any kind on as it should, be it its own or another one's.
LEMMA GoesOn ==
    ASSUME FilesInv, DiskInv, [Next]_vars, NEW r \in Requests, Progress(r)
    PROVE  Progress(r)'
<1>1. CASE Begin(r) \/ Run(r)
  BY <1>1, UploadSteps, CopySteps, ItemsSteps, BodySteps DEF Progress
<1>2. CASE ~Begin(r) /\ ~Run(r)
  BY <1>2, UploadAlone, CopyAlone, ItemsAlone, BodyAlone DEF Progress
<1> QED BY <1>1, <1>2

\* What is on the disk is always a tree: what is there is in a folder, and no two paths lead to
\* one file.  Who writes to a file that has been moved away is near whoever moved it there, and
\* each request is as far as what it found and left tells.
THEOREM WholeInvariance == Spec => []WholeInv
<1>1. Init => WholeInv
  <2>1. SUFFICES ASSUME Init
                 PROVE  WholeInv
    OBVIOUS
  <2>2. FilesInv /\ DiskInv
    BY <2>1, InitHolds, InitDisk
  <2>3. \A r \in Requests : asked[r] = None /\ body[r] = None
    BY <2>1 DEF Init
  <2> QED BY <2>2, <2>3 DEF WholeInv, Progress, UploadGoes, CopyGoes, ItemsGo, BodyGoes
<1>2. WholeInv /\ [Next]_vars => WholeInv'
  BY NextKeeps, NextDisk, GoesOn DEF WholeInv
<1> QED BY <1>1, <1>2, PTL DEF Spec

\* An upload that was answered as done has left its own bytes at its path and no others, and a
\* refused one nothing, unless something came near it: whatever other requests did meanwhile,
\* wherever the process died.
THEOREM UploadToldTruly == Spec => []UploadTold
<1>1. WholeInv => UploadTold
  <2>1. SUFFICES ASSUME WholeInv, NEW r \in Requests, asked[r] # None, asked[r].kind = "upload",
                        Undisturbed(r)
                 PROVE  LET p == asked[r].path
                        IN  /\ outcome[r] = "ok" => IsFile(p) /\ content[fs[p]] = Sent(r)
                            /\ outcome[r] = "refused" /\ asked[r].scan # "name" => fs[p] = None
    BY DEF UploadTold
  <2> QED BY <2>1 DEF WholeInv, Progress, UploadGoes, UploadFits
<1> QED BY <1>1, WholeInvariance, PTL

\* A copy that was answered as done has each part of its source, folder or file, block by block,
\* unless something came near it.
THEOREM CopyIsWhole == Spec => []CopyWhole
<1>1. WholeInv => CopyWhole
  <2>1. SUFFICES ASSUME WholeInv, NEW r \in Requests, outcome[r] = "ok", asked[r].kind = "copy",
                        Undisturbed(r), NEW p \in {asked[r].path} \cup Under(asked[r].path),
                        ~IsPrefix(Goal(asked[r]), p)
                 PROVE  Like(p, Image(p, asked[r].path, Goal(asked[r])))
    BY DEF CopyWhole
  <2>2. asked[r] # None /\ asked[r] \in Asks /\ task[r] = None
    BY <2>1 DEF WholeInv, FilesInv, TypeOK, DiskInv, EndedIs
  <2>3. asked[r].path \in Paths /\ IsPrefix(asked[r].path, asked[r].path)
    BY <2>1, <2>2, CopyNames
  <2>4. p \in Part(asked[r])
    BY <2>1, <2>3 DEF Part, Under, IsStrictPrefix
  <2>5. CopyFits(r)
    BY <2>1, <2>2 DEF WholeInv, Progress, CopyGoes
  <2> QED BY <2>1, <2>2, <2>4, <2>5 DEF CopyFits, At
<1> QED BY <1>1, WholeInvariance, PTL

\* A deletion or a move that was answered has an answer for each of its complete items, and an
\* item that the answer names as done, with no incomplete one up to it, is gone with all that was
\* below, unless something came near it.
THEOREM ItemsTold == Spec => []ItemsToldTruly
<1>1. WholeInv => ItemsToldTruly
  <2>1. SUFFICES ASSUME WholeInv, NEW r \in Requests, outcome[r] = "ok", asked[r].kind = "items"
                 PROVE  LET ops == asked[r].ops
                        IN  /\ Len(results[r]) = Cardinality(Executed(ops))
                            /\ Undisturbed(r) => \A k \in DOMAIN results[r] :
                                 LET i == results[r][k].item
                                 IN  results[r][k].ok /\ 1..i \subseteq Executed(ops) /\ ~Back(ops, i) =>
                                         \A p \in Paths : IsPrefix(ops[i].path, p) => fs[p] = None
    BY DEF ItemsToldTruly
  <2>2. asked[r] # None /\ task[r] = None /\ asked[r] \in Asks /\ Len(results[r]) \in Nat
        /\ DOMAIN results[r] = 1..Len(results[r])
    BY <2>1, LenProperties DEF WholeInv, DiskInv, EndedIs, FilesInv, TypeOK
  <2>3. Tried(r) = Executed(asked[r].ops)
    BY <2>2 DEF Tried
  <2>4. /\ Len(results[r]) = Cardinality(Tried(r))
        /\ \A k \in DOMAIN results[r] : results[r][k].item = k
        /\ Undisturbed(r) => \A i \in Tried(r) : Gone(r, i)
    BY <2>1, <2>2 DEF WholeInv, Progress, ItemsGo
  <2>5. ASSUME NEW k \in DOMAIN results[r], 1..k \subseteq Executed(asked[r].ops)
        PROVE  Place(asked[r].ops, k) = k /\ k \in Tried(r)
    <3>1. k \in Nat /\ k \in 1..k
      BY <2>2
    <3>2. k \in Executed(asked[r].ops) /\ \A j \in Executed(asked[r].ops) : j \in 1..2
      BY <2>1, <2>2, <2>5, <3>1, Places
    <3>3. {j \in Executed(asked[r].ops) : j <= k} = 1..k
      BY <2>5, <3>1, <3>2
    <3>4. Cardinality(1..k) = k
      BY <3>1, FS_Interval
    <3> QED BY <2>3, <3>2, <3>3, <3>4 DEF Place
  <2>6. ASSUME Undisturbed(r), NEW k \in DOMAIN results[r], results[r][k].ok,
               1..k \subseteq Executed(asked[r].ops), ~Back(asked[r].ops, k)
        PROVE  \A p \in Paths : IsPrefix(asked[r].ops[k].path, p) => fs[p] = None
    <3>1. Place(asked[r].ops, k) = k /\ Gone(r, k)
      BY <2>4, <2>5, <2>6
    <3> QED BY <2>6, <3>1 DEF Gone
  <2> QED BY <2>3, <2>4, <2>6
<1> QED BY <1>1, WholeInvariance, PTL

\* What a download was answered in full with is as long as announced, and the part asked for of
\* the file, unless something came near it since it began.
THEOREM BodyAsAnnounced == Spec => []BodyAnnounced
<1>1. WholeInv => BodyAnnounced
  <2>1. SUFFICES ASSUME WholeInv, NEW r \in Requests, outcome[r] = "ok", body[r] # None
                 PROVE  /\ Len(body[r].sent) = Len(body[r].head)
                        /\ Undisturbed(r) =>
                             LET c == content[fs[asked[r].path]]   range == asked[r].range
                             IN  /\ Final(range, Len(c)) <= Len(c)
                                 /\ body[r].sent = SubSeq(c, First(range, Len(c)), Final(range, Len(c)))
    BY DEF BodyAnnounced
  <2>2. /\ asked[r] # None /\ asked[r].kind = "download"
        /\ Len(body[r].sent) = Len(body[r].head)
        /\ Undisturbed(r) => BodyFits(r)
    BY <2>1 DEF WholeInv, Progress, BodyGoes
  <2> QED BY <2>1, <2>2 DEF BodyFits
<1> QED BY <1>1, WholeInvariance, PTL
=============================================================================
