-------------------------------- MODULE Files --------------------------------
(***************************************************************************)
(* The files of one storage, and the requests that upload, copy, move,     *)
(* delete, list and download them: the handlers of                         *)
(* src/src/api/storage/handlers.py, the operations of file_ops.py, which   *)
(* run in threads, and the responses of streaming.py.  Chunked uploads are *)
(* in ChunkedUpload.                                                       *)
(*                                                                         *)
(* The file system is external and modelled as POSIX has it: a file is a   *)
(* node that goes on existing for who has it open when it is renamed,      *)
(* removed or replaced.  Contents are sequences of blocks, of which each   *)
(* names the request that sent it.  Requests outside the scope or the mode *)
(* of their key are refused first and are left out.                        *)
(***************************************************************************)
EXTENDS Integers, SequencesExt

CONSTANTS Requests,
          Order,    \* every path that there may be, sorted: each a sequence of names
          Folders,  \* the folders at the start
          Stored,   \* the files at the start
          Asks,     \* bound: what requests may ask for
          Limit,    \* max_file_size, in blocks
          Crashes,  \* bound: whether the process may die
          Dir, Old, None

Paths  == ToSet(Order)
Nodes  == (Requests \cup {Old}) \X Paths
Blocks == ((Requests \cup {Old}) \X (1..Limit + 1)) \cup {None}

\* What can be asked.  An upload sends n blocks, of which the scanner rejects the name or the
\* first one; an operation without a target is incomplete; a range is "first-last", of which
\* either may be missing, or None.
Operation == [op : {"move", "delete"}, path : Paths, to : Paths \cup {None}]
Ask ==
    [kind : {"upload"}, path : Paths, n : 0..Limit + 1, scan : {"clean", "name", "magic"}]
    \cup [kind : {"copy"}, path : Paths, to : Paths]
    \cup [kind : {"mkdir"}, path : Paths]
    \cup [kind : {"items"}, bulk : BOOLEAN, ops : UNION {[1..k -> Operation] : k \in 1..2}]
    \cup [kind : {"download"}, path : Paths,
          range : ((0..Limit \cup {None}) \X (0..Limit \cup {None})) \cup {None}]
    \cup [kind : {"list"}, path : Paths \cup {<<>>}, deep : BOOLEAN, limit : 1..2, offset : 0..1]

ASSUME FilesAssumption ==
    /\ Folders \cup Stored \subseteq Paths
    /\ \A p \in Paths : p \in Seq(ToSet(p)) \ {<<>>}
    /\ \A p \in Paths : Len(p) <= 2  \* bound: a folder in a folder is empty
    /\ \A p \in Paths : Front(p) \in Paths \cup {<<>>}
    /\ \A p \in Folders \cup Stored : Front(p) \in Folders \cup {<<>>}
    /\ Limit \in Nat \ {0}
    /\ Crashes \in BOOLEAN
    /\ \A a \in Asks : a \in Ask
    /\ Old \notin Requests
    /\ None \notin Asks /\ None \notin Paths /\ None \notin Nodes
    /\ None \notin Requests \X (1..Limit + 1)
    /\ None \notin (0..Limit \cup {None}) \X (0..Limit \cup {None})
    /\ Dir \notin Nodes /\ Dir # None

VARIABLES fs,       \* external: what is at each path
          content,  \* external: the blocks of each node
          asked,    \* what each request asks for
          task,     \* the requests in flight
          outcome,  \* how each request ended
          results,  \* of each request with items: what is answered of them
          body,     \* of each download: what its headers announce, and what was sent
          page,     \* of each listing: the items answered, and the total
          cache,    \* CacheManager, the entries "ls:.."
          before    \* history: the requests that had ended when a request began

vars == <<fs, content, asked, task, outcome, results, body, page, cache, before>>
disk == <<fs, content>>
told == <<results, body, page>>

\* What is answered of an item: the operation that it is said to be, and whether that succeeded.
Answer == [item : 1..2, ok : BOOLEAN]

Step(at) == [at |-> at, node |-> None, from |-> None, i |-> 0, todo |-> {}, bad |-> FALSE]

Steps == {"open", "write", "discard", "tree", "file", "copy", "item", "scan", "remove", "rmtree",
          "serve", "stream", "lookup", "scandir", "store"}
Tasks == [at : Steps, node : Nodes \cup {None}, from : Nodes \cup {None}, i : 0..Limit + 1,
          todo : SUBSET (Paths \X Paths), bad : BOOLEAN]

ASSUME TaskAssumption == None \notin Tasks

TypeOK ==
    /\ fs \in [Paths -> Nodes \cup {Dir, None}]
    /\ content \in [Nodes -> Seq(Blocks)]
    /\ \A n \in Nodes : Len(content[n]) <= Limit + 1
    /\ asked \in [Requests -> Asks \cup {None}]
    /\ task \in [Requests -> Tasks \cup {None}]
    /\ \A r \in Requests : task[r] # None => asked[r] # None
    /\ outcome \in [Requests -> {"none", "ok", "refused", "failed"}]
    /\ results \in [Requests -> Seq(Answer)]
    /\ \A r \in Requests : Len(results[r]) <= 2
    /\ body \in [Requests -> [head : Seq(Blocks), sent : Seq(Blocks)] \cup {None}]
    /\ before \in [Requests -> SUBSET Requests]

Init ==
    /\ fs = [p \in Paths |-> IF p \in Folders THEN Dir ELSE IF p \in Stored THEN <<Old, p>> ELSE None]
    /\ content = [n \in Nodes |-> IF n[1] = Old /\ n[2] \in Stored THEN <<<<Old, 1>>, <<Old, 2>>>>
                                  ELSE <<>>]
    /\ asked = [r \in Requests |-> None]
    /\ task = [r \in Requests |-> None]
    /\ outcome = [r \in Requests |-> "none"]
    /\ results = [r \in Requests |-> <<>>]
    /\ body = [r \in Requests |-> None]
    /\ page = [r \in Requests |-> None]
    /\ cache = [k \in (Paths \cup {<<>>}) \X BOOLEAN |-> None]
    /\ before = [r \in Requests |-> {}]

-----------------------------------------------------------------------------
(* Paths and what the system calls make of them.                           *)

Parent(p)       == Front(p)
Under(p)        == {q \in Paths : IsStrictPrefix(p, q)}
Image(q, s, t)  == t \o SubSeq(q, Len(s) + 1, Len(q))
IsDir(p)        == p \in {<<>>} \cup {q \in Paths : fs[q] = Dir}
IsFile(p)       == fs[p] \in Nodes
Children(p)     == {q \in Paths : Parent(q) = p /\ fs[q] # None}

\* Bound: what is below s has a path below t.
InBounds(s, t) == \A q \in Under(s) : fs[q] # None => Image(q, s, t) \in Paths

\* os.makedirs(p, exist_ok=True)
CanMakeDirs(p) == \A q \in Paths : IsPrefix(q, p) => ~IsFile(q)
WithDirs(p)    == [q \in Paths |-> IF IsPrefix(q, p) THEN Dir ELSE fs[q]]

\* os.rename: a file may replace a file, a folder an empty folder.
CanRename(s, t) ==
    /\ fs[s] # None /\ IsDir(Parent(t)) /\ ~IsStrictPrefix(s, t)
    /\ \/ s = t \/ fs[t] = None
       \/ IsFile(s) /\ IsFile(t)
       \/ fs[s] = Dir /\ fs[t] = Dir /\ Children(t) = {}
Renamed(s, t) ==
    [p \in Paths |-> CASE s # t /\ IsPrefix(t, p) /\ Image(p, t, s) \in Paths -> fs[Image(p, t, s)]
                       [] s # t /\ ~IsPrefix(t, p) /\ IsPrefix(s, p) -> None
                       [] OTHER -> fs[p]]

\* open(p, "wb"): an empty file, the one that is there or a new one.
CanOpen(p)    == IsDir(Parent(p)) /\ fs[p] # Dir
Opened(r, p)  == IF fs[p] = None THEN <<r, p>> ELSE fs[p]
Opening(r, p) == /\ fs' = [fs EXCEPT ![p] = Opened(r, p)]
                 /\ content' = [content EXCEPT ![Opened(r, p)] = <<>>]

\* A block written where the handle stands; a file shortened meanwhile has a hole before it.
Written(c, i, b) == [j \in 1..(IF i > Len(c) THEN i ELSE Len(c)) |->
                       IF j = i THEN b ELSE IF j <= Len(c) THEN c[j] ELSE None]

End(r, result) ==
    /\ task' = [task EXCEPT ![r] = None]
    /\ outcome' = [outcome EXCEPT ![r] = result]

Go(r, step) == task' = [task EXCEPT ![r] = step] /\ UNCHANGED outcome

At(r, step) == task[r] # None /\ task[r].at = step

-----------------------------------------------------------------------------
(* Direct uploads.                                                         *)

\* _handle_direct_upload: the name is checked, the folder made at once.
BeginUpload(r, q) ==
    /\ q.kind = "upload"
    /\ \/ q.scan = "name" /\ End(r, "refused") /\ UNCHANGED fs
       \/ q.scan # "name" /\ ~CanMakeDirs(Parent(q.path)) /\ End(r, "failed") /\ UNCHANGED fs
       \/ /\ q.scan # "name" /\ CanMakeDirs(Parent(q.path))
          /\ fs' = WithDirs(Parent(q.path))
          /\ Go(r, Step("open"))
    /\ UNCHANGED <<content, told>>

\* The target is opened "wb" under its own name: what was there is gone.
Open(r) ==
    /\ At(r, "open")
    /\ LET p == asked[r].path
       IN  \/ ~CanOpen(p) /\ End(r, "failed") /\ UNCHANGED disk
           \/ /\ CanOpen(p)
              /\ Opening(r, p)
              /\ Go(r, [Step("write") EXCEPT !.node = Opened(r, p)])
    /\ UNCHANGED <<asked, told, cache, before>>

\* Mutant: the block is written, then scanned.
Write_then_scan(r) ==
    /\ At(r, "write")
    /\ LET q == asked[r]   i == task[r].i + 1   n == task[r].node
       IN  \/ i > q.n /\ End(r, "ok") /\ UNCHANGED content
           \/ /\ i <= q.n
              /\ content' = [content EXCEPT ![n] = Written(@, i, <<r, i>>)]
              /\ IF i > Limit \/ q.scan = "magic" THEN Go(r, Step("discard"))
                 ELSE Go(r, [task[r] EXCEPT !.i = i])
    /\ UNCHANGED <<fs, asked, told, cache, before>>

\* The next block: the first one is scanned and then written, each one written and then
\* counted; or there is none and the upload is answered, with its event.
Write(r) ==
    /\ At(r, "write")
    /\ LET q == asked[r]   i == task[r].i + 1   n == task[r].node
       IN  \/ i > q.n /\ End(r, "ok") /\ UNCHANGED content
           \/ i = 1 /\ i <= q.n /\ q.scan = "magic" /\ Go(r, Step("discard")) /\ UNCHANGED content
           \/ /\ i <= q.n /\ ~(i = 1 /\ q.scan = "magic")
              /\ content' = [content EXCEPT ![n] = Written(@, i, <<r, i>>)]
              /\ IF i > Limit THEN Go(r, Step("discard")) ELSE Go(r, [task[r] EXCEPT !.i = i])
    /\ UNCHANGED <<fs, asked, told, cache, before>>

\* Mutant: what was written stays.
Discard_keeps(r) ==
    /\ At(r, "discard")
    /\ End(r, "refused")
    /\ UNCHANGED <<disk, asked, told, cache, before>>

\* Once the handle is closed, what is at the path by then is removed.
Discard(r) ==
    /\ At(r, "discard")
    /\ LET p == asked[r].path
       IN  \/ fs[p] = Dir /\ End(r, "failed") /\ UNCHANGED fs
           \/ fs[p] # Dir /\ End(r, "refused") /\ fs' = [fs EXCEPT ![p] = None]
    /\ UNCHANGED <<content, asked, told, cache, before>>

-----------------------------------------------------------------------------
(* copy and mkdir.                                                         *)

BeginCopy(r, q) ==
    /\ q.kind = "copy"
    /\ Go(r, Step(IF IsDir(q.path) THEN "tree" ELSE "file"))
    /\ UNCHANGED <<disk, told>>

\* shutil.copytree: the entries are listed and the target made, which must not exist.
CopyTree(r) ==
    /\ At(r, "tree")
    /\ LET s == asked[r].path   t == asked[r].to
       IN  \/ /\ IsDir(s) /\ fs[t] = None /\ CanMakeDirs(t) /\ InBounds(s, t)
              /\ fs' = WithDirs(t)
              /\ Go(r, [Step("copy") EXCEPT !.todo = {<<c, Image(c, s, t)>> : c \in Children(s)}])
           \/ ~(IsDir(s) /\ fs[t] = None /\ CanMakeDirs(t)) /\ End(r, "failed") /\ UNCHANGED fs
    /\ UNCHANGED <<content, asked, told, cache, before>>

\* shutil.copy2: into the target, if it is a folder.  Bound: the goal is one of the paths.
CopyFile(r) ==
    /\ At(r, "file")
    /\ LET s == asked[r].path   t == asked[r].to
           goal == IF IsDir(t) THEN Append(t, Last(s)) ELSE t
       IN  goal \in Paths /\ Go(r, [Step("copy") EXCEPT !.todo = {<<s, goal>>}])
    /\ UNCHANGED <<disk, asked, told, cache, before>>

\* One entry, a folder by a copytree of its own: what cannot be copied is remembered and raised
\* at the end.
CopyOpen(r) ==
    /\ At(r, "copy") /\ task[r].node = None
    /\ \E e \in task[r].todo :
          LET rest == [task[r] EXCEPT !.todo = @ \ {e}]   s == e[1]   t == e[2]
          IN  \/ /\ IsFile(s) /\ CanOpen(t) /\ fs[s] # fs[t]
                 /\ Opening(r, t)
                 /\ Go(r, [rest EXCEPT !.node = Opened(r, t), !.from = fs[s]])
              \/ /\ fs[s] = Dir /\ asked[r].path # s /\ fs[t] = None /\ CanMakeDirs(t)
                 /\ fs' = WithDirs(t)
                 /\ Go(r, rest) /\ UNCHANGED content
              \/ /\ ~(IsFile(s) /\ CanOpen(t) /\ fs[s] # fs[t])
                 /\ ~(fs[s] = Dir /\ asked[r].path # s /\ fs[t] = None /\ CanMakeDirs(t))
                 /\ Go(r, [rest EXCEPT !.bad = TRUE]) /\ UNCHANGED disk
    /\ UNCHANGED <<asked, told, cache, before>>

\* Mutant: the last block is not copied.
CopyBlock_but_last(r) ==
    /\ At(r, "copy") /\ task[r].node # None
    /\ LET i == task[r].i + 1   source == content[task[r].from]
       IN  \/ /\ i < Len(source) /\ i <= Limit + 1
              /\ content' = [content EXCEPT ![task[r].node] = Written(@, i, source[i])]
              /\ Go(r, [task[r] EXCEPT !.i = i])
           \/ /\ ~(i < Len(source) /\ i <= Limit + 1)
              /\ Go(r, [task[r] EXCEPT !.node = None, !.from = None, !.i = 0])
              /\ UNCHANGED content
    /\ UNCHANGED <<fs, asked, told, cache, before>>

CopyBlock(r) ==
    /\ At(r, "copy") /\ task[r].node # None
    /\ LET i == task[r].i + 1   source == content[task[r].from]
       IN  \/ /\ i <= Len(source)
              /\ content' = [content EXCEPT ![task[r].node] = Written(@, i, source[i])]
              /\ Go(r, [task[r] EXCEPT !.i = i])
           \/ /\ i > Len(source)
              /\ Go(r, [task[r] EXCEPT !.node = None, !.from = None, !.i = 0])
              /\ UNCHANGED content
    /\ UNCHANGED <<fs, asked, told, cache, before>>

CopyEnd(r) ==
    /\ At(r, "copy") /\ task[r].node = None /\ task[r].todo = {}
    /\ End(r, IF task[r].bad THEN "failed" ELSE "ok")
    /\ UNCHANGED <<disk, asked, told, cache, before>>

BeginMkdir(r, q) ==
    /\ q.kind = "mkdir"
    /\ \/ CanMakeDirs(q.path) /\ fs' = WithDirs(q.path) /\ End(r, "ok")
       \/ ~CanMakeDirs(q.path) /\ End(r, "failed") /\ UNCHANGED fs
    /\ UNCHANGED <<content, told>>

-----------------------------------------------------------------------------
(* rename, move, delete, and their bulk forms: items, one after another.   *)
(* The k-th result is answered as that of the k-th operation of the        *)
(* request, though incomplete ones have no result.                         *)

\* The operations that are executed: incomplete ones are left out beforehand.
Complete(o)   == o.op = "delete" \/ o.to # None
Executed(ops) == {i \in DOMAIN ops : Complete(ops[i])}

\* The first of those in S has its turn.
Turn(r, S) == \E i \in S : (\A j \in S : i <= j) /\ Go(r, [Step("item") EXCEPT !.i = i])

BeginItems(r, q) ==
    /\ q.kind = "items"
    /\ \/ Turn(r, Executed(q.ops))
       \/ Executed(q.ops) = {} /\ End(r, "ok")
    /\ UNCHANGED <<disk, told>>

\* The items after the current one.
Rest(r) == {i \in Executed(asked[r].ops) : i > task[r].i}

\* Mutant: a bulk request ends with the first item that fails.
Item_stops(r, ok) ==
    /\ results' = [results EXCEPT ![r] = Append(@, [item |-> Len(@) + 1, ok |-> ok])]
    /\ \/ ok /\ Turn(r, Rest(r))
       \/ ~(ok /\ Rest(r) # {}) /\ End(r, "ok")

\* Mutant: a failed item is noted by the operation and again by the handler.
Item_twice(r, ok) ==
    /\ LET more == Append(results[r], [item |-> Len(results[r]) + 1, ok |-> ok])
       IN  results' = [results EXCEPT ![r] = IF ok THEN more ELSE Append(more, Last(more))]
    /\ \/ Turn(r, Rest(r))
       \/ Rest(r) = {} /\ End(r, IF asked[r].bulk \/ ok THEN "ok" ELSE "failed")

\* The end of an item: noted in a bulk request, which goes on; answered in another one.
Item(r, ok) ==
    /\ results' = [results EXCEPT ![r] = Append(@, [item |-> Len(@) + 1, ok |-> ok])]
    /\ \/ Turn(r, Rest(r))
       \/ Rest(r) = {} /\ End(r, IF asked[r].bulk \/ ok THEN "ok" ELSE "failed")

Current(r) == asked[r].ops[task[r].i]

Move(r) ==
    /\ At(r, "item") /\ Current(r).op = "move"
    /\ LET s == Current(r).path   t == Current(r).to
       IN  \/ CanRename(s, t) /\ InBounds(s, t) /\ fs' = Renamed(s, t) /\ Item(r, TRUE)
           \/ ~CanRename(s, t) /\ UNCHANGED fs /\ Item(r, FALSE)
    /\ UNCHANGED <<content, asked, body, page, cache, before>>

\* delete_path: it exists and is a folder or not, and then a thread removes it.
Delete(r) ==
    /\ At(r, "item") /\ Current(r).op = "delete"
    /\ \/ fs[Current(r).path] = None /\ Item(r, FALSE)
       \/ /\ fs[Current(r).path] # None /\ UNCHANGED results
          /\ Go(r, [Step(IF IsDir(Current(r).path) THEN "scan" ELSE "remove") EXCEPT !.i = task[r].i])
    /\ UNCHANGED <<disk, asked, body, page, cache, before>>

Unlink(r) ==
    /\ At(r, "remove")
    /\ LET p == Current(r).path
       IN  \/ IsFile(p) /\ fs' = [fs EXCEPT ![p] = None] /\ Item(r, TRUE)
           \/ ~IsFile(p) /\ UNCHANGED fs /\ Item(r, FALSE)
    /\ UNCHANGED <<content, asked, body, page, cache, before>>

\* shutil.rmtree: the entries are listed, removed one by one, and the folder last, if no other
\* has come into it.  Abstracted: entries are named by their paths; where the platform has it
\* rmtree holds the folder open, and a folder renamed meanwhile goes on losing its entries.
RmtreeScan(r) ==
    /\ At(r, "scan")
    /\ LET p == Current(r).path
       IN  \/ /\ fs[p] = Dir /\ UNCHANGED results
              /\ Go(r, [task[r] EXCEPT !.at = "rmtree", !.todo = {<<c, c>> : c \in Children(p)}])
           \/ fs[p] # Dir /\ Item(r, FALSE)
    /\ UNCHANGED <<disk, asked, body, page, cache, before>>

Rmtree(r) ==
    /\ At(r, "rmtree")
    /\ LET p == Current(r).path
       IN  \/ \E e \in task[r].todo :
                \/ /\ fs[e[1]] # None /\ Children(e[1]) = {}
                   /\ fs' = [fs EXCEPT ![e[1]] = None]
                   /\ Go(r, [task[r] EXCEPT !.todo = @ \ {e}]) /\ UNCHANGED results
                \/ /\ fs[e[1]] = None \/ Children(e[1]) # {}
                   /\ UNCHANGED fs /\ Item(r, FALSE)
           \/ /\ task[r].todo = {} /\ fs[p] = Dir /\ Children(p) = {}
              /\ fs' = [fs EXCEPT ![p] = None] /\ Item(r, TRUE)
           \/ /\ task[r].todo = {} /\ (fs[p] # Dir \/ Children(p) # {})
              /\ UNCHANGED fs /\ Item(r, FALSE)
    /\ UNCHANGED <<content, asked, body, page, cache, before>>

-----------------------------------------------------------------------------
(* Downloads.                                                              *)

\* Mutant: the last byte asked for is not sent.
Bounds_exclusive(range, size) ==
    LET a == range[1]   b == range[2]
    IN  IF a = None THEN IF b # None /\ 0 < b /\ b <= size THEN <<size - b, size - 1>> ELSE None
        ELSE LET end == IF b = None THEN size - 1 ELSE b - 1
             IN  IF a < size /\ a <= end /\ end < size THEN <<a, end>> ELSE None

\* _evaluate_range_bounds: the offsets of the first and the last byte, here block.
Bounds(range, size) ==
    LET a == range[1]   b == range[2]
    IN  IF a = None THEN IF b # None /\ 0 < b /\ b <= size THEN <<size - b, size - 1>> ELSE None
        ELSE LET end == IF b = None THEN size - 1 ELSE b
             IN  IF a < size /\ a <= end /\ end < size THEN <<a, end>> ELSE None

\* A folder is answered with an archive.
BeginDownload(r, q) ==
    /\ q.kind = "download"
    /\ \/ fs[q.path] = Dir /\ End(r, "ok")
       \/ fs[q.path] # Dir /\ Go(r, Step("serve"))
    /\ UNCHANGED <<disk, told>>

\* serve_file: the headers tell of the file that is there now.
Serve(r) ==
    /\ At(r, "serve")
    /\ LET p == asked[r].path   range == asked[r].range
       IN  \/ ~IsFile(p) /\ End(r, "refused") /\ UNCHANGED body
           \/ /\ IsFile(p)
              /\ LET c == content[fs[p]]
                     b == IF range = None THEN <<0, Len(c) - 1>> ELSE Bounds(range, Len(c))
                 IN  \/ b = None /\ End(r, "refused") /\ UNCHANGED body
                     \/ /\ b # None
                        /\ body' = [body EXCEPT ![r] = [head |-> SubSeq(c, b[1] + 1, b[2] + 1),
                                                       sent |-> <<>>]]
                        /\ Go(r, [Step("stream") EXCEPT !.i = b[1]])
    /\ UNCHANGED <<disk, asked, results, page, cache, before>>

\* The file is opened when the response is sent, by its path again.
StreamOpen(r) ==
    /\ At(r, "stream") /\ task[r].node = None
    /\ LET p == asked[r].path
       IN  \/ IsFile(p) /\ Go(r, [task[r] EXCEPT !.node = fs[p]])
           \/ ~IsFile(p) /\ End(r, "failed")
    /\ UNCHANGED <<disk, asked, told, cache, before>>

\* The next block; with a range, no more than it has.  A body of another length than
\* announced is an error of the connection.
Stream(r) ==
    /\ At(r, "stream") /\ task[r].node # None
    /\ LET c == content[task[r].node]   i == task[r].i + 1
           sent == Len(body[r].sent)   head == Len(body[r].head)
           more == i <= Len(c) /\ (asked[r].range # None => sent < head)
       IN  \/ /\ more /\ sent < head
              /\ body' = [body EXCEPT ![r].sent = Append(@, c[i])]
              /\ Go(r, [task[r] EXCEPT !.i = i])
           \/ ~more /\ sent = head /\ End(r, "ok") /\ UNCHANGED body
           \/ more /\ sent = head /\ End(r, "failed") /\ UNCHANGED body
           \/ ~more /\ sent < head /\ End(r, "failed") /\ UNCHANGED body
    /\ UNCHANGED <<disk, asked, results, page, cache, before>>

-----------------------------------------------------------------------------
(* Listings.                                                               *)

Entries(p, deep) ==
    SelectSeq(Order, LAMBDA q : fs[q] # None /\ (Parent(q) = p \/ (deep /\ IsStrictPrefix(p, q))))
Slice(s, q) == SubSeq(s, q.offset + 1, IF q.offset + q.limit > Len(s) THEN Len(s) ELSE q.offset + q.limit)

BeginList(r, q) ==
    /\ q.kind = "list"
    /\ Go(r, Step("lookup"))
    /\ UNCHANGED <<disk, told>>

\* A hit is sliced as though it were all of the entries.
Lookup(r) ==
    /\ At(r, "lookup")
    /\ LET q == asked[r]   hit == cache[<<q.path, q.deep>>]
       IN  \/ /\ hit # None /\ End(r, "ok")
              /\ page' = [page EXCEPT ![r] = [items |-> Slice(hit.items, q), total |-> hit.total]]
           \/ hit = None /\ Go(r, Step("scandir")) /\ UNCHANGED page
    /\ UNCHANGED <<disk, asked, results, body, cache, before>>

\* The thread sorts the entries and keeps those of the page.
Scandir(r) ==
    /\ At(r, "scandir")
    /\ LET q == asked[r]   all == Entries(q.path, q.deep)
       IN  \/ /\ IsDir(q.path)
              /\ page' = [page EXCEPT ![r] = [items |-> Slice(all, q), total |-> Len(all)]]
              /\ Go(r, Step("store"))
           \/ ~IsDir(q.path) /\ End(r, "refused") /\ UNCHANGED page
    /\ UNCHANGED <<disk, asked, results, body, cache, before>>

Store(r) ==
    /\ At(r, "store")
    /\ cache' = [cache EXCEPT ![<<asked[r].path, asked[r].deep>>] = page[r]]
    /\ End(r, "ok")
    /\ UNCHANGED <<disk, asked, told, before>>

Expire(k) ==
    /\ cache[k] # None
    /\ cache' = [cache EXCEPT ![k] = None]
    /\ UNCHANGED <<disk, asked, task, outcome, told, before>>

-----------------------------------------------------------------------------
\* The process dies; what is on the disk stays as it is.
Crash ==
    /\ Crashes
    /\ \E r \in Requests : task[r] # None
    /\ outcome' = [r \in Requests |-> IF task[r] # None THEN "failed" ELSE outcome[r]]
    /\ task' = [r \in Requests |-> None]
    /\ cache' = [k \in DOMAIN cache |-> None]
    /\ UNCHANGED <<disk, asked, told, before>>

Begin(r) ==
    /\ asked[r] = None
    /\ \E q \in Asks :
         /\ asked' = [asked EXCEPT ![r] = q]
         /\ \/ BeginUpload(r, q) \/ BeginCopy(r, q) \/ BeginMkdir(r, q)
            \/ BeginItems(r, q) \/ BeginDownload(r, q) \/ BeginList(r, q)
    /\ before' = [before EXCEPT ![r] = {q \in Requests : outcome[q] # "none"}]
    /\ UNCHANGED cache

Run(r) ==
    \/ Open(r) \/ Write(r) \/ Discard(r)
    \/ CopyTree(r) \/ CopyFile(r) \/ CopyOpen(r) \/ CopyBlock(r) \/ CopyEnd(r)
    \/ Move(r) \/ Delete(r) \/ Unlink(r) \/ RmtreeScan(r) \/ Rmtree(r)
    \/ Serve(r) \/ StreamOpen(r) \/ Stream(r) \/ Lookup(r) \/ Scandir(r) \/ Store(r)

Next ==
    \/ \E r \in Requests : Begin(r) \/ Run(r)
    \/ \E k \in DOMAIN cache : Expire(k)
    \/ Crash

Spec == Init /\ [][Next]_vars

-----------------------------------------------------------------------------
(* Properties.                                                             *)

\* The paths that a request names, and whether it changes anything.
Named(q) ==
    CASE q.kind = "copy"  -> {q.path, q.to}
      [] q.kind = "items" -> UNION {{o.path, o.to} \ {None} : o \in ToSet(q.ops)}
      [] OTHER -> {q.path}
Near(q, s) == \E p \in Named(q), t \in Named(s) : IsPrefix(p, t) \/ IsPrefix(t, p)

Changing == {s \in Requests : asked[s] # None /\ asked[s].kind \notin {"download", "list"}}

\* Nothing that changes things came near one of S, unless it is in S too: what one was still
\* writing, others may have moved, one after another.
Closed(S) == \A s \in S : \A t \in Changing : Near(asked[s], asked[t]) => t \in S

\* All that came near r, or near what did, had ended when r began.
Undisturbed(r) == \E S \in SUBSET (before[r] \cup {r}) : r \in S /\ Closed(S)

Sent(r) == [i \in 1..asked[r].n |-> <<r, i>>]

\* An upload that was answered as done has left its own bytes at its path and no others, not a
\* rest of the file that was there, and one that was refused for its bytes or its size has left
\* nothing there, if no other request came near it since it began.
UploadTold ==
    \A r \in Requests :
        asked[r] # None /\ asked[r].kind = "upload" /\ Undisturbed(r) =>
            LET p == asked[r].path
            IN  /\ outcome[r] = "ok" => IsFile(p) /\ content[fs[p]] = Sent(r)
                /\ outcome[r] = "refused" /\ asked[r].scan # "name" => fs[p] = None

\* However uploads, copies and moves interleave, no file ever begins with bytes that the
\* scanner rejects.
NothingDangerous ==
    \A p \in Paths : IsFile(p) /\ content[fs[p]] # <<>> =>
        \A r \in Requests : asked[r] # None /\ asked[r].kind = "upload" /\ asked[r].scan = "magic"
            => content[fs[p]][1] # <<r, 1>>

\* Where a copy goes, and whether what is at x is like what is at p.
Goal(q)    == IF fs[q.path] # Dir /\ fs[q.to] = Dir THEN Append(q.to, Last(q.path)) ELSE q.to
Like(p, x) == \/ fs[p] = None /\ (x \notin Paths \/ fs[x] = None)
              \/ fs[p] = Dir /\ x \in Paths /\ fs[x] = Dir
              \/ IsFile(p) /\ x \in Paths /\ IsFile(x) /\ content[fs[x]] = content[fs[p]]

\* A copy that was answered as done is like its source, of a file or of a folder, which the
\* copy itself is no part of.
CopyWhole ==
    \A r \in Requests :
        outcome[r] = "ok" /\ asked[r].kind = "copy" /\ Undisturbed(r) =>
            LET s == asked[r].path   t == Goal(asked[r])
            IN  \A p \in {s} \cup Under(s) : ~IsPrefix(t, p) => Like(p, Image(p, s, t))

\* One of the operations from the i-th on puts something at, above or below what the i-th took
\* away.
Back(ops, i) == \E j \in Executed(ops) : j >= i /\ ops[j].to # None
                    /\ (IsPrefix(ops[j].to, ops[i].path) \/ IsPrefix(ops[i].path, ops[j].to))

\* Every complete item of a deletion or a move is tried, though others fail, and has an answer.
\* An item that the answer names as done has taken all that was at and below its path, unless a
\* later item or another request put something there, if it and the items before it are
\* complete: after an incomplete one the answers name other items than those that were tried.
ItemsToldTruly ==
    \A r \in Requests :
        outcome[r] = "ok" /\ asked[r].kind = "items" =>
            LET ops == asked[r].ops
            IN  /\ Len(results[r]) = Cardinality(Executed(ops))
                /\ Undisturbed(r) => \A k \in DOMAIN results[r] :
                     LET i == results[r][k].item
                     IN  results[r][k].ok /\ 1..i \subseteq Executed(ops) /\ ~Back(ops, i) =>
                             \A p \in Paths : IsPrefix(ops[i].path, p) => fs[p] = None

\* The first and the last block that are asked for, of n.
First(range, n) == IF range = None THEN 1
                   ELSE IF range[1] = None THEN n - range[2] + 1 ELSE range[1] + 1
Final(range, n) == IF range = None \/ range[1] = None \/ range[2] = None THEN n ELSE range[2] + 1

\* What was answered in full is what the headers announced, and that is the part of the file
\* that was asked for, if the file was left alone meanwhile; in any case it has the length.
BodyAnnounced ==
    \A r \in Requests :
        outcome[r] = "ok" /\ body[r] # None =>
            /\ Len(body[r].sent) = Len(body[r].head)
            /\ Undisturbed(r) =>
                 LET c == content[fs[asked[r].path]]   range == asked[r].range
                 IN  /\ Final(range, Len(c)) <= Len(c)
                     /\ body[r].sent = SubSeq(c, First(range, Len(c)), Final(range, Len(c)))

\* "Cache the full result so concurrent requests don't all hit the filesystem"
\* (api/storage/handlers.py:678): a cached listing has as many items as it tells.
FullResultCached ==
    \A k \in DOMAIN cache : cache[k] # None => Len(cache[k].items) = cache[k].total
=============================================================================
