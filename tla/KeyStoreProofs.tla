--------------------------- MODULE KeyStoreProofs ---------------------------
(***************************************************************************)
(* That a revocation which was answered holds, that administrators do not  *)
(* lock themselves out one at a time, that a definition which cannot be    *)
(* loaded was not acknowledged, and that a worker whose coroutines do not  *)
(* overlap acts on what the tables say; for any workers, keys and entries. *)
(***************************************************************************)
EXTENDS KeyStore, TLAPS

-----------------------------------------------------------------------------
(* Types.                                                                  *)

\* Where the coroutines of each kind may be.
StepsOf(kind) ==
    CASE kind \in {"create", "update", "drop"} -> {"write", "apply"}
      [] kind = "revoke" -> {"write", "apply", "ban", "banned"}
      [] kind = "ban" -> {"ban", "banned"}
      [] kind \in {"unban", "sweep"} -> {"unban", "unbanned"}
      [] kind \in {"add", "patch"} -> {"write"} \cup Loading
      [] OTHER -> Loading

KeyKinds == {"create", "update", "revoke", "ban", "unban", "sweep"}

\* A coroutine i is of a request, of a startup or of a removal, is about a key or an entry, and
\* an update that refers to a dictionary refers to one that is there.
Placed(i) ==
    /\ task[i].at \in StepsOf(task[i].kind)
    /\ task[i].kind \in KeyKinds => task[i].on \in Names
    /\ task[i].kind \in {"create", "update"} => task[i].rec \in Key
    /\ task[i].kind \in {"add", "patch", "drop"} => task[i].on \in Entries
    /\ task[i].kind = "revoke" /\ task[i].at \in {"ban", "banned"} => task[i].on \in Static
    /\ task[i].kind = "boot" <=> i \in Workers
    /\ task[i].kind = "sweep" <=> i \in Sweepers
    /\ i \in Workers => task[i].w = i /\ ~up[i]
    /\ i \notin Workers => up[task[i].w]
    /\ i \in Requests => outcome[i] = "none"
    /\ task[i].kind = "update" /\ task[i].linked => keys[task[i].w][task[i].on] # None

\* Coroutine i runs at worker w.
AtWorker(i, w) == task[i] # None /\ task[i].w = w

Shape == TypeOK /\ \A i \in Ids : task[i] # None => Placed(i)

LEMMA Distinct == /\ Requests \cap Workers = {} /\ Past \notin Requests /\ Past \in Writers
                  /\ Static \cap Dynamic = {} /\ Requests \subseteq Ids /\ Workers \subseteq Ids
                  /\ Requests \subseteq Writers /\ Static \subseteq Names /\ Dynamic \subseteq Names
                  /\ Sweepers \subseteq Ids /\ Sweepers \cap Requests = {} /\ Sweepers \cap Workers = {}
                  /\ None \notin Requests
BY KeyStoreAssumption DEF Writers, Ids, Names

LEMMA NewKeyType == ASSUME NEW r \in Writers PROVE NewKey(r) \in Key /\ NewKey(r) # None
<1>1. NewKey(r) \in Key
  BY DEF NewKey, Key
<1> QED BY <1>1, NoneAssumption

LEMMA InitType == Init => Shape
<1> SUFFICES ASSUME Init PROVE Shape
  OBVIOUS
<1>1. keyRow \in [Names -> Key \cup {None}]
  BY NewKeyType, Distinct DEF Init
<1>2. entryRow \in [Entries -> Entry \cup {None}]
  <2>1. [by |-> Past, valid |-> TRUE] \in Entry
    BY Distinct DEF Entry
  <2> HIDE DEF Entry
  <2> QED BY <2>1 DEF Init
<1>3. config \in [Workers -> [Entries -> Entry \cup {Toml, None}]]
  BY <1>2 DEF Init, TomlConfig
<1>4. TypeOK
  BY <1>1, <1>2, <1>3 DEF Init, TypeOK, NoBans
<1> QED BY <1>4 DEF Init, Shape

\* A coroutine whose dictionary is no longer the one in use.
Freed(t) == [t EXCEPT !.linked = FALSE]

LEMMA FreedType ==
    ASSUME NEW t \in Task
    PROVE  /\ Freed(t) \in Task /\ Freed(t) # None /\ ~Freed(t).linked
           /\ Freed(t).kind = t.kind /\ Freed(t).w = t.w /\ Freed(t).at = t.at /\ Freed(t).on = t.on
           /\ Freed(t).rec = t.rec /\ Freed(t).valid = t.valid /\ Freed(t).hit = t.hit
           /\ Freed(t).rows = t.rows /\ Freed(t).banned = t.banned /\ Freed(t).defs = t.defs
<1>1. Freed(t) \in Task
  BY DEF Freed, Task
<1>2. Freed(t) # None
  BY <1>1, NoneAssumption
<1> QED BY <1>1, <1>2 DEF Freed, Task

\* What a step of another coroutine may do to i: nothing, or it takes its dictionary.
Kept(i) == \/ task'[i] = task[i]
           \/ task[i] # None /\ task[i].kind = "update" /\ task'[i] = Freed(task[i])

\* Coroutine i is about what it was about.
Same(i) == /\ task'[i].kind = task[i].kind /\ task'[i].w = task[i].w /\ task'[i].on = task[i].on
           /\ task'[i].rec = task[i].rec /\ task'[i].valid = task[i].valid

\* Coroutine i takes a step or ends.
Stepped(i) == /\ Shape' /\ task[i] # None
              /\ \A j \in Ids : j # i => Kept(j)
              /\ task'[i] # None => Same(i)
              /\ \A j \in Requests : j # i => outcome'[j] = outcome[j]
              /\ i \in Requests /\ task'[i] = None => outcome'[i] # "none"

\* What loses its dictionary at worker w.
LEMMA UnlinkType ==
    ASSUME Shape, NEW w, NEW N
    PROVE  /\ Unlink(w, N) \in [Ids -> Task \cup {None}]
           /\ \A i \in Ids : \/ Unlink(w, N)[i] = task[i]
                             \/ /\ task[i] # None /\ task[i].kind = "update"
                                /\ Unlink(w, N)[i] = Freed(task[i])
           /\ \A i \in Ids : task[i] # None /\ task[i].kind = "update" /\ task[i].w = w /\ task[i].on \in N
                             => Unlink(w, N)[i] = Freed(task[i])
<1> DEFINE u == Unlink(w, N)
<1>1. ASSUME NEW i \in Ids, task[i] # None, task[i].kind = "update"
      PROVE  /\ task[i] \in Task /\ task[i].at \in {"write", "apply"}
             /\ Freed(task[i]) \in Task
  <2>1. task[i] \in Task /\ Placed(i)
    BY <1>1 DEF Shape, TypeOK
  <2>2. Freed(task[i]) \in Task
    BY <2>1, FreedType
  <2> QED BY <1>1, <2>1, <2>2 DEF Placed, StepsOf
<1>2. ASSUME NEW i \in Ids
      PROVE  u[i] = IF /\ task[i] # None /\ task[i].kind = "update" /\ task[i].w = w /\ task[i].on \in N
                    THEN Freed(task[i]) ELSE task[i]
  BY <1>1 DEF Unlink, At, Freed
<1>3. u = [i \in Ids |-> u[i]]
  BY DEF Unlink
<1> HIDE DEF u
<1>4. ASSUME NEW i \in Ids PROVE u[i] \in Task \cup {None}
  BY <1>1, <1>2 DEF Shape, TypeOK
<1>5. u \in [Ids -> Task \cup {None}]
  BY <1>3, <1>4
<1> QED BY <1>2, <1>5 DEF u

\* What is left to show of a step of coroutine i, of which the others keep what they are.
LEMMA OthersPlaced ==
    ASSUME Shape, TypeOK', NEW i \in Ids, up' = up,
           \A j \in Ids : j # i => Kept(j),
           \A j \in Requests : j # i => outcome'[j] = outcome[j],
           \A j \in Ids : j # i /\ task'[j] # None /\ task'[j].kind = "update" /\ task'[j].linked
                          => keys'[task'[j].w][task'[j].on] # None,
           task'[i] # None => Placed(i)'
    PROVE  Shape'
<1> SUFFICES ASSUME NEW j \in Ids, j # i, task'[j] # None PROVE Placed(j)'
  BY DEF Shape
<1>1. CASE task'[j] = task[j]
  <2>1. Placed(j) /\ task[j] \in Task
    BY <1>1 DEF Shape, TypeOK
  <2> QED BY <1>1, <2>1 DEF Placed
<1>2. CASE task[j] # None /\ task[j].kind = "update" /\ task'[j] = Freed(task[j])
  <2>1. Placed(j) /\ task[j] \in Task
    BY <1>2 DEF Shape, TypeOK
  <2>2. /\ task'[j].at = task[j].at /\ task'[j].kind = task[j].kind /\ task'[j].on = task[j].on
        /\ task'[j].rec = task[j].rec /\ task'[j].w = task[j].w /\ ~task'[j].linked
    BY <1>2, <2>1, FreedType
  <2> QED BY <1>2, <2>1, <2>2 DEF Placed
<1> QED BY <1>1, <1>2 DEF Kept

\* A coroutine that ends.
LEMMA EndType ==
    ASSUME Shape, NEW i \in Ids, task[i] # None, NEW result \in {"ok", "refused", "failed"},
           End(i, result)
    PROVE  /\ task' \in [Ids -> Task \cup {None}]
           /\ task'[i] = None
           /\ \A j \in Ids : j # i => task'[j] = task[j]
           /\ outcome' \in [Writers -> {"none", "ok", "refused", "failed"}]
           /\ \A j \in Writers : j # i => outcome'[j] = outcome[j]
           /\ i \in Requests => outcome'[i] = result
           /\ i \notin Requests => outcome' = outcome
BY Distinct DEF Shape, TypeOK, End

\* A coroutine that goes on.
LEMMA MoveType ==
    ASSUME Shape, NEW i \in Ids, task[i] # None, NEW step \in Steps, Move(i, step)
    PROVE  /\ task[i] \in Task
           /\ task' \in [Ids -> Task \cup {None}]
           /\ \A j \in Ids : j # i => task'[j] = task[j]
           /\ task'[i] # None /\ task'[i] = [task[i] EXCEPT !.at = step]
           /\ task'[i].at = step
<1>1. task[i] \in Task
  BY DEF Shape, TypeOK
<1>2. [task[i] EXCEPT !.at = step] \in Task /\ [task[i] EXCEPT !.at = step].at = step
  BY <1>1 DEF Task
<1>3. task' = [task EXCEPT ![i] = [task[i] EXCEPT !.at = step]]
  BY DEF Move
<1> QED BY <1>1, <1>2, <1>3, NoneAssumption DEF Shape, TypeOK

\* What requests of each kind are given.
WellAsked(kind, w, n, rec, valid) ==
    /\ kind \in Kinds \ {"boot", "sweep"} /\ rec \in Key \cup {None} /\ valid \in BOOLEAN
    /\ kind \in {"create", "update", "revoke", "ban", "unban"} => n \in Names
    /\ kind \in {"create", "update"} => rec \in Key
    /\ kind \in {"add", "patch", "drop"} => n \in Entries
    /\ kind = "update" => keys[w][n] # None

\* The step that requests of each kind begin with.
FirstStep(kind) == IF kind \in {"ban", "unban"} THEN kind ELSE "write"

BeginsWith(A, r, kind, w, n, rec, valid) ==
    WellAsked(kind, w, n, rec, valid) /\ BeginAt(FirstStep(kind), A, r, kind, w, n, rec, valid)

\* A request that begins.
LEMMA BeginType ==
    ASSUME Shape, NEW A, NEW r \in Requests, NEW w \in Workers, NEW kind, NEW n, NEW rec, NEW valid,
           up[w], BeginsWith(A, r, kind, w, n, rec, valid)
    PROVE  /\ task[r] = None /\ outcome[r] = "none"
           /\ task' \in [Ids -> Task \cup {None}]
           /\ \A j \in Ids : j # r => task'[j] = task[j]
           /\ task'[r] # None /\ Placed(r)'
           /\ task'[r] = NewTask(kind, w, FirstStep(kind), n, rec, valid)
           /\ task'[r].kind = kind /\ task'[r].w = w /\ task'[r].on = n
           /\ task'[r].at = FirstStep(kind) /\ task'[r].linked
           /\ calm' = [calm EXCEPT ![w] = @ /\ ~Busy(w)]
           /\ calm' \in [Workers -> BOOLEAN]
<1> DEFINE new == NewTask(kind, w, FirstStep(kind), n, rec, valid)
<1>1. WellAsked(kind, w, n, rec, valid) /\ BeginAt(FirstStep(kind), A, r, kind, w, n, rec, valid)
  BY DEF BeginsWith
<1>2. new \in Task /\ new # None
  <2>1. new \in Task
    BY <1>1 DEF Task, Steps, Kinds, NoKeys, NoBans, NoEntries, WellAsked, NewTask, FirstStep
  <2> QED BY <2>1, NoneAssumption
<1>3. task[r] = None /\ outcome[r] = "none" /\ task' = [task EXCEPT ![r] = new] /\ UNCHANGED <<up, outcome, keys>>
  BY <1>1 DEF BeginAt, caches
<1>4. r \in Ids /\ r \notin Workers /\ r \notin Sweepers
  BY Distinct
<1>5. task'[r] = new
  BY <1>3, <1>4 DEF Shape, TypeOK
<1>6. Placed(r)'
  BY <1>1, <1>3, <1>4, <1>5 DEF Placed, StepsOf, Kinds, KeyKinds, Loading, WellAsked, NewTask, FirstStep
<1>7. /\ new.kind = kind /\ new.w = w /\ new.on = n /\ new.at = FirstStep(kind) /\ new.linked
  BY DEF NewTask
<1> HIDE DEF new
<1>8. task' \in [Ids -> Task \cup {None}] /\ \A j \in Ids : j # r => task'[j] = task[j]
  BY <1>2, <1>3, <1>4 DEF Shape, TypeOK
<1>9. calm' = [calm EXCEPT ![w] = @ /\ ~Busy(w)]
  BY <1>1 DEF BeginAt
<1>10. calm' \in [Workers -> BOOLEAN]
  BY <1>9 DEF Shape, TypeOK, Busy
<1> QED BY <1>2, <1>3, <1>5, <1>6, <1>7, <1>8, <1>9, <1>10 DEF new

Beginning(r, w) ==
    \/ \E n \in Names : BeginCreate(r, w, n) \/ BeginRevoke(r, w, n) \/ BeginUnban(r, w, n)
    \/ \E n \in Names, brief \in BOOLEAN : BeginBan(r, w, n, brief)
    \/ \E n \in Names, f \in Fields : BeginUpdate(r, w, n, f)
    \/ \E e \in Entries, valid \in BOOLEAN : BeginAdd(r, w, e, valid) \/ BeginPatch(r, w, e, valid)
    \/ \E e \in Entries : BeginDrop(r, w, e)

\* A request may change what is known of its own ban alone, and the histories only one way.
Histories(r) ==
    /\ out' \subseteq out /\ contested' \in BOOLEAN /\ (contested => contested')
    /\ \/ term' = term
       \/ \E t \in {"never", "later"} : term' = [term EXCEPT ![r] = t]

\* What a request begins with.
LEMMA BeginningStep ==
    ASSUME Shape, NEW r \in Requests, NEW w \in Workers, Beginning(r, w)
    PROVE  /\ UNCHANGED <<keyRow, banRow, entryRow, keys, bans, config, up, outcome>>
           /\ Histories(r) /\ up[w]
           /\ \E A, kind, n, rec, valid : /\ BeginsWith(A, r, kind, w, n, rec, valid)
                                          /\ kind # "ban" => term' = term
<1> DEFINE Begun == \E A, kind, n, rec, valid : /\ A \subseteq Admins(w)
                                                /\ BeginsWith(A, r, kind, w, n, rec, valid)
                                                /\ kind # "ban" => term' = term
<1>1. ASSUME Begun
      PROVE  /\ UNCHANGED <<keyRow, banRow, entryRow, keys, bans, config, up, outcome>> /\ up[w]
             /\ \E A, kind, n, rec, valid : /\ BeginsWith(A, r, kind, w, n, rec, valid)
                                            /\ kind # "ban" => term' = term
  <2>1. PICK A, kind, n, rec, valid : /\ A \subseteq Admins(w)
                                      /\ BeginsWith(A, r, kind, w, n, rec, valid)
                                      /\ kind # "ban" => term' = term
    BY <1>1
  <2>2. UNCHANGED <<keyRow, banRow, entryRow, keys, bans, config, up, outcome>> /\ A # {}
    BY <2>1 DEF BeginsWith, BeginAt, tables, caches
  <2>3. up[w]
    BY <2>1, <2>2 DEF Admins
  <2> QED BY <2>1, <2>2, <2>3
<1>2. ASSUME NEW n \in Names, BeginCreate(r, w, n)
      PROVE  Begun /\ Histories(r)
  <2>1. BeginsWith(Admins(w), r, "create", w, n, NewKey(r), TRUE) /\ term' = term
    BY <1>2, NewKeyType, Distinct DEF BeginCreate, Begin, BeginsWith, FirstStep, WellAsked, Kinds
  <2>2. Begun
    BY <2>1
  <2> QED BY <1>2, <2>1, <2>2 DEF BeginCreate, Undone, Histories, Shape, TypeOK
<1>3. ASSUME NEW n \in Names, BeginRevoke(r, w, n)
      PROVE  Begun /\ Histories(r)
  <2>1. BeginsWith(Admins(w) \ {n}, r, "revoke", w, n, None, TRUE) /\ term' = term
        /\ Admins(w) \ {n} \subseteq Admins(w)
    BY <1>3 DEF BeginRevoke, Begin, BeginsWith, FirstStep, WellAsked, Kinds
  <2>2. Begun
    BY <2>1
  <2>3. (contested' = (contested \/ Contests(w, n))) /\ out' = out
    BY <1>3 DEF BeginRevoke
  <2> QED BY <2>1, <2>2, <2>3 DEF Shape, TypeOK, Contests, Histories
<1>4. ASSUME NEW n \in Names, NEW brief \in BOOLEAN, BeginBan(r, w, n, brief)
      PROVE  Begun /\ Histories(r)
  <2>1. BeginsWith(Admins(w) \ {n}, r, "ban", w, n, None, TRUE) /\ Admins(w) \ {n} \subseteq Admins(w)
    BY <1>4 DEF BeginBan, BeginsWith, FirstStep, WellAsked, Kinds
  <2>2. Begun
    BY <2>1
  <2>3. (contested' = (contested \/ Contests(w, n))) /\ out' \subseteq out
    BY <1>4 DEF BeginBan, Undone
  <2>4. \E t \in {"never", "later"} : term' = [term EXCEPT ![r] = t]
    BY <1>4 DEF BeginBan
  <2> QED BY <2>2, <2>3, <2>4 DEF Shape, TypeOK, Contests, Histories
<1>5. ASSUME NEW n \in Names, BeginUnban(r, w, n)
      PROVE  Begun /\ Histories(r)
  <2>1. BeginsWith(Admins(w), r, "unban", w, n, None, TRUE) /\ term' = term
    BY <1>5 DEF BeginUnban, BeginsWith, FirstStep, WellAsked, Kinds
  <2>2. Begun
    BY <2>1
  <2> QED BY <1>5, <2>1, <2>2 DEF BeginUnban, Undone, Histories, Shape, TypeOK
<1>6. ASSUME NEW n \in Names, NEW f \in Fields, BeginUpdate(r, w, n, f)
      PROVE  Begun /\ Histories(r)
  <2> DEFINE rec == [keys[w][n] EXCEPT !.fields[f] = r]
  <2>1. Begin(Admins(w), r, "update", w, n, rec, TRUE) /\ UNCHANGED <<out, contested>>
    BY <1>6 DEF BeginUpdate
  <2>2. keys[w][n] \in Key /\ keys[w][n] # None
    BY <1>6 DEF BeginUpdate, Shape, TypeOK
  <2>3. rec \in Key
    BY <2>2, Distinct DEF Key
  <2> HIDE DEF rec
  <2>4. BeginsWith(Admins(w), r, "update", w, n, rec, TRUE) /\ term' = term
    BY <2>1, <2>2, <2>3 DEF WellAsked, Kinds, Begin, BeginsWith, FirstStep
  <2> QED BY <2>1, <2>4 DEF Histories, Shape, TypeOK
<1>7. ASSUME NEW e \in Entries, NEW valid \in BOOLEAN, BeginAdd(r, w, e, valid) \/ BeginPatch(r, w, e, valid)
      PROVE  Begun /\ Histories(r)
  <2>1. PICK kind \in {"add", "patch"} : Begin(Admins(w), r, kind, w, e, None, valid)
    BY <1>7 DEF BeginAdd, BeginPatch
  <2>2. BeginsWith(Admins(w), r, kind, w, e, None, valid) /\ term' = term
    BY <2>1 DEF WellAsked, Kinds, Begin, BeginsWith, FirstStep
  <2> QED BY <1>7, <2>2 DEF BeginAdd, BeginPatch, Histories, Shape, TypeOK
<1>8. ASSUME NEW e \in Entries, BeginDrop(r, w, e)
      PROVE  Begun /\ Histories(r)
  <2>1. BeginsWith(Admins(w), r, "drop", w, e, None, TRUE) /\ term' = term
    BY <1>8 DEF BeginDrop, WellAsked, Kinds, Begin, BeginsWith, FirstStep
  <2> QED BY <1>8, <2>1 DEF BeginDrop, Histories, Shape, TypeOK
<1> HIDE DEF Begun
<1>9. Begun /\ Histories(r)
  BY <1>2, <1>3, <1>4, <1>5, <1>6, <1>7, <1>8 DEF Beginning
<1> QED BY <1>1, <1>9

LEMMA HistoriesType ==
    ASSUME Shape, NEW r \in Requests, Histories(r)
    PROVE  term' \in [Requests -> {"never", "later", "over"}] /\ out' \subseteq Workers \X Names
BY DEF Histories, Shape, TypeOK

LEMMA BeginningType ==
    ASSUME Shape, NEW r \in Requests, NEW w \in Workers, Beginning(r, w)
    PROVE  Shape'
<1>1. /\ UNCHANGED <<keyRow, banRow, entryRow, keys, bans, config, up, outcome>>
      /\ term' \in [Requests -> {"never", "later", "over"}]
      /\ out' \subseteq Workers \X Names /\ contested' \in BOOLEAN
  BY BeginningStep, HistoriesType DEF Histories
<1>2. PICK A, kind, n, rec, valid : BeginsWith(A, r, kind, w, n, rec, valid)
  BY BeginningStep
<1>3. up[w]
  BY BeginningStep
<1>4. /\ task' \in [Ids -> Task \cup {None}] /\ calm' \in [Workers -> BOOLEAN]
      /\ \A j \in Ids : j # r => task'[j] = task[j]
      /\ Placed(r)'
  BY <1>2, <1>3, BeginType
<1>5. TypeOK'
  BY <1>1, <1>4 DEF Shape, TypeOK
<1>6. r \in Ids /\ \A j \in Ids : j # r => Kept(j)
  BY <1>4, Distinct DEF Kept
<1>7. ASSUME NEW j \in Ids, j # r, task'[j] # None, task'[j].kind = "update", task'[j].linked
      PROVE  keys'[task'[j].w][task'[j].on] # None
  BY <1>1, <1>4, <1>7 DEF Shape, Placed
<1> QED BY <1>1, <1>4, <1>5, <1>6, <1>7, OthersPlaced

\* The steps of coroutine i that leave the dictionaries of others alone.
LEMMA QuietStep ==
    ASSUME Shape, NEW i \in Ids, TypeOK', up' = up,
           \A j \in Ids : j # i => task'[j] = task[j],
           \A j \in Writers : j # i => outcome'[j] = outcome[j],
           \A w \in Workers, n \in Names : keys[w][n] # None => keys'[w][n] # None,
           task'[i] # None => Placed(i)' /\ Same(i), task[i] # None,
           i \in Requests /\ task'[i] = None => outcome'[i] # "none"
    PROVE  Stepped(i)
<1>1. ASSUME NEW j \in Ids, j # i, task'[j] # None, task'[j].kind = "update", task'[j].linked
      PROVE  keys'[task'[j].w][task'[j].on] # None
  <2>1. task'[j] = task[j] /\ Placed(j) /\ task[j] \in Task
    BY <1>1 DEF Shape, TypeOK
  <2>2. keys[task[j].w][task[j].on] # None /\ task[j].w \in Workers /\ task[j].on \in Names
    BY <1>1, <2>1 DEF Placed, KeyKinds, Task
  <2> QED BY <2>1, <2>2
<1>2. \A j \in Ids : j # i => Kept(j)
  BY DEF Kept
<1> QED BY <1>1, <1>2, Distinct, OthersPlaced DEF Stepped

\* A step of coroutine i, which ends or goes on, that changes the keys N of worker w and takes
\* the dictionaries of the updates that referred to the ones it replaces.
LEMMA UnlinkStep ==
    ASSUME Shape, NEW i \in Ids, NEW w \in Workers, NEW N, up' = up, TypeOK',
           \A j \in Ids : j # i => task'[j] = Unlink(w, N)[j],
           \A j \in Writers : j # i => outcome'[j] = outcome[j],
           \A v \in Workers, n \in Names : keys[v][n] # None /\ (v = w => n \notin N)
                                           => keys'[v][n] # None,
           task'[i] # None => Placed(i)' /\ Same(i), task[i] # None,
           i \in Requests /\ task'[i] = None => outcome'[i] # "none"
    PROVE  Stepped(i)
<1> DEFINE u == Unlink(w, N)
<1>1. /\ u \in [Ids -> Task \cup {None}]
      /\ \A j \in Ids : u[j] = task[j] \/ (task[j] # None /\ task[j].kind = "update" /\ u[j] = Freed(task[j]))
      /\ \A j \in Ids : task[j] # None /\ task[j].kind = "update" /\ task[j].w = w /\ task[j].on \in N
                        => u[j] = Freed(task[j])
  BY UnlinkType
<1> HIDE DEF u
<1>2. \A j \in Ids : j # i => task'[j] = u[j]
  BY <1>1 DEF u
<1>3. \A j \in Ids : j # i => Kept(j)
  BY <1>1, <1>2 DEF Kept
<1>4. ASSUME NEW j \in Ids, j # i, task'[j] # None, task'[j].kind = "update", task'[j].linked
      PROVE  keys'[task'[j].w][task'[j].on] # None
  <2>1. task[j] # None /\ task[j] \in Task /\ Placed(j) /\ task[j].kind = "update"
    BY <1>3, <1>4, FreedType DEF Shape, TypeOK, Kept
  <2>2. task'[j] = task[j]
    BY <1>3, <1>4, <2>1, FreedType DEF Kept
  <2>3. keys[task[j].w][task[j].on] # None /\ task[j].on \in Names /\ task[j].w \in Workers
    BY <1>4, <2>1, <2>2 DEF Placed, KeyKinds, Task
  <2>4. ~(task[j].w = w /\ task[j].on \in N)
    BY <1>1, <1>2, <1>4, <2>1, FreedType
  <2> QED BY <2>2, <2>3, <2>4
<1> QED BY <1>3, <1>4, Distinct, OthersPlaced DEF Stepped

LEMMA WroteType == ASSUME Shape, NEW w, Wrote(w) PROVE calm' \in [Workers -> BOOLEAN]
BY DEF Shape, TypeOK, Wrote

\* What coroutine i is.
LEMMA AtType ==
    ASSUME Shape, NEW i \in Ids, task[i] # None
    PROVE  /\ task[i] \in Task /\ Placed(i) /\ task[i].w \in Workers /\ task[i].at \in Steps
           /\ task[i].rows \in [Names -> Key \cup {None}]
           /\ task[i].banned \in [Names -> Requests \cup {None}]
           /\ task[i].defs \in [Entries -> Entry \cup {None}] /\ task[i].valid \in BOOLEAN
           /\ task[i].hit \in BOOLEAN /\ task[i].linked \in BOOLEAN
<1>1. task[i] \in Task /\ Placed(i)
  BY DEF Shape, TypeOK
<1> QED BY <1>1 DEF Task

LEMMA CreateType ==
    ASSUME Shape, NEW r \in Requests, CommitCreate(r) \/ ApplyCreate(r)
    PROVE  Stepped(r)
<1> USE Distinct
<1>1. task[r] # None /\ task[r].kind = "create" /\ r \in Ids
  BY DEF CommitCreate, ApplyCreate, At
<1>2. /\ task[r] \in Task /\ Placed(r) /\ task[r].w \in Workers
      /\ task[r].on \in Names /\ task[r].rec \in Key /\ task[r].rec # None
  BY <1>1, AtType, NoneAssumption DEF Placed, KeyKinds
<1>3. ASSUME CommitCreate(r) PROVE Stepped(r)
  <2>1. /\ UNCHANGED <<banRow, entryRow, keys, bans, config, up, term, outcome, out, contested>>
        /\ keyRow' = [keyRow EXCEPT ![task[r].on] = task[r].rec]
        /\ Move(r, "apply") /\ Wrote(task[r].w)
    BY <1>3 DEF CommitCreate, caches
  <2>2. /\ task' \in [Ids -> Task \cup {None}] /\ \A j \in Ids : j # r => task'[j] = task[j]
        /\ task'[r] # None /\ task'[r] = [task[r] EXCEPT !.at = "apply"]
    BY <1>1, <2>1, MoveType DEF Steps
  <2>3. TypeOK'
    BY <1>2, <2>1, <2>2, WroteType DEF Shape, TypeOK
  <2>4. Placed(r)' /\ Same(r)
    BY <1>1, <1>2, <2>1, <2>2 DEF Same, Placed, StepsOf, Task
  <2> QED BY <1>1, <2>1, <2>2, <2>3, <2>4, QuietStep
<1>4. ASSUME ApplyCreate(r) PROVE Stepped(r)
  <2> DEFINE w == task[r].w
             n == task[r].on
  <2>1. /\ UNCHANGED <<keyRow, banRow, entryRow, bans, config, up, term, calm, out, contested>>
        /\ keys' = [keys EXCEPT ![w][n] = task[r].rec]
        /\ task' = [Unlink(w, {n}) EXCEPT ![r] = None]
        /\ outcome' = [outcome EXCEPT ![r] = "ok"]
    BY <1>4 DEF ApplyCreate, tables, history
  <2>2. Unlink(w, {n}) \in [Ids -> Task \cup {None}]
    BY UnlinkType
  <2>3. /\ task' \in [Ids -> Task \cup {None}] /\ task'[r] = None
        /\ \A j \in Ids : j # r => task'[j] = Unlink(w, {n})[j]
    BY <1>1, <2>1, <2>2
  <2>4. keys' \in [Workers -> [Names -> Key \cup {None}]]
    BY <1>2, <2>1 DEF Shape, TypeOK
  <2>5. TypeOK'
    BY <1>1, <2>1, <2>3, <2>4 DEF Shape, TypeOK
  <2>6. \A v \in Workers, m \in Names : keys[v][m] # None /\ (v = w => m \notin {n})
                                         => keys'[v][m] # None
    BY <1>2, <2>1 DEF Shape, TypeOK
  <2>7. up' = up /\ outcome'[r] # "none" /\ \A j \in Writers : j # r => outcome'[j] = outcome[j]
    BY <2>1 DEF Shape, TypeOK
  <2> QED BY <1>1, <1>2, <2>3, <2>5, <2>6, <2>7, UnlinkStep
<1> QED BY <1>3, <1>4

LEMMA UpdateType ==
    ASSUME Shape, NEW r \in Requests, CommitUpdate(r) \/ ApplyUpdate(r)
    PROVE  Stepped(r)
<1> USE Distinct
<1>1. task[r] # None /\ task[r].kind = "update" /\ r \in Ids
  BY DEF CommitUpdate, ApplyUpdate, At
<1>2. /\ task[r] \in Task /\ Placed(r) /\ task[r].w \in Workers
      /\ task[r].on \in Names /\ task[r].rec \in Key
  BY <1>1, AtType DEF Placed, KeyKinds
<1>3. ASSUME CommitUpdate(r), keyRow[task[r].on] # None PROVE Stepped(r)
  <2>1. /\ UNCHANGED <<banRow, entryRow, keys, bans, config, up, term, outcome, out, contested>>
        /\ keyRow' = [keyRow EXCEPT ![task[r].on].fields = task[r].rec.fields]
        /\ Move(r, "apply") /\ Wrote(task[r].w)
    BY <1>3 DEF CommitUpdate, caches
  <2>2. /\ task' \in [Ids -> Task \cup {None}] /\ \A j \in Ids : j # r => task'[j] = task[j]
        /\ task'[r] # None /\ task'[r] = [task[r] EXCEPT !.at = "apply"]
    BY <1>1, <2>1, MoveType DEF Steps
  <2>3. keyRow' \in [Names -> Key \cup {None}]
    <3>1. keyRow[task[r].on] \in Key
      BY <1>2, <1>3 DEF Shape, TypeOK
    <3>2. [keyRow[task[r].on] EXCEPT !.fields = task[r].rec.fields] \in Key
      BY <1>2, <3>1 DEF Key
    <3>3. keyRow' = [keyRow EXCEPT ![task[r].on] = [keyRow[task[r].on] EXCEPT !.fields = task[r].rec.fields]]
      BY <2>1
    <3> QED BY <1>2, <3>2, <3>3 DEF Shape, TypeOK
  <2>4. TypeOK'
    BY <2>1, <2>2, <2>3, WroteType DEF Shape, TypeOK
  <2>5. Placed(r)' /\ Same(r)
    BY <1>1, <1>2, <2>1, <2>2 DEF Same, Placed, StepsOf, Task
  <2> QED BY <1>1, <2>1, <2>2, <2>4, <2>5, QuietStep
<1>4. ASSUME CommitUpdate(r), keyRow[task[r].on] = None PROVE Stepped(r)
  <2>1. /\ UNCHANGED <<keyRow, banRow, entryRow, keys, bans, config, up, term, out, contested>>
        /\ End(r, "refused") /\ Wrote(task[r].w)
    BY <1>4 DEF CommitUpdate, caches
  <2>2. /\ task' \in [Ids -> Task \cup {None}] /\ task'[r] = None
        /\ \A j \in Ids : j # r => task'[j] = task[j]
        /\ outcome'[r] # "none" /\ outcome' \in [Writers -> {"none", "ok", "refused", "failed"}]
        /\ \A j \in Writers : j # r => outcome'[j] = outcome[j]
    BY <1>1, <2>1, EndType
  <2>3. TypeOK'
    BY <2>1, <2>2, WroteType DEF Shape, TypeOK
  <2> QED BY <1>1, <2>1, <2>2, <2>3, QuietStep
<1>5. ASSUME ApplyUpdate(r) PROVE Stepped(r)
  <2>1. /\ UNCHANGED <<keyRow, banRow, entryRow, bans, config, up, term, calm, out, contested>>
        /\ End(r, "ok")
    BY <1>5 DEF ApplyUpdate, tables, history
  <2>2. /\ task' \in [Ids -> Task \cup {None}] /\ task'[r] = None
        /\ \A j \in Ids : j # r => task'[j] = task[j]
        /\ outcome'[r] # "none" /\ outcome' \in [Writers -> {"none", "ok", "refused", "failed"}]
        /\ \A j \in Writers : j # r => outcome'[j] = outcome[j]
    BY <1>1, <2>1, EndType
  <2>3. /\ keys' \in [Workers -> [Names -> Key \cup {None}]]
        /\ \A v \in Workers, m \in Names : keys[v][m] # None => keys'[v][m] # None
    <3>1. CASE ~task[r].linked
      BY <1>5, <3>1 DEF ApplyUpdate, Shape, TypeOK
    <3>2. CASE task[r].linked
      <4> DEFINE old == keys[task[r].w][task[r].on]
                 new == [old EXCEPT !.fields = task[r].rec.fields]
      <4>1. old \in Key
        BY <1>1, <1>2, <3>2 DEF Shape, TypeOK, Placed
      <4>2. new \in Key
        BY <1>2, <4>1 DEF Key
      <4>3. keys' = [keys EXCEPT ![task[r].w][task[r].on] = new]
        BY <1>5, <3>2 DEF ApplyUpdate
      <4>4. new # None
        BY <4>2, NoneAssumption
      <4> HIDE DEF new
      <4> QED BY <1>2, <4>2, <4>3, <4>4 DEF Shape, TypeOK
    <3> QED BY <3>1, <3>2
  <2>4. TypeOK'
    BY <2>1, <2>2, <2>3 DEF Shape, TypeOK
  <2> QED BY <1>1, <2>1, <2>2, <2>3, <2>4, QuietStep
<1> QED BY <1>3, <1>4, <1>5

LEMMA RevokeType ==
    ASSUME Shape, NEW r \in Requests, CommitRevoke(r) \/ ApplyRevoke(r)
    PROVE  Stepped(r)
<1> USE Distinct
<1> DEFINE w == task[r].w
           n == task[r].on
<1>1. task[r] # None /\ task[r].kind = "revoke" /\ r \in Ids
  BY DEF CommitRevoke, ApplyRevoke, At
<1>2. task[r] \in Task /\ Placed(r) /\ w \in Workers /\ n \in Names
  BY <1>1, AtType DEF Placed, KeyKinds
<1>3. ASSUME CommitRevoke(r) PROVE Stepped(r)
  <2> DEFINE new == [task[r] EXCEPT !.at = "apply", !.hit = keyRow[n] # None]
  <2>1. /\ UNCHANGED <<banRow, entryRow, keys, bans, config, up, term, outcome, out, contested>>
        /\ keyRow' = [keyRow EXCEPT ![n] = None]
        /\ task' = [task EXCEPT ![r] = new] /\ Wrote(w)
    BY <1>3 DEF CommitRevoke, caches
  <2>2. /\ new \in Task /\ new.at = "apply" /\ new.kind = "revoke" /\ new.on = n /\ new.w = w
        /\ new.rec = task[r].rec /\ new.valid = task[r].valid
        /\ new.hit = (keyRow[n] # None)
    BY <1>1, <1>2 DEF Task, Steps
  <2> HIDE DEF new
  <2>3. /\ task' \in [Ids -> Task \cup {None}] /\ \A j \in Ids : j # r => task'[j] = task[j]
        /\ task'[r] = new /\ new # None
    BY <1>1, <2>1, <2>2, NoneAssumption DEF Shape, TypeOK
  <2>4. TypeOK'
    BY <2>1, <2>3, WroteType DEF Shape, TypeOK
  <2>5. Placed(r)' /\ Same(r)
    BY <1>1, <1>2, <2>1, <2>2, <2>3 DEF Same, Placed, StepsOf
  <2> QED BY <1>1, <2>1, <2>3, <2>4, <2>5, QuietStep
<1>4. ASSUME ApplyRevoke(r) PROVE Stepped(r)
  <2> DEFINE dropped == IF task[r].hit THEN {n} ELSE {}
             u == Unlink(w, dropped)
             new == [u[r] EXCEPT !.at = "ban"]
  <2>1. /\ UNCHANGED <<keyRow, banRow, entryRow, bans, config, up, term, calm, contested>>
        /\ keys' = [keys EXCEPT ![w] = [m \in Names |-> IF m \in dropped THEN None ELSE keys[w][m]]]
    BY <1>4 DEF ApplyRevoke, tables
  <2>2. /\ u \in [Ids -> Task \cup {None}] /\ u[r] = task[r]
    BY <1>1, UnlinkType
  <2>3. \/ n \in Static /\ task' = [u EXCEPT ![r] = new] /\ UNCHANGED <<outcome, out>>
        \/ /\ n \notin Static /\ task' = [u EXCEPT ![r] = None]
           /\ outcome' = [outcome EXCEPT ![r] = IF task[r].hit THEN "ok" ELSE "refused"]
           /\ out' \subseteq out \cup {<<w, n>>}
    BY <1>4 DEF ApplyRevoke, Answered
  <2>4. new \in Task /\ new.at = "ban" /\ new.kind = "revoke" /\ new.on = n /\ new.w = w
        /\ new.rec = task[r].rec /\ new.valid = task[r].valid
    BY <1>1, <1>2, <2>2 DEF Task, Steps
  <2>5. new # None
    BY <2>4, NoneAssumption
  <2> HIDE DEF u, new
  <2>6. /\ task' \in [Ids -> Task \cup {None}]
        /\ \A j \in Ids : j # r => task'[j] = u[j]
        /\ n \in Static => task'[r] = new
        /\ n \notin Static => task'[r] = None
    BY <1>1, <2>2, <2>3, <2>4
  <2>7. /\ outcome' \in [Writers -> {"none", "ok", "refused", "failed"}]
        /\ \A j \in Writers : j # r => outcome'[j] = outcome[j]
        /\ n \in Static => outcome' = outcome
        /\ n \notin Static => outcome'[r] # "none"
    BY <2>3 DEF Shape, TypeOK
  <2>8. /\ keys' \in [Workers -> [Names -> Key \cup {None}]]
        /\ \A v \in Workers, m \in Names : keys[v][m] # None /\ (v = w => m \notin dropped)
                                           => keys'[v][m] # None
    <3> HIDE DEF dropped
    <3> QED BY <1>2, <2>1 DEF Shape, TypeOK
  <2>9. out' \subseteq Workers \X Names
    BY <1>2, <2>3 DEF Shape, TypeOK
  <2>10. TypeOK'
    BY <2>1, <2>6, <2>7, <2>8, <2>9 DEF Shape, TypeOK
  <2>11. task'[r] # None => Placed(r)' /\ Same(r)
    BY <1>1, <1>2, <2>1, <2>4, <2>5, <2>6, <2>7 DEF Same, Placed, StepsOf
  <2>12. up' = up /\ (task'[r] = None => outcome'[r] # "none")
    BY <2>1, <2>4, <2>5, <2>6, <2>7
  <2> HIDE DEF dropped
  <2> QED BY <1>1, <1>2, <2>6, <2>7, <2>8, <2>10, <2>11, <2>12, UnlinkStep DEF u
<1> QED BY <1>3, <1>4

\* Steps of a ban, in a revocation or by itself.
LEMMA BanType ==
    ASSUME Shape, NEW r \in Requests, CommitBan(r) \/ ApplyBan(r)
    PROVE  Stepped(r)
<1> USE Distinct
<1> DEFINE w == task[r].w
           n == task[r].on
<1>1. task[r] # None /\ task[r].kind \in {"revoke", "ban"} /\ r \in Ids
  BY DEF CommitBan, ApplyBan, Banning, At
<1>2. task[r] \in Task /\ Placed(r) /\ w \in Workers /\ n \in Names
  BY <1>1, AtType DEF Placed, KeyKinds
<1>3. ASSUME CommitBan(r) PROVE Stepped(r)
  <2>1. /\ UNCHANGED <<keyRow, entryRow, keys, bans, config, up, term, outcome, out, contested>>
        /\ banRow' = [banRow EXCEPT ![n] = r] /\ task[r].at = "ban"
        /\ Move(r, "banned") /\ Wrote(w)
    BY <1>3 DEF CommitBan, caches, Banning, At
  <2>2. /\ task' \in [Ids -> Task \cup {None}] /\ \A j \in Ids : j # r => task'[j] = task[j]
        /\ task'[r] # None /\ task'[r] = [task[r] EXCEPT !.at = "banned"]
    BY <1>1, <2>1, MoveType DEF Steps
  <2>3. TypeOK'
    BY <1>2, <2>1, <2>2, WroteType DEF Shape, TypeOK
  <2>4. Placed(r)' /\ Same(r)
    BY <1>1, <1>2, <2>1, <2>2 DEF Same, Placed, StepsOf, Task
  <2> QED BY <1>1, <2>1, <2>2, <2>3, <2>4, QuietStep
<1>4. ASSUME ApplyBan(r) PROVE Stepped(r)
  <2>1. /\ UNCHANGED <<keyRow, banRow, entryRow, keys, config, up, term, calm, contested>>
        /\ bans' = [bans EXCEPT ![w][n] = r]
        /\ End(r, "ok") /\ out' \subseteq out \cup {<<w, n>>}
    BY <1>4 DEF ApplyBan, tables, Answered
  <2>2. /\ task' \in [Ids -> Task \cup {None}] /\ task'[r] = None
        /\ \A j \in Ids : j # r => task'[j] = task[j]
        /\ outcome'[r] # "none" /\ outcome' \in [Writers -> {"none", "ok", "refused", "failed"}]
        /\ \A j \in Writers : j # r => outcome'[j] = outcome[j]
    BY <1>1, <2>1, EndType
  <2>3. bans' \in [Workers -> [Names -> Requests \cup {None}]] /\ out' \subseteq Workers \X Names
    BY <1>2, <2>1 DEF Shape, TypeOK
  <2>4. TypeOK'
    BY <2>1, <2>2, <2>3 DEF Shape, TypeOK
  <2> QED BY <1>1, <2>1, <2>2, <2>4, QuietStep
<1> QED BY <1>3, <1>4

\* Steps of an unban, asked for or of a ban that was over.
LEMMA UnbanType ==
    ASSUME Shape, NEW i \in Ids, CommitUnban(i) \/ ApplyUnban(i)
    PROVE  /\ Stepped(i) /\ task[i] # None /\ task[i].kind \in {"unban", "sweep"}
           /\ task[i].w \in Workers /\ task[i].on \in Names
           /\ \A j \in Ids : j # i => task'[j] = task[j]
           /\ \/ /\ CommitUnban(i) /\ task'[i] # None /\ Same(i)
                 /\ task[i].at = "unban" /\ task'[i].at = "unbanned"
                 /\ task'[i].hit = (banRow[task[i].on] # None)
              \/ ApplyUnban(i) /\ task'[i] = None /\ task[i].at = "unbanned"
<1> USE Distinct
<1> DEFINE w == task[i].w
           n == task[i].on
<1>1. task[i] # None /\ task[i].kind \in {"unban", "sweep"}
  BY DEF CommitUnban, ApplyUnban, Unbanning, At
<1>2. task[i] \in Task /\ Placed(i) /\ w \in Workers /\ n \in Names
  BY <1>1, AtType DEF Placed, KeyKinds
<1>3. ASSUME CommitUnban(i)
      PROVE  /\ Stepped(i) /\ \A j \in Ids : j # i => task'[j] = task[j]
             /\ task'[i] # None /\ Same(i)
             /\ task[i].at = "unban" /\ task'[i].at = "unbanned"
             /\ task'[i].hit = (banRow[n] # None)
  <2> DEFINE new == [task[i] EXCEPT !.at = "unbanned", !.hit = banRow[n] # None]
  <2>1. /\ UNCHANGED <<keyRow, entryRow, keys, bans, config, up, term, outcome, out, contested>>
        /\ banRow' = [banRow EXCEPT ![n] = None] /\ task[i].at = "unban"
        /\ task' = [task EXCEPT ![i] = new] /\ Wrote(w)
    BY <1>3 DEF CommitUnban, caches, Unbanning, At
  <2>2. /\ new \in Task /\ new.at = "unbanned" /\ new.kind = task[i].kind /\ new.on = n /\ new.w = w
        /\ new.rec = task[i].rec /\ new.valid = task[i].valid /\ new.linked = task[i].linked
        /\ new.hit = (banRow[n] # None)
    BY <1>1, <1>2 DEF Task, Steps
  <2> HIDE DEF new
  <2>3. /\ task' \in [Ids -> Task \cup {None}] /\ \A j \in Ids : j # i => task'[j] = task[j]
        /\ task'[i] = new /\ new # None
    BY <1>1, <2>1, <2>2, NoneAssumption DEF Shape, TypeOK
  <2>4. TypeOK'
    BY <1>2, <2>1, <2>3, WroteType DEF Shape, TypeOK
  <2>5. Placed(i)' /\ Same(i)
    BY <1>1, <1>2, <2>1, <2>2, <2>3 DEF Same, Placed, StepsOf
  <2>6. Stepped(i)
    BY <1>1, <2>1, <2>3, <2>4, <2>5, QuietStep
  <2> QED BY <2>1, <2>2, <2>3, <2>5, <2>6
<1>4. ASSUME ApplyUnban(i)
      PROVE  /\ Stepped(i) /\ \A j \in Ids : j # i => task'[j] = task[j]
             /\ task'[i] = None /\ task[i].at = "unbanned"
  <2>1. /\ UNCHANGED <<keyRow, banRow, entryRow, keys, config, up, term, calm, out, contested>>
        /\ bans' = bans \/ bans' = [bans EXCEPT ![w][n] = None]
        /\ End(i, IF task[i].hit THEN "ok" ELSE "refused") /\ task[i].at = "unbanned"
    BY <1>4 DEF ApplyUnban, tables, history, Unbanning, At
  <2>2. /\ task' \in [Ids -> Task \cup {None}] /\ task'[i] = None
        /\ \A j \in Ids : j # i => task'[j] = task[j]
        /\ outcome' \in [Writers -> {"none", "ok", "refused", "failed"}]
        /\ i \in Requests => outcome'[i] # "none"
        /\ \A j \in Writers : j # i => outcome'[j] = outcome[j]
    BY <1>1, <2>1, EndType
  <2>3. bans' \in [Workers -> [Names -> Requests \cup {None}]]
    <3> DEFINE Bans == [Names -> Requests \cup {None}]
               new == [bans[w] EXCEPT ![n] = None]
    <3>1. new \in Bans /\ bans \in [Workers -> Bans]
      BY <1>2 DEF Shape, TypeOK
    <3>2. bans' = bans \/ bans' = [bans EXCEPT ![w] = new]
      BY <2>1
    <3> HIDE DEF Bans, new
    <3>3. bans' \in [Workers -> Bans]
      BY <1>2, <3>1, <3>2
    <3> QED BY <3>3 DEF Bans
  <2>4. TypeOK'
    BY <2>1, <2>2, <2>3 DEF Shape, TypeOK
  <2>5. Stepped(i)
    BY <1>1, <2>1, <2>2, <2>4, QuietStep
  <2> QED BY <2>1, <2>2, <2>5
<1> QED BY <1>1, <1>2, <1>3, <1>4

LEMMA EntryType ==
    ASSUME Shape, NEW r \in Requests, CommitAdd(r) \/ CommitPatch(r) \/ CommitDrop(r) \/ ApplyDrop(r)
    PROVE  Stepped(r)
<1> USE Distinct
<1> DEFINE w == task[r].w
           e == task[r].on
<1>1. task[r] # None /\ task[r].kind \in {"add", "patch", "drop"} /\ r \in Ids
  BY DEF CommitAdd, CommitPatch, CommitDrop, ApplyDrop, At
<1>2. task[r] \in Task /\ Placed(r) /\ w \in Workers /\ e \in Entries /\ task[r].valid \in BOOLEAN
  BY <1>1, AtType DEF Placed, KeyKinds
<1>3. ASSUME CommitAdd(r) \/ CommitPatch(r) PROVE Stepped(r)
  <2>1. /\ UNCHANGED <<keyRow, banRow, keys, bans, config, up, term, outcome, out, contested>>
        /\ Move(r, "clear") /\ Wrote(w) /\ task[r].kind \in {"add", "patch"}
        /\ \/ entryRow' = entryRow
           \/ entryRow' = [entryRow EXCEPT ![e] = [by |-> r, valid |-> task[r].valid]]
    BY <1>3 DEF CommitAdd, CommitPatch, caches, At
  <2>2. /\ task' \in [Ids -> Task \cup {None}] /\ \A j \in Ids : j # r => task'[j] = task[j]
        /\ task'[r] # None /\ task'[r] = [task[r] EXCEPT !.at = "clear"]
    BY <1>1, <2>1, MoveType DEF Steps, Loading
  <2>3. entryRow' \in [Entries -> Entry \cup {None}]
    <3>1. [by |-> r, valid |-> task[r].valid] \in Entry
      BY <1>2 DEF Entry
    <3> QED BY <2>1, <3>1 DEF Shape, TypeOK
  <2>4. TypeOK'
    BY <2>1, <2>2, <2>3, WroteType DEF Shape, TypeOK
  <2>5. Placed(r)' /\ Same(r)
    BY <1>1, <1>2, <2>1, <2>2 DEF Same, Placed, StepsOf, Task, Loading
  <2> QED BY <1>1, <2>1, <2>2, <2>4, <2>5, QuietStep
<1>4. ASSUME CommitDrop(r) PROVE Stepped(r)
  <2> DEFINE new == [task[r] EXCEPT !.at = "apply", !.hit = entryRow[e] # None]
  <2>1. /\ UNCHANGED <<keyRow, banRow, keys, bans, config, up, term, outcome, out, contested>>
        /\ entryRow' = [entryRow EXCEPT ![e] = None] /\ task[r].kind = "drop"
        /\ task' = [task EXCEPT ![r] = new] /\ Wrote(w)
    BY <1>4 DEF CommitDrop, caches, At
  <2>2. new \in Task /\ new.at = "apply" /\ new.kind = "drop" /\ new.on = e /\ new.w = w
        /\ new.rec = task[r].rec /\ new.valid = task[r].valid
    BY <1>1, <1>2, <2>1 DEF Task, Steps
  <2> HIDE DEF new
  <2>3. /\ task' \in [Ids -> Task \cup {None}] /\ \A j \in Ids : j # r => task'[j] = task[j]
        /\ task'[r] = new /\ new # None
    BY <1>1, <2>1, <2>2, NoneAssumption DEF Shape, TypeOK
  <2>4. TypeOK'
    BY <2>1, <2>3, WroteType DEF Shape, TypeOK
  <2>5. Placed(r)' /\ Same(r)
    BY <1>1, <1>2, <2>1, <2>2, <2>3 DEF Same, Placed, StepsOf
  <2> QED BY <1>1, <2>1, <2>3, <2>4, <2>5, QuietStep
<1>5. ASSUME ApplyDrop(r) PROVE Stepped(r)
  <2>1. /\ UNCHANGED <<keyRow, banRow, entryRow, keys, bans, up, term, calm, out, contested>>
        /\ config' = config \/ config' = [config EXCEPT ![w][e] = None]
        /\ End(r, "ok") \/ End(r, "refused")
    BY <1>5 DEF ApplyDrop, tables, history
  <2>2. /\ task' \in [Ids -> Task \cup {None}] /\ task'[r] = None
        /\ \A j \in Ids : j # r => task'[j] = task[j]
        /\ outcome'[r] # "none" /\ outcome' \in [Writers -> {"none", "ok", "refused", "failed"}]
        /\ \A j \in Writers : j # r => outcome'[j] = outcome[j]
    BY <1>1, <2>1, EndType
  <2>3. config' \in [Workers -> [Entries -> Entry \cup {Toml, None}]]
    <3> DEFINE Configs == [Entries -> Entry \cup {Toml, None}]
               new == [config[w] EXCEPT ![e] = None]
    <3>1. new \in Configs
      BY <1>2 DEF Shape, TypeOK
    <3>2. config \in [Workers -> Configs]
      BY DEF Shape, TypeOK
    <3>3. config' = config \/ config' = [config EXCEPT ![w] = new]
      BY <2>1
    <3> HIDE DEF Configs, new
    <3>4. config' \in [Workers -> Configs]
      BY <1>2, <3>1, <3>2, <3>3
    <3> QED BY <3>4 DEF Configs
  <2>4. TypeOK'
    BY <2>1, <2>2, <2>3 DEF Shape, TypeOK
  <2> QED BY <1>1, <2>1, <2>2, <2>4, QuietStep
<1> QED BY <1>3, <1>4, <1>5

\* Only coroutines that add, patch or start are in a reload.
LEMMA LoadingType ==
    ASSUME Shape, NEW i \in Ids, task[i] # None, task[i].at \in Loading
    PROVE  /\ task[i].kind \in {"add", "patch", "boot"}
           /\ \A N, w : Unlink(w, N)[i] = task[i]
<1>1. task[i] \in Task /\ Placed(i)
  BY AtType
<1>2. task[i].kind \in {"add", "patch", "boot"}
  BY <1>1 DEF Placed, StepsOf, Loading, Task, Kinds
<1>3. \A N, w : Unlink(w, N)[i] = task[i]
  BY <1>2 DEF Unlink, At
<1> QED BY <1>2, <1>3

\* A reload that goes on.
LEMMA LoadingPlaced ==
    ASSUME Shape, NEW i \in Ids, task[i] # None, task[i].at \in Loading,
           task'[i].at \in Loading, task'[i].kind = task[i].kind,
           task'[i].on = task[i].on, task'[i].w = task[i].w,
           UNCHANGED <<up, outcome>>
    PROVE  Placed(i)'
<1>1. task[i] \in Task /\ Placed(i) /\ task[i].kind \in {"add", "patch", "boot"}
  BY AtType, LoadingType
<1>2. task'[i].at \notin {"ban", "banned"}
  BY DEF Loading
<1> QED BY <1>1, <1>2 DEF Placed, StepsOf

\* The rows of the bans that have not expired.
Fresh == [n \in Names |-> Live(banRow[n])]

LEMMA FreshType == ASSUME Shape PROVE Fresh \in [Names -> Requests \cup {None}]
BY DEF Fresh, Live, Shape, TypeOK

\* The reads of a reload.
LEMMA SelectType ==
    ASSUME Shape, NEW i \in Ids, SelectKeys(i) \/ SelectBans(i) \/ SelectEntries(i)
    PROVE  /\ Stepped(i)
           /\ task[i] # None /\ task'[i] # None
           /\ Same(i)
           /\ task'[i].linked = task[i].linked
           /\ UNCHANGED <<keyRow, banRow, entryRow, keys, bans, config, up, term, outcome, calm, out, contested>>
           /\ \/ /\ task[i].at = "keys" /\ task'[i].at = "fillkeys" /\ task'[i].rows = keyRow
              \/ /\ task[i].at = "bans" /\ task'[i].at = "fillbans" /\ task'[i].banned = Fresh
              \/ /\ task[i].at = "entries" /\ task'[i].at = "fillentries" /\ task'[i].defs = entryRow
<1>1. /\ task[i] # None /\ task[i].at \in {"keys", "bans", "entries"}
      /\ UNCHANGED <<keyRow, banRow, entryRow, keys, bans, config, up, term, outcome, calm, out, contested>>
  BY DEF SelectKeys, SelectBans, SelectEntries, tables, caches, history
<1>2. task[i] \in Task /\ Placed(i) /\ task[i].kind \in {"add", "patch", "boot"}
  BY <1>1, AtType, LoadingType DEF Loading
<1>3. PICK new \in Task : /\ task' = [task EXCEPT ![i] = new]
                          /\ new.kind = task[i].kind /\ new.w = task[i].w /\ new.on = task[i].on
                          /\ new.rec = task[i].rec /\ new.valid = task[i].valid
                          /\ new.linked = task[i].linked
                          /\ \/ task[i].at = "keys" /\ new.at = "fillkeys" /\ new.rows = keyRow
                             \/ task[i].at = "bans" /\ new.at = "fillbans" /\ new.banned = Fresh
                             \/ task[i].at = "entries" /\ new.at = "fillentries" /\ new.defs = entryRow
  <2>1. CASE SelectKeys(i)
    <3> DEFINE new == [task[i] EXCEPT !.at = "fillkeys", !.rows = keyRow]
    <3>1. /\ new \in Task /\ new.at = "fillkeys" /\ new.rows = keyRow /\ new.linked = task[i].linked
          /\ new.kind = task[i].kind /\ new.w = task[i].w /\ new.on = task[i].on
          /\ new.rec = task[i].rec /\ new.valid = task[i].valid
      BY <1>2 DEF Task, Steps, Loading, Shape, TypeOK
    <3>2. task' = [task EXCEPT ![i] = new] /\ task[i].at = "keys"
      BY <2>1 DEF SelectKeys
    <3> HIDE DEF new
    <3> QED BY <3>1, <3>2
  <2>2. CASE SelectBans(i)
    <3> DEFINE new == [task[i] EXCEPT !.at = "fillbans", !.banned = Fresh]
    <3>1. /\ new \in Task /\ new.at = "fillbans" /\ new.banned = Fresh /\ new.linked = task[i].linked
          /\ new.kind = task[i].kind /\ new.w = task[i].w /\ new.on = task[i].on
          /\ new.rec = task[i].rec /\ new.valid = task[i].valid
      BY <1>2, FreshType DEF Task, Steps, Loading
    <3>2. task' = [task EXCEPT ![i] = new] /\ task[i].at = "bans"
      BY <2>2 DEF SelectBans, Fresh
    <3> HIDE DEF new
    <3> QED BY <3>1, <3>2
  <2>3. CASE SelectEntries(i)
    <3> DEFINE new == [task[i] EXCEPT !.at = "fillentries", !.defs = entryRow]
    <3>1. /\ new \in Task /\ new.at = "fillentries" /\ new.defs = entryRow /\ new.linked = task[i].linked
          /\ new.kind = task[i].kind /\ new.w = task[i].w /\ new.on = task[i].on
          /\ new.rec = task[i].rec /\ new.valid = task[i].valid
      BY <1>2 DEF Task, Steps, Loading, Shape, TypeOK
    <3>2. task' = [task EXCEPT ![i] = new] /\ task[i].at = "entries"
      BY <2>3 DEF SelectEntries
    <3> HIDE DEF new
    <3> QED BY <3>1, <3>2
  <2> QED BY <2>1, <2>2, <2>3
<1>4. /\ task' \in [Ids -> Task \cup {None}] /\ task'[i] = new /\ new # None
      /\ \A j \in Ids : j # i => task'[j] = task[j]
  BY <1>3, NoneAssumption DEF Shape, TypeOK
<1>5. TypeOK'
  BY <1>1, <1>4 DEF Shape, TypeOK
<1>6. task[i].at \in Loading /\ task'[i].at \in Loading
  BY <1>1, <1>3, <1>4 DEF Loading
<1>7. Placed(i)' /\ Same(i)
  BY <1>1, <1>3, <1>4, <1>6, LoadingPlaced DEF Same
<1>8. Stepped(i)
  BY <1>1, <1>4, <1>5, <1>7, Distinct, QuietStep
<1> QED BY <1>1, <1>3, <1>4, <1>7, <1>8

\* The bans of a worker when reload i has put its rows in.
Refilled(i) == [n \in Names |-> IF task[i].banned[n] # None THEN task[i].banned[n]
                               ELSE bans[task[i].w][n]]

\* The writes of a reload.
LEMMA FillType ==
    ASSUME Shape, NEW i \in Ids, ClearKeys(i) \/ FillKeys(i) \/ FillBans(i)
    PROVE  /\ Stepped(i)
           /\ task[i] # None /\ task'[i] # None
           /\ Same(i)
           /\ UNCHANGED <<keyRow, banRow, entryRow, config, up, term, outcome, calm, out, contested>>
           /\ \/ /\ ClearKeys(i) /\ task[i].at = "clear" /\ task'[i].at = "keys" /\ bans' = bans
                 /\ keys' = [keys EXCEPT ![task[i].w] = NoKeys]
                 /\ task'[i].linked = task[i].linked
              \/ /\ FillKeys(i) /\ task[i].at = "fillkeys" /\ task'[i].at = "bans"
                 /\ bans' = [bans EXCEPT ![task[i].w] = NoBans]
                 /\ task'[i].linked = task[i].linked
              \/ /\ FillBans(i) /\ task[i].at = "fillbans" /\ task'[i].at = "entries" /\ keys' = keys
                 /\ bans' = [bans EXCEPT ![task[i].w] = Refilled(i)]
                 /\ task'[i].linked
<1> DEFINE w == task[i].w
           got == task[i].rows
           N == IF FillKeys(i) THEN {n \in Names : got[n] # None} ELSE Names
           u == Unlink(w, N)
<1>1. /\ task[i] # None /\ task[i].at \in {"clear", "fillkeys", "fillbans"}
      /\ UNCHANGED <<keyRow, banRow, entryRow, config, up, term, outcome, calm, out, contested>>
  BY DEF ClearKeys, FillKeys, FillBans, tables, history
<1>2. /\ task[i] \in Task /\ Placed(i) /\ task[i].kind \in {"add", "patch", "boot"}
      /\ w \in Workers /\ got \in [Names -> Key \cup {None}] /\ task[i].banned \in [Names -> Requests \cup {None}]
      /\ u[i] = task[i]
  BY <1>1, AtType, LoadingType DEF Loading
<1>3. ASSUME ClearKeys(i)
      PROVE  /\ keys' = [keys EXCEPT ![w] = NoKeys]
             /\ bans' = bans /\ task[i].at = "clear"
             /\ TypeOK' /\ Placed(i)' /\ task'[i] # None /\ task'[i].at = "keys"
             /\ Same(i)
             /\ task'[i].linked = task[i].linked
             /\ \A j \in Ids : j # i => task'[j] = u[j]
             /\ \A v \in Workers, n \in Names : keys[v][n] # None /\ (v = w => n \notin N) => keys'[v][n] # None
  <2>1. task[i].at = "clear" /\ bans' = bans /\ keys' = [keys EXCEPT ![w] = NoKeys]
    BY <1>3 DEF ClearKeys
  <2>2. N = Names
    BY <2>1 DEF FillKeys
  <2>3. task' = [u EXCEPT ![i].at = "keys"]
    BY <1>3, <2>2 DEF ClearKeys
  <2> DEFINE new == [task[i] EXCEPT !.at = "keys"]
  <2>4. /\ new \in Task /\ new.at = "keys" /\ new.kind = task[i].kind /\ new.w = w /\ new.on = task[i].on
        /\ new.rec = task[i].rec /\ new.valid = task[i].valid
        /\ new.linked = task[i].linked
    BY <1>2 DEF Task, Steps, Loading
  <2>5. task' = [u EXCEPT ![i] = new] /\ u \in [Ids -> Task \cup {None}]
    BY <1>2, <2>3, UnlinkType
  <2> HIDE DEF new, u, N
  <2>6. /\ task' \in [Ids -> Task \cup {None}] /\ task'[i] = new /\ new # None
        /\ \A j \in Ids : j # i => task'[j] = u[j]
    BY <2>4, <2>5, NoneAssumption
  <2>7. keys' \in [Workers -> [Names -> Key \cup {None}]]
    BY <1>2, <2>1 DEF NoKeys, Shape, TypeOK
  <2>8. TypeOK'
    BY <1>1, <2>1, <2>6, <2>7 DEF Shape, TypeOK
  <2>9. task[i].at \in Loading /\ new.at \in Loading
    BY <2>1, <2>4 DEF Loading
  <2>10. Placed(i)' /\ Same(i)
    BY <1>1, <2>4, <2>6, <2>9, LoadingPlaced DEF Same
  <2>11. \A v \in Workers, n \in Names : keys[v][n] # None /\ (v = w => n \notin N) => keys'[v][n] # None
    BY <1>2, <2>1, <2>2 DEF Shape, TypeOK
  <2> QED BY <2>1, <2>3, <2>4, <2>6, <2>8, <2>10, <2>11
<1>4. ASSUME FillKeys(i)
      PROVE  /\ bans' = [bans EXCEPT ![w] = NoBans] /\ task[i].at = "fillkeys"
             /\ TypeOK' /\ Placed(i)' /\ task'[i] # None /\ task'[i].at = "bans"
             /\ Same(i)
             /\ task'[i].linked = task[i].linked
             /\ \A j \in Ids : j # i => task'[j] = u[j]
             /\ \A v \in Workers, n \in Names : keys[v][n] # None /\ (v = w => n \notin N) => keys'[v][n] # None
  <2>1. /\ task[i].at = "fillkeys" /\ bans' = [bans EXCEPT ![w] = NoBans]
        /\ keys' = [keys EXCEPT ![w] = [n \in Names |-> IF got[n] # None THEN got[n] ELSE keys[w][n]]]
    BY <1>4 DEF FillKeys
  <2> DEFINE new == [task[i] EXCEPT !.at = "bans", !.rows = NoKeys]
  <2>2. /\ new \in Task /\ new.at = "bans" /\ new.kind = task[i].kind /\ new.w = w /\ new.on = task[i].on
        /\ new.rec = task[i].rec /\ new.valid = task[i].valid
        /\ new.linked = task[i].linked
    BY <1>2 DEF Task, Steps, Loading, NoKeys
  <2>3. task' = [u EXCEPT ![i].at = "bans", ![i].rows = NoKeys]
    BY <1>4 DEF FillKeys
  <2>4. task' = [u EXCEPT ![i] = new] /\ u \in [Ids -> Task \cup {None}]
    BY <1>2, <2>3, UnlinkType
  <2> HIDE DEF new, u, N
  <2>5. /\ task' \in [Ids -> Task \cup {None}] /\ task'[i] = new /\ new # None
        /\ \A j \in Ids : j # i => task'[j] = u[j]
    BY <2>2, <2>4, NoneAssumption
  <2>6. keys' \in [Workers -> [Names -> Key \cup {None}]] /\ bans' \in [Workers -> [Names -> Requests \cup {None}]]
    BY <1>2, <2>1 DEF Shape, TypeOK, NoBans
  <2>7. TypeOK'
    BY <1>1, <2>5, <2>6 DEF Shape, TypeOK
  <2>8. task[i].at \in Loading /\ new.at \in Loading
    BY <2>1, <2>2 DEF Loading
  <2>9. Placed(i)' /\ Same(i)
    BY <1>1, <2>2, <2>5, <2>8, LoadingPlaced DEF Same
  <2>10. \A v \in Workers, n \in Names : keys[v][n] # None => keys'[v][n] # None
    BY <1>2, <2>1 DEF Shape, TypeOK
  <2> QED BY <2>1, <2>2, <2>5, <2>7, <2>9, <2>10
<1>5. ASSUME FillBans(i)
      PROVE  /\ bans' = [bans EXCEPT ![w] = Refilled(i)] /\ task[i].at = "fillbans" /\ keys' = keys
             /\ Stepped(i) /\ task'[i] # None /\ task'[i].at = "entries"
             /\ Same(i) /\ task'[i].linked
  <2>1. /\ task[i].at = "fillbans" /\ bans' = [bans EXCEPT ![w] = Refilled(i)] /\ keys' = keys
    BY <1>5 DEF FillBans, Refilled
  <2> DEFINE new == [task[i] EXCEPT !.at = "entries", !.banned = NoBans, !.linked = TRUE]
  <2>2. /\ new \in Task /\ new.at = "entries" /\ new.kind = task[i].kind /\ new.w = w /\ new.on = task[i].on
        /\ new.rec = task[i].rec /\ new.valid = task[i].valid
        /\ new.linked
    BY <1>2 DEF Task, Steps, Loading, NoBans
  <2>3. task' = [task EXCEPT ![i] = new]
    BY <1>5 DEF FillBans
  <2> HIDE DEF new, u, N
  <2>4. /\ task' \in [Ids -> Task \cup {None}] /\ task'[i] = new /\ new # None
        /\ \A j \in Ids : j # i => task'[j] = task[j]
    BY <2>2, <2>3, NoneAssumption DEF Shape, TypeOK
  <2>5. bans' \in [Workers -> [Names -> Requests \cup {None}]]
    <3>1. Refilled(i) \in [Names -> Requests \cup {None}]
      BY <1>2 DEF Refilled, Shape, TypeOK
    <3> QED BY <1>2, <2>1, <3>1 DEF Shape, TypeOK
  <2>6. TypeOK'
    BY <1>1, <2>1, <2>4, <2>5 DEF Shape, TypeOK
  <2>7. task[i].at \in Loading /\ new.at \in Loading
    BY <2>1, <2>2 DEF Loading
  <2>8. Placed(i)' /\ Same(i)
    BY <1>1, <2>2, <2>4, <2>7, LoadingPlaced DEF Same
  <2>9. Stepped(i)
    BY <1>1, <2>1, <2>4, <2>6, <2>8, QuietStep
  <2> QED BY <2>1, <2>2, <2>4, <2>8, <2>9
<1>6. up' = up /\ banRow' = banRow /\ outcome' = outcome
  BY <1>1
<1> HIDE DEF N
<1>7. ASSUME ClearKeys(i) \/ FillKeys(i) PROVE Stepped(i)
  BY <1>1, <1>2, <1>3, <1>4, <1>6, <1>7, UnlinkStep
<1> QED BY <1>1, <1>3, <1>4, <1>5, <1>7

\* What a reload puts into the configuration, all at once or until a definition raises.
LEMMA InjectType ==
    ASSUME Shape, NEW i \in Ids, task[i] # None, NEW E \in SUBSET Stored(i), Inject(i, E)
    PROVE  config' \in [Workers -> [Entries -> Entry \cup {Toml, None}]]
<1> DEFINE Configs == [Entries -> Entry \cup {Toml, None}]
           w == task[i].w
           new == [e \in Entries |-> IF e \in E THEN task[i].defs[e] ELSE config[w][e]]
<1>1. w \in Workers /\ task[i].defs \in [Entries -> Entry \cup {None}]
  BY AtType
<1>2. new \in Configs
  BY <1>1 DEF Shape, TypeOK
<1>3. config' = config \/ config' = [config EXCEPT ![w] = new]
  BY DEF Inject
<1>4. config \in [Workers -> Configs]
  BY DEF Shape, TypeOK
<1> HIDE DEF Configs, new
<1>5. config' \in [Workers -> Configs]
  BY <1>1, <1>2, <1>3, <1>4
<1> QED BY <1>5 DEF Configs

\* The end of a reload.
LEMMA FillEntriesType ==
    ASSUME Shape, NEW i \in Ids, FillEntries(i) \/ FillRaises(i)
    PROVE  /\ Shape' /\ \A j \in Ids : j # i => task'[j] = task[j]
           /\ task[i] # None /\ task[i].at = "fillentries" /\ task'[i] = None
           /\ UNCHANGED <<keyRow, banRow, entryRow, keys, bans, term, out, contested>>
           /\ \A w \in Workers : w # task[i].w => config'[w] = config[w]
           /\ \A j \in Writers : j # i => outcome'[j] = outcome[j]
           /\ \/ /\ FillEntries(i) /\ calm' = calm /\ up' = [up EXCEPT ![task[i].w] = TRUE]
                 /\ i \in Requests => outcome'[i] = "ok"
              \/ /\ FillRaises(i) /\ calm' = [calm EXCEPT ![task[i].w] = FALSE] /\ up' = up
                 /\ i \in Requests => outcome'[i] = "failed"
<1> USE Distinct
<1> DEFINE w == task[i].w
<1>1. /\ task[i] # None /\ task[i].at = "fillentries"
      /\ UNCHANGED <<keyRow, banRow, entryRow, keys, bans, term, out, contested>>
      /\ \/ /\ FillEntries(i) /\ End(i, "ok") /\ calm' = calm /\ up' = [up EXCEPT ![w] = TRUE]
         \/ /\ FillRaises(i) /\ End(i, "failed") /\ calm' = [calm EXCEPT ![w] = FALSE] /\ up' = up
  BY DEF FillEntries, FillRaises, tables, history
<1>2. task[i] \in Task /\ Placed(i) /\ w \in Workers /\ task[i].kind \in {"add", "patch", "boot"}
  BY <1>1, AtType, LoadingType DEF Loading
<1>3. /\ task' \in [Ids -> Task \cup {None}] /\ task'[i] = None
      /\ \A j \in Ids : j # i => task'[j] = task[j]
      /\ outcome' \in [Writers -> {"none", "ok", "refused", "failed"}]
      /\ \A j \in Writers : j # i => outcome'[j] = outcome[j]
  BY <1>1, EndType
<1>4. PICK E \in SUBSET Stored(i) : Inject(i, E)
  BY DEF FillEntries, FillRaises, Stored
<1>5. config' \in [Workers -> [Entries -> Entry \cup {Toml, None}]]
  BY <1>1, <1>4, InjectType
<1>6. \A v \in Workers : v # w => config'[v] = config[v]
  BY <1>4 DEF Inject, Shape, TypeOK
<1>7. up' \in [Workers -> BOOLEAN] /\ calm' \in [Workers -> BOOLEAN]
  BY <1>1 DEF Shape, TypeOK
<1>8. TypeOK'
  BY <1>1, <1>3, <1>5, <1>7 DEF Shape, TypeOK
<1>9. ASSUME NEW j \in Ids, j # i, task'[j] # None PROVE Placed(j)'
  <2>1. task'[j] = task[j] /\ task[j].w \in Workers /\ Placed(j)
    BY <1>3, <1>9, AtType
  <2>2. j \in Requests => outcome'[j] = outcome[j]
    BY <1>3, <1>9
  <2>3. j \notin Workers => up'[task[j].w]
    <3>1. \A v \in Workers : up[v] => up'[v]
      BY <1>1, <1>2 DEF Shape, TypeOK
    <3> QED BY <2>1, <3>1 DEF Placed
  <2>4. j \in Workers => ~up'[j]
    <3> SUFFICES ASSUME j \in Workers PROVE ~up'[j]
      OBVIOUS
    <3>1. task[j].w = j /\ ~up[j]
      BY <1>9, <2>1 DEF Placed
    <3>2. w # j
      BY <1>2, <1>9, <3>1 DEF Placed
    <3> QED BY <1>1, <3>1, <3>2 DEF Shape, TypeOK
  <2> QED BY <1>1, <2>1, <2>2, <2>3, <2>4 DEF Placed
<1>10. \/ /\ FillEntries(i) /\ calm' = calm /\ up' = [up EXCEPT ![w] = TRUE]
          /\ i \in Requests => outcome'[i] = "ok"
       \/ /\ FillRaises(i) /\ calm' = [calm EXCEPT ![w] = FALSE] /\ up' = up
          /\ i \in Requests => outcome'[i] = "failed"
  BY <1>1, EndType
<1>11. Shape'
  BY <1>3, <1>8, <1>9 DEF Shape
<1> QED BY <1>1, <1>3, <1>6, <1>10, <1>11

LEMMA FailType ==
    ASSUME Shape, NEW i \in Ids, Fail(i)
    PROVE  /\ Stepped(i) /\ \A j \in Ids : j # i => task'[j] = task[j]
           /\ task[i] # None /\ task'[i] = None
           /\ calm' = [calm EXCEPT ![task[i].w] = FALSE]
           /\ UNCHANGED <<keyRow, banRow, entryRow, keys, bans, config, up, term, contested>>
           /\ i \in Requests => outcome'[i] = "failed"
           /\ \A j \in Writers : j # i => outcome'[j] = outcome[j]
<1>1. /\ task[i] # None /\ End(i, "failed") /\ calm' = [calm EXCEPT ![task[i].w] = FALSE]
      /\ UNCHANGED <<keyRow, banRow, entryRow, keys, bans, config, up, term, contested>>
      /\ out' \subseteq out
  BY DEF Fail, tables, caches
<1>2. /\ task' \in [Ids -> Task \cup {None}] /\ task'[i] = None
      /\ \A j \in Ids : j # i => task'[j] = task[j]
      /\ outcome' \in [Writers -> {"none", "ok", "refused", "failed"}]
      /\ \A j \in Writers : j # i => outcome'[j] = outcome[j]
      /\ i \in Requests => outcome'[i] = "failed"
  BY <1>1, EndType
<1>3. calm' \in [Workers -> BOOLEAN]
  BY <1>1 DEF Shape, TypeOK
<1>4. TypeOK'
  BY <1>1, <1>2, <1>3 DEF Shape, TypeOK
<1>5. Stepped(i)
  BY <1>1, <1>2, <1>4, QuietStep
<1> QED BY <1>1, <1>2, <1>5

LEMMA HotReloadType ==
    ASSUME Shape, NEW w \in Workers, HotReload(w)
    PROVE  /\ Shape'
           /\ \A i \in Ids : \/ task'[i] = task[i]
                             \/ task[i] # None /\ task[i].at \in Loading /\ task'[i] = Freed(task[i])
           /\ UNCHANGED <<keyRow, banRow, entryRow, keys, bans, up, term, outcome, out, contested>>
           /\ calm' = [calm EXCEPT ![w] = FALSE]
           /\ \A v \in Workers \ {w} : /\ config'[v] = config[v]
                                       /\ \A i \in Ids : AtWorker(i, v) => task'[i] = task[i]
<1>1. /\ UNCHANGED <<keyRow, banRow, entryRow, keys, bans, up, term, outcome, out, contested>>
      /\ calm' = [calm EXCEPT ![w] = FALSE]
      /\ config' = [config EXCEPT ![w] = TomlConfig]
  BY DEF HotReload, tables
<1>2. ASSUME NEW i \in Ids
      PROVE  task'[i] = IF /\ task[i] # None /\ task[i].at \in {"entries", "fillentries"}
                           /\ task[i].w = w
                        THEN Freed(task[i]) ELSE task[i]
  BY DEF HotReload, Freed
<1>3. \A i \in Ids : \/ task'[i] = task[i]
                     \/ task[i] # None /\ task[i].at \in Loading /\ task'[i] = Freed(task[i])
  BY <1>2 DEF Loading
<1>4. task' \in [Ids -> Task \cup {None}]
  <2>1. task' = [i \in Ids |-> task'[i]]
    BY DEF HotReload
  <2>2. ASSUME NEW i \in Ids PROVE task'[i] \in Task \cup {None}
    BY <1>3, FreedType DEF Shape, TypeOK
  <2> QED BY <2>1, <2>2
<1>5. config' \in [Workers -> [Entries -> Entry \cup {Toml, None}]]
  BY <1>1 DEF Shape, TypeOK, TomlConfig
<1>6. TypeOK'
  BY <1>1, <1>4, <1>5 DEF Shape, TypeOK
<1>7. ASSUME NEW i \in Ids, task'[i] # None PROVE Placed(i)'
  <2>1. CASE task'[i] = task[i]
    BY <1>1, <1>7, <2>1 DEF Shape, Placed
  <2>2. CASE task[i] # None /\ task[i].at \in Loading /\ task'[i] = Freed(task[i])
    <3>1. task[i].kind \in {"add", "patch", "boot"} /\ Placed(i) /\ task[i] \in Task
      BY <2>2, LoadingType, AtType
    <3> QED BY <1>1, <2>2, <3>1, FreedType DEF Placed
  <2> QED BY <1>3, <2>1, <2>2
<1>8. \A v \in Workers \ {w} : config'[v] = config[v] /\ \A i \in Ids : AtWorker(i, v) => task'[i] = task[i]
  BY <1>1, <1>2 DEF Shape, TypeOK, AtWorker
<1> QED BY <1>1, <1>3, <1>6, <1>7, <1>8 DEF Shape

LEMMA CrashType ==
    ASSUME Shape, NEW w \in Workers, Crash(w)
    PROVE  /\ Shape' /\ up[w] /\ up' = [up EXCEPT ![w] = FALSE]
           /\ \A i \in Ids : task'[i] = IF AtWorker(i, w) THEN None ELSE task[i]
           /\ \A r \in Requests : outcome'[r] = IF AtWorker(r, w) THEN "failed" ELSE outcome[r]
           /\ UNCHANGED <<keyRow, banRow, entryRow, term, calm, out, contested>>
           /\ keys' = [keys EXCEPT ![w] = NoKeys] /\ bans' = [bans EXCEPT ![w] = NoBans]
           /\ config' = [config EXCEPT ![w] = TomlConfig]
<1> USE Distinct
<1>1. /\ up[w] /\ up' = [up EXCEPT ![w] = FALSE]
      /\ task' = [i \in Ids |-> IF AtWorker(i, w) THEN None ELSE task[i]]
      /\ outcome' = [r \in Writers |-> IF r \in Requests /\ AtWorker(r, w) THEN "failed" ELSE outcome[r]]
      /\ UNCHANGED <<keyRow, banRow, entryRow, term, calm, out, contested>>
      /\ keys' = [keys EXCEPT ![w] = NoKeys] /\ bans' = [bans EXCEPT ![w] = NoBans]
      /\ config' = [config EXCEPT ![w] = TomlConfig]
  BY DEF Crash, AtWorker, tables, history
<1>2. task' \in [Ids -> Task \cup {None}] /\ outcome' \in [Writers -> {"none", "ok", "refused", "failed"}]
  BY <1>1 DEF Shape, TypeOK
<1>3. config' \in [Workers -> [Entries -> Entry \cup {Toml, None}]]
  BY <1>1 DEF Shape, TypeOK, TomlConfig
<1>4. /\ up' \in [Workers -> BOOLEAN] /\ bans' \in [Workers -> [Names -> Requests \cup {None}]]
      /\ keys' \in [Workers -> [Names -> Key \cup {None}]]
  BY <1>1 DEF Shape, TypeOK, NoKeys, NoBans
<1>5. TypeOK'
  BY <1>1, <1>2, <1>3, <1>4 DEF Shape, TypeOK
<1>6. ASSUME NEW i \in Ids, task'[i] # None PROVE Placed(i)'
  <2>1. task'[i] = task[i] /\ ~AtWorker(i, w)
    BY <1>1, <1>6
  <2>2. task[i] \in Task /\ Placed(i) /\ task[i].w \in Workers /\ task[i].w # w
    BY <1>6, <2>1, AtType DEF AtWorker
  <2>3. i \in Requests => outcome'[i] = outcome[i]
    BY <1>1, <2>1
  <2>4. /\ keys'[task[i].w] = keys[task[i].w] /\ up'[task[i].w] = up[task[i].w]
    BY <1>1, <2>2 DEF Shape, TypeOK
  <2> QED BY <1>1, <2>1, <2>2, <2>3, <2>4 DEF Placed
<1> QED BY <1>1, <1>5, <1>6 DEF Shape

LEMMA StartType ==
    ASSUME Shape, NEW w \in Workers, Start(w)
    PROVE  /\ Shape' /\ ~up[w] /\ task[w] = None /\ \A i \in Ids : ~AtWorker(i, w)
           /\ \A i \in Ids : i # w => task'[i] = task[i]
           /\ task'[w] # None /\ task'[w].kind = "boot" /\ task'[w].w = w /\ task'[w].at = "clear"
           /\ UNCHANGED <<keyRow, banRow, entryRow, up, term, outcome, out, contested>>
           /\ keys' = [keys EXCEPT ![w] = NoKeys] /\ bans' = [bans EXCEPT ![w] = NoBans]
           /\ config' = [config EXCEPT ![w] = TomlConfig] /\ calm' = [calm EXCEPT ![w] = TRUE]
<1> USE Distinct
<1> DEFINE new == NewTask("boot", w, "clear", None, None, TRUE)
<1>1. /\ ~up[w] /\ task[w] = None /\ task' = [task EXCEPT ![w] = new]
      /\ UNCHANGED <<keyRow, banRow, entryRow, up, term, outcome, out, contested>>
      /\ keys' = [keys EXCEPT ![w] = NoKeys] /\ bans' = [bans EXCEPT ![w] = NoBans]
      /\ config' = [config EXCEPT ![w] = TomlConfig] /\ calm' = [calm EXCEPT ![w] = TRUE]
  BY DEF Start, tables
<1>2. /\ new \in Task /\ new.kind = "boot" /\ new.w = w /\ new.at = "clear"
  BY DEF NewTask, Task, Steps, Loading, Kinds, NoKeys, NoBans, NoEntries
<1> HIDE DEF new
<1>3. /\ task' \in [Ids -> Task \cup {None}] /\ task'[w] = new /\ new # None
      /\ \A i \in Ids : i # w => task'[i] = task[i]
  BY <1>1, <1>2, NoneAssumption DEF Shape, TypeOK
<1>4. config' \in [Workers -> [Entries -> Entry \cup {Toml, None}]]
  BY <1>1 DEF Shape, TypeOK, TomlConfig
<1>5. /\ calm' \in [Workers -> BOOLEAN] /\ bans' \in [Workers -> [Names -> Requests \cup {None}]]
      /\ keys' \in [Workers -> [Names -> Key \cup {None}]]
  BY <1>1 DEF Shape, TypeOK, NoKeys, NoBans
<1>6. TypeOK'
  BY <1>1, <1>3, <1>4, <1>5 DEF Shape, TypeOK
<1>7. \A i \in Ids : ~AtWorker(i, w)
  <2> SUFFICES ASSUME NEW i \in Ids, task[i] # None, task[i].w = w PROVE FALSE
    BY DEF AtWorker
  <2>1. Placed(i)
    BY DEF Shape
  <2> QED BY <1>1, <2>1 DEF Placed, Ids
<1>8. ASSUME NEW i \in Ids, i # w, task'[i] # None PROVE Placed(i)'
  <2>1. task'[i] = task[i] /\ task[i] \in Task /\ Placed(i) /\ task[i].w \in Workers
    BY <1>3, <1>8, AtType
  <2>2. keys'[task[i].w] = keys[task[i].w]
    BY <1>1, <1>7, <1>8, <2>1 DEF Shape, TypeOK, AtWorker
  <2> QED BY <1>1, <2>1, <2>2 DEF Placed
<1>9. Placed(w)'
  BY <1>1, <1>2, <1>3 DEF Placed, StepsOf, KeyKinds, Loading
<1> QED BY <1>1, <1>2, <1>3, <1>6, <1>7, <1>8, <1>9 DEF Shape

\* A step of a request after its first.
Requesting(r) ==
    \/ CommitCreate(r) \/ ApplyCreate(r) \/ CommitUpdate(r) \/ ApplyUpdate(r)
    \/ CommitRevoke(r) \/ ApplyRevoke(r) \/ CommitBan(r) \/ ApplyBan(r)
    \/ CommitAdd(r) \/ CommitPatch(r) \/ CommitDrop(r) \/ ApplyDrop(r)

\* A step of a coroutine after its first.
Working(i) ==
    \/ i \in Requests /\ Requesting(i)
    \/ CommitUnban(i) \/ ApplyUnban(i)
    \/ Load(i) \/ Fail(i)

\* The removal of an expired ban begins, or the time of one comes.
Sweeping == \E w \in Workers, n \in Names, i \in Sweepers : CheckExpired(w, n, i)
Expiring == \E r \in Requests : Expire(r)

LEMMA NextCases ==
    ASSUME [Next]_vars
    PROVE  \/ UNCHANGED vars
           \/ \E r \in Requests, w \in Workers : Beginning(r, w)
           \/ \E i \in Ids : Working(i)
           \/ Sweeping \/ Expiring
           \/ \E w \in Workers : HotReload(w) \/ Crash(w) \/ Start(w)
<1> USE Distinct
<1>1. CASE UNCHANGED vars
  BY <1>1
<1>2. ASSUME NEW r \in Requests, NEW w \in Workers,
             \/ \E n \in Names : BeginCreate(r, w, n) \/ BeginRevoke(r, w, n) \/ BeginUnban(r, w, n)
             \/ \E n \in Names, brief \in BOOLEAN : BeginBan(r, w, n, brief)
             \/ \E n \in Names, f \in Fields : BeginUpdate(r, w, n, f)
             \/ \E e \in Entries, valid \in BOOLEAN : BeginAdd(r, w, e, valid) \/ BeginPatch(r, w, e, valid)
             \/ \E e \in Entries : BeginDrop(r, w, e)
      PROVE  Beginning(r, w)
  BY <1>2 DEF Beginning
<1>3. ASSUME NEW r \in Requests,
             \/ Expire(r)
             \/ CommitCreate(r) \/ ApplyCreate(r) \/ CommitUpdate(r) \/ ApplyUpdate(r)
             \/ CommitRevoke(r) \/ ApplyRevoke(r) \/ CommitBan(r) \/ ApplyBan(r)
             \/ CommitAdd(r) \/ CommitPatch(r) \/ CommitDrop(r) \/ ApplyDrop(r)
      PROVE  r \in Ids /\ (Working(r) \/ Expiring)
  BY <1>3 DEF Working, Requesting, Expiring
<1>4. ASSUME NEW i \in Ids, CommitUnban(i) \/ ApplyUnban(i) \/ Load(i) \/ Fail(i) PROVE Working(i)
  BY <1>4 DEF Working
<1>5. ASSUME \E w \in Workers, n \in Names, i \in Sweepers : CheckExpired(w, n, i) PROVE Sweeping
  BY <1>5 DEF Sweeping
<1> QED BY <1>1, <1>2, <1>3, <1>4, <1>5 DEF Next

LEMMA WorkingType ==
    ASSUME Shape, NEW i \in Ids, Working(i)
    PROVE  Stepped(i) /\ contested' = contested /\ term' = term
<1> DEFINE Still == contested' = contested /\ term' = term
<1> USE Distinct
<1>1. ASSUME FillEntries(i) \/ FillRaises(i) PROVE Stepped(i) /\ Still
  <2>1. /\ Shape' /\ \A j \in Ids : j # i => task'[j] = task[j]
        /\ task[i] # None /\ task'[i] = None /\ Still
        /\ \A j \in Writers : j # i => outcome'[j] = outcome[j]
        /\ i \in Requests => outcome'[i] # "none"
    BY <1>1, FillEntriesType
  <2> QED BY <2>1 DEF Stepped, Kept
<1>2. ASSUME ClearKeys(i) \/ FillKeys(i) \/ FillBans(i) PROVE Stepped(i) /\ Still
  BY <1>2, FillType
<1>3. ASSUME SelectKeys(i) \/ SelectBans(i) \/ SelectEntries(i) PROVE Stepped(i) /\ Still
  BY <1>3, SelectType
<1>4. ASSUME i \in Requests, CommitCreate(i) \/ ApplyCreate(i) PROVE Stepped(i) /\ Still
  BY <1>4, CreateType DEF CommitCreate, ApplyCreate, history
<1>5. ASSUME i \in Requests, CommitUpdate(i) \/ ApplyUpdate(i) PROVE Stepped(i) /\ Still
  BY <1>5, UpdateType DEF CommitUpdate, ApplyUpdate, history
<1>6. ASSUME i \in Requests, CommitRevoke(i) \/ ApplyRevoke(i) PROVE Stepped(i) /\ Still
  BY <1>6, RevokeType DEF CommitRevoke, ApplyRevoke
<1>7. ASSUME i \in Requests, CommitBan(i) \/ ApplyBan(i) PROVE Stepped(i) /\ Still
  BY <1>7, BanType DEF CommitBan, ApplyBan
<1>8. ASSUME i \in Requests, CommitAdd(i) \/ CommitPatch(i) \/ CommitDrop(i) \/ ApplyDrop(i)
      PROVE  Stepped(i) /\ Still
  BY <1>8, EntryType DEF CommitAdd, CommitPatch, CommitDrop, ApplyDrop, history
<1>9. ASSUME CommitUnban(i) \/ ApplyUnban(i) PROVE Stepped(i) /\ Still
  BY <1>9, UnbanType DEF CommitUnban, ApplyUnban, history
<1>10. ASSUME Fail(i) PROVE Stepped(i) /\ Still
  BY <1>10, FailType
<1> HIDE DEF Still
<1>11. Stepped(i) /\ Still
  BY <1>1, <1>2, <1>3, <1>4, <1>5, <1>6, <1>7, <1>8, <1>9, <1>10 DEF Working, Requesting, Load
<1> QED BY <1>11 DEF Still

LEMMA ExpireType ==
    ASSUME Shape, Expiring
    PROVE  /\ Shape'
           /\ UNCHANGED <<keyRow, banRow, entryRow, keys, bans, config, up, task, outcome, calm, out, contested>>
           /\ \E r \in Requests : term[r] = "later" /\ term' = [term EXCEPT ![r] = "over"]
<1>1. /\ UNCHANGED <<keyRow, banRow, entryRow, keys, bans, config, up, task, outcome, calm, out, contested>>
      /\ \E r \in Requests : term[r] = "later" /\ term' = [term EXCEPT ![r] = "over"]
  BY DEF Expiring, Expire, tables, caches, history
<1>2. TypeOK'
  BY <1>1 DEF Shape, TypeOK
<1> QED BY <1>1, <1>2 DEF Shape, Placed

LEMMA SweepType ==
    ASSUME Shape, NEW w \in Workers, NEW n \in Names, NEW i \in Sweepers, CheckExpired(w, n, i)
    PROVE  /\ Shape'
           /\ UNCHANGED <<keyRow, banRow, entryRow, keys, config, up, term, outcome, contested>>
           /\ up[w] /\ bans[w][n] # None /\ Live(bans[w][n]) = None
           /\ bans' = [bans EXCEPT ![w][n] = None]
           /\ out' = IF n \in Static THEN {x \in out : x[2] # n} ELSE out
           /\ calm' = [calm EXCEPT ![w] = @ /\ ~Busy(w)]
           /\ task[i] = None /\ \A j \in Ids : j # i => task'[j] = task[j]
           /\ task'[i] # None /\ task'[i].kind = "sweep" /\ task'[i].w = w /\ task'[i].on = n
           /\ task'[i].at = "unban" /\ task'[i].linked
<1> USE Distinct
<1> DEFINE new == NewTask("sweep", w, "unban", n, None, TRUE)
<1>1. /\ UNCHANGED <<keyRow, banRow, entryRow, keys, config, up, term, outcome, contested>>
      /\ up[w] /\ bans[w][n] # None /\ Live(bans[w][n]) = None
      /\ bans' = [bans EXCEPT ![w][n] = None]
      /\ out' = IF n \in Static THEN {x \in out : x[2] # n} ELSE out
      /\ calm' = [calm EXCEPT ![w] = @ /\ ~Busy(w)]
      /\ task[i] = None /\ task' = [task EXCEPT ![i] = new]
  BY DEF CheckExpired, Undone, tables
<1>2. /\ new \in Task /\ new.kind = "sweep" /\ new.w = w /\ new.on = n /\ new.at = "unban" /\ new.linked
  BY DEF NewTask, Task, Steps, Kinds, NoKeys, NoBans, NoEntries
<1> HIDE DEF new
<1>3. /\ task' \in [Ids -> Task \cup {None}] /\ task'[i] = new /\ new # None
      /\ \A j \in Ids : j # i => task'[j] = task[j]
  BY <1>1, <1>2, NoneAssumption DEF Shape, TypeOK
<1>4. bans' \in [Workers -> [Names -> Requests \cup {None}]] /\ calm' \in [Workers -> BOOLEAN]
  BY <1>1 DEF Shape, TypeOK, Busy
<1>5. out' \subseteq Workers \X Names
  BY <1>1 DEF Shape, TypeOK
<1>6. TypeOK'
  BY <1>1, <1>3, <1>4, <1>5 DEF Shape, TypeOK
<1>7. Placed(i)'
  BY <1>1, <1>2, <1>3 DEF Placed, StepsOf
<1>8. ASSUME NEW j \in Ids, j # i, task'[j] # None PROVE Placed(j)'
  <2>1. task'[j] = task[j] /\ Placed(j)
    BY <1>3, <1>8, AtType
  <2> QED BY <1>1, <2>1 DEF Placed
<1> QED BY <1>1, <1>2, <1>3, <1>6, <1>7, <1>8 DEF Shape

LEMMA NextType == ASSUME Shape, [Next]_vars PROVE Shape'
<1>1. CASE UNCHANGED vars
  BY <1>1 DEF vars, tables, caches, history, Shape, TypeOK, Placed
<1>2. CASE \E r \in Requests, w \in Workers : Beginning(r, w)
  BY <1>2, BeginningType
<1>3. CASE \E i \in Ids : Working(i)
  BY <1>3, WorkingType DEF Stepped
<1>4. CASE \E w \in Workers : HotReload(w) \/ Crash(w) \/ Start(w)
  BY <1>4, HotReloadType, CrashType, StartType
<1>5. CASE Sweeping
  BY <1>5, SweepType DEF Sweeping
<1>6. CASE Expiring
  BY <1>6, ExpireType
<1> QED BY <1>1, <1>2, <1>3, <1>4, <1>5, <1>6, NextCases

\* Types are kept, and every coroutine is where its kind may be: an update writes only to a
\* dictionary that is in the cache, and a startup only runs in a worker that is not up.
THEOREM TypeCorrect == Spec => []TypeOK
<1>1. Shape => TypeOK
  BY DEF Shape
<1> QED BY <1>1, InitType, NextType, PTL DEF Spec

\* What coroutines are about never changes, and only requests that begin and startups are new.
LEMMA TasksKept ==
    ASSUME Shape, [Next]_vars, ~\E r \in Requests, w \in Workers : Beginning(r, w),
           NEW i \in Ids, task'[i] # None
    PROVE  \/ task[i] # None /\ Same(i)
           \/ task'[i].kind = "boot"
           \/ task'[i].kind = "sweep" /\ Sweeping
<1>1. CASE UNCHANGED vars
  BY <1>1 DEF vars, Same
<1>2. ASSUME NEW j \in Ids, Working(j) PROVE task[i] # None /\ Same(i)
  <2>1. Stepped(j)
    BY <1>2, WorkingType
  <2>2. CASE i = j
    BY <2>1, <2>2 DEF Stepped
  <2>3. CASE i # j
    <3>1. Kept(i)
      BY <2>1, <2>3 DEF Stepped
    <3> QED BY <3>1, AtType, FreedType DEF Kept, Same
  <2> QED BY <2>2, <2>3
<1>3. ASSUME NEW w \in Workers, HotReload(w) PROVE task[i] # None /\ Same(i)
  <2>1. task'[i] = task[i] \/ (task[i] # None /\ task'[i] = Freed(task[i]))
    BY <1>3, HotReloadType
  <2> QED BY <2>1, AtType, FreedType DEF Same
<1>4. ASSUME NEW w \in Workers, Crash(w) PROVE task[i] # None /\ Same(i)
  BY <1>4, CrashType DEF Same
<1>5. ASSUME NEW w \in Workers, Start(w) PROVE (task[i] # None /\ Same(i)) \/ task'[i].kind = "boot"
  BY <1>5, StartType DEF Same
<1>6. CASE Sweeping
  <2>1. PICK w \in Workers, n \in Names, j \in Sweepers : CheckExpired(w, n, j)
    BY <1>6 DEF Sweeping
  <2> QED BY <1>6, <2>1, SweepType, Distinct DEF Same
<1>7. CASE Expiring
  BY <1>7, ExpireType DEF Same
<1> QED BY <1>1, <1>2, <1>3, <1>4, <1>5, <1>6, <1>7, NextCases

\* What a step may do to the row of a key.
LEMMA RowStep ==
    ASSUME Shape, [Next]_vars, NEW n \in Names, keyRow[n] = None, keyRow'[n] # None
    PROVE  \E r \in Ids : task[r] # None /\ task[r].kind = "create" /\ task[r].on = n
<1> USE Distinct
<1>1. CASE UNCHANGED keyRow
  BY <1>1
<1>2. ASSUME NEW r \in Requests, CommitCreate(r)
      PROVE  task[r] # None /\ task[r].kind = "create" /\ task[r].on = n
  BY <1>2 DEF CommitCreate, At, Shape, TypeOK
<1>3. ASSUME NEW r \in Requests, CommitUpdate(r) PROVE FALSE
  <2>1. \/ keyRow[task[r].on] # None /\ keyRow' = [keyRow EXCEPT ![task[r].on].fields = task[r].rec.fields]
        \/ keyRow' = keyRow
    BY <1>3 DEF CommitUpdate
  <2> QED BY <2>1 DEF Shape, TypeOK
<1>4. ASSUME NEW r \in Requests, CommitRevoke(r) PROVE FALSE
  BY <1>4 DEF CommitRevoke, Shape, TypeOK
<1>5. ASSUME NEW i \in Ids, Working(i)
      PROVE  \/ UNCHANGED keyRow
             \/ i \in Requests /\ (CommitCreate(i) \/ CommitUpdate(i) \/ CommitRevoke(i))
  BY <1>5, FillEntriesType, FillType, SelectType, FailType
     DEF Working, Requesting, Load, CommitUnban, ApplyUnban, ApplyCreate, ApplyUpdate, ApplyRevoke, CommitBan, ApplyBan, CommitAdd,
         CommitPatch, CommitDrop, ApplyDrop, tables
<1>6. ASSUME NEW w \in Workers, HotReload(w) \/ Crash(w) \/ Start(w) PROVE UNCHANGED keyRow
  BY <1>6 DEF HotReload, Crash, Start, tables
<1>7. ASSUME NEW r \in Requests, NEW w \in Workers, Beginning(r, w) PROVE UNCHANGED keyRow
  BY <1>7, BeginningStep
<1>8. Sweeping \/ Expiring => UNCHANGED keyRow
  BY SweepType, ExpireType DEF Sweeping
<1>9. UNCHANGED vars => UNCHANGED keyRow
  BY DEF vars, tables
<1> QED BY <1>1, <1>2, <1>3, <1>4, <1>5, <1>6, <1>7, <1>8, <1>9, NextCases

\* A request has begun; it may have ended.
Begun(r) == task[r] # None \/ outcome[r] # "none"

LEMMA BegunStep ==
    ASSUME Shape, [Next]_vars, NEW r \in Requests, Begun(r)
    PROVE  Begun(r)'
<1> USE Distinct
<1>1. ASSUME task'[r] = task[r], outcome'[r] = outcome[r] PROVE Begun(r)'
  BY <1>1 DEF Begun
<1>2. ASSUME NEW s \in Requests, NEW w \in Workers, Beginning(s, w) PROVE Begun(r)'
  <2>1. PICK A, kind, n, rec, valid : BeginsWith(A, s, kind, w, n, rec, valid)
    BY <1>2, BeginningStep
  <2>2. outcome' = outcome /\ up[w]
    BY <1>2, BeginningStep
  <2>3. task[s] = None /\ outcome[s] = "none" /\ \A j \in Ids : j # s => task'[j] = task[j]
    BY <2>1, <2>2, BeginType
  <2>4. r # s
    BY <2>3 DEF Begun
  <2> QED BY <1>1, <2>2, <2>3, <2>4
<1>3. ASSUME NEW i \in Ids, Working(i) PROVE Begun(r)'
  <2>1. Stepped(i)
    BY <1>3, WorkingType
  <2>2. CASE i = r
    BY <2>1, <2>2 DEF Stepped, Begun
  <2>3. CASE i # r
    <3>1. Kept(r) /\ outcome'[r] = outcome[r]
      BY <2>1, <2>3 DEF Stepped
    <3> QED BY <3>1, AtType, FreedType DEF Kept, Begun
  <2> QED BY <2>2, <2>3
<1>4. ASSUME NEW w \in Workers, HotReload(w) PROVE Begun(r)'
  <2>1. outcome' = outcome /\ (task'[r] = task[r] \/ (task[r] # None /\ task'[r] = Freed(task[r])))
    BY <1>4, HotReloadType
  <2> QED BY <2>1, AtType, FreedType DEF Begun
<1>5. ASSUME NEW w \in Workers, Crash(w) PROVE Begun(r)'
  BY <1>5, CrashType DEF Begun
<1>6. ASSUME NEW w \in Workers, Start(w) PROVE Begun(r)'
  BY <1>1, <1>6, StartType
<1>7. ASSUME Sweeping PROVE Begun(r)'
  BY <1>1, <1>7, SweepType DEF Sweeping
<1>8. Expiring => task'[r] = task[r] /\ outcome'[r] = outcome[r]
  BY ExpireType
<1>9. UNCHANGED vars => task'[r] = task[r] /\ outcome'[r] = outcome[r]
  BY DEF vars
<1> QED BY <1>1, <1>2, <1>3, <1>4, <1>5, <1>6, <1>7, <1>8, <1>9, NextCases

\* What is known of a ban changes when its request begins, and when its time comes.
LEMMA TermStep ==
    ASSUME Shape, [Next]_vars, NEW r \in Requests, term'[r] # term[r]
    PROVE  \/ Begun(r) /\ term[r] = "later" /\ term'[r] = "over"
           \/ term[r] = "later" /\ term'[r] = "over"
           \/ ~Begun(r) /\ task'[r] # None /\ task'[r].kind = "ban" /\ term'[r] \in {"never", "later"}
<1> USE Distinct
<1>1. ASSUME NEW s \in Requests, NEW w \in Workers, Beginning(s, w)
      PROVE  ~Begun(r) /\ task'[r] # None /\ task'[r].kind = "ban" /\ term'[r] \in {"never", "later"}
  <2>1. /\ Histories(s) /\ up[w]
        /\ \E A, kind, n, rec, valid : /\ BeginsWith(A, s, kind, w, n, rec, valid)
                                       /\ kind # "ban" => term' = term
    BY <1>1, BeginningStep
  <2>2. PICK A, kind, n, rec, valid : /\ BeginsWith(A, s, kind, w, n, rec, valid)
                                      /\ kind # "ban" => term' = term
    BY <2>1
  <2>3. kind = "ban"
    BY <2>2
  <2>4. task[s] = None /\ outcome[s] = "none" /\ task'[s] # None /\ task'[s].kind = kind
    BY <2>1, <2>2, BeginType
  <2>5. s = r /\ term'[r] \in {"never", "later"}
    BY <2>1 DEF Histories, Shape, TypeOK
  <2> QED BY <2>3, <2>4, <2>5 DEF Begun
<1>2. ASSUME Expiring PROVE term[r] = "later" /\ term'[r] = "over"
  BY <1>2, ExpireType DEF Shape, TypeOK
<1>3. ASSUME NEW w \in Workers, HotReload(w) \/ Crash(w) \/ Start(w) PROVE term' = term
  BY <1>3 DEF HotReload, Crash, Start
<1>4. ASSUME Sweeping PROVE term' = term
  BY <1>4, SweepType DEF Sweeping
<1>5. UNCHANGED vars => term' = term
  BY DEF vars
<1> QED BY <1>1, <1>2, <1>3, <1>4, <1>5, WorkingType, NextCases

\* What a step may do to the row of a ban.
LEMMA BanStep ==
    ASSUME Shape, [Next]_vars, NEW n \in Names, banRow'[n] # banRow[n]
    PROVE  \/ /\ banRow'[n] = None
              /\ \E i \in Ids : task[i] # None /\ task[i].kind \in {"unban", "sweep"} /\ task[i].on = n
           \/ \E r \in Requests : /\ task[r] # None /\ task[r].kind \in {"revoke", "ban"}
                                  /\ task[r].on = n /\ task[r].at = "ban" /\ banRow'[n] = r
<1> USE Distinct
<1>1. ASSUME NEW r \in Requests, CommitBan(r)
      PROVE  /\ task[r] # None /\ task[r].kind \in {"revoke", "ban"}
             /\ task[r].on = n /\ task[r].at = "ban" /\ banRow'[n] = r
  BY <1>1 DEF CommitBan, Banning, At, Shape, TypeOK
<1>2. ASSUME NEW i \in Ids, CommitUnban(i)
      PROVE  /\ banRow'[n] = None
             /\ task[i] # None /\ task[i].kind \in {"unban", "sweep"} /\ task[i].on = n
  BY <1>2 DEF CommitUnban, Unbanning, At, Shape, TypeOK
<1>3. ASSUME NEW i \in Ids, Working(i)
      PROVE  banRow' = banRow \/ (i \in Requests /\ CommitBan(i)) \/ CommitUnban(i)
  BY <1>3, FillEntriesType, FillType, SelectType, FailType
     DEF Working, Requesting, Load, CommitCreate, ApplyCreate, CommitUpdate, ApplyUpdate, CommitRevoke,
         ApplyRevoke, ApplyBan, ApplyUnban, CommitAdd, CommitPatch, CommitDrop, ApplyDrop, tables
<1>4. ASSUME NEW w \in Workers, HotReload(w) \/ Crash(w) \/ Start(w) PROVE banRow' = banRow
  BY <1>4 DEF HotReload, Crash, Start, tables
<1>5. ASSUME NEW r \in Requests, NEW w \in Workers, Beginning(r, w) PROVE banRow' = banRow
  BY <1>5, BeginningStep
<1>6. Sweeping \/ Expiring => banRow' = banRow
  BY SweepType, ExpireType DEF Sweeping
<1>7. UNCHANGED vars => banRow' = banRow
  BY DEF vars, tables
<1> QED BY <1>1, <1>2, <1>3, <1>4, <1>5, <1>6, <1>7, NextCases

\* Only requests that have begun have written bans, and only a ban has an end.
Told ==
    /\ \A r \in Requests : Begun(r) \/ term[r] = "never"
    /\ \A r \in Requests : task[r] # None /\ task[r].kind # "ban" => term[r] = "never"
    /\ \A n \in Names : banRow[n] # None => Begun(banRow[n])

LEMMA InitTold == Init => Told
BY DEF Init, Told, NoBans

LEMMA ToldNext == ASSUME Shape, Told, [Next]_vars PROVE Told'
<1> USE Distinct
<1>1. ASSUME NEW r \in Requests PROVE Begun(r)' \/ term'[r] = "never"
  BY BegunStep, TermStep DEF Told, Begun
<1>2. ASSUME NEW r \in Requests, task'[r] # None, task'[r].kind # "ban" PROVE term'[r] = "never"
  <2>1. CASE \E s \in Requests, w \in Workers : Beginning(s, w)
    <3>1. PICK s \in Requests, w \in Workers : Beginning(s, w)
      BY <2>1
    <3>2. PICK A, kind, n, rec, valid : BeginsWith(A, s, kind, w, n, rec, valid)
      BY <3>1, BeginningStep
    <3>3. outcome' = outcome /\ up[w]
      BY <3>1, BeginningStep
    <3>4. \A j \in Ids : j # s => task'[j] = task[j]
      BY <3>2, <3>3, BeginType
    <3>5. task[s] = None /\ outcome[s] = "none"
      BY <3>2, <3>3, BeginType
    <3>6. term[r] = "never"
      BY <1>2, <3>4, <3>5 DEF Told, Begun
    <3> QED BY <1>2, <3>6, TermStep
  <2>2. CASE ~\E s \in Requests, w \in Workers : Beginning(s, w)
    <3>1. Placed(r)'
      BY <1>2, NextType DEF Shape
    <3>2. task[r] # None /\ Same(r)
      BY <1>2, <2>2, <3>1, TasksKept DEF Placed
    <3>3. term[r] = "never"
      BY <1>2, <3>2 DEF Told, Same
    <3> QED BY <1>2, <3>3, TermStep
  <2> QED BY <2>1, <2>2
<1>3. ASSUME NEW n \in Names, banRow'[n] # None PROVE Begun(banRow[n])'
  <2>1. CASE banRow'[n] = banRow[n]
    <3>1. banRow[n] \in Requests /\ Begun(banRow[n])
      BY <1>3, <2>1 DEF Told, Shape, TypeOK
    <3>2. PICK r \in Requests : r = banRow[n]
      BY <3>1
    <3>3. Begun(r)'
      BY <3>1, <3>2, BegunStep
    <3> QED BY <2>1, <3>2, <3>3 DEF Begun
  <2>2. CASE banRow'[n] # banRow[n]
    <3>1. PICK r \in Requests : task[r] # None /\ banRow'[n] = r
      BY <1>3, <2>2, BanStep
    <3>2. Begun(r)'
      BY <3>1, BegunStep DEF Begun
    <3> QED BY <3>1, <3>2 DEF Begun
  <2> QED BY <2>1, <2>2
<1> QED BY <1>1, <1>2, <1>3 DEF Told

-----------------------------------------------------------------------------
(* Revocations.                                                            *)

\* A revoked dynamic key is nowhere that could bring it back to worker w.
Forgotten(w, n) ==
    /\ keyRow[n] = None
    /\ keys[w][n] = None
    /\ \A i \in Ids : task[i] # None =>
         /\ ~(task[i].kind = "create" /\ task[i].on = n)
         /\ task[i].w = w /\ task[i].at = "fillkeys" => task[i].rows[n] = None

\* A reload of worker w has the bans cleared and will fill them.
Refilling(w) == \E i \in Ids : task[i] # None /\ task[i].w = w /\ task[i].at \in {"bans", "fillbans"}

\* A startup of worker w has filled the bans.
Booted(w) == task[w] # None /\ task[w].at \in {"entries", "fillentries"}

\* A ban that has no end, of a request that has begun.
Firm(b) == b \in Requests /\ Begun(b) /\ term[b] = "never"

\* No coroutine will take away the ban of n or give it an end.
Unchallenged(n) ==
    \A i \in Ids : task[i] # None /\ task[i].on = n =>
        /\ task[i].kind \notin {"unban", "sweep"}
        /\ task[i].kind = "ban" => term[i] = "never"

Banned(w, n) ==
    /\ Firm(banRow[n])
    /\ \A i \in Ids : task[i] # None /\ task[i].w = w /\ task[i].at = "fillbans"
                      => Firm(task[i].banned[n])
    /\ up[w] \/ Booted(w) => Firm(bans[w][n]) \/ Refilling(w)
    /\ Unchallenged(n)

Revoked == \A x \in out : /\ x[2] \in Static => Banned(x[1], x[2])
                          /\ x[2] \notin Static => Forgotten(x[1], x[2])

LEMMA FirmStep ==
    ASSUME Shape, [Next]_vars, NEW b, Firm(b)
    PROVE  Firm(b)'
<1>1. b \in Requests /\ Begun(b) /\ term[b] = "never"
  BY DEF Firm
<1>2. Begun(b)' /\ term'[b] = "never"
  BY <1>1, BegunStep, TermStep
<1> QED BY <1>1, <1>2 DEF Firm

\* The ban that a coroutine is about to write or has written.
LEMMA FirmBan ==
    ASSUME Shape, Told, NEW n, Unchallenged(n), NEW r \in Requests, task[r] # None,
           task[r].kind \in {"revoke", "ban"}, task[r].on = n
    PROVE  Firm(r)
BY Distinct DEF Told, Unchallenged, Firm, Begun

\* What another coroutine leaves of i.
LEMMA KeptType ==
    ASSUME Shape, NEW i \in Ids, Kept(i), task'[i] # None
    PROVE  /\ task[i] # None /\ Same(i)
           /\ task'[i].at = task[i].at /\ task'[i].rows = task[i].rows
           /\ task'[i].banned = task[i].banned /\ task'[i].defs = task[i].defs
           /\ task'[i].hit = task[i].hit
BY AtType, FreedType DEF Kept, Same

\* The rows that a reload has in hand are those it had, or those of the table.
LEMMA RowsStep ==
    ASSUME Shape, [Next]_vars, NEW i \in Ids, task'[i] # None
    PROVE  /\ task'[i].at = "fillkeys" =>
                /\ task[i] # None /\ task'[i].w = task[i].w
                /\ \/ task'[i].rows = keyRow
                   \/ task[i].at = "fillkeys" /\ task'[i].rows = task[i].rows
           /\ task'[i].at = "fillbans" =>
                /\ task[i] # None /\ task'[i].w = task[i].w
                /\ \/ task'[i].banned = Fresh
                   \/ task[i].at = "fillbans" /\ task'[i].banned = task[i].banned
<1> USE Distinct
<1> DEFINE Goal == /\ task'[i].at = "fillkeys" =>
                        /\ task[i] # None /\ task'[i].w = task[i].w
                        /\ \/ task'[i].rows = keyRow
                           \/ task[i].at = "fillkeys" /\ task'[i].rows = task[i].rows
                   /\ task'[i].at = "fillbans" =>
                        /\ task[i] # None /\ task'[i].w = task[i].w
                        /\ \/ task'[i].banned = Fresh
                           \/ task[i].at = "fillbans" /\ task'[i].banned = task[i].banned
<1>1. ASSUME task'[i] = task[i] PROVE Goal
  BY <1>1
<1>2. ASSUME NEW s \in Requests, NEW w \in Workers, Beginning(s, w) PROVE Goal
  <2>1. PICK A, kind, n, rec, valid : BeginsWith(A, s, kind, w, n, rec, valid)
    BY <1>2, BeginningStep
  <2>2. up[w]
    BY <1>2, BeginningStep
  <2>3. task'[s].at = FirstStep(kind) /\ \A j \in Ids : j # s => task'[j] = task[j]
    BY <2>1, <2>2, BeginType
  <2>4. task'[s].at \in {"write", "ban", "unban"}
    BY <2>3 DEF FirstStep
  <2> QED BY <1>1, <2>3, <2>4
<1>3. ASSUME NEW j \in Ids, Working(j), j # i PROVE Goal
  <2>1. Kept(i)
    BY <1>3, WorkingType DEF Stepped
  <2> QED BY <2>1, KeptType DEF Same
<1>4. ASSUME Working(i) PROVE Goal
  <2>1. Stepped(i)
    BY <1>4, WorkingType
  <2>2. task[i] # None /\ Same(i) /\ Placed(i)' /\ task[i] \in Task /\ Placed(i)
    BY <2>1, AtType DEF Stepped, Shape
  <2>3. CASE ClearKeys(i) \/ FillKeys(i) \/ FillBans(i)
    BY <2>3, FillType
  <2>4. CASE SelectKeys(i) \/ SelectBans(i) \/ SelectEntries(i)
    BY <2>2, <2>4, SelectType DEF Same
  <2>5. CASE FillEntries(i) \/ FillRaises(i) \/ Fail(i)
    BY <2>5, FillEntriesType, FailType
  <2>6. CASE i \in Requests /\ (CommitAdd(i) \/ CommitPatch(i))
    <3>1. Move(i, "clear") /\ "clear" \in Steps
      BY <2>6 DEF CommitAdd, CommitPatch, Steps, Loading
    <3>2. task'[i].at = "clear"
      BY <2>2, <3>1, MoveType
    <3> QED BY <3>2
  <2>7. CASE \/ CommitCreate(i) \/ ApplyCreate(i) \/ CommitUpdate(i) \/ ApplyUpdate(i)
             \/ CommitRevoke(i) \/ ApplyRevoke(i) \/ CommitBan(i) \/ ApplyBan(i)
             \/ CommitDrop(i) \/ ApplyDrop(i)
    <3>1. task[i].kind \in {"create", "update", "revoke", "ban", "drop"}
      BY <2>7 DEF CommitCreate, ApplyCreate, CommitUpdate, ApplyUpdate, CommitRevoke, ApplyRevoke,
                  CommitBan, ApplyBan, CommitDrop, ApplyDrop, Banning, At
    <3>2. task'[i].at \in {"write", "apply", "ban", "banned"}
      BY <2>2, <3>1 DEF Same, Placed, StepsOf
    <3> QED BY <3>2
  <2>8. CASE CommitUnban(i) \/ ApplyUnban(i)
    BY <2>8, UnbanType
  <2> QED BY <1>4, <2>3, <2>4, <2>5, <2>6, <2>7, <2>8 DEF Working, Requesting, Load
<1>5. ASSUME NEW w \in Workers, HotReload(w) PROVE Goal
  <2>1. task'[i] = task[i] \/ (task[i] # None /\ task'[i] = Freed(task[i]))
    BY <1>5, HotReloadType
  <2> QED BY <2>1, AtType, FreedType
<1>6. ASSUME NEW w \in Workers, Crash(w) PROVE Goal
  BY <1>1, <1>6, CrashType
<1>7. ASSUME NEW w \in Workers, Start(w) PROVE Goal
  BY <1>1, <1>7, StartType
<1>8. UNCHANGED vars => task' = task
  BY DEF vars
<1>9. ASSUME Sweeping PROVE Goal
  BY <1>1, <1>9, SweepType DEF Sweeping
<1>10. Expiring => task' = task
  BY ExpireType
<1> HIDE DEF Goal
<1>11. Goal
  BY <1>1, <1>2, <1>3, <1>4, <1>5, <1>6, <1>7, <1>8, <1>9, <1>10, NextCases
<1> QED BY <1>11 DEF Goal

\* How a key gets into the dictionary of a worker.
LEMMA KeysStep ==
    ASSUME Shape, [Next]_vars, NEW w \in Workers, NEW n \in Names, keys[w][n] = None, keys'[w][n] # None
    PROVE  \E i \in Ids : /\ task[i] # None /\ task[i].w = w
                          /\ \/ task[i].kind = "create" /\ task[i].on = n
                             \/ task[i].at = "fillkeys" /\ task[i].rows[n] # None
<1> USE Distinct
<1>1. ASSUME NEW r \in Requests, ApplyCreate(r)
      PROVE  task[r] # None /\ task[r].w = w /\ task[r].kind = "create" /\ task[r].on = n
  BY <1>1 DEF ApplyCreate, At, Shape, TypeOK
<1>2. ASSUME NEW r \in Requests, ApplyUpdate(r) PROVE FALSE
  <2>1. task[r] # None /\ task[r].kind = "update" /\ task[r].linked
        /\ keys' = [keys EXCEPT ![task[r].w][task[r].on].fields = task[r].rec.fields]
    BY <1>2 DEF ApplyUpdate, At
  <2>2. keys[task[r].w][task[r].on] # None
    BY <2>1, AtType DEF Placed
  <2> QED BY <2>1, <2>2 DEF Shape, TypeOK
<1>3. ASSUME NEW r \in Requests, ApplyRevoke(r) PROVE FALSE
  BY <1>3 DEF ApplyRevoke, Shape, TypeOK
<1>4. ASSUME NEW i \in Ids, FillKeys(i)
      PROVE  task[i] # None /\ task[i].w = w /\ task[i].at = "fillkeys" /\ task[i].rows[n] # None
  BY <1>4 DEF FillKeys, Shape, TypeOK
<1>5. ASSUME NEW i \in Ids, ClearKeys(i) PROVE FALSE
  BY <1>5 DEF ClearKeys, NoKeys, Shape, TypeOK
<1>6. ASSUME NEW i \in Ids, Working(i)
      PROVE  \/ keys' = keys
             \/ i \in Requests /\ (ApplyCreate(i) \/ ApplyUpdate(i) \/ ApplyRevoke(i))
             \/ FillKeys(i) \/ ClearKeys(i)
  BY <1>6, FillEntriesType, SelectType, FailType
     DEF Working, Requesting, Load, CommitUnban, ApplyUnban, CommitCreate, CommitUpdate, CommitRevoke, CommitBan, ApplyBan, CommitAdd,
         CommitPatch, CommitDrop, ApplyDrop, FillBans, caches
<1>7. ASSUME NEW v \in Workers, HotReload(v) \/ Crash(v) \/ Start(v) PROVE FALSE
  <2>1. keys' = keys \/ keys' = [keys EXCEPT ![v] = NoKeys]
    BY <1>7, HotReloadType, CrashType, StartType
  <2>2. NoKeys[n] = None
    BY DEF NoKeys
  <2>3. keys \in [Workers -> [Names -> Key \cup {None}]]
    BY DEF Shape, TypeOK
  <2>4. CASE v = w
    BY <2>1, <2>2, <2>3, <2>4
  <2>5. CASE v # w
    BY <2>1, <2>3, <2>5
  <2> QED BY <2>4, <2>5
<1>8. ASSUME NEW r \in Requests, NEW v \in Workers, Beginning(r, v) PROVE keys' = keys
  BY <1>8, BeginningStep
<1>9. Sweeping \/ Expiring => keys' = keys
  BY SweepType, ExpireType DEF Sweeping
<1>10. UNCHANGED vars => keys' = keys
  BY DEF vars, caches
<1> QED BY <1>1, <1>2, <1>3, <1>4, <1>5, <1>6, <1>7, <1>8, <1>9, <1>10, NextCases

\* What a step may do to what a worker knows of the ban of a key.
LEMMA BansStep ==
    ASSUME Shape, [Next]_vars, NEW w \in Workers, NEW n \in Names, bans'[w][n] # bans[w][n]
    PROVE  \/ \E r \in Requests : /\ task[r] # None /\ task[r].kind \in {"revoke", "ban"}
                                  /\ task[r].on = n /\ bans'[w][n] = r
           \/ \E i \in Ids : task[i] # None /\ task[i].kind \in {"unban", "sweep"} /\ task[i].on = n
           \/ \E i \in Ids : /\ AtWorker(i, w) /\ task[i].at = "fillbans"
                             /\ bans'[w][n] = task[i].banned[n]
           \/ \E i \in Ids : task'[i] # None /\ task'[i].w = w /\ task'[i].at = "bans"
           \/ Live(bans[w][n]) = None
           \/ Crash(w) \/ Start(w)
<1> USE Distinct
<1>1. ASSUME NEW r \in Requests, ApplyBan(r)
      PROVE  /\ task[r] # None /\ task[r].kind \in {"revoke", "ban"}
             /\ task[r].on = n /\ bans'[w][n] = r
  BY <1>1 DEF ApplyBan, Banning, At, Shape, TypeOK
<1>2. ASSUME NEW i \in Ids, ApplyUnban(i)
      PROVE  task[i] # None /\ task[i].kind \in {"unban", "sweep"} /\ task[i].on = n
  BY <1>2 DEF ApplyUnban, Unbanning, At, Shape, TypeOK
<1>3. ASSUME NEW i \in Ids, FillKeys(i)
      PROVE  task'[i] # None /\ task'[i].w = w /\ task'[i].at = "bans"
  <2>1. bans' = [bans EXCEPT ![task[i].w] = NoBans] /\ task'[i] # None /\ task'[i].w = task[i].w
    BY <1>3, FillType DEF FillKeys, Same
  <2>2. task[i].w = w
    BY <2>1 DEF Shape, TypeOK
  <2> QED BY <1>3, <2>1, <2>2, FillType DEF FillKeys
<1>4. ASSUME NEW i \in Ids, FillBans(i)
      PROVE  AtWorker(i, w) /\ task[i].at = "fillbans" /\ bans'[w][n] = task[i].banned[n]
  <2>1. task[i] # None /\ task[i].at = "fillbans" /\ bans' = [bans EXCEPT ![task[i].w] = Refilled(i)]
    BY <1>4, FillType DEF FillBans
  <2>2. task[i].w = w /\ bans'[w] = Refilled(i)
    BY <2>1 DEF Shape, TypeOK
  <2> QED BY <2>1, <2>2 DEF Refilled, AtWorker
<1>5. ASSUME NEW i \in Ids, Working(i)
      PROVE  \/ bans' = bans
             \/ i \in Requests /\ ApplyBan(i)
             \/ ApplyUnban(i) \/ FillKeys(i) \/ FillBans(i)
  BY <1>5, FillEntriesType, SelectType, FailType
     DEF Working, Requesting, Load, CommitCreate, ApplyCreate, CommitUpdate, ApplyUpdate, CommitRevoke,
         ApplyRevoke, CommitBan, CommitUnban, CommitAdd, CommitPatch, CommitDrop, ApplyDrop, ClearKeys, caches
<1>6. ASSUME NEW v \in Workers, HotReload(v) \/ Crash(v) \/ Start(v) PROVE Crash(w) \/ Start(w)
  <2>1. ~HotReload(v) /\ bans' = [bans EXCEPT ![v] = NoBans]
    BY <1>6, HotReloadType, CrashType, StartType
  <2>2. bans \in [Workers -> [Names -> Requests \cup {None}]]
    BY DEF Shape, TypeOK
  <2>3. v = w
    BY <2>1, <2>2
  <2> QED BY <1>6, <2>1, <2>3
<1>7. ASSUME NEW r \in Requests, NEW v \in Workers, Beginning(r, v) PROVE bans' = bans
  BY <1>7, BeginningStep
<1>8. ASSUME NEW v \in Workers, NEW m \in Names, NEW i \in Sweepers, CheckExpired(v, m, i)
      PROVE  Live(bans[w][n]) = None
  <2>1. Live(bans[v][m]) = None /\ bans' = [bans EXCEPT ![v][m] = None]
    BY <1>8, SweepType
  <2> QED BY <2>1 DEF Shape, TypeOK
<1>9. UNCHANGED vars \/ Expiring => bans' = bans
  BY ExpireType DEF vars, caches
<1> QED BY <1>1, <1>2, <1>3, <1>4, <1>5, <1>6, <1>7, <1>8, <1>9, NextCases DEF Sweeping

\* Only the creation of a key begins a coroutine that creates one.
LEMMA CreateBegins ==
    ASSUME Shape, NEW r \in Requests, NEW w \in Workers, Beginning(r, w), task'[r].kind = "create",
           NEW n \in Names, task'[r].on = n
    PROVE  out' = {x \in out : x[2] # n}
<1> USE Distinct
<1>1. ASSUME NEW step, NEW A, NEW kind, NEW m, NEW rec, NEW valid,
             BeginAt(step, A, r, kind, w, m, rec, valid)
      PROVE  kind = "create" /\ m = n
  BY <1>1 DEF BeginAt, NewTask, Shape, TypeOK
<1>2. PICK m \in Names : BeginCreate(r, w, m)
  BY <1>1 DEF Beginning, Begin, BeginUpdate, BeginRevoke, BeginBan, BeginUnban, BeginAdd, BeginPatch,
              BeginDrop
<1>3. m = n
  BY <1>1, <1>2 DEF BeginCreate, Begin
<1> QED BY <1>2, <1>3 DEF BeginCreate, Undone

LEMMA ForgottenStep ==
    ASSUME Shape, [Next]_vars, NEW w \in Workers, NEW n \in Names, Forgotten(w, n), <<w, n>> \in out'
    PROVE  Forgotten(w, n)'
<1> USE Distinct
<1>1. keyRow'[n] = None
  BY RowStep DEF Forgotten
<1>2. keys'[w][n] = None
  BY KeysStep DEF Forgotten
<1>3. ASSUME NEW i \in Ids, task'[i] # None PROVE ~(task'[i].kind = "create" /\ task'[i].on = n)
  <2>1. CASE task'[i] = task[i]
    BY <1>3, <2>1 DEF Forgotten
  <2>2. ASSUME NEW r \in Requests, NEW v \in Workers, Beginning(r, v)
        PROVE  ~(task'[i].kind = "create" /\ task'[i].on = n)
    <3>1. PICK A, kind, m, rec, valid : BeginsWith(A, r, kind, v, m, rec, valid)
      BY <2>2, BeginningStep
    <3>2. up[v]
      BY <2>2, BeginningStep
    <3>3. i # r => task'[i] = task[i]
      BY <3>1, <3>2, BeginType
    <3>4. CASE i = r /\ task'[i].kind = "create" /\ task'[i].on = n
      <4>1. out' = {x \in out : x[2] # n}
        BY <2>2, <3>4, CreateBegins
      <4> QED BY <4>1
    <3> QED BY <2>1, <3>3, <3>4
  <2>3. CASE ~\E r \in Requests, v \in Workers : Beginning(r, v)
    <3>1. (task[i] # None /\ Same(i)) \/ task'[i].kind \in {"boot", "sweep"}
      BY <1>3, <2>3, TasksKept
    <3> QED BY <3>1 DEF Forgotten, Same
  <2> QED BY <2>2, <2>3
<1>4. ASSUME NEW i \in Ids, task'[i] # None, task'[i].w = w, task'[i].at = "fillkeys" PROVE task'[i].rows[n] = None
  BY <1>4, RowsStep DEF Forgotten
<1> QED BY <1>1, <1>2, <1>3, <1>4 DEF Forgotten

\* A worker becomes available when its startup has filled the configuration.
LEMMA UpStep ==
    ASSUME Shape, [Next]_vars, NEW w \in Workers, up'[w], ~up[w]
    PROVE  Booted(w)
<1> USE Distinct
<1>1. ASSUME NEW i \in Ids, FillEntries(i) \/ FillRaises(i) PROVE Booted(w)
  <2>1. task[i] # None /\ task[i].at = "fillentries" /\ (up' = up \/ up' = [up EXCEPT ![task[i].w] = TRUE])
    BY <1>1, FillEntriesType
  <2>2. task[i].w = w
    BY <2>1 DEF Shape, TypeOK
  <2>3. i \in Workers /\ i = w
    BY <2>1, <2>2, AtType DEF Placed, Ids
  <2> QED BY <2>1, <2>3 DEF Booted
<1>2. ASSUME NEW i \in Ids, Working(i), ~(FillEntries(i) \/ FillRaises(i)) PROVE up' = up
  BY <1>2, FillType, SelectType, FailType
     DEF Working, Requesting, Load, CommitUnban, ApplyUnban, CommitCreate, ApplyCreate, CommitUpdate, ApplyUpdate, CommitRevoke, ApplyRevoke,
         CommitBan, ApplyBan, CommitAdd, CommitPatch, CommitDrop, ApplyDrop
<1>3. ASSUME NEW v \in Workers, HotReload(v) \/ Crash(v) \/ Start(v) PROVE FALSE
  <2>1. up' = up \/ up' = [up EXCEPT ![v] = FALSE]
    BY <1>3, HotReloadType, CrashType, StartType
  <2> QED BY <2>1 DEF Shape, TypeOK
<1>4. ASSUME NEW r \in Requests, NEW v \in Workers, Beginning(r, v) PROVE up' = up
  BY <1>4, BeginningStep
<1>5. UNCHANGED vars \/ Sweeping \/ Expiring => up' = up
  BY SweepType, ExpireType DEF vars, Sweeping
<1> QED BY <1>1, <1>2, <1>3, <1>4, <1>5, NextCases

\* What a reload at worker w that has the bans cleared comes to.
LEMMA RefillStep ==
    ASSUME Shape, [Next]_vars, NEW w \in Workers, NEW n \in Static, <<w, n>> \in out',
           NEW i \in Ids, AtWorker(i, w), task[i].at \in {"bans", "fillbans"},
           task[i].at = "fillbans" => Firm(task[i].banned[n])
    PROVE  Refilling(w)' \/ Firm(bans[w][n])' \/ Crash(w)
<1> USE Distinct
<1>1. task[i] # None /\ task[i].w = w /\ n \in Names
  BY DEF AtWorker
<1>2. ASSUME task'[i] = task[i] PROVE Refilling(w)'
  BY <1>1, <1>2 DEF Refilling
<1>3. ASSUME NEW j \in Ids, Working(j), j # i PROVE Refilling(w)'
  <2>1. Kept(i) /\ Shape'
    BY <1>3, WorkingType DEF Stepped
  <2>2. task'[i] # None
    BY <1>1, <2>1, AtType, FreedType DEF Kept
  <2> QED BY <1>1, <2>1, <2>2, KeptType DEF Refilling, Same
<1>4. ASSUME Working(i) PROVE Refilling(w)' \/ Firm(bans[w][n])'
  <2>1. CASE ClearKeys(i) \/ FillKeys(i) \/ FillBans(i)
    <3>1. bans' = [bans EXCEPT ![w] = Refilled(i)] /\ task[i].at = "fillbans"
      BY <1>1, <2>1, FillType
    <3>2. PICK b : b = task[i].banned[n] /\ Firm(b)
      BY <3>1
    <3>3. Firm(b)'
      BY <3>2, FirmStep
    <3>4. bans'[w][n] = b
      BY <1>1, <3>1, <3>2 DEF Refilled, Firm, Shape, TypeOK
    <3> QED BY <3>3, <3>4 DEF Firm, Begun
  <2>2. CASE SelectKeys(i) \/ SelectBans(i) \/ SelectEntries(i)
    BY <1>1, <2>2, SelectType DEF Refilling, Same
  <2>3. CASE Fail(i)
    <3>1. task[i].at = "bans"
      BY <2>3 DEF Fail
    <3>2. out' = {x \in out : x[1] # w \/ x[2] \in Dynamic}
      BY <1>1, <2>3, <3>1 DEF Fail
    <3> QED BY <3>2
  <2>4. ~(FillEntries(i) \/ FillRaises(i))
    BY FillEntriesType
  <2>5. task[i].at \notin {"write", "apply", "ban", "banned", "unban", "unbanned"}
    OBVIOUS
  <2> QED BY <1>4, <2>1, <2>2, <2>3, <2>4, <2>5
          DEF Working, Requesting, Load, At, CommitCreate, ApplyCreate, CommitUpdate, ApplyUpdate, CommitRevoke,
              ApplyRevoke, CommitBan, ApplyBan, Banning, CommitUnban, ApplyUnban, Unbanning, CommitAdd, CommitPatch, CommitDrop, ApplyDrop
<1>5. ASSUME NEW v \in Workers, HotReload(v) PROVE Refilling(w)'
  <2>1. task'[i] = task[i] \/ task'[i] = Freed(task[i])
    BY <1>5, HotReloadType
  <2> QED BY <1>1, <1>2, <2>1, AtType, FreedType DEF Refilling
<1>6. ASSUME NEW v \in Workers, Crash(v), v # w PROVE Refilling(w)'
  BY <1>1, <1>2, <1>6, CrashType DEF AtWorker
<1>7. ASSUME NEW v \in Workers, Start(v) PROVE Refilling(w)'
  BY <1>1, <1>2, <1>7, StartType
<1>8. ASSUME NEW r \in Requests, NEW v \in Workers, Beginning(r, v) PROVE Refilling(w)'
  <2>1. PICK A, kind, m, rec, valid : BeginsWith(A, r, kind, v, m, rec, valid)
    BY <1>8, BeginningStep
  <2>2. task[r] = None /\ \A j \in Ids : j # r => task'[j] = task[j]
    BY <1>8, <2>1, BeginningStep, BeginType
  <2> QED BY <1>1, <1>2, <2>2
<1>9. UNCHANGED vars \/ Expiring => task'[i] = task[i]
  BY ExpireType DEF vars
<1>10. Sweeping => task'[i] = task[i]
  BY <1>1, SweepType, Distinct DEF Sweeping
<1> QED BY <1>2, <1>3, <1>4, <1>5, <1>6, <1>7, <1>8, <1>9, <1>10, NextCases

\* A startup fills the bans.
LEMMA BootStep ==
    ASSUME Shape, [Next]_vars, NEW w \in Workers, Booted(w)', ~Booted(w)
    PROVE  FillBans(w)
<1> USE Distinct
<1>1. task'[w] # None /\ task'[w].at \in {"entries", "fillentries"} /\ w \in Ids
  BY DEF Booted
<1>2. ASSUME task'[w] = task[w] PROVE FALSE
  BY <1>1, <1>2 DEF Booted
<1>3. ASSUME NEW j \in Ids, Working(j), j # w PROVE FALSE
  <2>1. Kept(w)
    BY <1>1, <1>3, WorkingType DEF Stepped
  <2> QED BY <1>1, <2>1, KeptType DEF Booted
<1>4. ASSUME Working(w) PROVE FillBans(w)
  <2>1. CASE ClearKeys(w) \/ FillKeys(w) \/ FillBans(w)
    BY <1>1, <2>1, FillType
  <2>2. CASE SelectKeys(w) \/ SelectBans(w) \/ SelectEntries(w)
    BY <1>1, <2>2, SelectType DEF Booted
  <2>3. ~(FillEntries(w) \/ FillRaises(w) \/ Fail(w))
    BY <1>1, FillEntriesType, FailType
  <2>4. w \notin Requests
    OBVIOUS
  <2>5. ASSUME CommitUnban(w) \/ ApplyUnban(w) PROVE FALSE
    <3>1. task[w] # None /\ task[w].kind \in {"unban", "sweep"}
      BY <2>5, UnbanType
    <3> QED BY <3>1, AtType DEF Placed
  <2> QED BY <1>4, <2>1, <2>2, <2>3, <2>4, <2>5 DEF Working, Requesting, Load
<1>5. ASSUME NEW v \in Workers, HotReload(v) PROVE FALSE
  <2>1. task'[w] = task[w] \/ (task[w] # None /\ task'[w] = Freed(task[w]))
    BY <1>1, <1>5, HotReloadType
  <2> QED BY <1>1, <1>2, <2>1, AtType, FreedType DEF Booted
<1>6. ASSUME NEW v \in Workers, Crash(v) PROVE FALSE
  BY <1>1, <1>2, <1>6, CrashType
<1>7. ASSUME NEW v \in Workers, Start(v) PROVE FALSE
  BY <1>1, <1>2, <1>7, StartType
<1>8. ASSUME NEW r \in Requests, NEW v \in Workers, Beginning(r, v) PROVE FALSE
  <2>1. PICK A, kind, m, rec, valid : BeginsWith(A, r, kind, v, m, rec, valid)
    BY <1>8, BeginningStep
  <2>2. \A j \in Ids : j # r => task'[j] = task[j]
    BY <1>8, <2>1, BeginningStep, BeginType
  <2> QED BY <1>1, <1>2, <1>8, <2>2
<1>9. UNCHANGED vars \/ Expiring => task'[w] = task[w]
  BY ExpireType DEF vars
<1>10. Sweeping => task'[w] = task[w]
  BY SweepType DEF Sweeping
<1> QED BY <1>2, <1>3, <1>4, <1>5, <1>6, <1>7, <1>8, <1>9, <1>10, NextCases

\* What a request about a key of config.toml begins with, if its revocation is to go on.
LEMMA BanBegins ==
    ASSUME Shape, NEW r \in Requests, NEW w \in Workers, Beginning(r, w),
           NEW v, NEW n \in Static, <<v, n>> \in out', task'[r].on = n
    PROVE  task'[r].kind # "unban" /\ (task'[r].kind = "ban" => term'[r] = "never")
<1> USE Distinct
<1>1. ASSUME NEW step, NEW A, NEW kind, NEW m, NEW rec, NEW valid,
             BeginAt(step, A, r, kind, w, m, rec, valid)
      PROVE  task'[r].kind = kind /\ m = n
  BY <1>1 DEF BeginAt, NewTask, Shape, TypeOK
<1>2. ASSUME NEW m \in Names, BeginUnban(r, w, m) PROVE FALSE
  <2>1. m = n
    BY <1>1, <1>2 DEF BeginUnban
  <2> QED BY <1>2, <2>1 DEF BeginUnban, Undone
<1>3. ASSUME NEW m \in Names, NEW brief \in BOOLEAN, BeginBan(r, w, m, brief) PROVE term'[r] = "never"
  <2>1. m = n
    BY <1>1, <1>3 DEF BeginBan
  <2>2. ~brief
    BY <1>3, <2>1 DEF BeginBan, Undone
  <2> QED BY <1>3, <2>2 DEF BeginBan, Shape, TypeOK
<1>4. ASSUME task'[r].kind \in {"ban", "unban"}
      PROVE  \E m \in Names : BeginUnban(r, w, m) \/ \E brief \in BOOLEAN : BeginBan(r, w, m, brief)
  BY <1>1, <1>4 DEF Beginning, Begin, BeginCreate, BeginUpdate, BeginRevoke, BeginAdd, BeginPatch, BeginDrop
<1>5. ASSUME task'[r].kind = "ban"
      PROVE  \E m \in Names, brief \in BOOLEAN : BeginBan(r, w, m, brief)
  BY <1>2, <1>4, <1>5
<1>6. task'[r].kind # "unban"
  <2>1. ASSUME NEW m \in Names, NEW brief \in BOOLEAN, BeginBan(r, w, m, brief) PROVE task'[r].kind = "ban"
    BY <1>1, <2>1 DEF BeginBan
  <2> QED BY <1>2, <1>4, <2>1
<1> QED BY <1>3, <1>5, <1>6

LEMMA UnchallengedStep ==
    ASSUME Shape, [Next]_vars, NEW w \in Workers, NEW n \in Static, Unchallenged(n), <<w, n>> \in out'
    PROVE  Unchallenged(n)'
<1> USE Distinct
<1> SUFFICES ASSUME NEW i \in Ids, task'[i] # None, task'[i].on = n
             PROVE  /\ task'[i].kind \notin {"unban", "sweep"}
                    /\ task'[i].kind = "ban" => term'[i] = "never"
  BY DEF Unchallenged
<1>1. ASSUME task[i] # None, Same(i)
      PROVE  /\ task'[i].kind \notin {"unban", "sweep"}
             /\ task'[i].kind = "ban" => term'[i] = "never"
  <2>1. task[i].on = n /\ task'[i].kind = task[i].kind
    BY <1>1 DEF Same
  <2>2. ASSUME task[i].kind = "ban" PROVE term'[i] = "never"
    <3>1. Placed(i) /\ i \in Requests
      BY <1>1, <2>2, AtType DEF Placed, Ids
    <3>2. Firm(i)
      BY <1>1, <2>1, <2>2, <3>1 DEF Unchallenged, Firm, Begun
    <3> QED BY <3>2, FirmStep DEF Firm
  <2> QED BY <1>1, <2>1, <2>2 DEF Unchallenged
<1>2. ASSUME NEW r \in Requests, NEW v \in Workers, Beginning(r, v)
      PROVE  /\ task'[i].kind \notin {"unban", "sweep"}
             /\ task'[i].kind = "ban" => term'[i] = "never"
  <2>1. PICK A, kind, m, rec, valid : BeginsWith(A, r, kind, v, m, rec, valid)
    BY <1>2, BeginningStep
  <2>2. up[v]
    BY <1>2, BeginningStep
  <2>3. task'[r].kind = kind /\ \A j \in Ids : j # r => task'[j] = task[j]
    BY <2>1, <2>2, BeginType
  <2>4. CASE i = r
    <3>1. kind # "sweep"
      BY <2>1 DEF BeginsWith, WellAsked
    <3> QED BY <1>2, <2>3, <2>4, <3>1, BanBegins
  <2>5. CASE i # r
    BY <1>1, <2>3, <2>5 DEF Same
  <2> QED BY <2>4, <2>5
<1>3. ASSUME Sweeping
      PROVE  /\ task'[i].kind \notin {"unban", "sweep"}
             /\ task'[i].kind = "ban" => term'[i] = "never"
  <2>1. PICK v \in Workers, m \in Names, j \in Sweepers : CheckExpired(v, m, j)
    BY <1>3 DEF Sweeping
  <2>2. /\ out' = IF m \in Static THEN {x \in out : x[2] # m} ELSE out
        /\ task'[j].on = m /\ \A k \in Ids : k # j => task'[k] = task[k]
    BY <2>1, SweepType
  <2>3. i # j
    BY <2>2
  <2> QED BY <1>1, <2>2, <2>3 DEF Same
<1>4. CASE /\ ~\E r \in Requests, v \in Workers : Beginning(r, v)
           /\ ~Sweeping
  BY <1>1, <1>4, TasksKept
<1> QED BY <1>2, <1>3, <1>4

LEMMA BannedStep ==
    ASSUME Shape, Told, [Next]_vars, NEW w \in Workers, NEW n \in Static, Banned(w, n), <<w, n>> \in out'
    PROVE  Banned(w, n)'
<1> USE Distinct
<1>1. Firm(banRow[n]) /\ Unchallenged(n) /\ n \in Names
  BY DEF Banned
<1>2. ASSUME NEW r \in Requests, task[r] # None, task[r].kind \in {"revoke", "ban"}, task[r].on = n
      PROVE  Firm(r)'
  BY <1>1, <1>2, FirmBan, FirmStep
<1>3. Firm(banRow[n])'
  <2>1. CASE banRow'[n] = banRow[n]
    <3>1. PICK b : b = banRow[n]
      OBVIOUS
    <3>2. Firm(b)'
      BY <1>1, <3>1, FirmStep
    <3> QED BY <2>1, <3>1, <3>2 DEF Firm, Begun
  <2>2. CASE banRow'[n] # banRow[n]
    <3>1. PICK r \in Requests : /\ task[r] # None /\ task[r].kind \in {"revoke", "ban"}
                                /\ task[r].on = n /\ banRow'[n] = r
      BY <1>1, <2>2, BanStep DEF Unchallenged
    <3>2. Firm(r)'
      BY <1>2, <3>1
    <3> QED BY <3>1, <3>2 DEF Firm, Begun
  <2> QED BY <2>1, <2>2
<1>4. ASSUME NEW i \in Ids, task'[i] # None, task'[i].w = w, task'[i].at = "fillbans"
      PROVE  Firm(task[i].banned[n])'
  <2>1. /\ task[i] # None /\ task[i].w = w
        /\ \/ task'[i].banned = Fresh
           \/ task[i].at = "fillbans" /\ task'[i].banned = task[i].banned
    BY <1>4, RowsStep
  <2>2. Fresh[n] = banRow[n]
    BY <1>1 DEF Fresh, Live, Firm
  <2>3. PICK b : b = task'[i].banned[n] /\ Firm(b)
    BY <1>1, <1>4, <2>1, <2>2 DEF Banned
  <2>4. Firm(b)'
    BY <2>3, FirmStep
  <2> QED BY <2>3, <2>4 DEF Firm, Begun
<1>5. ASSUME NEW i \in Ids, AtWorker(i, w), task[i].at = "fillbans" PROVE Firm(task[i].banned[n])
  BY <1>5 DEF Banned, AtWorker
<1>6. ASSUME up'[w] \/ Booted(w)' PROVE Firm(bans[w][n])' \/ Refilling(w)'
  <2>1. ~Crash(w)
    <3>1. ASSUME Crash(w) PROVE FALSE
      <4>1. ~up'[w] /\ task'[w] = IF AtWorker(w, w) THEN None ELSE task[w]
        BY <3>1, CrashType DEF Shape, TypeOK
      <4>2. task[w] # None => AtWorker(w, w)
        BY AtType DEF Placed, AtWorker
      <4> QED BY <1>6, <4>1, <4>2 DEF Booted
    <3> QED BY <3>1
  <2>2. ~Start(w)
    BY <1>6, StartType DEF Booted
  <2>3. CASE up[w] \/ Booted(w)
    <3>1. CASE Firm(bans[w][n])
      <4>1. CASE bans'[w][n] = bans[w][n]
        <5>1. PICK b : b = bans[w][n]
          OBVIOUS
        <5>2. Firm(b)'
          BY <3>1, <5>1, FirmStep
        <5> QED BY <4>1, <5>1, <5>2 DEF Firm, Begun
      <4>2. ASSUME NEW r \in Requests, task[r] # None, task[r].kind \in {"revoke", "ban"},
                   task[r].on = n, bans'[w][n] = r
            PROVE  Firm(bans[w][n])'
        <5>1. Firm(r)'
          BY <1>2, <4>2
        <5> QED BY <4>2, <5>1 DEF Firm, Begun
      <4>3. ASSUME NEW i \in Ids, AtWorker(i, w), task[i].at = "fillbans", bans'[w][n] = task[i].banned[n]
            PROVE  Firm(bans[w][n])'
        <5>1. PICK b : b = task[i].banned[n]
          OBVIOUS
        <5>2. Firm(b)'
          BY <1>5, <4>3, <5>1, FirmStep
        <5> QED BY <4>3, <5>1, <5>2 DEF Firm, Begun
      <4>4. ASSUME NEW i \in Ids, task[i] # None, task[i].kind \in {"unban", "sweep"}, task[i].on = n
            PROVE  FALSE
        BY <1>1, <4>4 DEF Unchallenged
      <4>5. ASSUME NEW i \in Ids, task'[i] # None, task'[i].w = w, task'[i].at = "bans" PROVE Refilling(w)'
        BY <4>5 DEF Refilling
      <4>6. Live(bans[w][n]) # None
        BY <3>1 DEF Live, Firm
      <4> QED BY <1>1, <2>1, <2>2, <4>1, <4>2, <4>3, <4>4, <4>5, <4>6, BansStep
    <3>2. CASE Refilling(w)
      <4>1. PICK i \in Ids : AtWorker(i, w) /\ task[i].at \in {"bans", "fillbans"}
        BY <3>2 DEF Refilling, AtWorker
      <4>2. task[i].at = "fillbans" => Firm(task[i].banned[n])
        BY <1>5, <4>1
      <4> QED BY <2>1, <4>1, <4>2, RefillStep
    <3> QED BY <2>3, <3>1, <3>2 DEF Banned
  <2>4. CASE ~(up[w] \/ Booted(w))
    <3>1. FillBans(w)
      BY <1>6, <2>4, UpStep, BootStep
    <3>2. task[w] # None /\ task[w].at = "fillbans" /\ task[w].w = w
      BY <3>1, AtType DEF FillBans, Placed
    <3>3. AtWorker(w, w) /\ w \in Ids
      BY <3>2 DEF AtWorker
    <3> QED BY <1>5, <2>1, <3>2, <3>3, RefillStep
  <2> QED BY <2>3, <2>4
<1>7. Unchallenged(n)'
  BY <1>1, UnchallengedStep
<1> QED BY <1>3, <1>4, <1>6, <1>7 DEF Banned

\* What is answered has no row, and nothing in flight would undo it; a static key has a ban
\* without an end.
Settled(r, w, n) ==
    /\ keyRow[n] = None
    /\ n \in Static => Lasting(banRow[n])
    /\ \A i \in Ids \ {r} : ~Undoes(i, w, n)

LEMMA AnsweredStep ==
    ASSUME NEW r, NEW w, NEW n, NEW x, Answered(r, w, n), x \in out', x \notin out
    PROVE  x = <<w, n>> /\ Settled(r, w, n)
BY DEF Answered, Settled

LEMMA AnswerStep ==
    ASSUME Shape, [Next]_vars, NEW w \in Workers, NEW n \in Names, <<w, n>> \in out', <<w, n>> \notin out
    PROVE  \E r \in Requests :
             /\ AtWorker(r, w) /\ task[r].on = n /\ Settled(r, w, n)
             /\ \/ ApplyRevoke(r) /\ task[r].hit /\ n \notin Static
                \/ ApplyBan(r) /\ n \in Static /\ task[r].kind = "revoke"
<1> USE Distinct
<1>1. ASSUME NEW r \in Requests, ApplyRevoke(r)
      PROVE  /\ AtWorker(r, w) /\ task[r].on = n /\ Settled(r, w, n)
             /\ task[r].hit /\ n \notin Static
  <2>1. task[r] # None /\ task[r].on \notin Static /\ task[r].hit /\ Answered(r, task[r].w, task[r].on)
    BY <1>1 DEF ApplyRevoke, At
  <2>2. <<w, n>> = <<task[r].w, task[r].on>> /\ Settled(r, task[r].w, task[r].on)
    BY <2>1, AnsweredStep
  <2> QED BY <2>1, <2>2 DEF AtWorker
<1>2. ASSUME NEW r \in Requests, ApplyBan(r)
      PROVE  AtWorker(r, w) /\ task[r].on = n /\ Settled(r, w, n) /\ n \in Static /\ task[r].kind = "revoke"
  <2>1. /\ task[r] # None /\ task[r].at = "banned" /\ task[r].kind = "revoke"
        /\ Answered(r, task[r].w, task[r].on)
    BY <1>2 DEF ApplyBan, Banning, At
  <2>2. <<w, n>> = <<task[r].w, task[r].on>> /\ Settled(r, task[r].w, task[r].on)
    BY <2>1, AnsweredStep
  <2> QED BY <2>1, <2>2, AtType DEF AtWorker, Placed
<1>3. ASSUME NEW i \in Ids, Working(i)
      PROVE  \/ out' \subseteq out
             \/ i \in Requests /\ (ApplyRevoke(i) \/ ApplyBan(i))
  BY <1>3, FillType, SelectType, FillEntriesType
     DEF Working, Requesting, Load, Fail, CommitCreate, ApplyCreate, CommitUpdate, ApplyUpdate, CommitRevoke,
         CommitBan, CommitUnban, ApplyUnban, CommitAdd, CommitPatch, CommitDrop, ApplyDrop, history
<1>4. ASSUME NEW v \in Workers, HotReload(v) \/ Crash(v) \/ Start(v) PROVE out' = out
  BY <1>4, HotReloadType, CrashType, StartType
<1>5. ASSUME NEW r \in Requests, NEW v \in Workers, Beginning(r, v) PROVE out' \subseteq out
  BY <1>5, BeginningStep DEF Histories
<1>6. UNCHANGED vars \/ Sweeping \/ Expiring => out' \subseteq out
  BY SweepType, ExpireType DEF vars, history, Sweeping
<1>7. \E i \in Requests : ApplyRevoke(i) \/ ApplyBan(i)
  BY <1>3, <1>4, <1>5, <1>6, NextCases
<1> QED BY <1>1, <1>2, <1>7

\* A key of the tables has left the worker for good.
LEMMA AnswerForgotten ==
    ASSUME Shape, NEW w \in Workers, NEW n \in Names, NEW r \in Requests, AtWorker(r, w), task[r].on = n,
           Settled(r, w, n), ApplyRevoke(r), task[r].hit, n \notin Static
    PROVE  Forgotten(w, n)'
<1> USE Distinct
<1>1. task[r] # None /\ task[r].w = w /\ task[r].on = n
  BY DEF AtWorker
<1>2. Stepped(r)
  BY RevokeType
<1>3. keyRow'[n] = None
  BY DEF ApplyRevoke, tables, Settled
<1>4. keys'[w][n] = None
  BY <1>1 DEF ApplyRevoke, Shape, TypeOK
<1>5. task'[r] = None
  <2>1. task' = [Unlink(w, {n}) EXCEPT ![r] = None]
    BY <1>1 DEF ApplyRevoke
  <2> QED BY <2>1, UnlinkType
<1>6. ASSUME NEW i \in Ids, task'[i] # None
      PROVE  ~(task'[i].kind = "create" /\ task'[i].on = n) /\ (task'[i].w = w => task'[i].at # "fillkeys")
  <2>1. i # r /\ Kept(i)
    BY <1>2, <1>5, <1>6 DEF Stepped
  <2>2. task[i] # None /\ Same(i) /\ task'[i].at = task[i].at
    BY <1>6, <2>1, KeptType
  <2> QED BY <2>1, <2>2 DEF Settled, Undoes, Same, Loading
<1> QED BY <1>3, <1>4, <1>6 DEF Forgotten

\* A key of config.toml is banned.
LEMMA AnswerBanned ==
    ASSUME Shape, Told, [Next]_vars, NEW w \in Workers, NEW n \in Static, NEW r \in Requests,
           AtWorker(r, w), task[r].on = n, task[r].kind = "revoke", Settled(r, w, n), ApplyBan(r)
    PROVE  Banned(w, n)'
<1> USE Distinct
<1>1. task[r] # None /\ task[r].w = w /\ task[r].on = n /\ task[r].at = "banned" /\ n \in Names
  BY DEF AtWorker, ApplyBan, Banning, At
<1>2. Firm(banRow[n])'
  <2>1. banRow[n] # None /\ term[banRow[n]] = "never" /\ banRow'[n] = banRow[n]
    BY DEF Settled, Lasting, ApplyBan, tables
  <2>2. PICK b \in Requests : b = banRow[n]
    BY <1>1, <2>1 DEF Shape, TypeOK
  <2>3. Firm(b)
    BY <1>1, <2>1, <2>2 DEF Told, Firm, Begun
  <2>4. Firm(b)'
    BY <2>3, FirmStep
  <2> QED BY <2>1, <2>2, <2>4 DEF Firm, Begun
<1>3. Firm(bans[w][n])'
  <2>1. bans'[w][n] = r
    BY <1>1 DEF ApplyBan, Shape, TypeOK
  <2>2. Firm(r)
    BY <1>1 DEF Told, Firm, Begun
  <2>3. Firm(r)'
    BY <2>2, FirmStep
  <2> QED BY <2>1, <2>3 DEF Firm, Begun
<1>4. task'[r] = None /\ (\A i \in Ids : i # r => task'[i] = task[i]) /\ term' = term
  BY <1>1, EndType DEF ApplyBan
<1>5. ASSUME NEW i \in Ids, task'[i] # None, task'[i].w = w PROVE task'[i].at # "fillbans"
  BY <1>4, <1>5 DEF Settled, Undoes, Loading
<1>6. Unchallenged(n)'
  BY <1>4 DEF Settled, Undoes, Unchallenged
<1> QED BY <1>2, <1>3, <1>5, <1>6 DEF Banned

LEMMA RevokedNext == ASSUME Shape, Told, Revoked, [Next]_vars PROVE Revoked'
<1> USE Distinct
<1>1. out \subseteq Workers \X Names /\ out' \subseteq Workers \X Names
  BY NextType DEF Shape, TypeOK
<1> SUFFICES ASSUME NEW x \in out'
             PROVE  /\ x[2] \in Static => Banned(x[1], x[2])'
                    /\ x[2] \notin Static => Forgotten(x[1], x[2])'
  BY DEF Revoked
<1>2. PICK w \in Workers, n \in Names : x = <<w, n>>
  BY <1>1
<1>3. CASE <<w, n>> \in out
  <2>1. /\ n \in Static => Banned(w, n)
        /\ n \notin Static => Forgotten(w, n)
    BY <1>3 DEF Revoked
  <2>2. /\ n \in Static => Banned(w, n)'
        /\ n \notin Static => Forgotten(w, n)'
    BY <1>2, <2>1, BannedStep, ForgottenStep
  <2> QED BY <1>2, <2>2
<1>4. CASE <<w, n>> \notin out
  <2>1. PICK r \in Requests :
             /\ AtWorker(r, w) /\ task[r].on = n /\ Settled(r, w, n)
             /\ \/ ApplyRevoke(r) /\ task[r].hit /\ n \notin Static
                \/ ApplyBan(r) /\ n \in Static /\ task[r].kind = "revoke"
    BY <1>2, <1>4, AnswerStep
  <2>2. /\ n \in Static => Banned(w, n)'
        /\ n \notin Static => Forgotten(w, n)'
    BY <2>1, AnswerBanned, AnswerForgotten
  <2> QED BY <1>2, <2>2
<1> QED BY <1>3, <1>4

\* A revocation that was answered holds.  A dynamic key has no row and no entry, and no reload
\* or creation under way would bring it back; a key of config.toml has a row in the bans,
\* without an end, which nothing under way would remove or give an end, and the worker has loaded
\* it or is loading it.
THEOREM RevocationsHold == Spec => []RevocationHolds
<1>1. Init => Revoked
  BY DEF Init, Revoked
<1>2. ASSUME Shape, Revoked PROVE RevocationHolds
  <2> SUFFICES ASSUME NEW x \in out, NEW c \in Credential, up[x[1]], c.node = None, c.name = x[2],
                      AuthContext(x[1], c) # Refused
               PROVE  x[2] \in Static /\ Refilling(x[1])
    BY DEF RevocationHolds, Refilling
  <2>1. PICK w \in Workers, n \in Names : x = <<w, n>>
    BY <1>2 DEF Shape, TypeOK
  <2>2. Live(bans[w][n]) = None /\ KeyContext(w, c) # Refused
    BY <2>1 DEF AuthContext
  <2>3. CASE n \in Static
    <3>1. Banned(w, n)
      BY <1>2, <2>1, <2>3 DEF Revoked
    <3>2. Refilling(w)
      BY <2>1, <2>2, <3>1, Distinct DEF Banned, Live, Firm
    <3> QED BY <2>1, <2>3, <3>2
  <2>4. CASE n \notin Static
    <3>1. Forgotten(w, n)
      BY <1>2, <2>1, <2>4 DEF Revoked
    <3>2. keys[w][n] = None
      BY <3>1 DEF Forgotten
    <3> QED BY <2>1, <2>2, <2>4, <3>2 DEF KeyContext
  <2> QED BY <2>3, <2>4
<1> QED BY <1>1, <1>2, RevokedNext, InitType, NextType, InitTold, ToldNext, PTL DEF Spec

-----------------------------------------------------------------------------
(* Administrators.                                                         *)

NoneShadowed ==
    \A a \in Static : /\ keyRow[a] = None
                      /\ \A i \in Ids : task[i] # None => ~(task[i].kind = "create" /\ task[i].on = a)

OneSpared == \E a \in Static : /\ Live(banRow[a]) = None
                               /\ \A i \in Ids : BansAdmin(i) => task[i].on # a

AdminInv == contested \/ (NoneShadowed /\ OneSpared)

LEMMA AdminInit == ASSUME Static # {}, Init PROVE AdminInv
<1>1. \A a \in Static : keyRow[a] = None /\ banRow[a] = None
  BY Distinct DEF Init, NoBans
<1>2. NoneShadowed /\ OneSpared
  BY <1>1 DEF Init, NoneShadowed, OneSpared, BansAdmin, Live
<1> QED BY <1>2 DEF AdminInv

\* A name that no ban in force is about stays so while its row stays.
LEMMA FreeStep ==
    ASSUME Shape, Told, [Next]_vars, NEW n \in Names, banRow'[n] = banRow[n], Live(banRow[n]) = None
    PROVE  Live(banRow[n])' = None
<1>1. CASE banRow[n] = None
  BY <1>1 DEF Live
<1>2. CASE banRow[n] # None
  <2>1. PICK b \in Requests : b = banRow[n]
    BY <1>2 DEF Shape, TypeOK
  <2>2. Begun(b) /\ term[b] = "over"
    BY <1>2, <2>1 DEF Told, Live, Begun
  <2>3. term'[b] = "over"
    BY <2>2, TermStep
  <2> QED BY <2>1, <2>3 DEF Live
<1> QED BY <1>1, <1>2

\* The administrator of the request is spared by the revocation or the ban that begins.
LEMMA AdminBegins ==
    ASSUME Shape, Told, [Next]_vars, NoneShadowed, OneSpared, NEW r \in Requests, NEW w \in Workers,
           Beginning(r, w), ~contested'
    PROVE  NoneShadowed' /\ OneSpared'
<1> USE Distinct
<1>1. UNCHANGED <<keyRow, banRow>> /\ up[w]
  BY BeginningStep
<1>2. PICK A, kind, n, rec, valid : BeginsWith(A, r, kind, w, n, rec, valid)
  BY BeginningStep
<1>3. /\ \A j \in Ids : j # r => task'[j] = task[j]
      /\ task[r] = None /\ task'[r] # None /\ task'[r].kind = kind /\ task'[r].on = n
  BY <1>1, <1>2, BeginType
<1>4. \A a \in Static : Live(banRow[a]) = None => Live(banRow[a])' = None
  BY <1>1, FreeStep
<1>5. ASSUME NEW step, NEW B, NEW k, NEW m, NEW v, NEW c, BeginAt(step, B, r, k, w, m, c, v)
      PROVE  kind = k /\ n = m
  BY <1>3, <1>5 DEF BeginAt, NewTask, Shape, TypeOK
<1>6. NoneShadowed'
  <2>1. ASSUME NEW m \in Names, BeginCreate(r, w, m) PROVE n \notin Static
    BY <1>5, <2>1 DEF BeginCreate, Begin
  <2>2. kind = "create" => \E m \in Names : BeginCreate(r, w, m)
    BY <1>5 DEF Beginning, Begin, BeginUpdate, BeginRevoke, BeginBan, BeginUnban, BeginAdd, BeginPatch,
                BeginDrop
  <2> QED BY <1>1, <1>3, <2>1, <2>2 DEF NoneShadowed
<1>7. CASE kind \in {"revoke", "ban"} /\ n \in Static
  <2>1. ASSUME NEW m \in Names, BeginRevoke(r, w, m) \/ \E brief \in BOOLEAN : BeginBan(r, w, m, brief)
        PROVE  Admins(w) \ {n} # {} /\ ~Contests(w, n)
    <3>1. CASE BeginRevoke(r, w, m)
      <4>1. /\ BeginAt("write", Admins(w) \ {m}, r, "revoke", w, m, None, TRUE)
            /\ ~Contests(w, m)
        BY <3>1 DEF BeginRevoke, Begin
      <4>2. n = m
        BY <1>5, <4>1
      <4> QED BY <4>1, <4>2 DEF BeginAt
    <3>2. CASE \E brief \in BOOLEAN : BeginBan(r, w, m, brief)
      <4>1. /\ BeginAt("ban", Admins(w) \ {m}, r, "ban", w, m, None, TRUE)
            /\ ~Contests(w, m)
        BY <3>2 DEF BeginBan
      <4>2. n = m
        BY <1>5, <4>1
      <4> QED BY <4>1, <4>2 DEF BeginAt
    <3> QED BY <2>1, <3>1, <3>2
  <2>2. \E m \in Names : BeginRevoke(r, w, m) \/ \E brief \in BOOLEAN : BeginBan(r, w, m, brief)
    BY <1>5, <1>7 DEF Beginning, Begin, BeginCreate, BeginUpdate, BeginUnban, BeginAdd, BeginPatch, BeginDrop
  <2>3. Admins(w) \ {n} # {} /\ ~Contests(w, n)
    BY <2>1, <2>2
  <2>4. PICK b \in Static : b # n /\ bans[w][b] = None
    BY <2>3 DEF Admins
  <2>5. Live(banRow[b]) = None /\ \A i \in Ids : ~BansAdmin(i)
    BY <1>7, <2>3, <2>4 DEF Contests, Live
  <2>6. \A i \in Ids : BansAdmin(i)' => task'[i].on # b
    BY <1>3, <2>4, <2>5 DEF BansAdmin
  <2> QED BY <1>4, <1>6, <2>5, <2>6 DEF OneSpared
<1>8. CASE ~(kind \in {"revoke", "ban"} /\ n \in Static)
  <2>1. \A i \in Ids : BansAdmin(i)' => BansAdmin(i) /\ task'[i] = task[i]
    BY <1>3, <1>8 DEF BansAdmin
  <2> QED BY <1>4, <1>6, <2>1 DEF OneSpared
<1> QED BY <1>7, <1>8

LEMMA AdminNext == ASSUME Shape, Told, AdminInv, [Next]_vars PROVE AdminInv'
<1> SUFFICES ASSUME ~contested' PROVE NoneShadowed' /\ OneSpared'
  BY DEF AdminInv
<1> USE Distinct
<1>1. ~contested
  <2>1. ASSUME NEW w \in Workers, HotReload(w) \/ Crash(w) \/ Start(w) PROVE contested' = contested
    BY <2>1, HotReloadType, CrashType, StartType
  <2>2. UNCHANGED vars \/ Sweeping \/ Expiring => contested' = contested
    BY SweepType, ExpireType DEF vars, history, Sweeping
  <2>3. ASSUME NEW r \in Requests, NEW w \in Workers, Beginning(r, w), contested PROVE contested'
    BY <2>3, BeginningStep DEF Histories
  <2> QED BY <2>1, <2>2, <2>3, WorkingType, NextCases
<1>2. NoneShadowed /\ OneSpared
  BY <1>1 DEF AdminInv
<1>3. CASE \E r \in Requests, w \in Workers : Beginning(r, w)
  BY <1>2, <1>3, AdminBegins
<1>4. CASE ~\E r \in Requests, w \in Workers : Beginning(r, w)
  <2>1. \A i \in Ids : task'[i] # None => (task[i] # None /\ Same(i)) \/ task'[i].kind \in {"boot", "sweep"}
    BY <1>4, TasksKept
  <2>2. NoneShadowed'
    <3>1. ASSUME NEW a \in Static PROVE keyRow'[a] = None
      BY <1>2, RowStep DEF NoneShadowed
    <3>2. ASSUME NEW a \in Static, NEW i \in Ids, task'[i] # None, task'[i].kind = "create", task'[i].on = a
          PROVE  FALSE
      BY <1>2, <2>1, <3>2 DEF NoneShadowed, Same
    <3> QED BY <3>1, <3>2 DEF NoneShadowed
  <2>3. PICK a \in Static : Live(banRow[a]) = None /\ \A i \in Ids : BansAdmin(i) => task[i].on # a
    BY <1>2 DEF OneSpared
  <2>4. Live(banRow[a])' = None
    <3>1. CASE banRow'[a] = banRow[a]
      BY <2>3, <3>1, FreeStep
    <3>2. CASE banRow'[a] # banRow[a]
      <4>1. ~\E r \in Requests : task[r] # None /\ task[r].kind \in {"revoke", "ban"} /\ task[r].on = a
        BY <2>3 DEF BansAdmin
      <4>2. banRow'[a] = None
        BY <3>2, <4>1, BanStep
      <4> QED BY <4>2 DEF Live
    <3> QED BY <3>1, <3>2
  <2>5. \A i \in Ids : BansAdmin(i)' => task'[i].on # a
    BY <2>1, <2>3 DEF BansAdmin, Same
  <2> QED BY <2>2, <2>4, <2>5 DEF OneSpared
<1> QED BY <1>3, <1>4

\* Administrators who revoke or ban one another one at a time, each through a worker that has
\* heard of the bans before, leave one of them: the one whose request it was cannot be banned by
\* it, and no key of their names is made that would shadow them.
THEOREM AdministratorsRemain ==
    ASSUME Static # {}
    PROVE  Spec => []AdminRemains
<1>1. AdminInv => AdminRemains
  BY DEF AdminInv, AdminRemains, NoneShadowed, OneSpared
<1> QED BY <1>1, AdminInit, AdminNext, InitType, NextType, InitTold, ToldNext, PTL DEF Spec

-----------------------------------------------------------------------------
(* Definitions that do not load.                                           *)

\* The coroutine that stored entry e has yet to load it, or has failed.
Unanswered(e, r) ==
    /\ r \in Requests
    /\ \/ /\ task[r] # None
          /\ task[r].kind \in {"add", "patch"} /\ task[r].at \in Loading
          /\ task[r].at = "fillentries" => task[r].defs[e] = entryRow[e]
       \/ task[r] = None /\ outcome[r] = "failed"

Poison == \A e \in Entries : entryRow[e] # None /\ ~entryRow[e].valid => Unanswered(e, entryRow[e].by)

\* What a step may do to a stored definition.
LEMMA EntryStep ==
    ASSUME Shape, [Next]_vars, NEW e \in Entries
    PROVE  \/ entryRow'[e] = entryRow[e]
           \/ entryRow'[e] = None
           \/ \E r \in Requests : /\ entryRow'[e] # None /\ entryRow'[e].by = r
                                  /\ task'[r] # None /\ task'[r].at = "clear"
                                  /\ task'[r].kind \in {"add", "patch"}
<1> USE Distinct
<1>1. ASSUME NEW r \in Requests, CommitAdd(r) \/ CommitPatch(r)
      PROVE  \/ entryRow'[e] = entryRow[e]
             \/ /\ entryRow'[e] # None /\ entryRow'[e].by = r
                /\ task'[r] # None /\ task'[r].at = "clear"
                /\ task'[r].kind \in {"add", "patch"}
  <2> DEFINE new == [by |-> r, valid |-> task[r].valid]
  <2>1. /\ task[r] # None /\ task[r].kind \in {"add", "patch"} /\ Move(r, "clear")
        /\ entryRow' = entryRow \/ entryRow' = [entryRow EXCEPT ![task[r].on] = new]
    BY <1>1 DEF CommitAdd, CommitPatch, At
  <2>2. new \in Entry /\ new.by = r /\ task[r] \in Task
    BY <2>1, AtType DEF Entry
  <2>3. new # None
    BY <2>2, NoneAssumption
  <2>4. task'[r] # None /\ task'[r] = [task[r] EXCEPT !.at = "clear"] /\ task'[r].at = "clear"
    BY <2>1, MoveType DEF Steps, Loading
  <2>5. task'[r].kind = task[r].kind
    BY <2>2, <2>4 DEF Task
  <2> HIDE DEF new
  <2> QED BY <2>1, <2>2, <2>3, <2>4, <2>5 DEF Shape, TypeOK
<1>2. ASSUME NEW r \in Requests, CommitDrop(r) PROVE entryRow'[e] = entryRow[e] \/ entryRow'[e] = None
  BY <1>2 DEF CommitDrop, Shape, TypeOK
<1>3. ASSUME NEW i \in Ids, Working(i)
      PROVE  \/ entryRow' = entryRow
             \/ i \in Requests /\ (CommitAdd(i) \/ CommitPatch(i) \/ CommitDrop(i))
  BY <1>3, FillEntriesType, FillType, SelectType, FailType
     DEF Working, Requesting, Load, CommitUnban, ApplyUnban, CommitCreate, ApplyCreate, CommitUpdate, ApplyUpdate, CommitRevoke, ApplyRevoke,
         CommitBan, ApplyBan, ApplyDrop, tables
<1>4. ASSUME NEW w \in Workers, HotReload(w) \/ Crash(w) \/ Start(w) PROVE entryRow' = entryRow
  BY <1>4 DEF HotReload, Crash, Start, tables
<1>5. ASSUME NEW r \in Requests, NEW w \in Workers, Beginning(r, w) PROVE entryRow' = entryRow
  BY <1>5, BeginningStep
<1>6. UNCHANGED vars \/ Sweeping \/ Expiring => entryRow' = entryRow
  BY SweepType, ExpireType DEF vars, tables, Sweeping
<1> QED BY <1>1, <1>2, <1>3, <1>4, <1>5, <1>6, NextCases

\* The coroutine that has stored a definition of entry e which does not load.
LEMMA UnansweredStep ==
    ASSUME Shape, [Next]_vars, NEW e \in Entries, NEW r, Unanswered(e, r), entryRow'[e] = entryRow[e],
           entryRow[e] # None, ~entryRow[e].valid
    PROVE  Unanswered(e, r)'
<1> USE Distinct
<1>1. r \in Requests /\ r \in Ids /\ r \in Writers
  BY DEF Unanswered
<1>2. ASSUME task'[r] = task[r], outcome'[r] = outcome[r] PROVE Unanswered(e, r)'
  BY <1>2 DEF Unanswered
<1>3. ASSUME NEW s \in Requests, NEW w \in Workers, Beginning(s, w) PROVE Unanswered(e, r)'
  <2>1. PICK A, kind, n, rec, valid : BeginsWith(A, s, kind, w, n, rec, valid)
    BY <1>3, BeginningStep
  <2>2. outcome' = outcome /\ up[w]
    BY <1>3, BeginningStep
  <2>3. task[s] = None /\ outcome[s] = "none" /\ \A j \in Ids : j # s => task'[j] = task[j]
    BY <2>1, <2>2, BeginType
  <2>4. r # s
    BY <2>3 DEF Unanswered
  <2> QED BY <1>1, <1>2, <2>2, <2>3, <2>4
<1>4. ASSUME NEW i \in Ids, Working(i), i # r PROVE Unanswered(e, r)'
  <2>1. Kept(r) /\ outcome'[r] = outcome[r]
    BY <1>1, <1>4, WorkingType DEF Stepped
  <2> QED BY <1>1, <1>2, <2>1 DEF Unanswered, Kept
<1>5. ASSUME Working(r) PROVE Unanswered(e, r)'
  <2>1. /\ task[r] # None /\ task[r].kind \in {"add", "patch"} /\ task[r].at \in Loading
        /\ task[r].at = "fillentries" => task[r].defs[e] = entryRow[e]
    BY <1>1, <1>5, WorkingType DEF Unanswered, Stepped
  <2>2. ~FillEntries(r)
    BY <2>1 DEF FillEntries, Invalid, Stored
  <2>3. FillRaises(r) \/ Fail(r) => task'[r] = None /\ outcome'[r] = "failed"
    <3>1. FillRaises(r) \/ Fail(r) => End(r, "failed")
      BY DEF FillRaises, Fail
    <3> QED BY <1>1, <2>1, <3>1, EndType
  <2>4. ASSUME ClearKeys(r) \/ FillKeys(r) \/ FillBans(r)
        PROVE  /\ task'[r] # None /\ task'[r].kind = task[r].kind
               /\ task'[r].at \in Loading /\ task'[r].at # "fillentries"
    BY <1>1, <2>4, FillType DEF Loading, Same
  <2>5. ASSUME SelectKeys(r) \/ SelectBans(r) \/ SelectEntries(r)
        PROVE  /\ task'[r] # None /\ task'[r].kind = task[r].kind
               /\ task'[r].at \in Loading
               /\ task'[r].at = "fillentries" => task'[r].defs = entryRow
    BY <1>1, <2>5, SelectType DEF Loading, Same
  <2>6. \/ FillRaises(r) \/ Fail(r)
        \/ ClearKeys(r) \/ FillKeys(r) \/ FillBans(r)
        \/ SelectKeys(r) \/ SelectBans(r) \/ SelectEntries(r)
    BY <1>5, <2>1, <2>2
       DEF Working, Requesting, Load, Loading, At, CommitCreate, ApplyCreate, CommitUpdate, ApplyUpdate, CommitRevoke,
           ApplyRevoke, CommitBan, ApplyBan, Banning, CommitUnban, ApplyUnban, Unbanning, CommitAdd, CommitPatch, CommitDrop, ApplyDrop
  <2> QED BY <1>1, <2>1, <2>3, <2>4, <2>5, <2>6 DEF Unanswered
<1>6. ASSUME NEW w \in Workers, HotReload(w) PROVE Unanswered(e, r)'
  <2>1. outcome' = outcome /\ (task'[r] = task[r] \/ (task[r] # None /\ task'[r] = Freed(task[r])))
    BY <1>1, <1>6, HotReloadType
  <2> QED BY <1>1, <1>2, <2>1, AtType, FreedType DEF Unanswered
<1>7. ASSUME NEW w \in Workers, Crash(w) PROVE Unanswered(e, r)'
  BY <1>1, <1>2, <1>7, CrashType DEF Unanswered
<1>8. ASSUME NEW w \in Workers, Start(w) PROVE Unanswered(e, r)'
  BY <1>1, <1>2, <1>8, StartType
<1>9. UNCHANGED vars \/ Expiring => task'[r] = task[r] /\ outcome'[r] = outcome[r]
  BY ExpireType DEF vars
<1>10. Sweeping => task'[r] = task[r] /\ outcome'[r] = outcome[r]
  BY <1>1, SweepType DEF Sweeping
<1> QED BY <1>2, <1>3, <1>4, <1>5, <1>6, <1>7, <1>8, <1>9, <1>10, NextCases

LEMMA PoisonNext == ASSUME Shape, Poison, [Next]_vars PROVE Poison'
<1> SUFFICES ASSUME NEW e \in Entries, entryRow'[e] # None, ~entryRow'[e].valid
             PROVE  Unanswered(e, entryRow[e].by)'
  BY DEF Poison
<1>1. CASE entryRow'[e] = entryRow[e]
  BY <1>1, UnansweredStep DEF Poison
<1>2. ASSUME NEW r \in Requests, entryRow'[e].by = r, task'[r] # None, task'[r].at = "clear",
             task'[r].kind \in {"add", "patch"}
      PROVE  Unanswered(e, entryRow[e].by)'
  BY <1>2 DEF Unanswered, Loading
<1> QED BY <1>1, <1>2, EntryStep

\* A definition that does not load was not acknowledged: the request that stored it is still to
\* reload it, in which it will raise, or was answered with an error.
THEOREM PoisonIsReported == Spec => []PoisonReported
<1>1. ASSUME Init PROVE Poison
  <2>1. ASSUME NEW e \in Entries, entryRow[e] # None PROVE entryRow[e].valid
    BY <1>1, <2>1 DEF Init
  <2> QED BY <2>1 DEF Poison
<1>2. Shape /\ Poison => PoisonReported
  <2> SUFFICES ASSUME Shape, Poison, NEW e \in Entries, entryRow[e] # None, ~entryRow[e].valid
               PROVE  outcome[entryRow[e].by] # "ok"
    BY DEF PoisonReported
  <2>1. Unanswered(e, entryRow[e].by)
    BY DEF Poison
  <2> QED BY <2>1, Distinct DEF Unanswered, Shape, Placed
<1> QED BY <1>1, <1>2, PoisonNext, InitType, NextType, PTL DEF Spec

-----------------------------------------------------------------------------
(* Workers that were left alone.                                           *)

ConfigOk(w, e) == config[w][e] = entryRow[e] \/ (entryRow[e] = None /\ config[w][e] = Toml)

\* The bans of worker w that are in force are those of the table.
SameBans(w) == \A n \in Names : Live(bans[w][n]) = Live(banRow[n])

\* What the keys of a worker are while coroutine i, its only one, is under way.
KeysStage(i) ==
    LET t == task[i]  mine == keys[t.w]
    IN  /\ \/ t.at \in {"write", "ban", "banned", "unban", "unbanned", "bans", "fillbans", "entries",
                     "fillentries"}
           \/ t.kind = "drop"
           => mine = keyRow
        /\ t.kind = "update" => t.linked
        /\ t.at = "apply" /\ t.kind = "create" => keyRow = [mine EXCEPT ![t.on] = t.rec]
        /\ t.at = "apply" /\ t.kind = "update" => keyRow = [mine EXCEPT ![t.on].fields = t.rec.fields]
        /\ t.at = "apply" /\ t.kind = "revoke" => /\ keyRow = [mine EXCEPT ![t.on] = None]
                                                  /\ t.hit <=> mine[t.on] # None
        /\ t.at \in {"keys", "fillkeys"} => mine = NoKeys
        /\ t.at = "fillkeys" => t.rows = keyRow

BansStage(i) ==
    LET t == task[i]  mine == bans[t.w]
    IN  /\ t.at \in {"write", "apply", "ban", "unban", "entries", "fillentries"} => SameBans(t.w)
        /\ t.at \in {"banned", "unbanned"} =>
             \A n \in Names \ {t.on} : Live(mine[n]) = Live(banRow[n])
        /\ t.at = "banned" => banRow[t.on] = i
        /\ t.at = "unbanned" => banRow[t.on] = None /\ (~t.hit => Live(mine[t.on]) = None)
        /\ t.at \in {"bans", "fillbans"} => mine = NoBans
        /\ t.at = "fillbans" => \A n \in Names : Live(t.banned[n]) = Live(banRow[n])

ConfigStage(i) ==
    LET t == task[i]  mine == config[t.w]
    IN  /\ t.at \notin Loading => \A e \in Entries : ConfigOk(t.w, e) \/ (e = t.on /\ t.at = "apply")
        /\ t.at = "apply" /\ t.kind # "drop" => \A e \in Entries : ConfigOk(t.w, e)
        /\ t.at = "apply" /\ t.kind = "drop" => /\ entryRow[t.on] = None
                                                /\ ~t.hit => mine[t.on] \in {None, Toml}
        /\ t.at \in Loading => \A e \in Entries : entryRow[e] = None => mine[e] \in {None, Toml}
        /\ t.at \in {"entries", "fillentries"} => t.linked
        /\ t.at = "fillentries" => t.defs = entryRow

Agree(w) == /\ keys[w] = keyRow
            /\ SameBans(w)
            /\ \A e \in Entries : ConfigOk(w, e)

CalmAt(w) ==
    /\ \A i, j \in Ids : AtWorker(i, w) /\ AtWorker(j, w) => i = j
    /\ \A i \in Ids : AtWorker(i, w) => KeysStage(i) /\ BansStage(i) /\ ConfigStage(i)
    /\ up[w] /\ ~Busy(w) => Agree(w)

CalmInv == \A w \in Workers : calm[w] => CalmAt(w)

\* What a step of elsewhere leaves of worker w.
Untouched(w) ==
    /\ UNCHANGED <<keyRow, banRow, entryRow>>
    /\ keys'[w] = keys[w] /\ bans'[w] = bans[w] /\ config'[w] = config[w]
    /\ up'[w] = up[w] /\ calm'[w] = calm[w]
    /\ \A i \in Ids : AtWorker(i, w) \/ AtWorker(i, w)' => task'[i] = task[i]

\* Two bans that are the same, or not in force, stay so.
LEMMA LiveStep ==
    ASSUME Shape, Told, [Next]_vars, NEW a \in Requests \cup {None}, NEW b \in Requests \cup {None},
           Live(a) = Live(b)
    PROVE  Live(a)' = Live(b)'
<1>1. ASSUME NEW c \in Requests, term[c] = "over" PROVE term'[c] = "over"
  BY <1>1, TermStep DEF Told
<1> QED BY <1>1, Distinct DEF Live

LEMMA SameBansStep ==
    ASSUME Shape, Told, [Next]_vars, NEW w \in Workers, bans'[w] = bans[w], banRow' = banRow, SameBans(w)
    PROVE  SameBans(w)'
<1> SUFFICES ASSUME NEW n \in Names PROVE Live(bans[w][n])' = Live(banRow[n])'
  BY DEF SameBans
<1>1. PICK a \in Requests \cup {None}, b \in Requests \cup {None} : a = bans[w][n] /\ b = banRow[n]
  BY DEF Shape, TypeOK
<1>2. Live(a) = Live(b)
  BY <1>1 DEF SameBans
<1>3. Live(a)' = Live(b)'
  BY <1>2, LiveStep
<1> QED BY <1>1, <1>3 DEF Live

LEMMA UntouchedStep ==
    ASSUME Shape, Told, [Next]_vars, NEW w \in Workers, CalmAt(w), Untouched(w)
    PROVE  CalmAt(w)'
<1>1. \A i \in Ids : AtWorker(i, w)' => AtWorker(i, w) /\ task'[i] = task[i] /\ task[i].w = w
  BY DEF Untouched, AtWorker
<1>2. \A i \in Ids : AtWorker(i, w) => AtWorker(i, w)'
  BY DEF Untouched, AtWorker
<1>3. /\ keyRow' = keyRow /\ banRow' = banRow /\ entryRow' = entryRow
      /\ keys'[w] = keys[w] /\ bans'[w] = bans[w] /\ config'[w] = config[w] /\ up'[w] = up[w]
  BY DEF Untouched
<1>4. \A i, j \in Ids : AtWorker(i, w)' /\ AtWorker(j, w)' => i = j
  BY <1>1 DEF CalmAt
<1>5. ASSUME NEW i \in Ids, AtWorker(i, w)' PROVE KeysStage(i)' /\ BansStage(i)' /\ ConfigStage(i)'
  <2>1. task'[i] = task[i] /\ task[i].w = w /\ KeysStage(i) /\ BansStage(i) /\ ConfigStage(i)
    BY <1>1, <1>5 DEF CalmAt
  <2>2. KeysStage(i)'
    BY <1>3, <2>1 DEF KeysStage
  <2>3. BansStage(i)'
    <3>1. BansStage(i) /\ task[i] # None /\ task'[i].at = task[i].at /\ task'[i].w = w
      BY <1>1, <1>5, <2>1 DEF AtWorker
    <3>2. task[i].at \in {"write", "apply", "ban", "unban", "entries", "fillentries"} => SameBans(w)'
      BY <1>3, <2>1, SameBansStep DEF BansStage
    <3>3. \A n \in Names : Live(bans[w][n]) = Live(banRow[n]) => Live(bans[w][n])' = Live(banRow[n])'
      <4> SUFFICES ASSUME NEW n \in Names, Live(bans[w][n]) = Live(banRow[n])
                   PROVE  Live(bans[w][n])' = Live(banRow[n])'
        OBVIOUS
      <4>1. PICK a \in Requests \cup {None}, b \in Requests \cup {None} : a = bans[w][n] /\ b = banRow[n]
        BY DEF Shape, TypeOK
      <4>2. Live(a)' = Live(b)'
        BY <4>1, LiveStep
      <4> QED BY <1>3, <4>1, <4>2 DEF Live
    <3>4. \A n \in Names : Live(task[i].banned[n]) = Live(banRow[n])
                          => Live(task[i].banned[n])' = Live(banRow[n])'
      <4> SUFFICES ASSUME NEW n \in Names, Live(task[i].banned[n]) = Live(banRow[n])
                   PROVE  Live(task[i].banned[n])' = Live(banRow[n])'
        OBVIOUS
      <4>1. PICK a \in Requests \cup {None}, b \in Requests \cup {None} : a = task[i].banned[n] /\ b = banRow[n]
        BY <3>1, AtType DEF Shape, TypeOK
      <4>2. Live(a)' = Live(b)'
        BY <4>1, LiveStep
      <4> QED BY <1>3, <2>1, <4>1, <4>2 DEF Live
    <3>5. task[i].at \in {"banned", "unbanned"} =>
             \A n \in Names \ {task[i].on} : Live(bans[w][n])' = Live(banRow[n])'
      BY <2>1, <3>1, <3>3 DEF BansStage
    <3>6. /\ task[i].at = "banned" => banRow'[task[i].on] = i
          /\ task[i].at = "unbanned" => banRow'[task[i].on] = None
          /\ task[i].at \in {"bans", "fillbans"} => bans'[w] = NoBans
      BY <1>3, <2>1, <3>1 DEF BansStage
    <3>7. task[i].at = "unbanned" /\ ~task[i].hit => Live(bans[w][task[i].on])' = None
      <4> SUFFICES ASSUME task[i].at = "unbanned", ~task[i].hit PROVE Live(bans[w][task[i].on])' = None
        OBVIOUS
      <4>1. task[i].kind \in {"unban", "sweep"} /\ task[i].on \in Names
        BY <3>1, AtType DEF Placed, StepsOf, KeyKinds, Loading
      <4>2. banRow[task[i].on] = None /\ Live(bans[w][task[i].on]) = None
        BY <2>1, <3>1 DEF BansStage
      <4>3. Live(bans[w][task[i].on])' = Live(banRow[task[i].on])'
        BY <1>3, <2>1, <3>3, <4>1, <4>2 DEF Live
      <4> QED BY <1>3, <2>1, <4>2, <4>3 DEF Live
    <3>8. task[i].at = "fillbans" => \A n \in Names : Live(task[i].banned[n])' = Live(banRow[n])'
      BY <3>1, <3>4 DEF BansStage
    <3> QED BY <1>3, <2>1, <3>1, <3>2, <3>5, <3>6, <3>7, <3>8 DEF BansStage, SameBans, Live
  <2>4. ConfigStage(i)'
    BY <1>3, <2>1 DEF ConfigStage, ConfigOk
  <2> QED BY <2>2, <2>3, <2>4
<1>6. ASSUME up'[w], ~Busy(w)' PROVE Agree(w)'
  <2>1. ~Busy(w)
    BY <1>2, <1>6 DEF Busy, AtWorker
  <2>2. Agree(w)
    BY <1>3, <1>6, <2>1 DEF CalmAt
  <2>3. SameBans(w)'
    BY <1>3, <2>2, SameBansStep DEF Agree
  <2> QED BY <1>3, <2>2, <2>3 DEF Agree, ConfigOk
<1> QED BY <1>4, <1>5, <1>6 DEF CalmAt

LEMMA UnlinkElsewhere ==
    ASSUME NEW i \in Ids, NEW w, NEW N, task[i].w # w
    PROVE  Unlink(w, N)[i] = task[i]
BY DEF Unlink

\* A step of a coroutine at another worker, which has not written the tables.
LEMMA ElsewhereStep ==
    ASSUME Shape, NEW i \in Ids, Working(i), NEW w \in Workers, task[i].w # w, calm'[w]
    PROVE  Untouched(w)
<1> USE Distinct
<1> DEFINE v == task[i].w
<1>1. Stepped(i) /\ task[i] # None /\ v \in Workers
  BY WorkingType, AtType DEF Stepped
<1>2. ASSUME NEW j \in Ids, AtWorker(j, w)' PROVE AtWorker(j, w)
  <2>1. task'[j] # None /\ task'[j].w = w
    BY <1>2 DEF AtWorker
  <2>2. j # i /\ Kept(j)
    BY <1>1, <2>1 DEF Stepped, Same
  <2> QED BY <2>1, <2>2, KeptType DEF AtWorker, Same
<1>3. ~Wrote(v)
  <2>1. Wrote(v) => ~calm'[w]
    BY DEF Wrote
  <2> QED BY <2>1
<1>4. UNCHANGED <<keyRow, banRow, entryRow>>
  BY <1>3, FillType, SelectType, FillEntriesType, FailType
     DEF Working, Requesting, Load, CommitUnban, ApplyUnban, CommitCreate, ApplyCreate, CommitUpdate, ApplyUpdate, CommitRevoke, ApplyRevoke,
         CommitBan, ApplyBan, CommitAdd, CommitPatch, CommitDrop, ApplyDrop, tables
<1>5. calm'[w] = calm[w]
  <2>1. calm' = calm \/ calm' = [calm EXCEPT ![v] = FALSE]
    BY <1>3, FillType, SelectType, FillEntriesType, FailType
       DEF Working, Requesting, Load, CommitUnban, ApplyUnban, CommitCreate, ApplyCreate, CommitUpdate, ApplyUpdate, CommitRevoke, ApplyRevoke,
           CommitBan, ApplyBan, CommitAdd, CommitPatch, CommitDrop, ApplyDrop, history
  <2> QED BY <2>1 DEF Shape, TypeOK
<1>6. up'[w] = up[w]
  <2>1. up' = up \/ up' = [up EXCEPT ![v] = TRUE]
    BY FillType, SelectType, FillEntriesType, FailType
       DEF Working, Requesting, Load, CommitUnban, ApplyUnban, CommitCreate, ApplyCreate, CommitUpdate, ApplyUpdate, CommitRevoke, ApplyRevoke,
           CommitBan, ApplyBan, CommitAdd, CommitPatch, CommitDrop, ApplyDrop
  <2> QED BY <2>1 DEF Shape, TypeOK
<1>7. bans'[w] = bans[w]
  <2>1. ASSUME ApplyBan(i) \/ ApplyUnban(i) PROVE bans'[w] = bans[w]
    BY <2>1 DEF ApplyBan, ApplyUnban, Shape, TypeOK
  <2>2. ASSUME ClearKeys(i) \/ FillKeys(i) \/ FillBans(i) PROVE bans'[w] = bans[w]
    BY <2>2, FillType DEF Shape, TypeOK
  <2> QED BY <1>3, <2>1, <2>2, SelectType, FillEntriesType, FailType
       DEF Working, Requesting, Load, CommitUnban, CommitCreate, ApplyCreate, CommitUpdate, ApplyUpdate, CommitRevoke, ApplyRevoke,
           CommitBan, CommitAdd, CommitPatch, CommitDrop, ApplyDrop, caches
<1>8. config'[w] = config[w]
  <2>1. ASSUME ApplyDrop(i) PROVE config'[w] = config[w]
    BY <2>1 DEF ApplyDrop, Shape, TypeOK
  <2>2. ASSUME FillEntries(i) \/ FillRaises(i) PROVE config'[w] = config[w]
    BY <2>2, FillEntriesType
  <2> QED BY <1>3, <2>1, <2>2, FillType, SelectType, FailType
       DEF Working, Requesting, Load, CommitUnban, ApplyUnban, CommitCreate, ApplyCreate, CommitUpdate, ApplyUpdate, CommitRevoke, ApplyRevoke,
           CommitBan, ApplyBan, CommitAdd, CommitPatch, CommitDrop, caches
<1>9. keys'[w] = keys[w]
  <2>1. ASSUME ApplyCreate(i) \/ ApplyUpdate(i) \/ ApplyRevoke(i) \/ FillKeys(i) \/ ClearKeys(i)
        PROVE  keys'[w] = keys[w]
    BY <2>1 DEF ApplyCreate, ApplyUpdate, ApplyRevoke, FillKeys, ClearKeys, Shape, TypeOK
  <2>2. FillBans(i) => keys' = keys
    BY DEF FillBans
  <2> QED BY <1>3, <2>1, <2>2, SelectType, FillEntriesType, FailType
       DEF Working, Requesting, Load, CommitUnban, ApplyUnban, CommitCreate, CommitUpdate, CommitRevoke,
           CommitBan, ApplyBan, CommitAdd, CommitPatch, CommitDrop, ApplyDrop, caches
<1>10. ASSUME NEW j \in Ids, AtWorker(j, w) PROVE task'[j] = task[j]
  <2>1. j # i /\ task[j].w # v /\ task \in [Ids -> Task \cup {None}]
    BY <1>10 DEF AtWorker, Shape, TypeOK
  <2>2. ASSUME NEW N PROVE Unlink(v, N)[j] = task[j] /\ Unlink(v, N) \in [Ids -> Task \cup {None}]
    BY <2>1, UnlinkElsewhere, UnlinkType
  <2>3. ASSUME NEW N, NEW new, task' = [Unlink(v, N) EXCEPT ![i] = new] PROVE task'[j] = task[j]
    BY <2>1, <2>2, <2>3
  <2>4. ASSUME NEW new, task' = [task EXCEPT ![i] = new] PROVE task'[j] = task[j]
    BY <2>1, <2>4
  <2>5. ApplyCreate(i) => task'[j] = task[j]
    BY <2>3 DEF ApplyCreate
  <2>6. ASSUME ApplyRevoke(i) PROVE task'[j] = task[j]
    <3>1. PICK N : task' = [Unlink(v, N) EXCEPT ![i].at = "ban"] \/ task' = [Unlink(v, N) EXCEPT ![i] = None]
      BY <2>6 DEF ApplyRevoke
    <3> QED BY <2>1, <2>2, <3>1
  <2>7. ASSUME FillKeys(i) \/ ClearKeys(i) PROVE task'[j] = task[j]
    BY <2>1, <2>2, <2>7 DEF FillKeys, ClearKeys
  <2>8. ASSUME FillEntries(i) \/ FillRaises(i) \/ Fail(i) PROVE task'[j] = task[j]
    BY <2>1, <2>8, FillEntriesType, FailType
  <2>9. ASSUME SelectKeys(i) \/ SelectBans(i) \/ SelectEntries(i) \/ FillBans(i) PROVE task'[j] = task[j]
    BY <2>1, <2>9 DEF SelectKeys, SelectBans, SelectEntries, FillBans
  <2>11. ASSUME CommitUnban(i) \/ ApplyUnban(i) PROVE task'[j] = task[j]
    BY <2>1, <2>11, UnbanType
  <2>10. ASSUME ApplyUpdate(i) \/ ApplyBan(i) \/ ApplyDrop(i) PROVE task'[j] = task[j]
    BY <2>1, <2>4, <2>10 DEF ApplyUpdate, ApplyBan, ApplyDrop, End
  <2> QED BY <1>3, <2>5, <2>6, <2>7, <2>8, <2>9, <2>10, <2>11
       DEF Working, Requesting, Load, CommitCreate, CommitUpdate, CommitRevoke, CommitBan, CommitAdd, CommitPatch, CommitDrop
<1> HIDE DEF v
<1> QED BY <1>2, <1>4, <1>5, <1>6, <1>7, <1>8, <1>9, <1>10 DEF Untouched

\* Coroutine i is at worker w, where all is as it has left it.
Alone(i, w) == AtWorker(i, w) /\ KeysStage(i) /\ BansStage(i) /\ ConfigStage(i)

\* What its step leaves there.
Settles(i, w) ==
    IF task'[i] # None THEN KeysStage(i)' /\ BansStage(i)' /\ ConfigStage(i)' ELSE Agree(w)'

LEMMA WriteAgrees ==
    ASSUME NEW i \in Ids, NEW w \in Workers, Alone(i, w), task[i].at = "write"
    PROVE  Agree(w)
<1>1. task[i].w = w
  BY DEF Alone, AtWorker
<1>2. keys[w] = keyRow
  BY <1>1 DEF Alone, KeysStage
<1>3. SameBans(w)
  BY <1>1 DEF Alone, BansStage
<1>4. \A e \in Entries : ConfigOk(w, e)
  BY <1>1 DEF Alone, ConfigStage, Loading
<1> QED BY <1>2, <1>3, <1>4 DEF Agree

LEMMA MoveFields ==
    ASSUME Shape, NEW i \in Ids, task[i] # None, NEW step \in Steps, Move(i, step)
    PROVE  /\ task'[i] # None /\ task'[i].at = step /\ Same(i)
           /\ task'[i].linked = task[i].linked /\ task'[i].hit = task[i].hit
           /\ task'[i].rows = task[i].rows /\ task'[i].banned = task[i].banned
           /\ task'[i].defs = task[i].defs
<1>1. /\ task[i] \in Task /\ task'[i] # None
      /\ task'[i] = [task[i] EXCEPT !.at = step] /\ task'[i].at = step
  BY MoveType
<1> QED BY <1>1 DEF Task, Same

LEMMA CalmCreate ==
    ASSUME Shape, NEW i \in Requests, NEW w \in Workers, Alone(i, w), CommitCreate(i) \/ ApplyCreate(i)
    PROVE  Settles(i, w)
<1> USE Distinct
<1>1. task[i] # None /\ task[i].w = w /\ task[i].kind = "create"
  BY DEF CommitCreate, ApplyCreate, At, Alone, AtWorker
<1>2. CASE CommitCreate(i)
  <2>1. Agree(w)
    BY <1>2, WriteAgrees DEF CommitCreate, At
  <2>2. task'[i] # None /\ task'[i].at = "apply" /\ Same(i)
    BY <1>1, <1>2, MoveFields DEF CommitCreate, Steps
  <2>3. KeysStage(i)'
    <3>1. keyRow' = [keys'[w] EXCEPT ![task[i].on] = task[i].rec]
      BY <1>2, <2>1 DEF CommitCreate, caches, Agree
    <3> QED BY <1>1, <2>2, <3>1 DEF KeysStage, Same
  <2>4. BansStage(i)'
    BY <1>1, <1>2, <2>1, <2>2 DEF BansStage, Same, CommitCreate, caches, Agree, SameBans, Live
  <2>5. ConfigStage(i)'
    BY <1>1, <1>2, <2>1, <2>2 DEF ConfigStage, Same, CommitCreate, caches, Agree, ConfigOk, Loading
  <2> QED BY <2>2, <2>3, <2>4, <2>5 DEF Settles
<1>3. CASE ApplyCreate(i)
  <2>1. task'[i] = None
    <3>1. task' = [Unlink(w, {task[i].on}) EXCEPT ![i] = None]
      BY <1>1, <1>3 DEF ApplyCreate
    <3> QED BY <3>1, UnlinkType
  <2>2. task[i].at = "apply" /\ bans' = bans /\ config' = config /\ UNCHANGED <<tables, term>>
    BY <1>3 DEF ApplyCreate, At
  <2>3. keys'[w] = keyRow
    <3>1. keys' = [keys EXCEPT ![w][task[i].on] = task[i].rec]
      BY <1>1, <1>3 DEF ApplyCreate
    <3>2. keys'[w] = [keys[w] EXCEPT ![task[i].on] = task[i].rec]
      BY <3>1 DEF Shape, TypeOK
    <3>3. keyRow = [keys[w] EXCEPT ![task[i].on] = task[i].rec]
      BY <1>1, <2>2 DEF Alone, KeysStage
    <3> QED BY <3>2, <3>3
  <2>4. SameBans(w)
    BY <1>1, <2>2 DEF Alone, BansStage
  <2>5. \A e \in Entries : ConfigOk(w, e)
    BY <1>1, <2>2 DEF Alone, ConfigStage
  <2> QED BY <2>1, <2>2, <2>3, <2>4, <2>5 DEF Settles, Agree, ConfigOk, SameBans, Live, tables
<1> QED BY <1>2, <1>3

LEMMA CalmUpdate ==
    ASSUME Shape, NEW i \in Requests, NEW w \in Workers, Alone(i, w), CommitUpdate(i) \/ ApplyUpdate(i)
    PROVE  Settles(i, w)
<1> USE Distinct
<1>1. task[i] # None /\ task[i].w = w /\ task[i].kind = "update" /\ task[i].linked
  BY DEF CommitUpdate, ApplyUpdate, At, Alone, AtWorker, KeysStage
<1>2. CASE CommitUpdate(i)
  <2>1. Agree(w) /\ UNCHANGED <<banRow, entryRow, keys, bans, config, term>>
    BY <1>2, WriteAgrees DEF CommitUpdate, At, caches
  <2>2. CASE End(i, "refused") /\ keyRow' = keyRow
    <3>1. task'[i] = None
      BY <1>1, <2>2, EndType
    <3> QED BY <2>1, <2>2, <3>1 DEF Settles, Agree, ConfigOk, SameBans, Live
  <2>3. CASE Move(i, "apply") /\ keyRow' = [keyRow EXCEPT ![task[i].on].fields = task[i].rec.fields]
    <3>1. task'[i] # None /\ task'[i].at = "apply" /\ Same(i) /\ task'[i].linked
      BY <1>1, <2>3, MoveFields DEF Steps
    <3>2. keyRow' = [keys'[w] EXCEPT ![task[i].on].fields = task[i].rec.fields]
      BY <2>1, <2>3 DEF Agree
    <3>3. KeysStage(i)'
      BY <1>1, <3>1, <3>2 DEF KeysStage, Same
    <3>4. BansStage(i)'
      BY <1>1, <2>1, <3>1 DEF BansStage, Same, Agree, SameBans, Live
    <3>5. ConfigStage(i)'
      BY <1>1, <2>1, <3>1 DEF ConfigStage, Same, Agree, ConfigOk, Loading
    <3> QED BY <3>1, <3>3, <3>4, <3>5 DEF Settles
  <2> QED BY <1>2, <2>2, <2>3 DEF CommitUpdate
<1>3. CASE ApplyUpdate(i)
  <2>1. task[i].at = "apply" /\ bans' = bans /\ config' = config /\ UNCHANGED <<tables, term>> /\ End(i, "ok")
    BY <1>3 DEF ApplyUpdate, At
  <2>2. task'[i] = None
    BY <1>1, <2>1, EndType
  <2>3. keys'[w] = keyRow
    <3>1. keys' = [keys EXCEPT ![w][task[i].on].fields = task[i].rec.fields]
      BY <1>1, <1>3 DEF ApplyUpdate
    <3>2. keys'[w] = [keys[w] EXCEPT ![task[i].on].fields = task[i].rec.fields]
      BY <3>1 DEF Shape, TypeOK
    <3>3. keyRow = [keys[w] EXCEPT ![task[i].on].fields = task[i].rec.fields]
      BY <1>1, <2>1 DEF Alone, KeysStage
    <3> QED BY <3>2, <3>3
  <2>4. SameBans(w)
    BY <1>1, <2>1 DEF Alone, BansStage
  <2>5. \A e \in Entries : ConfigOk(w, e)
    BY <1>1, <2>1 DEF Alone, ConfigStage
  <2> QED BY <2>1, <2>2, <2>3, <2>4, <2>5 DEF Settles, Agree, ConfigOk, SameBans, Live, tables
<1> QED BY <1>2, <1>3

LEMMA CalmRevoke ==
    ASSUME Shape, NEW i \in Requests, NEW w \in Workers, Alone(i, w), CommitRevoke(i) \/ ApplyRevoke(i)
    PROVE  Settles(i, w)
<1> USE Distinct
<1>1. /\ task[i] # None /\ task[i].w = w /\ task[i].kind = "revoke" /\ task[i].on \in Names
      /\ keys[w] \in [Names -> Key \cup {None}]
  BY AtType DEF CommitRevoke, ApplyRevoke, At, Alone, AtWorker, Placed, KeyKinds, Shape, TypeOK
<1>2. CASE CommitRevoke(i)
  <2>1. /\ Agree(w) /\ UNCHANGED <<banRow, entryRow, keys, bans, config, term>>
        /\ keyRow' = [keyRow EXCEPT ![task[i].on] = None]
    BY <1>2, WriteAgrees DEF CommitRevoke, At, caches
  <2>2. /\ task'[i] # None /\ task'[i].at = "apply" /\ Same(i)
        /\ task'[i].hit = (keyRow[task[i].on] # None)
    <3>1. task'[i] = [task[i] EXCEPT !.at = "apply", !.hit = keyRow[task[i].on] # None] /\ task[i] \in Task
      BY <1>1, <1>2, AtType DEF CommitRevoke, Shape, TypeOK
    <3>2. Stepped(i)
      BY <1>2, RevokeType
    <3>3. task'[i].at = "apply" /\ task'[i].hit = (keyRow[task[i].on] # None) /\ task'[i].kind = "revoke"
      BY <1>1, <3>1 DEF Task
    <3>4. task'[i] # None
      <4>1. task'[i] \in Task
        BY <3>1 DEF Task, Steps
      <4> QED BY <4>1, NoneAssumption
    <3> QED BY <3>2, <3>3, <3>4 DEF Stepped
  <2>3. KeysStage(i)'
    <3>1. keyRow' = [keys'[w] EXCEPT ![task[i].on] = None] /\ (task'[i].hit <=> keys'[w][task[i].on] # None)
      BY <2>1, <2>2 DEF Agree
    <3> QED BY <1>1, <2>2, <3>1 DEF KeysStage, Same
  <2>4. BansStage(i)'
    BY <1>1, <2>1, <2>2 DEF BansStage, Same, Agree, SameBans, Live
  <2>5. ConfigStage(i)'
    BY <1>1, <2>1, <2>2 DEF ConfigStage, Same, Agree, ConfigOk, Loading
  <2> QED BY <2>2, <2>3, <2>4, <2>5 DEF Settles
<1>3. CASE ApplyRevoke(i)
  <2> DEFINE dropped == IF task[i].hit THEN {task[i].on} ELSE {}
  <2>1. task[i].at = "apply" /\ UNCHANGED <<keyRow, banRow, entryRow, bans, config, term>>
    BY <1>3 DEF ApplyRevoke, At, tables
  <2>2. keys'[w] = keyRow
    <3>1. keys' = [keys EXCEPT ![w] = [m \in Names |-> IF m \in dropped THEN None ELSE @[m]]]
      BY <1>1, <1>3 DEF ApplyRevoke
    <3>2. keys'[w] = [m \in Names |-> IF m \in dropped THEN None ELSE keys[w][m]]
      BY <3>1 DEF Shape, TypeOK
    <3>3. keyRow = [keys[w] EXCEPT ![task[i].on] = None] /\ (task[i].hit <=> keys[w][task[i].on] # None)
      BY <1>1, <2>1 DEF Alone, KeysStage
    <3> QED BY <1>1, <3>2, <3>3
  <2>3. SameBans(w)
    BY <1>1, <2>1 DEF Alone, BansStage
  <2>4. \A e \in Entries : ConfigOk(w, e)
    BY <1>1, <2>1 DEF Alone, ConfigStage
  <2>5. Agree(w)'
    BY <2>1, <2>2, <2>3, <2>4 DEF Agree, ConfigOk, SameBans, Live
  <2>6. task'[i] # None => task'[i].at = "ban" /\ Same(i)
    <3>1. Stepped(i)
      BY <1>3, RevokeType
    <3>2. ASSUME NEW N
          PROVE  Unlink(w, N)[i] = task[i] /\ Unlink(w, N) \in [Ids -> Task \cup {None}]
      <4>1. Unlink(w, N)[i] = task[i]
        BY <1>1 DEF Unlink, At
      <4> QED BY <4>1, UnlinkType
    <3>3. task' = [Unlink(w, dropped) EXCEPT ![i].at = "ban"] \/ task' = [Unlink(w, dropped) EXCEPT ![i] = None]
      BY <1>1, <1>3 DEF ApplyRevoke
    <3>4. task[i] \in Task
      BY <1>1, AtType
    <3> HIDE DEF dropped
    <3>5. task'[i] = [task[i] EXCEPT !.at = "ban"] \/ task'[i] = None
      BY <3>2, <3>3
    <3> QED BY <3>1, <3>4, <3>5 DEF Stepped, Task
  <2>7. ASSUME task'[i] # None PROVE KeysStage(i)' /\ BansStage(i)' /\ ConfigStage(i)'
    <3>1. task'[i].at = "ban" /\ task'[i].kind = "revoke" /\ task'[i].w = w
      BY <1>1, <2>6, <2>7 DEF Same
    <3>2. KeysStage(i)'
      BY <2>5, <3>1 DEF KeysStage, Agree
    <3>3. BansStage(i)'
      BY <2>5, <3>1 DEF BansStage, Agree, SameBans, Live
    <3>4. ConfigStage(i)'
      BY <2>5, <3>1 DEF ConfigStage, Agree, Loading
    <3> QED BY <3>2, <3>3, <3>4
  <2> QED BY <2>5, <2>7 DEF Settles
<1> QED BY <1>2, <1>3

LEMMA CalmBan ==
    ASSUME Shape, NEW i \in Requests, NEW w \in Workers, Alone(i, w), CommitBan(i) \/ ApplyBan(i)
    PROVE  Settles(i, w)
<1> USE Distinct
<1> DEFINE n == task[i].on
<1>1. task[i] # None /\ task[i].w = w /\ task[i].kind \in {"revoke", "ban"} /\ n \in Names
  BY AtType DEF CommitBan, ApplyBan, Banning, At, Alone, AtWorker, Placed, KeyKinds
<1>2. task[i].at \in {"ban", "banned"} /\ keys[w] = keyRow /\ \A e \in Entries : ConfigOk(w, e)
  <2>1. task[i].at \in {"ban", "banned"}
    BY DEF CommitBan, ApplyBan, Banning, At
  <2>2. keys[w] = keyRow
    BY <1>1, <2>1 DEF Alone, KeysStage
  <2>3. \A e \in Entries : ConfigOk(w, e)
    BY <1>1, <2>1 DEF Alone, ConfigStage, Loading
  <2> QED BY <2>1, <2>2, <2>3
<1>3. CASE CommitBan(i)
  <2>1. /\ task[i].at = "ban" /\ Move(i, "banned") /\ banRow' = [banRow EXCEPT ![n] = i]
        /\ UNCHANGED <<keyRow, entryRow, keys, bans, config, term>>
    BY <1>3 DEF CommitBan, Banning, At, caches
  <2>2. task'[i] # None /\ task'[i].at = "banned" /\ Same(i)
    BY <1>1, <2>1, MoveFields DEF Steps
  <2>3. SameBans(w)
    BY <1>1, <2>1 DEF Alone, BansStage
  <2>4. KeysStage(i)'
    BY <1>1, <1>2, <2>1, <2>2 DEF KeysStage, Same
  <2>5. BansStage(i)'
    <3>1. banRow'[n] = i /\ \A m \in Names \ {n} : banRow'[m] = banRow[m]
      BY <1>1, <2>1 DEF Shape, TypeOK
    <3>2. task'[i].w = w /\ task'[i].on = n
      BY <1>1, <2>2 DEF Same
    <3> QED BY <2>1, <2>2, <2>3, <3>1, <3>2 DEF BansStage, SameBans, Live
  <2>6. ConfigStage(i)'
    BY <1>1, <1>2, <2>1, <2>2 DEF ConfigStage, Same, ConfigOk, Loading
  <2> QED BY <2>2, <2>4, <2>5, <2>6 DEF Settles
<1>4. CASE ApplyBan(i)
  <2>1. /\ task[i].at = "banned" /\ End(i, "ok") /\ bans' = [bans EXCEPT ![w][n] = i]
        /\ UNCHANGED <<keyRow, banRow, entryRow, keys, config, term>>
    BY <1>1, <1>4 DEF ApplyBan, Banning, At, tables
  <2>2. task'[i] = None
    BY <1>1, <2>1, EndType
  <2>3. SameBans(w)'
    <3>1. banRow[n] = i /\ \A m \in Names \ {n} : Live(bans[w][m]) = Live(banRow[m])
      BY <1>1, <2>1 DEF Alone, BansStage
    <3>2. bans'[w][n] = i /\ \A m \in Names \ {n} : bans'[w][m] = bans[w][m]
      BY <1>1, <2>1 DEF Shape, TypeOK
    <3> QED BY <2>1, <3>1, <3>2 DEF SameBans, Live
  <2> QED BY <1>2, <2>1, <2>2, <2>3 DEF Settles, Agree, ConfigOk
<1> QED BY <1>3, <1>4

LEMMA CalmUnban ==
    ASSUME Shape, NEW i \in Ids, NEW w \in Workers, Alone(i, w), CommitUnban(i) \/ ApplyUnban(i)
    PROVE  Settles(i, w)
<1> USE Distinct
<1> DEFINE n == task[i].on
<1>1. /\ task[i] # None /\ task[i].w = w /\ task[i].kind \in {"unban", "sweep"} /\ n \in Names
      /\ task[i].at \in {"unban", "unbanned"}
  BY UnbanType DEF Alone, AtWorker
<1>2. keys[w] = keyRow /\ \A e \in Entries : ConfigOk(w, e)
  <2>1. keys[w] = keyRow
    BY <1>1 DEF Alone, KeysStage
  <2>2. \A e \in Entries : ConfigOk(w, e)
    BY <1>1 DEF Alone, ConfigStage, Loading
  <2> QED BY <2>1, <2>2
<1>3. CASE CommitUnban(i)
  <2>1. /\ task[i].at = "unban" /\ banRow' = [banRow EXCEPT ![n] = None]
        /\ UNCHANGED <<keyRow, entryRow, keys, bans, config, term>>
    BY <1>3 DEF CommitUnban, Unbanning, At, caches
  <2>2. task'[i] # None /\ task'[i].at = "unbanned" /\ Same(i) /\ task'[i].hit = (banRow[n] # None)
    BY <1>3, <2>1, UnbanType
  <2>3. SameBans(w)
    BY <1>1, <2>1 DEF Alone, BansStage
  <2>4. KeysStage(i)'
    BY <1>1, <1>2, <2>1, <2>2 DEF KeysStage, Same
  <2>5. BansStage(i)'
    <3>1. banRow'[n] = None /\ \A m \in Names \ {n} : banRow'[m] = banRow[m]
      BY <1>1, <2>1 DEF Shape, TypeOK
    <3>2. task'[i].w = w /\ task'[i].on = n
      BY <1>1, <2>2 DEF Same
    <3>3. ~task'[i].hit => Live(bans[w][n]) = None
      BY <1>1, <2>2, <2>3 DEF SameBans, Live
    <3>4. ~task'[i].hit => Live(bans[w][n])' = None
      BY <2>1, <3>2, <3>3 DEF Live
    <3>5. \A m \in Names \ {n} : Live(bans[w][m])' = Live(banRow[m])'
      BY <2>1, <2>3, <3>1 DEF SameBans, Live
    <3> QED BY <2>1, <2>2, <3>1, <3>2, <3>4, <3>5 DEF BansStage, Live
  <2>6. ConfigStage(i)'
    BY <1>1, <1>2, <2>1, <2>2 DEF ConfigStage, Same, ConfigOk, Loading
  <2> QED BY <2>2, <2>4, <2>5, <2>6 DEF Settles
<1>4. CASE ApplyUnban(i)
  <2>1. /\ task[i].at = "unbanned"
        /\ bans' = IF task[i].hit THEN [bans EXCEPT ![w][n] = None] ELSE bans
        /\ UNCHANGED <<keyRow, banRow, entryRow, keys, config, term>>
    BY <1>1, <1>4 DEF ApplyUnban, Unbanning, At, tables
  <2>2. task'[i] = None
    BY <1>4, <2>1, UnbanType
  <2>3. SameBans(w)'
    <3>1. /\ banRow[n] = None /\ (~task[i].hit => Live(bans[w][n]) = None)
          /\ \A m \in Names \ {n} : Live(bans[w][m]) = Live(banRow[m])
      BY <1>1, <2>1 DEF Alone, BansStage
    <3>2. /\ bans'[w][n] = IF task[i].hit THEN None ELSE bans[w][n]
          /\ \A m \in Names \ {n} : bans'[w][m] = bans[w][m]
      BY <1>1, <2>1 DEF Shape, TypeOK
    <3> QED BY <2>1, <3>1, <3>2 DEF SameBans, Live
  <2> QED BY <1>2, <2>1, <2>2, <2>3 DEF Settles, Agree, ConfigOk
<1> QED BY <1>3, <1>4

LEMMA CalmEntry ==
    ASSUME Shape, NEW i \in Requests, NEW w \in Workers, Alone(i, w), CommitAdd(i) \/ CommitPatch(i)
    PROVE  Settles(i, w)
<1> USE Distinct
<1>1. /\ task[i] # None /\ task[i].w = w /\ task[i].kind \in {"add", "patch"} /\ Agree(w)
      /\ Move(i, "clear") /\ UNCHANGED <<keyRow, banRow, keys, bans, config, term>>
  BY WriteAgrees DEF CommitAdd, CommitPatch, At, Alone, AtWorker, caches
<1>2. task'[i] # None /\ task'[i].at = "clear" /\ Same(i)
  BY <1>1, MoveFields DEF Steps, Loading
<1>3. \A e \in Entries : entryRow'[e] = None => entryRow[e] = None
  <2> DEFINE new == [by |-> i, valid |-> task[i].valid]
  <2>1. new # None
    <3>1. new \in Entry
      BY <1>1, AtType DEF Entry
    <3> QED BY <3>1, NoneAssumption
  <2>2. entryRow' = entryRow \/ entryRow' = [entryRow EXCEPT ![task[i].on] = new]
    BY DEF CommitAdd, CommitPatch
  <2> HIDE DEF new
  <2> QED BY <2>1, <2>2 DEF Shape, TypeOK
<1>4. KeysStage(i)'
  BY <1>1, <1>2 DEF KeysStage, Same
<1>5. BansStage(i)'
  BY <1>1, <1>2 DEF BansStage, Same
<1>6. ConfigStage(i)'
  BY <1>1, <1>2, <1>3 DEF ConfigStage, Same, Agree, ConfigOk, Loading
<1> QED BY <1>2, <1>4, <1>5, <1>6 DEF Settles

LEMMA CalmDrop ==
    ASSUME Shape, NEW i \in Requests, NEW w \in Workers, Alone(i, w), CommitDrop(i) \/ ApplyDrop(i)
    PROVE  Settles(i, w)
<1> USE Distinct
<1>1. /\ task[i] # None /\ task[i].w = w /\ task[i].kind = "drop" /\ task[i].on \in Entries
  BY AtType DEF CommitDrop, ApplyDrop, At, Alone, AtWorker, Placed
<1>2. CASE CommitDrop(i)
  <2>1. /\ Agree(w) /\ UNCHANGED <<keyRow, banRow, keys, bans, config, term>>
        /\ entryRow' = [entryRow EXCEPT ![task[i].on] = None]
    BY <1>2, WriteAgrees DEF CommitDrop, At, caches
  <2>2. /\ task'[i] # None /\ task'[i].at = "apply" /\ Same(i)
        /\ task'[i].hit = (entryRow[task[i].on] # None)
    <3>1. task'[i] = [task[i] EXCEPT !.at = "apply", !.hit = entryRow[task[i].on] # None] /\ task[i] \in Task
      BY <1>1, <1>2, AtType DEF CommitDrop, Shape, TypeOK
    <3>2. Stepped(i)
      BY <1>2, EntryType
    <3>3. task'[i].at = "apply" /\ task'[i].hit = (entryRow[task[i].on] # None)
      BY <3>1 DEF Task
    <3>4. task'[i] # None
      <4>1. task'[i] \in Task
        BY <3>1 DEF Task, Steps
      <4> QED BY <4>1, NoneAssumption
    <3> QED BY <3>2, <3>3, <3>4 DEF Stepped
  <2>3. KeysStage(i)'
    BY <1>1, <2>1, <2>2 DEF KeysStage, Same, Agree
  <2>4. BansStage(i)'
    BY <1>1, <2>1, <2>2 DEF BansStage, Same, Agree, SameBans, Live
  <2>5. ConfigStage(i)'
    <3>1. /\ entryRow'[task[i].on] = None
          /\ \A e \in Entries : e # task[i].on => entryRow'[e] = entryRow[e]
      BY <1>1, <2>1 DEF Shape, TypeOK
    <3>2. \A e \in Entries : e # task[i].on => ConfigOk(w, e)'
      BY <2>1, <3>1 DEF Agree, ConfigOk
    <3>3. ~task'[i].hit => config'[w][task[i].on] \in {None, Toml}
      BY <1>1, <2>1, <2>2 DEF Agree, ConfigOk
    <3> QED BY <1>1, <2>2, <3>1, <3>2, <3>3 DEF ConfigStage, Same, Loading
  <2> QED BY <2>2, <2>3, <2>4, <2>5 DEF Settles
<1>3. CASE ApplyDrop(i)
  <2>1. /\ task[i].at = "apply" /\ UNCHANGED <<keyRow, banRow, entryRow, keys, bans, term>>
        /\ End(i, IF task[i].hit THEN "ok" ELSE "refused")
        /\ config' = IF task[i].hit THEN [config EXCEPT ![w][task[i].on] = None] ELSE config
    BY <1>1, <1>3 DEF ApplyDrop, At, tables
  <2>2. task'[i] = None
    BY <1>1, <2>1, EndType
  <2>3. keys[w] = keyRow
    BY <1>1, <2>1 DEF Alone, KeysStage
  <2>4. SameBans(w)
    BY <1>1, <2>1 DEF Alone, BansStage
  <2>5. ASSUME NEW e \in Entries PROVE ConfigOk(w, e)'
    <3>1. /\ entryRow[task[i].on] = None
          /\ ~task[i].hit => config[w][task[i].on] \in {None, Toml}
          /\ ConfigOk(w, e) \/ e = task[i].on
      BY <1>1, <2>1 DEF Alone, ConfigStage, Loading
    <3>2. config'[w][e] = IF task[i].hit /\ e = task[i].on THEN None ELSE config[w][e]
      BY <2>1 DEF Shape, TypeOK
    <3> QED BY <2>1, <3>1, <3>2 DEF ConfigOk
  <2> QED BY <2>1, <2>2, <2>3, <2>4, <2>5 DEF Settles, Agree, SameBans, Live
<1> QED BY <1>2, <1>3

LEMMA CalmSelect ==
    ASSUME Shape, NEW i \in Ids, NEW w \in Workers, Alone(i, w),
           SelectKeys(i) \/ SelectBans(i) \/ SelectEntries(i)
    PROVE  Settles(i, w)
<1>1. /\ task[i] # None /\ task[i].w = w /\ KeysStage(i) /\ BansStage(i) /\ ConfigStage(i)
  BY DEF Alone, AtWorker
<1>2. /\ task'[i] # None /\ Same(i) /\ task'[i].linked = task[i].linked
      /\ UNCHANGED <<keyRow, banRow, entryRow, keys, bans, config, term>>
      /\ \/ task[i].at = "keys" /\ task'[i].at = "fillkeys" /\ task'[i].rows = keyRow
         \/ task[i].at = "bans" /\ task'[i].at = "fillbans" /\ task'[i].banned = Fresh
         \/ task[i].at = "entries" /\ task'[i].at = "fillentries" /\ task'[i].defs = entryRow
  BY SelectType
<1>3. task[i].kind \in {"add", "patch", "boot"}
  BY <1>2, <1>1, LoadingType DEF Loading
<1>4. KeysStage(i)'
  BY <1>1, <1>2, <1>3 DEF KeysStage, Same
<1>5. BansStage(i)'
  BY <1>1, <1>2 DEF BansStage, Same, SameBans, Fresh, Live
<1>6. ConfigStage(i)'
  BY <1>1, <1>2 DEF ConfigStage, Same, ConfigOk, Loading
<1> QED BY <1>4, <1>5, <1>6, <1>2 DEF Settles

LEMMA CalmFill ==
    ASSUME Shape, NEW i \in Ids, NEW w \in Workers, Alone(i, w), ClearKeys(i) \/ FillKeys(i) \/ FillBans(i)
    PROVE  Settles(i, w)
<1>1. /\ task[i] # None /\ task[i].w = w /\ KeysStage(i) /\ BansStage(i) /\ ConfigStage(i)
  BY DEF Alone, AtWorker
<1>2. /\ task'[i] # None /\ Same(i) /\ UNCHANGED <<keyRow, banRow, entryRow, config, term>>
      /\ task[i].at \in {"clear", "fillkeys", "fillbans"}
      /\ task'[i].at = CASE task[i].at = "clear" -> "keys"
                         [] task[i].at = "fillkeys" -> "bans"
                         [] task[i].at = "fillbans" -> "entries"
      /\ task[i].at = "clear" => keys' = [keys EXCEPT ![w] = NoKeys] /\ bans' = bans
      /\ task[i].at = "fillkeys" => FillKeys(i) /\ bans' = [bans EXCEPT ![w] = NoBans]
      /\ task[i].at = "fillbans" => /\ keys' = keys /\ task'[i].linked
                                    /\ bans' = [bans EXCEPT ![w] = Refilled(i)]
  BY <1>1, FillType
<1>3. task[i].kind \in {"add", "patch", "boot"}
  BY <1>1, <1>2, LoadingType DEF Loading
<1>4. task[i].at = "clear" => keys'[w] = NoKeys
  BY <1>2 DEF Shape, TypeOK
<1>5. ASSUME task[i].at = "fillkeys" PROVE keys'[w] = keyRow /\ bans'[w] = NoBans
  <2>1. keys' = [keys EXCEPT ![w] = [n \in Names |-> IF task[i].rows[n] # None THEN task[i].rows[n] ELSE @[n]]]
    BY <1>1, <1>2, <1>5 DEF FillKeys
  <2>2. keys'[w] = [n \in Names |-> IF task[i].rows[n] # None THEN task[i].rows[n] ELSE keys[w][n]]
    BY <2>1 DEF Shape, TypeOK
  <2>3. keys[w] = NoKeys /\ task[i].rows = keyRow
    BY <1>1, <1>5 DEF KeysStage
  <2>4. keyRow \in [Names -> Key \cup {None}]
    BY DEF Shape, TypeOK
  <2> QED BY <1>2, <1>5, <2>2, <2>3, <2>4 DEF NoKeys, Shape, TypeOK
<1>6. ASSUME task[i].at = "fillbans" PROVE keys'[w] = keyRow /\ SameBans(w)'
  <2>1. /\ keys[w] = keyRow /\ bans[w] = NoBans
        /\ \A n \in Names : Live(task[i].banned[n]) = Live(banRow[n])
    BY <1>1, <1>6 DEF KeysStage, BansStage
  <2>2. bans'[w] = Refilled(i)
    BY <1>2, <1>6 DEF Shape, TypeOK
  <2>3. \A n \in Names : bans'[w][n] = task[i].banned[n]
    BY <1>1, <2>1, <2>2 DEF Refilled, NoBans
  <2> QED BY <1>2, <1>6, <2>1, <2>3 DEF SameBans, Live
<1>7. KeysStage(i)'
  BY <1>1, <1>2, <1>3, <1>4, <1>5, <1>6 DEF KeysStage, Same
<1>8. BansStage(i)'
  BY <1>1, <1>2, <1>5, <1>6 DEF BansStage, Same, SameBans, Live
<1>9. ConfigStage(i)'
  BY <1>1, <1>2 DEF ConfigStage, Same, Loading
<1> QED BY <1>2, <1>7, <1>8, <1>9 DEF Settles

LEMMA CalmFillEntries ==
    ASSUME Shape, NEW i \in Ids, NEW w \in Workers, Alone(i, w), FillEntries(i)
    PROVE  Settles(i, w)
<1>1. /\ task[i] # None /\ task[i].w = w /\ KeysStage(i) /\ BansStage(i) /\ ConfigStage(i)
      /\ task[i].at = "fillentries"
  BY DEF Alone, AtWorker, FillEntries
<1>2. task'[i] = None /\ UNCHANGED <<keyRow, banRow, entryRow, keys, bans, term>>
  BY FillEntriesType
<1>3. keys[w] = keyRow
  BY <1>1 DEF KeysStage
<1>4. SameBans(w)
  BY <1>1 DEF BansStage
<1>5. /\ task[i].defs = entryRow /\ task[i].linked
      /\ \A e \in Entries : entryRow[e] = None => config[w][e] \in {None, Toml}
  BY <1>1 DEF ConfigStage, Loading
<1>6. ASSUME NEW e \in Entries PROVE ConfigOk(w, e)'
  <2>1. config' = [config EXCEPT ![w] = [d \in Entries |-> IF d \in Stored(i) THEN task[i].defs[d] ELSE @[d]]]
    BY <1>1, <1>5 DEF FillEntries, Inject
  <2>2. config'[w] = [d \in Entries |-> IF d \in Stored(i) THEN task[i].defs[d] ELSE config[w][d]]
    BY <2>1 DEF Shape, TypeOK
  <2>3. config'[w][e] = IF entryRow[e] # None THEN entryRow[e] ELSE config[w][e]
    BY <1>5, <2>2 DEF Stored
  <2> QED BY <1>2, <1>5, <2>3 DEF ConfigOk
<1> QED BY <1>2, <1>3, <1>4, <1>6 DEF Settles, Agree, SameBans, Live

\* A step of the only coroutine of a worker that stays calm.
LEMMA CalmWorking ==
    ASSUME Shape, NEW i \in Ids, Working(i), NEW w \in Workers, AtWorker(i, w), CalmAt(w), calm'[w]
    PROVE  CalmAt(w)'
<1> USE Distinct
<1>1. Alone(i, w)
  BY DEF CalmAt, Alone
<1>2. ~(FillRaises(i) \/ Fail(i))
  <2>1. calm' = [calm EXCEPT ![w] = FALSE] => ~calm'[w]
    BY DEF Shape, TypeOK
  <2>2. Fail(i) => calm' = [calm EXCEPT ![w] = FALSE]
    BY FailType DEF AtWorker
  <2>3. FillRaises(i) => calm' = [calm EXCEPT ![w] = FALSE]
    BY DEF FillRaises, AtWorker
  <2> QED BY <2>1, <2>2, <2>3
<1>3. Settles(i, w)
  BY <1>1, <1>2, CalmCreate, CalmUpdate, CalmRevoke, CalmBan, CalmUnban, CalmEntry, CalmDrop, CalmSelect, CalmFill,
     CalmFillEntries DEF Working, Requesting, Load
<1>4. Stepped(i)
  BY WorkingType
<1>5. ASSUME NEW j \in Ids, AtWorker(j, w)' PROVE j = i
  <2>1. CASE j # i
    <3>1. task[j] # None /\ Same(j)
      BY <1>4, <1>5, <2>1, KeptType DEF AtWorker, Stepped
    <3>2. AtWorker(j, w)
      BY <1>5, <3>1 DEF AtWorker, Same
    <3> QED BY <2>1, <3>2 DEF CalmAt
  <2> QED BY <2>1
<1>6. task'[i] # None => AtWorker(i, w)'
  BY <1>4 DEF Stepped, Same, AtWorker
<1>7. ASSUME NEW j \in Ids, AtWorker(j, w)' PROVE KeysStage(j)' /\ BansStage(j)' /\ ConfigStage(j)'
  <2>1. j = i /\ task'[i] # None
    BY <1>5, <1>7 DEF AtWorker
  <2> QED BY <1>3, <2>1 DEF Settles
<1>8. ASSUME ~Busy(w)' PROVE Agree(w)'
  <2>1. task'[i] = None
    BY <1>6, <1>8 DEF Busy, AtWorker
  <2> QED BY <1>3, <2>1 DEF Settles
<1> QED BY <1>5, <1>7, <1>8 DEF CalmAt

\* A request that begins at a calm worker is the only one there, and finds it in agreement.
LEMMA CalmBegins ==
    ASSUME Shape, Told, [Next]_vars, NEW r \in Requests, NEW v \in Workers, Beginning(r, v),
           NEW w \in Workers, calm[w] => CalmAt(w), calm'[w]
    PROVE  CalmAt(w)'
<1> USE Distinct
<1>1. PICK A, kind, n, rec, valid : BeginsWith(A, r, kind, v, n, rec, valid)
  BY BeginningStep
<1>2. UNCHANGED <<keyRow, banRow, entryRow, keys, bans, config, up, outcome>> /\ up[v]
  BY BeginningStep
<1>3. /\ task[r] = None /\ \A j \in Ids : j # r => task'[j] = task[j]
      /\ task'[r] # None /\ task'[r].w = v /\ task'[r].at = FirstStep(kind) /\ task'[r].linked
      /\ calm' = [calm EXCEPT ![v] = @ /\ ~Busy(v)]
  BY <1>1, <1>2, BeginType
<1>4. task'[r].w = v /\ task'[r].at \in {"write", "ban", "unban"} /\ task'[r].linked
  BY <1>3 DEF FirstStep
<1>5. CASE w # v
  <2>1. Untouched(w)
    BY <1>2, <1>3, <1>4, <1>5 DEF Untouched, AtWorker, Shape, TypeOK
  <2> QED BY <2>1, UntouchedStep DEF Untouched
<1>6. CASE w = v
  <2>1. calm[w] /\ ~Busy(w)
    BY <1>3, <1>6 DEF Shape, TypeOK
  <2>2. Agree(w)
    BY <1>2, <1>6, <2>1 DEF CalmAt
  <2>3. ASSUME NEW j \in Ids, AtWorker(j, w)' PROVE j = r
    BY <1>3, <2>1, <2>3 DEF AtWorker, Busy
  <2>4. AtWorker(r, w)'
    BY <1>3, <1>4, <1>6 DEF AtWorker
  <2>5. KeysStage(r)'
    BY <1>2, <1>4, <1>6, <2>2 DEF KeysStage, Agree
  <2>6. BansStage(r)'
    <3>1. SameBans(w)'
      BY <1>2, <2>2, SameBansStep DEF Agree
    <3> QED BY <1>4, <1>6, <3>1 DEF BansStage, SameBans, Live
  <2>7. ConfigStage(r)'
    BY <1>2, <1>4, <1>6, <2>2 DEF ConfigStage, Agree, ConfigOk, Loading
  <2>8. Busy(w)'
    BY <2>4 DEF Busy, AtWorker
  <2> QED BY <2>3, <2>5, <2>6, <2>7, <2>8 DEF CalmAt
<1> QED BY <1>5, <1>6

\* So is the removal of an expired ban.
LEMMA CalmSweeps ==
    ASSUME Shape, Told, [Next]_vars, NEW v \in Workers, NEW n \in Names, NEW i \in Sweepers,
           CheckExpired(v, n, i), NEW w \in Workers, calm[w] => CalmAt(w), calm'[w]
    PROVE  CalmAt(w)'
<1> USE Distinct
<1>1. /\ UNCHANGED <<keyRow, banRow, entryRow, keys, config, up, term>>
      /\ up[v] /\ Live(bans[v][n]) = None /\ bans' = [bans EXCEPT ![v][n] = None]
      /\ calm' = [calm EXCEPT ![v] = @ /\ ~Busy(v)]
      /\ task[i] = None /\ \A j \in Ids : j # i => task'[j] = task[j]
      /\ task'[i] # None /\ task'[i].kind = "sweep" /\ task'[i].w = v /\ task'[i].at = "unban"
  BY SweepType
<1>2. CASE w # v
  <2>1. Untouched(w)
    BY <1>1, <1>2 DEF Untouched, AtWorker, Shape, TypeOK
  <2> QED BY <2>1, UntouchedStep DEF Untouched
<1>3. CASE w = v
  <2>1. calm[w] /\ ~Busy(w)
    BY <1>1, <1>3 DEF Shape, TypeOK
  <2>2. Agree(w)
    BY <1>1, <1>3, <2>1 DEF CalmAt
  <2>3. ASSUME NEW j \in Ids, AtWorker(j, w)' PROVE j = i
    BY <1>1, <2>1, <2>3 DEF AtWorker, Busy
  <2>4. AtWorker(i, w)'
    BY <1>1, <1>3 DEF AtWorker
  <2>5. KeysStage(i)'
    BY <1>1, <1>3, <2>2 DEF KeysStage, Agree
  <2>6. BansStage(i)'
    <3>1. bans'[w][n] = None /\ \A m \in Names \ {n} : bans'[w][m] = bans[w][m]
      BY <1>1, <1>3 DEF Shape, TypeOK
    <3>2. SameBans(w)'
      BY <1>1, <1>3, <2>2, <3>1 DEF Agree, SameBans, Live
    <3> QED BY <1>1, <1>3, <3>2 DEF BansStage, SameBans, Live
  <2>7. ConfigStage(i)'
    BY <1>1, <1>3, <2>2 DEF ConfigStage, Agree, ConfigOk, Loading
  <2>8. Busy(w)'
    BY <2>4 DEF Busy, AtWorker
  <2> QED BY <2>3, <2>5, <2>6, <2>7, <2>8 DEF CalmAt
<1> QED BY <1>2, <1>3

LEMMA CalmStarts ==
    ASSUME Shape, NEW w \in Workers, Start(w)
    PROVE  CalmAt(w)'
<1> USE Distinct
<1>1. /\ ~up[w] /\ up' = up /\ entryRow' = entryRow
      /\ \A i \in Ids : ~AtWorker(i, w) /\ (i # w => task'[i] = task[i])
      /\ task'[w] # None /\ task'[w].kind = "boot" /\ task'[w].w = w /\ task'[w].at = "clear"
      /\ config' = [config EXCEPT ![w] = TomlConfig]
  BY StartType
<1>2. \A i \in Ids : AtWorker(i, w)' => i = w
  BY <1>1 DEF AtWorker
<1>3. KeysStage(w)' /\ BansStage(w)'
  BY <1>1 DEF KeysStage, BansStage
<1>4. \A e \in Entries : config'[w][e] \in {None, Toml}
  BY <1>1 DEF TomlConfig, Shape, TypeOK
<1>5. ConfigStage(w)'
  BY <1>1, <1>4 DEF ConfigStage, Loading
<1> QED BY <1>1, <1>2, <1>3, <1>5 DEF CalmAt

LEMMA CalmNext == ASSUME Shape, Told, CalmInv, [Next]_vars PROVE CalmInv'
<1> SUFFICES ASSUME NEW w \in Workers, calm'[w] PROVE CalmAt(w)'
  BY DEF CalmInv
<1> USE Distinct
<1>1. calm[w] => CalmAt(w)
  BY DEF CalmInv
<1>2. ASSUME Untouched(w) PROVE CalmAt(w)'
  BY <1>1, <1>2, UntouchedStep DEF Untouched
<1>3. ASSUME NEW r \in Requests, NEW v \in Workers, Beginning(r, v) PROVE CalmAt(w)'
  BY <1>1, <1>3, CalmBegins
<1>4. ASSUME NEW i \in Ids, Working(i) PROVE CalmAt(w)'
  <2>1. CASE task[i].w # w
    BY <1>2, <1>4, <2>1, ElsewhereStep
  <2>2. CASE task[i].w = w
    <3>1. AtWorker(i, w)
      BY <1>4, <2>2, WorkingType DEF Stepped, AtWorker
    <3>2. calm[w]
      <4>1. \/ calm' = calm
            \/ Wrote(w)
            \/ calm' = [calm EXCEPT ![w] = FALSE]
        BY <1>4, <2>2, FillType, SelectType, FillEntriesType, FailType
           DEF Working, Requesting, Load, CommitUnban, ApplyUnban, CommitCreate, ApplyCreate, CommitUpdate, ApplyUpdate, CommitRevoke, ApplyRevoke,
               CommitBan, ApplyBan, CommitAdd, CommitPatch, CommitDrop, ApplyDrop, history
      <4> QED BY <4>1 DEF Wrote, Shape, TypeOK
    <3> QED BY <1>1, <1>4, <3>1, <3>2, CalmWorking
  <2> QED BY <2>1, <2>2
<1>5. ASSUME NEW v \in Workers, HotReload(v) PROVE CalmAt(w)'
  <2>1. v # w
    BY <1>5, HotReloadType DEF Shape, TypeOK
  <2>2. /\ UNCHANGED <<keyRow, banRow, entryRow, keys, bans, up, term>> /\ calm' = [calm EXCEPT ![v] = FALSE]
        /\ config'[w] = config[w]
        /\ \A i \in Ids : /\ AtWorker(i, w) => task'[i] = task[i]
                          /\ \/ task'[i] = task[i]
                             \/ task[i] # None /\ task'[i] = Freed(task[i])
    BY <1>5, <2>1, HotReloadType
  <2>3. \A i \in Ids : AtWorker(i, w)' => AtWorker(i, w)
    BY <2>2, AtType, FreedType DEF AtWorker
  <2>4. Untouched(w)
    BY <2>1, <2>2, <2>3 DEF Untouched, Shape, TypeOK
  <2> QED BY <1>2, <2>4
<1>6. ASSUME NEW v \in Workers, Crash(v) PROVE CalmAt(w)'
  <2>1. CASE v = w
    <3>1. ~up'[w] /\ \A i \in Ids : task'[i] = IF AtWorker(i, w) THEN None ELSE task[i]
      BY <1>6, <2>1, CrashType DEF Shape, TypeOK
    <3>2. \A i \in Ids : ~AtWorker(i, w)'
      BY <3>1 DEF AtWorker
    <3> QED BY <3>1, <3>2 DEF CalmAt
  <2>2. CASE v # w
    <3>1. /\ UNCHANGED <<keyRow, banRow, entryRow>>
          /\ keys'[w] = keys[w] /\ bans'[w] = bans[w] /\ config'[w] = config[w]
          /\ up'[w] = up[w] /\ calm'[w] = calm[w]
      <4>1. /\ UNCHANGED <<keyRow, banRow, entryRow>> /\ up' = [up EXCEPT ![v] = FALSE] /\ calm' = calm
            /\ keys' = [keys EXCEPT ![v] = NoKeys] /\ bans' = [bans EXCEPT ![v] = NoBans]
            /\ config' = [config EXCEPT ![v] = TomlConfig]
        BY <1>6, CrashType
      <4> QED BY <2>2, <4>1 DEF Shape, TypeOK
    <3>2. \A i \in Ids : AtWorker(i, w) \/ AtWorker(i, w)' => task'[i] = task[i]
      BY <1>6, <2>2, CrashType DEF AtWorker
    <3>3. Untouched(w)
      BY <3>1, <3>2 DEF Untouched
    <3> QED BY <1>2, <3>3
  <2> QED BY <2>1, <2>2
<1>7. ASSUME NEW v \in Workers, Start(v) PROVE CalmAt(w)'
  <2>1. CASE v = w
    BY <1>7, <2>1, CalmStarts
  <2>2. CASE v # w
    <3>1. /\ UNCHANGED <<keyRow, banRow, entryRow>>
          /\ keys'[w] = keys[w] /\ bans'[w] = bans[w] /\ config'[w] = config[w]
          /\ up'[w] = up[w] /\ calm'[w] = calm[w]
      <4>1. /\ UNCHANGED <<keyRow, banRow, entryRow>> /\ up' = up /\ calm' = [calm EXCEPT ![v] = TRUE]
            /\ keys' = [keys EXCEPT ![v] = NoKeys] /\ bans' = [bans EXCEPT ![v] = NoBans]
            /\ config' = [config EXCEPT ![v] = TomlConfig]
        BY <1>7, StartType
      <4> QED BY <2>2, <4>1 DEF Shape, TypeOK
    <3>2. \A i \in Ids : AtWorker(i, w) \/ AtWorker(i, w)' => task'[i] = task[i]
      BY <1>7, <2>2, StartType, AtType DEF AtWorker, Placed
    <3>3. Untouched(w)
      BY <3>1, <3>2 DEF Untouched
    <3> QED BY <1>2, <3>3
  <2> QED BY <2>1, <2>2
<1>8. UNCHANGED vars \/ Expiring => Untouched(w)
  BY ExpireType DEF vars, tables, caches, history, Untouched, AtWorker
<1>9. ASSUME Sweeping PROVE CalmAt(w)'
  BY <1>1, <1>9, CalmSweeps DEF Sweeping
<1> QED BY <1>2, <1>3, <1>4, <1>5, <1>6, <1>7, <1>8, <1>9, NextCases

\* A worker whose coroutines never overlapped, while no other worker wrote, acts on what the
\* tables say: each of its operations, run alone, takes agreement to agreement.
THEOREM CalmWorkersAgree == Spec => []CalmAgrees
<1>1. Init => CalmInv
  <2> SUFFICES ASSUME Init, NEW w \in Workers PROVE CalmAt(w)
    BY DEF CalmInv
  <2>1. \A i \in Ids : ~AtWorker(i, w)
    BY DEF Init, AtWorker
  <2>2. keys[w] = keyRow /\ SameBans(w)
    BY DEF Init, SameBans
  <2>3. ASSUME NEW e \in Entries PROVE ConfigOk(w, e)
    <3>1. config[w][e] = IF entryRow[e] # None THEN entryRow[e] ELSE TomlConfig[e]
      BY DEF Init
    <3>2. TomlConfig[e] \in {Toml, None}
      BY DEF TomlConfig
    <3> QED BY <3>1, <3>2 DEF ConfigOk
  <2> QED BY <2>1, <2>2, <2>3 DEF CalmAt, Agree
<1>2. CalmInv => CalmAgrees
  BY DEF CalmInv, CalmAt, Agree, SameBans, ConfigOk, CalmAgrees
<1> QED BY <1>1, <1>2, CalmNext, InitType, NextType, InitTold, ToldNext, PTL DEF Spec
=============================================================================
