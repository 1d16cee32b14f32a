--------------------------- MODULE DatabaseProofs ---------------------------
(***************************************************************************)
(* That the engine of a request is the one of the definition it was        *)
(* checked against, that read-only keys change nothing, that what is       *)
(* answered as written is committed, and that rows come from the database  *)
(* that was asked for; for any number of requests, databases and rows.     *)
(***************************************************************************)
EXTENDS Database, TLAPS

-----------------------------------------------------------------------------
(* Types.                                                                  *)

\* A task is of a request that was asked.
Begun == \A r \in Requests : task[r] # None => asked[r] # None

\* The steps of a client's request.
Serving == {"lookup", "execute", "store"}

\* A task waits for something of the kind of its request, on an engine unless it is to remove one.
Placed ==
    \A r \in Requests : task[r] # None =>
        /\ task[r].at \in {"lookup", "store"} => asked[r].stmt \in Cached
        /\ task[r].at \in {"read", "apply", "remove"} => asked[r].stmt = "none"
        /\ task[r].at \in Serving => task[r].engine \in Stores

Shape == TypeOK /\ Begun /\ Placed

LEMMA InitType == Init => Shape
<1> SUFFICES ASSUME Init PROVE Shape
  OBVIOUS
<1>1. row \in [DBs -> Stores \cup {None}] /\ config \in [DBs -> Stores \cup {None}]
  BY DatabaseAssumption DEF Init, Merged
<1>r. read \in [Requests -> [DBs -> Stores \cup {None}]] /\ engines \in [DBs -> Stores \cup {None}]
  BY DEF Init, Nothing
<1>2. named \in [DBs -> SUBSET Stores]
  BY <1>1 DEF Init
<1>3. TypeOK
  BY <1>1, <1>2, <1>r DEF Init, TypeOK
<1> QED BY <1>3 DEF Init, Shape, Begun, Placed

\* What Obtain makes of a request.
LEMMA ObtainType ==
    ASSUME TypeOK, NEW r \in Requests, NEW q \in Ask, NEW engine \in Stores, Obtain(r, q, engine)
    PROVE  /\ task' \in [Requests -> Task \cup {None}]
           /\ outcome' \in [Requests -> {"none", "ok", "refused", "failed"}]
           /\ \A s \in Requests : s # r => task'[s] = task[s] /\ outcome'[s] = outcome[s]
           /\ \/ task'[r] = None /\ outcome'[r] \in {"refused", "failed"}
              \/ /\ Valid(q.stmt, q.mode, config[q.d])
                 /\ outcome'[r] = outcome[r]
                 /\ task'[r] = [at |-> IF q.stmt \in Cached THEN "lookup" ELSE "execute",
                                engine |-> engine, i |-> 1]
<1> DEFINE new == [at |-> IF q.stmt \in Cached THEN "lookup" ELSE "execute", engine |-> engine, i |-> 1]
<1>1. new \in Task
  BY DatabaseAssumption DEF Task
<1> HIDE DEF new
<1>2. \/ End(r, "failed") \/ End(r, "refused")
      \/ /\ Valid(q.stmt, q.mode, config[q.d])
         /\ task' = [task EXCEPT ![r] = new] /\ outcome' = outcome
  BY DEF Obtain, new
<1>3. CASE End(r, "failed") \/ End(r, "refused")
  BY <1>3 DEF TypeOK, End
<1>4. CASE /\ Valid(q.stmt, q.mode, config[q.d])
           /\ task' = [task EXCEPT ![r] = new] /\ outcome' = outcome
  BY <1>1, <1>4 DEF TypeOK, new
<1> QED BY <1>2, <1>3, <1>4

\* A request that begins is refused, or gets an engine: the one that is there, or a new one of
\* the definition.
LEMMA BeginStep ==
    ASSUME TypeOK, NEW r \in Requests, NEW kind \in {"query", "rows", "tables", "write"}, NEW d \in DBs,
           NEW stmt \in Statements \cup {"tables"}, NEW mode \in Modes, NEW n \in 1..MaxRows,
           Begin(r, kind, d, stmt, mode, n)
    PROVE  /\ asked[r] = None
           /\ asked' = [asked EXCEPT
                ![r] = [kind |-> kind, d |-> d, stmt |-> stmt, mode |-> mode, n |-> n]]
           /\ asked' \in [Requests -> Ask \cup {None}]
           /\ engines' \in [DBs -> Stores \cup {None}]
           /\ \A e \in DBs : engines'[e] = engines[e] \/ (e = d /\ engines'[e] = config[e])
           /\ task' \in [Requests -> Task \cup {None}]
           /\ outcome' \in [Requests -> {"none", "ok", "refused", "failed"}]
           /\ \A s \in Requests : s # r => task'[s] = task[s] /\ outcome'[s] = outcome[s]
           /\ \/ task'[r] = None /\ outcome'[r] \in {"refused", "failed"}
              \/ /\ engines'[d] \in Stores
                 /\ Valid(stmt, mode, config[d])
                 /\ outcome'[r] = outcome[r]
                 /\ task'[r] = [at |-> IF stmt \in Cached THEN "lookup" ELSE "execute",
                                engine |-> engines'[d], i |-> 1]
<1> DEFINE q == [kind |-> kind, d |-> d, stmt |-> stmt, mode |-> mode, n |-> n]
<1>1. q \in Ask /\ q.d = d /\ q.stmt = stmt /\ q.mode = mode
  BY DEF Ask
<1>2. asked[r] = None /\ asked' = [asked EXCEPT ![r] = q]
  BY DEF Begin
<1>3. \/ engines[d] # None /\ Obtain(r, q, engines[d]) /\ engines' = engines
      \/ End(r, "refused") /\ engines' = engines
      \/ /\ engines[d] = None /\ config[d] # None
         /\ Obtain(r, q, config[d])
         /\ engines' = [engines EXCEPT ![d] = config[d]]
      \/ End(r, "failed") /\ engines' = engines
  BY DEF Begin
<1> HIDE DEF q
<1>4. asked' \in [Requests -> Ask \cup {None}]
  BY <1>1, <1>2 DEF TypeOK
<1>5. CASE engines[d] # None /\ Obtain(r, q, engines[d]) /\ engines' = engines
  <2>1. engines[d] \in Stores /\ engines' \in [DBs -> Stores \cup {None}]
    BY <1>5 DEF TypeOK
  <2> QED BY <1>1, <1>2, <1>4, <1>5, <2>1, ObtainType DEF q
<1>6. CASE (End(r, "refused") \/ End(r, "failed")) /\ engines' = engines
  BY <1>2, <1>4, <1>6 DEF TypeOK, End, q
<1>7. CASE /\ engines[d] = None /\ config[d] # None
           /\ Obtain(r, q, config[d])
           /\ engines' = [engines EXCEPT ![d] = config[d]]
  <2>1. config[d] \in Stores /\ engines' \in [DBs -> Stores \cup {None}]
    BY <1>7 DEF TypeOK
  <2>2. engines'[d] = config[d] /\ \A e \in DBs : e # d => engines'[e] = engines[e]
    BY <1>7 DEF TypeOK
  <2> QED BY <1>1, <1>2, <1>4, <1>7, <2>1, <2>2, ObtainType DEF q
<1> QED BY <1>3, <1>5, <1>6, <1>7

LEMMA BeginType ==
    ASSUME Shape, NEW r \in Requests, NEW kind \in {"query", "rows", "tables", "write"}, NEW d \in DBs,
           NEW stmt \in Statements \cup {"tables"}, NEW mode \in Modes, NEW n \in 1..MaxRows,
           Begin(r, kind, d, stmt, mode, n)
    PROVE  Shape'
<1>1. UNCHANGED <<row, read, config, cache, answer, events, data, stale, named>> /\ loose' \subseteq Requests
  BY DEF Shape, TypeOK, Begin
<1>2. /\ asked' \in [Requests -> Ask \cup {None}]
      /\ engines' \in [DBs -> Stores \cup {None}]
      /\ task' \in [Requests -> Task \cup {None}]
      /\ outcome' \in [Requests -> {"none", "ok", "refused", "failed"}]
  BY BeginStep DEF Shape
<1>3. TypeOK'
  BY <1>1, <1>2 DEF Shape, TypeOK
<1>q. asked' = [asked EXCEPT ![r] = [kind |-> kind, d |-> d, stmt |-> stmt, mode |-> mode, n |-> n]]
  BY DEF Begin
<1>4. \A s \in Requests : s # r => task'[s] = task[s] /\ asked'[s] = asked[s]
  <2> SUFFICES ASSUME NEW s \in Requests, s # r PROVE task'[s] = task[s] /\ asked'[s] = asked[s]
    OBVIOUS
  <2>1. task'[s] = task[s] /\ outcome'[s] = outcome[s]
    <3>1. TypeOK
      BY DEF Shape
    <3> QED BY <3>1, BeginStep, ZenonT(60)
  <2> QED BY <1>q, <2>1 DEF Shape, TypeOK
<1>5. asked'[r] \in Ask /\ asked'[r].stmt = stmt
  <2>1. asked'[r] = [kind |-> kind, d |-> d, stmt |-> stmt, mode |-> mode, n |-> n]
    BY <1>q DEF Shape, TypeOK
  <2> QED BY <2>1 DEF Ask
<1>6. asked'[r] # None
  BY <1>5, NoneAssumption
<1>7. task'[r] = None \/ /\ task'[r].at = IF stmt \in Cached THEN "lookup" ELSE "execute"
                         /\ task'[r].engine \in Stores
  <2>1. \/ task'[r] = None
        \/ /\ engines'[d] \in Stores
           /\ task'[r] = [at |-> IF stmt \in Cached THEN "lookup" ELSE "execute",
                          engine |-> engines'[d], i |-> 1]
    BY BeginStep DEF Shape
  <2> QED BY <2>1
<1>8. Begun'
  BY <1>4, <1>6 DEF Shape, Begun
<1>9. Placed'
  BY <1>4, <1>5, <1>7 DEF Shape, Placed, Serving
<1> QED BY <1>3, <1>8, <1>9 DEF Shape

\* The steps of a request that runs.
LEMMA RunStep ==
    ASSUME Shape, NEW r \in Requests, Run(r)
    PROVE  /\ UNCHANGED <<row, read, config, asked, loose, named>>
           /\ task[r] # None /\ task[r] \in Task /\ asked[r] \in Ask
           /\ task' \in [Requests -> Task \cup {None}]
           /\ outcome' \in [Requests -> {"none", "ok", "refused", "failed"}]
           /\ \A s \in Requests : s # r => /\ task'[s] = task[s] /\ outcome'[s] = outcome[s]
                                           /\ answer'[s] = answer[s] /\ (s \in events' <=> s \in events)
           /\ \/ task'[r] = None
              \/ task[r].at = "lookup" /\ task'[r] = [task[r] EXCEPT !.at = "execute"]
              \/ /\ task[r].at = "execute" /\ asked[r].stmt \in Cached
                 /\ task'[r] = [task[r] EXCEPT !.at = "store"]
              \/ task[r].at = "execute" /\ task'[r] = [task[r] EXCEPT !.i = @ + 1]
<1>1. task[r] # None /\ task[r] \in Task /\ asked[r] \in Ask
  BY DEF Shape, TypeOK, Begun, Run, Lookup, ExecuteRead, Store, ExecuteWrite, ExecuteFails, RemoveEngine, At
<1>2. CASE Lookup(r)
  <2>1. \/ End(r, "ok") /\ \E hit \in Stores \cup {None} : answer' = [answer EXCEPT ![r] = hit]
        \/ UNCHANGED <<answer, outcome>> /\ task' = [task EXCEPT ![r].at = "execute"]
    BY <1>1, <1>2 DEF Shape, TypeOK, Lookup, Placed, Serving, At, Ask
  <2>2. task[r].at = "lookup" /\ UNCHANGED <<row, read, config, asked, loose, named, events>>
    BY <1>2 DEF Lookup, At, history
  <2>3. CASE End(r, "ok") /\ \E hit \in Stores \cup {None} : answer' = [answer EXCEPT ![r] = hit]
    BY <1>1, <2>2, <2>3 DEF Shape, TypeOK, End
  <2>4. CASE UNCHANGED <<answer, outcome>> /\ task' = [task EXCEPT ![r].at = "execute"]
    BY <1>1, <2>2, <2>4 DEF Shape, TypeOK, Task
  <2> QED BY <2>1, <2>3, <2>4
<1>3. CASE ExecuteRead(r)
  BY <1>1, <1>3 DEF Shape, TypeOK, ExecuteRead, At, Task, history
<1>4. CASE Store(r)
  BY <1>1, <1>4 DEF Shape, TypeOK, Store, End, history
<1>5. CASE ExecuteWrite(r)
  <2>1. asked[r].n \in 1..MaxRows /\ task[r].i \in 1..MaxRows
    BY <1>1 DEF Ask, Task
  <2>2. \/ task[r].i < asked[r].n /\ task' = [task EXCEPT ![r].i = @ + 1] /\ UNCHANGED <<events, outcome>>
        \/ events' = events \cup {r} /\ End(r, "ok")
    BY <1>5 DEF ExecuteWrite
  <2>3. task[r].at = "execute" /\ UNCHANGED <<row, read, config, asked, loose, named, answer>>
    BY <1>5 DEF ExecuteWrite, At, history
  <2>4. CASE events' = events \cup {r} /\ End(r, "ok")
    BY <1>1, <2>3, <2>4 DEF Shape, TypeOK, End
  <2>5. CASE task[r].i < asked[r].n /\ task' = [task EXCEPT ![r].i = @ + 1] /\ UNCHANGED <<events, outcome>>
    <3>1. task[r].i + 1 \in 1..MaxRows
      BY <2>1, <2>5, DatabaseAssumption
    <3>2. [task[r] EXCEPT !.i = @ + 1] \in Task
      BY <1>1, <3>1 DEF Task
    <3>3. task' = [task EXCEPT ![r] = [task[r] EXCEPT !.i = @ + 1]]
      BY <2>5
    <3> HIDE DEF Task
    <3> QED BY <1>1, <2>3, <2>5, <3>2, <3>3 DEF Shape, TypeOK
  <2> QED BY <2>2, <2>4, <2>5
<1>6. CASE ExecuteFails(r)
  BY <1>1, <1>6 DEF Shape, TypeOK, ExecuteFails, End, history
<1>7. CASE RemoveEngine(r)
  BY <1>1, <1>7 DEF Shape, TypeOK, RemoveEngine, End
<1> QED BY <1>2, <1>3, <1>4, <1>5, <1>6, <1>7 DEF Run

\* What a statement commits is of its request and its row.
LEMMA CommitType ==
    ASSUME Shape, NEW r \in Requests, At(r, "execute"), Commit(r)
    PROVE  /\ data' \in [Stores -> SUBSET (Requests \X (1..MaxRows))]
           /\ \A s \in Stores :
                \/ ~Commits(asked[r].stmt) /\ data'[s] = data[s]
                \/ /\ MayStay(asked[r].stmt)
                   /\ data'[s] = IF s = task[r].engine
                                 THEN data[s] \cup {<<r, task[r].i>>} ELSE data[s]
<1>1. task[r] \in Task /\ task[r].engine \in Stores
  BY DEF Shape, TypeOK, Placed, Serving, At
<1>2. <<r, task[r].i>> \in Requests \X (1..MaxRows)
  BY <1>1 DEF Task
<1>3. data' = data \/ data' = [data EXCEPT ![task[r].engine] = @ \cup {<<r, task[r].i>>}]
  BY DEF Commit
<1>4. data' \in [Stores -> SUBSET (Requests \X (1..MaxRows))]
  BY <1>1, <1>2, <1>3 DEF Shape, TypeOK
<1>5. ASSUME NEW s \in Stores
      PROVE  \/ ~Commits(asked[r].stmt) /\ data'[s] = data[s]
             \/ /\ MayStay(asked[r].stmt)
                /\ data'[s] = IF s = task[r].engine
                              THEN data[s] \cup {<<r, task[r].i>>} ELSE data[s]
  BY <1>1 DEF Shape, TypeOK, Commit
<1> QED BY <1>4, <1>5

LEMMA RunType ==
    ASSUME Shape, NEW r \in Requests, Run(r)
    PROVE  Shape'
<1>1. /\ UNCHANGED <<row, read, config, asked, loose, named>>
      /\ task[r] # None /\ task[r] \in Task /\ asked[r] \in Ask
      /\ task' \in [Requests -> Task \cup {None}]
      /\ outcome' \in [Requests -> {"none", "ok", "refused", "failed"}]
  BY RunStep
<1>2. ASSUME Lookup(r) PROVE TypeOK'
  <2>1. UNCHANGED <<engines, cache, events, data, stale>>
    BY <1>2 DEF Lookup, history
  <2>2. cache[<<asked[r].d, asked[r].stmt>>] \in Stores \cup {None}
    BY <1>1, <1>2 DEF Shape, TypeOK, Placed, Lookup, At, Ask
  <2>3. answer' \in [Requests -> Stores \cup {None}]
    BY <1>2, <2>2 DEF Shape, TypeOK, Lookup
  <2> QED BY <1>1, <2>1, <2>3 DEF Shape, TypeOK
<1>3. ASSUME ExecuteRead(r) PROVE TypeOK'
  <2>1. UNCHANGED <<engines, cache, stale>> /\ events' \subseteq Requests
    BY <1>3 DEF Shape, TypeOK, ExecuteRead, history
  <2>2. answer' \in [Requests -> Stores \cup {None}]
    BY <1>1, <1>3 DEF Shape, TypeOK, Placed, Serving, ExecuteRead, At
  <2>3. data' \in [Stores -> SUBSET (Requests \X (1..MaxRows))]
    BY <1>3, CommitType DEF ExecuteRead
  <2> QED BY <1>1, <2>1, <2>2, <2>3 DEF Shape, TypeOK
<1>4. ASSUME Store(r) PROVE TypeOK'
  <2>1. UNCHANGED <<engines, answer, events, data, stale>>
    BY <1>4 DEF Store, history
  <2>2. cache' \in [DBs \X Cached -> Stores \cup {None}]
    BY <1>1, <1>4 DEF Shape, TypeOK, Placed, Serving, Store, At
  <2> QED BY <1>1, <2>1, <2>2 DEF Shape, TypeOK
<1>5. ASSUME ExecuteWrite(r) PROVE TypeOK'
  <2>1. UNCHANGED <<engines, cache, answer, stale>> /\ events' \subseteq Requests
    BY <1>5 DEF Shape, TypeOK, ExecuteWrite, history
  <2>2. data' \in [Stores -> SUBSET (Requests \X (1..MaxRows))]
    BY <1>5, CommitType DEF ExecuteWrite
  <2> QED BY <1>1, <2>1, <2>2 DEF Shape, TypeOK
<1>6. ASSUME ExecuteFails(r) PROVE TypeOK'
  <2>1. UNCHANGED <<engines, cache, answer, events, stale>>
    BY <1>6 DEF ExecuteFails, history
  <2>2. data' \in [Stores -> SUBSET (Requests \X (1..MaxRows))]
    BY <1>6, CommitType DEF Shape, TypeOK, ExecuteFails
  <2> QED BY <1>1, <2>1, <2>2 DEF Shape, TypeOK
<1>7. ASSUME RemoveEngine(r) PROVE TypeOK'
  <2>1. UNCHANGED <<cache, answer, events, data>> /\ stale' \subseteq DBs
    BY <1>7 DEF Shape, TypeOK, RemoveEngine
  <2>2. engines' \in [DBs -> Stores \cup {None}]
    BY <1>7 DEF Shape, TypeOK, RemoveEngine
  <2> QED BY <1>1, <2>1, <2>2 DEF Shape, TypeOK
<1>8. TypeOK'
  BY <1>2, <1>3, <1>4, <1>5, <1>6, <1>7 DEF Run, Shape
<1>9. Begun'
  <2>1. \A s \in Requests : s # r => task'[s] = task[s]
    BY RunStep
  <2> QED BY <1>1, <2>1 DEF Shape, Begun
<1>10. Placed'
  <2>1. \A s \in Requests : s # r => task'[s] = task[s]
    BY RunStep
  <2>2. \/ task'[r] = None
        \/ task[r].at = "lookup" /\ task'[r] = [task[r] EXCEPT !.at = "execute"]
        \/ /\ task[r].at = "execute" /\ asked[r].stmt \in Cached
           /\ task'[r] = [task[r] EXCEPT !.at = "store"]
        \/ task[r].at = "execute" /\ task'[r] = [task[r] EXCEPT !.i = @ + 1]
    BY RunStep
  <2>3. task'[r] = None \/ /\ task[r].at # "remove" /\ task'[r].engine = task[r].engine
                           /\ task'[r].at \in {"execute", "store"} /\ task[r].at \in Serving
                           /\ task'[r].at = "store" => asked[r].stmt \in Cached
    BY <1>1, <2>2 DEF Task, Serving
  <2> QED BY <1>1, <2>1, <2>3 DEF Shape, Placed, Serving
<1> QED BY <1>8, <1>9, <1>10 DEF Shape

\* What an administrator asks for.
Administers(r) ==
    \/ \E d \in DBs : Drop(r, d) \/ \E s \in Stores : Define(r, d, s)
    \/ DefineWebhook(r)

LEMMA AdministerStep ==
    ASSUME Shape, NEW r \in Requests, Administers(r)
    PROVE  /\ asked[r] = None /\ asked'[r] \in Ask /\ asked'[r] # None
           /\ asked'[r].stmt = "none" /\ asked' \in [Requests -> Ask \cup {None}]
           /\ task'[r] # None /\ task'[r].at \in {"read", "remove"}
           /\ task' \in [Requests -> Task \cup {None}]
           /\ \A s \in Requests : s # r => task'[s] = task[s] /\ asked'[s] = asked[s]
           /\ row' \in [DBs -> Stores \cup {None}]
           /\ \A e \in DBs : \/ config'[e] = config[e]
                            \/ /\ At(r, "remove")' /\ asked'[r].d = e
                               /\ config'[e] = None
           /\ config' \in [DBs -> Stores \cup {None}]
           /\ UNCHANGED <<read, engines, cache, outcome, answer, events, data, history>>
<1>d. (CHOOSE d \in DBs : TRUE) \in DBs
  BY DatabaseAssumption
<1>1. PICK kind \in {"define", "drop", "webhook"}, d \in DBs, step \in {"read", "remove"} :
        /\ Administer(r, kind, d, step)
        /\ config' = config \/ (step = "remove" /\ config' = [config EXCEPT ![d] = None])
  BY <1>d DEF Administers, Drop, Define, DefineWebhook
<1>2. row' \in [DBs -> Stores \cup {None}]
  BY DEF Administers, Drop, Define, DefineWebhook, Shape, TypeOK
<1> DEFINE q == [kind |-> kind, d |-> d, stmt |-> "none", mode |-> "readwrite", n |-> 1]
           t == [at |-> step, engine |-> None, i |-> 1]
<1>3. q \in Ask /\ t \in Task
  BY DatabaseAssumption DEF Ask, Task, Modes
<1>4. q # None /\ t # None
  BY <1>3, NoneAssumption
<1>5. /\ asked[r] = None /\ asked' = [asked EXCEPT ![r] = q] /\ task' = [task EXCEPT ![r] = t]
      /\ UNCHANGED <<read, engines, cache, outcome, answer, events, data, history>>
  BY <1>1 DEF Administer
<1>6. q.d = d /\ q.stmt = "none" /\ t.at = step
  OBVIOUS
<1> HIDE DEF q, t
<1>7. /\ asked'[r] = q /\ task'[r] = t
      /\ asked' \in [Requests -> Ask \cup {None}] /\ task' \in [Requests -> Task \cup {None}]
      /\ \A s \in Requests : s # r => task'[s] = task[s] /\ asked'[s] = asked[s]
  BY <1>3, <1>5 DEF Shape, TypeOK
<1>8. ASSUME NEW e \in DBs
      PROVE  config'[e] = config[e] \/ (At(r, "remove")' /\ asked'[r].d = e /\ config'[e] = None)
  <2>1. CASE config' = config
    BY <2>1
  <2>2. CASE step = "remove" /\ config' = [config EXCEPT ![d] = None]
    <3>1. config'[e] = IF e = d THEN None ELSE config[e]
      BY <2>2 DEF Shape, TypeOK
    <3> QED BY <1>4, <1>6, <1>7, <2>2, <3>1 DEF At
  <2> QED BY <1>1, <2>1, <2>2
<1>9. config' \in [DBs -> Stores \cup {None}]
  BY <1>1 DEF Shape, TypeOK
<1> QED BY <1>2, <1>3, <1>4, <1>5, <1>6, <1>7, <1>8, <1>9

LEMMA AdminType ==
    ASSUME Shape, NEW r \in Requests, Administers(r)
    PROVE  Shape'
<1>1. /\ asked'[r] # None /\ asked'[r].stmt = "none" /\ asked' \in [Requests -> Ask \cup {None}]
      /\ task'[r] # None /\ task'[r].at \in {"read", "remove"}
      /\ task' \in [Requests -> Task \cup {None}]
      /\ \A s \in Requests : s # r => task'[s] = task[s] /\ asked'[s] = asked[s]
      /\ row' \in [DBs -> Stores \cup {None}] /\ config' \in [DBs -> Stores \cup {None}]
      /\ UNCHANGED <<read, engines, cache, outcome, answer, events, data, history>>
  BY AdministerStep
<1>2. TypeOK'
  BY <1>1 DEF Shape, TypeOK, history
<1>3. Begun' /\ Placed'
  BY <1>1 DEF Shape, Begun, Placed, Serving
<1> QED BY <1>2, <1>3 DEF Shape

\* The reload of an administrator: it makes stale what it changes, unless the engine is to be
\* removed next.
LEMMA ReloadStep ==
    ASSUME Shape, NEW r \in Requests, Reload(r)
    PROVE  /\ UNCHANGED <<row, engines, cache, asked, answer, events, data, loose>>
           /\ task[r] # None /\ task[r] \in Task /\ task[r].at \in {"read", "apply"}
           /\ task' \in [Requests -> Task \cup {None}]
           /\ task'[r] = None \/ task'[r].at \in {"apply", "remove"}
           /\ outcome' \in [Requests -> {"none", "ok", "refused", "failed"}]
           /\ \A s \in Requests : s # r => task'[s] = task[s] /\ outcome'[s] = outcome[s]
           /\ read' \in [Requests -> [DBs -> Stores \cup {None}]]
           /\ config' \in [DBs -> Stores \cup {None}]
           /\ UNCHANGED <<config, named>> \/ Naming
           /\ stale \subseteq stale' /\ stale' \subseteq DBs
           /\ \A e \in DBs : \/ config'[e] = config[e]
                            \/ e \in stale'
                            \/ (At(r, "remove")' /\ asked'[r].d = e)
<1>1. /\ task[r] # None /\ task[r] \in Task /\ task[r].at \in {"read", "apply"}
  BY DEF Reload, ReadRows, ApplyRows, ReloadRaises, At, Shape, TypeOK
<1>2. CASE ReadRows(r)
  <2> DEFINE t == [task[r] EXCEPT !.at = "apply"]
  <2>1. t \in Task /\ t.at = "apply"
    BY <1>1 DEF Task
  <2>2. task' = [task EXCEPT ![r] = t]
    BY <1>2 DEF ReadRows
  <2> HIDE DEF t
  <2>3. /\ task' \in [Requests -> Task \cup {None}] /\ task'[r] = t
        /\ \A s \in Requests : s # r => task'[s] = task[s]
    BY <2>1, <2>2 DEF Shape, TypeOK
  <2>4. /\ read' = [read EXCEPT ![r] = row]
        /\ UNCHANGED <<row, config, engines, cache, asked, outcome, answer, events, data, history>>
    BY <1>2 DEF ReadRows
  <2>5. read' \in [Requests -> [DBs -> Stores \cup {None}]]
    BY <2>4 DEF Shape, TypeOK
  <2> QED BY <1>1, <2>1, <2>3, <2>4, <2>5 DEF Shape, TypeOK, history
<1>3. ASSUME NEW E \in SUBSET DBs, Assign(r, E)
      PROVE  /\ UNCHANGED <<row, engines, cache, asked, answer, events, data, loose>>
             /\ read' \in [Requests -> [DBs -> Stores \cup {None}]]
             /\ config' \in [DBs -> Stores \cup {None}] /\ Naming
  <2>1. config' = [e \in DBs |-> IF e \in E /\ read[r][e] # None THEN read[r][e] ELSE config[e]]
    BY <1>3 DEF Assign
  <2>2. \A e \in DBs : read[r][e] \in Stores \cup {None} /\ config[e] \in Stores \cup {None}
    BY DEF Shape, TypeOK
  <2>3. config' \in [DBs -> Stores \cup {None}]
    BY <2>1, <2>2
  <2>4. read' \in [Requests -> [DBs -> Stores \cup {None}]]
    <3>1. Nothing \in [DBs -> Stores \cup {None}] /\ read' = [read EXCEPT ![r] = Nothing]
      BY <1>3 DEF Assign, Nothing
    <3> QED BY <3>1 DEF Shape, TypeOK
  <2> QED BY <1>3, <2>3, <2>4 DEF Assign
<1>4. ASSUME NEW result \in {"ok", "failed"}, End(r, result)
      PROVE  /\ task' \in [Requests -> Task \cup {None}] /\ task'[r] = None
             /\ outcome' \in [Requests -> {"none", "ok", "refused", "failed"}]
             /\ \A s \in Requests : s # r => task'[s] = task[s] /\ outcome'[s] = outcome[s]
  BY <1>4 DEF Shape, TypeOK, End
<1>5. ASSUME NEW E \in SUBSET DBs, ReloadRaises(r, E)
      PROVE  /\ Assign(r, E) /\ End(r, "failed") /\ stale' = stale \cup Differing
  BY <1>5 DEF ReloadRaises
<1>6. CASE ApplyRows(r) /\ asked[r].kind = "define" /\ task' = [task EXCEPT ![r].at = "remove"]
  <2> DEFINE t == [task[r] EXCEPT !.at = "remove"]
  <2>1. t \in Task /\ t.at = "remove"
    BY <1>1 DEF Task
  <2>2. task' = [task EXCEPT ![r] = t]
    BY <1>6
  <2> HIDE DEF t
  <2>3. /\ task' \in [Requests -> Task \cup {None}] /\ task'[r] = t
        /\ \A s \in Requests : s # r => task'[s] = task[s]
    BY <2>1, <2>2 DEF Shape, TypeOK
  <2>4. /\ Assign(r, DBs)
        /\ \/ stale' = stale \cup (Differing \ {asked[r].d}) /\ UNCHANGED outcome
           \/ asked[r].kind = "webhook"
    BY <1>6 DEF ApplyRows
  <2>5. stale' = stale \cup (Differing \ {asked[r].d}) /\ UNCHANGED outcome
    BY <1>6, <2>4
  <2>6. UNCHANGED asked
    BY <2>4 DEF Assign
  <2>7. t # None
    BY <2>1, NoneAssumption
  <2>8. At(r, "remove")'
    BY <2>1, <2>3, <2>7 DEF At
  <2>9. \A e \in DBs : \/ config'[e] = config[e]
                      \/ e \in stale'
                      \/ (At(r, "remove")' /\ asked'[r].d = e)
    BY <2>5, <2>6, <2>8 DEF Differing
  <2>10. stale \subseteq stale' /\ stale' \subseteq DBs
    BY <2>5 DEF Differing, Shape, TypeOK
  <2> QED BY <1>1, <1>3, <2>1, <2>3, <2>4, <2>5, <2>9, <2>10 DEF Shape, TypeOK
<1>7. ASSUME NEW E \in SUBSET DBs, NEW result \in {"ok", "failed"},
             Assign(r, E), End(r, result), stale' = stale \cup Differing
      PROVE  /\ stale \subseteq stale' /\ stale' \subseteq DBs
             /\ \A e \in DBs : config'[e] = config[e] \/ e \in stale'
  BY <1>7 DEF Differing, Shape, TypeOK
<1>8. CASE ApplyRows(r) /\ End(r, "ok") /\ stale' = stale \cup Differing
  <2>1. Assign(r, DBs)
    BY <1>8 DEF ApplyRows
  <2> QED BY <1>1, <1>3, <1>4, <1>7, <1>8, <2>1
<1>9. CASE \E E \in SUBSET DBs : ReloadRaises(r, E)
  BY <1>1, <1>3, <1>4, <1>5, <1>7, <1>9
<1> QED BY <1>2, <1>6, <1>8, <1>9 DEF Reload, ApplyRows

LEMMA ReloadsType ==
    ASSUME Shape, NEW r \in Requests, Reload(r)
    PROVE  Shape'
<1>1. /\ UNCHANGED <<row, engines, cache, asked, answer, events, data, loose>>
      /\ task[r] # None /\ task[r] \in Task /\ task[r].at \in {"read", "apply"}
      /\ task' \in [Requests -> Task \cup {None}]
      /\ task'[r] = None \/ task'[r].at \in {"apply", "remove"}
      /\ outcome' \in [Requests -> {"none", "ok", "refused", "failed"}]
      /\ \A s \in Requests : s # r => task'[s] = task[s] /\ outcome'[s] = outcome[s]
      /\ read' \in [Requests -> [DBs -> Stores \cup {None}]]
      /\ config' \in [DBs -> Stores \cup {None}]
      /\ UNCHANGED <<config, named>> \/ Naming
      /\ stale' \subseteq DBs
  BY ReloadStep
<1>2. named' \in [DBs -> SUBSET Stores]
  BY <1>1 DEF Shape, TypeOK, Naming
<1>3. TypeOK'
  BY <1>1, <1>2 DEF Shape, TypeOK
<1>4. Begun' /\ Placed'
  BY <1>1 DEF Shape, Begun, Placed, Serving
<1> QED BY <1>3, <1>4 DEF Shape

LEMMA ReloadType ==
    ASSUME Shape, HotReload \/ Restart \/ \E k \in DBs \X Cached : Expire(k)
    PROVE  Shape'
<1>1. CASE HotReload
  <2>1. config' \in [DBs -> Stores \cup {None}] /\ stale' \subseteq DBs
    BY <1>1, DatabaseAssumption DEF Shape, TypeOK, HotReload, Differing
  <2>r. read' \in [Requests -> [DBs -> Stores \cup {None}]]
    BY <1>1 DEF HotReload, Nothing
  <2>2. named' \in [DBs -> SUBSET Stores]
    BY <1>1, <2>1 DEF Shape, TypeOK, HotReload, Naming
  <2> QED BY <1>1, <2>1, <2>2, <2>r DEF Shape, TypeOK, Begun, Placed, HotReload
<1>2. CASE Restart
  <2>1. config' \in [DBs -> Stores \cup {None}]
    BY <1>2, DatabaseAssumption DEF Shape, TypeOK, Restart, Merged
  <2>r. /\ read' \in [Requests -> [DBs -> Stores \cup {None}]]
        /\ engines' \in [DBs -> Stores \cup {None}]
    BY <1>2 DEF Restart, Nothing
  <2>2. named' \in [DBs -> SUBSET Stores]
    BY <1>2, <2>1 DEF Shape, TypeOK, Restart, Naming
  <2>3. TypeOK'
    BY <1>2, <2>1, <2>2, <2>r DEF Shape, TypeOK, Restart
  <2>4. Begun' /\ Placed'
    BY <1>2 DEF Begun, Placed, Restart
  <2> QED BY <2>3, <2>4 DEF Shape
<1>3. ASSUME NEW k \in DBs \X Cached, Expire(k) PROVE Shape'
  <2>1. TypeOK'
    BY <1>3 DEF Shape, TypeOK, Expire, history
  <2> QED BY <1>3, <2>1 DEF Shape, Begun, Placed, Expire
<1> QED BY <1>1, <1>2, <1>3

\* What clients send.
LEMMA SendTypes ==
    ASSUME NEW b \in Sends
    PROVE  /\ b.kind \in {"query", "rows", "tables", "write"} /\ b.mode \in Modes
           /\ b.stmt \in Statements \cup {"tables"} /\ b.n \in 1..MaxRows
<1>1. b \in Sendable
  BY SendsAssumption
<1>2. {"select", "insert"} \subseteq Statements /\ 1 \in 1..MaxRows
  BY DatabaseAssumption DEF Statements, Selects, Writes
<1> QED BY <1>1, <1>2 DEF Sendable

\* Every step keeps the types.
LEMMA NextType == Shape /\ [Next]_vars => Shape'
<1> SUFFICES ASSUME Shape, [Next]_vars PROVE Shape'
  OBVIOUS
<1>1. ASSUME NEW r \in Clients, NEW d \in DBs, NEW b \in Sends,
             Begin(r, b.kind, d, b.stmt, b.mode, b.n)
      PROVE  Shape'
  <2>1. /\ b.kind \in {"query", "rows", "tables", "write"} /\ b.mode \in Modes
        /\ b.stmt \in Statements \cup {"tables"} /\ b.n \in 1..MaxRows /\ r \in Requests
    BY SendTypes DEF Requests
  <2> QED BY <1>1, <2>1, BeginType
<1>2. CASE UNCHANGED vars
  BY <1>2 DEF vars, Shape, TypeOK, Begun, Placed
<1> QED BY <1>1, <1>2, RunType, AdminType, ReloadsType, ReloadType DEF Next, Requests, Administers

\* Requests, engines and definitions are well typed, for any number of them.
THEOREM TypeCorrect == Spec => []TypeOK
<1>1. Shape => TypeOK
  BY DEF Shape
<1> QED BY InitType, NextType, <1>1, PTL DEF Spec

-----------------------------------------------------------------------------
(* What a step leaves.                                                     *)

Begins(r, d) ==
    \E kind \in {"query", "rows", "tables", "write"}, stmt \in Statements \cup {"tables"},
       mode \in Modes, n \in 1..MaxRows : Begin(r, kind, d, stmt, mode, n)

LEMMA NextCases ==
    ASSUME [Next]_vars
    PROVE  \/ \E r \in Requests, d \in DBs : Begins(r, d)
           \/ \E r \in Requests : Run(r)
           \/ \E r \in Requests : Administers(r)
           \/ \E r \in Requests : Reload(r)
           \/ HotReload \/ Restart \/ UNCHANGED vars
           \/ \E k \in DBs \X Cached : Expire(k)
<1>1. ASSUME NEW r \in Clients, NEW d \in DBs, NEW b \in Sends,
             Begin(r, b.kind, d, b.stmt, b.mode, b.n)
      PROVE  r \in Requests /\ Begins(r, d)
  BY <1>1, SendTypes DEF Begins, Requests
<1> QED BY <1>1 DEF Next, Requests, Administers

LEMMA BeginsStep ==
    ASSUME Shape, NEW r \in Requests, NEW d \in DBs, Begins(r, d)
    PROVE  /\ asked[r] = None /\ asked'[r] \in Ask /\ asked'[r] # None /\ asked'[r].d = d
           /\ \A s \in Requests : s # r => asked'[s] = asked[s]
           /\ \A s \in Requests : s # r => task'[s] = task[s] /\ outcome'[s] = outcome[s]
           /\ UNCHANGED <<row, read, config, cache, answer, events, data, stale, named>>
           /\ \A e \in DBs : engines'[e] = engines[e] \/ (e = d /\ engines'[e] = config[e])
           /\ loose' = IF d \in stale \/ InChange(d) THEN loose \cup {r} ELSE loose
           /\ \/ task'[r] = None /\ outcome'[r] \in {"refused", "failed"}
              \/ /\ outcome'[r] = outcome[r]
                 /\ engines'[d] \in Stores /\ task'[r].engine = engines'[d] /\ task'[r].i = 1
                 /\ task'[r].at = IF asked'[r].stmt \in Cached THEN "lookup" ELSE "execute"
                 /\ Valid(asked'[r].stmt, asked'[r].mode, config[d])
<1>1. PICK kind \in {"query", "rows", "tables", "write"}, stmt \in Statements \cup {"tables"},
           mode \in Modes, n \in 1..MaxRows : Begin(r, kind, d, stmt, mode, n)
  BY DEF Begins
<1> DEFINE q == [kind |-> kind, d |-> d, stmt |-> stmt, mode |-> mode, n |-> n]
<1>2. q \in Ask /\ q.d = d /\ q.stmt = stmt /\ q.mode = mode /\ q # None
  <2>1. q \in Ask
    BY DEF Ask
  <2> QED BY <2>1, NoneAssumption
<1>3. asked[r] = None /\ asked' = [asked EXCEPT ![r] = q]
  BY <1>1 DEF Begin
<1>4. /\ UNCHANGED <<row, read, config, cache, answer, events, data, stale, named>>
      /\ loose' = IF d \in stale \/ InChange(d) THEN loose \cup {r} ELSE loose
  BY <1>1 DEF Begin
<1>5. /\ \A e \in DBs : engines'[e] = engines[e] \/ (e = d /\ engines'[e] = config[e])
      /\ \A s \in Requests : s # r => task'[s] = task[s] /\ outcome'[s] = outcome[s]
      /\ \/ task'[r] = None /\ outcome'[r] \in {"refused", "failed"}
         \/ /\ engines'[d] \in Stores
            /\ Valid(stmt, mode, config[d])
            /\ outcome'[r] = outcome[r]
            /\ task'[r] = [at |-> IF stmt \in Cached THEN "lookup" ELSE "execute",
                           engine |-> engines'[d], i |-> 1]
  <2>1. TypeOK
    BY DEF Shape
  <2>2. \A e \in DBs : engines'[e] = engines[e] \/ (e = d /\ engines'[e] = config[e])
    BY <1>1, <2>1, BeginStep
  <2>3. ASSUME NEW s \in Requests, s # r PROVE task'[s] = task[s] /\ outcome'[s] = outcome[s]
    BY <1>1, <2>1, <2>3, BeginStep, ZenonT(60)
  <2>4. \/ task'[r] = None /\ outcome'[r] \in {"refused", "failed"}
        \/ /\ engines'[d] \in Stores
           /\ Valid(stmt, mode, config[d])
           /\ outcome'[r] = outcome[r]
           /\ task'[r] = [at |-> IF stmt \in Cached THEN "lookup" ELSE "execute",
                          engine |-> engines'[d], i |-> 1]
    BY <1>1, <2>1, BeginStep
  <2> QED BY <2>2, <2>3, <2>4
<1> HIDE DEF q
<1>6. asked'[r] = q /\ \A s \in Requests : s # r => asked'[s] = asked[s]
  BY <1>3 DEF Shape, TypeOK
<1>7. \/ task'[r] = None /\ outcome'[r] \in {"refused", "failed"}
      \/ /\ outcome'[r] = outcome[r]
         /\ engines'[d] \in Stores /\ task'[r].engine = engines'[d] /\ task'[r].i = 1
         /\ task'[r].at = IF asked'[r].stmt \in Cached THEN "lookup" ELSE "execute"
         /\ Valid(asked'[r].stmt, asked'[r].mode, config[d])
  <2>1. asked'[r].stmt = stmt /\ asked'[r].mode = mode
    BY <1>2, <1>6
  <2> QED BY <1>5, <2>1
<1> QED BY <1>2, <1>3, <1>4, <1>5, <1>6, <1>7

-----------------------------------------------------------------------------
(* The engine that waits for the next request.                             *)

\* A step that neither defines nor removes leaves the administrators at work where they are.
LEMMA NextCurrent == Shape /\ EngineCurrent /\ [Next]_vars => EngineCurrent'
<1> SUFFICES ASSUME Shape, EngineCurrent, [Next]_vars, NEW e \in DBs,
                    engines'[e] # None, e \notin stale', ~InChange(e)'
             PROVE  engines'[e] = config'[e]
  BY DEF EngineCurrent
<1>1. ASSUME NEW r \in Requests, NEW d \in DBs, Begins(r, d) PROVE engines'[e] = config'[e]
  <2>1. /\ asked[r] = None /\ UNCHANGED <<config, stale>>
        /\ \A s \in Requests : s # r => task'[s] = task[s] /\ asked'[s] = asked[s]
        /\ engines'[e] = engines[e] \/ engines'[e] = config[e]
    BY <1>1, BeginsStep
  <2>2. ~InChange(e)
    <3>1. \A s \in Requests : At(s, "remove") => s # r
      BY <2>1 DEF Shape, Begun, At
    <3> QED BY <2>1, <3>1 DEF InChange, At
  <2> QED BY <2>1, <2>2 DEF EngineCurrent
<1>2. ASSUME NEW r \in Requests, Run(r), ~RemoveEngine(r) PROVE engines'[e] = config'[e]
  <2>1. UNCHANGED <<engines, stale>>
    BY <1>2 DEF Run, Lookup, ExecuteRead, Store, ExecuteWrite, ExecuteFails, history
  <2>2. /\ UNCHANGED <<config, asked>> /\ ~At(r, "remove")
        /\ \A s \in Requests : s # r => task'[s] = task[s]
    BY <1>2, RunStep DEF Run, Lookup, ExecuteRead, Store, ExecuteWrite, ExecuteFails, At
  <2>3. ~InChange(e)
    <3>1. \A s \in Requests : At(s, "remove") => s # r
      BY <2>2
    <3> QED BY <2>2, <3>1 DEF InChange, At
  <2> QED BY <2>1, <2>2, <2>3 DEF EngineCurrent
<1>3. ASSUME NEW r \in Requests, RemoveEngine(r) PROVE engines'[e] = config'[e]
  <2>1. /\ engines' = [engines EXCEPT ![asked[r].d] = None] /\ UNCHANGED <<config, asked>>
        /\ stale' = stale \ {asked[r].d} /\ At(r, "remove")
    BY <1>3 DEF RemoveEngine
  <2>2. \A s \in Requests : s # r => task'[s] = task[s]
    BY <1>3 DEF Shape, TypeOK, RemoveEngine, End
  <2>3. asked[r].d \in DBs
    BY <2>1 DEF Shape, TypeOK, Begun, At, Ask
  <2>4. e # asked[r].d /\ engines'[e] = engines[e]
    BY <2>1, <2>3 DEF Shape, TypeOK
  <2>5. ~InChange(e)
    BY <2>1, <2>2, <2>4 DEF InChange, At
  <2> QED BY <2>1, <2>4, <2>5 DEF EngineCurrent
<1>4. ASSUME NEW r \in Requests, Administers(r) PROVE engines'[e] = config'[e]
  <2>1. /\ asked[r] = None /\ UNCHANGED <<engines, stale>>
        /\ \A s \in Requests : s # r => task'[s] = task[s] /\ asked'[s] = asked[s]
        /\ \/ config'[e] = config[e]
           \/ At(r, "remove")' /\ asked'[r].d = e
    BY <1>4, AdministerStep DEF history
  <2>2. ~InChange(e)
    <3>1. \A s \in Requests : At(s, "remove") => s # r
      BY <2>1 DEF Shape, Begun, At
    <3> QED BY <2>1, <3>1 DEF InChange, At
  <2>3. config'[e] = config[e]
    BY <2>1 DEF InChange
  <2> QED BY <2>1, <2>2, <2>3 DEF EngineCurrent
<1>r. ASSUME NEW r \in Requests, Reload(r) PROVE engines'[e] = config'[e]
  <2>1. /\ UNCHANGED <<engines, asked>> /\ stale \subseteq stale'
        /\ task[r].at \in {"read", "apply"}
        /\ \A s \in Requests : s # r => task'[s] = task[s]
        /\ \/ config'[e] = config[e]
           \/ e \in stale'
           \/ At(r, "remove")' /\ asked'[r].d = e
    BY <1>r, ReloadStep
  <2>2. ~InChange(e)
    <3>1. \A s \in Requests : At(s, "remove") => s # r
      BY <2>1 DEF At
    <3> QED BY <2>1, <3>1 DEF InChange, At
  <2>3. config'[e] = config[e]
    BY <2>1 DEF InChange
  <2> QED BY <2>1, <2>2, <2>3 DEF EngineCurrent
<1>5. CASE HotReload
  BY <1>5 DEF HotReload, Differing, EngineCurrent, InChange, At
<1>6. CASE Restart
  BY <1>6 DEF Restart, Nothing
<1>7. CASE UNCHANGED <<engines, config, stale, task, asked>>
  BY <1>7 DEF EngineCurrent, InChange, At
<1>8. ASSUME NEW k \in DBs \X Cached, Expire(k) PROVE engines'[e] = config'[e]
  BY <1>7, <1>8 DEF Expire, history
<1> QED BY <1>1, <1>2, <1>3, <1>4, <1>r, <1>5, <1>6, <1>7, <1>8, NextCases DEF vars

\* The engine that is kept is the one of the definition, through any number of changes,
\* removals and requests in between.
THEOREM EnginesCurrent == Spec => []EngineCurrent
<1>1. Init => EngineCurrent
  BY DEF Init, EngineCurrent, Nothing
<1> QED BY InitType, NextType, NextCurrent, <1>1, PTL DEF Spec

-----------------------------------------------------------------------------
(* What has been committed, and for whom.                                  *)

\* What has not been asked has had no effect.
Fresh ==
    \A r \in Requests : asked[r] = None =>
        /\ outcome[r] = "none" /\ answer[r] = None /\ r \notin events
        /\ \A s \in Stores, i \in 1..MaxRows : <<r, i>> \notin data[s]

\* A statement that is run was checked against the mode of its key and the definition.
Checked ==
    \A r \in Requests : task[r] # None /\ task[r].at \in Serving =>
        /\ asked[r].mode = "readonly" => ~MayStay(asked[r].stmt)
        /\ asked[r].stmt = "create" => task[r].engine \in Permissive \/ r \in loose

\* What the step of a running request adds to the stores.
LEMMA DataStep ==
    ASSUME Shape, NEW r \in Requests, Run(r), NEW s \in Stores
    PROVE  /\ data' \in [Stores -> SUBSET (Requests \X (1..MaxRows))]
           /\ data[s] \subseteq data'[s]
           /\ \A w \in data'[s] : \/ w \in data[s]
                                  \/ /\ w = <<r, task[r].i>> /\ s = task[r].engine
                                     /\ At(r, "execute") /\ MayStay(asked[r].stmt)
<1>1. CASE At(r, "execute") /\ Commit(r)
  BY <1>1, CommitType
<1>2. CASE UNCHANGED data
  BY <1>2 DEF Shape, TypeOK
<1> QED
  BY <1>1, <1>2 DEF Run, Lookup, ExecuteRead, Store, ExecuteWrite, ExecuteFails, RemoveEngine

LEMMA NextFresh == Shape /\ Fresh /\ [Next]_vars => Fresh'
<1> SUFFICES ASSUME Shape, Fresh, [Next]_vars, NEW q \in Requests, asked'[q] = None
             PROVE  /\ outcome'[q] = "none" /\ answer'[q] = None /\ q \notin events'
                    /\ \A s \in Stores, i \in 1..MaxRows : <<q, i>> \notin data'[s]
  BY DEF Fresh
<1> DEFINE Goal == /\ outcome'[q] = "none" /\ answer'[q] = None /\ q \notin events'
                   /\ \A s \in Stores, i \in 1..MaxRows : <<q, i>> \notin data'[s]
<1>1. ASSUME NEW r \in Requests, NEW d \in DBs, Begins(r, d) PROVE Goal
  BY <1>1, BeginsStep DEF Fresh
<1>2. ASSUME NEW r \in Requests, Run(r) PROVE Goal
  <2>1. asked' = asked /\ r # q
    BY <1>2, RunStep DEF Shape, Begun
  <2>2. outcome'[q] = outcome[q] /\ answer'[q] = answer[q] /\ (q \in events' <=> q \in events)
    BY <1>2, <2>1, RunStep
  <2>3. ASSUME NEW s \in Stores, NEW i \in 1..MaxRows PROVE <<q, i>> \notin data'[s]
    BY <1>2, <2>1, DataStep DEF Fresh
  <2> QED BY <2>1, <2>2, <2>3 DEF Fresh
<1>3. ASSUME NEW r \in Requests, Administers(r) PROVE Goal
  <2>1. /\ UNCHANGED <<outcome, answer, events, data>> /\ asked'[r] # None
        /\ \A s \in Requests : s # r => asked'[s] = asked[s]
    BY <1>3, AdministerStep
  <2> QED BY <2>1 DEF Fresh
<1>r. ASSUME NEW r \in Requests, Reload(r) PROVE Goal
  <2>1. UNCHANGED <<asked, answer, events, data>> /\ task[r] # None
    BY <1>r, ReloadStep
  <2>2. outcome'[q] = outcome[q]
    BY <1>r, <2>1, ReloadStep DEF Shape, Begun
  <2> QED BY <2>1, <2>2 DEF Fresh
<1>4. CASE Restart
  BY <1>4 DEF Shape, Begun, Fresh, Restart
<1>5. CASE UNCHANGED <<outcome, answer, events, data, asked>>
  BY <1>5 DEF Fresh
<1>6. ASSUME NEW k \in DBs \X Cached, Expire(k) PROVE Goal
  BY <1>5, <1>6 DEF Expire, history
<1>7. CASE HotReload
  BY <1>5, <1>7 DEF HotReload
<1> QED BY <1>1, <1>2, <1>3, <1>r, <1>4, <1>5, <1>6, <1>7, NextCases DEF vars

\* What a request that is running or has had an effect asked for stays as it is.
LEMMA AskedStays ==
    ASSUME Shape, [Next]_vars, NEW q \in Requests, asked[q] # None
    PROVE  asked'[q] = asked[q] /\ (q \in loose => q \in loose')
<1>1. ASSUME NEW r \in Requests, NEW d \in DBs, Begins(r, d) PROVE asked'[q] = asked[q] /\ loose \subseteq loose'
  BY <1>1, BeginsStep
<1>2. ASSUME NEW r \in Requests, Run(r) PROVE asked'[q] = asked[q] /\ loose \subseteq loose'
  BY <1>2, RunStep
<1>3. ASSUME NEW r \in Requests, Administers(r) PROVE asked'[q] = asked[q] /\ loose \subseteq loose'
  BY <1>3, AdministerStep DEF history
<1>r. ASSUME NEW r \in Requests, Reload(r) PROVE asked'[q] = asked[q] /\ loose \subseteq loose'
  BY <1>r, ReloadStep
<1>4. CASE HotReload \/ Restart
  BY <1>4 DEF HotReload, Restart
<1>5. ASSUME NEW k \in DBs \X Cached, Expire(k) PROVE asked'[q] = asked[q] /\ loose \subseteq loose'
  BY <1>5 DEF Expire, history
<1>6. CASE UNCHANGED vars
  BY <1>6 DEF vars
<1> QED BY <1>1, <1>2, <1>3, <1>r, <1>4, <1>5, <1>6, NextCases

LEMMA NextChecked == Shape /\ EngineCurrent /\ Checked /\ [Next]_vars => Checked'
<1> SUFFICES ASSUME Shape, EngineCurrent, Checked, [Next]_vars, NEW q \in Requests,
                    task'[q] # None, task'[q].at \in Serving
             PROVE  /\ asked'[q].mode = "readonly" => ~MayStay(asked'[q].stmt)
                    /\ asked'[q].stmt = "create" => task'[q].engine \in Permissive \/ q \in loose'
  BY DEF Checked, MayStay, Commits
<1> DEFINE Goal == /\ asked'[q].mode = "readonly" => ~MayStay(asked'[q].stmt)
                   /\ asked'[q].stmt = "create" => task'[q].engine \in Permissive \/ q \in loose'
<1>1. CASE task[q] # None /\ task[q].at \in Serving /\ task'[q].engine = task[q].engine
  BY <1>1, AskedStays DEF Checked, Shape, Begun
<1>2. ASSUME NEW r \in Requests, NEW d \in DBs, Begins(r, d) PROVE Goal
  <2>1. CASE q # r
    BY <1>1, <1>2, <2>1, BeginsStep
  <2>2. CASE q = r
    <3>1. /\ engines'[d] \in Stores /\ task'[q].engine = engines'[d]
          /\ Valid(asked'[q].stmt, asked'[q].mode, config[d])
          /\ engines'[d] = engines[d] \/ engines'[d] = config[d]
          /\ loose' = IF d \in stale \/ InChange(d) THEN loose \cup {r} ELSE loose
      BY <1>2, <2>2, BeginsStep
    <3>2. d \notin stale /\ ~InChange(d) => engines'[d] = config[d]
      BY <3>1, DatabaseAssumption DEF EngineCurrent
    <3>3. asked'[q].stmt = "create" => config[d] \in Permissive
      BY <3>1 DEF Valid
    <3>4. asked'[q].mode = "readonly" => asked'[q].stmt \in Selects \cup {"tables"}
      BY <3>1 DEF Valid
    <3> QED BY <2>2, <3>1, <3>2, <3>3, <3>4 DEF Selects, MayStay, Commits
  <2> QED BY <2>1, <2>2
<1>3. ASSUME NEW r \in Requests, Run(r) PROVE Goal
  <2>1. CASE q # r
    BY <1>1, <1>3, <2>1, RunStep
  <2>2. CASE q = r
    <3>1. task[q] \in Task /\ task[q] # None
      BY <1>3, <2>2, RunStep
    <3>2. \/ task'[q] = None
          \/ task[q].at = "lookup" /\ task'[q] = [task[q] EXCEPT !.at = "execute"]
          \/ task[q].at = "execute" /\ task'[q] = [task[q] EXCEPT !.at = "store"]
          \/ task[q].at = "execute" /\ task'[q] = [task[q] EXCEPT !.i = @ + 1]
      BY <1>3, <2>2, RunStep
    <3>3. task[q].at \in Serving /\ task'[q].engine = task[q].engine
      BY <3>1, <3>2 DEF Task, Serving
    <3> QED BY <1>1, <3>1, <3>3
  <2> QED BY <2>1, <2>2
<1>4. ASSUME NEW r \in Requests, Administers(r) PROVE Goal
  <2>1. task'[r].at \notin Serving /\ \A s \in Requests : s # r => task'[s] = task[s]
    BY <1>4, AdministerStep DEF Serving
  <2> QED BY <1>1, <2>1
<1>r. ASSUME NEW r \in Requests, Reload(r) PROVE Goal
  <2>1. /\ task'[r] = None \/ task'[r].at \notin Serving
        /\ \A s \in Requests : s # r => task'[s] = task[s]
    BY <1>r, ReloadStep DEF Serving
  <2> QED BY <1>1, <2>1
<1>5. CASE Restart
  BY <1>5 DEF Restart
<1>6. CASE UNCHANGED task
  BY <1>1, <1>6
<1>7. ASSUME NEW k \in DBs \X Cached, Expire(k) PROVE Goal
  BY <1>6, <1>7 DEF Expire
<1>8. CASE HotReload
  BY <1>6, <1>8 DEF HotReload
<1> QED BY <1>2, <1>3, <1>4, <1>r, <1>5, <1>6, <1>7, <1>8, NextCases DEF vars

\* What is in a store after a step was there, or is the row of a request that executes.
LEMMA StoresStep ==
    ASSUME Shape, [Next]_vars, NEW s \in Stores, NEW w \in data'[s]
    PROVE  \/ w \in data[s]
           \/ \E r \in Requests : /\ w = <<r, task[r].i>> /\ s = task[r].engine
                                  /\ At(r, "execute") /\ MayStay(asked[r].stmt)
<1>1. ASSUME NEW r \in Requests, Run(r)
      PROVE  w \in data[s] \/ /\ w = <<r, task[r].i>> /\ s = task[r].engine
                              /\ At(r, "execute") /\ MayStay(asked[r].stmt)
  BY <1>1, DataStep
<1>2. CASE ~\E r \in Requests : Run(r)
  <2>1. data' = data
    <3>1. ASSUME NEW r \in Requests, NEW d \in DBs, Begins(r, d) PROVE data' = data
      BY <3>1, BeginsStep
    <3>2. ASSUME NEW r \in Requests, Administers(r) \/ Reload(r) PROVE data' = data
      BY <3>2, AdministerStep, ReloadStep
    <3> QED BY <1>2, <3>1, <3>2, NextCases DEF HotReload, Restart, Expire, vars
  <2> QED BY <2>1
<1> QED BY <1>1, <1>2

LEMMA NextHarmless ==
    Shape /\ Fresh /\ Checked /\ CreatesWherePermitted /\ ReadonlyHarmless /\ [Next]_vars
        => CreatesWherePermitted' /\ ReadonlyHarmless'
<1> SUFFICES ASSUME Shape, Fresh, Checked, CreatesWherePermitted, ReadonlyHarmless, [Next]_vars,
                    NEW s \in Stores, NEW w \in data'[s]
             PROVE  /\ asked'[w[1]].mode # "readonly"
                    /\ asked'[w[1]].stmt = "create" /\ s \notin Permissive => w[1] \in loose'
  BY DEF CreatesWherePermitted, ReadonlyHarmless
<1>1. CASE w \in data[s]
  <2>1. w \in Requests \X (1..MaxRows)
    BY <1>1 DEF Shape, TypeOK
  <2>2. w[1] \in Requests /\ w[2] \in 1..MaxRows /\ w = <<w[1], w[2]>>
    BY <2>1
  <2>3. asked[w[1]] # None
    BY <1>1, <2>2 DEF Fresh
  <2>4. asked'[w[1]] = asked[w[1]] /\ (w[1] \in loose => w[1] \in loose')
    BY <2>2, <2>3, AskedStays
  <2> QED BY <1>1, <2>4 DEF CreatesWherePermitted, ReadonlyHarmless
<1>2. ASSUME NEW r \in Requests, w = <<r, task[r].i>>, s = task[r].engine,
             At(r, "execute"), MayStay(asked[r].stmt)
      PROVE  /\ asked'[w[1]].mode # "readonly"
             /\ asked'[w[1]].stmt = "create" /\ s \notin Permissive => w[1] \in loose'
  <2>1. w[1] = r /\ task[r] # None /\ task[r].at = "execute"
    BY <1>2 DEF At
  <2>2. asked'[r] = asked[r] /\ (r \in loose => r \in loose')
    BY <2>1, AskedStays DEF Shape, Begun
  <2> QED BY <1>2, <2>1, <2>2 DEF Checked, Serving
<1> QED BY <1>1, <1>2, StoresStep

Guarded == Fresh /\ Checked /\ EngineCurrent /\ CreatesWherePermitted /\ ReadonlyHarmless

LEMMA InitGuarded == Init => Guarded
  BY DEF Init, Guarded, Fresh, Checked, EngineCurrent, CreatesWherePermitted, ReadonlyHarmless, Nothing

LEMMA NextGuarded == Shape /\ Guarded /\ [Next]_vars => Guarded'
  BY NextFresh, NextChecked, NextCurrent, NextHarmless DEF Guarded

\* A CREATE has run only where the definition allows it, although it was checked against the
\* definition and run on an engine that was there already.
THEOREM CreatesPermitted == Spec => []CreatesWherePermitted
<1>1. Guarded => CreatesWherePermitted
  BY DEF Guarded
<1> QED BY InitType, NextType, InitGuarded, NextGuarded, <1>1, PTL DEF Spec

\* No request of a read-only key is ever committed.
THEOREM ReadonlyCommitsNothing == Spec => []ReadonlyHarmless
<1>1. Guarded => ReadonlyHarmless
  BY DEF Guarded
<1> QED BY InitType, NextType, InitGuarded, NextGuarded, <1>1, PTL DEF Spec

-----------------------------------------------------------------------------
(* Where rows come from.                                                   *)

\* Whatever is kept under the name of a database is a store that it has been defined as.
KnownAs(d) ==
    /\ config[d] # None => config[d] \in named[d]
    /\ engines[d] # None => engines[d] \in named[d]
    /\ \A k \in Cached : cache[<<d, k>>] # None => cache[<<d, k>>] \in named[d]

Known == \A d \in DBs : KnownAs(d)

RunsOwn ==
    \A r \in Requests :
        task[r] # None /\ task[r].at \in Serving => task[r].engine \in named[asked[r].d]

\* The names of a database are never forgotten.
LEMMA NamedGrows ==
    ASSUME Shape, [Next]_vars, NEW d \in DBs
    PROVE  named[d] \subseteq named'[d]
<1>1. ASSUME NEW r \in Requests, NEW e \in DBs, Begins(r, e) PROVE named' = named
  BY <1>1, BeginsStep
<1>2. ASSUME NEW r \in Requests, Run(r) PROVE named' = named
  BY <1>2, RunStep
<1>3. CASE Naming
  BY <1>3 DEF Naming
<1>4. CASE UNCHANGED named
  BY <1>4
<1>5. ASSUME NEW r \in Requests, Administers(r) PROVE named' = named
  BY <1>5, AdministerStep DEF history
<1>6. ASSUME NEW r \in Requests, Reload(r) PROVE named' = named \/ Naming
  BY <1>6, ReloadStep
<1> QED
  BY <1>1, <1>2, <1>3, <1>4, <1>5, <1>6, NextCases DEF HotReload, Restart, Expire, history, vars

\* A new configuration is entered among the names.
LEMMA NamingKnown ==
    ASSUME Shape, Known, Naming, UNCHANGED cache \/ cache' = [k \in DBs \X Cached |-> None],
           NEW d \in DBs, engines'[d] \in {engines[d], None}
    PROVE  KnownAs(d)'
<1>1. named'[d] = named[d] \cup ({config'[d]} \ {None})
  BY DEF Naming
<1> QED BY <1>1 DEF Known, KnownAs

LEMMA NextKnown == Shape /\ Known /\ RunsOwn /\ [Next]_vars => Known'
<1> SUFFICES ASSUME Shape, Known, RunsOwn, [Next]_vars, NEW e \in DBs PROVE KnownAs(e)'
  BY DEF Known
<1>1. ASSUME NEW r \in Requests, NEW d \in DBs, Begins(r, d) PROVE KnownAs(e)'
  BY <1>1, BeginsStep DEF Known, KnownAs
<1>2. ASSUME NEW r \in Requests, Run(r) PROVE KnownAs(e)'
  <2>1. UNCHANGED <<config, named>>
    BY <1>2, RunStep
  <2>2. engines'[e] = engines[e] \/ engines'[e] = None
    BY <1>2 DEF Shape, TypeOK, Run, Lookup, ExecuteRead, Store, ExecuteWrite, ExecuteFails, RemoveEngine
  <2>3. \A k \in Cached : cache'[<<e, k>>] # None => cache'[<<e, k>>] \in named[e]
    <3>1. CASE Store(r)
      <4>1. asked[r] \in Ask /\ task[r] # None /\ task[r].at = "store"
        BY <3>1 DEF Shape, TypeOK, Begun, Store, At
      <4>2. task[r].engine \in named[asked[r].d] /\ asked[r].d \in DBs /\ asked[r].stmt \in Cached
        BY <4>1 DEF RunsOwn, Ask, Shape, Placed, Serving
      <4>3. cache' = [cache EXCEPT ![<<asked[r].d, asked[r].stmt>>] = task[r].engine]
        BY <3>1 DEF Store
      <4>4. \A k \in Cached : cache'[<<e, k>>] =
                IF e = asked[r].d /\ k = asked[r].stmt THEN task[r].engine ELSE cache[<<e, k>>]
        BY <4>2, <4>3 DEF Shape, TypeOK
      <4> QED BY <4>2, <4>4 DEF Known, KnownAs
    <3>2. CASE UNCHANGED cache
      BY <3>2 DEF Known, KnownAs
    <3> QED BY <1>2, <3>1, <3>2 DEF Run, Lookup, ExecuteRead, ExecuteWrite, ExecuteFails, RemoveEngine
  <2> QED BY <2>1, <2>2, <2>3 DEF Known, KnownAs
<1>3. ASSUME NEW r \in Requests, Reload(r) PROVE KnownAs(e)'
  <2>1. UNCHANGED <<engines, cache>> /\ (Naming \/ UNCHANGED <<config, named>>)
    BY <1>3, ReloadStep
  <2>2. CASE Naming
    BY <2>1, <2>2, NamingKnown
  <2>3. CASE UNCHANGED <<config, named>>
    BY <2>1, <2>3 DEF Known, KnownAs
  <2> QED BY <2>1, <2>2, <2>3
<1>4. ASSUME NEW r \in Requests, Administers(r) PROVE KnownAs(e)'
  <2>1. UNCHANGED <<engines, cache, named>> /\ config'[e] \in {config[e], None}
    BY <1>4, AdministerStep DEF history
  <2> QED BY <2>1 DEF Known, KnownAs
<1>5. CASE HotReload
  BY <1>5, NamingKnown DEF HotReload
<1>6. CASE Restart
  BY <1>6, NamingKnown DEF Restart, Nothing
<1>7. ASSUME NEW k \in DBs \X Cached, Expire(k) PROVE KnownAs(e)'
  <2>1. \A j \in Cached : cache'[<<e, j>>] \in {cache[<<e, j>>], None}
    BY <1>7 DEF Shape, TypeOK, Expire
  <2> QED BY <1>7, <2>1 DEF Known, KnownAs, Expire, history
<1>8. CASE UNCHANGED vars
  BY <1>8 DEF vars, Known, KnownAs
<1> QED BY <1>1, <1>2, <1>3, <1>4, <1>5, <1>6, <1>7, <1>8, NextCases

LEMMA NextOwn ==
    Shape /\ Fresh /\ Known /\ RunsOwn /\ AnswersOwnDatabase /\ [Next]_vars
        => RunsOwn' /\ AnswersOwnDatabase'
<1> SUFFICES ASSUME Shape, Fresh, Known, RunsOwn, AnswersOwnDatabase, [Next]_vars, NEW q \in Requests
             PROVE  /\ task'[q] # None /\ task'[q].at \in Serving => task'[q].engine \in named'[asked'[q].d]
                    /\ answer'[q] # None => answer'[q] \in named'[asked'[q].d]
  BY DEF RunsOwn, AnswersOwnDatabase
<1> DEFINE Goal == /\ task'[q] # None /\ task'[q].at \in Serving => task'[q].engine \in named'[asked'[q].d]
                   /\ answer'[q] # None => answer'[q] \in named'[asked'[q].d]
           Runs   == task[q] # None /\ task[q].at \in Serving /\ task'[q].engine = task[q].engine
           NoTask == task'[q] = None \/ task'[q].at \notin Serving
<1>1. asked[q] # None => named[asked[q].d] \subseteq named'[asked'[q].d]
  <2> SUFFICES ASSUME asked[q] # None PROVE named[asked[q].d] \subseteq named'[asked'[q].d]
    OBVIOUS
  <2>1. asked[q].d \in DBs
    BY DEF Shape, TypeOK, Ask
  <2> QED BY <2>1, AskedStays, NamedGrows
<1>2. CASE (task'[q] = task[q] \/ Runs \/ NoTask) /\ answer'[q] = answer[q]
  BY <1>1, <1>2 DEF RunsOwn, AnswersOwnDatabase, Fresh, Shape, Begun
<1>3. ASSUME NEW r \in Requests, NEW d \in DBs, Begins(r, d) PROVE Goal
  <2>1. CASE q # r
    <3>1. task'[q] = task[q] /\ answer' = answer
      BY <1>3, <2>1, BeginsStep
    <3> QED BY <1>2, <3>1
  <2>2. CASE q = r
    <3>1. /\ answer' = answer /\ asked[q] = None /\ asked'[q].d = d /\ named' = named
          /\ UNCHANGED config
          /\ engines'[d] = engines[d] \/ engines'[d] = config[d]
          /\ task'[q] = None \/ (engines'[d] \in Stores /\ task'[q].engine = engines'[d])
      BY <1>3, <2>2, BeginsStep
    <3>2. answer'[q] = None
      BY <3>1 DEF Fresh
    <3>3. engines'[d] \in Stores => engines'[d] \in named[d]
      BY <3>1, DatabaseAssumption DEF Known, KnownAs
    <3> QED BY <3>1, <3>2, <3>3
  <2> QED BY <2>1, <2>2
<1>4. ASSUME NEW r \in Requests, Run(r) PROVE Goal
  <2>1. CASE q # r
    <3>1. task'[q] = task[q] /\ answer'[q] = answer[q]
      BY <1>4, <2>1, RunStep
    <3> QED BY <1>2, <3>1
  <2>2. CASE q = r
    <3>1. /\ task[q] \in Task /\ task[q] # None /\ asked' = asked /\ named' = named
          /\ asked[q] \in Ask
      BY <1>4, <2>2, RunStep
    <3>2. \/ task'[q] = None
          \/ task[q].at = "lookup" /\ task'[q] = [task[q] EXCEPT !.at = "execute"]
          \/ task[q].at = "execute" /\ task'[q] = [task[q] EXCEPT !.at = "store"]
          \/ task[q].at = "execute" /\ task'[q] = [task[q] EXCEPT !.i = @ + 1]
      BY <1>4, <2>2, RunStep
    <3>3. Runs \/ NoTask
      BY <3>1, <3>2 DEF Task, Serving
    <3>4. CASE answer'[q] = answer[q]
      BY <1>2, <3>3, <3>4
    <3>5. CASE Lookup(r)
      <4>1. task[q].at = "lookup" /\ asked[q].d \in DBs /\ asked[q].stmt \in Cached
        BY <2>2, <3>1, <3>5 DEF Lookup, At, Shape, Placed, Ask
      <4>2. answer'[q] = answer[q] \/ answer'[q] = cache[<<asked[q].d, asked[q].stmt>>]
        BY <2>2, <3>5 DEF Lookup, Shape, TypeOK
      <4>3. answer'[q] # None => answer'[q] \in named[asked[q].d]
        BY <4>1, <4>2 DEF Known, KnownAs, AnswersOwnDatabase
      <4> QED BY <1>1, <3>1, <3>3, <4>3 DEF RunsOwn
    <3>6. CASE ExecuteRead(r)
      <4>1. answer'[q] = task[q].engine /\ task[q].at = "execute"
        BY <2>2, <3>6 DEF ExecuteRead, At, Shape, TypeOK
      <4> QED BY <3>1, <3>3, <4>1 DEF RunsOwn, Serving
    <3> QED BY <1>4, <2>2, <3>4, <3>5, <3>6 DEF Run, Store, ExecuteWrite, ExecuteFails, RemoveEngine
  <2> QED BY <2>1, <2>2
<1>5. ASSUME NEW r \in Requests, Administers(r) \/ Reload(r) PROVE Goal
  <2>1. /\ task'[r] = None \/ task'[r].at \notin Serving
        /\ answer' = answer
        /\ \A s \in Requests : s # r => task'[s] = task[s]
    BY <1>5, AdministerStep, ReloadStep DEF Serving
  <2> QED BY <1>2, <2>1
<1>6. CASE Restart
  BY <1>2, <1>6 DEF Restart
<1>7. CASE UNCHANGED <<task, answer>>
  BY <1>2, <1>7
<1>8. ASSUME NEW k \in DBs \X Cached, Expire(k) PROVE Goal
  BY <1>7, <1>8 DEF Expire
<1>9. CASE HotReload
  BY <1>7, <1>9 DEF HotReload
<1> QED BY <1>3, <1>4, <1>5, <1>6, <1>7, <1>8, <1>9, NextCases DEF vars

\* Rows come from a database that had the name that was asked for, whatever is cached and
\* whatever is redefined meanwhile.
THEOREM AnswersOwn == Spec => []AnswersOwnDatabase
<1> DEFINE Inv == Fresh /\ Known /\ RunsOwn /\ AnswersOwnDatabase
<1>1. Init => Inv
  <2> SUFFICES ASSUME Init PROVE Inv
    OBVIOUS
  <2>1. Known
    BY DEF Init, Known, KnownAs, Nothing
  <2> QED BY <2>1 DEF Init, Fresh, RunsOwn, AnswersOwnDatabase
<1>2. Shape /\ Inv /\ [Next]_vars => Inv'
  BY NextFresh, NextKnown, NextOwn
<1>3. Inv => AnswersOwnDatabase
  OBVIOUS
<1> HIDE DEF Inv
<1> QED BY InitType, NextType, <1>1, <1>2, <1>3, PTL DEF Spec

-----------------------------------------------------------------------------
(* What is answered as written.                                            *)

IsWrite(q) == asked[q] # None /\ asked[q].stmt \in {"insert", "create"}

\* A write that runs has committed the rows before the one it is at, and has not been told of.
Going(q) ==
    task[q] # None =>
        /\ task[q].at = "execute" /\ outcome[q] = "none" /\ q \notin events
        /\ \A s \in Stores : Rows(q, s) = IF s = task[q].engine THEN 1..(task[q].i - 1) ELSE {}

Told(q) ==
    /\ outcome[q] = "ok" \/ q \in events => \E s \in Stores : Rows(q, s) = 1..asked[q].n
    /\ \A s \in Stores : \A i \in Rows(q, s) : 1..i \subseteq Rows(q, s)

Written == \A q \in Requests : IsWrite(q) => Going(q) /\ Told(q)

\* A step that leaves the store, the task and the fate of a request alone.
LEMMA WriteStays ==
    ASSUME Written, NEW q \in Requests, IsWrite(q)', asked[q] = asked'[q],
           \A s \in Stores : Rows(q, s)' = Rows(q, s),
           \/ UNCHANGED <<task[q], outcome[q]>>
           \/ task'[q] = None /\ outcome'[q] = IF task[q] # None THEN "failed" ELSE outcome[q],
           q \in events' <=> q \in events
    PROVE  Going(q)' /\ Told(q)'
<1>1. IsWrite(q) /\ Going(q) /\ Told(q)
  BY DEF Written, IsWrite
<1>2. Told(q)'
  BY <1>1 DEF Told, Going
<1>3. Going(q)'
  <2>1. CASE UNCHANGED <<task[q], outcome[q]>>
    BY <1>1, <2>1 DEF Going
  <2>2. CASE task'[q] = None
    BY <2>2 DEF Going
  <2> QED BY <2>1, <2>2
<1> QED BY <1>2, <1>3

\* A row of a write is committed, or fails.
LEMMA WriteRuns ==
    ASSUME Shape, Written, NEW q \in Requests, IsWrite(q), Run(q)
    PROVE  Going(q)' /\ Told(q)'
<1>1. /\ task[q] # None /\ task[q] \in Task /\ asked[q] \in Ask /\ asked' = asked
  BY RunStep
<1>2. /\ task[q].at = "execute" /\ outcome[q] = "none" /\ q \notin events
      /\ \A s \in Stores : Rows(q, s) = IF s = task[q].engine THEN 1..(task[q].i - 1) ELSE {}
  BY <1>1 DEF Written, Going
<1>3. /\ task[q].engine \in Stores /\ task[q].i \in 1..MaxRows /\ asked[q].n \in 1..MaxRows
      /\ asked[q].stmt \in {"insert", "create"} /\ asked[q].stmt \notin Cached
  BY <1>1, <1>2 DEF Shape, Placed, Serving, Task, Ask, IsWrite, Cached
<1>4. ExecuteWrite(q) \/ ExecuteFails(q)
  BY <1>2, <1>3 DEF Run, Lookup, ExecuteRead, Store, RemoveEngine, At
<1>5. ASSUME Commit(q), NEW s \in Stores
      PROVE  Rows(q, s)' = IF s = task[q].engine THEN 1..task[q].i ELSE {}
  <2>1. data'[s] = IF s = task[q].engine THEN data[s] \cup {<<q, task[q].i>>} ELSE data[s]
    BY <1>1, <1>2, <1>3, <1>5, CommitType DEF At, Commits
  <2>2. Rows(q, s)' = IF s = task[q].engine THEN Rows(q, s) \cup {task[q].i} ELSE Rows(q, s)
    BY <1>3, <2>1 DEF Rows
  <2>3. 1..task[q].i = 1..(task[q].i - 1) \cup {task[q].i}
    BY <1>3, DatabaseAssumption
  <2> QED BY <1>2, <2>2, <2>3
<1>6. ASSUME UNCHANGED data, NEW s \in Stores PROVE Rows(q, s)' = Rows(q, s)
  BY <1>6 DEF Rows
<1>7. \A s \in Stores : \A i \in Rows(q, s)' : 1..i \subseteq Rows(q, s)'
  <2> SUFFICES ASSUME NEW s \in Stores, NEW i \in Rows(q, s)' PROVE 1..i \subseteq Rows(q, s)'
    OBVIOUS
  <2>1. CASE Commit(q)
    <3>1. Rows(q, s)' = IF s = task[q].engine THEN 1..task[q].i ELSE {}
      BY <1>5, <2>1
    <3> QED BY <1>3, <3>1, DatabaseAssumption
  <2>2. CASE UNCHANGED data
    <3>1. Rows(q, s)' = IF s = task[q].engine THEN 1..(task[q].i - 1) ELSE {}
      BY <1>2, <1>6, <2>2
    <3> QED BY <1>3, <3>1, DatabaseAssumption
  <2> QED BY <1>4, <2>1, <2>2 DEF ExecuteWrite, ExecuteFails
<1>8. CASE ExecuteWrite(q)
  <2>1. \A s \in Stores : Rows(q, s)' = IF s = task[q].engine THEN 1..task[q].i ELSE {}
    BY <1>5, <1>8 DEF ExecuteWrite
  <2>2. CASE task[q].i < asked[q].n /\ task' = [task EXCEPT ![q].i = @ + 1] /\ UNCHANGED <<events, outcome>>
    <3>1. /\ task'[q].i = task[q].i + 1 /\ task'[q].at = task[q].at /\ task'[q].engine = task[q].engine
      BY <1>1, <2>2 DEF Shape, TypeOK, Task
    <3>2. task'[q].i - 1 = task[q].i
      BY <1>3, <3>1, DatabaseAssumption
    <3>3. Going(q)'
      BY <1>2, <2>1, <2>2, <3>1, <3>2 DEF Going
    <3> QED BY <1>2, <1>7, <2>2, <3>3 DEF Told
  <2>3. CASE task[q].i = asked[q].n /\ End(q, "ok")
    <3>1. task'[q] = None
      BY <2>3 DEF Shape, TypeOK, End
    <3>2. \E s \in Stores : Rows(q, s)' = 1..asked'[q].n
      <4>1. asked'[q].n = task[q].i
        BY <1>1, <2>3
      <4>2. ASSUME NEW s \in Stores, s = task[q].engine PROVE Rows(q, s)' = 1..asked'[q].n
        BY <2>1, <4>1, <4>2
      <4> QED BY <1>3, <4>2
    <3> QED BY <1>7, <3>1, <3>2 DEF Going, Told
  <2> QED BY <1>8, <2>2, <2>3 DEF ExecuteWrite
<1>9. CASE ExecuteFails(q)
  <2>1. task'[q] = None /\ outcome'[q] = "failed" /\ events' = events
    BY <1>9 DEF Shape, TypeOK, ExecuteFails, End
  <2> QED BY <1>2, <1>7, <2>1 DEF Going, Told
<1> QED BY <1>4, <1>8, <1>9

LEMMA NextWritten == Shape /\ Fresh /\ Written /\ [Next]_vars => Written'
<1> SUFFICES ASSUME Shape, Fresh, Written, [Next]_vars, NEW q \in Requests, IsWrite(q)'
             PROVE  Going(q)' /\ Told(q)'
  BY DEF Written
<1> DEFINE Goal == Going(q)' /\ Told(q)'
<1>1. CASE /\ asked'[q] = asked[q] /\ data' = data /\ (q \in events' <=> q \in events)
           /\ \/ UNCHANGED <<task[q], outcome[q]>>
              \/ task'[q] = None /\ outcome'[q] = IF task[q] # None THEN "failed" ELSE outcome[q]
  BY <1>1, WriteStays DEF Rows
<1>2. ASSUME NEW r \in Requests, NEW d \in DBs, Begins(r, d) PROVE Goal
  <2>1. CASE q # r
    <3>1. /\ asked'[q] = asked[q] /\ data' = data /\ events' = events
          /\ task'[q] = task[q] /\ outcome'[q] = outcome[q]
      BY <1>2, <2>1, BeginsStep
    <3> QED BY <1>1, <3>1
  <2>2. CASE q = r
    <3>1. /\ asked[q] = None /\ data' = data /\ events' = events
          /\ \/ task'[q] = None /\ outcome'[q] \in {"refused", "failed"}
             \/ /\ outcome'[q] = outcome[q] /\ task'[q].i = 1
                /\ task'[q].at = IF asked'[q].stmt \in Cached THEN "lookup" ELSE "execute"
      BY <1>2, <2>2, BeginsStep
    <3>2. /\ outcome[q] = "none" /\ q \notin events
          /\ \A s \in Stores : Rows(q, s)' = {}
      BY <3>1 DEF Fresh, Rows
    <3>3. Told(q)'
      BY <3>1, <3>2 DEF Told
    <3>4. CASE task'[q] = None
      BY <3>3, <3>4 DEF Going
    <3>5. CASE outcome'[q] = outcome[q] /\ task'[q].i = 1
               /\ task'[q].at = IF asked'[q].stmt \in Cached THEN "lookup" ELSE "execute"
      <4>1. task'[q].at = "execute" /\ 1..(task'[q].i - 1) = {}
        BY <3>5 DEF IsWrite, Cached
      <4> QED BY <3>1, <3>2, <3>3, <3>5, <4>1 DEF Going
    <3> QED BY <3>1, <3>4, <3>5
  <2> QED BY <2>1, <2>2
<1>3. ASSUME NEW r \in Requests, Run(r) PROVE Goal
  <2>1. asked' = asked
    BY <1>3, RunStep
  <2>2. CASE q # r
    <3>1. /\ task'[q] = task[q] /\ outcome'[q] = outcome[q] /\ (q \in events' <=> q \in events)
      BY <1>3, <2>2, RunStep
    <3>2. \A s \in Stores, i \in 1..MaxRows : <<q, i>> \in data'[s] <=> <<q, i>> \in data[s]
      BY <1>3, <2>2, DataStep
    <3>3. \A s \in Stores : Rows(q, s)' = Rows(q, s)
      BY <3>2 DEF Rows
    <3> QED BY <2>1, <3>1, <3>3, WriteStays
  <2>3. CASE q = r
    <3>1. IsWrite(q)
      BY <2>1 DEF IsWrite
    <3> QED BY <1>3, <2>3, <3>1, WriteRuns
  <2> QED BY <2>2, <2>3
<1>4. ASSUME NEW r \in Requests, Administers(r) PROVE Goal
  <2>1. /\ UNCHANGED <<outcome, events, data>> /\ asked'[r].stmt = "none"
        /\ \A s \in Requests : s # r => task'[s] = task[s] /\ asked'[s] = asked[s]
    BY <1>4, AdministerStep
  <2>2. q # r
    BY <2>1 DEF IsWrite
  <2> QED BY <1>1, <2>1, <2>2
<1>r. ASSUME NEW r \in Requests, Reload(r) PROVE Goal
  <2>1. /\ UNCHANGED <<asked, events, data>> /\ task[r] # None /\ task[r].at \in {"read", "apply"}
        /\ \A s \in Requests : s # r => task'[s] = task[s] /\ outcome'[s] = outcome[s]
    BY <1>r, ReloadStep
  <2>2. asked'[r].stmt = "none"
    BY <2>1 DEF Shape, Placed
  <2>3. q # r
    BY <2>2 DEF IsWrite
  <2> QED BY <1>1, <2>1, <2>3
<1>5. CASE Restart
  BY <1>1, <1>5 DEF Restart
<1>6. CASE UNCHANGED <<asked, data, events, task, outcome>>
  BY <1>1, <1>6
<1>7. ASSUME NEW k \in DBs \X Cached, Expire(k) PROVE Goal
  BY <1>6, <1>7 DEF Expire
<1>8. CASE HotReload
  BY <1>6, <1>8 DEF HotReload
<1> QED BY <1>2, <1>3, <1>4, <1>r, <1>5, <1>6, <1>7, <1>8, NextCases DEF vars

\* What was answered as written, or told of, is committed whole, for any number of rows and
\* whatever fails.
THEOREM AnsweredCommitted == Spec => []AnsweredIsCommitted
<1> DEFINE Inv == Fresh /\ Written
<1>1. Init => Inv
  BY DEF Init, Fresh, Written, IsWrite
<1>2. Shape /\ Inv /\ [Next]_vars => Inv'
  BY NextFresh, NextWritten
<1>3. Inv => AnsweredIsCommitted
  BY DEF Written, IsWrite, Told, AnsweredIsCommitted
<1> HIDE DEF Inv
<1> QED BY InitType, NextType, <1>1, <1>2, <1>3, PTL DEF Spec
=============================================================================
