--------------------------- MODULE BanStoreProofs ---------------------------
(***************************************************************************)
(* That a worker's ban dictionary agrees with the table wherever writes    *)
(* have not overlapped (AloneAgrees), for any number of workers, entities  *)
(* and coroutines.                                                         *)
(***************************************************************************)
EXTENDS BanStore, TLAPS

\* What the kind of a coroutine says of its record.
LEMMA TaskKinds ==
    ASSUME TypeOK, NEW t \in Slots
    PROVE  /\ IsWrite(t) => task[t] \in Write
           /\ IsReload(t) => task[t] \in Reload
           /\ task[t].kind \in {"ban", "unban", "cleanup"} => IsWrite(t)
           /\ ~(IsWrite(t) /\ IsReload(t))
           /\ IsFree(t) => ~IsWrite(t) /\ ~IsReload(t)
           /\ IsFree(t) \/ IsWrite(t) \/ IsReload(t)
  BY DEF TypeOK, IsWrite, IsReload, IsFree, Write, Reload, Free, WriteKinds

\* A slot that Fork has touched.
LEMMA ForkType ==
    ASSUME TypeOK, NEW t \in Slots, NEW kind \in WriteKinds, NEW w \in Workers,
           NEW e \in Entities, NEW exp \in Entry, Fork(t, kind, w, e, exp)
    PROVE  /\ task' \in [Slots -> Write \cup Reload \cup {Free}]
           /\ alone' \in [Workers -> SUBSET Entities]
<1>1. ASSUME NEW s \in Slots
      PROVE  task'[s] \in Write \cup Reload \cup {Free}
  <2>1. CASE s = t
    <3>1. task'[s] = NewWrite(kind, w, e, exp)
      BY <2>1 DEF Fork
    <3>2. NewWrite(kind, w, e, exp) \in Write
      BY DEF NewWrite, Write
    <3> QED BY <3>1, <3>2
  <2>2. CASE s # t
    <3>1. task'[s] = Overlapped(s, e)
      BY <2>2 DEF Fork
    <3>2. CASE IsReload(s)
      BY <3>1, <3>2, TaskKinds DEF Overlapped, Reload
    <3>3. CASE ~IsReload(s)
      BY <3>1, <3>3 DEF Overlapped, TypeOK
    <3> QED BY <3>2, <3>3
  <2> QED BY <2>1, <2>2
<1>2. task' = [s \in Slots |-> task'[s]]
  BY DEF Fork
<1>3. alone' \in [Workers -> SUBSET Entities]
  BY DEF Fork, Disturb, TypeOK
<1> QED BY <1>1, <1>2, <1>3

LEMMA InitType == Init => TypeOK
  BY BanStoreAssumption DEF Init, TypeOK, NoEntries, Entry, Expiry, Free

\* Every step of the registry keeps its types.
LEMMA NextType == TypeOK /\ [Next]_vars => TypeOK'
<1> SUFFICES ASSUME TypeOK, [Next]_vars PROVE TypeOK'
  OBVIOUS
<1> USE BanStoreAssumption
<1>1. ASSUME NEW w \in Workers, NEW e \in Entities, NEW t \in Slots,
             NEW d \in Durations, BeginBan(w, e, t, d)
      PROVE  TypeOK'
  <2>1. ExpiresAt(d) \in Entry
    BY DEF ExpiresAt, Entry, Expiry, TypeOK
  <2> QED BY <1>1, <2>1, ForkType DEF BeginBan, TypeOK, WriteKinds
<1>2. ASSUME NEW w \in Workers, NEW e \in Entities, NEW t \in Slots, BeginUnban(w, e, t)
      PROVE  TypeOK'
  BY <1>2, ForkType DEF BeginUnban, TypeOK, WriteKinds, Entry
<1>3. ASSUME NEW w \in Workers, NEW e \in Entities, NEW t \in Slots, CheckExpired(w, e, t)
      PROVE  TypeOK'
  BY <1>3, ForkType DEF CheckExpired, TypeOK, WriteKinds, Entry
<1>4. ASSUME NEW w \in Workers, NEW t \in Slots, BeginReload(w, t)
      PROVE  TypeOK'
  <2> DEFINE fresh == {e \in Entities : Undisturbed(w, e)}
  <2>1. [kind |-> "reload", w |-> w, selected |-> FALSE, at |-> now,
         rows |-> NoEntries, fresh |-> fresh] \in Reload
    BY DEF Reload, NoEntries, Entry, TypeOK
  <2> QED BY <1>4, <2>1 DEF BeginReload, TypeOK, NoEntries, Entry
<1>5. ASSUME NEW t \in Slots, CommitBan(t) PROVE TypeOK'
  <2>1. task[t] \in Write
    BY <1>5, TaskKinds DEF CommitBan
  <2> QED BY <1>5, <2>1 DEF CommitBan, TypeOK, Write
<1>6. ASSUME NEW t \in Slots, CommitUnban(t) PROVE TypeOK'
  <2>1. task[t] \in Write
    BY <1>6, TaskKinds DEF CommitUnban
  <2> QED BY <1>6, <2>1 DEF CommitUnban, TypeOK, Write, Entry
<1>7. ASSUME NEW t \in Slots, ApplyBan(t) PROVE TypeOK'
  <2>1. task[t] \in Write
    BY <1>7, TaskKinds DEF ApplyBan
  <2> QED BY <1>7, <2>1 DEF ApplyBan, TypeOK, Write
<1>8. ASSUME NEW t \in Slots, ApplyUnban(t) PROVE TypeOK'
  <2>1. task[t] \in Write
    BY <1>8, TaskKinds DEF ApplyUnban
  <2> QED BY <1>8, <2>1 DEF ApplyUnban, TypeOK, Write, Entry
<1>9. ASSUME NEW t \in Slots, SelectRows(t) PROVE TypeOK'
  <2>1. task[t] \in Reload
    BY <1>9, TaskKinds DEF SelectRows
  <2> QED BY <1>9, <2>1 DEF SelectRows, TypeOK, Reload
<1>10. ASSUME NEW t \in Slots, FillCache(t) PROVE TypeOK'
  <2>1. task[t] \in Reload
    BY <1>10, TaskKinds DEF FillCache
  <2> QED BY <1>10, <2>1 DEF FillCache, TypeOK, Reload
<1>11. ASSUME NEW t \in Slots, Fail(t) PROVE TypeOK'
  <2>1. CASE IsWrite(t)
    BY <1>11, <2>1, TaskKinds DEF Fail, TypeOK
  <2>2. CASE IsReload(t)
    BY <1>11, <2>2, TaskKinds DEF Fail, TypeOK, Reload
  <2> QED BY <1>11, <2>1, <2>2 DEF Fail
<1>12. ASSUME NEW w \in Workers, Crash(w) PROVE TypeOK'
  BY <1>12 DEF Crash, TypeOK, NoEntries, Entry
<1>13. CASE Tick
  BY <1>13 DEF Tick, TypeOK
<1>14. CASE UNCHANGED vars
  BY <1>14 DEF vars, TypeOK
<1> QED
  BY <1>1, <1>2, <1>3, <1>4, <1>5, <1>6, <1>7, <1>8, <1>9, <1>10, <1>11, <1>12,
     <1>13, <1>14 DEF Next, Step

\* The registry's variables keep their types.
THEOREM TypeCorrect == Spec => []TypeOK
  BY InitType, NextType, PTL DEF Spec

-----------------------------------------------------------------------------
(* The inductive invariant.                                                *)

\* The coroutine that Fork starts.
LEMMA ForkNew ==
    ASSUME TypeOK, NEW t \in Slots, NEW kind \in WriteKinds, NEW w \in Workers,
           NEW e \in Entities, NEW exp \in Entry, Fork(t, kind, w, e, exp)
    PROVE  /\ IsFree(t)
           /\ task'[t].kind = kind
           /\ task'[t].w = w
           /\ task'[t].e = e
           /\ task'[t].committed = FALSE
<1>1. task'[t] = NewWrite(kind, w, e, exp)
  BY DEF Fork
<1> QED BY <1>1 DEF NewWrite, Fork

\* What Fork leaves of the other coroutines.
LEMMA ForkOthers ==
    ASSUME TypeOK, NEW t \in Slots, NEW kind \in WriteKinds, NEW w \in Workers,
           NEW e \in Entities, NEW exp \in Entry, Fork(t, kind, w, e, exp),
           NEW s \in Slots, s # t
    PROVE  /\ task'[s].kind = task[s].kind
           /\ IsWrite(s) => task'[s].w = task[s].w
           /\ IsWrite(s) => task'[s].e = task[s].e
           /\ IsWrite(s) => task'[s].committed = task[s].committed
           /\ IsWrite(s) => task'[s].exp = task[s].exp
           /\ IsWrite(s) => task'[s].hit = task[s].hit
           /\ IsReload(s) => task'[s].w = task[s].w
           /\ IsReload(s) => task'[s].selected = task[s].selected
           /\ IsReload(s) => task'[s].at = task[s].at
           /\ IsReload(s) => task'[s].rows = task[s].rows
           /\ IsReload(s) => task'[s].fresh = task[s].fresh \ {e}
<1>1. task'[s] = Overlapped(s, e)
  BY DEF Fork
<1>2. CASE IsReload(s)
  <2>1. task[s] \in Reload
    BY <1>2, TaskKinds
  <2>2. task'[s] = [task[s] EXCEPT !.fresh = @ \ {e}]
    BY <1>1, <1>2 DEF Overlapped
  <2> QED BY <1>2, <2>1, <2>2 DEF Reload, IsReload, IsWrite, WriteKinds
<1>3. CASE ~IsReload(s)
  <2>1. task'[s] = task[s]
    BY <1>1, <1>3 DEF Overlapped
  <2> QED BY <1>3, <2>1 DEF IsReload, IsWrite
<1> QED BY <1>2, <1>3

\* Beginning a write: nothing becomes alone, and the entity stays alone only if the new
\* write is the only coroutine that touches it.
LEMMA ForkInv ==
    ASSUME Inv, TypeOK', NEW t \in Slots, NEW kind \in WriteKinds, NEW w \in Workers,
           NEW e \in Entities, NEW exp \in Entry, Fork(t, kind, w, e, exp),
           up[w], now' = now, db' = db, up' = up,
           \/ cache' = cache
           \/ Expired(cache[w][e]) /\ cache' = [cache EXCEPT ![w][e] = NoBan]
    PROVE  Inv'
<1> USE BanStoreAssumption DEF Inv
<1>1. ASSUME NEW v \in Workers, NEW f \in Entities
      PROVE  /\ Live(cache[v][f])' = Live(cache[v][f])
             /\ Live(db[f])' = Live(db[f])
             /\ cache[v][f] = NoBan => cache'[v][f] = NoBan
  BY DEF Live, Expired, TypeOK
<1>2. ASSUME NEW v \in Workers, NEW f \in alone'[v]
      PROVE  f \in Entities /\ f \in alone[v] /\ (f = e => v = w /\ Quiet(w, e))
  BY <1>2 DEF Fork, Disturb, TypeOK
\* The coroutines as Touches and the invariant see them.
<1>3. /\ IsFree(t) /\ IsWrite(t)' /\ ~IsReload(t)'
      /\ task'[t].w = w /\ task'[t].e = e /\ task'[t].committed = FALSE
  <2>1. /\ IsFree(t) /\ task'[t].kind = kind
        /\ task'[t].w = w /\ task'[t].e = e /\ task'[t].committed = FALSE
    BY ForkNew
  <2> QED BY <2>1 DEF IsWrite, IsReload, WriteKinds
<1>4. ASSUME NEW s \in Slots, s # t
      PROVE  /\ IsWrite(s)' <=> IsWrite(s)
             /\ IsReload(s)' <=> IsReload(s)
             /\ task'[s].kind = task[s].kind
             /\ IsWrite(s) => /\ task'[s].w = task[s].w
                              /\ task'[s].e = task[s].e
                              /\ task'[s].committed = task[s].committed
                              /\ task'[s].exp = task[s].exp /\ task'[s].hit = task[s].hit
             /\ IsReload(s) => /\ task'[s].w = task[s].w
                               /\ task'[s].selected = task[s].selected
                               /\ task'[s].at = task[s].at /\ task'[s].rows = task[s].rows
                               /\ task'[s].fresh = task[s].fresh \ {e}
  <2>1. task'[s].kind = task[s].kind
    BY <1>4, ForkOthers
  <2>2. (IsWrite(s)' <=> IsWrite(s)) /\ (IsReload(s)' <=> IsReload(s))
    BY <2>1 DEF IsWrite, IsReload
  <2> QED BY <1>4, <2>1, <2>2, ForkOthers
<1>5. ASSUME NEW s \in Slots, NEW v \in Workers, NEW f \in Entities
      PROVE  Touches(s, v, f)' <=> (s = t /\ f = e) \/ Touches(s, v, f)
  <2>1. CASE s = t
    BY <2>1, <1>3, TaskKinds DEF Touches
  <2>2. CASE s # t
    BY <2>2, <1>4 DEF Touches
  <2> QED BY <2>1, <2>2
<1>6. AloneStates'
  <2> SUFFICES ASSUME NEW v \in Workers, NEW s \in Slots, NEW f \in alone'[v]
               PROVE  /\ AloneWrite(v, f, s)'
                      /\ (IsReload(s) /\ task[s].w = v => f \in task[s].fresh)'
    BY DEF AloneStates
  <2>1. f \in Entities /\ f \in alone[v]
    BY <1>2
  <2>2. CASE f = e
    <3>1. v = w /\ \A r \in Slots : ~Touches(r, v, f)
      BY <1>2, <2>2 DEF Quiet
    <3>2. Agree(v, f)'
      BY <1>1, <2>1, <2>2, <3>1 DEF AloneAgrees, Quiet, Agree
    <3>3. \A r \in Slots \ {t} : ~Touches(r, v, f)'
      BY <2>1, <3>1, <1>5
    <3>4. ~(IsReload(s)' /\ task'[s].w = v)
      BY <1>3, <3>3 DEF Touches
    <3>5. IsWrite(s)' /\ task'[s].e = f => s = t
      BY <3>3 DEF Touches
    <3> QED BY <1>3, <3>1, <3>2, <3>3, <3>4, <3>5 DEF AloneWrite
  <2>3. CASE f # e
    <3>1. /\ AloneWrite(v, f, s)
          /\ IsReload(s) /\ task[s].w = v => f \in task[s].fresh
      BY <2>1 DEF AloneStates
    <3>2. \A r \in Slots : Touches(r, v, f)' <=> Touches(r, v, f)
      BY <1>5, <2>1, <2>3
    <3>3. Agree(v, f)' <=> Agree(v, f)
      BY <1>1, <2>1 DEF Agree
    <3>4. AloneWrite(v, f, s)'
      <4> SUFFICES ASSUME IsWrite(s)', task'[s].e = f PROVE AloneWrite(v, f, s)'
        BY DEF AloneWrite
      <4>1. s # t
        BY <1>3, <2>3
      <4>2. IsWrite(s) /\ task[s].e = f
        BY <1>4, <4>1
      <4>3. Live(cache[v][f])' = Live(cache[v][f])
        BY <1>1, <2>1
      <4> QED BY <4>1, <4>2, <4>3, <1>4, <3>1, <3>2, <3>3 DEF AloneWrite
    <3>5. IsReload(s)' /\ task'[s].w = v => f \in task'[s].fresh
      BY <1>3, <1>4, <2>3, <3>1
    <3> QED BY <3>4, <3>5
  <2> QED BY <2>2, <2>3
<1>7. FreshStates'
  <2> SUFFICES ASSUME NEW s \in Slots, IsReload(s)'
               PROVE  (task[s].at <= now /\ \A f \in task[s].fresh : FreshRow(s, f))'
    BY DEF FreshStates
  <2>1. s # t /\ IsReload(s)
    BY <1>3, <1>4
  <2>2. task[s].at <= now /\ \A f \in task[s].fresh : FreshRow(s, f)
    BY <2>1 DEF FreshStates
  <2>3. ASSUME NEW f \in task'[s].fresh PROVE FreshRow(s, f)'
    <3>1. f # e /\ f \in task[s].fresh
      BY <2>1, <2>3, <1>4
    <3>2. f \in Entities /\ task[s].w \in Workers
      BY <2>1, <3>1, TaskKinds DEF Reload
    <3>3. FreshRow(s, f)
      BY <2>2, <3>1
    <3>4. \A r \in Slots : IsWrite(r)' => task'[r].e # f
      BY <1>3, <1>4, <3>1, <3>3 DEF FreshRow
    <3>5. \A r \in Slots : IsReload(r)' /\ task'[r].w = task'[s].w => f \in task'[r].fresh
      BY <1>3, <1>4, <2>1, <3>1, <3>3 DEF FreshRow
    <3>6. task'[s].selected => task'[s].rows[f] = db'[f]
      BY <1>4, <2>1, <3>3 DEF FreshRow
    <3>7. (cache[task[s].w][f] = NoBan \/ Agree(task[s].w, f))'
      BY <1>1, <1>4, <2>1, <3>2, <3>3 DEF FreshRow, Agree
    <3> QED BY <3>4, <3>5, <3>6, <3>7 DEF FreshRow
  <2>4. (task[s].at <= now)'
    BY <1>4, <2>1, <2>2
  <2> QED BY <2>3, <2>4
<1>8. AloneAgrees'
  <2> SUFFICES ASSUME NEW v \in Workers, NEW f \in Entities, up'[v], f \in alone'[v],
                      Quiet(v, f)'
               PROVE  Agree(v, f)'
    BY DEF AloneAgrees
  <2>1. Quiet(v, f)
    BY <1>5 DEF Quiet
  <2> QED BY <1>1, <1>2, <2>1 DEF AloneAgrees, Agree
<1> QED BY <1>6, <1>7, <1>8

\* Beginning a reload: what stays alone, and what is fresh, is what no write touches.
LEMMA BeginReloadInv ==
    ASSUME Inv, TypeOK', NEW w \in Workers, NEW t \in Slots, BeginReload(w, t)
    PROVE  Inv'
<1> USE BanStoreAssumption DEF Inv
<1> DEFINE fresh == {e \in Entities : Undisturbed(w, e)}
<1>1. /\ IsFree(t) /\ ~IsWrite(t)' /\ IsReload(t)'
      /\ task'[t].w = w /\ task'[t].at = now /\ task'[t].fresh = fresh
      /\ task'[t].selected = FALSE
  BY DEF BeginReload, IsWrite, IsReload, WriteKinds, TypeOK
<1>2. ASSUME NEW s \in Slots, s # t
      PROVE  /\ task'[s] = task[s]
             /\ IsWrite(s)' <=> IsWrite(s)
             /\ IsReload(s)' <=> IsReload(s)
  BY <1>2 DEF BeginReload, IsWrite, IsReload, TypeOK
<1>3. now' = now /\ db' = db /\ up' = up
  BY DEF BeginReload
<1>4. /\ \A e \in Entities : cache'[w][e] = NoBan
      /\ \A v \in Workers \ {w} : cache'[v] = cache[v]
  BY DEF BeginReload, NoEntries, TypeOK
<1>5. ASSUME NEW v \in Workers, NEW e \in alone'[v]
      PROVE  e \in Entities /\ e \in alone[v] /\ (v = w => e \in fresh)
  BY <1>5 DEF BeginReload, TypeOK
<1>6. ASSUME NEW e \in fresh, NEW s \in Slots
      PROVE  /\ IsWrite(s) => task[s].e # e
             /\ IsReload(s) /\ task[s].w = w => e \in task[s].fresh
  BY <1>6 DEF Undisturbed
<1>7. AloneStates'
  <2> SUFFICES ASSUME NEW v \in Workers, NEW s \in Slots, NEW e \in alone'[v]
               PROVE  /\ AloneWrite(v, e, s)'
                      /\ (IsReload(s) /\ task[s].w = v => e \in task[s].fresh)'
    BY DEF AloneStates
  <2>1. e \in Entities /\ e \in alone[v] /\ (v = w => e \in fresh)
    BY <1>5
  <2>2. AloneWrite(v, e, s)'
    <3> SUFFICES ASSUME IsWrite(s)', task'[s].e = e PROVE AloneWrite(v, e, s)'
      BY DEF AloneWrite
    <3>1. s # t /\ IsWrite(s) /\ task[s].e = e /\ task'[s] = task[s]
      BY <1>1, <1>2
    <3>2. v # w
      BY <2>1, <3>1, <1>6
    <3>3. AloneWrite(v, e, s)
      BY <2>1 DEF AloneStates
    <3>4. \A r \in Slots \ {s} : ~Touches(r, v, e)'
      <4> SUFFICES ASSUME NEW r \in Slots \ {s} PROVE ~Touches(r, v, e)'
        OBVIOUS
      <4>1. ~Touches(r, v, e)
        BY <3>1, <3>3 DEF AloneWrite
      <4>2. CASE r = t
        BY <4>2, <1>1, <3>2 DEF Touches
      <4>3. CASE r # t
        BY <4>1, <4>3, <1>2 DEF Touches
      <4> QED BY <4>2, <4>3
    <3>5. Agree(v, e)' <=> Agree(v, e)
      BY <1>3, <1>4, <3>2 DEF Agree, Live, Expired
    <3>6. Live(cache[v][e])' = Live(cache[v][e])
      BY <1>3, <1>4, <3>2 DEF Live, Expired
    <3> QED BY <1>3, <3>1, <3>3, <3>4, <3>5, <3>6 DEF AloneWrite
  <2>3. IsReload(s)' /\ task'[s].w = v => e \in task'[s].fresh
    <3>1. CASE s = t
      BY <3>1, <1>1, <2>1
    <3>2. CASE s # t
      BY <3>2, <1>2, <2>1 DEF AloneStates
    <3> QED BY <3>1, <3>2
  <2> QED BY <2>2, <2>3
<1>8. FreshStates'
  <2> SUFFICES ASSUME NEW s \in Slots, IsReload(s)'
               PROVE  (task[s].at <= now /\ \A e \in task[s].fresh : FreshRow(s, e))'
    BY DEF FreshStates
  <2>1. CASE s = t
    <3>1. (task[s].at <= now)'
      BY <1>1, <1>3, <2>1 DEF TypeOK
    <3>2. ASSUME NEW e \in task'[s].fresh PROVE FreshRow(s, e)'
      <4>1. e \in fresh /\ e \in Entities
        BY <1>1, <2>1, <3>2
      <4>2. \A r \in Slots : IsWrite(r)' => task'[r].e # e
        BY <1>1, <1>2, <1>6, <4>1
      <4>3. \A r \in Slots : IsReload(r)' /\ task'[r].w = w => e \in task'[r].fresh
        BY <1>1, <1>2, <1>6, <4>1
      <4> QED BY <1>1, <1>4, <2>1, <4>1, <4>2, <4>3 DEF FreshRow
    <3> QED BY <3>1, <3>2
  <2>2. CASE s # t
    <3>1. IsReload(s) /\ task'[s] = task[s] /\ task[s] \in Reload
      BY <1>2, <2>2, TaskKinds
    <3>2. task[s].at <= now /\ \A e \in task[s].fresh : FreshRow(s, e)
      BY <3>1 DEF FreshStates
    <3>3. ASSUME NEW e \in task'[s].fresh PROVE FreshRow(s, e)'
      <4>1. FreshRow(s, e) /\ e \in Entities /\ task[s].w \in Workers
        BY <3>1, <3>2, <3>3 DEF Reload
      <4>2. \A r \in Slots : IsWrite(r)' => task'[r].e # e
        BY <1>1, <1>2, <4>1 DEF FreshRow
      <4>3. task[s].w = w => e \in fresh
        <5> SUFFICES ASSUME task[s].w = w PROVE Undisturbed(w, e)
          BY <4>1
        <5> QED BY <4>1 DEF FreshRow, Undisturbed
      <4>4. \A r \in Slots : IsReload(r)' /\ task'[r].w = task'[s].w => e \in task'[r].fresh
        BY <1>1, <1>2, <3>1, <4>1, <4>3 DEF FreshRow
      <4>5. (cache[task[s].w][e] = NoBan \/ Agree(task[s].w, e))'
        BY <1>3, <1>4, <3>1, <4>1 DEF FreshRow, Agree, Live, Expired
      <4> QED BY <1>3, <3>1, <4>1, <4>2, <4>4, <4>5 DEF FreshRow
    <3> QED BY <1>3, <3>1, <3>2, <3>3
  <2> QED BY <2>1, <2>2
<1>9. AloneAgrees'
  <2> SUFFICES ASSUME NEW v \in Workers, NEW e \in Entities, up'[v], e \in alone'[v],
                      Quiet(v, e)'
               PROVE  Agree(v, e)'
    BY DEF AloneAgrees
  <2>1. v # w
    BY <1>1 DEF Quiet, Touches
  <2>2. Quiet(v, e)
    <3> SUFFICES ASSUME NEW s \in Slots PROVE ~Touches(s, v, e)
      BY DEF Quiet
    <3>1. CASE s = t
      BY <3>1, <1>1, TaskKinds DEF Touches
    <3>2. CASE s # t
      BY <3>2, <1>2 DEF Quiet, Touches
    <3> QED BY <3>1, <3>2
  <2>3. Agree(v, e)
    BY <1>3, <1>5, <2>2 DEF AloneAgrees
  <2> QED BY <1>3, <1>4, <2>1, <2>3 DEF Agree, Live, Expired
<1> QED BY <1>7, <1>8, <1>9

\* A step by which a write of e moves on or ends, and that changes at most the row of e
\* and the entry of e at its own worker: all that has to be shown concerns e.
LEMMA WriteStepInv ==
    ASSUME Inv, TypeOK', NEW t \in Slots, NEW w \in Workers, NEW e \in Entities,
           NEW new \in Write \cup {Free},
           IsWrite(t), task[t].w = w, task[t].e = e,
           task' = [task EXCEPT ![t] = new],
           new \in Write => new.w = w /\ new.e = e,
           now' = now, up' = up, alone' = alone,
           \A f \in Entities : f # e => db'[f] = db[f],
           \A v \in Workers, f \in Entities : v # w \/ f # e => cache'[v][f] = cache[v][f],
           e \in alone[w] =>
              IF new = Free THEN Agree(w, e)' ELSE AloneWrite(w, e, t)'
    PROVE  Inv'
<1> USE BanStoreAssumption DEF Inv
<1>1. task[t] \in Write /\ ~IsReload(t)
  BY TaskKinds
<1>2. /\ task'[t] = new /\ ~IsReload(t)'
      /\ IsWrite(t)' => new \in Write /\ task'[t].w = w /\ task'[t].e = e
      /\ new # Free => IsWrite(t)'
  BY <1>1 DEF IsReload, IsWrite, Write, Free, WriteKinds, TypeOK
<1>3. ASSUME NEW s \in Slots, s # t
      PROVE  /\ task'[s] = task[s]
             /\ IsWrite(s)' <=> IsWrite(s)
             /\ IsReload(s)' <=> IsReload(s)
  BY <1>3 DEF IsWrite, IsReload, TypeOK
<1>4. ASSUME NEW s \in Slots, NEW v \in Workers, NEW f \in Entities, Touches(s, v, f)'
      PROVE  Touches(s, v, f)
  <2>1. CASE s = t
    BY <2>1, <1>2, <1>4 DEF Touches
  <2>2. CASE s # t
    BY <2>2, <1>3, <1>4 DEF Touches
  <2> QED BY <2>1, <2>2
<1>5. ASSUME NEW v \in Workers, NEW f \in Entities, f # e
      PROVE  /\ Agree(v, f)' <=> Agree(v, f)
             /\ Live(cache[v][f])' = Live(cache[v][f])
             /\ db'[f] = db[f] /\ cache'[v][f] = cache[v][f]
  BY <1>1, <1>5 DEF Agree, Live, Expired
\* A write of an entity alone at v is at v.
<1>6. ASSUME NEW v \in Workers, e \in alone[v]
      PROVE  v = w /\ \A s \in Slots \ {t} : ~Touches(s, w, e)
  BY <1>1, <1>6 DEF AloneStates, AloneWrite
<1>7. AloneStates'
  <2> SUFFICES ASSUME NEW v \in Workers, NEW s \in Slots, NEW f \in alone'[v]
               PROVE  /\ AloneWrite(v, f, s)'
                      /\ (IsReload(s) /\ task[s].w = v => f \in task[s].fresh)'
    BY DEF AloneStates
  <2>1. f \in Entities /\ f \in alone[v]
    BY DEF TypeOK
  <2>2. IsReload(s)' /\ task'[s].w = v => f \in task'[s].fresh
    BY <1>2, <1>3, <2>1 DEF AloneStates
  <2>3. AloneWrite(v, f, s)'
    <3> SUFFICES ASSUME IsWrite(s)', task'[s].e = f PROVE AloneWrite(v, f, s)'
      BY DEF AloneWrite
    <3>1. CASE f = e
      <4>1. v = w /\ s = t
        <5>1. v = w /\ \A r \in Slots \ {t} : ~Touches(r, w, e)
          BY <1>6, <2>1, <3>1
        <5> QED BY <1>3, <3>1, <5>1 DEF Touches
      <4> QED BY <1>2, <2>1, <3>1, <4>1 DEF Free, IsWrite, WriteKinds
    <3>2. CASE f # e
      <4>1. s # t /\ IsWrite(s) /\ task[s].e = f /\ task'[s] = task[s]
        BY <1>2, <1>3, <3>2
      <4>2. AloneWrite(v, f, s)
        BY <2>1 DEF AloneStates
      <4>3. \A r \in Slots \ {s} : ~Touches(r, v, f)'
        BY <1>4, <2>1, <4>1, <4>2 DEF AloneWrite
      <4> QED BY <1>5, <2>1, <3>2, <4>1, <4>2, <4>3 DEF AloneWrite
    <3> QED BY <3>1, <3>2
  <2> QED BY <2>2, <2>3
<1>8. FreshStates'
  <2> SUFFICES ASSUME NEW s \in Slots, IsReload(s)'
               PROVE  (task[s].at <= now /\ \A f \in task[s].fresh : FreshRow(s, f))'
    BY DEF FreshStates
  <2>1. s # t /\ IsReload(s) /\ task'[s] = task[s] /\ task[s] \in Reload
    BY <1>2, <1>3, TaskKinds
  <2>2. task[s].at <= now /\ \A f \in task[s].fresh : FreshRow(s, f)
    BY <2>1 DEF FreshStates
  <2>3. ASSUME NEW f \in task'[s].fresh PROVE FreshRow(s, f)'
    <3>1. FreshRow(s, f) /\ f \in Entities /\ task[s].w \in Workers
      BY <2>1, <2>2, <2>3 DEF Reload
    <3>2. f # e
      BY <3>1 DEF FreshRow
    <3>3. \A r \in Slots : IsWrite(r)' => task'[r].e # f
      BY <1>2, <1>3, <3>1, <3>2 DEF FreshRow
    <3>4. \A r \in Slots : IsReload(r)' /\ task'[r].w = task'[s].w => f \in task'[r].fresh
      BY <1>2, <1>3, <2>1, <3>1 DEF FreshRow
    <3> QED BY <1>5, <2>1, <3>1, <3>2, <3>3, <3>4 DEF FreshRow
  <2> QED BY <2>1, <2>2, <2>3
<1>9. AloneAgrees'
  <2> SUFFICES ASSUME NEW v \in Workers, NEW f \in Entities, up'[v], f \in alone'[v],
                      Quiet(v, f)'
               PROVE  Agree(v, f)'
    BY DEF AloneAgrees
  <2>1. CASE f = e
    <3>1. new = Free
      BY <1>2, <2>1 DEF Quiet, Touches
    <3> QED BY <1>6, <2>1, <3>1
  <2>2. CASE f # e
    <3>1. Quiet(v, f)
      <4> SUFFICES ASSUME NEW s \in Slots PROVE ~Touches(s, v, f)
        BY DEF Quiet
      <4>1. CASE s = t
        BY <4>1, <1>1, <2>2 DEF Touches
      <4>2. CASE s # t
        BY <4>2, <1>3 DEF Quiet, Touches
      <4> QED BY <4>1, <4>2
    <3> QED BY <1>5, <2>2, <3>1 DEF AloneAgrees
  <2> QED BY <2>1, <2>2
<1> QED BY <1>7, <1>8, <1>9

\* The steps of a write: each leaves an entity that is alone as AloneWrite says.
LEMMA WritesInv ==
    ASSUME Inv, TypeOK', NEW t \in Slots,
           \/ CommitBan(t) \/ CommitUnban(t) \/ ApplyBan(t) \/ ApplyUnban(t)
           \/ Fail(t) /\ IsWrite(t)
    PROVE  Inv'
<1> USE BanStoreAssumption DEF Inv
<1>1. IsWrite(t) /\ task[t] \in Write
  BY TaskKinds DEF CommitBan, CommitUnban, ApplyBan, ApplyUnban
<1>2. PICK w \in Workers, e \in Entities : task[t].w = w /\ task[t].e = e
  BY <1>1 DEF Write
<1>3. e \in alone[w] => AloneWrite(w, e, t)
  BY <1>2 DEF AloneStates
<1>4. CASE CommitBan(t)
  <2> DEFINE new == [task[t] EXCEPT !.committed = TRUE]
  <2>1. /\ task' = [task EXCEPT ![t] = new] /\ new \in Write
        /\ new.w = w /\ new.e = e /\ new.kind = "ban" /\ new.committed /\ new.exp = task[t].exp
    BY <1>1, <1>2, <1>4 DEF CommitBan, Write
  <2>2. now' = now /\ up' = up /\ alone' = alone /\ cache' = cache
    BY <1>4 DEF CommitBan
  <2>3. db'[e] = new.exp /\ \A f \in Entities : f # e => db'[f] = db[f]
    BY <1>2, <1>4, <2>1 DEF CommitBan, TypeOK
  <2>4. task'[t] = new /\ \A s \in Slots \ {t} : task'[s] = task[s]
    BY <2>1 DEF TypeOK
  <2>5. e \in alone[w] => AloneWrite(w, e, t)'
    BY <1>1, <1>2, <1>3, <2>1, <2>3, <2>4 DEF AloneWrite, Touches, IsWrite, IsReload
  <2>6. new # Free
    BY <2>1 DEF Free
  <2> HIDE DEF new
  <2> QED BY <1>1, <1>2, <2>1, <2>2, <2>3, <2>5, <2>6, WriteStepInv
<1>5. CASE CommitUnban(t)
  <2> DEFINE new == [task[t] EXCEPT !.committed = TRUE, !.hit = (db[e] # NoBan)]
  <2>1. /\ task' = [task EXCEPT ![t] = new] /\ new \in Write
        /\ new.w = w /\ new.e = e /\ new.kind # "ban" /\ new.committed
        /\ new.hit <=> db[e] # NoBan
    BY <1>1, <1>2, <1>5 DEF CommitUnban, Write
  <2>2. now' = now /\ up' = up /\ alone' = alone /\ cache' = cache
    BY <1>5 DEF CommitUnban
  <2>3. db'[e] = NoBan /\ \A f \in Entities : f # e => db'[f] = db[f]
    BY <1>2, <1>5 DEF CommitUnban, TypeOK
  <2>4. task'[t] = new /\ \A s \in Slots \ {t} : task'[s] = task[s]
    BY <2>1 DEF TypeOK
  <2>5. new # Free
    BY <2>1 DEF Free, Write
  <2> HIDE DEF new
  <2>6. ASSUME e \in alone[w] PROVE AloneWrite(w, e, t)'
    <3>1. AloneWrite(w, e, t) /\ ~task[t].committed
      BY <1>3, <1>5, <2>6 DEF CommitUnban
    <3>2. Agree(w, e) /\ \A s \in Slots \ {t} : ~Touches(s, w, e)
      BY <1>1, <1>2, <3>1 DEF AloneWrite
    <3>3. ~new.hit => Live(cache[w][e])' = NoBan
      BY <2>1, <2>2, <3>2 DEF Agree, Live, Expired
    <3>4. \A s \in Slots \ {t} : ~Touches(s, w, e)'
      BY <2>4, <3>2 DEF Touches, IsWrite, IsReload
    <3> QED BY <2>1, <2>3, <2>4, <3>3, <3>4 DEF AloneWrite
  <2> QED BY <1>1, <1>2, <2>1, <2>2, <2>3, <2>5, <2>6, WriteStepInv
<1>6. CASE ApplyBan(t)
  <2>1. /\ task' = [task EXCEPT ![t] = Free]
        /\ now' = now /\ up' = up /\ alone' = alone /\ db' = db
    BY <1>6 DEF ApplyBan
  <2>2. /\ cache'[w][e] = task[t].exp
        /\ \A v \in Workers, f \in Entities : v # w \/ f # e => cache'[v][f] = cache[v][f]
    BY <1>2, <1>6 DEF ApplyBan, TypeOK
  <2>3. e \in alone[w] => Agree(w, e)'
    BY <1>1, <1>2, <1>3, <1>6, <2>1, <2>2 DEF ApplyBan, AloneWrite, Agree
  <2>4. Free \notin Write
    BY DEF Free, Write, WriteKinds
  <2> QED BY <1>1, <1>2, <2>1, <2>2, <2>3, <2>4, WriteStepInv
<1>7. CASE ApplyUnban(t)
  <2>1. /\ task' = [task EXCEPT ![t] = Free]
        /\ now' = now /\ up' = up /\ alone' = alone /\ db' = db
    BY <1>7 DEF ApplyUnban
  <2>2. /\ cache'[w][e] = IF task[t].hit THEN NoBan ELSE cache[w][e]
        /\ \A v \in Workers, f \in Entities : v # w \/ f # e => cache'[v][f] = cache[v][f]
    BY <1>2, <1>7 DEF ApplyUnban, TypeOK
  <2>3. ASSUME e \in alone[w] PROVE Agree(w, e)'
    <3>1. db[e] = NoBan /\ (task[t].hit \/ Live(cache[w][e]) = NoBan)
      BY <1>1, <1>2, <1>3, <1>7, <2>3 DEF ApplyUnban, AloneWrite
    <3> QED BY <2>1, <2>2, <3>1 DEF Agree, Live, Expired
  <2>4. Free \notin Write
    BY DEF Free, Write, WriteKinds
  <2> QED BY <1>1, <1>2, <2>1, <2>2, <2>3, <2>4, WriteStepInv
<1>8. CASE Fail(t) /\ IsWrite(t)
  <2>1. /\ task' = [task EXCEPT ![t] = Free] /\ ~task[t].committed
        /\ now' = now /\ up' = up /\ alone' = alone /\ db' = db /\ cache' = cache
    BY <1>8, TaskKinds DEF Fail
  <2>2. e \in alone[w] => Agree(w, e)'
    BY <1>1, <1>2, <1>3, <2>1 DEF AloneWrite, Agree, Live, Expired
  <2>3. Free \notin Write
    BY DEF Free, Write, WriteKinds
  <2> QED BY <1>1, <1>2, <2>1, <2>2, <2>3, WriteStepInv
<1> QED BY <1>4, <1>5, <1>6, <1>7, <1>8

\* The SELECT of a reload: what it has read is the table.
LEMMA SelectRowsInv ==
    ASSUME Inv, TypeOK', NEW t \in Slots, SelectRows(t)
    PROVE  Inv'
<1> USE BanStoreAssumption DEF Inv
<1>1. IsReload(t) /\ task[t] \in Reload
  BY TaskKinds DEF SelectRows
<1>2. /\ task'[t] = [task[t] EXCEPT !.selected = TRUE, !.rows = db]
      /\ \A s \in Slots \ {t} : task'[s] = task[s]
      /\ now' = now /\ db' = db /\ cache' = cache /\ up' = up /\ alone' = alone
  BY DEF SelectRows, TypeOK
<1>3. /\ task'[t].kind = "reload" /\ task'[t].w = task[t].w /\ task'[t].at = task[t].at
      /\ task'[t].fresh = task[t].fresh /\ task'[t].rows = db
  BY <1>1, <1>2 DEF Reload
<1>4. ASSUME NEW s \in Slots
      PROVE  /\ IsWrite(s)' <=> IsWrite(s)
             /\ IsReload(s)' <=> IsReload(s)
             /\ IsWrite(s) => task'[s] = task[s]
             /\ IsReload(s) => /\ task'[s].w = task[s].w
                               /\ task'[s].at = task[s].at
                               /\ task'[s].fresh = task[s].fresh
                               /\ task'[s].selected =>
                                    task'[s].rows = db \/ task'[s] = task[s]
  BY <1>1, <1>2, <1>3 DEF IsWrite, IsReload, WriteKinds
<1>5. ASSUME NEW s \in Slots, NEW v \in Workers, NEW f \in Entities
      PROVE  Touches(s, v, f)' <=> Touches(s, v, f)
  BY <1>4 DEF Touches
<1>6. ASSUME NEW v \in Workers, NEW f \in Entities
      PROVE  /\ Agree(v, f)' <=> Agree(v, f)
             /\ Live(cache[v][f])' = Live(cache[v][f])
  BY <1>2 DEF Agree, Live, Expired
<1>7. AloneStates'
  <2> SUFFICES ASSUME NEW v \in Workers, NEW s \in Slots, NEW f \in alone'[v]
               PROVE  /\ AloneWrite(v, f, s)'
                      /\ (IsReload(s) /\ task[s].w = v => f \in task[s].fresh)'
    BY DEF AloneStates
  <2>1. /\ f \in Entities /\ AloneWrite(v, f, s)
        /\ IsReload(s) /\ task[s].w = v => f \in task[s].fresh
    BY <1>2 DEF AloneStates, TypeOK
  <2>2. AloneWrite(v, f, s)'
    BY <1>2, <1>4, <1>5, <1>6, <2>1 DEF AloneWrite
  <2> QED BY <1>4, <2>1, <2>2
<1>8. FreshStates'
  <2> SUFFICES ASSUME NEW s \in Slots, IsReload(s)'
               PROVE  (task[s].at <= now /\ \A f \in task[s].fresh : FreshRow(s, f))'
    BY DEF FreshStates
  <2>1. task[s].at <= now /\ \A f \in task[s].fresh : FreshRow(s, f)
    BY <1>4 DEF FreshStates
  <2>2. ASSUME NEW f \in task'[s].fresh PROVE FreshRow(s, f)'
    <3>1. FreshRow(s, f) /\ f \in Entities /\ task[s].w \in Workers
      BY <1>4, <2>1, <2>2, TaskKinds DEF Reload
    <3>2. task'[s].selected => task'[s].rows[f] = db'[f]
      BY <1>2, <1>4, <3>1 DEF FreshRow
    <3> QED BY <1>2, <1>4, <1>6, <3>1, <3>2 DEF FreshRow
  <2> QED BY <1>2, <1>4, <2>1, <2>2
<1>9. AloneAgrees'
  BY <1>2, <1>5, <1>6 DEF AloneAgrees, Quiet, TypeOK
<1> QED BY <1>7, <1>8, <1>9

\* The end of a reload: a row that is fresh is what the dictionary now holds.
LEMMA FillCacheInv ==
    ASSUME Inv, TypeOK', NEW t \in Slots, FillCache(t)
    PROVE  Inv'
<1> USE BanStoreAssumption DEF Inv
<1>1. IsReload(t) /\ task[t] \in Reload
  BY TaskKinds DEF FillCache
<1>2. PICK w \in Workers : w = task[t].w
  BY <1>1 DEF Reload
<1>3. /\ task'[t] = Free /\ ~IsWrite(t)' /\ ~IsReload(t)' /\ ~IsWrite(t)
      /\ now' = now /\ db' = db
  BY <1>1 DEF FillCache, TypeOK, Free, IsWrite, IsReload, WriteKinds
<1>4. ASSUME NEW s \in Slots, s # t
      PROVE  /\ task'[s] = task[s]
             /\ IsWrite(s)' <=> IsWrite(s)
             /\ IsReload(s)' <=> IsReload(s)
  BY <1>4 DEF FillCache, IsWrite, IsReload, TypeOK
<1>5. /\ \A v \in Workers \ {w} : cache'[v] = cache[v] /\ alone'[v] = alone[v] /\ up'[v] = up[v]
      /\ alone'[w] = alone[w] \cup task[t].fresh
  BY <1>2 DEF FillCache, TypeOK
\* A fresh entity is in agreement once the rows are in, and no write of it is in flight.
<1>6. ASSUME NEW f \in task[t].fresh
      PROVE  /\ f \in Entities
             /\ Agree(w, f)'
             /\ \A s \in Slots : IsWrite(s) => task[s].e # f
             /\ \A s \in Slots : IsReload(s) /\ task[s].w = w => f \in task[s].fresh
  <2>1. f \in Entities /\ FreshRow(t, f) /\ task[t].at \in Nat /\ task[t].at <= now
    BY <1>1, <1>6 DEF Reload, FreshStates
  <2>2. task[t].rows[f] = db[f] /\ (cache[w][f] = NoBan \/ Agree(w, f))
    BY <1>2, <2>1 DEF FreshRow, FillCache
  <2>3. cache'[w][f] = IF db[f] # NoBan /\ ~(db[f] \in Nat /\ task[t].at > db[f])
                       THEN db[f] ELSE cache[w][f]
    BY <1>2, <2>1, <2>2 DEF FillCache, TypeOK
  <2>4. Agree(w, f)'
    BY <1>3, <2>1, <2>2, <2>3 DEF Agree, Live, Expired, TypeOK
  <2> QED BY <1>2, <2>1, <2>4 DEF FreshRow
\* What was alone and had a reload in flight is fresh.
<1>7. ASSUME NEW v \in Workers, NEW f \in alone'[v]
      PROVE  f \in Entities /\ (v = w => f \in task[t].fresh) /\ (v # w => f \in alone[v])
  BY <1>1, <1>2, <1>5, <1>6, <1>7 DEF AloneStates, TypeOK
<1>8. AloneStates'
  <2> SUFFICES ASSUME NEW v \in Workers, NEW s \in Slots, NEW f \in alone'[v]
               PROVE  /\ AloneWrite(v, f, s)'
                      /\ (IsReload(s) /\ task[s].w = v => f \in task[s].fresh)'
    BY DEF AloneStates
  <2>1. CASE v = w
    BY <1>3, <1>4, <1>6, <1>7, <2>1 DEF AloneWrite
  <2>2. CASE v # w
    <3>1. /\ f \in Entities /\ AloneWrite(v, f, s)
          /\ IsReload(s) /\ task[s].w = v => f \in task[s].fresh
      BY <1>7, <2>2 DEF AloneStates
    <3>2. \A r \in Slots : Touches(r, v, f)' => Touches(r, v, f)
      BY <1>3, <1>4 DEF Touches
    <3>3. (Agree(v, f)' <=> Agree(v, f)) /\ Live(cache[v][f])' = Live(cache[v][f])
      BY <1>3, <1>5, <2>2 DEF Agree, Live, Expired
    <3>4. AloneWrite(v, f, s)'
      BY <1>3, <1>4, <3>1, <3>2, <3>3 DEF AloneWrite
    <3> QED BY <1>3, <1>4, <3>1, <3>4
  <2> QED BY <2>1, <2>2
<1>9. FreshStates'
  <2> SUFFICES ASSUME NEW s \in Slots, IsReload(s)'
               PROVE  (task[s].at <= now /\ \A f \in task[s].fresh : FreshRow(s, f))'
    BY DEF FreshStates
  <2>1. s # t /\ IsReload(s) /\ task'[s] = task[s] /\ task[s] \in Reload
    BY <1>3, <1>4, TaskKinds
  <2>2. task[s].at <= now /\ \A f \in task[s].fresh : FreshRow(s, f)
    BY <2>1 DEF FreshStates
  <2>3. ASSUME NEW f \in task'[s].fresh PROVE FreshRow(s, f)'
    <3>1. FreshRow(s, f) /\ f \in Entities /\ task[s].w \in Workers
      BY <2>1, <2>2, <2>3 DEF Reload
    <3>2. (cache[task[s].w][f] = NoBan \/ Agree(task[s].w, f))'
      <4>1. CASE task[s].w = w
        BY <1>1, <1>2, <1>6, <2>1, <3>1, <4>1 DEF FreshRow
      <4>2. CASE task[s].w # w
        BY <1>3, <1>5, <2>1, <3>1, <4>2 DEF FreshRow, Agree, Live, Expired
      <4> QED BY <4>1, <4>2
    <3>3. \A r \in Slots : IsWrite(r)' => task'[r].e # f
      BY <1>3, <1>4, <3>1 DEF FreshRow
    <3>4. \A r \in Slots : IsReload(r)' /\ task'[r].w = task'[s].w => f \in task'[r].fresh
      BY <1>3, <1>4, <2>1, <3>1 DEF FreshRow
    <3> QED BY <1>3, <2>1, <3>1, <3>2, <3>3, <3>4 DEF FreshRow
  <2> QED BY <1>3, <2>1, <2>2, <2>3
<1>10. AloneAgrees'
  <2> SUFFICES ASSUME NEW v \in Workers, NEW f \in Entities, up'[v], f \in alone'[v],
                      Quiet(v, f)'
               PROVE  Agree(v, f)'
    BY DEF AloneAgrees
  <2>1. CASE v = w
    BY <1>6, <1>7, <2>1
  <2>2. CASE v # w
    <3>1. Quiet(v, f)
      <4> SUFFICES ASSUME NEW s \in Slots PROVE ~Touches(s, v, f)
        BY DEF Quiet
      <4>1. CASE s = t
        BY <4>1, <1>2, <1>3, <2>2 DEF Touches
      <4>2. CASE s # t
        BY <4>2, <1>4 DEF Quiet, Touches
      <4> QED BY <4>1, <4>2
    <3>2. Agree(v, f)
      BY <1>5, <1>7, <2>2, <3>1 DEF AloneAgrees
    <3> QED BY <1>3, <1>5, <2>2, <3>2 DEF Agree, Live, Expired
  <2> QED BY <2>1, <2>2
<1> QED BY <1>8, <1>9, <1>10

\* A reload fails, or a worker dies: coroutines of w end and nothing is alone at w.
LEMMA DropInv ==
    ASSUME Inv, TypeOK', NEW w \in Workers, now' = now, db' = db,
           \A s \in Slots : \/ task'[s] = task[s]
                            \/ task'[s] = Free /\ ~IsFree(s) /\ task[s].w = w,
           alone'[w] = {},
           \A v \in Workers \ {w} :
              alone'[v] = alone[v] /\ cache'[v] = cache[v] /\ up'[v] = up[v],
           cache'[w] = cache[w] \/ \A f \in Entities : cache'[w][f] = NoBan
    PROVE  Inv'
<1> USE BanStoreAssumption DEF Inv
<1>1. ASSUME NEW s \in Slots
      PROVE  /\ IsWrite(s)' => IsWrite(s) /\ task'[s] = task[s]
             /\ IsReload(s)' => IsReload(s) /\ task'[s] = task[s]
             /\ task'[s] = task[s] => (IsWrite(s)' <=> IsWrite(s)) /\ (IsReload(s)' <=> IsReload(s))
  BY DEF IsWrite, IsReload, Free, WriteKinds
<1>2. ASSUME NEW v \in Workers, NEW f \in alone'[v]
      PROVE  v # w /\ f \in alone[v] /\ f \in Entities
  BY <1>2 DEF TypeOK
<1>3. ASSUME NEW v \in Workers \ {w}, NEW f \in Entities
      PROVE  /\ Agree(v, f)' <=> Agree(v, f)
             /\ Live(cache[v][f])' = Live(cache[v][f])
             /\ cache'[v][f] = cache[v][f]
  BY DEF Agree, Live, Expired
<1>4. AloneStates'
  <2> SUFFICES ASSUME NEW v \in Workers, NEW s \in Slots, NEW f \in alone'[v]
               PROVE  /\ AloneWrite(v, f, s)'
                      /\ (IsReload(s) /\ task[s].w = v => f \in task[s].fresh)'
    BY DEF AloneStates
  <2>1. /\ v # w /\ f \in Entities /\ AloneWrite(v, f, s)
        /\ IsReload(s) /\ task[s].w = v => f \in task[s].fresh
    BY <1>2 DEF AloneStates
  <2>2. \A r \in Slots : Touches(r, v, f)' => Touches(r, v, f)
    BY <1>1 DEF Touches
  <2>3. AloneWrite(v, f, s)'
    BY <1>1, <1>3, <2>1, <2>2 DEF AloneWrite
  <2> QED BY <1>1, <2>1, <2>3
<1>5. FreshStates'
  <2> SUFFICES ASSUME NEW s \in Slots, IsReload(s)'
               PROVE  (task[s].at <= now /\ \A f \in task[s].fresh : FreshRow(s, f))'
    BY DEF FreshStates
  <2>1. IsReload(s) /\ task'[s] = task[s] /\ task[s] \in Reload
    BY <1>1, TaskKinds
  <2>2. task[s].at <= now /\ \A f \in task[s].fresh : FreshRow(s, f)
    BY <2>1 DEF FreshStates
  <2>3. ASSUME NEW f \in task'[s].fresh PROVE FreshRow(s, f)'
    <3>1. FreshRow(s, f) /\ f \in Entities /\ task[s].w \in Workers
      BY <2>1, <2>2, <2>3 DEF Reload
    <3>2. (cache[task[s].w][f] = NoBan \/ Agree(task[s].w, f))'
      <4>1. CASE task[s].w = w
        BY <2>1, <3>1, <4>1 DEF FreshRow, Agree, Live, Expired
      <4>2. CASE task[s].w # w
        BY <1>3, <2>1, <3>1, <4>2 DEF FreshRow
      <4> QED BY <4>1, <4>2
    <3> QED BY <1>1, <2>1, <3>1, <3>2 DEF FreshRow
  <2> QED BY <2>1, <2>2, <2>3
<1>6. AloneAgrees'
  <2> SUFFICES ASSUME NEW v \in Workers, NEW f \in Entities, up'[v], f \in alone'[v],
                      Quiet(v, f)'
               PROVE  Agree(v, f)'
    BY DEF AloneAgrees
  <2>1. v # w /\ f \in alone[v]
    BY <1>2
  <2>2. Quiet(v, f)
    <3> SUFFICES ASSUME NEW s \in Slots, Touches(s, v, f) PROVE FALSE
      BY DEF Quiet
    <3>1. task'[s] # task[s]
      BY <1>1 DEF Quiet, Touches
    <3>2. task[s].w = w
      BY <3>1
    <3>3. IsWrite(s) /\ task[s].e = f
      BY <2>1, <3>2 DEF Touches
    <3>4. AloneWrite(v, f, s)
      BY <2>1 DEF AloneStates
    <3> QED BY <2>1, <3>2, <3>3, <3>4 DEF AloneWrite
  <2> QED BY <1>3, <2>1, <2>2 DEF AloneAgrees
<1> QED BY <1>4, <1>5, <1>6

\* Time only lets entries expire, in the dictionary and in the table alike.
LEMMA TickInv == ASSUME Inv, TypeOK', Tick PROVE Inv'
<1> USE BanStoreAssumption DEF Inv
<1>1. /\ now' = now + 1 /\ db' = db /\ cache' = cache /\ up' = up
      /\ task' = task /\ alone' = alone
  BY DEF Tick
<1>2. ASSUME NEW x, NEW y, Live(x) = Live(y) PROVE Live(x)' = Live(y)'
  BY <1>1, <1>2 DEF Live, Expired, TypeOK
<1>3. ASSUME NEW x, Live(x) = NoBan PROVE Live(x)' = NoBan
  BY <1>1, <1>3 DEF Live, Expired, TypeOK
<1>4. ASSUME NEW v \in Workers, NEW f \in Entities, Agree(v, f) PROVE Agree(v, f)'
  BY <1>1, <1>2, <1>4 DEF Agree
<1>5. ASSUME NEW s \in Slots, NEW v \in Workers, NEW f \in Entities
      PROVE  /\ Touches(s, v, f)' <=> Touches(s, v, f)
             /\ IsWrite(s)' <=> IsWrite(s)
             /\ IsReload(s)' <=> IsReload(s)
  BY <1>1 DEF Touches, IsWrite, IsReload
<1>6. AloneStates'
  <2> SUFFICES ASSUME NEW v \in Workers, NEW s \in Slots, NEW f \in alone'[v]
               PROVE  /\ AloneWrite(v, f, s)'
                      /\ (IsReload(s) /\ task[s].w = v => f \in task[s].fresh)'
    BY DEF AloneStates
  <2>1. /\ f \in Entities /\ AloneWrite(v, f, s)
        /\ IsReload(s) /\ task[s].w = v => f \in task[s].fresh
    BY <1>1 DEF AloneStates, TypeOK
  <2>2. Live(cache[v][f]) = NoBan => Live(cache[v][f])' = NoBan
    BY <1>1, <1>3
  <2> QED BY <1>1, <1>4, <1>5, <2>1, <2>2 DEF AloneWrite
<1>7. FreshStates'
  <2> SUFFICES ASSUME NEW s \in Slots, IsReload(s)'
               PROVE  (task[s].at <= now /\ \A f \in task[s].fresh : FreshRow(s, f))'
    BY DEF FreshStates
  <2>1. IsReload(s) /\ task[s] \in Reload
    BY <1>1, TaskKinds DEF IsReload
  <2>2. task[s].at <= now /\ \A f \in task[s].fresh : FreshRow(s, f)
    BY <2>1 DEF FreshStates
  <2>3. ASSUME NEW f \in task'[s].fresh PROVE FreshRow(s, f)'
    <3>1. FreshRow(s, f) /\ f \in Entities /\ task[s].w \in Workers
      BY <1>1, <2>1, <2>2, <2>3 DEF Reload
    <3> QED BY <1>1, <1>4, <1>5, <3>1 DEF FreshRow
  <2>4. (task[s].at <= now)'
    BY <1>1, <2>1, <2>2 DEF Reload, TypeOK
  <2> QED BY <2>3, <2>4
<1>8. AloneAgrees'
  BY <1>1, <1>4, <1>5 DEF AloneAgrees, Quiet
<1> QED BY <1>6, <1>7, <1>8

LEMMA InitInv == Init => Inv
  BY InitType DEF Init, Inv, AloneStates, AloneWrite, FreshStates, AloneAgrees, Agree, Live,
     Expired, IsWrite, IsReload, WriteKinds, Free, NoEntries

LEMMA NextInv == Inv /\ [Next]_vars => Inv'
<1> SUFFICES ASSUME Inv, [Next]_vars PROVE Inv'
  OBVIOUS
<1> USE BanStoreAssumption
<1>1. TypeOK /\ TypeOK'
  BY NextType DEF Inv
<1>2. ASSUME NEW w \in Workers, NEW e \in Entities, NEW t \in Slots,
             NEW d \in Durations, BeginBan(w, e, t, d)
      PROVE  Inv'
  <2>1. ExpiresAt(d) \in Entry /\ "ban" \in WriteKinds
    BY <1>1 DEF ExpiresAt, Entry, Expiry, TypeOK, WriteKinds
  <2> QED BY <1>1, <1>2, <2>1, ForkInv DEF BeginBan
<1>3. ASSUME NEW w \in Workers, NEW e \in Entities, NEW t \in Slots, BeginUnban(w, e, t)
      PROVE  Inv'
  <2>1. NoBan \in Entry /\ "unban" \in WriteKinds
    BY DEF Entry, WriteKinds
  <2> QED BY <1>1, <1>3, <2>1, ForkInv DEF BeginUnban
<1>4. ASSUME NEW w \in Workers, NEW e \in Entities, NEW t \in Slots, CheckExpired(w, e, t)
      PROVE  Inv'
  <2>1. NoBan \in Entry /\ "cleanup" \in WriteKinds
    BY DEF Entry, WriteKinds
  <2> QED BY <1>1, <1>4, <2>1, ForkInv DEF CheckExpired
<1>5. ASSUME NEW w \in Workers, NEW t \in Slots, BeginReload(w, t) PROVE Inv'
  BY <1>1, <1>5, BeginReloadInv
<1>6. ASSUME NEW t \in Slots, Step(t) PROVE Inv'
  BY <1>1, <1>6, WritesInv, SelectRowsInv, FillCacheInv DEF Step
<1>7. ASSUME NEW t \in Slots, Fail(t) PROVE Inv'
  <2>1. CASE IsWrite(t)
    BY <1>1, <1>7, <2>1, WritesInv
  <2>2. CASE IsReload(t)
    <3>1. task[t].w \in Workers /\ ~IsFree(t)
      BY <1>1, <2>2, TaskKinds DEF Reload
    <3>2. alone'[task[t].w] = {} /\ \A v \in Workers \ {task[t].w} : alone'[v] = alone[v]
      BY <1>1, <1>7, <2>2, <3>1 DEF Fail, TypeOK
    <3>3. \A s \in Slots : task'[s] = task[s] \/ (task'[s] = Free /\ s = t)
      BY <1>1, <1>7 DEF Fail, TypeOK
    <3>4. now' = now /\ db' = db /\ cache' = cache /\ up' = up
      BY <1>7 DEF Fail
    <3> QED BY <1>1, <3>1, <3>2, <3>3, <3>4, DropInv
  <2> QED BY <1>7, <2>1, <2>2 DEF Fail
<1>8. ASSUME NEW w \in Workers, Crash(w) PROVE Inv'
  <2>1. /\ now' = now /\ db' = db /\ alone'[w] = {}
        /\ \A f \in Entities : cache'[w][f] = NoBan
        /\ \A v \in Workers \ {w} :
             alone'[v] = alone[v] /\ cache'[v] = cache[v] /\ up'[v] = up[v]
    BY <1>1, <1>8 DEF Crash, TypeOK, NoEntries
  <2>2. \A s \in Slots : task'[s] = task[s] \/ (task'[s] = Free /\ ~IsFree(s) /\ task[s].w = w)
    BY <1>8 DEF Crash
  <2> QED BY <1>1, <2>1, <2>2, DropInv
<1>9. CASE Tick
  BY <1>1, <1>9, TickInv
<1>10. CASE UNCHANGED vars
  BY <1>10 DEF vars, Inv, TypeOK, AloneStates, AloneWrite, FreshStates, FreshRow, AloneAgrees,
     Agree, Live, Expired, Quiet, Touches, IsWrite, IsReload
<1> QED BY <1>2, <1>3, <1>4, <1>5, <1>6, <1>7, <1>8, <1>9, <1>10 DEF Next

\* Cache and table diverge on an entity only after an overlap: AloneAgrees is an invariant.
THEOREM AloneAgreement == Spec => []AloneAgrees
<1>1. Inv => AloneAgrees
  BY DEF Inv
<1> QED BY InitInv, NextInv, <1>1, PTL DEF Spec
=============================================================================
