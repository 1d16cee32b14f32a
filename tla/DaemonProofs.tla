---------------------------- MODULE DaemonProofs ----------------------------
(***************************************************************************)
(* Of the workers and their daemons, for any number of everything:         *)
(*   - Lifespan: at most one worker leads while the lock file can be       *)
(*     created, remembered routes agree with the configuration and         *)
(*     remembered secrets with the server they are sent to;                *)
(*   - FederationSync: the states of the nodes agree with their circuits   *)
(*     and a failed node is left alone for its whole backoff;              *)
(*   - Webhooks: an accepted delivery is one task in one place until it    *)
(*     ends, and the pipeline implements Delivery.                         *)
(***************************************************************************)
EXTENDS Lifespan, FederationSync, Webhooks, SequenceTheorems, TLAPS

-----------------------------------------------------------------------------
(* Lifespan: types.                                                        *)

\* A process that is not down has a configuration, and one that is down remembers nothing.
Loaded ==
    \A w \in Workers : /\ phase[w] # "down" => config[w] \in Contents
                       /\ phase[w] = "down" => memo[w] = NoRoutes /\ secrets[w] = NoSecrets

LEMMA LifeInitType == LifeInit => LifeTypeOK /\ Loaded
<1> SUFFICES ASSUME LifeInit PROVE LifeTypeOK /\ Loaded
  OBVIOUS
<1>1. /\ NoRoutes \in [Aliases -> Servers \cup {None}]
      /\ NoSecrets \in [NodeIds -> Secrets \cup {None}]
  BY DEF NoRoutes, NoSecrets
<1>2. file \in [c : Contents, v : 0..MaxEdits] /\ 0 \in 0..MaxEdits
  BY LifespanAssumption DEF LifeInit
<1>3. memo \in [Workers -> [Aliases -> Servers \cup {None}]]
  BY <1>1 DEF LifeInit
<1>4. secrets \in [Workers -> [NodeIds -> Secrets \cup {None}]]
  BY <1>1 DEF LifeInit
<1>5. LifeTypeOK
  BY <1>2, <1>3, <1>4 DEF LifeInit, LifeTypeOK
<1>6. Loaded
  BY DEF LifeInit, Loaded
<1> QED BY <1>5, <1>6

\* A route leads to a server or nowhere.
LEMMA ResolveType ==
    ASSUME NEW c, NEW a \in Aliases
    PROVE  Resolve(c, a) \in Servers \cup {None}
  BY LifespanAssumption DEF Resolve

\* The secret that goes out is one, if the server is configured.
LEMMA SecretType ==
    ASSUME LifeTypeOK, Loaded, NEW w \in Workers, NEW s \in Servers,
           phase[w] # "down", config[w].secret[s] # None
    PROVE  SecretFor(w, s) \in Secrets /\ config[w].secret[s] \in Secrets
<1>1. config[w].secret[s] \in Secrets \cup {None}
  BY LifespanAssumption DEF Loaded
<1>2. NodeId[s] \in NodeIds
  BY DEF NodeIds
<1>3. secrets[w][NodeId[s]] \in Secrets \cup {None}
  BY <1>2 DEF LifeTypeOK
<1> QED BY <1>1, <1>3 DEF SecretFor

LEMMA StartSteps ==
    ASSUME LifeTypeOK, Loaded, NEW w \in Workers, StartProcess(w) \/ Elect(w) \/ Boot(w)
    PROVE  LifeTypeOK' /\ Loaded'
<1>1. CASE StartProcess(w)
  <2>1. file.c \in Contents /\ file.c.on \in BOOLEAN /\ file.v \in 0..MaxEdits
    BY LifespanAssumption DEF LifeTypeOK
  <2>2. LifeTypeOK'
    BY <1>1, <2>1 DEF LifeTypeOK, StartProcess, history
  <2>3. Loaded'
    BY <1>1, <2>1 DEF LifeTypeOK, Loaded, StartProcess, NoRoutes, NoSecrets, NodeIds
  <2> QED BY <2>2, <2>3
<1>2. CASE Elect(w)
  <2>1. leader' \in [Workers -> BOOLEAN] /\ lock' \in BOOLEAN /\ free' \in BOOLEAN
    BY <1>2 DEF LifeTypeOK, Elect
  <2>2. LifeTypeOK'
    BY <1>2, <2>1 DEF LifeTypeOK, Elect, derived
  <2>3. Loaded'
    BY <1>2 DEF LifeTypeOK, Loaded, Elect, derived, NoRoutes, NoSecrets, NodeIds
  <2> QED BY <2>2, <2>3
<1>3. CASE Boot(w)
  <2>1. LifeTypeOK'
    BY <1>3 DEF LifeTypeOK, Boot, derived
  <2>2. Loaded'
    BY <1>3 DEF LifeTypeOK, Loaded, Boot, derived, NoRoutes, NoSecrets, NodeIds
  <2> QED BY <2>1, <2>2
<1> QED BY <1>1, <1>2, <1>3

\* What the end of a process leaves, however it ends.
LEMMA GoneType ==
    ASSUME LifeTypeOK, Loaded, NEW w \in Workers, Gone(w), lock' \in BOOLEAN, died' \in BOOLEAN
    PROVE  LifeTypeOK' /\ Loaded'
<1>1. /\ NoRoutes \in [Aliases -> Servers \cup {None}]
      /\ NoSecrets \in [NodeIds -> Secrets \cup {None}]
  BY DEF NoRoutes, NoSecrets
<1>2. 0 \in 0..MaxEdits
  BY LifespanAssumption
<1>3. phase' \in [Workers -> {"down", "importing", "elected", "serving"}]
  BY DEF LifeTypeOK, Gone
<1>4. memo' \in [Workers -> [Aliases -> Servers \cup {None}]]
  BY <1>1 DEF LifeTypeOK, Gone
<1>5. secrets' \in [Workers -> [NodeIds -> Secrets \cup {None}]]
  BY <1>1 DEF LifeTypeOK, Gone
<1>6. LifeTypeOK'
  BY <1>2, <1>3, <1>4, <1>5 DEF LifeTypeOK, Gone, NodeIds
<1>7. Loaded'
  BY DEF LifeTypeOK, Loaded, Gone, NoRoutes, NoSecrets, NodeIds
<1> QED BY <1>6, <1>7

LEMMA EndSteps ==
    ASSUME LifeTypeOK, Loaded, NEW w \in Workers, StopProcess(w) \/ Die(w)
    PROVE  LifeTypeOK' /\ Loaded'
<1>1. Gone(w)
  BY DEF StopProcess, Die
<1>2. lock' \in BOOLEAN /\ died' \in BOOLEAN
  BY DEF LifeTypeOK, StopProcess, Die
<1> QED BY <1>1, <1>2, GoneType

LEMMA FileSteps ==
    ASSUME LifeTypeOK, Loaded,
           (\E c \in Contents : Edit(c)) \/ \E w \in Workers : HotReload(w)
    PROVE  LifeTypeOK' /\ Loaded'
<1>1. ASSUME NEW c \in Contents, Edit(c) PROVE LifeTypeOK' /\ Loaded'
  <2>1. file' \in [c : Contents, v : 0..MaxEdits]
    BY <1>1, LifespanAssumption DEF LifeTypeOK, Edit
  <2>2. LifeTypeOK'
    BY <1>1, <2>1 DEF LifeTypeOK, Edit, derived, history
  <2>3. Loaded'
    BY <1>1 DEF Loaded, Edit, derived, NoRoutes, NoSecrets, NodeIds
  <2> QED BY <2>2, <2>3
<1>2. ASSUME NEW w \in Workers, HotReload(w) PROVE LifeTypeOK' /\ Loaded'
  <2>1. file.c \in Contents /\ file.c.on \in BOOLEAN /\ file.v \in 0..MaxEdits
    BY LifespanAssumption DEF LifeTypeOK
  <2>2. NoRoutes \in [Aliases -> Servers \cup {None}]
    BY DEF NoRoutes
  <2>3. memo' \in [Workers -> [Aliases -> Servers \cup {None}]]
    <3>1. memo' = memo \/ memo' = [memo EXCEPT ![w] = IF file.c.on THEN NoRoutes ELSE @]
      BY <1>2 DEF HotReload
    <3>2. memo' = memo \/ memo' = [memo EXCEPT ![w] = NoRoutes]
      BY <3>1 DEF LifeTypeOK
    <3> QED BY <2>2, <3>2 DEF LifeTypeOK
  <2>4. config' \in [Workers -> Contents \cup {None}] /\ dbOn' \in [Workers -> BOOLEAN]
    BY <1>2, <2>1 DEF LifeTypeOK, HotReload
  <2>5. rotated' \in [Workers -> BOOLEAN]
    BY <1>2 DEF LifeTypeOK, HotReload
  <2>6. LifeTypeOK'
    BY <1>2, <2>1, <2>3, <2>4, <2>5 DEF LifeTypeOK, HotReload
  <2>7. \A v \in Workers : /\ config'[v] = config[v] \/ config'[v] \in Contents
                           /\ memo'[v] = memo[v] \/ memo'[v] = NoRoutes
    BY <1>2, <2>1 DEF LifeTypeOK, HotReload
  <2>8. Loaded'
    BY <1>2, <2>7 DEF Loaded, HotReload, NoRoutes, NoSecrets, NodeIds
  <2> QED BY <2>6, <2>8
<1> QED BY <1>1, <1>2

\* What a request that is proxied remembers and sends.
LEMMA ProxyType ==
    ASSUME LifeTypeOK, Loaded, NEW w \in Workers, NEW a \in Aliases, Proxy(w, a)
    PROVE  LifeTypeOK' /\ Loaded'
<1> DEFINE s == Route(w, a)
<1>1. s \in Servers /\ memo' = [memo EXCEPT ![w][a] = s]
  BY ResolveType DEF LifeTypeOK, Proxy, Route
<1>2. memo' \in [Workers -> [Aliases -> Servers \cup {None}]]
  BY <1>1 DEF LifeTypeOK
<1>3. phase[w] = "serving"
  BY DEF Proxy
<1>4. secrets' \in [Workers -> [NodeIds -> Secrets \cup {None}]] /\ sent' \in Sent \cup {None}
  <2>1. CASE config[w].secret[s] # None
    <3>1. SecretFor(w, s) \in Secrets /\ config[w].secret[s] \in Secrets
      BY <1>1, <1>3, <2>1, SecretType
    <3>2. secrets' = [secrets EXCEPT ![w][NodeId[s]] = SecretFor(w, s)]
      BY <2>1 DEF Proxy
    <3>3. sent' = [to |-> s, secret |-> SecretFor(w, s),
                   own |-> config[w].secret[s], rotated |-> rotated[w]]
      BY <2>1 DEF Proxy
    <3>4. sent' \in Sent
      BY <1>1, <3>1, <3>3 DEF LifeTypeOK, Sent
    <3> HIDE DEF s
    <3>5. secrets' \in [Workers -> [NodeIds -> Secrets \cup {None}]]
      BY <3>1, <3>2 DEF LifeTypeOK
    <3> QED BY <3>4, <3>5
  <2>2. CASE config[w].secret[s] = None
    BY <2>2 DEF LifeTypeOK, Proxy
  <2> QED BY <2>1, <2>2
<1>5. LifeTypeOK'
  BY <1>2, <1>4 DEF LifeTypeOK, Proxy, history, NodeIds
<1>6. \A v \in Workers : v # w => memo'[v] = memo[v] /\ secrets'[v] = secrets[v]
  <2> HIDE DEF s
  <2>1. secrets' = secrets \/ secrets' = [secrets EXCEPT ![w][NodeId[s]] = SecretFor(w, s)]
    BY DEF Proxy, s
  <2> QED BY <1>1, <2>1 DEF LifeTypeOK
<1>7. Loaded'
  BY <1>3, <1>6 DEF Loaded, Proxy, NoRoutes, NoSecrets, NodeIds
<1> QED BY <1>5, <1>7

\* Every step keeps the types.
LEMMA LifeNextType == LifeTypeOK /\ Loaded /\ [LifeNext]_lifeVars => LifeTypeOK' /\ Loaded'
<1> SUFFICES ASSUME LifeTypeOK, Loaded, [LifeNext]_lifeVars PROVE LifeTypeOK' /\ Loaded'
  OBVIOUS
<1>1. CASE UNCHANGED lifeVars
  BY <1>1 DEF lifeVars, LifeTypeOK, Loaded, NoRoutes, NoSecrets, NodeIds
<1> QED BY <1>1, StartSteps, EndSteps, FileSteps, ProxyType DEF LifeNext

\* What the workers keep and remember is well typed, for any number of them and any file.
THEOREM LifeTypeCorrect == LifeSpec => []LifeTypeOK
<1>1. LifeTypeOK /\ Loaded /\ [LifeNext]_lifeVars => (LifeTypeOK /\ Loaded)'
  BY LifeNextType
<1> QED BY LifeInitType, <1>1, PTL DEF LifeSpec

-----------------------------------------------------------------------------
(* One leader.  The lock file tells whether there is a leader: it is there *)
(* for the process that created it, and stays for good once that one has   *)
(* died, whereupon nobody leads any more.                                  *)

Phased ==
    \A w \in Workers : /\ leader[w] => phase[w] \in {"elected", "serving"}
                       /\ daemons[w] => leader[w]

Unique   == \A v, w \in Workers : leader[v] /\ leader[w] => v = w
LockTold == /\ lock <=> died \/ \E w \in Workers : leader[w]
            /\ died => \A w \in Workers : ~leader[w]

Led == Phased /\ (free \/ (Unique /\ LockTold))

\* What follows about leaders does not change while these do not.
LEMMA LedStays ==
    ASSUME Led, UNCHANGED <<lock, phase, leader, daemons, died, free>>
    PROVE  Led'
  BY DEF Led, Phased, Unique, LockTold

LEMMA ElectLed ==
    ASSUME LifeTypeOK, Led, NEW w \in Workers, Elect(w)
    PROVE  Led'
<1>1. phase[w] = "importing" /\ ~leader[w] /\ ~daemons[w]
  BY DEF LifeTypeOK, Elect, Led, Phased
<1>2. Phased'
  BY <1>1 DEF LifeTypeOK, Elect, Led, Phased
<1>3. CASE free'
  BY <1>2, <1>3 DEF Led
<1>4. CASE ~free'
  <2>1. leader' = [leader EXCEPT ![w] = ~lock] /\ lock' = TRUE /\ ~free /\ died' = died
    BY <1>4 DEF Elect, LifeTypeOK
  <2>2. Unique /\ LockTold
    BY <2>1 DEF Led
  <2>3. \A v \in Workers : leader'[v] <=> IF v = w THEN ~lock ELSE leader[v]
    BY <2>1 DEF LifeTypeOK
  <2>4. CASE lock
    <3>1. \A v \in Workers : leader'[v] <=> leader[v]
      BY <1>1, <2>3, <2>4
    <3>2. Unique' /\ LockTold'
      BY <2>1, <2>2, <2>4, <3>1 DEF Unique, LockTold
    <3> QED BY <1>2, <3>2 DEF Led
  <2>5. CASE ~lock
    <3>1. ~died /\ \A v \in Workers : ~leader[v]
      BY <2>2, <2>5 DEF LockTold
    <3>2. \A v \in Workers : leader'[v] <=> v = w
      BY <2>3, <2>5, <3>1
    <3>3. Unique' /\ LockTold'
      BY <2>1, <3>1, <3>2 DEF Unique, LockTold
    <3> QED BY <1>2, <3>3 DEF Led
  <2> QED BY <2>4, <2>5 DEF LifeTypeOK
<1> QED BY <1>3, <1>4 DEF LifeTypeOK

LEMMA EndLed ==
    ASSUME LifeTypeOK, Led, NEW w \in Workers, StopProcess(w) \/ Die(w)
    PROVE  Led'
<1>1. Gone(w) /\ free' = free
  BY DEF StopProcess, Die, Gone
<1>2. \A v \in Workers : leader'[v] <=> v # w /\ leader[v]
  BY <1>1 DEF LifeTypeOK, Gone
<1>3. Phased'
  BY <1>1, <1>2 DEF LifeTypeOK, Gone, Led, Phased
<1>4. CASE free
  BY <1>1, <1>3, <1>4 DEF Led
<1>5. CASE ~free
  <2>1. Unique /\ LockTold
    BY <1>5 DEF Led
  <2>2. Unique'
    BY <1>2, <2>1 DEF Unique
  <2>3. CASE leader[w]
    <3>1. \A v \in Workers : ~leader'[v]
      BY <1>2, <2>1, <2>3 DEF Unique
    <3>2. lock /\ ~died
      BY <2>1, <2>3 DEF LockTold
    <3>3. CASE StopProcess(w)
      BY <1>3, <2>2, <2>3, <3>1, <3>2, <3>3 DEF StopProcess, Led, LockTold
    <3>4. CASE Die(w)
      <4>1. died' = (died \/ leader[w]) /\ lock' = lock
        BY <3>4 DEF Die
      <4>2. died' = TRUE /\ lock' = TRUE
        BY <2>3, <3>2, <4>1 DEF LifeTypeOK
      <4>3. LockTold'
        BY <3>1, <4>2 DEF LockTold
      <4> QED BY <1>3, <2>2, <4>3 DEF Led
    <3> QED BY <3>3, <3>4
  <2>4. CASE ~leader[w]
    <3>1. \A v \in Workers : leader'[v] <=> leader[v]
      BY <1>2, <2>4
    <3>2. lock' = lock /\ died' = died
      BY <2>4 DEF LifeTypeOK, StopProcess, Die
    <3>3. LockTold'
      BY <2>1, <3>1, <3>2 DEF LockTold
    <3> QED BY <1>3, <2>2, <3>3 DEF Led
  <2> QED BY <2>3, <2>4
<1> QED BY <1>4, <1>5

\* Every step keeps what is known of leaders.
LEMMA NextLed == LifeTypeOK /\ Led /\ [LifeNext]_lifeVars => Led'
<1> SUFFICES ASSUME LifeTypeOK, Led, [LifeNext]_lifeVars PROVE Led'
  OBVIOUS
<1>1. ASSUME NEW w \in Workers, StartProcess(w) \/ Boot(w) PROVE Led'
  <2>1. UNCHANGED <<leader, lock, died, free>>
    BY <1>1 DEF StartProcess, Boot, history
  <2>2. Phased'
    <3>1. CASE StartProcess(w)
      BY <2>1, <3>1 DEF LifeTypeOK, StartProcess, Led, Phased
    <3>2. CASE Boot(w)
      BY <2>1, <3>2 DEF LifeTypeOK, Boot, Led, Phased
    <3> QED BY <1>1, <3>1, <3>2
  <2> QED BY <2>1, <2>2 DEF Led, Unique, LockTold
<1>2. ASSUME NEW w \in Workers, HotReload(w) PROVE Led'
  BY <1>2, LedStays DEF HotReload
<1>3. ASSUME NEW w \in Workers, NEW a \in Aliases, Proxy(w, a) PROVE Led'
  BY <1>3, LedStays DEF Proxy, history
<1>4. ASSUME NEW c \in Contents, Edit(c) PROVE Led'
  BY <1>4, LedStays DEF Edit, history
<1>5. CASE UNCHANGED lifeVars
  BY <1>5, LedStays DEF lifeVars
<1> QED BY <1>1, <1>2, <1>3, <1>4, <1>5, ElectLed, EndLed DEF LifeNext

\* However workers start, stop and die, no two run the daemons, as long as the lock file can
\* be created.
THEOREM AtMostOneLeader == LifeSpec => []OneLeader
<1>1. LifeInit => Led
  BY DEF LifeInit, Led, Phased, Unique, LockTold
<1>2. Led => OneLeader
  BY DEF Led, Phased, Unique, OneLeader
<1>3. LifeTypeOK /\ Led /\ [LifeNext]_lifeVars => Led'
  BY NextLed
<1> QED BY LifeTypeCorrect, <1>1, <1>2, <1>3, PTL DEF LifeSpec

-----------------------------------------------------------------------------
(* Remembered routes.                                                      *)

\* What is remembered and what it was computed from change together or not at all.
LEMMA RoutesStay ==
    ASSUME RoutedRight, NEW w \in Workers,
           UNCHANGED <<config[w], dbOn[w], memo[w]>>
    PROVE  \A a \in Aliases : dbOn'[w] /\ memo'[w][a] # None => memo'[w][a] = Resolve(config'[w], a)
  BY DEF RoutedRight

LEMMA NextRouted == LifeTypeOK /\ Loaded /\ RoutedRight /\ [LifeNext]_lifeVars => RoutedRight'
<1> DEFINE Right(w) == \A a \in Aliases :
                dbOn'[w] /\ memo'[w][a] # None => memo'[w][a] = Resolve(config'[w], a)
<1> SUFFICES ASSUME LifeTypeOK, Loaded, RoutedRight, [LifeNext]_lifeVars, NEW v \in Workers
             PROVE  Right(v)
  BY DEF RoutedRight
<1>1. CASE UNCHANGED <<config[v], dbOn[v], memo[v]>>
  BY <1>1, RoutesStay
<1>2. ASSUME NEW w \in Workers, StartProcess(w) \/ StopProcess(w) \/ Die(w) PROVE Right(v)
  <2>1. memo'[v] = NoRoutes \/ UNCHANGED <<config[v], dbOn[v], memo[v]>>
    <3>1. CASE StartProcess(w)
      BY <3>1 DEF LifeTypeOK, Loaded, StartProcess
    <3>2. CASE Gone(w)
      BY <3>2 DEF LifeTypeOK, Gone
    <3> QED BY <1>2, <3>1, <3>2 DEF StopProcess, Die
  <2> QED BY <1>1, <2>1 DEF NoRoutes
<1>3. ASSUME NEW w \in Workers, HotReload(w) PROVE Right(v)
  <2>1. CASE v = w /\ file.c.valid
    <3>1. dbOn'[v] <=> file.c.on
      BY <1>3, <2>1 DEF LifeTypeOK, HotReload
    <3>2. file.c.on => memo'[v] = NoRoutes
      BY <1>3, <2>1 DEF LifeTypeOK, HotReload
    <3> QED BY <3>1, <3>2 DEF NoRoutes
  <2>2. CASE v # w \/ ~file.c.valid
    <3>1. UNCHANGED <<config[v], dbOn[v], memo[v]>>
      BY <1>3, <2>2 DEF LifeTypeOK, HotReload
    <3> QED BY <1>1, <3>1
  <2> QED BY <2>1, <2>2
<1>4. ASSUME NEW w \in Workers, NEW a \in Aliases, Proxy(w, a) PROVE Right(v)
  <2>1. UNCHANGED <<config, dbOn>> /\ memo' = [memo EXCEPT ![w][a] = Route(w, a)]
    BY <1>4 DEF Proxy
  <2>2. CASE v # w
    <3>1. UNCHANGED <<config[v], dbOn[v], memo[v]>>
      BY <2>1, <2>2 DEF LifeTypeOK
    <3> QED BY <1>1, <3>1
  <2>3. CASE v = w
    <3>1. \A b \in Aliases : memo'[v][b] = IF b = a THEN Route(w, a) ELSE memo[v][b]
      BY <2>1, <2>3 DEF LifeTypeOK
    <3>2. dbOn[v] => Route(w, a) = Resolve(config[v], a)
      BY <2>3 DEF RoutedRight, Route
    <3>3. \A b \in Aliases : dbOn[v] /\ memo[v][b] # None => memo[v][b] = Resolve(config[v], b)
      BY DEF RoutedRight
    <3> QED BY <2>1, <3>1, <3>2, <3>3
  <2> QED BY <2>2, <2>3
<1>5. ASSUME NEW w \in Workers, Elect(w) \/ Boot(w) PROVE Right(v)
  BY <1>1, <1>5 DEF Elect, Boot, derived
<1>6. ASSUME NEW c \in Contents, Edit(c) PROVE Right(v)
  BY <1>1, <1>6 DEF Edit, derived
<1>7. CASE UNCHANGED lifeVars
  BY <1>1, <1>7 DEF lifeVars
<1> QED BY <1>2, <1>3, <1>4, <1>5, <1>6, <1>7 DEF LifeNext

\* A remembered route is the one that the configuration gives now, for any number of servers,
\* aliases and reloads.
THEOREM RoutesRight == LifeSpec => []RoutedRight
<1>1. LifeInit => RoutedRight
  BY DEF LifeInit, RoutedRight, NoRoutes
<1>2. LifeTypeOK /\ Loaded /\ [LifeNext]_lifeVars => (LifeTypeOK /\ Loaded)'
  BY LifeNextType
<1>3. LifeTypeOK /\ Loaded /\ RoutedRight /\ [LifeNext]_lifeVars => RoutedRight'
  BY NextRouted
<1> QED BY LifeInitType, <1>1, <1>2, <1>3, PTL DEF LifeSpec

-----------------------------------------------------------------------------
(* Remembered secrets.                                                     *)

Distinct == \A s, t \in Servers : NodeId[s] = NodeId[t] => s = t

\* What w remembers as the secret of s is what its configuration gives, unless that changed.
OwnOf(w, s) ==
    ~rotated[w] /\ secrets[w][NodeId[s]] # None => secrets[w][NodeId[s]] = config[w].secret[s]

SecretsOwn == \A w \in Workers, s \in Servers : OwnOf(w, s)

LEMMA ProxyOwn ==
    ASSUME LifeTypeOK, Loaded, Distinct, SecretsOwn, OwnSecret,
           NEW w \in Workers, NEW a \in Aliases, Proxy(w, a)
    PROVE  SecretsOwn' /\ OwnSecret'
<1> DEFINE t == Route(w, a)
<1>1. t \in Servers /\ UNCHANGED <<config, rotated>>
  BY ResolveType DEF LifeTypeOK, Proxy, Route, history
<1>2. CASE config[w].secret[t] = None
  BY <1>1, <1>2 DEF Proxy, SecretsOwn, OwnOf, OwnSecret
<1>3. CASE config[w].secret[t] # None
  <2>1. secrets' = [secrets EXCEPT ![w][NodeId[t]] = SecretFor(w, t)]
    BY <1>3 DEF Proxy
  <2>2. /\ sent'.secret = SecretFor(w, t)
        /\ sent'.own = config[w].secret[t]
        /\ sent'.rotated = rotated[w]
    BY <1>3 DEF Proxy
  <2> HIDE DEF t
  <2>3. ~rotated[w] => SecretFor(w, t) = config[w].secret[t]
    BY <1>1 DEF SecretsOwn, OwnOf, SecretFor
  <2>4. \A n \in NodeIds, v \in Workers :
            secrets'[v][n] = IF v = w /\ n = NodeId[t] THEN SecretFor(w, t) ELSE secrets[v][n]
    BY <2>1 DEF LifeTypeOK
  <2>5. ASSUME NEW v \in Workers, NEW s \in Servers PROVE OwnOf(v, s)'
    <3>1. NodeId[s] \in NodeIds /\ (NodeId[s] = NodeId[t] => s = t)
      BY <1>1 DEF NodeIds, Distinct
    <3>2. CASE v = w /\ s = t
      BY <1>1, <2>3, <2>4, <3>1, <3>2 DEF OwnOf
    <3>3. CASE v # w \/ s # t
      <4>1. secrets'[v][NodeId[s]] = secrets[v][NodeId[s]]
        BY <2>4, <3>1, <3>3
      <4> QED BY <1>1, <4>1 DEF SecretsOwn, OwnOf
    <3> QED BY <3>2, <3>3
  <2> QED BY <2>2, <2>3, <2>5 DEF SecretsOwn, OwnSecret
<1> QED BY <1>2, <1>3

LEMMA NextOwn ==
    LifeTypeOK /\ Loaded /\ Distinct /\ SecretsOwn /\ OwnSecret /\ [LifeNext]_lifeVars
        => SecretsOwn' /\ OwnSecret'
<1> SUFFICES ASSUME LifeTypeOK, Loaded, Distinct, SecretsOwn, OwnSecret, [LifeNext]_lifeVars
             PROVE  SecretsOwn' /\ OwnSecret'
  OBVIOUS
<1>1. ASSUME NEW w \in Workers, NEW a \in Aliases, Proxy(w, a) PROVE SecretsOwn' /\ OwnSecret'
  BY <1>1, ProxyOwn
<1>2. CASE UNCHANGED sent /\ UNCHANGED <<config, secrets, rotated>>
  BY <1>2 DEF SecretsOwn, OwnOf, OwnSecret
<1>3. ASSUME NEW w \in Workers, StartProcess(w) \/ StopProcess(w) \/ Die(w)
      PROVE  SecretsOwn' /\ OwnSecret'
  <2>1. sent' = sent
    BY <1>3 DEF StartProcess, StopProcess, Die, Gone
  <2>2. ASSUME NEW v \in Workers, NEW s \in Servers PROVE OwnOf(v, s)'
    <3>1. NodeId[s] \in NodeIds
      BY DEF NodeIds
    <3>2. secrets'[v] = NoSecrets \/ UNCHANGED <<config[v], secrets[v], rotated[v]>>
      <4>1. CASE StartProcess(w)
        BY <4>1 DEF LifeTypeOK, Loaded, StartProcess, history
      <4>2. CASE Gone(w)
        BY <4>2 DEF LifeTypeOK, Gone
      <4> QED BY <1>3, <4>1, <4>2 DEF StopProcess, Die
    <3> QED BY <3>1, <3>2 DEF OwnOf, SecretsOwn, NoSecrets
  <2> QED BY <2>1, <2>2 DEF SecretsOwn, OwnSecret
<1>4. ASSUME NEW w \in Workers, HotReload(w) PROVE SecretsOwn' /\ OwnSecret'
  <2>1. sent' = sent /\ secrets' = secrets
    BY <1>4 DEF HotReload
  <2>2. \A v \in Workers : ~rotated'[v] => ~rotated[v] /\ config'[v].secret = config[v].secret
    BY <1>4 DEF LifeTypeOK, HotReload
  <2> QED BY <2>1, <2>2 DEF SecretsOwn, OwnOf, OwnSecret
<1>5. ASSUME NEW w \in Workers, Elect(w) \/ Boot(w) PROVE SecretsOwn' /\ OwnSecret'
  BY <1>2, <1>5 DEF Elect, Boot, derived
<1>6. ASSUME NEW c \in Contents, Edit(c) PROVE SecretsOwn' /\ OwnSecret'
  BY <1>2, <1>6 DEF Edit, derived, history
<1>7. CASE UNCHANGED lifeVars
  BY <1>2, <1>7 DEF lifeVars
<1> QED BY <1>1, <1>3, <1>4, <1>5, <1>6, <1>7 DEF LifeNext

\* With another name on each server, what goes to a server is its own secret until one is
\* changed, for any number of servers and requests.
THEOREM SecretsKept == LifeSpec => []OwnSecret
<1>1. LifeInit => SecretsOwn /\ OwnSecret
  BY DEF LifeInit, SecretsOwn, OwnOf, OwnSecret, NoSecrets, NodeIds
<1>2. LifeTypeOK /\ Loaded /\ [LifeNext]_lifeVars => (LifeTypeOK /\ Loaded)'
  BY LifeNextType
<1>3. CASE Distinct
  <2>1. LifeTypeOK /\ Loaded /\ SecretsOwn /\ OwnSecret /\ [LifeNext]_lifeVars
            => (SecretsOwn /\ OwnSecret)'
    BY <1>3, NextOwn
  <2> QED BY LifeInitType, <1>1, <1>2, <2>1, PTL DEF LifeSpec
<1>4. CASE ~Distinct
  <2>1. OwnSecret
    BY <1>4 DEF OwnSecret, Distinct
  <2> QED BY <2>1, PTL
<1> QED BY <1>3, <1>4

-----------------------------------------------------------------------------
(* FederationSync: answers, waits and what a tick makes of them.           *)

LEMMA LesserType ==
    ASSUME NEW a \in Nat, NEW b \in Nat
    PROVE  Lesser(a, b) \in 0..b
  BY DEF Lesser

LEMMA BackoffType ==
    ASSUME NEW k \in 0..Threshold
    PROVE  Backoff(k) \in 0..BackoffMax
  BY LesserType, PowersAssumption, FederationAssumption DEF Backoff

LEMMA BeforeType ==
    /\ \A t \in Nat : Before(t) \in Nat
    /\ \A t \in 0..BackoffMax : Before(t) \in 0..BackoffMax
  BY FederationAssumption DEF Before

LEMMA UnknownType == Unknown \in NodeState
  BY FederationAssumption DEF Unknown, NodeState

\* The states the handlers of an answer set.
Healthy == [status |-> "up", failures |-> 0, wait |-> 0]
Failed(k) == [status   |-> IF k >= Threshold THEN "down" ELSE "degraded",
              failures |-> k,
              wait     |-> Backoff(k)]

LEMMA AnswerTypes ==
    /\ Healthy \in NodeState
    /\ \A k \in 0..Threshold : Failed(k) \in NodeState
<1>1. Healthy \in NodeState
  BY FederationAssumption DEF Healthy, NodeState
<1>2. ASSUME NEW k \in 0..Threshold PROVE Failed(k) \in NodeState
  <2>1. Backoff(k) \in 0..BackoffMax
    BY BackoffType
  <2> QED BY <2>1 DEF Failed, NodeState
<1> QED BY <1>1, <1>2

\* What a tick makes of a state.
LEMMA SoonerStates ==
    ASSUME NEW states \in [Nodes -> NodeState \cup {NoState}], NEW n \in Nodes
    PROVE  /\ states[n] = NoState => Sooner(states)[n] = NoState
           /\ states[n] # NoState =>
                /\ Sooner(states)[n] \in NodeState
                /\ Sooner(states)[n] # NoState
                /\ Sooner(states)[n].status = states[n].status
                /\ Sooner(states)[n].failures = states[n].failures
                /\ Sooner(states)[n].wait = Before(states[n].wait)
<1>1. states[n] = NoState => Sooner(states)[n] = NoState
  BY DEF Sooner
<1>2. CASE states[n] # NoState
  <2>1. states[n] \in NodeState
    BY <1>2
  <2>2. Sooner(states)[n] = [states[n] EXCEPT !.wait = Before(states[n].wait)]
    BY <1>2 DEF Sooner
  <2>3. states[n].wait \in 0..BackoffMax
    BY <2>1 DEF NodeState
  <2>4. Before(states[n].wait) \in 0..BackoffMax
    BY <2>3, BeforeType
  <2>5. Sooner(states)[n] \in NodeState
    BY <2>1, <2>2, <2>4 DEF NodeState
  <2> QED BY <2>1, <2>2, <2>5, NoStateAssumption DEF NodeState
<1> QED BY <1>1, <1>2

LEMMA SoonerType ==
    ASSUME NEW states \in [Nodes -> NodeState \cup {NoState}]
    PROVE  Sooner(states) \in [Nodes -> NodeState \cup {NoState}]
<1>1. \A n \in Nodes : Sooner(states)[n] \in NodeState \cup {NoState}
  BY SoonerStates
<1> QED BY <1>1 DEF Sooner

-----------------------------------------------------------------------------
(* FederationSync: types.                                                  *)

LEMMA InitType == Init => TypeOK
  BY FederationAssumption DEF Init, TypeOK

\* A failure of a node that is asked stays within the threshold.
LEMMA NextFailure ==
    ASSUME TypeOK, Asked, NEW n \in polling
    PROVE  n \in Nodes /\ circuit[n] + 1 \in 1..Threshold
  BY FederationAssumption DEF TypeOK, Asked, Open

LEMMA NextType == TypeOK /\ Asked /\ [Next]_vars => TypeOK'
<1> SUFFICES ASSUME TypeOK, Asked, [Next]_vars PROVE TypeOK'
  OBVIOUS
<1>1. CASE Start
  BY <1>1, UnknownType DEF TypeOK, Start
<1>2. CASE Stop
  BY <1>2, FederationAssumption DEF TypeOK, Stop
<1>3. CASE Poll
  BY <1>3 DEF TypeOK, Poll, Due
<1>4. CASE NothingDue \/ Persist \/ PersistFails
  <2>1. sleep' \in Nat
    <3>1. \A t \in {DegradedSleep, IdleSleep} : Lesser(SyncInterval, t) \in Nat
      BY FederationAssumption DEF Lesser
    <3> QED BY <1>4, <3>1, FederationAssumption DEF NothingDue, Persist, PersistFails
  <2>2. disk' \in [Nodes -> NodeState \cup {NoState}]
    BY <1>4 DEF TypeOK, NothingDue, Persist, PersistFails
  <2>3. pc' = "asleep" /\ batch' \in SUBSET batch /\ polling' \in SUBSET batch'
    BY <1>4 DEF TypeOK, Asked, NothingDue, Persist, PersistFails
  <2> QED BY <1>4, <2>1, <2>2, <2>3 DEF TypeOK, NothingDue, Persist, PersistFails
<1>5. CASE Wake
  BY <1>5 DEF TypeOK, Wake
<1>6. CASE Tick
  <2>1. nodes' \in [Nodes -> NodeState \cup {NoState}]
    BY <1>6, SoonerType DEF TypeOK, Tick
  <2>2. disk' \in [Nodes -> NodeState \cup {NoState}]
    BY <1>6, SoonerType DEF TypeOK, Tick
  <2>3. sleep' \in Nat /\ owed' \in [Nodes -> 0..BackoffMax]
    BY <1>6, BeforeType DEF TypeOK, Tick
  <2> QED BY <1>6, <2>1, <2>2, <2>3 DEF TypeOK, Tick
<1>7. ASSUME NEW n \in Nodes, AnswerHealthy(n) PROVE TypeOK'
  <2>1. nodes' = [nodes EXCEPT ![n] = Healthy]
    BY <1>7 DEF AnswerHealthy, Healthy
  <2>2. nodes' \in [Nodes -> NodeState \cup {NoState}]
    BY <2>1, AnswerTypes DEF TypeOK
  <2> QED BY <1>7, <2>2, FederationAssumption DEF TypeOK, AnswerHealthy
<1>8. ASSUME NEW n \in Nodes, AnswerFails(n) PROVE TypeOK'
  <2> DEFINE k == circuit[n] + 1
  <2>1. k \in 0..Threshold
    BY <1>8, NextFailure DEF AnswerFails
  <2>2. nodes' = [nodes EXCEPT ![n] = Failed(k)]
    BY <1>8 DEF AnswerFails, Failed
  <2>3. nodes' \in [Nodes -> NodeState \cup {NoState}]
    BY <2>1, <2>2, AnswerTypes DEF TypeOK
  <2>4. circuit' \in [Nodes -> 0..Threshold] /\ owed' \in [Nodes -> 0..BackoffMax]
    BY <1>8, <2>1, BackoffType DEF TypeOK, AnswerFails
  <2> QED BY <1>8, <2>3, <2>4 DEF TypeOK, AnswerFails
<1>9. ASSUME NEW n \in Nodes, AnswerGarbled(n) PROVE TypeOK'
  BY <1>9 DEF TypeOK, AnswerGarbled
<1>10. ASSUME NEW n \in Nodes, Reload(n) PROVE TypeOK'
  BY <1>10 DEF TypeOK, Reload
<1>11. ASSUME NEW n \in Nodes, NEW answer \in {"healthy", "failing", "garbled"},
              Change(n, answer)
       PROVE  TypeOK'
  BY <1>11 DEF TypeOK, Change
<1>12. CASE UNCHANGED vars
  BY <1>12 DEF TypeOK, vars
<1> QED BY <1>1, <1>2, <1>3, <1>4, <1>5, <1>6, <1>7, <1>8, <1>9, <1>10, <1>11, <1>12 DEF Next
-----------------------------------------------------------------------------
(* The states and the circuits.                                            *)

\* What an answer leaves of the state of its node, and of the others.
LEMMA AnswerStates ==
    ASSUME TypeOK, Asked, NEW n \in polling, NEW m \in Nodes
    PROVE  /\ AnswerHealthy(n) =>
                /\ nodes'[m] = IF m = n THEN Healthy ELSE nodes[m]
                /\ circuit'[m] = IF m = n THEN 0 ELSE circuit[m]
                /\ owed'[m] = IF m = n THEN 0 ELSE owed[m]
           /\ AnswerFails(n) =>
                /\ nodes'[m] = IF m = n THEN Failed(circuit[n] + 1) ELSE nodes[m]
                /\ circuit'[m] = IF m = n THEN circuit[n] + 1 ELSE circuit[m]
                /\ owed'[m] = IF m = n THEN Backoff(circuit[n] + 1) ELSE owed[m]
<1>1. nodes \in [Nodes -> NodeState \cup {NoState}]
  BY DEF TypeOK
<1>2. circuit \in [Nodes -> 0..Threshold] /\ owed \in [Nodes -> 0..BackoffMax]
  BY DEF TypeOK
<1>3. CASE AnswerHealthy(n)
  <2>1. nodes' = [nodes EXCEPT ![n] = Healthy]
    BY <1>3 DEF AnswerHealthy, Healthy
  <2>2. circuit' = [circuit EXCEPT ![n] = 0] /\ owed' = [owed EXCEPT ![n] = 0]
    BY <1>3 DEF AnswerHealthy
  <2>3. ~AnswerFails(n)
    BY <1>3 DEF AnswerHealthy, AnswerFails
  <2> QED BY <1>1, <1>2, <2>1, <2>2, <2>3
<1>4. CASE AnswerFails(n)
  <2>1. nodes' = [nodes EXCEPT ![n] = Failed(circuit[n] + 1)]
    BY <1>4 DEF AnswerFails, Failed
  <2>2. /\ circuit' = [circuit EXCEPT ![n] = circuit[n] + 1]
        /\ owed' = [owed EXCEPT ![n] = Backoff(circuit[n] + 1)]
    BY <1>4 DEF AnswerFails
  <2>3. ~AnswerHealthy(n)
    BY <1>4 DEF AnswerHealthy, AnswerFails
  <2> QED BY <1>1, <1>2, <2>1, <2>2, <2>3
<1> QED BY <1>3, <1>4

LEMMA NextAsked == TypeOK /\ Asked /\ [Next]_vars => Asked'
<1> SUFFICES ASSUME TypeOK, Asked, [Next]_vars PROVE Asked'
  OBVIOUS
<1>1. CASE Start
  BY <1>1 DEF Asked, Start
<1>2. CASE Stop
  BY <1>2 DEF Asked, Stop
<1>3. CASE Poll
  BY <1>3 DEF Asked, Poll, Due, Open
<1>4. CASE NothingDue \/ Persist \/ PersistFails \/ Wake
  BY <1>4 DEF Asked, NothingDue, Persist, PersistFails, Wake, Open
<1>5. CASE Tick
  <2>1. \A n \in Nodes : nodes[n] # NoState => nodes'[n] # NoState
    BY <1>5, SoonerStates DEF TypeOK, Tick
  <2> QED BY <1>5, <2>1 DEF TypeOK, Asked, Tick, Open
<1>6. ASSUME NEW n \in Nodes, AnswerHealthy(n) \/ AnswerFails(n) PROVE Asked'
  <2>1. n \in polling /\ polling' = polling \ {n} /\ pc' = pc
    BY <1>6 DEF AnswerHealthy, AnswerFails
  <2>2. pc = "gather"
    BY <2>1 DEF Asked
  <2>3. ASSUME NEW m \in polling' PROVE nodes'[m] # NoState /\ ~(circuit'[m] >= Threshold)
    <3>1. m \in polling /\ m \in Nodes /\ m # n
      BY <2>1, <2>3 DEF TypeOK
    <3>2. nodes'[m] = nodes[m] /\ circuit'[m] = circuit[m]
      BY <1>6, <2>1, <3>1, AnswerStates
    <3> QED BY <3>1, <3>2 DEF Asked, Open
  <2> QED BY <2>1, <2>2, <2>3 DEF Asked, Open
<1>7. ASSUME NEW n \in Nodes, AnswerGarbled(n) PROVE Asked'
  BY <1>7 DEF Asked, AnswerGarbled, Open
<1>8. ASSUME NEW n \in Nodes, Reload(n) PROVE Asked'
  BY <1>8 DEF Asked, Reload, Open
<1>9. ASSUME NEW n \in Nodes, NEW answer \in {"healthy", "failing", "garbled"},
             Change(n, answer)
      PROVE  Asked'
  BY <1>9 DEF Asked, Change, Open
<1>10. CASE UNCHANGED vars
  BY <1>10 DEF Asked, vars, Open
<1> QED BY <1>1, <1>2, <1>3, <1>4, <1>5, <1>6, <1>7, <1>8, <1>9, <1>10 DEF Next

\* CircuitTold of one node.
Told(n) ==
    /\ circuit[n] > 0 =>
         /\ nodes[n] # NoState /\ nodes[n].failures = circuit[n]
         /\ nodes[n].status = IF Open(n) THEN "down" ELSE "degraded"
    /\ Has(n, "up") => circuit[n] = 0

LEMMA NextTold == TypeOK /\ Asked /\ CircuitTold /\ [Next]_vars => CircuitTold'
<1> SUFFICES ASSUME TypeOK, Asked, CircuitTold, [Next]_vars, NEW m \in Nodes PROVE Told(m)'
  BY DEF CircuitTold, Told
<1>0. Told(m) /\ circuit[m] \in 0..Threshold
  BY DEF TypeOK, CircuitTold, Told
<1>1. CASE nodes'[m] = nodes[m] /\ circuit'[m] = circuit[m]
  BY <1>0, <1>1 DEF Told, Open, Has
<1>2. CASE circuit'[m] = 0
  BY <1>2, FederationAssumption DEF Told
<1>3. CASE Start
  <2>1. circuit'[m] = 0
    BY <1>3 DEF Asked, Start
  <2> QED BY <1>2, <2>1
<1>4. CASE Stop
  <2>1. circuit'[m] = 0
    BY <1>4 DEF Stop
  <2> QED BY <1>2, <2>1
<1>5. CASE Tick
  <2>1. nodes[m] = NoState => nodes'[m] = NoState
    BY <1>5, SoonerStates DEF TypeOK, Tick
  <2>2. nodes[m] # NoState =>
          /\ nodes'[m] # NoState /\ nodes'[m].status = nodes[m].status
          /\ nodes'[m].failures = nodes[m].failures
    BY <1>5, SoonerStates DEF TypeOK, Tick
  <2>3. circuit' = circuit
    BY <1>5 DEF Tick
  <2> QED BY <1>0, <2>1, <2>2, <2>3 DEF Told, Open, Has
<1>6. ASSUME NEW n \in Nodes, AnswerHealthy(n) PROVE Told(m)'
  <2>1. n \in polling
    BY <1>6 DEF AnswerHealthy
  <2>2. CASE m = n
    BY <1>2, <1>6, <2>1, <2>2, AnswerStates
  <2>3. CASE m # n
    BY <1>1, <1>6, <2>1, <2>3, AnswerStates
  <2> QED BY <2>2, <2>3
<1>7. ASSUME NEW n \in Nodes, AnswerFails(n) PROVE Told(m)'
  <2>1. n \in polling
    BY <1>7 DEF AnswerFails
  <2>2. CASE m = n
    <3> DEFINE k == circuit[n] + 1
    <3>1. k \in 1..Threshold
      BY <2>1, NextFailure
    <3>2. nodes'[m] = Failed(k) /\ circuit'[m] = k
      BY <1>7, <2>1, <2>2, AnswerStates
    <3>3. Failed(k) # NoState
      BY <3>1, AnswerTypes, NoStateAssumption
    <3> QED BY <3>1, <3>2, <3>3 DEF Told, Open, Has, Failed
  <2>3. CASE m # n
    BY <1>1, <1>7, <2>1, <2>3, AnswerStates
  <2> QED BY <2>2, <2>3
<1>8. CASE Poll \/ NothingDue \/ Persist \/ PersistFails \/ Wake \/ UNCHANGED vars
  BY <1>1, <1>8 DEF Poll, NothingDue, Persist, PersistFails, Wake, vars
<1>9. ASSUME NEW n \in Nodes,
             \/ AnswerGarbled(n) \/ Reload(n)
             \/ \E answer \in {"healthy", "failing", "garbled"} : Change(n, answer)
      PROVE  Told(m)'
  BY <1>1, <1>9 DEF AnswerGarbled, Reload, Change
<1> QED BY <1>3, <1>4, <1>5, <1>6, <1>7, <1>8, <1>9 DEF Next

-----------------------------------------------------------------------------
(* The backoffs.                                                           *)

\* What is owed to one node is held.
Held(n) == owed[n] # 0 => Waits(IF pc = "stopped" THEN disk[n] ELSE nodes[n], owed[n])

LEMMA NextHeld == TypeOK /\ Asked /\ OwedHeld /\ [Next]_vars => OwedHeld'
<1> SUFFICES ASSUME TypeOK, Asked, OwedHeld, [Next]_vars, NEW m \in Nodes, m \notin unsaved'
             PROVE  Held(m)'
  BY DEF OwedHeld, Held
<1>0. m \notin unsaved => Held(m)
  BY DEF OwedHeld, Held
<1>1. CASE Start
  BY <1>0, <1>1 DEF TypeOK, Start, Held, Waits
<1>2. CASE Stop
  <2>1. m \notin unsaved /\ nodes[m] = disk[m]
    BY <1>2 DEF Stop
  <2> QED BY <1>0, <1>2, <2>1 DEF Stop, Held, Waits
<1>3. CASE Tick
  <2>1. m \notin unsaved /\ pc' = pc
    BY <1>3 DEF Tick
  <2>2. owed'[m] = Before(owed[m]) /\ owed[m] \in 0..BackoffMax
    BY <1>3 DEF TypeOK, Tick
  <2>3. owed'[m] # 0 => owed[m] # 0
    BY <2>2 DEF Before
  <2>4. ASSUME NEW states \in [Nodes -> NodeState \cup {NoState}], Waits(states[m], owed[m])
        PROVE  Waits(Sooner(states)[m], Before(owed[m]))
    BY <2>4, SoonerStates DEF Waits
  <2>5. nodes' = Sooner(nodes) /\ disk' = Sooner(disk)
    BY <1>3 DEF Tick
  <2>6. Waits(nodes[m], owed[m]) => Waits(nodes'[m], owed'[m])
    BY <2>2, <2>4, <2>5 DEF TypeOK
  <2>7. Waits(disk[m], owed[m]) => Waits(disk'[m], owed'[m])
    BY <2>2, <2>4, <2>5 DEF TypeOK
  <2> QED BY <1>0, <2>1, <2>3, <2>6, <2>7 DEF Held
<1>4. CASE Poll \/ NothingDue \/ Persist \/ PersistFails \/ Wake
  <2>1. pc # "stopped" /\ pc' # "stopped"
    BY <1>4 DEF Poll, NothingDue, Persist, PersistFails, Wake
  <2>2. nodes' = nodes /\ owed' = owed /\ unsaved' = unsaved
    BY <1>4 DEF Poll, NothingDue, Persist, PersistFails, Wake
  <2> QED BY <1>0, <2>1, <2>2 DEF Held, Waits
<1>5. ASSUME NEW n \in Nodes, AnswerHealthy(n) \/ AnswerFails(n) PROVE Held(m)'
  <2>1. n \in polling /\ pc' = pc /\ unsaved' = unsaved \ {n}
    BY <1>5 DEF AnswerHealthy, AnswerFails
  <2>2. pc = "gather"
    BY <2>1 DEF Asked
  <2>3. CASE m # n
    <3>1. nodes'[m] = nodes[m] /\ owed'[m] = owed[m]
      BY <1>5, <2>1, <2>3, AnswerStates
    <3> QED BY <1>0, <2>1, <2>2, <2>3, <3>1 DEF Held, Waits
  <2>4. CASE m = n /\ AnswerHealthy(n)
    <3>1. owed'[m] = 0
      BY <2>1, <2>4, AnswerStates
    <3> QED BY <3>1 DEF Held
  <2>5. CASE m = n /\ AnswerFails(n)
    <3> DEFINE k == circuit[n] + 1
    <3>1. nodes'[m] = Failed(k) /\ owed'[m] = Backoff(k)
      BY <2>1, <2>5, AnswerStates
    <3>2. Failed(k) # NoState
      BY <2>1, NextFailure, AnswerTypes, NoStateAssumption
    <3> QED BY <2>1, <2>2, <3>1, <3>2 DEF Held, Waits, Failed
  <2> QED BY <1>5, <2>3, <2>4, <2>5
<1>6. ASSUME NEW n \in Nodes,
             \/ AnswerGarbled(n) \/ Reload(n)
             \/ \E answer \in {"healthy", "failing", "garbled"} : Change(n, answer)
      PROVE  Held(m)'
  BY <1>0, <1>6 DEF AnswerGarbled, Reload, Change, Held, Waits
<1>7. CASE UNCHANGED vars
  BY <1>0, <1>7 DEF vars, Held, Waits
<1> QED BY <1>1, <1>2, <1>3, <1>4, <1>5, <1>6, <1>7 DEF Next

-----------------------------------------------------------------------------

LEMMA InitInv == Init => Inv
<1> SUFFICES ASSUME Init PROVE Inv
  OBVIOUS
<1>1. Asked
  BY DEF Init, Asked
<1>2. CircuitTold
  <2>1. ASSUME NEW n \in Nodes PROVE Told(n)
    <3>1. circuit[n] = 0 /\ ~(circuit[n] > 0)
      BY DEF Init
    <3> QED BY <3>1 DEF Told
  <2> QED BY <2>1 DEF CircuitTold, Told
<1>3. OwedHeld
  BY DEF Init, OwedHeld
<1> QED BY InitType, <1>1, <1>2, <1>3 DEF Inv

LEMMA NextInv == Inv /\ [Next]_vars => Inv'
  BY NextType, NextAsked, NextTold, NextHeld DEF Inv

\* The heartbeat's records are well typed, for any nodes, threshold and durations.
THEOREM TypeCorrect == Spec => []TypeOK
<1>1. Inv => TypeOK
  BY DEF Inv
<1> QED BY InitInv, NextInv, <1>1, PTL DEF Spec

\* What set_state and _circuit_record_failure store of one node agrees, however the answers
\* of a turn, stops, failed writes and reloads of the configuration interleave.
THEOREM CircuitsTold == Spec => []CircuitTold
<1>1. Inv => CircuitTold
  BY DEF Inv
<1> QED BY InitInv, NextInv, <1>1, PTL DEF Spec

\* The action of BackoffKept.
AsksInTime == \A n \in polling' \ polling : owed[n] = 0 \/ n \in unsaved

\* A failed node is asked again only after its whole backoff, whether or not the worker was
\* restarted meanwhile, unless a stop came before its failure was persisted.
THEOREM BackoffsKept == Spec => BackoffKept
<1>1. Inv /\ Next => AsksInTime
  <2> SUFFICES ASSUME Inv, Next, NEW n \in polling', n \notin polling, n \notin unsaved
               PROVE  owed[n] = 0
    BY DEF AsksInTime
  <2>1. Poll
    BY DEF Next, Start, Stop, NothingDue, Persist, PersistFails, Wake, Tick, AnswerHealthy,
           AnswerFails, AnswerGarbled, Reload, Change
  <2>2. n \in Nodes /\ pc = "turn" /\ (nodes[n].status = "unknown" \/ nodes[n].wait = 0)
    BY <2>1 DEF Poll, Due
  <2> QED BY <2>2 DEF Inv, OwedHeld, Waits
<1>2. Inv /\ [Next]_vars => [AsksInTime]_vars
  BY <1>1
<1> QED BY InitInv, NextInv, <1>2, PTL DEF Spec, BackoffKept, AsksInTime

-----------------------------------------------------------------------------
(* Webhooks: what waits, where it is held, and how often it was posted.    *)

\* The tasks of a sequence, and whether no two of them are about one delivery.
TasksIn(q) == {q[i] : i \in 1..Len(q)}
NamedIn(q) == {q[i].d : i \in 1..Len(q)}
DistinctTasks(q) == \A i, j \in 1..Len(q) : q[i].d = q[j].d => i = j

\* OneTask in parts: what waits is held, what one worker holds is held once there, and no
\* two workers hold the same.
WaitingHeld == \A d \in Deliveries : status[d] = "waiting" <=> \E w \in Processes : d \in HeldAt(w)

HeldOnce(w) ==
    /\ DistinctTasks(queue[w])
    /\ \A s, t \in asleep[w] : s.d = t.d => s = t
    /\ QueuedAt(w) \cap PostedAt(w) = {}
    /\ QueuedAt(w) \cap AsleepAt(w) = {}
    /\ PostedAt(w) \cap AsleepAt(w) = {}

HeldApart == \A w \in Processes : \A v \in Processes \ {w} : HeldAt(v) \cap HeldAt(w) = {}

\* The attempt a task names is the number of its posts, the one to come included; a retry
\* sleeps only while one is left, and the post that is awaited has not been received.
Ledger(w) ==
    /\ \A t \in TasksIn(queue[w]) : posts[t.d] + 1 = t.attempt
    /\ current[w] # NoTask => /\ posts[current[w].d] = current[w].attempt
                            /\ received[current[w].d] < posts[current[w].d]
    /\ \A t \in asleep[w] : posts[t.d] = t.attempt /\ t.attempt <= MaxRetries

\* Nothing is received that was not posted, and nothing is posted before it is emitted.
PostsFirst ==
    \A d \in Deliveries : /\ received[d] <= posts[d]
                          /\ status[d] = "none" => posts[d] = 0

\* A worker that is down holds nothing.
DownEmpty == \A w \in Processes : ~up[w] => HeldAt(w) = {}

HookInv ==
    /\ HookTypeOK
    /\ WaitingHeld
    /\ \A w \in Processes : HeldOnce(w)
    /\ HeldApart
    /\ \A w \in Processes : Ledger(w)
    /\ PostsFirst
    /\ DownEmpty

LEMMA TaskFields ==
    ASSUME NEW t \in Task
    PROVE  /\ t.d \in Deliveries
           /\ t.attempt \in 1..MaxRetries + 1
           /\ t.attempt \in Nat
           /\ t # NoTask
  BY WebhooksAssumption, NoTaskAssumption DEF Task

\* The three places of a worker, and what each holds.
LEMMA Places ==
    ASSUME HookTypeOK, NEW w \in Processes
    PROVE  /\ QueuedAt(w) = NamedIn(queue[w])
           /\ queue[w] \in Seq(Task)
           /\ Len(queue[w]) \in Nat
           /\ TasksIn(queue[w]) \subseteq Task
           /\ \A i \in 1..Len(queue[w]) : queue[w][i] \in Task
           /\ current[w] # NoTask => current[w] \in Task
           /\ asleep[w] \subseteq Task
           /\ HeldAt(w) \subseteq Deliveries
<1>1. /\ queue[w] \in Seq(Task)
      /\ current[w] # NoTask => current[w] \in Task
      /\ asleep[w] \subseteq Task
  BY DEF HookTypeOK
<1>2. /\ Len(queue[w]) \in Nat
      /\ \A i \in 1..Len(queue[w]) : queue[w][i] \in Task
  BY <1>1, ElementOfSeq, LenProperties
<1>3. QueuedAt(w) = NamedIn(queue[w])
  BY DEF QueuedAt, NamedIn
<1>4. TasksIn(queue[w]) \subseteq Task
  BY <1>2 DEF TasksIn
<1>5. QueuedAt(w) \subseteq Deliveries
  BY <1>2, TaskFields DEF QueuedAt
<1>6. PostedAt(w) \subseteq Deliveries
  BY <1>1, TaskFields DEF PostedAt
<1>7. AsleepAt(w) \subseteq Deliveries
  BY <1>1, TaskFields DEF AsleepAt
<1>8. HeldAt(w) \subseteq Deliveries
  BY <1>5, <1>6, <1>7 DEF HeldAt
<1> QED BY <1>1, <1>2, <1>3, <1>4, <1>8

LEMMA OneTaskParts ==
    ASSUME HookTypeOK
    PROVE  OneTask <=> /\ WaitingHeld
                       /\ \A w \in Processes : HeldOnce(w)
                       /\ HeldApart
<1>1. \A w \in Processes : DistinctTasks(queue[w]) <=>
          \A i, j \in 1..Len(queue[w]) : queue[w][i].d = queue[w][j].d => i = j
  BY DEF DistinctTasks
<1> QED BY <1>1, Zenon DEF OneTask, WaitingHeld, HeldOnce, HeldApart

\* What the three operations on a queue make of its tasks.
LEMMA TailTasks ==
    ASSUME NEW q \in Seq(Task), q # <<>>, DistinctTasks(q)
    PROVE  /\ Head(q) \in TasksIn(q)
           /\ Head(q) \in Task
           /\ Tail(q) \in Seq(Task)
           /\ DistinctTasks(Tail(q))
           /\ TasksIn(Tail(q)) \subseteq TasksIn(q)
           /\ NamedIn(q) = NamedIn(Tail(q)) \cup {Head(q).d}
           /\ Head(q).d \notin NamedIn(Tail(q))
<1>1. /\ Len(q) \in Nat \ {0}
      /\ Tail(q) \in Seq(Task)
      /\ Head(q) \in Task
      /\ Len(Tail(q)) = Len(q) - 1
      /\ \A i \in 1..Len(Tail(q)) : Tail(q)[i] = q[i + 1]
  BY HeadTailProperties, EmptySeq
<1>2. Head(q) = q[1]
  BY <1>1
<1>3. \A i \in 1..Len(Tail(q)) : i + 1 \in 1..Len(q) /\ i + 1 # 1
  BY <1>1
<1>4. \A i \in 1..Len(q) : i = 1 \/ (i - 1 \in 1..Len(Tail(q)) /\ Tail(q)[i - 1] = q[i])
  BY <1>1
<1>5. 1 \in 1..Len(q)
  BY <1>1
<1>6. DistinctTasks(Tail(q))
  <2> SUFFICES ASSUME NEW i \in 1..Len(Tail(q)), NEW j \in 1..Len(Tail(q)),
                      Tail(q)[i].d = Tail(q)[j].d
               PROVE  i = j
    BY DEF DistinctTasks
  <2>1. i + 1 = j + 1
    BY <1>1, <1>3 DEF DistinctTasks
  <2> QED BY <2>1, <1>1
<1>7. TasksIn(Tail(q)) \subseteq TasksIn(q)
  BY <1>1, <1>3 DEF TasksIn
<1>8. NamedIn(q) = NamedIn(Tail(q)) \cup {Head(q).d}
  BY <1>1, <1>2, <1>3, <1>4, <1>5 DEF NamedIn
<1>9. Head(q).d \notin NamedIn(Tail(q))
  BY <1>1, <1>2, <1>3, <1>5 DEF NamedIn, DistinctTasks
<1> QED BY <1>1, <1>2, <1>5, <1>6, <1>7, <1>8, <1>9 DEF TasksIn

LEMMA ConcatTasks ==
    ASSUME NEW q \in Seq(Task), NEW p \in Seq(Task), DistinctTasks(q), DistinctTasks(p),
           NamedIn(q) \cap NamedIn(p) = {}
    PROVE  /\ q \o p \in Seq(Task)
           /\ DistinctTasks(q \o p)
           /\ TasksIn(q \o p) = TasksIn(q) \cup TasksIn(p)
           /\ NamedIn(q \o p) = NamedIn(q) \cup NamedIn(p)
<1> DEFINE r == q \o p
<1>1. /\ Len(q) \in Nat /\ Len(p) \in Nat
      /\ r \in Seq(Task)
      /\ Len(r) = Len(q) + Len(p)
      /\ \A i \in 1..Len(q) + Len(p) : r[i] = IF i <= Len(q) THEN q[i] ELSE p[i - Len(q)]
  BY ConcatProperties, LenProperties
<1> HIDE DEF r
<1>2. \A i \in 1..Len(r) : \/ i \in 1..Len(q) /\ r[i] = q[i]
                           \/ i - Len(q) \in 1..Len(p) /\ r[i] = p[i - Len(q)]
  BY <1>1
<1>3. \A i \in 1..Len(q) : i \in 1..Len(r) /\ r[i] = q[i]
  BY <1>1
<1>4. \A i \in 1..Len(p) : i + Len(q) \in 1..Len(r) /\ r[i + Len(q)] = p[i]
  BY <1>1
<1>5. TasksIn(r) = TasksIn(q) \cup TasksIn(p)
  <2>1. TasksIn(r) \subseteq TasksIn(q) \cup TasksIn(p)
    BY <1>2 DEF TasksIn
  <2>2. TasksIn(q) \subseteq TasksIn(r)
    BY <1>3 DEF TasksIn
  <2>3. TasksIn(p) \subseteq TasksIn(r)
    BY <1>4 DEF TasksIn
  <2> QED BY <2>1, <2>2, <2>3
<1>6. NamedIn(r) = NamedIn(q) \cup NamedIn(p)
  <2>1. NamedIn(r) \subseteq NamedIn(q) \cup NamedIn(p)
    BY <1>2 DEF NamedIn
  <2>2. NamedIn(q) \subseteq NamedIn(r)
    BY <1>3 DEF NamedIn
  <2>3. NamedIn(p) \subseteq NamedIn(r)
    BY <1>4 DEF NamedIn
  <2> QED BY <2>1, <2>2, <2>3
<1>7. DistinctTasks(r)
  <2> SUFFICES ASSUME NEW i \in 1..Len(r), NEW j \in 1..Len(r), r[i].d = r[j].d
               PROVE  i = j
    BY DEF DistinctTasks
  <2>1. CASE i \in 1..Len(q) /\ r[i] = q[i] /\ j \in 1..Len(q) /\ r[j] = q[j]
    BY <2>1 DEF DistinctTasks
  <2>2. CASE /\ i - Len(q) \in 1..Len(p) /\ r[i] = p[i - Len(q)]
             /\ j - Len(q) \in 1..Len(p) /\ r[j] = p[j - Len(q)]
    <3>1. i - Len(q) = j - Len(q)
      BY <2>2 DEF DistinctTasks
    <3> QED BY <3>1, <1>1
  <2>3. ASSUME NEW a \in 1..Len(q), NEW b \in 1..Len(p), q[a].d = p[b].d
        PROVE  FALSE
    BY <2>3 DEF NamedIn
  <2> QED BY <2>1, <2>2, <2>3, <1>2
<1> QED BY <1>1, <1>5, <1>6, <1>7 DEF r

LEMMA AppendTasks ==
    ASSUME NEW q \in Seq(Task), NEW t \in Task, DistinctTasks(q), t.d \notin NamedIn(q)
    PROVE  /\ Append(q, t) \in Seq(Task)
           /\ DistinctTasks(Append(q, t))
           /\ TasksIn(Append(q, t)) = TasksIn(q) \cup {t}
           /\ NamedIn(Append(q, t)) = NamedIn(q) \cup {t.d}
<1> DEFINE p == <<t>>
<1>1. /\ p \in Seq(Task) /\ Len(p) = 1 /\ p[1] = t
      /\ Append(q, t) = q \o p
  BY AppendIsConcat
<1> HIDE DEF p
<1>2. /\ DistinctTasks(p) /\ TasksIn(p) = {t} /\ NamedIn(p) = {t.d}
  BY <1>1 DEF DistinctTasks, TasksIn, NamedIn
<1> QED BY <1>1, <1>2, ConcatTasks

\* What a step leaves alone at a worker.
Untouched(v) ==
    /\ queue'[v] = queue[v]
    /\ current'[v] = current[v]
    /\ asleep'[v] = asleep[v]

LEMMA Alone ==
    ASSUME NEW v \in Processes, Untouched(v)
    PROVE  /\ HeldAt(v)' = HeldAt(v)
           /\ HeldOnce(v) => HeldOnce(v)'
<1>1. QueuedAt(v)' = QueuedAt(v)
  BY DEF Untouched, QueuedAt
<1>2. PostedAt(v)' = PostedAt(v)
  BY DEF Untouched, PostedAt
<1>3. AsleepAt(v)' = AsleepAt(v)
  BY DEF Untouched, AsleepAt
<1>4. HeldAt(v)' = HeldAt(v)
  BY <1>1, <1>2, <1>3 DEF HeldAt
<1>5. ASSUME HeldOnce(v) PROVE HeldOnce(v)'
  BY <1>1, <1>2, <1>3, <1>5 DEF HeldOnce, Untouched
<1> QED BY <1>4, <1>5

LEMMA LedgerAlone ==
    ASSUME HookTypeOK, NEW v \in Processes, Ledger(v), Untouched(v),
           \A d \in HeldAt(v) : posts'[d] = posts[d] /\ received'[d] = received[d]
    PROVE  Ledger(v)'
<1>1. \A t \in TasksIn(queue[v]) : t.d \in HeldAt(v)
  BY DEF TasksIn, HeldAt, QueuedAt
<1>2. current[v] # NoTask => current[v].d \in HeldAt(v)
  BY DEF HeldAt, PostedAt
<1>3. \A t \in asleep[v] : t.d \in HeldAt(v)
  BY DEF HeldAt, AsleepAt
<1> QED BY <1>1, <1>2, <1>3 DEF Ledger, Untouched

\* A step that touches what one worker holds keeps the invariant when it keeps it there.
LEMMA WorkerStep ==
    ASSUME HookInv, HookTypeOK', NEW w \in Processes,
           \A v \in Processes \ {w} : Untouched(v) /\ up'[v] = up[v],
           \A v \in Processes \ {w} : \A d \in HeldAt(v) :
               posts'[d] = posts[d] /\ received'[d] = received[d],
           \A d \in HeldAt(w)' :
               status'[d] = "waiting" /\ (d \in HeldAt(w) \/ status[d] # "waiting"),
           \A d \in HeldAt(w) \ HeldAt(w)' : status'[d] # "waiting",
           \A d \in Deliveries : d \in HeldAt(w) \/ d \in HeldAt(w)'
               \/ (status'[d] = "waiting" <=> status[d] = "waiting"),
           HeldOnce(w)', Ledger(w)', PostsFirst', ~up'[w] => HeldAt(w)' = {}
    PROVE  HookInv'
<1>1. /\ HookTypeOK /\ WaitingHeld /\ HeldApart /\ DownEmpty
      /\ \A v \in Processes : HeldOnce(v) /\ Ledger(v)
  BY DEF HookInv
<1>2. \A v \in Processes \ {w} : HeldAt(v)' = HeldAt(v) /\ HeldOnce(v)' /\ Ledger(v)'
  BY <1>1, Alone, LedgerAlone
<1>3. \A v \in Processes : HeldAt(v) \subseteq Deliveries
  BY <1>1, Places
<1>4. WaitingHeld'
  <2> SUFFICES ASSUME NEW d \in Deliveries
               PROVE  status'[d] = "waiting" <=> \E v \in Processes : d \in HeldAt(v)'
    BY Zenon DEF WaitingHeld
  <2>1. CASE d \in HeldAt(w)'
    BY <2>1
  <2>2. CASE d \in HeldAt(w) /\ d \notin HeldAt(w)'
    <3>1. status'[d] # "waiting"
      BY <2>2
    <3>2. \A v \in Processes \ {w} : d \notin HeldAt(v)
      BY <2>2, <1>1 DEF HeldApart
    <3> QED BY <3>1, <3>2, <2>2, <1>2
  <2>3. CASE d \notin HeldAt(w) /\ d \notin HeldAt(w)'
    <3>1. status'[d] = "waiting" <=> status[d] = "waiting"
      BY <2>3
    <3>2. status[d] = "waiting" <=> \E v \in Processes : d \in HeldAt(v)
      BY <1>1 DEF WaitingHeld
    <3> QED BY <3>1, <3>2, <2>3, <1>2
  <2> QED BY <2>1, <2>2, <2>3
<1>5. HeldApart'
  <2>1. ASSUME NEW v \in Processes \ {w} PROVE HeldAt(v) \cap HeldAt(w)' = {}
    <3> SUFFICES ASSUME NEW d \in HeldAt(v), d \in HeldAt(w)' PROVE FALSE
      OBVIOUS
    <3>1. d \in Deliveries /\ status[d] = "waiting"
      BY <1>1, <1>3 DEF WaitingHeld
    <3>2. d \in HeldAt(w)
      BY <3>1
    <3> QED BY <3>2, <1>1 DEF HeldApart
  <2>2. ASSUME NEW u \in Processes, NEW v \in Processes \ {u}
        PROVE  HeldAt(v)' \cap HeldAt(u)' = {}
    <3>1. CASE u = w
      BY <3>1, <2>1, <1>2
    <3>2. CASE v = w
      BY <3>2, <2>1, <1>2
    <3>3. CASE u # w /\ v # w
      BY <3>3, <1>1, <1>2 DEF HeldApart
    <3> QED BY <3>1, <3>2, <3>3
  <2> QED BY <2>2, Zenon DEF HeldApart
<1>6. DownEmpty'
  BY <1>1, <1>2 DEF DownEmpty
<1>7. /\ \A v \in Processes : HeldOnce(v)'
      /\ \A v \in Processes : Ledger(v)'
  BY <1>2
<1> QED BY <1>4, <1>5, <1>6, <1>7 DEF HookInv

\* The tasks of an event: one for each position, each a first attempt, no two alike.
LEMMA EventTasks ==
    ASSUME NEW e \in Events, NEW p \in HookMatches
    PROVE  /\ TasksFor(e, p) \in Seq(Task)
           /\ Len(TasksFor(e, p)) = Len(p)
           /\ Len(p) \in Nat
           /\ \A i \in 1..Len(p) : /\ TasksFor(e, p)[i] \in Task
                                   /\ TasksFor(e, p)[i].attempt = 1
                                   /\ TasksFor(e, p)[i].d[1] = e
                                   /\ TasksFor(e, p)[i].d[2] \in Hooks
                                   /\ TasksFor(e, p)[i].d = <<e, TasksFor(e, p)[i].d[2]>>
           /\ DistinctTasks(TasksFor(e, p))
<1>1. PICK n \in 1..Len(HookOrder) : p \in [1..n -> 1..Len(HookOrder)]
  BY DEF HookMatches
<1>2. /\ Len(HookOrder) \in Nat
      /\ \A i \in 1..Len(HookOrder) : HookOrder[i] \in Hooks
  BY WebhooksAssumption, ElementOfSeq, LenProperties
<1>3. n \in Nat /\ Len(p) = n
  BY <1>1, <1>2
<1>4. \A i \in 1..n : p[i] \in 1..Len(HookOrder) /\ HookOrder[p[i]] \in Hooks
  BY <1>1, <1>2
<1>5. \A i, j \in 1..n : HookOrder[p[i]] = HookOrder[p[j]] => i = j
  <2> SUFFICES ASSUME NEW i \in 1..n, NEW j \in 1..n, HookOrder[p[i]] = HookOrder[p[j]]
               PROVE  i = j
    OBVIOUS
  <2>1. p[i] = p[j] /\ p[i] \in Nat
    BY <1>4, WebhooksAssumption
  <2>2. DOMAIN p = 1..n
    BY <1>1
  <2>3. \A a, b \in DOMAIN p : a < b => p[a] < p[b]
    BY DEF HookMatches
  <2>4. /\ i < j => p[i] < p[j]
        /\ j < i => p[j] < p[i]
    BY <2>2, <2>3
  <2>5. ~(i < j) /\ ~(j < i)
    BY <2>1, <2>4
  <2> QED BY <2>5, <1>3
<1> DEFINE r == TasksFor(e, p)
<1>6. r = [i \in 1..n |-> [d |-> <<e, HookOrder[p[i]]>>, attempt |-> 1]]
  BY <1>3 DEF TasksFor
<1>7. \A i \in 1..n : /\ [d |-> <<e, HookOrder[p[i]]>>, attempt |-> 1] \in Task
                      /\ r[i] = [d |-> <<e, HookOrder[p[i]]>>, attempt |-> 1]
  BY <1>4, <1>6, WebhooksAssumption DEF Task, Deliveries
<1> HIDE DEF r
<1>8. r \in [1..n -> Task]
  BY <1>6, <1>7
<1>9. r \in Seq(Task) /\ Len(r) = n
  BY <1>8, <1>3
<1>10. \A i \in 1..n : /\ r[i] \in Task
                       /\ r[i].attempt = 1
                       /\ r[i].d = <<e, HookOrder[p[i]]>>
                       /\ r[i].d[1] = e
                       /\ r[i].d[2] = HookOrder[p[i]]
  <2> SUFFICES ASSUME NEW i \in 1..n
               PROVE  /\ r[i] \in Task
                      /\ r[i].attempt = 1
                      /\ r[i].d = <<e, HookOrder[p[i]]>>
                      /\ r[i].d[1] = e
                      /\ r[i].d[2] = HookOrder[p[i]]
    BY Zenon
  <2>1. r[i] \in Task
    BY <1>7
  <2> DEFINE x == <<e, HookOrder[p[i]]>>
  <2>2. r[i] = [d |-> x, attempt |-> 1]
    BY <1>7
  <2> HIDE DEF x
  <2>3. r[i].attempt = 1 /\ r[i].d = x
    BY <2>2
  <2>4. x = <<e, HookOrder[p[i]]>>
    BY DEF x
  <2> QED BY <2>1, <2>3, <2>4
<1>11. DistinctTasks(r)
  BY <1>9, <1>10, <1>5 DEF DistinctTasks
<1> QED BY <1>3, <1>4, <1>9, <1>10, <1>11 DEF r

\* What an emission does: it puts some tasks and drops the others.
LEMMA Emission ==
    ASSUME HookTypeOK, NEW w \in Processes, NEW e \in Events, NEW p \in HookMatches, Emit(w, e, p)
    PROVE  \E put \in Seq(Task), T \in SUBSET Deliveries :
              /\ DistinctTasks(put)
              /\ NamedIn(put) \subseteq T
              /\ \A t \in TasksIn(put) : t.attempt = 1
              /\ \A d \in T : status[d] = "none"
              /\ queue' = [queue EXCEPT ![w] = @ \o put]
              /\ status' = [d \in Deliveries |->
                    IF d \in NamedIn(put) THEN "waiting"
                    ELSE IF d \in T THEN "overflow" ELSE status[d]]
              /\ UNCHANGED <<current, asleep, up, broken, posts, received>>
<1> DEFINE tasks == TasksFor(e, p)
           n     == Room(queue[w], Len(tasks))
           put   == SubSeq(tasks, 1, n)
<1>1. /\ tasks \in Seq(Task)
      /\ Len(tasks) \in Nat
      /\ DistinctTasks(tasks)
      /\ \A i \in 1..Len(tasks) : /\ tasks[i] \in Task
                                  /\ tasks[i].attempt = 1
                                  /\ tasks[i].d[2] \in Hooks
                                  /\ tasks[i].d = <<e, tasks[i].d[2]>>
  BY EventTasks
<1>2. Len(queue[w]) \in Nat
  BY Places
<1>3. n \in Int /\ n <= Len(tasks)
  <2> HIDE DEF tasks
  <2> QED BY <1>1, <1>2, WebhooksAssumption DEF Room
<1>4. /\ queue' = [queue EXCEPT ![w] = @ \o put]
      /\ status' = [d \in Deliveries |->
            IF \E i \in 1..Len(tasks) : tasks[i].d = d
            THEN IF \E i \in 1..Len(put) : put[i].d = d THEN "waiting" ELSE "overflow"
            ELSE status[d]]
      /\ UNCHANGED <<current, asleep, up, broken, posts, received>>
      /\ ~Emitted(e)
  BY DEF Emit
<1> HIDE DEF tasks, n
<1>5. /\ put \in Seq(Task)
      /\ Len(put) \in Nat
      /\ Len(put) <= Len(tasks)
      /\ \A i \in 1..Len(put) : put[i] = tasks[i] /\ i \in 1..Len(tasks)
  <2>1. \A i \in 1..n : tasks[i] \in Task
    BY <1>1, <1>3
  <2>2. /\ put \in Seq(Task)
        /\ Len(put) = IF 1 <= n THEN n - 1 + 1 ELSE 0
        /\ \A i \in 1..n - 1 + 1 : put[i] = tasks[1 + i - 1]
    BY <2>1, <1>3, SubSeqProperties
  <2>3. Len(put) = IF 1 <= n THEN n ELSE 0
    BY <2>2, <1>3
  <2>4. \A i \in 1..Len(put) : i \in 1..n - 1 + 1 /\ 1 + i - 1 = i
    BY <2>3, <1>3
  <2> QED BY <2>2, <2>3, <2>4, <1>1, <1>3
<1> HIDE DEF put
<1>6. DistinctTasks(put)
  BY <1>1, <1>5 DEF DistinctTasks
<1>7. \A t \in TasksIn(put) : t.attempt = 1
  BY <1>1, <1>5 DEF TasksIn
<1>8. NamedIn(put) \subseteq NamedIn(tasks)
  BY <1>5 DEF NamedIn
<1>9. NamedIn(tasks) \in SUBSET Deliveries
  BY <1>1, TaskFields DEF NamedIn
<1>10. \A d \in NamedIn(tasks) : status[d] = "none"
  BY <1>1, <1>4 DEF NamedIn, Emitted
<1>11. status' = [d \in Deliveries |->
            IF d \in NamedIn(put) THEN "waiting"
            ELSE IF d \in NamedIn(tasks) THEN "overflow" ELSE status[d]]
  <2>1. \A d : d \in NamedIn(put) <=> \E i \in 1..Len(put) : put[i].d = d
    BY DEF NamedIn
  <2>2. \A d : d \in NamedIn(tasks) <=> \E i \in 1..Len(tasks) : tasks[i].d = d
    BY DEF NamedIn
  <2> QED BY <2>1, <2>2, <1>4, <1>8
<1> QED BY <1>4, <1>5, <1>6, <1>7, <1>8, <1>9, <1>10, <1>11

LEMMA EmitKeeps ==
    ASSUME HookInv, NEW w \in Processes, NEW e \in Events, NEW p \in HookMatches, Emit(w, e, p)
    PROVE  HookInv'
<1>1. HookTypeOK /\ WaitingHeld /\ PostsFirst /\ HeldOnce(w) /\ Ledger(w)
  BY DEF HookInv
<1>2. PICK put \in Seq(Task), T \in SUBSET Deliveries :
              /\ DistinctTasks(put)
              /\ NamedIn(put) \subseteq T
              /\ \A t \in TasksIn(put) : t.attempt = 1
              /\ \A d \in T : status[d] = "none"
              /\ queue' = [queue EXCEPT ![w] = @ \o put]
              /\ status' = [d \in Deliveries |->
                    IF d \in NamedIn(put) THEN "waiting"
                    ELSE IF d \in T THEN "overflow" ELSE status[d]]
              /\ UNCHANGED <<current, asleep, up, broken, posts, received>>
  BY <1>1, Emission
<1>3. /\ queue[w] \in Seq(Task)
      /\ QueuedAt(w) = NamedIn(queue[w])
      /\ HeldAt(w) \subseteq Deliveries
      /\ queue \in [Processes -> Seq(Task)]
  BY <1>1, Places DEF HookTypeOK
<1>4. NamedIn(put) \cap HeldAt(w) = {}
  BY <1>1, <1>2, <1>3 DEF WaitingHeld
<1>5. /\ queue[w] \o put \in Seq(Task)
      /\ DistinctTasks(queue[w] \o put)
      /\ TasksIn(queue[w] \o put) = TasksIn(queue[w]) \cup TasksIn(put)
      /\ NamedIn(queue[w] \o put) = NamedIn(queue[w]) \cup NamedIn(put)
  <2>1. NamedIn(queue[w]) \cap NamedIn(put) = {}
    BY <1>3, <1>4 DEF HeldAt
  <2>2. DistinctTasks(queue[w])
    BY <1>1 DEF HeldOnce
  <2> QED BY <2>1, <2>2, <1>2, <1>3, ConcatTasks
<1>6. /\ queue'[w] = queue[w] \o put
      /\ \A v \in Processes \ {w} : queue'[v] = queue[v]
      /\ queue' \in [Processes -> Seq(Task)]
  BY <1>2, <1>3, <1>5
<1>7. \A d \in Deliveries : status'[d] = IF d \in NamedIn(put) THEN "waiting"
                                         ELSE IF d \in T THEN "overflow" ELSE status[d]
  BY <1>2
<1>8. status' \in [Deliveries -> Statuses]
  BY <1>1, <1>2 DEF HookTypeOK, Statuses
<1>9. HookTypeOK'
  BY <1>1, <1>2, <1>6, <1>8 DEF HookTypeOK
<1>10. QueuedAt(w)' = QueuedAt(w) \cup NamedIn(put)
  <2>1. QueuedAt(w)' = NamedIn(queue'[w])
    BY DEF QueuedAt, NamedIn
  <2> QED BY <2>1, <1>3, <1>5, <1>6
<1>11. PostedAt(w)' = PostedAt(w) /\ AsleepAt(w)' = AsleepAt(w)
  BY <1>2 DEF PostedAt, AsleepAt
<1>12. HeldAt(w)' = HeldAt(w) \cup NamedIn(put)
  BY <1>10, <1>11 DEF HeldAt
<1>13. HeldOnce(w)'
  <2>1. /\ NamedIn(put) \cap PostedAt(w) = {}
        /\ NamedIn(put) \cap AsleepAt(w) = {}
    BY <1>4 DEF HeldAt
  <2>2. DistinctTasks(queue'[w])
    BY <1>5, <1>6
  <2> QED BY <2>1, <2>2, <1>1, <1>2, <1>10, <1>11 DEF HeldOnce
<1>14. Ledger(w)'
  <2>1. \A t \in TasksIn(put) : posts[t.d] = 0
    <3> SUFFICES ASSUME NEW t \in TasksIn(put) PROVE posts[t.d] = 0
      OBVIOUS
    <3>1. t.d \in NamedIn(put)
      BY DEF TasksIn, NamedIn
    <3> QED BY <3>1, <1>1, <1>2 DEF PostsFirst
  <2>2. \A t \in TasksIn(queue'[w]) : posts[t.d] + 1 = t.attempt
    BY <2>1, <1>1, <1>2, <1>5, <1>6 DEF Ledger
  <2> QED BY <2>2, <1>1, <1>2 DEF Ledger
<1>15. PostsFirst'
  BY <1>1, <1>2, <1>7 DEF PostsFirst
<1>16. up'[w]
  BY <1>2 DEF Emit
<1>17. \A v \in Processes \ {w} : Untouched(v) /\ up'[v] = up[v]
  BY <1>2, <1>6 DEF Untouched
<1>18. \A d \in HeldAt(w)' : status'[d] = "waiting" /\ (d \in HeldAt(w) \/ status[d] # "waiting")
  BY <1>1, <1>2, <1>3, <1>7, <1>12 DEF WaitingHeld
<1>19. \A d \in Deliveries : d \in HeldAt(w) \/ d \in HeldAt(w)'
               \/ (status'[d] = "waiting" <=> status[d] = "waiting")
  BY <1>2, <1>7, <1>12
<1>20. \A v \in Processes \ {w} : \A d \in HeldAt(v) :
               posts'[d] = posts[d] /\ received'[d] = received[d]
  BY <1>2
<1> QED BY <1>9, <1>12, <1>13, <1>14, <1>15, <1>16, <1>17, <1>18, <1>19, <1>20, WorkerStep

LEMMA EmitRaisesKeeps ==
    ASSUME HookInv, NEW w \in Processes, NEW e \in Events, NEW H \in SUBSET Hooks,
           EmitRaises(w, e, H)
    PROVE  HookInv'
<1>1. HookTypeOK /\ WaitingHeld /\ PostsFirst /\ HeldOnce(w) /\ Ledger(w) /\ DownEmpty
  BY DEF HookInv
<1>2. /\ \A d \in Deliveries :
            status'[d] = IF d[1] = e /\ d[2] \in H THEN "raised" ELSE status[d]
      /\ UNCHANGED <<queue, current, asleep, up, broken, posts, received>>
      /\ ~Emitted(e)
  BY DEF EmitRaises
<1>3. \A d \in Deliveries : d[1] = e /\ d[2] \in H => status[d] = "none"
  BY <1>2 DEF Deliveries, Emitted
<1>4. \A d \in Deliveries : status'[d] = "waiting" <=> status[d] = "waiting"
  BY <1>2, <1>3
<1>5. HookTypeOK'
  <2>1. status' \in [Deliveries -> Statuses]
    BY <1>1 DEF EmitRaises, HookTypeOK, Statuses
  <2> QED BY <2>1, <1>1, <1>2 DEF HookTypeOK
<1>6. \A v \in Processes : Untouched(v) /\ up'[v] = up[v]
  BY <1>2 DEF Untouched
<1>7. HeldAt(w)' = HeldAt(w) /\ HeldOnce(w)'
  BY <1>1, <1>6, Alone
<1>8. Ledger(w)'
  BY <1>1, <1>2, <1>6, LedgerAlone
<1>9. PostsFirst'
  BY <1>1, <1>2 DEF PostsFirst
<1>10. \A d \in HeldAt(w) : status'[d] = "waiting"
  BY <1>1, <1>4, Places DEF WaitingHeld
<1>11. ~up'[w] => HeldAt(w)' = {}
  BY <1>1, <1>6, <1>7 DEF DownEmpty
<1>12. \A v \in Processes \ {w} : \A d \in HeldAt(v) :
               posts'[d] = posts[d] /\ received'[d] = received[d]
  BY <1>2
<1> QED BY <1>4, <1>5, <1>6, <1>7, <1>8, <1>9, <1>10, <1>11, <1>12, WorkerStep

\* A step that changes the rules at most.
LEMMA RulesKeep ==
    ASSUME HookInv, broken' \subseteq Hooks,
           UNCHANGED <<queue, current, asleep, up, status, posts, received>>
    PROVE  HookInv'
<1>1. /\ HookTypeOK /\ WaitingHeld /\ HeldApart /\ PostsFirst /\ DownEmpty
      /\ \A w \in Processes : HeldOnce(w) /\ Ledger(w)
  BY DEF HookInv
<1>2. HookTypeOK'
  BY <1>1 DEF HookTypeOK
<1>3. \A w \in Processes : Untouched(w)
  BY DEF Untouched
<1>4. \A w \in Processes : HeldAt(w)' = HeldAt(w) /\ HeldOnce(w)'
  BY <1>1, <1>3, Alone
<1>5. \A w \in Processes : Ledger(w)'
  BY <1>1, <1>3, LedgerAlone
<1>6. WaitingHeld'
  BY <1>1, <1>4, Zenon DEF WaitingHeld
<1>7. HeldApart'
  BY <1>1, <1>4 DEF HeldApart
<1>8. PostsFirst' /\ DownEmpty'
  BY <1>1, <1>4 DEF PostsFirst, DownEmpty
<1> QED BY <1>2, <1>4, <1>5, <1>6, <1>7, <1>8 DEF HookInv

LEMMA EditKeeps ==
    ASSUME HookInv, NEW h \in Hooks, EditRule(h)
    PROVE  HookInv'
<1>1. broken \subseteq Hooks
  BY DEF HookInv, HookTypeOK
<1>2. broken' \subseteq Hooks
  BY <1>1 DEF EditRule
<1> QED BY <1>2, RulesKeep DEF EditRule

LEMMA GetKeeps ==
    ASSUME HookInv, NEW w \in Processes, Get(w)
    PROVE  HookInv'
<1>1. HookTypeOK /\ WaitingHeld /\ HeldApart /\ PostsFirst /\ HeldOnce(w) /\ Ledger(w)
  BY DEF HookInv
<1> DEFINE q == queue[w]
           t == Head(q)
<1>2. /\ q \in Seq(Task) /\ q # <<>> /\ DistinctTasks(q)
      /\ QueuedAt(w) = NamedIn(q)
      /\ HeldAt(w) \subseteq Deliveries
  BY <1>1, Places DEF Get, HeldOnce
<1>3. /\ t \in TasksIn(q)
      /\ t \in Task
      /\ Tail(q) \in Seq(Task)
      /\ DistinctTasks(Tail(q))
      /\ TasksIn(Tail(q)) \subseteq TasksIn(q)
      /\ NamedIn(q) = NamedIn(Tail(q)) \cup {t.d}
      /\ t.d \notin NamedIn(Tail(q))
  BY <1>2, TailTasks
<1>4. /\ queue' = [queue EXCEPT ![w] = Tail(q)]
      /\ current' = [current EXCEPT ![w] = t]
      /\ posts' = [posts EXCEPT ![t.d] = @ + 1]
      /\ UNCHANGED <<asleep, up, broken, status, received>>
      /\ current[w] = NoTask
      /\ up[w]
  BY DEF Get
<1>5. t.d \in Deliveries /\ t # NoTask
  BY <1>3, TaskFields
<1> HIDE DEF t, q
<1>6. /\ queue'[w] = Tail(q) /\ current'[w] = t
      /\ \A v \in Processes \ {w} : queue'[v] = queue[v] /\ current'[v] = current[v]
      /\ queue' \in [Processes -> Seq(Task)]
      /\ current' \in [Processes -> Task \cup {NoTask}]
  BY <1>1, <1>3, <1>4 DEF HookTypeOK
<1>7. /\ posts'[t.d] = posts[t.d] + 1
      /\ \A d \in Deliveries \ {t.d} : posts'[d] = posts[d]
      /\ posts' \in [Deliveries -> Nat]
      /\ posts[t.d] \in Nat /\ received[t.d] \in Nat
  BY <1>1, <1>4, <1>5 DEF HookTypeOK
<1>8. HookTypeOK'
  BY <1>1, <1>4, <1>6, <1>7 DEF HookTypeOK
<1>9. /\ QueuedAt(w)' = NamedIn(Tail(q))
      /\ PostedAt(w) = {} /\ PostedAt(w)' = {t.d}
      /\ AsleepAt(w)' = AsleepAt(w)
  <2>1. QueuedAt(w)' = NamedIn(queue'[w])
    BY DEF QueuedAt, NamedIn
  <2> QED BY <2>1, <1>4, <1>5, <1>6 DEF PostedAt, AsleepAt
<1>10. HeldAt(w)' = HeldAt(w) /\ t.d \in HeldAt(w)
  BY <1>2, <1>3, <1>9 DEF HeldAt
<1>11. t.d \in QueuedAt(w)
  BY <1>2, <1>3
<1>12. HeldOnce(w)'
  <2>1. /\ DistinctTasks(queue'[w])
        /\ NamedIn(Tail(q)) \cap {t.d} = {}
        /\ NamedIn(Tail(q)) \cap AsleepAt(w) = {}
        /\ {t.d} \cap AsleepAt(w) = {}
    BY <1>1, <1>2, <1>3, <1>6, <1>11 DEF HeldOnce
  <2>2. \A s, u \in asleep'[w] : s.d = u.d => s = u
    BY <1>1, <1>4 DEF HeldOnce
  <2>3. /\ QueuedAt(w)' \cap PostedAt(w)' = {}
        /\ QueuedAt(w)' \cap AsleepAt(w)' = {}
        /\ PostedAt(w)' \cap AsleepAt(w)' = {}
    BY <2>1, <1>9
  <2> QED BY <2>1, <2>2, <2>3 DEF HeldOnce
<1>13. Ledger(w)'
  <2>1. posts[t.d] + 1 = t.attempt
    BY <1>1, <1>3 DEF Ledger, q
  <2>2. received[t.d] <= posts[t.d]
    BY <1>1, <1>5 DEF PostsFirst
  <2>3. posts'[t.d] = t.attempt /\ received'[t.d] < posts'[t.d]
    BY <2>1, <2>2, <1>4, <1>7
  <2>4. \A s \in TasksIn(Tail(q)) : s.d \in Deliveries \ {t.d} /\ s \in TasksIn(q)
    <3> SUFFICES ASSUME NEW s \in TasksIn(Tail(q))
                 PROVE  s.d \in Deliveries \ {t.d} /\ s \in TasksIn(q)
      OBVIOUS
    <3>1. s.d \in NamedIn(Tail(q)) /\ s \in TasksIn(q)
      BY <1>3 DEF TasksIn, NamedIn
    <3>2. NamedIn(q) \subseteq Deliveries
      BY <1>2 DEF HeldAt
    <3> QED BY <3>1, <3>2, <1>3
  <2>5. \A s \in TasksIn(queue'[w]) : posts'[s.d] + 1 = s.attempt
    BY <2>4, <1>1, <1>6, <1>7 DEF Ledger, q
  <2>6. \A s \in asleep[w] : s.d \in Deliveries \ {t.d}
    <3> SUFFICES ASSUME NEW s \in asleep[w] PROVE s.d \in Deliveries \ {t.d}
      OBVIOUS
    <3>1. s.d \in AsleepAt(w)
      BY DEF AsleepAt
    <3>2. t.d \notin AsleepAt(w)
      BY <1>1, <1>11 DEF HeldOnce
    <3>3. AsleepAt(w) \subseteq Deliveries
      BY <1>2 DEF HeldAt
    <3> QED BY <3>1, <3>2, <3>3
  <2>7. \A s \in asleep'[w] : posts'[s.d] = s.attempt /\ s.attempt <= MaxRetries
    BY <2>6, <1>1, <1>4, <1>7 DEF Ledger
  <2> QED BY <2>3, <2>5, <2>7, <1>6 DEF Ledger
<1>14. status[t.d] = "waiting"
  BY <1>1, <1>5, <1>10 DEF WaitingHeld
<1>15. PostsFirst'
  <2>1. \A d \in Deliveries : posts[d] \in Nat /\ received[d] \in Nat
    BY <1>1 DEF HookTypeOK
  <2>2. \A d \in Deliveries : posts[d] <= posts'[d] /\ (status[d] = "none" => posts'[d] = posts[d])
    BY <2>1, <1>7, <1>14
  <2> QED BY <2>1, <2>2, <1>1, <1>4, <1>7 DEF PostsFirst, HookTypeOK
<1>16. \A v \in Processes \ {w} : Untouched(v) /\ up'[v] = up[v]
  BY <1>4, <1>6 DEF Untouched
<1>17. \A v \in Processes \ {w} : \A d \in HeldAt(v) :
               posts'[d] = posts[d] /\ received'[d] = received[d]
  <2>1. \A v \in Processes \ {w} : HeldAt(v) \subseteq Deliveries /\ HeldAt(v) \cap HeldAt(w) = {}
    BY <1>1, Places DEF HeldApart
  <2> QED BY <2>1, <1>4, <1>7, <1>10
<1>18. \A d \in HeldAt(w) : status'[d] = "waiting"
  BY <1>1, <1>2, <1>4 DEF WaitingHeld
<1>19. \A d \in Deliveries : status'[d] = "waiting" <=> status[d] = "waiting"
  BY <1>4
<1>20. up'[w]
  BY <1>4
<1> QED BY <1>8, <1>10, <1>12, <1>13, <1>15, <1>16, <1>17, <1>18, <1>19, <1>20, WorkerStep

\* The answer to a post: the subscriber may have got it.
LEMMA ReceiveType ==
    ASSUME HookTypeOK, PostsFirst, NEW d \in Deliveries, received[d] < posts[d],
           Receive(d) \/ UNCHANGED received
    PROVE  /\ received' \in [Deliveries -> Nat]
           /\ \A c \in Deliveries \ {d} : received'[c] = received[c]
           /\ \A c \in Deliveries : received'[c] <= posts[c]
<1>1. /\ received \in [Deliveries -> Nat] /\ posts \in [Deliveries -> Nat]
      /\ \A c \in Deliveries : received[c] <= posts[c]
  BY DEF HookTypeOK, PostsFirst
<1>2. CASE UNCHANGED received
  BY <1>1, <1>2
<1>3. CASE Receive(d)
  <2>1. received' = [received EXCEPT ![d] = @ + 1]
    BY <1>3 DEF Receive
  <2>2. /\ received' \in [Deliveries -> Nat]
        /\ received'[d] = received[d] + 1
        /\ \A c \in Deliveries \ {d} : received'[c] = received[c]
    BY <2>1, <1>1
  <2> QED BY <2>2, <1>1
<1> QED BY <1>2, <1>3

\* What both ends of a post share.
LEMMA Posted ==
    ASSUME HookInv, NEW w \in Processes, current[w] # NoTask
    PROVE  /\ current[w] \in Task
           /\ current[w].d \in Deliveries
           /\ PostedAt(w) = {current[w].d}
           /\ current[w].d \in HeldAt(w)
           /\ current[w].d \notin QueuedAt(w) \cup AsleepAt(w)
           /\ status[current[w].d] = "waiting"
           /\ posts[current[w].d] = current[w].attempt
           /\ received[current[w].d] < posts[current[w].d]
           /\ up[w]
<1>1. /\ HookTypeOK /\ WaitingHeld /\ HeldOnce(w) /\ Ledger(w) /\ DownEmpty
  BY DEF HookInv
<1>2. current[w] \in Task /\ current[w].d \in Deliveries
  BY <1>1, Places, TaskFields
<1>3. PostedAt(w) = {current[w].d} /\ current[w].d \in HeldAt(w)
  BY DEF PostedAt, HeldAt
<1>4. current[w].d \notin QueuedAt(w) \cup AsleepAt(w)
  BY <1>1, <1>3 DEF HeldOnce
<1>5. status[current[w].d] = "waiting"
  BY <1>1, <1>2, <1>3 DEF WaitingHeld
<1>6. up[w]
  BY <1>1, <1>3 DEF DownEmpty
<1> QED BY <1>1, <1>2, <1>3, <1>4, <1>5, <1>6 DEF Ledger

\* A step that ends the post of w for good, whatever the answer.
LEMMA EndKeeps ==
    ASSUME HookInv, NEW w \in Processes, current[w] # NoTask,
           Receive(current[w].d) \/ UNCHANGED received,
           NEW end \in {"delivered", "exhausted"},
           status' = [status EXCEPT ![current[w].d] = end],
           current' = [current EXCEPT ![w] = NoTask],
           UNCHANGED <<queue, asleep, up, broken, posts>>
    PROVE  HookInv'
<1>1. /\ HookTypeOK /\ WaitingHeld /\ HeldApart /\ PostsFirst /\ HeldOnce(w) /\ Ledger(w)
  BY DEF HookInv
<1> DEFINE d == current[w].d
<1>2. /\ d \in Deliveries
      /\ PostedAt(w) = {d} /\ d \in HeldAt(w)
      /\ d \notin QueuedAt(w) \cup AsleepAt(w)
      /\ received[d] < posts[d]
      /\ up[w]
  BY Posted
<1>3. /\ received' \in [Deliveries -> Nat]
      /\ \A c \in Deliveries \ {d} : received'[c] = received[c]
      /\ \A c \in Deliveries : received'[c] <= posts[c]
  BY <1>1, <1>2, ReceiveType
<1>4. /\ status' = [status EXCEPT ![d] = end]
      /\ current' = [current EXCEPT ![w] = NoTask]
      /\ UNCHANGED <<queue, asleep, up, broken, posts>>
  OBVIOUS
<1> HIDE DEF d
<1>5. /\ status'[d] = end /\ \A c \in Deliveries \ {d} : status'[c] = status[c]
      /\ status' \in [Deliveries -> Statuses]
      /\ current'[w] = NoTask /\ \A v \in Processes \ {w} : current'[v] = current[v]
      /\ current' \in [Processes -> Task \cup {NoTask}]
  BY <1>1, <1>2, <1>4 DEF HookTypeOK, Statuses
<1>6. HookTypeOK'
  BY <1>1, <1>3, <1>4, <1>5 DEF HookTypeOK
<1>7. /\ QueuedAt(w)' = QueuedAt(w) /\ PostedAt(w)' = {} /\ AsleepAt(w)' = AsleepAt(w)
  BY <1>4, <1>5 DEF QueuedAt, PostedAt, AsleepAt
<1>8. HeldAt(w)' = HeldAt(w) \ {d}
  BY <1>2, <1>7 DEF HeldAt
<1>9. HeldOnce(w)'
  <2>1. queue'[w] = queue[w] /\ asleep'[w] = asleep[w]
    BY <1>4
  <2> QED BY <2>1, <1>1, <1>7 DEF HeldOnce
<1>10. Ledger(w)'
  BY <1>1, <1>4, <1>5 DEF Ledger
<1>11. PostsFirst'
  BY <1>1, <1>3, <1>4, <1>5 DEF PostsFirst
<1>12. \A v \in Processes \ {w} : Untouched(v) /\ up'[v] = up[v]
  BY <1>4, <1>5 DEF Untouched
<1>13. \A v \in Processes \ {w} : \A c \in HeldAt(v) :
               posts'[c] = posts[c] /\ received'[c] = received[c]
  <2>1. \A v \in Processes \ {w} : HeldAt(v) \subseteq Deliveries /\ HeldAt(v) \cap HeldAt(w) = {}
    BY <1>1, Places DEF HeldApart
  <2> QED BY <2>1, <1>2, <1>3, <1>4
<1>14. \A c \in HeldAt(w)' : status'[c] = "waiting" /\ c \in HeldAt(w)
  <2>1. HeldAt(w) \subseteq Deliveries
    BY <1>1, Places
  <2> QED BY <2>1, <1>1, <1>5, <1>8 DEF WaitingHeld
<1>15. \A c \in HeldAt(w) \ HeldAt(w)' : status'[c] # "waiting"
  BY <1>5, <1>8
<1>16. \A c \in Deliveries : c \in HeldAt(w) \/ (status'[c] = "waiting" <=> status[c] = "waiting")
  BY <1>2, <1>5
<1>17. up'[w]
  BY <1>2, <1>4
<1> QED BY <1>6, <1>9, <1>10, <1>11, <1>12, <1>13, <1>14, <1>15, <1>16, <1>17, WorkerStep

LEMMA PostSucceedsKeeps ==
    ASSUME HookInv, NEW w \in Processes, PostSucceeds(w)
    PROVE  HookInv'
  BY EndKeeps DEF PostSucceeds

LEMMA PostFailsKeeps ==
    ASSUME HookInv, NEW w \in Processes, PostFails(w)
    PROVE  HookInv'
<1>1. CASE /\ current[w].attempt > MaxRetries
           /\ status' = [status EXCEPT ![current[w].d] = "exhausted"]
           /\ UNCHANGED asleep
  BY <1>1, EndKeeps DEF PostFails
<1>2. CASE /\ current[w].attempt <= MaxRetries
           /\ asleep' = [asleep EXCEPT ![w] = @ \cup {current[w]}]
           /\ UNCHANGED status
  <2>1. /\ HookTypeOK /\ WaitingHeld /\ HeldApart /\ PostsFirst /\ HeldOnce(w) /\ Ledger(w)
    BY DEF HookInv
  <2> DEFINE t == current[w]
             d == t.d
  <2>2. /\ t \in Task /\ d \in Deliveries
        /\ PostedAt(w) = {d} /\ d \in HeldAt(w)
        /\ d \notin QueuedAt(w) \cup AsleepAt(w)
        /\ posts[d] = t.attempt
        /\ received[d] < posts[d]
        /\ up[w]
    BY Posted DEF PostFails
  <2>3. /\ Receive(d) \/ UNCHANGED received
        /\ current' = [current EXCEPT ![w] = NoTask]
        /\ asleep' = [asleep EXCEPT ![w] = @ \cup {t}]
        /\ t.attempt <= MaxRetries
        /\ UNCHANGED <<queue, up, broken, posts, status>>
    BY <1>2 DEF PostFails
  <2>4. /\ received' \in [Deliveries -> Nat]
        /\ \A c \in Deliveries \ {d} : received'[c] = received[c]
        /\ \A c \in Deliveries : received'[c] <= posts[c]
    BY <2>1, <2>2, <2>3, ReceiveType
  <2> HIDE DEF t, d
  <2>5. /\ current'[w] = NoTask /\ \A v \in Processes \ {w} : current'[v] = current[v]
        /\ current' \in [Processes -> Task \cup {NoTask}]
        /\ asleep'[w] = asleep[w] \cup {t} /\ \A v \in Processes \ {w} : asleep'[v] = asleep[v]
        /\ asleep' \in [Processes -> SUBSET Task]
    BY <2>1, <2>2, <2>3 DEF HookTypeOK
  <2>6. HookTypeOK'
    BY <2>1, <2>3, <2>4, <2>5 DEF HookTypeOK
  <2>7. /\ QueuedAt(w)' = QueuedAt(w) /\ PostedAt(w)' = {} /\ AsleepAt(w)' = AsleepAt(w) \cup {d}
    <3>1. AsleepAt(w)' = AsleepAt(w) \cup {d}
      BY <2>5 DEF AsleepAt, d
    <3> QED BY <3>1, <2>3, <2>5 DEF QueuedAt, PostedAt
  <2>8. HeldAt(w)' = HeldAt(w)
    BY <2>2, <2>7 DEF HeldAt
  <2>9. HeldOnce(w)'
    <3>1. queue'[w] = queue[w]
      BY <2>3
    <3>2. \A s \in asleep[w] : s.d # d
      BY <2>2 DEF AsleepAt
    <3>3. \A s, u \in asleep'[w] : s.d = u.d => s = u
      BY <3>2, <2>1, <2>5 DEF HeldOnce, d
    <3>4. QueuedAt(w) \cap (AsleepAt(w) \cup {d}) = {}
      BY <2>1, <2>2 DEF HeldOnce
    <3> QED BY <3>1, <3>3, <3>4, <2>1, <2>7 DEF HeldOnce
  <2>10. Ledger(w)'
    <3>1. \A s \in asleep'[w] : posts'[s.d] = s.attempt /\ s.attempt <= MaxRetries
      BY <2>1, <2>2, <2>3, <2>5 DEF Ledger, d
    <3> QED BY <3>1, <2>1, <2>3, <2>5 DEF Ledger
  <2>11. PostsFirst'
    BY <2>1, <2>3, <2>4 DEF PostsFirst
  <2>12. \A v \in Processes \ {w} : Untouched(v) /\ up'[v] = up[v]
    BY <2>3, <2>5 DEF Untouched
  <2>13. \A v \in Processes \ {w} : \A c \in HeldAt(v) :
                 posts'[c] = posts[c] /\ received'[c] = received[c]
    <3>1. \A v \in Processes \ {w} : HeldAt(v) \subseteq Deliveries /\ HeldAt(v) \cap HeldAt(w) = {}
      BY <2>1, Places DEF HeldApart
    <3> QED BY <3>1, <2>2, <2>3, <2>4
  <2>14. \A c \in HeldAt(w) : status'[c] = "waiting"
    BY <2>1, <2>3, Places DEF WaitingHeld
  <2>15. up'[w]
    BY <2>2, <2>3
  <2> QED BY <2>3, <2>6, <2>8, <2>9, <2>10, <2>11, <2>12, <2>13, <2>14, <2>15, WorkerStep
<1> QED BY <1>1, <1>2 DEF PostFails

\* A retry that sleeps at w.
LEMMA Sleeping ==
    ASSUME HookInv, NEW w \in Processes, NEW t \in asleep[w]
    PROVE  /\ t \in Task /\ t.d \in Deliveries
           /\ t.d \in AsleepAt(w) /\ t.d \in HeldAt(w)
           /\ t.d \notin QueuedAt(w) \cup PostedAt(w)
           /\ {s.d : s \in asleep[w] \ {t}} = AsleepAt(w) \ {t.d}
           /\ status[t.d] = "waiting"
           /\ posts[t.d] = t.attempt
           /\ t.attempt <= MaxRetries
           /\ up[w]
<1>1. /\ HookTypeOK /\ WaitingHeld /\ HeldOnce(w) /\ Ledger(w) /\ DownEmpty
  BY DEF HookInv
<1>2. t \in Task /\ t.d \in Deliveries
  BY <1>1, Places, TaskFields
<1>3. t.d \in AsleepAt(w) /\ t.d \in HeldAt(w)
  BY DEF AsleepAt, HeldAt
<1>4. t.d \notin QueuedAt(w) \cup PostedAt(w)
  BY <1>1, <1>3 DEF HeldOnce
<1>5. {s.d : s \in asleep[w] \ {t}} = AsleepAt(w) \ {t.d}
  BY <1>1 DEF AsleepAt, HeldOnce
<1>6. status[t.d] = "waiting"
  BY <1>1, <1>2, <1>3 DEF WaitingHeld
<1>7. posts[t.d] = t.attempt /\ t.attempt <= MaxRetries
  BY <1>1 DEF Ledger
<1>8. up[w]
  BY <1>1, <1>3 DEF DownEmpty
<1> QED BY <1>2, <1>3, <1>4, <1>5, <1>6, <1>7, <1>8

LEMMA RetryWakesKeeps ==
    ASSUME HookInv, NEW w \in Processes, NEW t \in asleep[w], RetryWakes(w, t)
    PROVE  HookInv'
<1>1. /\ HookTypeOK /\ WaitingHeld /\ HeldApart /\ PostsFirst /\ HeldOnce(w) /\ Ledger(w)
  BY DEF HookInv
<1> DEFINE d == t.d
<1>2. /\ t \in Task /\ d \in Deliveries
      /\ d \in AsleepAt(w) /\ d \in HeldAt(w)
      /\ d \notin QueuedAt(w) \cup PostedAt(w)
      /\ {s.d : s \in asleep[w] \ {t}} = AsleepAt(w) \ {d}
      /\ posts[d] = t.attempt
      /\ t.attempt <= MaxRetries
      /\ up[w]
  BY Sleeping
<1>3. /\ asleep' = [asleep EXCEPT ![w] = @ \ {t}]
      /\ UNCHANGED <<current, up, broken, posts, received>>
  BY DEF RetryWakes
<1>4. /\ asleep'[w] = asleep[w] \ {t} /\ \A v \in Processes \ {w} : asleep'[v] = asleep[v]
      /\ asleep' \in [Processes -> SUBSET Task]
  BY <1>1, <1>3 DEF HookTypeOK
<1>5. /\ PostedAt(w)' = PostedAt(w) /\ AsleepAt(w)' = AsleepAt(w) \ {d}
  BY <1>2, <1>3, <1>4 DEF PostedAt, AsleepAt
<1>6. \A s, u \in asleep'[w] : s.d = u.d => s = u
  BY <1>1, <1>4 DEF HeldOnce
<1>7. \A s \in asleep'[w] : posts'[s.d] = s.attempt /\ s.attempt <= MaxRetries
  BY <1>1, <1>3, <1>4 DEF Ledger
<1>8. \A v \in Processes \ {w} : \A c \in HeldAt(v) :
               posts'[c] = posts[c] /\ received'[c] = received[c]
  BY <1>3
<1>9. HeldAt(w) \subseteq Deliveries
  BY <1>1, Places
<1>10. CASE status' = [status EXCEPT ![d] = "overflow"] /\ UNCHANGED queue
  <2> HIDE DEF d
  <2>1. /\ status'[d] = "overflow" /\ \A c \in Deliveries \ {d} : status'[c] = status[c]
        /\ status' \in [Deliveries -> Statuses]
    BY <1>1, <1>2, <1>10 DEF HookTypeOK, Statuses
  <2>2. HookTypeOK'
    BY <1>1, <1>3, <1>4, <1>10, <2>1 DEF HookTypeOK
  <2>3. QueuedAt(w)' = QueuedAt(w) /\ HeldAt(w)' = HeldAt(w) \ {d}
    <3>1. QueuedAt(w)' = QueuedAt(w)
      BY <1>10 DEF QueuedAt
    <3> QED BY <3>1, <1>2, <1>5 DEF HeldAt
  <2>4. HeldOnce(w)'
    BY <1>1, <1>5, <1>6, <1>10, <2>3 DEF HeldOnce
  <2>5. Ledger(w)'
    BY <1>1, <1>3, <1>7, <1>10 DEF Ledger
  <2>6. PostsFirst'
    BY <1>1, <1>3, <2>1 DEF PostsFirst
  <2>7. \A v \in Processes \ {w} : Untouched(v) /\ up'[v] = up[v]
    BY <1>3, <1>4, <1>10 DEF Untouched
  <2>8. \A c \in HeldAt(w)' : status'[c] = "waiting" /\ c \in HeldAt(w)
    BY <1>1, <1>9, <2>1, <2>3 DEF WaitingHeld
  <2>9. \A c \in HeldAt(w) \ HeldAt(w)' : status'[c] # "waiting"
    BY <2>1, <2>3
  <2>10. \A c \in Deliveries : c \in HeldAt(w) \/ (status'[c] = "waiting" <=> status[c] = "waiting")
    BY <1>2, <2>1
  <2>11. up'[w]
    BY <1>2, <1>3
  <2> QED BY <1>8, <2>2, <2>4, <2>5, <2>6, <2>7, <2>8, <2>9, <2>10, <2>11, WorkerStep
<1>11. CASE /\ queue' = [queue EXCEPT ![w] = Append(@, [t EXCEPT !.attempt = @ + 1])]
            /\ UNCHANGED status
  <2> DEFINE u == [t EXCEPT !.attempt = @ + 1]
             q == queue[w]
  <2>1. u \in Task /\ u.d = d /\ u.attempt = t.attempt + 1
    BY <1>2, WebhooksAssumption DEF Task
  <2>2. queue' = [queue EXCEPT ![w] = Append(q, u)]
    BY <1>11
  <2> HIDE DEF d, u
  <2>3. q \in Seq(Task) /\ DistinctTasks(q) /\ d \notin NamedIn(q) /\ QueuedAt(w) = NamedIn(q)
    BY <1>1, <1>2, Places DEF HeldOnce
  <2>4. /\ Append(q, u) \in Seq(Task)
        /\ DistinctTasks(Append(q, u))
        /\ TasksIn(Append(q, u)) = TasksIn(q) \cup {u}
        /\ NamedIn(Append(q, u)) = NamedIn(q) \cup {u.d}
    BY <2>1, <2>3, AppendTasks
  <2> HIDE DEF q
  <2>5. /\ queue'[w] = Append(q, u) /\ \A v \in Processes \ {w} : queue'[v] = queue[v]
        /\ queue' \in [Processes -> Seq(Task)]
    BY <1>1, <2>2, <2>4 DEF HookTypeOK
  <2>6. HookTypeOK'
    BY <1>1, <1>3, <1>4, <1>11, <2>5 DEF HookTypeOK
  <2>7. QueuedAt(w)' = QueuedAt(w) \cup {d}
    <3>1. QueuedAt(w)' = NamedIn(queue'[w])
      BY DEF QueuedAt, NamedIn
    <3> QED BY <3>1, <2>1, <2>3, <2>4, <2>5
  <2>8. HeldAt(w)' = HeldAt(w)
    BY <1>2, <1>5, <2>7 DEF HeldAt
  <2>9. HeldOnce(w)'
    <3>1. DistinctTasks(queue'[w])
      BY <2>4, <2>5
    <3>2. /\ (QueuedAt(w) \cup {d}) \cap PostedAt(w) = {}
          /\ (QueuedAt(w) \cup {d}) \cap (AsleepAt(w) \ {d}) = {}
          /\ PostedAt(w) \cap (AsleepAt(w) \ {d}) = {}
      BY <1>1, <1>2 DEF HeldOnce
    <3> QED BY <3>1, <3>2, <1>5, <1>6, <2>7 DEF HeldOnce
  <2>10. Ledger(w)'
    <3>1. \A s \in TasksIn(q) : posts[s.d] + 1 = s.attempt
      BY <1>1 DEF Ledger, q
    <3>2. \A s \in TasksIn(queue'[w]) : posts'[s.d] + 1 = s.attempt
      BY <3>1, <1>2, <1>3, <2>1, <2>4, <2>5
    <3>3. current'[w] # NoTask => /\ posts'[current'[w].d] = current'[w].attempt
                                /\ received'[current'[w].d] < posts'[current'[w].d]
      BY <1>1, <1>3 DEF Ledger
    <3> QED BY <3>2, <3>3, <1>7 DEF Ledger
  <2>11. PostsFirst'
    BY <1>1, <1>3, <1>11 DEF PostsFirst
  <2>12. \A v \in Processes \ {w} : Untouched(v) /\ up'[v] = up[v]
    BY <1>3, <1>4, <2>5 DEF Untouched
  <2>13. \A c \in HeldAt(w) : status'[c] = "waiting"
    BY <1>1, <1>9, <1>11 DEF WaitingHeld
  <2>14. up'[w]
    BY <1>2, <1>3
  <2> QED BY <1>8, <1>11, <2>6, <2>8, <2>9, <2>10, <2>11, <2>12, <2>13, <2>14, WorkerStep
<1> QED BY <1>10, <1>11 DEF RetryWakes

LEMMA WorkerStopsKeeps ==
    ASSUME HookInv, NEW w \in Processes, WorkerStops(w)
    PROVE  HookInv'
<1>1. /\ HookTypeOK /\ WaitingHeld /\ HeldApart /\ PostsFirst /\ HeldOnce(w) /\ Ledger(w)
  BY DEF HookInv
<1>2. /\ up' = [up EXCEPT ![w] = FALSE]
      /\ status' = [d \in Deliveries |-> IF d \in HeldAt(w) THEN "lost" ELSE status[d]]
      /\ queue' = [queue EXCEPT ![w] = <<>>]
      /\ current' = [current EXCEPT ![w] = NoTask]
      /\ asleep' = [asleep EXCEPT ![w] = {}]
      /\ UNCHANGED <<broken, posts>>
  BY DEF WorkerStops
<1>3. HeldAt(w) \subseteq Deliveries
  BY <1>1, Places
<1>4. /\ received' \in [Deliveries -> Nat]
      /\ \A c \in Deliveries \ HeldAt(w) : received'[c] = received[c]
      /\ \A c \in Deliveries : received'[c] <= posts[c]
  <2>1. CASE current[w] # NoTask /\ Receive(current[w].d)
    <3>1. /\ current[w].d \in Deliveries /\ current[w].d \in HeldAt(w)
          /\ received[current[w].d] < posts[current[w].d]
      BY <2>1, Posted
    <3> QED BY <3>1, <2>1, <1>1, ReceiveType
  <2>2. CASE UNCHANGED received
    BY <2>2, <1>1 DEF PostsFirst, HookTypeOK
  <2> QED BY <2>1, <2>2 DEF WorkerStops
<1>5. /\ queue'[w] = <<>> /\ current'[w] = NoTask /\ asleep'[w] = {} /\ ~up'[w]
      /\ \A v \in Processes \ {w} : Untouched(v) /\ up'[v] = up[v]
  BY <1>1, <1>2 DEF HookTypeOK, Untouched
<1>6. /\ queue' \in [Processes -> Seq(Task)]
      /\ current' \in [Processes -> Task \cup {NoTask}]
      /\ asleep' \in [Processes -> SUBSET Task]
      /\ up' \in [Processes -> BOOLEAN]
  <2>1. <<>> \in Seq(Task)
    BY EmptySeq
  <2> QED BY <2>1, <1>1, <1>2 DEF HookTypeOK
<1>7. \A c \in Deliveries : status'[c] = IF c \in HeldAt(w) THEN "lost" ELSE status[c]
  BY <1>2
<1>8. status' \in [Deliveries -> Statuses]
  BY <1>1, <1>2 DEF HookTypeOK, Statuses
<1>9. HookTypeOK'
  BY <1>1, <1>2, <1>4, <1>6, <1>8 DEF HookTypeOK
<1>10. QueuedAt(w)' = {} /\ PostedAt(w)' = {} /\ AsleepAt(w)' = {}
  BY <1>5 DEF QueuedAt, PostedAt, AsleepAt
<1>11. HeldAt(w)' = {}
  BY <1>10 DEF HeldAt
<1>12. HeldOnce(w)'
  BY <1>5, <1>10 DEF HeldOnce, DistinctTasks
<1>13. Ledger(w)'
  BY <1>5 DEF Ledger, TasksIn
<1>14. PostsFirst'
  BY <1>1, <1>2, <1>4, <1>7 DEF PostsFirst
<1>15. \A v \in Processes \ {w} : \A c \in HeldAt(v) :
               posts'[c] = posts[c] /\ received'[c] = received[c]
  <2>1. \A v \in Processes \ {w} : HeldAt(v) \subseteq Deliveries /\ HeldAt(v) \cap HeldAt(w) = {}
    BY <1>1, Places DEF HeldApart
  <2> QED BY <2>1, <1>2, <1>4
<1>16. \A c \in HeldAt(w) : status'[c] # "waiting"
  BY <1>3, <1>7
<1>17. \A c \in Deliveries : c \in HeldAt(w) \/ (status'[c] = "waiting" <=> status[c] = "waiting")
  BY <1>7
<1> QED BY <1>5, <1>9, <1>11, <1>12, <1>13, <1>14, <1>15, <1>16, <1>17, WorkerStep

LEMMA WorkerStartsKeeps ==
    ASSUME HookInv, NEW w \in Processes, WorkerStarts(w)
    PROVE  HookInv'
<1>1. /\ HookTypeOK /\ WaitingHeld /\ PostsFirst /\ HeldOnce(w) /\ Ledger(w)
  BY DEF HookInv
<1>2. /\ up' = [up EXCEPT ![w] = TRUE]
      /\ UNCHANGED <<queue, current, asleep, broken, status, posts, received>>
  BY DEF WorkerStarts
<1>3. HookTypeOK'
  BY <1>1, <1>2 DEF HookTypeOK
<1>4. \A v \in Processes : Untouched(v)
  BY <1>2 DEF Untouched
<1>5. up'[w] /\ \A v \in Processes \ {w} : up'[v] = up[v]
  BY <1>1, <1>2 DEF HookTypeOK
<1>6. HeldAt(w)' = HeldAt(w) /\ HeldOnce(w)' /\ Ledger(w)'
  BY <1>1, <1>2, <1>4, Alone, LedgerAlone
<1>7. PostsFirst'
  BY <1>1, <1>2 DEF PostsFirst
<1>8. \A c \in HeldAt(w) : status'[c] = "waiting"
  BY <1>1, <1>2, Places DEF WaitingHeld
<1> QED BY <1>2, <1>3, <1>4, <1>5, <1>6, <1>7, <1>8, WorkerStep

LEMMA InitHook == HookInit => HookInv
<1> SUFFICES ASSUME HookInit PROVE HookInv
  OBVIOUS
<1>1. HookTypeOK
  <2>1. <<>> \in Seq(Task)
    BY EmptySeq
  <2> QED BY <2>1 DEF HookInit, HookTypeOK, Statuses
<1>2. \A w \in Processes : queue[w] = <<>> /\ current[w] = NoTask /\ asleep[w] = {}
  BY DEF HookInit
<1>3. \A w \in Processes : 1..Len(queue[w]) = {}
  <2>1. Len(<<>>) = 0 /\ 1..0 = {}
    OBVIOUS
  <2> QED BY <2>1, <1>2
<1>4. \A w \in Processes : QueuedAt(w) = {} /\ PostedAt(w) = {} /\ AsleepAt(w) = {}
  BY <1>2, <1>3 DEF QueuedAt, PostedAt, AsleepAt
<1>5. \A w \in Processes : HeldAt(w) = {}
  BY <1>4 DEF HeldAt
<1>6. \A w \in Processes : HeldOnce(w)
  BY <1>2, <1>3, <1>4 DEF HeldOnce, DistinctTasks
<1>7. \A w \in Processes : Ledger(w)
  BY <1>2, <1>3 DEF Ledger, TasksIn
<1>8. WaitingHeld /\ HeldApart /\ DownEmpty
  BY <1>5 DEF WaitingHeld, HeldApart, DownEmpty, HookInit
<1>9. PostsFirst
  BY DEF PostsFirst, HookInit
<1> QED BY <1>1, <1>6, <1>7, <1>8, <1>9 DEF HookInv

LEMMA NextHook == HookInv /\ [HookNext]_hookVars => HookInv'
<1> SUFFICES ASSUME HookInv, [HookNext]_hookVars PROVE HookInv'
  OBVIOUS
<1>1. ASSUME NEW w \in Processes, NEW e \in Events, NEW p \in HookMatches, Emit(w, e, p)
      PROVE  HookInv'
  BY <1>1, EmitKeeps
<1>2. ASSUME NEW w \in Processes, NEW e \in Events, NEW H \in SUBSET Hooks, EmitRaises(w, e, H)
      PROVE  HookInv'
  BY <1>2, EmitRaisesKeeps
<1>3. ASSUME NEW h \in Hooks, EditRule(h) PROVE HookInv'
  BY <1>3, EditKeeps
<1>4. ASSUME NEW w \in Processes, Get(w) PROVE HookInv'
  BY <1>4, GetKeeps
<1>5. ASSUME NEW w \in Processes, Answered(w) PROVE HookInv'
  BY <1>5, PostSucceedsKeeps, PostFailsKeeps DEF Answered
<1>6. ASSUME NEW w \in Processes, WorkerStops(w) PROVE HookInv'
  BY <1>6, WorkerStopsKeeps
<1>7. ASSUME NEW w \in Processes, WorkerStarts(w) PROVE HookInv'
  BY <1>7, WorkerStartsKeeps
<1>8. ASSUME NEW w \in Processes, NEW t \in asleep[w], RetryWakes(w, t) PROVE HookInv'
  BY <1>8, RetryWakesKeeps
<1>9. CASE UNCHANGED hookVars
  <2>1. broken \subseteq Hooks
    BY DEF HookInv, HookTypeOK
  <2> QED BY <2>1, <1>9, RulesKeep DEF hookVars
<1> QED BY <1>1, <1>2, <1>3, <1>4, <1>5, <1>6, <1>7, <1>8, <1>9 DEF HookNext

\* The state of the pipeline has its type: no task is ever tried more often than
\* max_retries + 1 times.
THEOREM HookTypeCorrect == HookSpec => []HookTypeOK
<1>1. HookInv => HookTypeOK
  BY DEF HookInv
<1> QED BY <1>1, InitHook, NextHook, PTL DEF HookSpec

\* Whatever the events, hooks, workers, restarts and answers, an accepted delivery is one
\* task in one place until it ends, and nothing else is held anywhere: no task vanishes
\* between the queue, the dispatcher and a sleeping retry, and none is doubled.
THEOREM TasksSingle == HookSpec => []OneTask
<1>1. HookInv => OneTask
  BY OneTaskParts DEF HookInv
<1> QED BY <1>1, InitHook, NextHook, PTL DEF HookSpec

-----------------------------------------------------------------------------
(* Webhooks implements Delivery, step by step.                             *)

LEMMA InitPromised == HookInit => Promise!Init
  BY DEF HookInit, Promise!Init

LEMMA EmitPromised ==
    ASSUME HookInv, NEW w \in Processes, NEW e \in Events, NEW p \in HookMatches, Emit(w, e, p)
    PROVE  Promise!Next
<1>1. HookTypeOK
  BY DEF HookInv
<1>2. PICK put \in Seq(Task), T \in SUBSET Deliveries :
              /\ NamedIn(put) \subseteq T
              /\ \A d \in T : status[d] = "none"
              /\ status' = [d \in Deliveries |->
                    IF d \in NamedIn(put) THEN "waiting"
                    ELSE IF d \in T THEN "overflow" ELSE status[d]]
              /\ UNCHANGED <<posts, received>>
  BY <1>1, Emission
<1> DEFINE S == NamedIn(put)
<1> HIDE DEF S
<1>3. /\ S \in SUBSET Deliveries
      /\ \A d \in S \cup T : status[d] = "none"
      /\ status' = [d \in Deliveries |->
            IF d \in S THEN "waiting" ELSE IF d \in T THEN "overflow" ELSE status[d]]
      /\ UNCHANGED <<posts, received>>
  BY <1>2 DEF S
<1>4. Promise!Accept(S, T)
  BY <1>3 DEF Promise!Accept
<1> QED BY <1>3, <1>4 DEF Promise!Next

LEMMA EmitRaisesPromised ==
    ASSUME NEW w \in Processes, NEW e \in Events, NEW H \in SUBSET Hooks, EmitRaises(w, e, H)
    PROVE  Promise!Next
<1> DEFINE T == {d \in Deliveries : d[1] = e /\ d[2] \in H}
<1>1. \A d \in T : status[d] = "none"
  BY DEF EmitRaises, Deliveries, Emitted
<1>2. /\ status' = [d \in Deliveries |->
            IF d \in {} THEN "waiting" ELSE IF d \in T THEN "raised" ELSE status[d]]
      /\ UNCHANGED <<posts, received>>
  BY DEF EmitRaises
<1>3. T \in SUBSET Deliveries
  OBVIOUS
<1> HIDE DEF T
<1>4. Promise!Accept({}, T)
  BY <1>1, <1>2 DEF Promise!Accept
<1>5. {} \in SUBSET Deliveries
  OBVIOUS
<1> QED BY <1>3, <1>4, <1>5 DEF Promise!Next

LEMMA GetPromised ==
    ASSUME HookInv, NEW w \in Processes, Get(w)
    PROVE  Promise!Next
<1>1. HookTypeOK /\ WaitingHeld /\ HeldOnce(w) /\ Ledger(w)
  BY DEF HookInv
<1> DEFINE t == Head(queue[w])
<1>2. t \in TasksIn(queue[w]) /\ t \in Task /\ t.d \in NamedIn(queue[w])
  <2>1. queue[w] \in Seq(Task) /\ queue[w] # <<>> /\ DistinctTasks(queue[w])
    BY <1>1, Places DEF Get, HeldOnce
  <2> QED BY <2>1, TailTasks
<1>3. t.d \in HeldAt(w)
  BY <1>1, <1>2, Places DEF HeldAt
<1>4. /\ t.d \in Deliveries /\ t.attempt \in 1..MaxRetries + 1
      /\ status[t.d] = "waiting"
      /\ posts[t.d] + 1 = t.attempt
      /\ posts[t.d] \in Nat
  BY <1>1, <1>2, <1>3, TaskFields DEF WaitingHeld, Ledger, HookTypeOK
<1>5. posts[t.d] < MaxRetries + 1
  BY <1>4, WebhooksAssumption
<1>6. Promise!Post(t.d)
  BY <1>4, <1>5 DEF Promise!Post, Get
<1> QED BY <1>4, <1>6 DEF Promise!Next

LEMMA AnsweredPromised ==
    ASSUME HookInv, NEW w \in Processes, Answered(w)
    PROVE  Promise!Next
<1>1. current[w] # NoTask
  BY DEF Answered, PostSucceeds, PostFails
<1> DEFINE d == current[w].d
<1>2. /\ current[w] \in Task /\ d \in Deliveries
      /\ status[d] = "waiting"
      /\ posts[d] = current[w].attempt
      /\ received[d] < posts[d]
  BY <1>1, Posted
<1>3. UNCHANGED posts
  BY DEF Answered, PostSucceeds, PostFails
<1>4. Receive(d) => Promise!Get(d)
  BY <1>2 DEF Receive, Promise!Get
<1>5. CASE PostSucceeds(w)
  <2>1. Receive(d) /\ status' = [status EXCEPT ![d] = "delivered"]
    BY <1>5 DEF PostSucceeds
  <2>2. Promise!Finish(d)
    BY <2>1, <1>2, <1>3, <1>4 DEF Promise!Finish
  <2> QED BY <2>2, <1>2 DEF Promise!Next
<1>6. CASE PostFails(w)
  <2>1. Promise!Get(d) \/ UNCHANGED received
    BY <1>4, <1>6 DEF PostFails
  <2>2. \/ UNCHANGED status
        \/ current[w].attempt > MaxRetries /\ status' = [status EXCEPT ![d] = "exhausted"]
    BY <1>6 DEF PostFails
  <2>3. current[w].attempt > MaxRetries => posts[d] = MaxRetries + 1
    BY <1>2, TaskFields, WebhooksAssumption
  <2>4. Promise!Finish(d)
    BY <2>1, <2>2, <2>3, <1>2, <1>3 DEF Promise!Finish
  <2> QED BY <2>4, <1>2 DEF Promise!Next
<1> QED BY <1>5, <1>6 DEF Answered

LEMMA StopPromised ==
    ASSUME HookInv, NEW w \in Processes, WorkerStops(w)
    PROVE  Promise!Next
<1>1. HookTypeOK /\ WaitingHeld
  BY DEF HookInv
<1>2. HeldAt(w) \in SUBSET Deliveries
  BY <1>1, Places
<1>3. \A d \in HeldAt(w) : status[d] = "waiting"
  BY <1>1, <1>2 DEF WaitingHeld
<1>4. /\ status' = [d \in Deliveries |-> IF d \in HeldAt(w) THEN "lost" ELSE status[d]]
      /\ UNCHANGED posts
  BY DEF WorkerStops
<1>5. (\E d \in HeldAt(w) : Promise!Get(d)) \/ UNCHANGED received
  <2>1. CASE current[w] # NoTask /\ Receive(current[w].d)
    <3>1. current[w].d \in HeldAt(w) /\ received[current[w].d] < posts[current[w].d]
      BY <2>1, Posted
    <3>2. Promise!Get(current[w].d)
      BY <2>1, <3>1 DEF Receive, Promise!Get
    <3> QED BY <3>1, <3>2
  <2> QED BY <2>1 DEF WorkerStops
<1>6. Promise!Stop(HeldAt(w))
  BY <1>3, <1>4, <1>5 DEF Promise!Stop
<1> QED BY <1>2, <1>6 DEF Promise!Next

LEMMA RetryPromised ==
    ASSUME HookInv, NEW w \in Processes, NEW t \in asleep[w], RetryWakes(w, t)
    PROVE  Promise!Next \/ UNCHANGED Promise!vars
<1>1. t.d \in Deliveries /\ status[t.d] = "waiting"
  BY Sleeping
<1>2. UNCHANGED <<posts, received>>
  BY DEF RetryWakes
<1>3. CASE status' = [status EXCEPT ![t.d] = "overflow"]
  <2>1. Promise!Finish(t.d)
    BY <1>1, <1>2, <1>3 DEF Promise!Finish
  <2> QED BY <2>1, <1>1 DEF Promise!Next
<1>4. CASE UNCHANGED status
  BY <1>2, <1>4 DEF Promise!vars
<1> QED BY <1>3, <1>4 DEF RetryWakes

LEMMA NextPromised == HookInv /\ [HookNext]_hookVars => [Promise!Next]_Promise!vars
<1> SUFFICES ASSUME HookInv, [HookNext]_hookVars PROVE Promise!Next \/ UNCHANGED Promise!vars
  OBVIOUS
<1>1. ASSUME NEW w \in Processes, NEW e \in Events, NEW p \in HookMatches, Emit(w, e, p)
      PROVE  Promise!Next
  BY <1>1, EmitPromised
<1>2. ASSUME NEW w \in Processes, NEW e \in Events, NEW H \in SUBSET Hooks, EmitRaises(w, e, H)
      PROVE  Promise!Next
  BY <1>2, EmitRaisesPromised
<1>3. ASSUME NEW h \in Hooks, EditRule(h) PROVE UNCHANGED Promise!vars
  BY <1>3 DEF EditRule, Promise!vars
<1>4. ASSUME NEW w \in Processes, Get(w) PROVE Promise!Next
  BY <1>4, GetPromised
<1>5. ASSUME NEW w \in Processes, Answered(w) PROVE Promise!Next
  BY <1>5, AnsweredPromised
<1>6. ASSUME NEW w \in Processes, WorkerStops(w) PROVE Promise!Next
  BY <1>6, StopPromised
<1>7. ASSUME NEW w \in Processes, WorkerStarts(w) PROVE UNCHANGED Promise!vars
  BY <1>7 DEF WorkerStarts, Promise!vars
<1>8. ASSUME NEW w \in Processes, NEW t \in asleep[w], RetryWakes(w, t)
      PROVE  Promise!Next \/ UNCHANGED Promise!vars
  BY <1>8, RetryPromised
<1>9. CASE UNCHANGED hookVars
  BY <1>9 DEF hookVars, Promise!vars
<1> QED BY <1>1, <1>2, <1>3, <1>4, <1>5, <1>6, <1>7, <1>8, <1>9 DEF HookNext

\* The pipeline keeps its promise: every delivery is posted at most max_retries + 1 times,
\* given up only after all of them, never posted again once a subscriber acknowledged it,
\* received at most once a post, and otherwise ends only by overflow, a stop or a rule
\* that raises.
THEOREM PromiseHeld == HookSpec => PromiseKept
<1> QED BY InitPromised, InitHook, NextHook, NextPromised, PTL
    DEF HookSpec, PromiseKept, Promise!Spec
=============================================================================
