---------------------------- MODULE DaemonProofs ----------------------------
(***************************************************************************)
(* Proofs that the daemon keeps its registries, its view tables and its    *)
(* link maps consistent, for any number of hosts, views and view-ids.      *)
(***************************************************************************)
EXTENDS Daemon, TLAPS

(* The destructor that runs is that of a closed viewer that has left the   *)
(* queue.                                                                  *)
DestroyingClosed ==
  destroying # NULL => state[destroying] = "Disconnected" /\ ~Closed(destroying)

(* The inductive invariant.                                                *)
IInv ==
  /\ TypeOK
  /\ RegistriesAgree /\ DestroyingClosed
  /\ ViewTablesAgree
  /\ LinkKeysLive /\ LinksInverse

-----------------------------------------------------------------------------
(* Facts about the queue of closed hosts.                                  *)

LEMMA RangeOfAppend ==
  ASSUME NEW S, NEW q \in Seq(S), NEW e \in S
  PROVE  /\ Append(q, e) \in Seq(S)
         /\ Range(Append(q, e)) = Range(q) \cup {e}
         /\ (e \notin Range(q) /\ \A i, j \in DOMAIN q : q[i] = q[j] => i = j)
              => \A i, j \in DOMAIN Append(q, e) :
                   Append(q, e)[i] = Append(q, e)[j] => i = j
<1>1. Append(q, e) \in Seq(S) /\ Len(Append(q, e)) = Len(q) + 1
  OBVIOUS
<1>2. DOMAIN q = 1 .. Len(q) /\ DOMAIN Append(q, e) = 1 .. Len(q) + 1
  BY <1>1
<1>3. /\ \A i \in 1 .. Len(q) : Append(q, e)[i] = q[i]
      /\ Append(q, e)[Len(q) + 1] = e
  OBVIOUS
<1>4. Range(Append(q, e)) = Range(q) \cup {e}
  <2>1. \A i \in 1 .. Len(q) + 1 : i \in 1 .. Len(q) \/ i = Len(q) + 1
    OBVIOUS
  <2>2. Range(Append(q, e)) \subseteq Range(q) \cup {e}
    BY <1>2, <1>3, <2>1 DEF Range
  <2>3. Range(q) \cup {e} \subseteq Range(Append(q, e))
    <3>1. \A i \in 1 .. Len(q) : i \in 1 .. Len(q) + 1
      OBVIOUS
    <3>2. Len(q) + 1 \in 1 .. Len(q) + 1
      OBVIOUS
    <3>3. \A x \in Range(q) : x \in Range(Append(q, e))
      BY <1>2, <1>3, <3>1 DEF Range
    <3>4. e \in Range(Append(q, e))
      BY <1>2, <1>3, <3>2 DEF Range
    <3> QED BY <3>3, <3>4
  <2> QED BY <2>2, <2>3
<1>5. ASSUME e \notin Range(q), \A i, j \in DOMAIN q : q[i] = q[j] => i = j,
             NEW i \in 1 .. Len(q) + 1, NEW j \in 1 .. Len(q) + 1,
             Append(q, e)[i] = Append(q, e)[j]
      PROVE  i = j
  <2>1. \A k \in 1 .. Len(q) : q[k] # e
    BY <1>2, <1>5 DEF Range
  <2> QED BY <1>2, <1>3, <1>5, <2>1
<1> QED BY <1>1, <1>2, <1>4, <1>5

LEMMA RangeOfTail ==
  ASSUME NEW S, NEW q \in Seq(S), q # <<>>,
         \A i, j \in DOMAIN q : q[i] = q[j] => i = j
  PROVE  /\ Tail(q) \in Seq(S) /\ Head(q) \in Range(q)
         /\ Range(Tail(q)) = Range(q) \ {Head(q)}
         /\ \A i, j \in DOMAIN Tail(q) : Tail(q)[i] = Tail(q)[j] => i = j
<1>1. Len(q) \in Nat /\ Len(q) > 0 /\ Len(Tail(q)) = Len(q) - 1 /\ Tail(q) \in Seq(S)
  OBVIOUS
<1>2. DOMAIN q = 1 .. Len(q) /\ DOMAIN Tail(q) = 1 .. Len(q) - 1
  BY <1>1
<1>3. \A i \in 1 .. Len(q) - 1 : i + 1 \in 1 .. Len(q) /\ Tail(q)[i] = q[i + 1]
  BY <1>1
<1>4. Head(q) = q[1] /\ 1 \in 1 .. Len(q)
  BY <1>1
<1>5. Range(Tail(q)) \subseteq Range(q) \ {Head(q)}
  <2>1. ASSUME NEW i \in 1 .. Len(q) - 1
        PROVE  Tail(q)[i] \in Range(q) /\ Tail(q)[i] # Head(q)
    <3>1. i + 1 \in 1 .. Len(q) /\ i + 1 # 1
      BY <1>1
    <3> QED BY <1>2, <1>3, <1>4, <3>1 DEF Range
  <2> QED BY <1>2, <2>1 DEF Range
<1>6. Range(q) \ {Head(q)} \subseteq Range(Tail(q))
  <2>1. ASSUME NEW i \in 1 .. Len(q), q[i] # q[1]
        PROVE  q[i] \in Range(Tail(q))
    <3>1. i - 1 \in 1 .. Len(q) - 1 /\ (i - 1) + 1 = i
      BY <1>1, <2>1
    <3>2. Tail(q)[i - 1] = q[i]
      BY <1>3, <3>1
    <3> QED BY <1>2, <3>1, <3>2 DEF Range
  <2> QED BY <1>2, <1>4, <2>1 DEF Range
<1>7. ASSUME NEW i \in 1 .. Len(q) - 1, NEW j \in 1 .. Len(q) - 1, Tail(q)[i] = Tail(q)[j]
      PROVE  i = j
  <2>1. q[i + 1] = q[j + 1] /\ i + 1 \in DOMAIN q /\ j + 1 \in DOMAIN q
    BY <1>2, <1>3, <1>7
  <2>2. i + 1 = j + 1
    BY <2>1
  <2> QED BY <1>1, <2>2
<1>8. Head(q) \in Range(q)
  BY <1>2, <1>4 DEF Range
<1> QED BY <1>1, <1>2, <1>5, <1>6, <1>7, <1>8

-----------------------------------------------------------------------------
(* What an action that leaves a group of variables alone preserves.        *)

LEMMA RegistriesKept ==
  ASSUME RegistriesAgree, DestroyingClosed,
         UNCHANGED <<hosts, scheduled, regRenderers, destroying>>,
         \A h \in Hosts : Allocated(h)' <=> Allocated(h),
         \A h \in Hosts : Closed(h) => state'[h] \in {"Disconnecting", "Disconnected"},
         destroying # NULL => state'[destroying] = state[destroying]
  PROVE  RegistriesAgree' /\ DestroyingClosed'
<1>1. \A h \in Hosts : Closed(h)' <=> Closed(h)
  BY DEF Closed
<1>2. DestroyingClosed'
  BY <1>1 DEF DestroyingClosed, Closed
<1>3. RegistriesAgree'
  BY <1>1 DEF RegistriesAgree, Hosts
<1> QED BY <1>2, <1>3

LEMMA ViewTablesKept ==
  ASSUME ViewTablesAgree, UNCHANGED <<ownViews, regViews>>,
         \A h \in Viewers : Allocated(h) => Allocated(h)',
         \A v \in Views : view'[v].host = view[v].host /\ view'[v].id = view[v].id,
         TypeOK
  PROVE  ViewTablesAgree'
BY DEF ViewTablesAgree, TypeOK

LEMMA LinksKept ==
  ASSUME LinkKeysLive, LinksInverse, UNCHANGED linkVars, UNCHANGED view,
         \A r \in Renderers : Allocated(r) => Allocated(r)'
  PROVE  LinkKeysLive' /\ LinksInverse'
BY DEF LinkKeysLive, LinksInverse, linkVars, LiveView

-----------------------------------------------------------------------------
LEMMA InitIInv == Init => IInv
<1> SUFFICES ASSUME Init PROVE IInv
  OBVIOUS
<1>1. Range(scheduled) = {}
  BY DEF Init, Range
<1>2. TypeOK
  <2>1. NoView \in ViewObjects
    BY NoTypeIsType DEF NoView, ViewObjects
  <2>2. scheduled \in Seq(Hosts)
    BY DEF Init
  <2> QED BY <2>1, <2>2, NoTypeIsType DEF Init, TypeOK, Running
<1>3. RegistriesAgree /\ DestroyingClosed
  BY <1>1 DEF Init, RegistriesAgree, DestroyingClosed, Closed, Allocated, Hosts
<1>4. ViewTablesAgree /\ LinkKeysLive /\ LinksInverse
  BY NullIsNoView, NullIsNoHost
  DEF Init, ViewTablesAgree, LinkKeysLive, LinksInverse, Hosts
<1> QED BY <1>2, <1>3, <1>4 DEF IInv

(* A step that ends the process leaves its memory as it was.               *)
LEMMA CrashKeepsIInv ==
  ASSUME IInv, NEW F \in SUBSET Faults, Crash(F)
  PROVE  IInv'
<1>1. fault' \in Faults /\ UNCHANGED world
  BY DEF Crash
<1>2. UNCHANGED <<state, hosts, scheduled, unsent, view, ownViews, regViews,
                  rendererByView, viewByRenderer, relinked, regRenderers, rendererType,
                  pendingView, focusedView, statiReceiver, destroying>>
  BY <1>1 DEF world, hostVars, viewVars, linkVars, clientVars
<1>3. TypeOK'
  BY <1>1, <1>2 DEF IInv, TypeOK
<1>4. RegistriesAgree' /\ DestroyingClosed'
  BY <1>2, RegistriesKept DEF IInv, Allocated, Hosts, RegistriesAgree, Closed
<1>5. ViewTablesAgree'
  BY <1>2, ViewTablesKept DEF IInv, Allocated
<1>6. LinkKeysLive' /\ LinksInverse'
  BY <1>2, LinksKept DEF IInv, Allocated, linkVars
<1> QED BY <1>3, <1>4, <1>5, <1>6 DEF IInv

LEMMA StutterKeepsIInv == IInv /\ UNCHANGED vars => IInv'
<1> SUFFICES ASSUME IInv, UNCHANGED vars PROVE IInv'
  OBVIOUS
<1>1. UNCHANGED <<fault, state, hosts, scheduled, unsent, view, ownViews, regViews,
                  rendererByView, viewByRenderer, relinked, regRenderers, rendererType,
                  pendingView, focusedView, statiReceiver, destroying>>
  BY DEF vars, world, hostVars, viewVars, linkVars, clientVars
<1>2. TypeOK'
  BY <1>1 DEF IInv, TypeOK
<1>3. RegistriesAgree' /\ DestroyingClosed'
  BY <1>1, RegistriesKept DEF IInv, Allocated, Hosts, RegistriesAgree, Closed
<1>4. ViewTablesAgree'
  BY <1>1, ViewTablesKept DEF IInv, Allocated
<1>5. LinkKeysLive' /\ LinksInverse'
  BY <1>1, LinksKept DEF IInv, Allocated, linkVars
<1> QED BY <1>2, <1>3, <1>4, <1>5 DEF IInv

-----------------------------------------------------------------------------
(* The connections alone.                                                  *)

LEMMA ConnectionKeepsIInv == IInv /\ ConnectionStep => IInv'
<1> SUFFICES ASSUME IInv, ConnectionStep PROVE IInv'
  OBVIOUS
<1> USE DEF Allocated
<1>1. UNCHANGED <<fault, view, ownViews, regViews, rendererByView, viewByRenderer,
                  relinked, regRenderers, rendererType, pendingView, focusedView,
                  statiReceiver, destroying>> /\ destroying = NULL
  BY DEF ConnectionStep, viewVars, linkVars, clientVars, Accept, ReadEOF, WriteDrains
<1>2. CASE \E h \in Controllers \cup Viewers : Accept(h)
  <2> PICK h \in Controllers \cup Viewers : Accept(h)
    BY <1>2
  <2>1. /\ h \in Hosts /\ state[h] = "Free" /\ ~Closed(h)
        /\ state' = [state EXCEPT ![h] = "Connected"] /\ hosts' = hosts \cup {h}
        /\ UNCHANGED <<scheduled, unsent>> /\ h \notin Renderers
    BY HostKindsDisjoint DEF Accept, Hosts, IInv, RegistriesAgree
  <2>2. TypeOK'
    BY <1>1, <2>1 DEF IInv, TypeOK, ConnectionStates
  <2>3. RegistriesAgree' /\ DestroyingClosed'
    BY <1>1, <2>1, NullIsNoHost DEF IInv, TypeOK, RegistriesAgree, DestroyingClosed, Closed, Hosts
  <2>4. ViewTablesAgree'
    BY <1>1, <2>1, ViewTablesKept DEF IInv, TypeOK, Hosts
  <2>5. LinkKeysLive' /\ LinksInverse'
    BY <1>1, <2>1, LinksKept DEF IInv, TypeOK, Hosts, linkVars
  <2> QED BY <2>2, <2>3, <2>4, <2>5 DEF IInv
<1>3. CASE \E h \in Hosts : ReadEOF(h)
  <2> PICK h \in Hosts : ReadEOF(h)
    BY <1>3
  <2>1. /\ state[h] # "Free" /\ h \notin Range(scheduled) /\ h \in hosts
        /\ state' = [state EXCEPT ![h] = "Disconnected"] /\ hosts' = hosts \ {h}
        /\ scheduled' = Append(scheduled, h) /\ UNCHANGED unsent
    BY <1>1, NullIsNoHost DEF ReadEOF, Closed, IInv, RegistriesAgree
  <2>2. /\ scheduled' \in Seq(Hosts)
        /\ Range(scheduled') = Range(scheduled) \cup {h}
        /\ \A i, j \in DOMAIN scheduled' : scheduled'[i] = scheduled'[j] => i = j
    BY <2>1, RangeOfAppend DEF IInv, TypeOK, RegistriesAgree
  <2>3. TypeOK'
    BY <1>1, <2>1, <2>2 DEF IInv, TypeOK, ConnectionStates
  <2>4. RegistriesAgree' /\ DestroyingClosed'
    BY <1>1, <2>1, <2>2 DEF IInv, TypeOK, RegistriesAgree, DestroyingClosed, Closed, Hosts
  <2>5. ViewTablesAgree'
    BY <1>1, <2>1, ViewTablesKept DEF IInv, TypeOK, Hosts
  <2>6. LinkKeysLive' /\ LinksInverse'
    BY <1>1, <2>1, LinksKept DEF IInv, TypeOK, Hosts, linkVars
  <2> QED BY <2>3, <2>4, <2>5, <2>6 DEF IInv
<1>4. CASE \E r \in Renderers : WriteDrains(r)
  <2>1. UNCHANGED <<state, hosts, scheduled>> /\ unsent' \subseteq unsent
    BY <1>4 DEF WriteDrains
  <2>2. TypeOK'
    BY <1>1, <2>1 DEF IInv, TypeOK
  <2>3. RegistriesAgree' /\ DestroyingClosed'
    BY <1>1, <2>1, RegistriesKept DEF IInv, RegistriesAgree
  <2>4. ViewTablesAgree'
    BY <1>1, <2>1, ViewTablesKept DEF IInv
  <2>5. LinkKeysLive' /\ LinksInverse'
    BY <1>1, <2>1, LinksKept DEF IInv, linkVars
  <2> QED BY <2>2, <2>3, <2>4, <2>5 DEF IInv
<1> QED BY <1>2, <1>3, <1>4 DEF ConnectionStep

-----------------------------------------------------------------------------
(* The handlers of a viewer.                                               *)

(* What a handler of h can rely on: h is registered and still open.        *)
LEMMA HandlingFacts ==
  ASSUME IInv, NEW h \in Hosts, Handling(h)
  PROVE  /\ h \in hosts /\ state[h] # "Free" /\ h \notin Range(scheduled)
         /\ destroying = NULL /\ fault = "none"
BY NullIsNoHost DEF IInv, RegistriesAgree, Handling, Running, Allocated, Closed

LEMMA ViewerInitializeKeepsIInv ==
  ASSUME IInv, NEW h \in Viewers, ViewerInitialize(h)
  PROVE  IInv'
<1>1. /\ h \in Hosts /\ h \in hosts /\ h \notin Range(scheduled) /\ h \notin Renderers
      /\ destroying = NULL /\ state[h] # "Free"
  BY HandlingFacts, HostKindsDisjoint DEF ViewerInitialize, Hosts
<1>2. /\ state' = [state EXCEPT ![h] = "Established"]
      /\ statiReceiver' = statiReceiver \cup {h}
      /\ UNCHANGED <<fault, hosts, scheduled, unsent, view, ownViews, regViews,
                     rendererByView, viewByRenderer, relinked, regRenderers, rendererType,
                     pendingView, focusedView, destroying>>
  BY DEF ViewerInitialize, viewVars, linkVars
<1>3. TypeOK'
  BY <1>1, <1>2 DEF IInv, TypeOK, ConnectionStates
<1>4. RegistriesAgree' /\ DestroyingClosed'
  BY <1>1, <1>2, RegistriesKept DEF IInv, TypeOK, Allocated, Closed, RegistriesAgree, Hosts
<1>5. ViewTablesAgree'
  BY <1>1, <1>2, ViewTablesKept DEF IInv, TypeOK, Allocated, Hosts
<1>6. LinkKeysLive' /\ LinksInverse'
  BY <1>1, <1>2, LinksKept DEF IInv, TypeOK, Allocated, Hosts, linkVars
<1> QED BY <1>3, <1>4, <1>5, <1>6 DEF IInv

(* A new renderer object in an otherwise unchanged world.                  *)
LEMMA CreateRendererFacts ==
  ASSUME IInv, NEW r \in Renderers, NEW v \in Views \cup {NULL}, CreateRenderer(r, v),
         UNCHANGED <<scheduled, destroying>>, destroying = NULL
  PROVE  /\ state' \in [Hosts -> ConnectionStates \cup {"Free"}]
         /\ hosts' \subseteq Hosts /\ regRenderers' \subseteq Renderers
         /\ pendingView' \in [Renderers -> Views \cup {NULL}]
         /\ RegistriesAgree' /\ DestroyingClosed'
         /\ \A h \in Hosts : state[h] # "Free" => state'[h] # "Free"
<1>1. /\ r \in Hosts /\ state[r] = "Free" /\ r \notin Range(scheduled)
      /\ state' = [state EXCEPT ![r] = "Connected"]
  BY DEF CreateRenderer, Allocated, Hosts, IInv, RegistriesAgree, Closed
<1>2. RegistriesAgree' /\ DestroyingClosed'
  BY <1>1, NullIsNoHost
  DEF IInv, TypeOK, RegistriesAgree, DestroyingClosed, CreateRenderer, Allocated, Closed, Hosts
<1> QED BY <1>1, <1>2 DEF IInv, TypeOK, CreateRenderer, ConnectionStates

(* A new view disturbs no table entry and no link: none names its address. *)
LEMMA NewViewFacts ==
  ASSUME IInv, NEW h \in Viewers, NEW id \in ViewIds, NEW v \in Views,
         NEW type \in Types, NEW reassignable \in BOOLEAN,
         NewView(h, id, v, type, reassignable), UNCHANGED linkVars,
         state[h] # "Free", \A g \in Hosts : state[g] # "Free" => state'[g] # "Free"
  PROVE  /\ view' \in [Views -> ViewObjects]
         /\ ownViews' \in [Viewers -> [ViewIds -> Views \cup {NULL}]]
         /\ regViews' \in [Viewers -> [ViewIds -> Views \cup {NULL}]]
         /\ ViewTablesAgree' /\ LinkKeysLive' /\ LinksInverse'
<1> DEFINE new == [host |-> h, id |-> id, type |-> type,
                   reassignable |-> reassignable, assigned |-> FALSE]
<1>1. /\ view[v].host = NULL
      /\ view' = [view EXCEPT ![v] = new]
      /\ regViews' = InsertView(regViews, h, id, v)
      /\ ownViews' = InsertView(ownViews, h, id, v)
  BY DEF NewView, LiveView
<1>2. new \in ViewObjects /\ new.host = h /\ new.id = id
  BY DEF ViewObjects
<1>3. h # NULL /\ id # NULL /\ h \in Hosts
  BY NullIsNoHost, NullIsNoView DEF Hosts
<1>4. view' \in [Views -> ViewObjects]
  BY <1>1, <1>2 DEF IInv, TypeOK
<1>5. ASSUME NEW table \in [Viewers -> [ViewIds -> Views \cup {NULL}]]
      PROVE  /\ InsertView(table, h, id, v) \in [Viewers -> [ViewIds -> Views \cup {NULL}]]
             /\ \A g \in Viewers, i \in ViewIds :
                  InsertView(table, h, id, v)[g][i] =
                    IF g = h /\ i = id /\ table[h][id] = NULL THEN v ELSE table[g][i]
  BY DEF InsertView
<1>6. /\ ownViews \in [Viewers -> [ViewIds -> Views \cup {NULL}]]
      /\ regViews \in [Viewers -> [ViewIds -> Views \cup {NULL}]]
  BY DEF IInv, TypeOK
<1>7. ViewTablesAgree'
  <2>1. ASSUME NEW g \in Viewers, NEW i \in ViewIds
        PROVE  /\ ownViews'[g][i] = regViews'[g][i]
               /\ ownViews'[g][i] # NULL =>
                    /\ view'[ownViews'[g][i]].host = g
                    /\ view'[ownViews'[g][i]].id = i
                    /\ state'[g] # "Free"
    <3>1. ownViews[g][i] = regViews[g][i] /\ g \in Hosts
      BY DEF IInv, ViewTablesAgree, Hosts
    <3>2. ownViews[g][i] # NULL =>
            /\ ownViews[g][i] \in Views /\ ownViews[g][i] # v
            /\ view[ownViews[g][i]].host = g /\ view[ownViews[g][i]].id = i
            /\ state[g] # "Free"
      BY <1>1, <1>6, NullIsNoHost DEF IInv, ViewTablesAgree, Allocated, Hosts
    <3>3. /\ ownViews'[g][i] = IF g = h /\ i = id /\ ownViews[h][id] = NULL
                               THEN v ELSE ownViews[g][i]
          /\ regViews'[g][i] = IF g = h /\ i = id /\ regViews[h][id] = NULL
                               THEN v ELSE regViews[g][i]
      BY <1>1, <1>5, <1>6
    <3>4. view'[v] = new /\ \A w \in Views : w # v => view'[w] = view[w]
      BY <1>1 DEF IInv, TypeOK
    <3>5. CASE g = h /\ i = id /\ ownViews[h][id] = NULL
      BY <1>2, <1>3, <3>1, <3>3, <3>4, <3>5
    <3>6. CASE ~(g = h /\ i = id /\ ownViews[h][id] = NULL)
      BY <3>1, <3>2, <3>3, <3>4, <3>6
    <3> QED BY <3>5, <3>6
  <2> QED BY <2>1 DEF ViewTablesAgree, Allocated
<1>8. LinkKeysLive' /\ LinksInverse'
  <2>1. rendererByView[v] = NULL
    BY <1>1 DEF IInv, LinkKeysLive, LiveView
  <2>2. \A w \in Views : w # v => view'[w] = view[w]
    BY <1>1 DEF IInv, TypeOK
  <2>3. \A r \in Renderers : viewByRenderer[r] # NULL => state'[r] # "Free"
    BY DEF IInv, LinkKeysLive, Allocated, Hosts
  <2> QED BY <2>1, <2>2, <2>3 DEF IInv, LinkKeysLive, LinksInverse, LiveView, Allocated, linkVars
<1> QED BY <1>1, <1>4, <1>5, <1>6, <1>7, <1>8

LEMMA RegisterViewKeepsIInv ==
  ASSUME IInv, NEW h \in Viewers, NEW id \in ViewIds, NEW v \in Views,
         NEW type \in Types, NEW reassignable \in BOOLEAN,
         RegisterView(h, id, v, type, reassignable)
  PROVE  IInv'
<1>1. /\ h \in Hosts /\ state[h] # "Free" /\ destroying = NULL
      /\ NewView(h, id, v, type, reassignable)
      /\ UNCHANGED linkVars
      /\ UNCHANGED <<fault, scheduled, unsent, relinked, rendererByView, viewByRenderer,
                     rendererType, focusedView, statiReceiver, destroying>>
  BY HandlingFacts DEF RegisterView, Hosts, linkVars
<1>2. /\ state' \in [Hosts -> ConnectionStates \cup {"Free"}]
      /\ hosts' \subseteq Hosts /\ regRenderers' \subseteq Renderers
      /\ pendingView' \in [Renderers -> Views \cup {NULL}]
      /\ RegistriesAgree' /\ DestroyingClosed'
      /\ \A g \in Hosts : state[g] # "Free" => state'[g] # "Free"
  <2>1. CASE NoRenderer
    <3>1. UNCHANGED <<state, hosts, regRenderers, pendingView>>
      BY <2>1 DEF NoRenderer
    <3> QED BY <1>1, <3>1, RegistriesKept DEF IInv, TypeOK, Allocated, RegistriesAgree
  <2>2. CASE \E r \in Renderers : CreateRenderer(r, v)
    BY <1>1, <2>2, CreateRendererFacts
  <2> QED BY <2>1, <2>2 DEF RegisterView
<1>3. /\ view' \in [Views -> ViewObjects]
      /\ ownViews' \in [Viewers -> [ViewIds -> Views \cup {NULL}]]
      /\ regViews' \in [Viewers -> [ViewIds -> Views \cup {NULL}]]
      /\ ViewTablesAgree' /\ LinkKeysLive' /\ LinksInverse'
  BY <1>1, <1>2, NewViewFacts
<1>4. TypeOK'
  BY <1>1, <1>2, <1>3 DEF IInv, TypeOK
<1> QED BY <1>2, <1>3, <1>4 DEF IInv

LEMMA GotFocusKeepsIInv ==
  ASSUME IInv, NEW h \in Viewers, NEW id \in ViewIds, GotFocus(h, id)
  PROVE  IInv'
<1>1. /\ focusedView' = ownViews[h][id]
      /\ UNCHANGED <<fault, state, hosts, scheduled, unsent, view, ownViews, regViews,
                     rendererByView, viewByRenderer, relinked, regRenderers, rendererType,
                     pendingView, statiReceiver, destroying>>
  BY DEF GotFocus, hostVars, viewVars, linkVars
<1>2. TypeOK'
  BY <1>1 DEF IInv, TypeOK
<1>3. RegistriesAgree' /\ DestroyingClosed'
  BY <1>1, RegistriesKept DEF IInv, Allocated, RegistriesAgree
<1>4. ViewTablesAgree'
  BY <1>1, ViewTablesKept DEF IInv, Allocated
<1>5. LinkKeysLive' /\ LinksInverse'
  BY <1>1, LinksKept DEF IInv, Allocated, linkVars
<1> QED BY <1>2, <1>3, <1>4, <1>5 DEF IInv

-----------------------------------------------------------------------------
(* Shutting a host down, deleting a view: unregister-view, ~ViewerHost.    *)

LEMMA ShutdownFacts ==
  ASSUME IInv, NEW r \in Renderers \cup {NULL}, state' = StateAfterShutdown(r),
         UNCHANGED <<hosts, scheduled, regRenderers, destroying>>
  PROVE  /\ state' \in [Hosts -> ConnectionStates \cup {"Free"}]
         /\ RegistriesAgree' /\ DestroyingClosed'
         /\ \A h \in Hosts : state[h] # "Free" <=> state'[h] # "Free"
<1>1. state' \in [Hosts -> ConnectionStates \cup {"Free"}]
  BY DEF IInv, TypeOK, StateAfterShutdown, ConnectionStates
<1>2. /\ \A h \in Hosts : state[h] # "Free" <=> state'[h] # "Free"
      /\ \A h \in Hosts : state'[h] = state[h] \/ state'[h] = "Disconnecting"
      /\ \A h \in Viewers : state'[h] = state[h]
  BY HostKindsDisjoint, NullIsNoHost
  DEF IInv, TypeOK, StateAfterShutdown, Allocated, Hosts
<1>3. RegistriesAgree' /\ DestroyingClosed'
  BY <1>2, RegistriesKept DEF IInv, TypeOK, RegistriesAgree, Allocated, Closed, Hosts
<1> QED BY <1>1, <1>2, <1>3

LEMMA UnlinkFacts ==
  ASSUME IInv, NEW v \in Views, NEW r \in Renderers, Unlink(v, r)
  PROVE  /\ rendererByView' \in [Views -> Renderers \cup {NULL}]
         /\ viewByRenderer' \in [Renderers -> Views \cup {NULL}]
         /\ rendererByView'[v] = NULL /\ viewByRenderer'[r] = NULL
         /\ \A w \in Views : w # v => rendererByView'[w] = rendererByView[w]
         /\ \A q \in Renderers : q # r => viewByRenderer'[q] = viewByRenderer[q]
BY DEF Unlink, IInv, TypeOK

LEMMA DeleteViewFacts ==
  ASSUME IInv, NEW h \in Viewers, NEW id \in ViewIds, ownViews[h][id] # NULL,
         DeleteView(ownViews[h][id]),
         ownViews' = [ownViews EXCEPT ![h][id] = NULL],
         \A g \in Hosts : state[g] # "Free" => state'[g] # "Free"
  PROVE  /\ view' \in [Views -> ViewObjects]
         /\ ownViews' \in [Viewers -> [ViewIds -> Views \cup {NULL}]]
         /\ regViews' \in [Viewers -> [ViewIds -> Views \cup {NULL}]]
         /\ rendererByView' \in [Views -> Renderers \cup {NULL}]
         /\ viewByRenderer' \in [Renderers -> Views \cup {NULL}]
         /\ relinked' = relinked
         /\ ViewTablesAgree' /\ LinkKeysLive' /\ LinksInverse'
<1> DEFINE v == ownViews[h][id]
<1>1. /\ v \in Views /\ view[v].host = h /\ view[v].id = id /\ regViews[h][id] = v
      /\ RegisteredAs(v) = v
  BY DEF IInv, TypeOK, ViewTablesAgree, RegisteredAs
<1>2. /\ IF rendererByView[v] # NULL THEN Unlink(v, rendererByView[v])
         ELSE UNCHANGED <<rendererByView, viewByRenderer>>
      /\ regViews' = [regViews EXCEPT ![h][id] = NULL]
      /\ view' = [view EXCEPT ![v] = NoView]
      /\ relinked' = relinked
  BY <1>1 DEF DeleteView, DisconnectView
<1>3. /\ rendererByView' \in [Views -> Renderers \cup {NULL}]
      /\ viewByRenderer' \in [Renderers -> Views \cup {NULL}]
      /\ rendererByView'[v] = NULL
      /\ \A w \in Views : w # v => rendererByView'[w] = rendererByView[w]
      /\ \A q \in Renderers : viewByRenderer'[q] =
           IF q = rendererByView[v] THEN NULL ELSE viewByRenderer[q]
  <2>1. CASE rendererByView[v] # NULL
    <3>1. rendererByView[v] \in Renderers
      BY <1>1, <2>1 DEF IInv, TypeOK
    <3>2. Unlink(v, rendererByView[v])
      BY <1>2, <2>1
    <3> QED BY <1>1, <3>1, <3>2, UnlinkFacts
  <2>2. CASE rendererByView[v] = NULL
    <3>1. \A q \in Renderers : q # NULL
      BY NullIsNoHost DEF Hosts
    <3> QED BY <1>1, <1>2, <2>2, <3>1 DEF IInv, TypeOK
  <2> QED BY <2>1, <2>2
<1>4. NoView \in ViewObjects /\ NoView.host = NULL
  BY NoTypeIsType DEF NoView, ViewObjects
<1>5. /\ view' \in [Views -> ViewObjects]
      /\ \A w \in Views : w # v => view'[w] = view[w]
  BY <1>1, <1>2, <1>4 DEF IInv, TypeOK
<1>6. /\ ownViews' \in [Viewers -> [ViewIds -> Views \cup {NULL}]]
      /\ regViews' \in [Viewers -> [ViewIds -> Views \cup {NULL}]]
      /\ \A g \in Viewers, i \in ViewIds :
           /\ ownViews'[g][i] = IF g = h /\ i = id THEN NULL ELSE ownViews[g][i]
           /\ regViews'[g][i] = IF g = h /\ i = id THEN NULL ELSE regViews[g][i]
  BY <1>2 DEF IInv, TypeOK
<1>7. ViewTablesAgree'
  <2>1. ASSUME NEW g \in Viewers, NEW i \in ViewIds, ~(g = h /\ i = id), ownViews[g][i] # NULL
        PROVE  ownViews[g][i] \in Views /\ ownViews[g][i] # v
    BY <1>1, <2>1 DEF IInv, TypeOK, ViewTablesAgree
  <2>2. \A g \in Viewers : state[g] # "Free" => state'[g] # "Free"
    BY DEF Hosts
  <2> QED BY <1>5, <1>6, <2>1, <2>2 DEF IInv, ViewTablesAgree, Allocated
<1>8. LinkKeysLive'
  <2>1. \A r \in Renderers : state[r] # "Free" => state'[r] # "Free"
    BY DEF Hosts
  <2> QED BY <1>1, <1>3, <1>5, <2>1 DEF IInv, LinkKeysLive, LiveView, Allocated
<1>9. LinksInverse'
  <2>1. \A q \in Renderers : q # NULL
    BY NullIsNoHost DEF Hosts
  <2>2. \A w \in Views : w # NULL
    BY NullIsNoView
  <2> QED BY <1>1, <1>2, <1>3, <2>1, <2>2 DEF IInv, LinksInverse
<1> QED BY <1>2, <1>3, <1>5, <1>6, <1>7, <1>8, <1>9

LEMMA FaultSets ==
  /\ \A r : ShutdownFaults(r) \subseteq Faults
  /\ \A v : DeleteViewFaults(v) \subseteq Faults
  /\ \A r : DisconnectRendererFaults(r) \subseteq Faults
  /\ \A v, type : ConnectFaults(v, type) \subseteq Faults
BY DEF ShutdownFaults, DeleteViewFaults, DisconnectViewFaults, DisconnectRendererFaults,
       UnlinkFaults, ConnectFaults

LEMMA UnregisterViewKeepsIInv ==
  ASSUME IInv, NEW h \in Viewers, NEW id \in ViewIds, NEW keep \in BOOLEAN,
         UnregisterView(h, id, keep)
  PROVE  IInv'
<1> DEFINE v == ownViews[h][id]
           r == rendererByView[v]
           faults == DeleteViewFaults(v) \cup (IF keep THEN {} ELSE ShutdownFaults(r))
<1>1. h \in Hosts /\ state[h] # "Free" /\ destroying = NULL /\ v # NULL
  BY HandlingFacts DEF UnregisterView, Hosts
<1>2. CASE Crash(faults)
  <2>1. faults \in SUBSET Faults
    BY FaultSets
  <2> HIDE DEF faults
  <2> QED BY <1>2, <2>1, CrashKeepsIInv
<1>3. CASE /\ keep \/ r # NULL
           /\ state' = IF keep THEN state ELSE StateAfterShutdown(r)
           /\ unsent' = IF keep /\ r # NULL THEN SentTo({r}) ELSE unsent
           /\ DeleteView(v)
           /\ ownViews' = [ownViews EXCEPT ![h][id] = NULL]
           /\ UNCHANGED <<fault, hosts, scheduled, regRenderers, rendererType, clientVars>>
  <2>1. v \in Views /\ r \in Renderers \cup {NULL}
    BY <1>1 DEF IInv, TypeOK
  <2>2. UNCHANGED <<hosts, scheduled, regRenderers, rendererType, fault,
                    pendingView, focusedView, statiReceiver, destroying>>
    BY <1>3 DEF clientVars
  <2>3. /\ state' \in [Hosts -> ConnectionStates \cup {"Free"}]
        /\ RegistriesAgree' /\ DestroyingClosed'
        /\ \A g \in Hosts : state[g] # "Free" => state'[g] # "Free"
    <3>1. CASE keep
      BY <1>3, <2>2, <3>1, RegistriesKept DEF IInv, TypeOK, RegistriesAgree, Allocated
    <3>2. CASE ~keep
      BY <1>3, <2>1, <2>2, <3>2, ShutdownFacts
    <3> QED BY <3>1, <3>2
  <2>4. /\ view' \in [Views -> ViewObjects]
        /\ ownViews' \in [Viewers -> [ViewIds -> Views \cup {NULL}]]
        /\ regViews' \in [Viewers -> [ViewIds -> Views \cup {NULL}]]
        /\ rendererByView' \in [Views -> Renderers \cup {NULL}]
        /\ viewByRenderer' \in [Renderers -> Views \cup {NULL}]
        /\ relinked' = relinked
        /\ ViewTablesAgree' /\ LinkKeysLive' /\ LinksInverse'
    BY <1>1, <1>3, <2>3, DeleteViewFacts
  <2>5. unsent' \subseteq Renderers
    BY <1>3, <2>1 DEF IInv, TypeOK, SentTo
  <2>6. TypeOK'
    BY <2>2, <2>3, <2>4, <2>5 DEF IInv, TypeOK
  <2> QED BY <2>3, <2>4, <2>6 DEF IInv
<1> QED BY <1>2, <1>3 DEF UnregisterView

LEMMA DestroyNextViewKeepsIInv ==
  ASSUME IInv, NEW id \in ViewIds, DestroyNextView(id)
  PROVE  IInv'
<1> DEFINE h == destroying
           v == ownViews[h][id]
           r == rendererByView[v]
           faults == DeleteViewFaults(v) \cup (IF r = NULL THEN {} ELSE ShutdownFaults(r))
<1>1. h \in Viewers /\ v # NULL /\ v \in Views /\ r \in Renderers \cup {NULL}
  BY DEF DestroyNextView, IInv, TypeOK
<1>2. CASE Crash(faults)
  <2>1. faults \in SUBSET Faults
    BY FaultSets
  <2> HIDE DEF faults
  <2> QED BY <1>2, <2>1, CrashKeepsIInv
<1>3. CASE /\ state' = StateAfterShutdown(r)
           /\ DeleteView(v)
           /\ ownViews' = [ownViews EXCEPT ![h][id] = NULL]
           /\ UNCHANGED <<fault, hosts, scheduled, unsent, regRenderers, rendererType,
                          clientVars>>
  <2>1. UNCHANGED <<hosts, scheduled, unsent, regRenderers, rendererType, fault,
                    pendingView, focusedView, statiReceiver, destroying>>
    BY <1>3 DEF clientVars
  <2>2. /\ state' \in [Hosts -> ConnectionStates \cup {"Free"}]
        /\ RegistriesAgree' /\ DestroyingClosed'
        /\ \A g \in Hosts : state[g] # "Free" => state'[g] # "Free"
    BY <1>1, <1>3, <2>1, ShutdownFacts
  <2>3. /\ view' \in [Views -> ViewObjects]
        /\ ownViews' \in [Viewers -> [ViewIds -> Views \cup {NULL}]]
        /\ regViews' \in [Viewers -> [ViewIds -> Views \cup {NULL}]]
        /\ rendererByView' \in [Views -> Renderers \cup {NULL}]
        /\ viewByRenderer' \in [Renderers -> Views \cup {NULL}]
        /\ relinked' = relinked
        /\ ViewTablesAgree' /\ LinkKeysLive' /\ LinksInverse'
    BY <1>1, <1>3, <2>2, DeleteViewFacts
  <2>4. TypeOK'
    BY <2>1, <2>2, <2>3 DEF IInv, TypeOK
  <2> QED BY <2>2, <2>3, <2>4 DEF IInv
<1> QED BY <1>2, <1>3 DEF DestroyNextView

-----------------------------------------------------------------------------
(* Renderers and controllers.                                              *)

(* connect enters a pair in both maps; it keeps them inverse unless it     *)
(* takes one of the two away from an old partner.                          *)
LEMMA ConnectFacts ==
  ASSUME IInv, NEW v \in Views, NEW r \in Renderers, NEW type, state[r] # "Free",
         Connect(v, r, type), UNCHANGED <<ownViews, regViews>>,
         \A h \in Hosts : state[h] # "Free" => state'[h] # "Free"
  PROVE  /\ view' \in [Views -> ViewObjects]
         /\ rendererByView' \in [Views -> Renderers \cup {NULL}]
         /\ viewByRenderer' \in [Renderers -> Views \cup {NULL}]
         /\ relinked' \in BOOLEAN
         /\ ViewTablesAgree' /\ LinkKeysLive' /\ LinksInverse'
<1>1. view[v].host # NULL
  BY DEF Connect, LiveView
<1>2. /\ \A g \in Viewers : state[g] # "Free" => state'[g] # "Free"
      /\ \A q \in Renderers : state[q] # "Free" => state'[q] # "Free"
  BY DEF Hosts
<1>3. CASE Connectable(v, type)
  <2>1. /\ rendererByView' = [rendererByView EXCEPT ![v] = r]
        /\ viewByRenderer' = [viewByRenderer EXCEPT ![r] = v]
        /\ view' = [view EXCEPT ![v].assigned = TRUE]
        /\ relinked' = (relinked \/ rendererByView[v] # NULL \/ viewByRenderer[r] # NULL)
    BY <1>3 DEF Connect
  <2>2. /\ view' \in [Views -> ViewObjects]
        /\ \A w \in Views : view'[w].host = view[w].host /\ view'[w].id = view[w].id
        /\ \A w \in Views : w # v => view'[w] = view[w]
        /\ view'[v].assigned
    BY <2>1 DEF IInv, TypeOK, ViewObjects
  <2>3. ViewTablesAgree'
    BY <1>2, <2>2, ViewTablesKept DEF IInv, Allocated
  <2>4. LinkKeysLive'
    BY <1>1, <1>2, <2>1, <2>2 DEF IInv, TypeOK, LinkKeysLive, LiveView, Allocated
  <2>5. LinksInverse'
    <3>1. (\A q \in Renderers : q # NULL) /\ (\A w \in Views : w # NULL)
      BY NullIsNoHost, NullIsNoView DEF Hosts
    <3>2. SUFFICES ASSUME ~relinked', NEW w \in Views, NEW q \in Renderers
                   PROVE  rendererByView'[w] = q <=> viewByRenderer'[q] = w
      BY DEF LinksInverse
    <3>3. ~relinked /\ rendererByView[v] = NULL /\ viewByRenderer[r] = NULL
      BY <2>1, <3>2
    <3>4. rendererByView[w] = q <=> viewByRenderer[q] = w
      BY <3>3 DEF IInv, LinksInverse
    <3>5. /\ rendererByView'[w] = IF w = v THEN r ELSE rendererByView[w]
          /\ viewByRenderer'[q] = IF q = r THEN v ELSE viewByRenderer[q]
      BY <2>1 DEF IInv, TypeOK
    <3> QED BY <3>1, <3>3, <3>4, <3>5
  <2> QED BY <2>1, <2>2, <2>3, <2>4, <2>5 DEF IInv, TypeOK
<1>4. CASE ~Connectable(v, type)
  <2>1. UNCHANGED linkVars /\ UNCHANGED view
    BY <1>4 DEF Connect
  <2>2. ViewTablesAgree'
    BY <1>2, <2>1, ViewTablesKept DEF IInv, Allocated
  <2>3. LinkKeysLive' /\ LinksInverse'
    BY <1>2, <2>1, LinksKept DEF IInv, Allocated
  <2> QED BY <2>1, <2>2, <2>3 DEF IInv, TypeOK, linkVars
<1> QED BY <1>3, <1>4

LEMMA RendererInitializeKeepsIInv ==
  ASSUME IInv, NEW r \in Renderers, NEW type \in Types, RendererInitialize(r, type)
  PROVE  IInv'
<1> DEFINE v == pendingView[r]
<1>1. /\ r \in Hosts /\ r \notin Range(scheduled) /\ destroying = NULL /\ state[r] # "Free"
      /\ v \in Views \cup {NULL}
  BY HandlingFacts DEF RendererInitialize, Hosts, IInv, TypeOK
<1>2. CASE Crash(ConnectFaults(v, type))
  BY <1>2, FaultSets, CrashKeepsIInv
<1>3. CASE /\ IF v = NULL THEN UNCHANGED <<linkVars, view>> ELSE Connect(v, r, type)
           /\ rendererType' = [rendererType EXCEPT ![r] = type]
           /\ pendingView' = [pendingView EXCEPT ![r] = NULL]
           /\ unsent' = SentTo({r})
           /\ state' = [state EXCEPT ![r] = "Established"]
           /\ UNCHANGED <<fault, hosts, scheduled, ownViews, regViews, regRenderers,
                          focusedView, statiReceiver, destroying>>
  <2>1. RegistriesAgree' /\ DestroyingClosed'
    BY <1>1, <1>3, RegistriesKept DEF IInv, TypeOK, Allocated, Closed, RegistriesAgree
  <2>2. \A h \in Hosts : state[h] # "Free" => state'[h] # "Free"
    BY <1>1, <1>3 DEF IInv, TypeOK
  <2>3. /\ view' \in [Views -> ViewObjects]
        /\ rendererByView' \in [Views -> Renderers \cup {NULL}]
        /\ viewByRenderer' \in [Renderers -> Views \cup {NULL}]
        /\ relinked' \in BOOLEAN
        /\ ViewTablesAgree' /\ LinkKeysLive' /\ LinksInverse'
    <3>1. CASE v = NULL
      <4>1. UNCHANGED linkVars /\ UNCHANGED view
        BY <1>3, <3>1
      <4>2. ViewTablesAgree'
        BY <1>3, <2>2, <4>1, ViewTablesKept DEF IInv, Allocated, Hosts
      <4>3. LinkKeysLive' /\ LinksInverse'
        BY <2>2, <4>1, LinksKept DEF IInv, Allocated, Hosts
      <4> QED BY <4>1, <4>2, <4>3 DEF IInv, TypeOK, linkVars
    <3>2. CASE v # NULL
      BY <1>1, <1>3, <2>2, <3>2, ConnectFacts
    <3> QED BY <3>1, <3>2
  <2>4. TypeOK'
    BY <1>1, <1>3, <2>3 DEF IInv, TypeOK, ConnectionStates, SentTo
  <2> QED BY <2>1, <2>3, <2>4 DEF IInv
<1> QED BY <1>2, <1>3 DEF RendererInitialize

LEMMA ConnectViewToRendererKeepsIInv ==
  ASSUME IInv, NEW c \in Controllers, NEW v \in Views, NEW r \in Renderers,
         ConnectViewToRenderer(c, v, r)
  PROVE  IInv'
<1>1. CASE Crash(ConnectFaults(v, rendererType[r]))
  BY <1>1, FaultSets, CrashKeepsIInv
<1>2. CASE /\ Connect(v, r, rendererType[r])
           /\ unsent' = IF Connectable(v, rendererType[r]) THEN SentTo({r}) ELSE unsent
           /\ UNCHANGED <<fault, state, hosts, scheduled, ownViews, regViews, regRenderers,
                          rendererType, clientVars>>
  <2>1. UNCHANGED <<fault, state, hosts, scheduled, ownViews, regViews, regRenderers,
                    rendererType, pendingView, focusedView, statiReceiver, destroying>>
    BY <1>2 DEF clientVars
  <2>2. state[r] # "Free" /\ r \in Hosts
    BY DEF ConnectViewToRenderer, IInv, RegistriesAgree, Allocated, Hosts
  <2>3. RegistriesAgree' /\ DestroyingClosed'
    BY <2>1, RegistriesKept DEF IInv, Allocated, RegistriesAgree
  <2>4. /\ view' \in [Views -> ViewObjects]
        /\ rendererByView' \in [Views -> Renderers \cup {NULL}]
        /\ viewByRenderer' \in [Renderers -> Views \cup {NULL}]
        /\ relinked' \in BOOLEAN
        /\ ViewTablesAgree' /\ LinkKeysLive' /\ LinksInverse'
    BY <1>2, <2>1, <2>2, ConnectFacts
  <2>5. TypeOK'
    BY <1>2, <2>1, <2>4 DEF IInv, TypeOK, SentTo
  <2> QED BY <2>3, <2>4, <2>5 DEF IInv
<1> QED BY <1>1, <1>2 DEF ConnectViewToRenderer

(* Handlers that only fill the send buffer of a renderer.                  *)
LEMMA SendingKeepsIInv ==
  ASSUME IInv, NEW r \in Renderers, unsent' = SentTo({r}),
         UNCHANGED <<fault, state, hosts, scheduled, viewVars, linkVars, regRenderers,
                     rendererType, clientVars>>
  PROVE  IInv'
<1>1. UNCHANGED <<fault, state, hosts, scheduled, view, ownViews, regViews,
                  rendererByView, viewByRenderer, relinked, regRenderers,
                  rendererType, pendingView, focusedView, statiReceiver, destroying>>
  BY DEF viewVars, linkVars, clientVars
<1>2. TypeOK'
  BY <1>1 DEF IInv, TypeOK, SentTo
<1>3. RegistriesAgree' /\ DestroyingClosed'
  BY <1>1, RegistriesKept DEF IInv, Allocated, RegistriesAgree
<1>4. ViewTablesAgree'
  BY <1>1, ViewTablesKept DEF IInv, Allocated
<1>5. LinkKeysLive' /\ LinksInverse'
  BY <1>1, LinksKept DEF IInv, Allocated, linkVars
<1> QED BY <1>2, <1>3, <1>4, <1>5 DEF IInv

LEMMA RendererKeepsIInv ==
  ASSUME IInv, NEW r \in Renderers, RendererStep(r)
  PROVE  IInv'
<1>1. CASE \E type \in Types : RendererInitialize(r, type)
  BY <1>1, RendererInitializeKeepsIInv
<1>2. CASE RendererRefused(r)
  BY <1>2, SendingKeepsIInv DEF RendererRefused
<1>3. CASE NewRendererRequested(r) \/ StatusChange(r)
  <2>1. PICK F \in SUBSET Faults : Crash(F)
    BY <1>3 DEF NewRendererRequested, StatusChange
  <2> QED BY <2>1, CrashKeepsIInv
<1> QED BY <1>1, <1>2, <1>3 DEF RendererStep

LEMMA ControllerKeepsIInv ==
  ASSUME IInv, NEW c \in Controllers, ControllerStep(c)
  PROVE  IInv'
<1>1. ASSUME NEW displaysStati \in BOOLEAN, ControllerInitialize(c, displaysStati)
      PROVE  IInv'
  <2>1. /\ c \in Hosts /\ c \notin Range(scheduled) /\ c \notin Renderers /\ c \notin Viewers
        /\ destroying = NULL /\ state[c] # "Free"
    BY <1>1, HandlingFacts, HostKindsDisjoint DEF ControllerInitialize, Hosts
  <2>2. /\ state' = [state EXCEPT ![c] = "Established"]
        /\ statiReceiver' = IF displaysStati THEN statiReceiver \cup {c} ELSE statiReceiver
        /\ UNCHANGED <<fault, hosts, scheduled, unsent, view, ownViews, regViews,
                       rendererByView, viewByRenderer, relinked, regRenderers, rendererType,
                       pendingView, focusedView, destroying>>
    BY <1>1 DEF ControllerInitialize, viewVars, linkVars
  <2>3. TypeOK'
    BY <2>1, <2>2 DEF IInv, TypeOK, ConnectionStates
  <2>4. RegistriesAgree' /\ DestroyingClosed'
    BY <2>1, <2>2, RegistriesKept DEF IInv, TypeOK, Allocated, Closed, RegistriesAgree, Hosts
  <2>5. ViewTablesAgree'
    BY <2>1, <2>2, ViewTablesKept DEF IInv, TypeOK, Allocated, Hosts
  <2>6. LinkKeysLive' /\ LinksInverse'
    BY <2>1, <2>2, LinksKept DEF IInv, TypeOK, Allocated, Hosts, linkVars
  <2> QED BY <2>3, <2>4, <2>5, <2>6 DEF IInv
<1>2. ASSUME NEW r \in Renderers, SpawnRenderer(c, r)
      PROVE  IInv'
  <2>1. /\ CreateRenderer(r, NULL) /\ destroying = NULL
        /\ UNCHANGED <<fault, scheduled, unsent, view, ownViews, regViews,
                       rendererByView, viewByRenderer, relinked, rendererType,
                       focusedView, statiReceiver, destroying>>
    BY <1>2, HandlingFacts DEF SpawnRenderer, Commanding, viewVars, linkVars, Hosts
  <2>2. /\ state' \in [Hosts -> ConnectionStates \cup {"Free"}]
        /\ hosts' \subseteq Hosts /\ regRenderers' \subseteq Renderers
        /\ pendingView' \in [Renderers -> Views \cup {NULL}]
        /\ RegistriesAgree' /\ DestroyingClosed'
        /\ \A h \in Hosts : state[h] # "Free" => state'[h] # "Free"
    BY <2>1, CreateRendererFacts
  <2>3. TypeOK'
    BY <2>1, <2>2 DEF IInv, TypeOK
  <2>4. ViewTablesAgree'
    BY <2>1, <2>2, ViewTablesKept DEF IInv, Allocated, Hosts
  <2>5. LinkKeysLive' /\ LinksInverse'
    BY <2>1, <2>2, LinksKept DEF IInv, Allocated, Hosts, linkVars
  <2> QED BY <2>2, <2>3, <2>4, <2>5 DEF IInv
<1>3. ASSUME NEW r \in Renderers, ForwardToRenderer(c, r)
      PROVE  IInv'
  <2>1. CASE Crash({f \in Faults : f = "freed host" /\ ~Allocated(r)})
    BY <2>1, CrashKeepsIInv
  <2>2. CASE unsent' = SentTo({r}) /\ UNCHANGED <<fault, state, hosts, scheduled, viewVars,
                                                linkVars, regRenderers, rendererType, clientVars>>
    BY <2>2, SendingKeepsIInv
  <2> QED BY <1>3, <2>1, <2>2 DEF ForwardToRenderer
<1> QED BY <1>1, <1>2, <1>3, ConnectViewToRendererKeepsIInv DEF ControllerStep

-----------------------------------------------------------------------------
(* Deletion by the idle callback.                                          *)

(* The front of the queue leaves it and is nowhere else in it.             *)
LEMMA DeletableFacts ==
  ASSUME IInv, NEW h \in Hosts, Deletable(h), scheduled' = Tail(scheduled)
  PROVE  /\ h \in Range(scheduled) /\ h \notin hosts /\ state[h] = "Disconnected"
         /\ destroying = NULL
         /\ scheduled' \in Seq(Hosts) /\ Range(scheduled') = Range(scheduled) \ {h}
         /\ \A i, j \in DOMAIN scheduled' : scheduled'[i] = scheduled'[j] => i = j
<1>1. /\ scheduled \in Seq(Hosts) /\ scheduled # <<>> /\ Head(scheduled) = h
      /\ state[h] = "Disconnected" /\ destroying = NULL
      /\ \A i, j \in DOMAIN scheduled : scheduled[i] = scheduled[j] => i = j
  BY DEF Deletable, IInv, TypeOK, RegistriesAgree
<1>2. /\ scheduled' \in Seq(Hosts) /\ h \in Range(scheduled)
      /\ Range(scheduled') = Range(scheduled) \ {h}
      /\ \A i, j \in DOMAIN scheduled' : scheduled'[i] = scheduled'[j] => i = j
  BY <1>1, RangeOfTail
<1>3. h \notin hosts
  BY <1>2 DEF IInv, RegistriesAgree, Closed
<1> QED BY <1>1, <1>2, <1>3

LEMMA DeleteControllerKeepsIInv ==
  ASSUME IInv, NEW h \in Controllers, DeleteController(h)
  PROVE  IInv'
<1>1. /\ h \in Hosts /\ h \notin Viewers /\ h \notin Renderers /\ Deletable(h)
      /\ scheduled' = Tail(scheduled) /\ state' = [state EXCEPT ![h] = "Free"]
      /\ UNCHANGED <<fault, hosts, unsent, view, ownViews, regViews, rendererByView,
                     viewByRenderer, relinked, regRenderers, rendererType, pendingView,
                     focusedView, statiReceiver, destroying>>
  BY HostKindsDisjoint DEF DeleteController, Hosts, viewVars, linkVars, clientVars
<1>2. TypeOK'
  BY <1>1, DeletableFacts DEF IInv, TypeOK
<1>3. RegistriesAgree' /\ DestroyingClosed'
  BY <1>1, DeletableFacts
  DEF IInv, TypeOK, RegistriesAgree, DestroyingClosed, Allocated, Closed, Hosts
<1>4. ViewTablesAgree'
  BY <1>1, ViewTablesKept DEF IInv, TypeOK, Allocated, Hosts
<1>5. LinkKeysLive' /\ LinksInverse'
  BY <1>1, LinksKept DEF IInv, TypeOK, Allocated, Hosts, linkVars
<1> QED BY <1>2, <1>3, <1>4, <1>5 DEF IInv

LEMMA DeleteRendererKeepsIInv ==
  ASSUME IInv, NEW r \in Renderers, DeleteRenderer(r)
  PROVE  IInv'
<1>1. CASE Crash(DisconnectRendererFaults(r))
  BY <1>1, FaultSets, CrashKeepsIInv
<1>2. CASE /\ DisconnectRenderer(r)
           /\ regRenderers' = regRenderers \ {r}
           /\ scheduled' = Tail(scheduled)
           /\ state' = [state EXCEPT ![r] = "Free"]
           /\ unsent' = unsent \ {r}
           /\ rendererType' = [rendererType EXCEPT ![r] = NoType]
           /\ pendingView' = [pendingView EXCEPT ![r] = NULL]
           /\ UNCHANGED <<fault, hosts, viewVars, relinked, focusedView, statiReceiver, destroying>>
  <2>1. r \in Hosts /\ r \notin Viewers /\ Deletable(r)
    BY HostKindsDisjoint DEF Hosts, DeleteRenderer
  <2>2. UNCHANGED <<view, ownViews, regViews>>
    BY <1>2 DEF viewVars
  <2>3. (\A q \in Renderers : q # NULL) /\ (\A w \in Views : w # NULL)
    BY NullIsNoHost, NullIsNoView DEF Hosts
  <2>4. /\ rendererByView' \in [Views -> Renderers \cup {NULL}]
        /\ viewByRenderer' \in [Renderers -> Views \cup {NULL}]
        /\ viewByRenderer'[r] = NULL
        /\ \A q \in Renderers : q # r => viewByRenderer'[q] = viewByRenderer[q]
        /\ \A w \in Views : rendererByView'[w] =
             IF w = viewByRenderer[r] THEN NULL ELSE rendererByView[w]
    <3>1. CASE viewByRenderer[r] # NULL
      <4>1. viewByRenderer[r] \in Views /\ Unlink(viewByRenderer[r], r)
        BY <1>2, <3>1 DEF IInv, TypeOK, DisconnectRenderer
      <4> QED BY <4>1, UnlinkFacts
    <3>2. CASE viewByRenderer[r] = NULL
      BY <1>2, <2>3, <3>2 DEF IInv, TypeOK, DisconnectRenderer
    <3> QED BY <3>1, <3>2
  <2>5. TypeOK'
    BY <1>2, <2>1, <2>2, <2>4, DeletableFacts, NoTypeIsType DEF IInv, TypeOK
  <2>6. RegistriesAgree' /\ DestroyingClosed'
    BY <1>2, <2>1, DeletableFacts
    DEF IInv, TypeOK, RegistriesAgree, DestroyingClosed, Allocated, Closed, Hosts
  <2>7. ViewTablesAgree'
    BY <1>2, <2>1, <2>2, ViewTablesKept DEF IInv, TypeOK, Allocated, Hosts
  <2>8. LinkKeysLive'
    BY <1>2, <2>2, <2>3, <2>4 DEF IInv, TypeOK, LinkKeysLive, LiveView, Allocated, Hosts
  <2>9. LinksInverse'
    BY <1>2, <2>3, <2>4 DEF IInv, LinksInverse
  <2> QED BY <2>5, <2>6, <2>7, <2>8, <2>9 DEF IInv
<1> QED BY <1>1, <1>2 DEF DeleteRenderer

LEMMA DeleteViewerKeepsIInv ==
  ASSUME IInv, NEW h \in Viewers, DeleteViewer(h)
  PROVE  IInv'
<1>1. /\ h \in Hosts /\ Deletable(h)
      /\ scheduled' = Tail(scheduled) /\ destroying' = h
      /\ UNCHANGED <<fault, state, hosts, unsent, view, ownViews, regViews, rendererByView,
                     viewByRenderer, relinked, regRenderers, rendererType, pendingView,
                     focusedView, statiReceiver>>
  BY DEF DeleteViewer, Hosts, viewVars, linkVars
<1>2. TypeOK'
  BY <1>1, DeletableFacts DEF IInv, TypeOK
<1>3. RegistriesAgree' /\ DestroyingClosed'
  BY <1>1, DeletableFacts, NullIsNoHost
  DEF IInv, TypeOK, RegistriesAgree, DestroyingClosed, Allocated, Closed, Hosts
<1>4. ViewTablesAgree'
  BY <1>1, ViewTablesKept DEF IInv, Allocated
<1>5. LinkKeysLive' /\ LinksInverse'
  BY <1>1, LinksKept DEF IInv, Allocated, linkVars
<1> QED BY <1>2, <1>3, <1>4, <1>5 DEF IInv

LEMMA ViewerDestroyedKeepsIInv == IInv /\ ViewerDestroyed => IInv'
<1> SUFFICES ASSUME IInv, ViewerDestroyed PROVE IInv'
  OBVIOUS
<1>1. /\ destroying \in Viewers /\ destroying \in Hosts /\ destroying \notin Renderers
      /\ destroying # NULL /\ destroying \notin Range(scheduled)
      /\ \A id \in ViewIds : ownViews[destroying][id] = NULL
      /\ state' = [state EXCEPT ![destroying] = "Free"] /\ destroying' = NULL
      /\ UNCHANGED <<fault, hosts, scheduled, unsent, view, ownViews, regViews,
                     rendererByView, viewByRenderer, relinked, regRenderers,
                     rendererType, pendingView, focusedView, statiReceiver>>
  BY HostKindsDisjoint
  DEF ViewerDestroyed, IInv, TypeOK, DestroyingClosed, Closed, Hosts, viewVars, linkVars
<1>2. TypeOK'
  BY <1>1 DEF IInv, TypeOK
<1>3. RegistriesAgree' /\ DestroyingClosed'
  BY <1>1, NullIsNoHost
  DEF IInv, TypeOK, RegistriesAgree, DestroyingClosed, Allocated, Closed, Hosts
<1>4. ViewTablesAgree'
  BY <1>1 DEF IInv, TypeOK, ViewTablesAgree, Allocated, Hosts
<1>5. LinkKeysLive' /\ LinksInverse'
  BY <1>1, LinksKept DEF IInv, TypeOK, Allocated, Hosts, linkVars
<1> QED BY <1>2, <1>3, <1>4, <1>5 DEF IInv

-----------------------------------------------------------------------------
(* The theorems.                                                           *)

LEMMA NextKeepsIInv == IInv /\ [Next]_vars => IInv'
<1> SUFFICES ASSUME IInv, [Next]_vars PROVE IInv'
  OBVIOUS
<1>1. CASE ConnectionStep
  BY <1>1, ConnectionKeepsIInv
<1>2. CASE \E h \in Hosts : IoError(h)
  <2>1. Crash({"io error"}) /\ {"io error"} \in SUBSET Faults
    BY <1>2 DEF IoError, Faults
  <2> QED BY <2>1, CrashKeepsIInv
<1>3. CASE \E h \in Viewers : ViewerStep(h)
  BY <1>3, ViewerInitializeKeepsIInv, GotFocusKeepsIInv, UnregisterViewKeepsIInv,
     RegisterViewKeepsIInv DEF ViewerStep
<1>4. CASE \E r \in Renderers : RendererStep(r)
  BY <1>4, RendererKeepsIInv
<1>5. CASE \E c \in Controllers : ControllerStep(c)
  BY <1>5, ControllerKeepsIInv
<1>6. CASE IdleCallback
  BY <1>6, DeleteControllerKeepsIInv, DeleteRendererKeepsIInv, DeleteViewerKeepsIInv
  DEF IdleCallback
<1>7. CASE Destructor
  BY <1>7, ViewerDestroyedKeepsIInv, DestroyNextViewKeepsIInv DEF Destructor
<1>8. CASE UNCHANGED vars
  BY <1>8, StutterKeepsIInv
<1> QED BY <1>1, <1>2, <1>3, <1>4, <1>5, <1>6, <1>7, <1>8 DEF Next

LEMMA Inductive == Spec => []IInv
BY InitIInv, NextKeepsIInv, PTL DEF Spec

(* Every variable keeps its type, however many hosts and views there are.  *)
THEOREM TypeCorrect == Spec => []TypeOK
<1>1. IInv => TypeOK
  BY DEF IInv
<1> QED BY <1>1, Inductive, PTL

(* HostsManager::hosts, the deletion queue, DisplayManager::renderers and  *)
(* the allocated objects agree after every callback.                       *)
THEOREM RegistriesAlwaysAgree == Spec => []RegistriesAgree
<1>1. IInv => RegistriesAgree
  BY DEF IInv
<1> QED BY <1>1, Inductive, PTL

(* ViewerHost::views and DisplayManager::views never name different or     *)
(* deleted View objects.                                                   *)
THEOREM ViewTablesAlwaysAgree == Spec => []ViewTablesAgree
<1>1. IInv => ViewTablesAgree
  BY DEF IInv
<1> QED BY <1>1, Inductive, PTL

(* The keys of the link maps are live objects, also after connects that    *)
(* leave stale entries behind.                                             *)
THEOREM LinkKeysAlwaysLive == Spec => []LinkKeysLive
<1>1. IInv => LinkKeysLive
  BY DEF IInv
<1> QED BY <1>1, Inductive, PTL

(* Until a connect names a side that already has a link, the two link maps *)
(* are inverse to each other.                                              *)
THEOREM LinksStayInverse == Spec => []LinksInverse
<1>1. IInv => LinksInverse
  BY DEF IInv
<1> QED BY <1>1, Inductive, PTL

(* ... and every pointer in them leads to a live object.                   *)
THEOREM NoLinkDangles == Spec => []NoDanglingLink
<1>1. ASSUME IInv PROVE NoDanglingLink
  <2>1. SUFFICES ASSUME ~relinked
                 PROVE  /\ \A v \in Views : rendererByView[v] # NULL => Allocated(rendererByView[v])
                        /\ \A r \in Renderers : viewByRenderer[r] # NULL => LiveView(viewByRenderer[r])
    BY <1>1 DEF IInv, NoDanglingLink
  <2>2. \A v \in Views, r \in Renderers : rendererByView[v] = r <=> viewByRenderer[r] = v
    BY <1>1, <2>1 DEF IInv, LinksInverse
  <2>3. (\A r \in Renderers : r # NULL) /\ (\A v \in Views : v # NULL)
    BY NullIsNoHost, NullIsNoView DEF Hosts
  <2>4. ASSUME NEW v \in Views, rendererByView[v] # NULL
        PROVE  Allocated(rendererByView[v])
    <3>1. rendererByView[v] \in Renderers
      BY <1>1, <2>4 DEF IInv, TypeOK
    <3>2. viewByRenderer[rendererByView[v]] = v
      BY <2>2, <3>1
    <3> QED BY <1>1, <2>3, <3>1, <3>2 DEF IInv, LinkKeysLive
  <2>5. ASSUME NEW r \in Renderers, viewByRenderer[r] # NULL
        PROVE  LiveView(viewByRenderer[r])
    <3>1. viewByRenderer[r] \in Views
      BY <1>1, <2>5 DEF IInv, TypeOK
    <3>2. rendererByView[viewByRenderer[r]] = r
      BY <2>2, <3>1
    <3> QED BY <1>1, <2>3, <3>1, <3>2 DEF IInv, LinkKeysLive
  <2> QED BY <2>4, <2>5
<1> QED BY <1>1, Inductive, PTL

(* No step takes a view's link away and leaves both ends alive, as long as *)
(* no connect named a side that had a link.                                *)
LEMMA StepKeepsLinks ==
  ASSUME IInv, [Next]_vars, ~relinked', NEW v \in Views
  PROVE  LinkEnds(v)
<1> SUFFICES ASSUME rendererByView[v] # NULL, rendererByView'[v] = NULL
             PROVE  ~LiveView(v)' \/ state'[rendererByView[v]] = "Free"
  BY DEF LinkEnds
<1>1. CASE UNCHANGED rendererByView
  BY <1>1
<1>2. ASSUME NEW w \in Views, NEW r \in Renderers, NEW type, Connect(w, r, type)
      PROVE  FALSE
  <2>1. CASE Connectable(w, type)
    <3>1. rendererByView' = [rendererByView EXCEPT ![w] = r]
      BY <1>2, <2>1 DEF Connect
    <3>2. r # NULL
      BY NullIsNoHost DEF Hosts
    <3> QED BY <3>1, <3>2 DEF IInv, TypeOK
  <2>2. CASE ~Connectable(w, type)
    BY <1>2, <2>2 DEF Connect, linkVars
  <2> QED BY <2>1, <2>2
<1>3. ASSUME NEW h \in Viewers, NEW id \in ViewIds, ownViews[h][id] # NULL,
             DeleteView(ownViews[h][id])
      PROVE  ~LiveView(v)'
  <2> DEFINE w == ownViews[h][id]
  <2>1. w \in Views /\ RegisteredAs(w) = w
    BY <1>3 DEF IInv, TypeOK, ViewTablesAgree, RegisteredAs
  <2>2. view' = [view EXCEPT ![w] = NoView]
    BY <1>3 DEF DeleteView
  <2>3. w = v
    <3>1. CASE rendererByView[w] # NULL
      <4>1. rendererByView[w] \in Renderers /\ Unlink(w, rendererByView[w])
        BY <1>3, <2>1, <3>1 DEF DeleteView, DisconnectView, IInv, TypeOK
      <4> QED BY <2>1, <4>1, UnlinkFacts
    <3>2. CASE rendererByView[w] = NULL
      BY <1>3, <2>1, <3>2 DEF DeleteView, DisconnectView
    <3> QED BY <3>1, <3>2
  <2> QED BY <2>1, <2>2, <2>3 DEF LiveView, NoView, IInv, TypeOK
<1>4. ASSUME NEW r \in Renderers, DeleteRenderer(r), rendererByView' # rendererByView
      PROVE  state'[rendererByView[v]] = "Free"
  <2>1. /\ DisconnectRenderer(r) /\ state' = [state EXCEPT ![r] = "Free"]
        /\ relinked' = relinked
    BY <1>4 DEF DeleteRenderer, Crash, world, linkVars
  <2>2. viewByRenderer[r] # NULL
    BY <1>4, <2>1 DEF DisconnectRenderer
  <2>3. viewByRenderer[r] \in Views /\ Unlink(viewByRenderer[r], r)
    BY <2>1, <2>2 DEF DisconnectRenderer, IInv, TypeOK
  <2>4. viewByRenderer[r] = v
    BY <2>3, UnlinkFacts
  <2>5. rendererByView[v] = r
    BY <2>1, <2>4 DEF IInv, LinksInverse
  <2> QED BY <2>1, <2>5 DEF IInv, TypeOK, Hosts
<1>5. CASE Next
  <2>1. CASE ConnectionStep
    BY <1>1, <2>1 DEF ConnectionStep, linkVars
  <2>3. CASE \E h \in Hosts : IoError(h)
    BY <1>1, <2>3 DEF IoError, Crash, world, linkVars
  <2>4. CASE \E h \in Viewers : ViewerStep(h)
    <3>1. PICK h \in Viewers : ViewerStep(h)
      BY <2>4
    <3>2. ASSUME NEW id \in ViewIds, NEW keep \in BOOLEAN, UnregisterView(h, id, keep)
          PROVE  ~LiveView(v)'
      BY <1>1, <1>3, <3>2 DEF UnregisterView, Crash, world, linkVars
    <3> QED BY <1>1, <3>1, <3>2
        DEF ViewerStep, ViewerInitialize, GotFocus, RegisterView, linkVars
  <2>5. CASE \E r \in Renderers : RendererStep(r)
    <3>1. PICK r \in Renderers : RendererStep(r)
      BY <2>5
    <3>2. ASSUME NEW type \in Types, RendererInitialize(r, type)
          PROVE  FALSE
      <4>1. pendingView[r] \in Views \cup {NULL}
        BY DEF IInv, TypeOK
      <4> QED BY <1>1, <1>2, <3>2, <4>1 DEF RendererInitialize, Crash, world, linkVars
    <3> QED BY <1>1, <3>1, <3>2
        DEF RendererStep, RendererRefused, NewRendererRequested, StatusChange, Crash, world, linkVars
  <2>6. CASE \E c \in Controllers : ControllerStep(c)
    <3>1. PICK c \in Controllers : ControllerStep(c)
      BY <2>6
    <3>2. ASSUME NEW w \in Views, NEW r \in Renderers, ConnectViewToRenderer(c, w, r)
          PROVE  FALSE
      BY <1>1, <1>2, <3>2 DEF ConnectViewToRenderer, Crash, world, linkVars
    <3> QED BY <1>1, <3>1, <3>2
        DEF ControllerStep, ControllerInitialize, SpawnRenderer, ForwardToRenderer, Crash,
            world, linkVars
  <2>7. CASE IdleCallback
    BY <1>1, <1>4, <2>7 DEF IdleCallback, DeleteController, DeleteViewer, linkVars
  <2>8. CASE Destructor
    <3>1. ASSUME NEW id \in ViewIds, DestroyNextView(id)
          PROVE  ~LiveView(v)'
      <4>1. destroying \in Viewers
        BY <3>1 DEF DestroyNextView, IInv, TypeOK
      <4> QED BY <1>1, <1>3, <3>1, <4>1 DEF DestroyNextView, Crash, world, linkVars
    <3> QED BY <1>1, <2>8, <3>1 DEF Destructor, ViewerDestroyed, linkVars
  <2> QED BY <1>5, <2>1, <2>3, <2>4, <2>5, <2>6, <2>7, <2>8 DEF Next
<1>6. CASE UNCHANGED vars
  BY <1>1, <1>6 DEF vars, world, linkVars
<1> QED BY <1>5, <1>6

(* A view loses its renderer only when one of the two is destroyed, until  *)
(* a connect names a side that already has a link: no other step of any    *)
(* client, in any order, ends a link.                                      *)
THEOREM LinksOutliveEverythingElse == Spec => LinkedUntilRelinked
<1>1. IInv /\ [Next]_vars => [~relinked' => \A v \in Views : LinkEnds(v)]_vars
  BY StepKeepsLinks
<1> QED BY <1>1, Inductive, PTL DEF Spec, LinkedUntilRelinked
=============================================================================
