------------------------------- MODULE Daemon -------------------------------
(***************************************************************************)
(* The event loop of the daemon: what each host does with the packages of  *)
(* its client, how the PackageRouter dispatches a controller's commands to *)
(* views and renderers, and how hosts are deleted.  The state of the hosts *)
(* is in HostsManager.tla, that of the views and their links in            *)
(* DisplayManager.tla; the jobs and acknowledgements these handlers also   *)
(* create are in JobManager.tla.                                           *)
(*                                                                         *)
(* A step that dereferences an object that is not there may end the        *)
(* process (fault).  Where the object is a host the build may also survive *)
(* it: the freed memory still holds state Disconnected, so sendPackage     *)
(* returns at once.  Both outcomes are steps.                              *)
(***************************************************************************)
EXTENDS DisplayManager

VARIABLES
  pendingView,   \* RendererHost::viewToConnectTo
  focusedView,   \* HostsManager::focusedView
  statiReceiver, \* PackageRouter::statiReceiver
  destroying     \* the viewer whose destructor is running, or NULL

clientVars == <<pendingView, focusedView, statiReceiver, destroying>>

world == <<hostVars, viewVars, linkVars, regRenderers, rendererType, clientVars>>

vars == <<fault, world>>

(* A handler of h runs: no callback interrupts another one, and once the   *)
(* socket is closed no package of h is read.                               *)
Handling(h) == Running /\ destroying = NULL /\ Allocated(h) /\ ~Closed(h)

Init ==
  /\ Running
  /\ state = [h \in Hosts |-> "Free"]
  /\ hosts = {} /\ scheduled = <<>> /\ unsent = {}
  /\ view = [v \in Views |-> NoView]
  /\ ownViews = [h \in Viewers |-> [i \in ViewIds |-> NULL]]
  /\ regViews = [h \in Viewers |-> [i \in ViewIds |-> NULL]]
  /\ regRenderers = {}
  /\ rendererByView = [v \in Views |-> NULL]
  /\ viewByRenderer = [r \in Renderers |-> NULL]
  /\ rendererType = [r \in Renderers |-> NoType]
  /\ relinked = FALSE
  /\ pendingView = [r \in Renderers |-> NULL]
  /\ focusedView = NULL /\ statiReceiver = {} /\ destroying = NULL

(* The process ends for one of these reasons, if there is one.             *)
Crash(faults) == fault' \in faults /\ UNCHANGED world

-----------------------------------------------------------------------------
(* Connections as such.                                                    *)

ConnectionStep ==
  /\ Running /\ destroying = NULL
  /\ \/ \E h \in Controllers \cup Viewers : Accept(h)
     \/ \E h \in Hosts : ReadEOF(h)
     \/ \E r \in Renderers : WriteDrains(r)
  /\ UNCHANGED <<viewVars, linkVars, regRenderers, rendererType, clientVars>>

(* recv or send fails with an error other than EAGAIN (the peer reset the  *)
(* connection, or closed it before reading what we wrote) and throws.      *)
IoError(h) == Handling(h) /\ Crash({"io error"})

(* HostsManager::createRenderer: fork succeeded and the new RendererHost   *)
(* is registered with both managers.  It remembers v for its initialize.   *)
CreateRenderer(r, v) ==
  /\ ~Allocated(r)
  /\ state' = [state EXCEPT ![r] = "Connected"]
  /\ hosts' = hosts \cup {r}
  /\ regRenderers' = regRenderers \cup {r}
  /\ pendingView' = [pendingView EXCEPT ![r] = v]

NoRenderer == UNCHANGED <<state, hosts, regRenderers, pendingView>>

-----------------------------------------------------------------------------
(* ViewerHost::handlePackage                                               *)

ViewerInitialize(h) ==
  /\ Handling(h) /\ state[h] = "Connected"
  /\ statiReceiver' = statiReceiver \cup {h}
  /\ state' = [state EXCEPT ![h] = "Established"]
  /\ UNCHANGED <<fault, hosts, scheduled, unsent, viewVars, linkVars, regRenderers,
                 rendererType, pendingView, focusedView, destroying>>

(* With create-renderer set a renderer is spawned, if fork(2) succeeds.    *)
RegisterView(h, id, v, type, reassignable) ==
  /\ Handling(h) /\ state[h] = "Established"
  /\ NewView(h, id, v, type, reassignable)
  /\ NoRenderer \/ \E r \in Renderers : CreateRenderer(r, v)
  /\ UNCHANGED <<fault, scheduled, unsent, linkVars, rendererType,
                 focusedView, statiReceiver, destroying>>

(* Without keep-renderer the view's renderer is shut down first, through   *)
(* a pointer that is NULL when the view has none.                          *)
UnregisterView(h, id, keep) ==
  LET v == ownViews[h][id]
      r == rendererByView[v]
  IN  /\ Handling(h) /\ state[h] = "Established" /\ v # NULL
      /\ \/ Crash(DeleteViewFaults(v) \cup (IF keep THEN {} ELSE ShutdownFaults(r)))
         \/ /\ keep \/ r # NULL
            /\ state' = IF keep THEN state ELSE StateAfterShutdown(r)
            /\ unsent' = IF keep /\ r # NULL THEN SentTo({r}) ELSE unsent
            /\ DeleteView(v)
            /\ ownViews' = [ownViews EXCEPT ![h][id] = NULL]
            /\ UNCHANGED <<fault, hosts, scheduled, regRenderers, rendererType, clientVars>>

GotFocus(h, id) ==
  /\ Handling(h) /\ state[h] = "Established" /\ ownViews[h][id] # NULL
  /\ focusedView' = ownViews[h][id]
  /\ UNCHANGED <<fault, hostVars, viewVars, linkVars, regRenderers, rendererType,
                 pendingView, statiReceiver, destroying>>

-----------------------------------------------------------------------------
(* RendererHost::handlePackage                                             *)

(* initialize: take over the display type, connect to the view that asked  *)
(* for this renderer, acknowledge.                                         *)
RendererInitialize(r, type) ==
  LET v == pendingView[r]
  IN  /\ Handling(r) /\ state[r] = "Connected"
      /\ \/ v # NULL /\ Crash(ConnectFaults(v, type))
         \/ /\ IF v = NULL THEN UNCHANGED <<linkVars, view>> ELSE Connect(v, r, type)
            /\ rendererType' = [rendererType EXCEPT ![r] = type]
            /\ pendingView' = [pendingView EXCEPT ![r] = NULL]
            /\ unsent' = SentTo({r})
            /\ state' = [state EXCEPT ![r] = "Established"]
            /\ UNCHANGED <<fault, hosts, scheduled, ownViews, regViews, regRenderers,
                           focusedView, statiReceiver, destroying>>

(* Any other connection-management package is answered "invalid".          *)
RendererRefused(r) ==
  /\ Handling(r)
  /\ unsent' = SentTo({r})
  /\ UNCHANGED <<fault, state, hosts, scheduled, viewVars, linkVars, regRenderers,
                 rendererType, clientVars>>

(* new-renderer-requested: the viewer that shows r is sent create-view.    *)
(* Nothing the daemon keeps changes, but the link is followed.             *)
NewRendererRequested(r) ==
  LET v == viewByRenderer[r]
  IN  /\ Handling(r) /\ state[r] = "Established" /\ v # NULL
      /\ Crash({f \in Faults :
                  \/ f = "freed view" /\ ~LiveView(v)
                  \/ f = "freed host" /\ LiveView(v) /\ ~Allocated(view[v].host)})

(* PackageRouter::deliverStatusChange walks over every receiver it knows,  *)
(* and asks areConnected of each viewer among them.                        *)
StatusChange(r) ==
  LET v == viewByRenderer[r]
  IN  /\ Handling(r) /\ state[r] = "Established"
      /\ Crash({f \in Faults :
                  \/ f = "freed host" /\ \E h \in statiReceiver : ~Allocated(h)
                  \/ f = "freed view" /\ v # NULL /\ ~LiveView(v)
                                      /\ statiReceiver \cap Viewers # {}})

-----------------------------------------------------------------------------
(* ControllerHost::handlePackage and the commands a controller may send.   *)

ControllerInitialize(c, displaysStati) ==
  /\ Handling(c) /\ state[c] = "Connected"
  /\ statiReceiver' = IF displaysStati THEN statiReceiver \cup {c} ELSE statiReceiver
  /\ state' = [state EXCEPT ![c] = "Established"]
  /\ UNCHANGED <<fault, hosts, scheduled, unsent, viewVars, linkVars, regRenderers,
                 rendererType, pendingView, focusedView, destroying>>

Commanding(c) == Handling(c) /\ state[c] = "Established"

SpawnRenderer(c, r) ==
  /\ Commanding(c)
  /\ CreateRenderer(r, NULL)
  /\ UNCHANGED <<fault, scheduled, unsent, viewVars, linkVars, rendererType,
                 focusedView, statiReceiver, destroying>>

(* The views a connect-view-to-renderer can name: those of a viewer that   *)
(* is still registered, and whatever focusedView points to.                *)
NamedViews ==
  {regViews[h][i] : h \in Viewers \cap hosts, i \in ViewIds} \cup {focusedView}

ConnectViewToRenderer(c, v, r) ==
  /\ Commanding(c)
  /\ v \in NamedViews \ {NULL} /\ r \in regRenderers
  /\ \/ Crash(ConnectFaults(v, rendererType[r]))
     \/ /\ Connect(v, r, rendererType[r])
        /\ unsent' = IF Connectable(v, rendererType[r]) THEN SentTo({r}) ELSE unsent
        /\ UNCHANGED <<fault, state, hosts, scheduled, ownViews, regViews, regRenderers,
                       rendererType, clientVars>>

(* A renderer is addressed by its id, or as that of the focused view.      *)
Addressed(r) ==
  r \in hosts \/ (focusedView # NULL /\ rendererByView[focusedView] = r)

(* open-uri, reload-page, go-back, go-forward, search-in-page.             *)
ForwardToRenderer(c, r) ==
  /\ Commanding(c)
  /\ Addressed(r)
  /\ \/ Crash({f \in Faults : f = "freed host" /\ ~Allocated(r)})
     \/ /\ unsent' = SentTo({r})
        /\ UNCHANGED <<fault, state, hosts, scheduled, viewVars, linkVars, regRenderers,
                       rendererType, clientVars>>

-----------------------------------------------------------------------------
(* HostsManager::idleCallback deletes the front of the queue if it is      *)
(* still Disconnected.                                                     *)

(* Mutant of Deletable: waits for the half-closed state.                   *)
DeletableDisconnecting(h) ==
  /\ Running /\ destroying = NULL
  /\ scheduled # <<>> /\ Head(scheduled) = h /\ state[h] = "Disconnecting"

Deletable(h) ==
  /\ Running /\ destroying = NULL
  /\ scheduled # <<>> /\ Head(scheduled) = h /\ state[h] = "Disconnected"

DeleteController(h) ==
  /\ Deletable(h)
  /\ scheduled' = Tail(scheduled)
  /\ state' = [state EXCEPT ![h] = "Free"]
  /\ UNCHANGED <<fault, hosts, unsent, viewVars, linkVars, regRenderers, rendererType,
                 clientVars>>

(* RendererHost::~RendererHost unregisters and so unlinks the renderer.    *)
DeleteRenderer(r) ==
  /\ Deletable(r)
  /\ \/ Crash(DisconnectRendererFaults(r))
     \/ /\ viewByRenderer[r] # NULL => LiveView(viewByRenderer[r])
        /\ DisconnectRenderer(r)
        /\ regRenderers' = regRenderers \ {r}
        /\ scheduled' = Tail(scheduled)
        /\ state' = [state EXCEPT ![r] = "Free"]
        /\ unsent' = unsent \ {r}
        /\ rendererType' = [rendererType EXCEPT ![r] = NoType]
        /\ pendingView' = [pendingView EXCEPT ![r] = NULL]
        /\ UNCHANGED <<fault, hosts, viewVars, relinked, focusedView, statiReceiver, destroying>>

(* ViewerHost::~ViewerHost is a loop over the views; its iterations are    *)
(* steps, and nothing else happens until it has ended.                     *)
DeleteViewer(h) ==
  /\ Deletable(h)
  /\ scheduled' = Tail(scheduled)
  /\ destroying' = h
  /\ UNCHANGED <<fault, state, hosts, unsent, viewVars, linkVars, regRenderers,
                 rendererType, pendingView, focusedView, statiReceiver>>

DestroyNextView(id) ==
  LET h == destroying
      v == ownViews[h][id]
      r == rendererByView[v]
  IN  /\ Running /\ h # NULL /\ v # NULL
      /\ \/ Crash(DeleteViewFaults(v) \cup (IF r = NULL THEN {} ELSE ShutdownFaults(r)))
         \/ /\ state' = StateAfterShutdown(r)
            /\ DeleteView(v)
            /\ ownViews' = [ownViews EXCEPT ![h][id] = NULL]
            /\ UNCHANGED <<fault, hosts, scheduled, unsent, regRenderers, rendererType,
                           clientVars>>

ViewerDestroyed ==
  /\ Running /\ destroying # NULL
  /\ \A id \in ViewIds : ownViews[destroying][id] = NULL
  /\ state' = [state EXCEPT ![destroying] = "Free"]
  /\ destroying' = NULL
  /\ UNCHANGED <<fault, hosts, scheduled, unsent, viewVars, linkVars, regRenderers,
                 rendererType, pendingView, focusedView, statiReceiver>>

IdleCallback ==
  \/ \E h \in Controllers : DeleteController(h)
  \/ \E r \in Renderers : DeleteRenderer(r)
  \/ \E h \in Viewers : DeleteViewer(h)

Destructor == ViewerDestroyed \/ \E id \in ViewIds : DestroyNextView(id)

-----------------------------------------------------------------------------
ViewerStep(h) ==
  \/ ViewerInitialize(h)
  \/ \E id \in ViewIds :
       \/ GotFocus(h, id)
       \/ \E keep \in BOOLEAN : UnregisterView(h, id, keep)
       \/ \E v \in Views, type \in Types, reassignable \in BOOLEAN :
            RegisterView(h, id, v, type, reassignable)

RendererStep(r) ==
  \/ \E type \in Types : RendererInitialize(r, type)
  \/ RendererRefused(r) \/ NewRendererRequested(r) \/ StatusChange(r)

ControllerStep(c) ==
  \/ \E displaysStati \in BOOLEAN : ControllerInitialize(c, displaysStati)
  \/ \E r \in Renderers :
       \/ SpawnRenderer(c, r) \/ ForwardToRenderer(c, r)
       \/ \E v \in Views : ConnectViewToRenderer(c, v, r)

Next ==
  \/ ConnectionStep
  \/ \E h \in Hosts : IoError(h)
  \/ \E h \in Viewers : ViewerStep(h)
  \/ \E r \in Renderers : RendererStep(r)
  \/ \E c \in Controllers : ControllerStep(c)
  \/ IdleCallback
  \/ Destructor

Spec == Init /\ [][Next]_vars

(* Idle watchers run in every iteration of the loop that finds nothing     *)
(* else to do, and a destructor that has begun runs to its end.            *)
FairSpec == Spec /\ WF_vars(IdleCallback) /\ WF_vars(Destructor)

-----------------------------------------------------------------------------
TypeOK ==
  /\ state \in [Hosts -> ConnectionStates \cup {"Free"}]
  /\ hosts \subseteq Hosts /\ scheduled \in Seq(Hosts) /\ unsent \subseteq Renderers
  /\ fault \in Faults \cup {"none"}
  /\ view \in [Views -> ViewObjects]
  /\ ownViews \in [Viewers -> [ViewIds -> Views \cup {NULL}]]
  /\ regViews \in [Viewers -> [ViewIds -> Views \cup {NULL}]]
  /\ regRenderers \subseteq Renderers
  /\ rendererByView \in [Views -> Renderers \cup {NULL}]
  /\ viewByRenderer \in [Renderers -> Views \cup {NULL}]
  /\ rendererType \in [Renderers -> Types]
  /\ relinked \in BOOLEAN
  /\ pendingView \in [Renderers -> Views \cup {NULL}]
  /\ focusedView \in Views \cup {NULL}
  /\ statiReceiver \subseteq Controllers \cup Viewers
  /\ destroying \in Viewers \cup {NULL}

(* The three registries agree with what is allocated: an id resolves to a  *)
(* host as long as its socket is open, a host whose socket was closed      *)
(* waits exactly once for deletion and can never send again, and the       *)
(* DisplayManager knows exactly the renderers that have not been deleted.  *)
(* (scheduleHostForDeletion, idleCallback, ~RendererHost)                  *)
RegistriesAgree ==
  /\ hosts = {h \in Hosts : Allocated(h) /\ ~Closed(h) /\ h # destroying}
  /\ \A i, j \in DOMAIN scheduled : scheduled[i] = scheduled[j] => i = j
  /\ \A h \in Hosts : Closed(h) => state[h] \in {"Disconnecting", "Disconnected"}
  /\ regRenderers = {r \in Renderers : Allocated(r)}

(* The table of a viewer and the DisplayManager's table name the same View *)
(* for every view-id, it is alive, and it is that viewer's: also with      *)
(* duplicate ids, after unregister-view, and while the viewer is being     *)
(* destroyed.  (View::View, View::~View, ViewerHost::handlePackage)        *)
ViewTablesAgree ==
  \A h \in Viewers, id \in ViewIds :
    /\ ownViews[h][id] = regViews[h][id]
    /\ ownViews[h][id] # NULL =>
         /\ view[ownViews[h][id]].host = h
         /\ view[ownViews[h][id]].id = id
         /\ Allocated(h)

(* Only live objects are keys of the two link maps, so that looking up a   *)
(* dangling focusedView finds nothing; and a linked view is assigned.      *)
(* (DisplayManager::connect, disconnect and both unregister functions)     *)
LinkKeysLive ==
  /\ \A v \in Views : rendererByView[v] # NULL => LiveView(v) /\ view[v].assigned
  /\ \A r \in Renderers : viewByRenderer[r] # NULL => Allocated(r)

(* As long as no connect named a view or a renderer that had a link, the   *)
(* two maps are inverse to each other.  (DisplayManager::connect erases a  *)
(* side's own entry, never the entry its old partner holds.)               *)
LinksInverse ==
  ~relinked =>
    \A v \in Views, r \in Renderers : rendererByView[v] = r <=> viewByRenderer[r] = v

(* ... and then no link leads to a deleted object, whatever the order in   *)
(* which viewers, views and renderers come and go.                         *)
NoDanglingLink ==
  ~relinked =>
    /\ \A v \in Views : rendererByView[v] # NULL => Allocated(rendererByView[v])
    /\ \A r \in Renderers : viewByRenderer[r] # NULL => LiveView(viewByRenderer[r])

(* A step that takes a view's link away destroys the view or the renderer  *)
(* it was linked to.                                                       *)
LinkEnds(v) ==
  rendererByView[v] # NULL /\ rendererByView'[v] = NULL
    => \/ ~LiveView(v)'
       \/ state'[rendererByView[v]] = "Free"

(* net-spec.yml on connect-view-to-renderer: "Hooks up a view to a         *)
(* renderer, so that the renderers results are shown in the view and can   *)
(* be controlled".  A hooked up pair stays so while both sides exist.      *)
LinkedWhileBothExist == [][\A v \in Views : LinkEnds(v)]_vars

(* That holds until the first connect that names a linked side.            *)
LinkedUntilRelinked == [][~relinked' => \A v \in Views : LinkEnds(v)]_vars

(* macros.h on ServerStateRunning: "no crashing is alowed".  Every object  *)
(* a handler follows a pointer to exists: the renderer of a view, the view *)
(* a renderer was made for, the receivers of status changes.               *)
ObjectsExist == fault \notin {"null renderer", "freed view", "freed host"}

(* The same sentence, on sockets: shutdown(2) is not called on a closed    *)
(* descriptor, which throws.  (AbstractHost::shutdownSocket)               *)
NoShutdownOfClosedSocket == fault # "shutdown of a closed socket"

(* A host whose socket was closed is deleted, unless the process ends or   *)
(* the head of the queue was told to shut down after it was closed, which  *)
(* takes it out of the state idleCallback waits for.                       *)
(* (HostsManager::scheduleHostForDeletion, idleCallback)                   *)
QueueBlocked == scheduled # <<>> /\ state[Head(scheduled)] # "Disconnected"

ClosedHostsAreDeleted ==
  \A h \in Hosts : Closed(h) ~> (~Closed(h) /\ destroying = NULL) \/ QueueBlocked \/ ~Running
=============================================================================
