--------------------------- MODULE DisplayManager ---------------------------
(***************************************************************************)
(* The View objects and the DisplayManager that links them to renderers:   *)
(* daemon/src/view.cpp, daemon/src/display_manager.cpp, and the view table *)
(* every ViewerHost keeps (daemon/src/viewer_host.cpp).                    *)
(*                                                                         *)
(* The DisplayManager keeps each link twice, in rendererByView and in      *)
(* viewByRenderer, as raw pointers.  Connect and Unlink below are          *)
(* DisplayManager::connect and DisplayManager::disconnect with the erases  *)
(* the code performs and no others.                                        *)
(***************************************************************************)
EXTENDS HostsManager

CONSTANTS
  Views,      \* addresses of View objects
  ViewIds,    \* view-id values, chosen by the viewers
  Types,      \* display-information-type values
  NoType      \* the type of a renderer that has not sent one: ""

ASSUME NullIsNoView == NULL \notin Views /\ NULL \notin ViewIds
ASSUME NoTypeIsType == NoType \in Types

VARIABLES
  view,            \* the View object at an address; host NULL: no object
  ownViews,        \* ViewerHost::views of each viewer
  regViews,        \* DisplayManager::views, by viewer and view-id
  regRenderers,    \* DisplayManager::renderers
  rendererByView,  \* DisplayManager::rendererByView, NULL: no entry
  viewByRenderer,  \* DisplayManager::viewByRenderer, NULL: no entry
  rendererType,    \* RendererHost::displayInformationType
  relinked         \* history: some connect named a side that had a link

viewVars == <<view, ownViews, regViews>>
linkVars == <<rendererByView, viewByRenderer, relinked>>

ViewObjects ==
  [host : Viewers \cup {NULL}, id : ViewIds \cup {NULL}, type : Types,
   reassignable : BOOLEAN, assigned : BOOLEAN]

NoView == [host |-> NULL, id |-> NULL, type |-> NoType,
           reassignable |-> FALSE, assigned |-> FALSE]

LiveView(v) == view[v].host # NULL

-----------------------------------------------------------------------------
(* View::View and registration in both tables: std::map::insert keeps an   *)
(* entry that is already there, so a second view with the same id exists   *)
(* but is in neither table.                                                *)

InsertView(table, h, id, v) ==
  IF table[h][id] = NULL THEN [table EXCEPT ![h][id] = v] ELSE table

NewView(h, id, v, type, reassignable) ==
  /\ ~LiveView(v)
  /\ view' = [view EXCEPT ![v] = [host |-> h, id |-> id, type |-> type,
                                  reassignable |-> reassignable,
                                  assigned |-> FALSE]]
  /\ regViews' = InsertView(regViews, h, id, v)
  /\ ownViews' = InsertView(ownViews, h, id, v)

-----------------------------------------------------------------------------
(* Mutant of Unlink: only viewByRenderer is cleared.                       *)
UnlinkRendererOnly(v, r) ==
  /\ viewByRenderer' = [q \in Renderers |-> IF q = r THEN NULL ELSE viewByRenderer[q]]
  /\ UNCHANGED rendererByView

(* DisplayManager::disconnect(v, r): one erase in each map, then a package *)
(* to v's viewer and one to r.                                             *)

Unlink(v, r) ==
  /\ rendererByView' = [w \in Views |-> IF w = v THEN NULL ELSE rendererByView[w]]
  /\ viewByRenderer' = [q \in Renderers |-> IF q = r THEN NULL ELSE viewByRenderer[q]]

UnlinkFaults(v, r) ==
  {f \in Faults :
     \/ f = "freed view" /\ ~LiveView(v)
     \/ f = "freed host" /\ ~Allocated(r)
     \/ f = "freed host" /\ LiveView(v) /\ ~Allocated(view[v].host)}

(* disconnectView and disconnectRenderer: nothing without a map entry.     *)
DisconnectView(v) ==
  IF rendererByView[v] # NULL
  THEN Unlink(v, rendererByView[v])
  ELSE UNCHANGED <<rendererByView, viewByRenderer>>

DisconnectViewFaults(v) ==
  IF rendererByView[v] # NULL THEN UnlinkFaults(v, rendererByView[v]) ELSE {}

(* Mutant of DisconnectRenderer: ~RendererHost forgets to unlink.          *)
DisconnectRendererNever(r) == UNCHANGED <<rendererByView, viewByRenderer>>

DisconnectRenderer(r) ==
  IF viewByRenderer[r] # NULL
  THEN Unlink(viewByRenderer[r], r)
  ELSE UNCHANGED <<rendererByView, viewByRenderer>>

DisconnectRendererFaults(r) ==
  IF viewByRenderer[r] # NULL THEN UnlinkFaults(viewByRenderer[r], r) ELSE {}

(* View::~View.  unregisterView looks the object up by id and host, and    *)
(* disconnects and forgets what it finds there.                            *)
RegisteredAs(v) == regViews[view[v].host][view[v].id]

DeleteViewFaults(v) ==
  IF RegisteredAs(v) # NULL THEN DisconnectViewFaults(RegisteredAs(v)) ELSE {}

(* Mutant of DeleteView: the view stays in DisplayManager::views.          *)
DeleteViewKeepsEntry(v) ==
  /\ IF RegisteredAs(v) # NULL
     THEN DisconnectView(RegisteredAs(v))
     ELSE UNCHANGED <<rendererByView, viewByRenderer>>
  /\ view' = [view EXCEPT ![v] = NoView]
  /\ UNCHANGED <<regViews, relinked>>

DeleteView(v) ==
  /\ IF RegisteredAs(v) # NULL
     THEN DisconnectView(RegisteredAs(v))
     ELSE UNCHANGED <<rendererByView, viewByRenderer>>
  /\ regViews' = [regViews EXCEPT ![view[v].host][view[v].id] = NULL]
  /\ view' = [view EXCEPT ![v] = NoView]
  /\ UNCHANGED relinked

-----------------------------------------------------------------------------
(* DisplayManager::connect(v, r), r being of this type.  It returns        *)
(* without a word when the display types differ or v is taken and not      *)
(* reassignable.  Otherwise it erases v's and r's own entries, but not the *)
(* reciprocal ones their old partners hold, and enters the new pair in     *)
(* both maps.                                                              *)

Connectable(v, type) ==
  /\ view[v].type = type
  /\ view[v].assigned => view[v].reassignable

ConnectFaults(v, type) ==
  {f \in Faults :
     \/ f = "freed view" /\ ~LiveView(v)
     \/ f = "freed host" /\ LiveView(v) /\ Connectable(v, type) /\ ~Allocated(view[v].host)}

(* Mutant of Connect: the pair is entered in one of the two maps only.     *)
ConnectOneWay(v, r, type) ==
  /\ LiveView(v)
  /\ IF Connectable(v, type)
     THEN /\ rendererByView' = [rendererByView EXCEPT ![v] = r]
          /\ view' = [view EXCEPT ![v].assigned = TRUE]
          /\ relinked' = (relinked \/ rendererByView[v] # NULL \/ viewByRenderer[r] # NULL)
          /\ UNCHANGED viewByRenderer
     ELSE UNCHANGED <<linkVars, view>>

(* Mutant of Connect: the old entries are erased before the types and the  *)
(* reassignability are looked at.                                          *)
ConnectErasingFirst(v, r, type) ==
  /\ LiveView(v)
  /\ IF Connectable(v, type)
     THEN /\ rendererByView' = [rendererByView EXCEPT ![v] = r]
          /\ viewByRenderer' = [viewByRenderer EXCEPT ![r] = v]
          /\ view' = [view EXCEPT ![v].assigned = TRUE]
          /\ relinked' = (relinked \/ rendererByView[v] # NULL \/ viewByRenderer[r] # NULL)
     ELSE /\ rendererByView' = [rendererByView EXCEPT ![v] = NULL]
          /\ viewByRenderer' = [viewByRenderer EXCEPT ![r] = NULL]
          /\ UNCHANGED <<relinked, view>>

Connect(v, r, type) ==
  /\ LiveView(v)
  /\ IF Connectable(v, type)
     THEN /\ rendererByView' = [rendererByView EXCEPT ![v] = r]
          /\ viewByRenderer' = [viewByRenderer EXCEPT ![r] = v]
          /\ view' = [view EXCEPT ![v].assigned = TRUE]
          /\ relinked' = (relinked \/ rendererByView[v] # NULL \/ viewByRenderer[r] # NULL)
     ELSE UNCHANGED <<linkVars, view>>
=============================================================================
