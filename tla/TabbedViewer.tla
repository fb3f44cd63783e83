---------------------------- MODULE TabbedViewer ----------------------------
(* The tabbed viewer (viewers/tabbed-gtk-viewer/src/viewer_controller.cpp):*)
(* a client with one tab for each of its views, and the daemon as far as a *)
(* viewer sees it.                                                         *)
(*                                                                         *)
(* A tab is a GtkSocket, at an address; a closed tab is freed, but stays   *)
(* in both tables of the viewer.  Views are numbered.  `tabs` is the       *)
(* notebook, from left to right, `page` its current page (0: none).        *)
(*                                                                         *)
(* Abstracted: what is shown; hotkeys that only move the focus.            *)
EXTENDS ClientController, FiniteSets, SequencesExt

CONSTANTS
  Sockets,       \* addresses of GtkSockets, numbered as they are first used
  Renderers,     \* ids
  NoView,
  MaxViews,      \* bound: views that are created
  MaxEvents      \* bound: what the user does to tabs, and packages that the
                 \* daemon sends on its own

ASSUME SocketsAreNumbered == Sockets \subseteq Nat
ASSUME NoViewIsNoNumber == NoView \notin Nat
ASSUME BoundsAreNat == {MaxViews, MaxEvents} \subseteq Nat

VARIABLES
  initialised,
  tabs, page,
  socketByID,      \* view -> socket
  idBySocket,      \* socket -> view
  viewByRenderer,  \* renderer -> view
  nextViewID,
  events,          \* how much the user has done, and the daemon sent
  known,           \* what the daemon knows: [views, focus]
  reused           \* history: a tab got the address of a closed one

tables == <<socketByID, idBySocket, viewByRenderer, nextViewID>>
tabVars == <<initialised, tabs, page, tables>>
vars == <<clientVars, tabVars, events, known, reused>>

Happens == events < MaxEvents /\ events' = events + 1

Package(command, view, renderer) == [command |-> command, view |-> view, renderer |-> renderer]
Own(command, view) == Package(command, view, NoView)

Init ==
  /\ ClientInit(<<Own("initialize", NoView)>>)
  /\ initialised = FALSE
  /\ tabs = <<>> /\ page = 0
  /\ socketByID = [v \in {} |-> NoView]
  /\ idBySocket = [s \in {} |-> NoView]
  /\ viewByRenderer = [r \in {} |-> NoView]
  /\ nextViewID = 0
  /\ events = 0
  /\ known = [views |-> {}, focus |-> NoView]
  /\ reused = FALSE

Put(f, x, y) == [z \in DOMAIN f \cup {x} |-> IF z = x THEN y ELSE f[z]]
Drop(f, x) == [z \in DOMAIN f \ {x} |-> f[z]]

Open == {tabs[i] : i \in DOMAIN tabs}
-----------------------------------------------------------------------------
(* Handlers: each leaves packages to be pushed.                            *)

(* updateFocusInfo of a tab.                                               *)
GotFocus(s, ids) == IF s \in DOMAIN ids THEN <<Own("got-focus", ids[s])>> ELSE <<>>

(* map::insert keeps an entry that is there already.                       *)
NewId(s) == IF s \in DOMAIN idBySocket THEN idBySocket ELSE Put(idBySocket, s, nextViewID)

(* Mutant: the focus is left to the switch of the page.                    *)
NewTabUnfocused(s) ==
  GotFocus(s, idBySocket) \o <<Own("register-view", nextViewID)>>

(* The packages of createNewTab.  Appending the tab switches to it, which  *)
(* reports the focus before the tab has an id.                             *)
NewTabPackages(s) ==
  GotFocus(s, idBySocket) \o <<Own("register-view", nextViewID)>> \o GotFocus(s, NewId(s))

Creatable(s) ==
  /\ nextViewID < MaxViews
  /\ s \in Sockets \ Open
  /\ \A t \in Sockets : t < s => t \in DOMAIN idBySocket

(* createNewTab: the new tab becomes the current one.                      *)
CreateNewTab(s) ==
  /\ Creatable(s)
  /\ tabs' = Append(tabs, s)
  /\ page' = Len(tabs) + 1
  /\ socketByID' = Put(socketByID, nextViewID, s)
  /\ idBySocket' = NewId(s)
  /\ reused' = (reused \/ s \in DOMAIN idBySocket)
  /\ nextViewID' = nextViewID + 1
  /\ UNCHANGED <<viewByRenderer, known>>

NewTab(s) ==
  /\ initialised /\ Happens
  /\ CreateNewTab(s)
  /\ UserAction(NewTabPackages(s))
  /\ UNCHANGED <<initialised, fault>>

(* closeTab of the current tab: the view it is known by is unregistered    *)
(* and the tab freed.  The notebook switches to the next tab, or the one   *)
(* before, which reports the focus.  The list of arguments for the package *)
(* has no end: what follows on the stack is read.                          *)
PageAfterClose == IF page < Len(tabs) THEN page ELSE page - 1

ClosePackages(rest) ==
  <<Own("unregister-view", idBySocket[tabs[page]])>>
    \o (IF rest = <<>> THEN <<>> ELSE GotFocus(rest[PageAfterClose], idBySocket))

CloseTab ==
  /\ page # 0 /\ Happens
  /\ tabs' = RemoveAt(tabs, page)
  /\ page' = PageAfterClose
  /\ UserAction(ClosePackages(tabs'))
  /\ fault' \in {fault, "no sentinel"}
  /\ UNCHANGED <<initialised, tables, known, reused>>

SwitchPage(i) ==
  /\ page # i /\ Happens
  /\ page' = i
  /\ UserAction(GotFocus(tabs[i], idBySocket))
  /\ UNCHANGED <<initialised, tabs, tables, known, fault, reused>>

DestroyWindow ==
  CloseServerConnection /\ UNCHANGED <<tabVars, events, known, reused>>

(* handlePackage.                                                          *)
Command == Head(receivedPackages).command
View == Head(receivedPackages).view
Renderer == Head(receivedPackages).renderer

Ack == <<Own("ack", NoView)>>

Initialised(s) ==
  /\ Command = "ack" /\ ~initialised
  /\ CreateNewTab(s)
  /\ PopPackage(NewTabPackages(s))
  /\ initialised' = TRUE
  /\ UNCHANGED <<events, fault>>

OtherAck ==
  /\ Command = "ack" /\ initialised
  /\ PopPackage(<<>>)
  /\ UNCHANGED <<tabVars, events, known, fault, reused>>

(* The viewer follows a pointer from socketByID: to a tab, or to freed     *)
(* memory, which may end the process, or be taken for no socket.           *)
Found(v) == v \in DOMAIN socketByID
IsTab(v) == Found(v) /\ socketByID[v] \in Open

FollowsPointer(v) == fault' \in IF Found(v) /\ ~IsTab(v) THEN {fault, "freed tab"} ELSE {fault}

ConnectToRenderer ==
  /\ Command = "connect-to-renderer"
  /\ PopPackage(Ack)
  /\ FollowsPointer(View)
  /\ viewByRenderer' = IF IsTab(View) THEN Put(viewByRenderer, Renderer, View) ELSE viewByRenderer
  /\ UNCHANGED <<initialised, tabs, page, socketByID, idBySocket, nextViewID, events,
                 known, reused>>

DisconnectFromRenderer ==
  /\ Command = "disconnect-from-renderer"
  /\ PopPackage(Ack)
  /\ FollowsPointer(View)
  /\ viewByRenderer' = IF Found(View) THEN Drop(viewByRenderer, Renderer) ELSE viewByRenderer
  /\ UNCHANGED <<initialised, tabs, page, socketByID, idBySocket, nextViewID, events,
                 known, reused>>

CreateView(s) ==
  /\ Command = "create-view"
  /\ CreateNewTab(s)
  /\ PopPackage(NewTabPackages(s) \o Ack)
  /\ UNCHANGED <<initialised, events, fault>>

(* No tab: the bounds are reached.                                         *)
CreateNoView ==
  /\ Command = "create-view"
  /\ \A s \in Sockets : ~Creatable(s)
  /\ PopPackage(Ack)
  /\ UNCHANGED <<tabVars, events, known, fault, reused>>

HandleStatusChange ==
  /\ Command = "status-change"
  /\ PopPackage(<<>>)
  /\ IF Renderer \in DOMAIN viewByRenderer
     THEN FollowsPointer(viewByRenderer[Renderer])
     ELSE UNCHANGED fault
  /\ UNCHANGED <<tabVars, events, known, reused>>

HandlePackage ==
  /\ receivedPackages # <<>>
  /\ \/ \E s \in Sockets : Initialised(s) \/ CreateView(s)
     \/ CreateNoView
     \/ OtherAck
     \/ ConnectToRenderer
     \/ DisconnectFromRenderer
     \/ HandleStatusChange
-----------------------------------------------------------------------------
(* The daemon, as far as a viewer sees it.                                 *)

(* What it knows when it has handled a package: the focus goes to a view   *)
(* it knows only, and stays there.                                         *)
Told(daemon, p) ==
  CASE p.command = "register-view" -> [daemon EXCEPT !.views = @ \cup {p.view}]
    [] p.command = "unregister-view" -> [daemon EXCEPT !.views = @ \ {p.view}]
    [] p.command = "got-focus" /\ p.view \in daemon.views -> [daemon EXCEPT !.focus = p.view]
    [] OTHER -> daemon

(* ... and several, one after the other.                                   *)
KnownAfter(daemon, packages) ==
  LET knows[i \in 0..Len(packages)] == IF i = 0 THEN daemon ELSE Told(knows[i - 1], packages[i])
  IN knows[Len(packages)]

IsAcknowledged(p) ==
  \/ p.command \in {"initialize", "register-view"}
  \/ p.command = "unregister-view" /\ p.view \in known.views

DaemonReads ==
  /\ daemonOpen /\ sent # <<>>
  /\ sent' = Tail(sent)
  /\ known' = Told(known, Head(sent))
  /\ inbox' = IF IsAcknowledged(Head(sent)) THEN inbox \o Ack ELSE inbox
  /\ UNCHANGED <<serverConnection, queues, signals, places, connection, daemonOpen, fault,
                 tabVars, events, reused>>

Send(p) == inbox' = Append(inbox, p)

(* It connects and disconnects views it knows, asks for views, and passes  *)
(* on what renderers report.                                               *)
DaemonSends ==
  /\ daemonOpen
  /\ Happens
  /\ \/ \E v \in known.views, r \in Renderers :
          \/ Send(Package("connect-to-renderer", v, r))
          \/ Send(Package("disconnect-from-renderer", v, r))
     \/ known.views # {} /\ Send(Own("create-view", NoView))
     \/ \E r \in Renderers : Send(Package("status-change", NoView, r))
  /\ UNCHANGED <<serverConnection, queues, signals, places, connection, sent, daemonOpen, fault,
                 tabVars, known, reused>>

DaemonCloses ==
  /\ daemonOpen
  /\ daemonOpen' = FALSE
  /\ UNCHANGED <<serverConnection, queues, signals, places, connection, sent, inbox, fault,
                 tabVars, events, known, reused>>
-----------------------------------------------------------------------------
User ==
  \/ \E s \in Sockets : NewTab(s)
  \/ CloseTab
  \/ \E i \in DOMAIN tabs : SwitchPage(i)
  \/ DestroyWindow

UI == HandlePackage \/ (UIThread /\ UNCHANGED <<tabVars, events, known, reused>>)

Thread == ConnectionThread /\ UNCHANGED <<tabVars, events, known, reused>>

Next == Running /\ (User \/ UI \/ Thread \/ DaemonReads \/ DaemonSends \/ DaemonCloses)

Spec == Init /\ [][Next]_vars
FairSpec == Spec /\ WF_vars(Running /\ UI) /\ WF_vars(Running /\ Thread)
-----------------------------------------------------------------------------
(* Properties.                                                             *)

(* As long as no tab has the address of a closed one and both ends are     *)
(* connected: when the daemon has read everything that is on its way,      *)
(* through both queues and the stream, it knows just the views that have a *)
(* tab (createNewTab, closeTab) ...                                        *)
OnTheWay == sent \o toSendPackages \o outbox

Connected == Running /\ connection = "Connected" /\ signalSocket = "open"

RegistryFollowsTabs ==
  Connected /\ ~reused =>
    KnownAfter(known, OnTheWay).views = {idBySocket[s] : s \in Open}

(* ... and sends the user's input to the current one (updateFocusInfo).    *)
FocusFollowsPage ==
  Connected /\ ~reused /\ page # 0 =>
    KnownAfter(known, OnTheWay).focus = idBySocket[tabs[page]]

(* A viewer whose daemon is gone ends (socketClosed, signalSocketClosed).  *)
ViewerEnds == ~daemonOpen ~> ~Running
=============================================================================
