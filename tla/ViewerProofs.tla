---------------------------- MODULE ViewerProofs ----------------------------
(***************************************************************************)
(* Proof that no package is forgotten in the two queues between the        *)
(* threads of a viewer, and that what arrives makes the daemon know the    *)
(* viewer's tabs and focus, for any number of tabs, renderers and packages.*)
(***************************************************************************)
EXTENDS TabbedViewer, FiniteSetTheorems, SequenceTheorems, TLAPS

TypeOK ==
  /\ toThread \in Nat /\ toUI \in Nat
  /\ uiAt \in {"idle", "popping", "signal", "signal, popping", "quit"}
  /\ threadAt \in {"starting", "loop", "signal", "drain"}
  /\ signalSocket \in {"open", "closed"} /\ threadSocket \in {"open", "shut", "closed"}

SendingSignalled ==
  toSendPackages # <<>> =>
    toThread > 0 \/ uiAt \in {"signal", "signal, popping"} \/ threadAt = "drain"

ReceivingSignalled ==
  receivedPackages # <<>> /\ signalSocket = "open" =>
    toUI > 0 \/ uiAt \in {"popping", "signal, popping"} \/ threadAt = "signal"

(* The thread can write its signals as long as it has something to report, *)
(* unless the user interface has closed its end.                           *)
SocketsInv ==
  /\ threadSocket = "closed" => signalSocket = "closed"
  /\ threadSocket = "shut" => connection = "Disconnected" /\ threadAt # "signal"

(* The inductive invariant.                                                *)
IInv == TypeOK /\ SendingSignalled /\ ReceivingSignalled /\ SocketsInv

(* All that it depends on.                                                 *)
seen == <<toSendPackages, receivedPackages, signals, places, connection>>

-----------------------------------------------------------------------------
LEMMA InitIInv == Init => IInv
BY DEF Init, ClientInit, IInv, TypeOK, SendingSignalled, ReceivingSignalled, SocketsInv

LEMMA UnseenKeepsIInv ==
  ASSUME IInv, UNCHANGED seen
  PROVE  IInv'
BY DEF IInv, TypeOK, SendingSignalled, ReceivingSignalled, SocketsInv, seen, signals, places

(* What is popped is popped by a thread that goes on popping.              *)
LEMMA PoppingKeepsIInv ==
  ASSUME IInv, NEW more, PopPackage(more)
  PROVE  IInv'
BY DEF IInv, TypeOK, SendingSignalled, ReceivingSignalled, SocketsInv, PopPackage, signals, places, stream

LEMMA UserActionKeepsIInv ==
  ASSUME IInv, NEW more, UserAction(more)
  PROVE  IInv'
BY UnseenKeepsIInv DEF UserAction, seen, signals, places, stream

LEMMA ClosingKeepsIInv ==
  ASSUME IInv, CloseServerConnection
  PROVE  IInv'
BY DEF IInv, TypeOK, SendingSignalled, ReceivingSignalled, SocketsInv, CloseServerConnection, queues, stream

LEMMA UIThreadKeepsIInv ==
  ASSUME IInv, UIThread
  PROVE  IInv'
<1>1. CASE PushPackage
  BY <1>1 DEF IInv, TypeOK, SendingSignalled, ReceivingSignalled, SocketsInv, PushPackage, signals, stream
<1>2. CASE SendSignal
  <2>1. toThread' \in Nat /\ toThread' > 0
    <3>1. toThread \in Nat
      BY DEF IInv, TypeOK
    <3>2. toThread' = toThread + 1
      BY <1>2 DEF SendSignal
    <3> QED BY <3>1, <3>2
  <2>2. TypeOK'
    BY <1>2, <2>1 DEF IInv, TypeOK, SendSignal
  <2>3. SendingSignalled'
    BY <2>1 DEF SendingSignalled
  <2>4. ReceivingSignalled'
    <3>1. CASE uiAt = "signal"
      BY <1>2, <3>1 DEF IInv, ReceivingSignalled, SendSignal, queues
    <3>2. CASE uiAt = "signal, popping"
      BY <1>2, <3>2 DEF ReceivingSignalled, SendSignal
    <3> QED BY <1>2, <3>1, <3>2 DEF SendSignal
  <2>5. SocketsInv'
    BY <1>2 DEF IInv, SocketsInv, SendSignal, stream
  <2> QED BY <2>2, <2>3, <2>4, <2>5 DEF IInv
<1>3. CASE SignalCallback
  BY <1>3 DEF IInv, TypeOK, SendingSignalled, ReceivingSignalled, SocketsInv, SignalCallback, queues, stream
<1>4. CASE NoMorePackages
  BY <1>4 DEF IInv, TypeOK, SendingSignalled, ReceivingSignalled, SocketsInv, NoMorePackages,
              queues, signals, stream
<1>5. CASE SignalSocketClosed
  BY <1>5, ClosingKeepsIInv DEF SignalSocketClosed
<1>6. CASE ProcessEnds
  BY <1>6, UnseenKeepsIInv DEF ProcessEnds, seen, queues, stream
<1> QED BY <1>1, <1>2, <1>3, <1>4, <1>5, <1>6 DEF UIThread

LEMMA ThreadKeepsIInv ==
  ASSUME IInv, ConnectionThread
  PROVE  IInv'
<1>1. CASE StartServerConnection
  BY <1>1 DEF IInv, TypeOK, SendingSignalled, ReceivingSignalled, SocketsInv, StartServerConnection,
              queues, signals, stream
<1>2. CASE ReceivePackage
  BY <1>2 DEF IInv, TypeOK, SendingSignalled, ReceivingSignalled, SocketsInv, ReceivePackage, signals
<1>3. CASE SignalUI
  <2>1. TypeOK'
    <3>1. toUI \in Nat
      BY DEF IInv, TypeOK
    <3>2. toUI' = toUI + 1 \/ toUI' = toUI
      BY <1>3 DEF SignalUI
    <3>3. toUI' \in Nat
      BY <3>1, <3>2
    <3> QED BY <1>3, <3>3 DEF IInv, TypeOK, SignalUI
  <2>2. SendingSignalled'
    BY <1>3 DEF IInv, SendingSignalled, SignalUI, queues
  <2>3. ReceivingSignalled'
    <3> SUFFICES ASSUME signalSocket = "open" PROVE toUI' > 0
      BY <1>3 DEF ReceivingSignalled, SignalUI
    <3>1. threadSocket = "open"
      BY <1>3 DEF IInv, TypeOK, SocketsInv, SignalUI
    <3>2. toUI' = toUI + 1
      BY <1>3, <3>1 DEF SignalUI
    <3>3. toUI \in Nat
      BY DEF IInv, TypeOK
    <3> QED BY <3>2, <3>3
  <2>4. SocketsInv'
    BY <1>3 DEF IInv, SocketsInv, SignalUI, stream
  <2> QED BY <2>1, <2>2, <2>3, <2>4 DEF IInv
<1>4. CASE SocketClosed
  BY <1>4 DEF IInv, TypeOK, SendingSignalled, ReceivingSignalled, SocketsInv, SocketClosed, queues, places
<1>5. CASE ReadSignal
  <2>1. CASE toThread > 0 /\ toThread' = toThread - 1 /\ UNCHANGED <<threadSocket, connection>>
    <3>1. toThread \in Nat
      BY DEF IInv, TypeOK
    <3>2. toThread' \in Nat
      BY <2>1, <3>1
    <3>3. TypeOK'
      BY <1>5, <2>1, <3>2 DEF IInv, TypeOK, ReadSignal
    <3>4. SendingSignalled' /\ ReceivingSignalled' /\ SocketsInv'
      BY <1>5, <2>1 DEF IInv, SendingSignalled, ReceivingSignalled, SocketsInv, ReadSignal, queues
    <3> QED BY <3>3, <3>4 DEF IInv
  <2>2. CASE signalSocket = "closed" /\ threadSocket' = "closed" /\ UNCHANGED toThread
    <3>1. TypeOK'
      BY <1>5, <2>2 DEF IInv, TypeOK, ReadSignal
    <3>2. SendingSignalled' /\ ReceivingSignalled' /\ SocketsInv'
      BY <1>5, <2>2 DEF SendingSignalled, ReceivingSignalled, SocketsInv, ReadSignal
    <3> QED BY <3>1, <3>2 DEF IInv
  <2> QED BY <1>5, <2>1, <2>2 DEF ReadSignal
<1>6. CASE SendPackages
  BY <1>6 DEF IInv, TypeOK, SendingSignalled, ReceivingSignalled, SocketsInv, SendPackages, signals
<1> QED BY <1>1, <1>2, <1>3, <1>4, <1>5, <1>6 DEF ConnectionThread

LEMMA HandlingKeepsIInv ==
  ASSUME IInv, HandlePackage
  PROVE  IInv'
BY PoppingKeepsIInv
   DEF HandlePackage, Initialised, CreateView, CreateNoView, OtherAck, ConnectToRenderer,
       DisconnectFromRenderer, HandleStatusChange

LEMMA UserKeepsIInv ==
  ASSUME IInv, User
  PROVE  IInv'
BY UserActionKeepsIInv, ClosingKeepsIInv DEF User, NewTab, CloseTab, SwitchPage, DestroyWindow

LEMMA NextKeepsIInv == IInv /\ [Next]_vars => IInv'
<1> SUFFICES ASSUME IInv, [Next]_vars PROVE IInv'
  OBVIOUS
<1>1. CASE DaemonReads \/ DaemonSends \/ DaemonCloses
  BY <1>1, UnseenKeepsIInv DEF DaemonReads, DaemonSends, DaemonCloses, seen, queues
<1>2. CASE UNCHANGED vars
  BY <1>2, UnseenKeepsIInv DEF vars, clientVars, seen, queues, stream
<1> QED BY <1>1, <1>2, UserKeepsIInv, HandlingKeepsIInv, UIThreadKeepsIInv, ThreadKeepsIInv
        DEF Next, UI, Thread

(* Whatever the two threads interleave, a package that is queued will be   *)
(* looked for: in both directions, also while the connection is closed by  *)
(* the daemon, and after the page, the tabs and the window have gone.      *)
THEOREM QueuesStaySignalled == Spec => []QueuesSignalled
<1>1. IInv => QueuesSignalled
  BY DEF IInv, SendingSignalled, ReceivingSignalled, QueuesSignalled
<1> QED BY <1>1, InitIInv, NextKeepsIInv, PTL DEF Spec

-----------------------------------------------------------------------------
(* What the daemon knows in the end.  Induction over numbers: finite sets  *)
(* are well-founded.                                                       *)
LEMMA LeastNat ==
  ASSUME NEW T \in SUBSET Nat, T # {}
  PROVE  \E m \in T : \A k \in T : m <= k
<1> DEFINE I == {1..m : m \in T}
<1>1. IsWellFoundedOn(StrictSubsetOrdering(Nat), FiniteSubsetsOf(Nat))
  BY FS_StrictSubsetOrderingWellFounded
<1>2. ASSUME NEW m \in T PROVE 1..m \in SUBSET Nat /\ IsFiniteSet(1..m)
  BY FS_Interval
<1>3. I \subseteq FiniteSubsetsOf(Nat) /\ I # {}
  BY <1>2 DEF FiniteSubsetsOf
<1>4. PICK x \in I : \A y \in I : <<y, x>> \notin StrictSubsetOrdering(Nat)
  BY <1>1, <1>3, WFMin
<1>5. PICK m \in T : x = 1..m
  OBVIOUS
<1>6. ASSUME NEW k \in T, ~(m <= k) PROVE FALSE
  <2>1. 1..k \subseteq 1..m /\ m \in 1..m /\ m \notin 1..k
    BY <1>6
  <2>2. <<1..k, x>> \in StrictSubsetOrdering(Nat)
    BY <2>1, <1>2, <1>5 DEF StrictSubsetOrdering
  <2> QED BY <2>2, <1>4
<1> QED BY <1>6

LEMMA Induction ==
  ASSUME NEW S, 0 \in S, \A n \in Nat : n \in S => n + 1 \in S
  PROVE  Nat \subseteq S
<1> SUFFICES ASSUME Nat \ S # {} PROVE FALSE
  OBVIOUS
<1>1. PICK m \in Nat \ S : \A k \in Nat \ S : m <= k
  BY LeastNat
<1> QED BY <1>1

(* What a viewer sends, and what the daemon knows of it.                   *)
Views == Nat \cup {NoView}
Commands == {"initialize", "register-view", "unregister-view", "got-focus", "ack"}
Packages == [command : Commands, view : Views, renderer : {NoView}]
Daemons == [views : SUBSET Views, focus : Views]

LEMMA OwnIsPackage ==
  ASSUME NEW c \in Commands, NEW v \in Views
  PROVE  /\ Own(c, v) \in Packages
         /\ Own(c, v).command = c /\ Own(c, v).view = v
BY DEF Own, Package, Packages

LEMMA ToldIs ==
  ASSUME NEW d \in Daemons, NEW p \in Packages
  PROVE  /\ Told(d, p) \in Daemons
         /\ p.command = "register-view" =>
              Told(d, p).views = d.views \cup {p.view} /\ Told(d, p).focus = d.focus
         /\ p.command = "unregister-view" =>
              Told(d, p).views = d.views \ {p.view} /\ Told(d, p).focus = d.focus
         /\ p.command = "got-focus" /\ p.view \in d.views =>
              Told(d, p).views = d.views /\ Told(d, p).focus = p.view
         /\ p.command \in {"initialize", "ack"} => Told(d, p) = d
<1>0. p.view \in Views /\ p.command \in Commands
  BY DEF Packages
<1>1. CASE p.command = "register-view"
  <2>1. Told(d, p) = [d EXCEPT !.views = @ \cup {p.view}]
    BY <1>1 DEF Told
  <2> QED BY <1>0, <1>1, <2>1 DEF Daemons
<1>2. CASE p.command = "unregister-view"
  <2>1. Told(d, p) = [d EXCEPT !.views = @ \ {p.view}]
    BY <1>2 DEF Told
  <2> QED BY <1>0, <1>2, <2>1 DEF Daemons
<1>3. CASE p.command = "got-focus" /\ p.view \in d.views
  <2>1. Told(d, p) = [d EXCEPT !.focus = p.view]
    BY <1>3 DEF Told
  <2> QED BY <1>0, <1>3, <2>1 DEF Daemons
<1>4. CASE ~(p.command \in {"register-view", "unregister-view"} \/ (p.command = "got-focus" /\ p.view \in d.views))
  <2>1. Told(d, p) = d
    BY <1>4 DEF Told
  <2> QED BY <1>4, <2>1
<1> QED BY <1>1, <1>2, <1>3, <1>4

(* The recursion in KnownAfter, as far as n.                               *)
Knowledge(g, d, ps, n) ==
  /\ g \in [0..n -> Daemons] /\ g[0] = d
  /\ \A i \in 1..n : g[i] = Told(g[i - 1], ps[i])

LEMMA KnowledgeGrows ==
  ASSUME NEW d, NEW ps \in Seq(Packages), NEW n \in 0..(Len(ps) - 1), NEW g, Knowledge(g, d, ps, n)
  PROVE  \E h : Knowledge(h, d, ps, n + 1)
<1> DEFINE h == [i \in 0..(n + 1) |-> IF i = n + 1 THEN Told(g[n], ps[n + 1]) ELSE g[i]]
<1>1. g[n] \in Daemons /\ ps[n + 1] \in Packages /\ n \in Nat
  BY DEF Knowledge
<1>2. Told(g[n], ps[n + 1]) \in Daemons
  BY <1>1, ToldIs
<1>3. h \in [0..(n + 1) -> Daemons] /\ h[0] = d
  BY <1>1, <1>2 DEF Knowledge
<1>4. ASSUME NEW i \in 1..(n + 1) PROVE h[i] = Told(h[i - 1], ps[i])
  <2>1. CASE i = n + 1
    <3>1. h[i] = Told(g[n], ps[n + 1]) /\ h[i - 1] = g[n]
      BY <2>1, <1>1
    <3> QED BY <3>1, <2>1
  <2>2. CASE i # n + 1
    <3>1. i \in 1..n /\ i - 1 \in 0..(n + 1) /\ i - 1 # n + 1 /\ i \in 0..(n + 1)
      BY <2>2, <1>1
    <3>2. h[i] = g[i] /\ h[i - 1] = g[i - 1]
      BY <3>1, <2>2
    <3> QED BY <3>1, <3>2 DEF Knowledge
  <2> QED BY <2>1, <2>2
<1> HIDE DEF h
<1>5. Knowledge(h, d, ps, n + 1)
  BY <1>3, <1>4 DEF Knowledge
<1> QED BY <1>5

LEMMA KnowledgeExists ==
  ASSUME NEW d \in Daemons, NEW ps \in Seq(Packages)
  PROVE  \E g : Knowledge(g, d, ps, Len(ps))
<1> DEFINE S == {n \in Nat : n <= Len(ps) => \E g : Knowledge(g, d, ps, n)}
<1>1. 0 \in S
  <2> DEFINE h == [i \in 0..0 |-> d]
  <2>1. h \in [0..0 -> Daemons] /\ h[0] = d
    OBVIOUS
  <2> HIDE DEF h
  <2>2. Knowledge(h, d, ps, 0)
    BY <2>1 DEF Knowledge
  <2> QED BY <2>2
<1>2. \A n \in Nat : n \in S => n + 1 \in S
  <2> SUFFICES ASSUME NEW n \in Nat, n \in S, n + 1 <= Len(ps)
               PROVE  \E g : Knowledge(g, d, ps, n + 1)
    OBVIOUS
  <2>1. n \in 0..(Len(ps) - 1) /\ \E g : Knowledge(g, d, ps, n)
    OBVIOUS
  <2> HIDE DEF S
  <2> QED BY <2>1, KnowledgeGrows
<1> HIDE DEF S
<1>3. Len(ps) \in S /\ Len(ps) \in Nat
  BY <1>1, <1>2, Induction
<1> QED BY <1>3 DEF S

(* The recursion determines what is known.                                 *)
LEMMA KnownIs ==
  ASSUME NEW d \in Daemons, NEW ps \in Seq(Packages), NEW f, Knowledge(f, d, ps, Len(ps))
  PROVE  KnownAfter(d, ps) = f[Len(ps)]
<1> DEFINE g == CHOOSE g : g = [i \in 0..Len(ps) |-> IF i = 0 THEN d ELSE Told(g[i - 1], ps[i])]
           S == {n \in Nat : n <= Len(ps) => g[n] = f[n]}
<1>1. KnownAfter(d, ps) = g[Len(ps)]
  BY DEF KnownAfter
<1>2. f = [i \in 0..Len(ps) |-> IF i = 0 THEN d ELSE Told(f[i - 1], ps[i])]
  <2>1. f = [i \in 0..Len(ps) |-> f[i]]
    BY DEF Knowledge
  <2>2. \A i \in 0..Len(ps) : f[i] = IF i = 0 THEN d ELSE Told(f[i - 1], ps[i])
    BY DEF Knowledge
  <2> QED BY <2>1, <2>2
<1>3. g = [i \in 0..Len(ps) |-> IF i = 0 THEN d ELSE Told(g[i - 1], ps[i])]
  BY <1>2
<1> HIDE DEF g
<1>4. Len(ps) \in Nat
  OBVIOUS
<1>5. 0 \in S
  BY <1>3, <1>4 DEF Knowledge
<1>6. \A n \in Nat : n \in S => n + 1 \in S
  <2> SUFFICES ASSUME NEW n \in Nat, n \in S, n + 1 <= Len(ps) PROVE g[n + 1] = f[n + 1]
    OBVIOUS
  <2>1. n + 1 \in 0..Len(ps) /\ n + 1 \in 1..Len(ps) /\ n + 1 # 0 /\ (n + 1) - 1 = n /\ g[n] = f[n]
    BY <1>4
  <2>2. g[n + 1] = Told(g[n], ps[n + 1])
    BY <1>3, <2>1
  <2>3. f[n + 1] = Told(f[n], ps[n + 1])
    BY <2>1 DEF Knowledge
  <2> QED BY <2>1, <2>2, <2>3
<1> HIDE DEF S
<1>7. Len(ps) \in S
  BY <1>4, <1>5, <1>6, Induction
<1> QED BY <1>1, <1>4, <1>7 DEF S

LEMMA KnownAfterType ==
  ASSUME NEW d \in Daemons, NEW ps \in Seq(Packages)
  PROVE  KnownAfter(d, ps) \in Daemons
<1>1. PICK g : Knowledge(g, d, ps, Len(ps))
  BY KnowledgeExists
<1>2. Len(ps) \in 0..Len(ps)
  OBVIOUS
<1> QED BY <1>1, <1>2, KnownIs DEF Knowledge

LEMMA KnownAfterNone ==
  ASSUME NEW d \in Daemons
  PROVE  KnownAfter(d, <<>>) = d
<1>1. <<>> \in Seq(Packages) /\ Len(<<>>) = 0
  OBVIOUS
<1>2. PICK g : Knowledge(g, d, <<>>, Len(<<>>))
  BY <1>1, KnowledgeExists
<1>3. KnownAfter(d, <<>>) = g[0]
  BY <1>1, <1>2, KnownIs
<1> QED BY <1>2, <1>3 DEF Knowledge

LEMMA KnownAfterOne ==
  ASSUME NEW d \in Daemons, NEW p \in Packages
  PROVE  KnownAfter(d, <<p>>) = Told(d, p)
<1> DEFINE ps == <<p>>
<1>1. ps \in Seq(Packages) /\ Len(ps) = 1 /\ ps[1] = p
  OBVIOUS
<1> HIDE DEF ps
<1>2. PICK g : Knowledge(g, d, ps, Len(ps))
  BY <1>1, KnowledgeExists
<1>3. KnownAfter(d, ps) = g[1]
  BY <1>1, <1>2, KnownIs
<1>4. g[1] = Told(g[1 - 1], ps[1]) /\ g[0] = d
  BY <1>1, <1>2 DEF Knowledge
<1> QED BY <1>1, <1>3, <1>4 DEF ps

LEMMA KnownAfterBoth ==
  ASSUME NEW d \in Daemons, NEW ps \in Seq(Packages), NEW qs \in Seq(Packages)
  PROVE  KnownAfter(d, ps \o qs) = KnownAfter(KnownAfter(d, ps), qs)
<1> DEFINE rs == ps \o qs
           m == Len(ps)
           n == Len(qs)
<1>1. /\ rs \in Seq(Packages) /\ Len(rs) = m + n /\ m \in Nat /\ n \in Nat
      /\ \A i \in 1..m : rs[i] = ps[i]
      /\ \A i \in 1..n : rs[m + i] = qs[i]
  OBVIOUS
<1> HIDE DEF rs, m, n
<1>2. PICK g : Knowledge(g, d, ps, m)
  BY KnowledgeExists DEF m
<1>3. KnownAfter(d, ps) = g[m] /\ g[m] \in Daemons
  BY <1>1, <1>2, KnownIs DEF Knowledge, m
<1>4. PICK h : Knowledge(h, g[m], qs, n)
  BY <1>3, KnowledgeExists DEF n
<1>5. KnownAfter(g[m], qs) = h[n]
  BY <1>3, <1>4, KnownIs DEF n
<1> DEFINE f == [i \in 0..(m + n) |-> IF i <= m THEN g[i] ELSE h[i - m]]
<1>6. f \in [0..(m + n) -> Daemons]
  <2> SUFFICES ASSUME NEW i \in 0..(m + n) PROVE (IF i <= m THEN g[i] ELSE h[i - m]) \in Daemons
    OBVIOUS
  <2>1. (i <= m => i \in 0..m) /\ (~(i <= m) => i - m \in 0..n)
    BY <1>1
  <2> QED BY <1>2, <1>4, <2>1 DEF Knowledge
<1>7. f[0] = d /\ f[m + n] = h[n]
  <2>1. 0 \in 0..(m + n) /\ 0 <= m /\ m + n \in 0..(m + n) /\ (m + n <= m => n = 0) /\ (m + n) - m = n
    BY <1>1
  <2>2. h[0] = g[m]
    BY <1>4 DEF Knowledge
  <2> QED BY <1>1, <1>2, <2>1, <2>2 DEF Knowledge
<1>8. ASSUME NEW i \in 1..(m + n) PROVE f[i] = Told(f[i - 1], rs[i])
  <2>0. i \in 0..(m + n) /\ i - 1 \in 0..(m + n) /\ i \in Nat
    BY <1>1
  <2>1. CASE i <= m
    <3>1. i \in 1..m /\ i - 1 <= m
      BY <1>1, <2>0, <2>1
    <3>2. f[i] = g[i] /\ f[i - 1] = g[i - 1]
      BY <2>0, <2>1, <3>1
    <3>3. g[i] = Told(g[i - 1], ps[i]) /\ rs[i] = ps[i]
      BY <1>1, <1>2, <3>1 DEF Knowledge
    <3> QED BY <3>2, <3>3
  <2>2. CASE i > m
    <3> DEFINE j == i - m
    <3>1. j \in 1..n /\ m + j = i /\ ~(i <= m) /\ (i - 1) - m = j - 1 /\ (i - 1 <= m => i - 1 = m /\ j = 1)
      BY <1>1, <2>0, <2>2
    <3>2. f[i] = h[j] /\ f[i - 1] = h[j - 1]
      <4>1. f[i] = h[j]
        BY <2>0, <3>1
      <4>2. CASE i - 1 <= m
        <5>1. f[i - 1] = g[m] /\ j - 1 = 0
          BY <2>0, <3>1, <4>2
        <5> QED BY <1>4, <4>1, <5>1 DEF Knowledge
      <4>3. CASE ~(i - 1 <= m)
        BY <2>0, <3>1, <4>1, <4>3
      <4> QED BY <4>2, <4>3
    <3>3. h[j] = Told(h[j - 1], qs[j]) /\ rs[i] = qs[j]
      <4>1. rs[m + j] = qs[j]
        BY <1>1, <3>1
      <4> QED BY <1>4, <3>1, <4>1 DEF Knowledge
    <3> QED BY <3>2, <3>3
  <2> QED BY <1>1, <2>0, <2>1, <2>2
<1> HIDE DEF f
<1>9. Knowledge(f, d, rs, Len(rs))
  BY <1>1, <1>6, <1>7, <1>8 DEF Knowledge
<1>10. KnownAfter(d, rs) = h[n]
  BY <1>1, <1>7, <1>9, KnownIs
<1> QED BY <1>3, <1>5, <1>10 DEF rs

-----------------------------------------------------------------------------
(* Tabs and views.                                                         *)
TabsInv ==
  /\ tabs \in Seq(Sockets) /\ page \in 0..Len(tabs)
  /\ \A i, j \in DOMAIN tabs : tabs[i] = tabs[j] => i = j
  /\ nextViewID \in Nat
  /\ DOMAIN idBySocket \subseteq Sockets /\ Open \subseteq DOMAIN idBySocket
  /\ \A s \in DOMAIN idBySocket : idBySocket[s] \in 0..(nextViewID - 1)
  /\ ~reused => \A s, t \in DOMAIN idBySocket : idBySocket[s] = idBySocket[t] => s = t

PackagesInv ==
  /\ known \in Daemons
  /\ sent \in Seq(Packages) /\ toSendPackages \in Seq(Packages) /\ outbox \in Seq(Packages)

Heard == KnownAfter(known, OnTheWay)

(* What the two properties say of a daemon d.                              *)
Matches(d) ==
  /\ d.views = {idBySocket[s] : s \in Open}
  /\ page # 0 => d.focus = idBySocket[tabs[page]]

ViewsInv == TabsInv /\ PackagesInv /\ (Connected /\ ~reused => Matches(Heard))

tabState == <<tabs, page, idBySocket, nextViewID, reused>>

LEMMA HeardType ==
  ASSUME PackagesInv
  PROVE  OnTheWay \in Seq(Packages) /\ Heard \in Daemons
<1>1. OnTheWay \in Seq(Packages)
  BY DEF PackagesInv, OnTheWay
<1> QED BY <1>1, KnownAfterType DEF PackagesInv, Heard

(* Sequences of packages.                                                  *)
LEMMA TwoPackages ==
  ASSUME NEW x \in Packages, NEW y \in Packages
  PROVE  /\ <<x>> \in Seq(Packages) /\ <<y>> \in Seq(Packages)
         /\ (<<>> \o <<x>>) \o <<y>> = <<x, y>> /\ <<x>> \o <<y>> = <<x, y>>
<1>1. <<x>> \in Seq(Packages) /\ <<y>> \in Seq(Packages)
  OBVIOUS
<1>2. <<>> \o <<x>> = <<x>>
  BY <1>1
<1> DEFINE z == <<x>> \o <<y>>
<1>3. z \in Seq(Packages) /\ Len(z) = 2 /\ z[1] = x /\ z[2] = y
  BY <1>1
<1> HIDE DEF z
<1>4. z = <<x, y>>
  BY <1>3
<1> QED BY <1>1, <1>2, <1>4 DEF z

Way(a, b, c) == (a \o b) \o c
Before(a, b) == a \o b

LEMMA BeforeIs ==
  ASSUME NEW a \in Seq(Packages), NEW b \in Seq(Packages), NEW c \in Seq(Packages)
  PROVE  Before(a, b) \in Seq(Packages) /\ Before(Before(a, b), c) = Before(a, Before(b, c))
<1>1. a \o b \in Seq(Packages)
  OBVIOUS
<1>2. (a \o b) \o c = a \o (b \o c)
  BY ConcatAssociative
<1> QED BY <1>1, <1>2 DEF Before

LEMMA FourParts ==
  ASSUME NEW a \in Seq(Packages), NEW b \in Seq(Packages), NEW c \in Seq(Packages), NEW d \in Seq(Packages)
  PROVE  /\ Way(Before(a, b), c, d) = Before(a, Way(b, c, d))
         /\ Way(a, Before(b, c), d) = Before(Before(a, b), Before(c, d))
<1>1. \A x, y, z : Way(x, y, z) = Before(Before(x, y), z)
  BY DEF Way, Before
<1> QED BY <1>1, BeforeIs

(* Steps that change no tab, and what the daemon will know as told.        *)
LEMMA HearsTheSame ==
  ASSUME ViewsInv, UNCHANGED tabState, PackagesInv', Connected' => Connected,
         Connected' => Heard' = Heard
  PROVE  ViewsInv'
<1>1. TabsInv'
  BY DEF ViewsInv, TabsInv, tabState, Open
<1>2. ASSUME Connected', ~reused'
      PROVE  Matches(Heard)'
  <2>1. Matches(Heard) /\ Heard' = Heard
    BY <1>2 DEF ViewsInv, tabState
  <2> QED BY <2>1 DEF Matches, tabState, Open
<1> QED BY <1>1, <1>2 DEF ViewsInv

(* A handler has left packages.                                            *)
LEMMA HeardThen ==
  ASSUME PackagesInv, outbox = <<>>, NEW more \in Seq(Packages), outbox' = more,
         UNCHANGED <<known, sent, toSendPackages>>
  PROVE  PackagesInv' /\ Heard' = KnownAfter(Heard, more)
<1> DEFINE way == OnTheWay
<1>1. way \in Seq(Packages) /\ known \in Daemons
  BY HeardType DEF PackagesInv
<1>2. way = sent \o toSendPackages
  BY DEF OnTheWay, PackagesInv
<1>3. OnTheWay' = way \o more
  BY <1>2 DEF OnTheWay
<1> HIDE DEF way
<1>4. KnownAfter(known, way \o more) = KnownAfter(KnownAfter(known, way), more)
  BY <1>1, KnownAfterBoth
<1>5. Heard' = KnownAfter(Heard, more)
  BY <1>3, <1>4 DEF Heard, way
<1> QED BY <1>5 DEF PackagesInv

LEMMA ReadHeard ==
  ASSUME PackagesInv, sent # <<>>, sent' = Tail(sent), known' = Told(known, Head(sent)),
         UNCHANGED <<toSendPackages, outbox>>
  PROVE  PackagesInv' /\ Heard' = Heard
<1> DEFINE p == Head(sent)
           rest == OnTheWay'
<1>0. sent = <<p>> \o Tail(sent)
  BY DEF PackagesInv
<1>1. p \in Packages /\ Tail(sent) \in Seq(Packages) /\ known \in Daemons
  BY DEF PackagesInv
<1>2. known' \in Daemons /\ known' = KnownAfter(known, <<p>>)
  BY <1>1, ToldIs, KnownAfterOne
<1>3. PackagesInv'
  BY <1>1, <1>2 DEF PackagesInv
<1>4. rest \in Seq(Packages) /\ rest = (Tail(sent) \o toSendPackages) \o outbox
  BY <1>1 DEF OnTheWay, PackagesInv
<1>5. OnTheWay = <<p>> \o rest
  <2> DEFINE one == <<p>>
             more == Tail(sent)
  <2>1. /\ one \in Seq(Packages) /\ more \in Seq(Packages)
        /\ toSendPackages \in Seq(Packages) /\ outbox \in Seq(Packages)
    BY <1>1 DEF PackagesInv
  <2>2. OnTheWay = Way(Before(one, more), toSendPackages, outbox) /\ rest = Way(more, toSendPackages, outbox)
    BY <1>0, <1>4 DEF OnTheWay, Way, Before
  <2> HIDE DEF one, more
  <2>3. Way(Before(one, more), toSendPackages, outbox) = Before(one, Way(more, toSendPackages, outbox))
    BY <2>1, FourParts
  <2> QED BY <2>2, <2>3 DEF one, Before
<1> HIDE DEF rest
<1>6. KnownAfter(known, <<p>> \o rest) = KnownAfter(KnownAfter(known, <<p>>), rest)
  <2>1. <<p>> \in Seq(Packages)
    BY <1>1
  <2> QED BY <1>1, <1>4, <2>1, KnownAfterBoth
<1> QED BY <1>2, <1>3, <1>5, <1>6 DEF Heard, rest

LEMMA WayStays ==
  ASSUME PackagesInv, UNCHANGED <<known, sent, toSendPackages, outbox>>
  PROVE  PackagesInv' /\ Heard' = Heard
BY DEF PackagesInv, Heard, OnTheWay

-----------------------------------------------------------------------------
(* New tabs.                                                               *)
LEMMA NewTabPackagesAre ==
  ASSUME TabsInv, NEW s \in Sockets
  PROVE  /\ NewTabPackages(s) \in Seq(Packages)
         /\ s \notin DOMAIN idBySocket =>
              NewTabPackages(s) = <<Own("register-view", nextViewID), Own("got-focus", nextViewID)>>
<1>1. nextViewID \in Views /\ \A t \in DOMAIN idBySocket : idBySocket[t] \in Views
  BY DEF TabsInv, Views
<1>2. GotFocus(s, idBySocket) \in Seq(Packages)
  BY <1>1, OwnIsPackage DEF GotFocus, Commands
<1>3. \A t \in DOMAIN NewId(s) : NewId(s)[t] \in Views
  BY <1>1 DEF NewId, Put
<1>4. GotFocus(s, NewId(s)) \in Seq(Packages)
  BY <1>3, OwnIsPackage DEF GotFocus, Commands
<1>5. Own("register-view", nextViewID) \in Packages
  BY <1>1, OwnIsPackage DEF Commands
<1>6. ASSUME s \notin DOMAIN idBySocket
      PROVE  NewTabPackages(s) = <<Own("register-view", nextViewID), Own("got-focus", nextViewID)>>
  <2>1. GotFocus(s, idBySocket) = <<>>
    BY <1>6 DEF GotFocus
  <2>2. GotFocus(s, NewId(s)) = <<Own("got-focus", nextViewID)>>
    BY <1>6 DEF GotFocus, NewId, Put
  <2>3. NewTabPackages(s) = (<<>> \o <<Own("register-view", nextViewID)>>) \o <<Own("got-focus", nextViewID)>>
    BY <2>1, <2>2 DEF NewTabPackages
  <2>4. Own("got-focus", nextViewID) \in Packages
    BY <1>1, OwnIsPackage DEF Commands
  <2> QED BY <1>5, <2>3, <2>4, TwoPackages
<1> QED BY <1>2, <1>4, <1>5, <1>6 DEF NewTabPackages

LEMMA NewTabHeard ==
  ASSUME TabsInv, NEW s \in Sockets, s \notin DOMAIN idBySocket, NEW d \in Daemons
  PROVE  /\ KnownAfter(d, NewTabPackages(s)) \in Daemons
         /\ KnownAfter(d, NewTabPackages(s)).views = d.views \cup {nextViewID}
         /\ KnownAfter(d, NewTabPackages(s)).focus = nextViewID
<1> DEFINE r == Own("register-view", nextViewID)
           g == Own("got-focus", nextViewID)
<1>1. /\ r \in Packages /\ g \in Packages
      /\ r.command = "register-view" /\ r.view = nextViewID
      /\ g.command = "got-focus" /\ g.view = nextViewID
  BY OwnIsPackage DEF TabsInv, Views, Commands
<1>2. NewTabPackages(s) = <<r, g>>
  BY NewTabPackagesAre
<1> HIDE DEF r, g
<1>3. Told(d, r) \in Daemons /\ Told(d, r).views = d.views \cup {nextViewID}
  BY <1>1, ToldIs
<1>4. /\ Told(Told(d, r), g) \in Daemons
      /\ Told(Told(d, r), g).views = d.views \cup {nextViewID}
      /\ Told(Told(d, r), g).focus = nextViewID
  BY <1>1, <1>3, ToldIs
<1>5. KnownAfter(d, <<r, g>>) = Told(Told(d, r), g)
  <2>1. <<r>> \in Seq(Packages) /\ <<g>> \in Seq(Packages) /\ <<r, g>> = <<r>> \o <<g>>
    BY <1>1, TwoPackages
  <2>2. KnownAfter(d, <<r>> \o <<g>>) = KnownAfter(KnownAfter(d, <<r>>), <<g>>)
    BY <2>1, KnownAfterBoth
  <2>3. KnownAfter(d, <<r>>) = Told(d, r) /\ KnownAfter(Told(d, r), <<g>>) = Told(Told(d, r), g)
    BY <1>1, <1>3, KnownAfterOne
  <2> QED BY <2>1, <2>2, <2>3
<1> QED BY <1>2, <1>4, <1>5

LEMMA AckHeard ==
  ASSUME NEW d \in Daemons
  PROVE  Ack \in Seq(Packages) /\ KnownAfter(d, Ack) = d
<1> DEFINE a == Own("ack", NoView)
<1>1. a \in Packages /\ a.command = "ack"
  BY OwnIsPackage DEF Views, Commands
<1>2. Ack = <<a>>
  BY DEF Ack
<1> HIDE DEF a
<1>3. Told(d, a) = d
  BY <1>1, ToldIs
<1> QED BY <1>1, <1>2, <1>3, KnownAfterOne

LEMMA NewTabTables ==
  ASSUME TabsInv, NEW s \in Sockets, CreateNewTab(s)
  PROVE  /\ TabsInv'
         /\ ~reused' => /\ ~reused /\ s \notin DOMAIN idBySocket
                        /\ {idBySocket'[t] : t \in Open'} = {idBySocket[t] : t \in Open} \cup {nextViewID}
                        /\ idBySocket'[tabs'[page']] = nextViewID
<1>1. /\ s \notin Open /\ tabs' = Append(tabs, s) /\ page' = Len(tabs) + 1
      /\ idBySocket' = NewId(s) /\ nextViewID' = nextViewID + 1
      /\ reused' = (reused \/ s \in DOMAIN idBySocket)
  BY DEF CreateNewTab, Creatable
<1>2. /\ tabs' \in Seq(Sockets) /\ Len(tabs') = Len(tabs) + 1 /\ tabs'[Len(tabs) + 1] = s
      /\ \A i \in 1..Len(tabs) : tabs'[i] = tabs[i]
      /\ DOMAIN tabs = 1..Len(tabs) /\ DOMAIN tabs' = 1..(Len(tabs) + 1) /\ Len(tabs) \in Nat
  BY <1>1 DEF TabsInv
<1>3. Open' = Open \cup {s}
  <2>1. Open \subseteq Open'
    BY <1>2 DEF Open
  <2>2. s \in Open'
    BY <1>2 DEF Open
  <2>3. Open' \subseteq Open \cup {s}
    BY <1>2 DEF Open
  <2> QED BY <2>1, <2>2, <2>3
<1>4. \A i, j \in DOMAIN tabs' : tabs'[i] = tabs'[j] => i = j
  <2> SUFFICES ASSUME NEW i \in DOMAIN tabs', NEW j \in DOMAIN tabs', tabs'[i] = tabs'[j]
               PROVE  i = j
    OBVIOUS
  <2>1. CASE i \in DOMAIN tabs /\ j \in DOMAIN tabs
    BY <1>2, <2>1 DEF TabsInv
  <2>2. CASE i \notin DOMAIN tabs \/ j \notin DOMAIN tabs
    <3>1. \A k \in DOMAIN tabs : tabs[k] # s
      BY <1>1 DEF Open
    <3> QED BY <1>2, <2>2, <3>1
  <2> QED BY <2>1, <2>2
<1>5. /\ DOMAIN idBySocket' = DOMAIN idBySocket \cup {s}
      /\ \A t \in DOMAIN idBySocket : idBySocket'[t] = idBySocket[t]
      /\ s \notin DOMAIN idBySocket => idBySocket'[s] = nextViewID
  BY <1>1 DEF NewId, Put
<1>6. TabsInv'
  <2>1. tabs' \in Seq(Sockets) /\ page' \in 0..Len(tabs')
    BY <1>1, <1>2
  <2>2. nextViewID \in Nat /\ nextViewID' \in Nat
    BY <1>1 DEF TabsInv
  <2>3. DOMAIN idBySocket' \subseteq Sockets /\ Open' \subseteq DOMAIN idBySocket'
    BY <1>3, <1>5 DEF TabsInv
  <2>4. \A t \in DOMAIN idBySocket' : idBySocket'[t] \in 0..(nextViewID' - 1)
    BY <1>1, <1>5, <2>2 DEF TabsInv
  <2>5. ~reused' => \A t, u \in DOMAIN idBySocket' : idBySocket'[t] = idBySocket'[u] => t = u
    <3> SUFFICES ASSUME ~reused', NEW t \in DOMAIN idBySocket', NEW u \in DOMAIN idBySocket',
                        idBySocket'[t] = idBySocket'[u]
                 PROVE  t = u
      OBVIOUS
    <3>1. ~reused /\ s \notin DOMAIN idBySocket
      BY <1>1
    <3>2. \A v \in DOMAIN idBySocket : idBySocket[v] \in 0..(nextViewID - 1)
      BY DEF TabsInv
    <3>3. \A v \in DOMAIN idBySocket : idBySocket[v] # nextViewID
      BY <2>2, <3>2
    <3> QED BY <1>5, <3>1, <3>3 DEF TabsInv
  <2> QED BY <1>4, <2>1, <2>2, <2>3, <2>4, <2>5 DEF TabsInv
<1>7. ASSUME ~reused'
      PROVE  /\ ~reused /\ s \notin DOMAIN idBySocket
             /\ {idBySocket'[t] : t \in Open'} = {idBySocket[t] : t \in Open} \cup {nextViewID}
             /\ idBySocket'[tabs'[page']] = nextViewID
  <2>1. ~reused /\ s \notin DOMAIN idBySocket
    BY <1>1, <1>7
  <2>2. \A t \in Open : idBySocket'[t] = idBySocket[t]
    BY <1>5 DEF TabsInv
  <2>3. idBySocket'[s] = nextViewID
    BY <1>5, <2>1
  <2>4. tabs'[page'] = s
    BY <1>1, <1>2
  <2> QED BY <1>3, <2>1, <2>2, <2>3, <2>4
<1> QED BY <1>6, <1>7

LEMMA NewTabKeepsViewsInv ==
  ASSUME ViewsInv, NEW s \in Sockets, CreateNewTab(s), outbox = <<>>,
         outbox' \in {NewTabPackages(s), NewTabPackages(s) \o Ack},
         UNCHANGED <<sent, toSendPackages, known>>, Connected' => Connected
  PROVE  ViewsInv'
<1>1. PackagesInv /\ TabsInv /\ Heard \in Daemons
  BY HeardType DEF ViewsInv
<1>2. TabsInv' /\ NewTabPackages(s) \in Seq(Packages) /\ Ack \in Seq(Packages)
  BY <1>1, NewTabTables, NewTabPackagesAre, AckHeard
<1>3. outbox' \in Seq(Packages)
  <2>1. NewTabPackages(s) \o Ack \in Seq(Packages)
    BY <1>2
  <2> QED BY <1>2, <2>1
<1>4. PackagesInv' /\ Heard' = KnownAfter(Heard, outbox')
  BY <1>1, <1>3, HeardThen
<1>5. ASSUME Connected', ~reused'
      PROVE  Matches(Heard)'
  <2>1. /\ ~reused /\ s \notin DOMAIN idBySocket
        /\ {idBySocket'[t] : t \in Open'} = {idBySocket[t] : t \in Open} \cup {nextViewID}
        /\ idBySocket'[tabs'[page']] = nextViewID
    BY <1>1, <1>5, NewTabTables
  <2>2. Heard.views = {idBySocket[t] : t \in Open}
    BY <1>5, <2>1 DEF ViewsInv, Matches
  <2> DEFINE e == KnownAfter(Heard, NewTabPackages(s))
  <2>3. e \in Daemons /\ e.views = Heard.views \cup {nextViewID} /\ e.focus = nextViewID
    BY <1>1, <2>1, NewTabHeard
  <2>4. Heard' = e
    <3>1. CASE outbox' = NewTabPackages(s)
      BY <1>4, <3>1
    <3>2. CASE outbox' = NewTabPackages(s) \o Ack
      <4>1. KnownAfter(Heard, NewTabPackages(s) \o Ack) = KnownAfter(e, Ack)
        BY <1>1, <1>2, KnownAfterBoth
      <4> HIDE DEF e
      <4>2. KnownAfter(e, Ack) = e
        BY <2>3, AckHeard
      <4> QED BY <1>4, <3>2, <4>1, <4>2
    <3> QED BY <3>1, <3>2
  <2> HIDE DEF e
  <2> QED BY <2>1, <2>2, <2>3, <2>4 DEF Matches
<1> QED BY <1>2, <1>4, <1>5 DEF ViewsInv

-----------------------------------------------------------------------------
(* Tabs that close.                                                        *)
LEMMA ConcatIs ==
  ASSUME NEW S, NEW a \in Seq(S), NEW b \in Seq(S)
  PROVE  /\ a \o b \in Seq(S) /\ Len(a \o b) = Len(a) + Len(b)
         /\ \A j \in 1..Len(a) : (a \o b)[j] = a[j]
         /\ \A j \in 1..Len(b) : (a \o b)[Len(a) + j] = b[j]
OBVIOUS

LEMMA RemovedIs ==
  ASSUME NEW S, NEW q \in Seq(S), NEW i \in 1..Len(q)
  PROVE  /\ RemoveAt(q, i) \in Seq(S) /\ Len(RemoveAt(q, i)) = Len(q) - 1
         /\ \A j \in 1..(Len(q) - 1) : RemoveAt(q, i)[j] = IF j < i THEN q[j] ELSE q[j + 1]
<1> DEFINE a == SubSeq(q, 1, i - 1)
           b == SubSeq(q, i + 1, Len(q))
<1>1. /\ a \in Seq(S) /\ Len(a) = i - 1 /\ \A j \in 1..(i - 1) : a[j] = q[j]
      /\ b \in Seq(S) /\ Len(b) = Len(q) - i /\ \A j \in 1..(Len(q) - i) : b[j] = q[i + j]
      /\ Len(q) \in Nat
  OBVIOUS
<1>2. RemoveAt(q, i) = a \o b
  BY DEF RemoveAt
<1> HIDE DEF a, b
<1> DEFINE r == a \o b
<1>3. /\ r \in Seq(S) /\ Len(r) = Len(a) + Len(b)
      /\ \A j \in 1..Len(a) : r[j] = a[j]
      /\ \A j \in 1..Len(b) : r[Len(a) + j] = b[j]
  <2>1. a \in Seq(S) /\ b \in Seq(S)
    BY <1>1
  <2> QED BY <2>1, ConcatIs
<1> HIDE DEF r
<1>4. Len(r) = Len(q) - 1
  BY <1>1, <1>3
<1>5. ASSUME NEW j \in 1..(Len(q) - 1)
      PROVE  r[j] = IF j < i THEN q[j] ELSE q[j + 1]
  <2>1. CASE j < i
    <3>1. j \in 1..Len(a) /\ j \in 1..(i - 1)
      BY <1>1, <2>1
    <3>2. r[j] = a[j] /\ a[j] = q[j]
      BY <1>1, <1>3, <3>1
    <3> QED BY <2>1, <3>2
  <2>2. CASE ~(j < i)
    <3> DEFINE k == j - (i - 1)
    <3>1. k \in 1..Len(b) /\ Len(a) + k = j /\ k \in 1..(Len(q) - i) /\ i + k = j + 1
      BY <1>1, <2>2
    <3> HIDE DEF k
    <3>2. r[Len(a) + k] = b[k] /\ b[k] = q[i + k]
      BY <1>1, <1>3, <3>1
    <3> QED BY <2>2, <3>1, <3>2
  <2> QED BY <2>1, <2>2
<1> QED BY <1>2, <1>3, <1>4, <1>5 DEF r

LEMMA ClosingTables ==
  ASSUME TabsInv, page # 0, tabs' = RemoveAt(tabs, page), page' = PageAfterClose,
         UNCHANGED <<idBySocket, nextViewID, reused>>
  PROVE  /\ TabsInv' /\ Open' = Open \ {tabs[page]} /\ tabs[page] \in Open
         /\ page' # 0 <=> tabs' # <<>>
         /\ tabs' # <<>> => page' \in DOMAIN tabs' /\ tabs'[page'] \in Open'
<1>1. page \in 1..Len(tabs) /\ tabs \in Seq(Sockets) /\ Len(tabs) \in Nat /\ DOMAIN tabs = 1..Len(tabs)
  BY DEF TabsInv
<1>2. /\ tabs' \in Seq(Sockets) /\ Len(tabs') = Len(tabs) - 1
      /\ \A j \in 1..(Len(tabs) - 1) : tabs'[j] = IF j < page THEN tabs[j] ELSE tabs[j + 1]
  BY <1>1, RemovedIs
<1>3. DOMAIN tabs' = 1..(Len(tabs) - 1)
  BY <1>1, <1>2
<1>4. \A i \in DOMAIN tabs' : \E j \in DOMAIN tabs : j # page /\ tabs'[i] = tabs[j]
                                                    /\ j = IF i < page THEN i ELSE i + 1
  BY <1>1, <1>2, <1>3
<1>5. \A i, j \in DOMAIN tabs' : tabs'[i] = tabs'[j] => i = j
  <2> SUFFICES ASSUME NEW i \in DOMAIN tabs', NEW j \in DOMAIN tabs', tabs'[i] = tabs'[j] PROVE i = j
    OBVIOUS
  <2>1. PICK k \in DOMAIN tabs : tabs'[i] = tabs[k] /\ k = IF i < page THEN i ELSE i + 1
    BY <1>4
  <2>2. PICK m \in DOMAIN tabs : tabs'[j] = tabs[m] /\ m = IF j < page THEN j ELSE j + 1
    BY <1>4
  <2>3. k = m
    BY <2>1, <2>2 DEF TabsInv
  <2>4. i \in Nat /\ j \in Nat /\ page \in Nat
    BY <1>1, <1>3
  <2> QED BY <2>1, <2>2, <2>3, <2>4
<1>6. Open' = Open \ {tabs[page]} /\ tabs[page] \in Open
  <2>1. Open' \subseteq Open \ {tabs[page]}
    BY <1>1, <1>4 DEF Open, TabsInv
  <2>2. Open \ {tabs[page]} \subseteq Open'
    <3> SUFFICES ASSUME NEW j \in DOMAIN tabs, tabs[j] # tabs[page] PROVE tabs[j] \in Open'
      BY DEF Open
    <3> DEFINE i == IF j < page THEN j ELSE j - 1
    <3>1. j # page
      OBVIOUS
    <3>2. i \in DOMAIN tabs' /\ i < page <=> j < page
      BY <1>1, <1>3, <3>1
    <3>3. i \in DOMAIN tabs' /\ tabs'[i] = tabs[j]
      BY <1>1, <1>2, <1>3, <3>1, <3>2
    <3> QED BY <3>3 DEF Open
  <2> QED BY <1>1, <2>1, <2>2 DEF Open
<1>7. page' \in 0..Len(tabs') /\ (page' # 0 <=> tabs' # <<>>)
  <2>1. page' = IF page < Len(tabs) THEN page ELSE page - 1
    BY DEF PageAfterClose
  <2>2. tabs' # <<>> <=> Len(tabs') # 0
    BY <1>2
  <2> QED BY <1>1, <1>2, <2>1, <2>2
<1>8. TabsInv'
  BY <1>2, <1>5, <1>6, <1>7 DEF TabsInv
<1>9. tabs' # <<>> => page' \in DOMAIN tabs' /\ tabs'[page'] \in Open'
  BY <1>1, <1>2, <1>3, <1>7 DEF Open
<1> QED BY <1>6, <1>7, <1>8, <1>9

LEMMA CloseTabKeepsViewsInv ==
  ASSUME ViewsInv, CloseTab, Connected' => Connected
  PROVE  ViewsInv'
<1>1. /\ page # 0 /\ tabs' = RemoveAt(tabs, page) /\ page' = PageAfterClose
      /\ outbox = <<>> /\ outbox' = ClosePackages(tabs')
      /\ UNCHANGED <<idBySocket, nextViewID, reused, sent, toSendPackages, known>>
  BY DEF CloseTab, UserAction, stream, tables
<1>2. PackagesInv /\ TabsInv /\ Heard \in Daemons
  BY HeardType DEF ViewsInv
<1>3. /\ TabsInv' /\ Open' = Open \ {tabs[page]} /\ tabs[page] \in Open
      /\ page' # 0 <=> tabs' # <<>>
      /\ tabs' # <<>> => page' \in DOMAIN tabs' /\ tabs'[page'] \in Open'
  BY <1>1, <1>2, ClosingTables
<1> DEFINE v == idBySocket[tabs[page]]
           u == Own("unregister-view", v)
           w == idBySocket[tabs'[page']]
           g == Own("got-focus", w)
<1>4. \A s \in Open : s \in DOMAIN idBySocket /\ idBySocket[s] \in Views
  BY <1>2 DEF TabsInv, Views
<1>5. u \in Packages /\ u.command = "unregister-view" /\ u.view = v
  BY <1>3, <1>4, OwnIsPackage DEF Commands
<1>6. tabs' # <<>> => g \in Packages /\ g.command = "got-focus" /\ g.view = w
  BY <1>3, <1>4, OwnIsPackage DEF Commands
<1>7. /\ tabs' = <<>> => outbox' = <<u>>
      /\ tabs' # <<>> => outbox' = <<u, g>>
  <2>1. CASE tabs' = <<>>
    <3>1. outbox' = <<u>> \o <<>>
      BY <1>1, <2>1 DEF ClosePackages
    <3> HIDE DEF u
    <3> QED BY <1>5, <2>1, <3>1
  <2>2. CASE tabs' # <<>>
    <3>1. outbox' = <<u>> \o GotFocus(tabs'[PageAfterClose], idBySocket)
      BY <1>1, <2>2 DEF ClosePackages
    <3>2. GotFocus(tabs'[PageAfterClose], idBySocket) = <<g>>
      BY <1>1, <1>3, <1>4, <2>2 DEF GotFocus
    <3> HIDE DEF u, g
    <3> QED BY <1>5, <1>6, <2>2, <3>1, <3>2, TwoPackages
  <2> QED BY <2>1, <2>2
<1> HIDE DEF u, g
<1>8. outbox' \in Seq(Packages)
  <2>1. CASE tabs' = <<>>
    <3>1. <<u>> \in Seq(Packages)
      BY <1>5
    <3> QED BY <1>7, <2>1, <3>1
  <2>2. CASE tabs' # <<>>
    <3>1. <<u, g>> \in Seq(Packages)
      BY <1>5, <1>6, <2>2
    <3> QED BY <1>7, <2>2, <3>1
  <2> QED BY <2>1, <2>2
<1>9. PackagesInv' /\ Heard' = KnownAfter(Heard, outbox')
  BY <1>1, <1>2, <1>8, HeardThen
<1>10. ASSUME Connected', ~reused'
       PROVE  Matches(Heard)'
  <2> DEFINE d == Told(Heard, u)
  <2>1. Matches(Heard) /\ ~reused
    BY <1>1, <1>10 DEF ViewsInv
  <2>2. d \in Daemons /\ d.views = Heard.views \ {v}
    BY <1>2, <1>5, ToldIs
  <2>3. d.views = {idBySocket[s] : s \in Open'}
    <3>1. \A s \in Open : idBySocket[s] = v => s = tabs[page]
      BY <1>2, <1>3, <1>4, <2>1 DEF TabsInv
    <3> QED BY <1>3, <2>1, <2>2, <3>1 DEF Matches
  <2>4. CASE tabs' = <<>>
    <3>1. Heard' = d
      BY <1>2, <1>5, <1>7, <1>9, <2>4, KnownAfterOne
    <3> HIDE DEF d
    <3> QED BY <1>1, <1>3, <2>3, <2>4, <3>1 DEF Matches
  <2>5. CASE tabs' # <<>>
    <3> DEFINE e == Told(d, g)
    <3>1. g.view \in d.views
      BY <1>3, <1>6, <2>3, <2>5
    <3>2. e.views = d.views /\ e.focus = w
      BY <1>6, <2>2, <2>5, <3>1, ToldIs
    <3>3. Heard' = e
      <4>1. <<u>> \in Seq(Packages) /\ <<g>> \in Seq(Packages) /\ <<u>> \o <<g>> = <<u, g>>
        BY <1>5, <1>6, <2>5, TwoPackages
      <4>2. KnownAfter(Heard, <<u>> \o <<g>>) = KnownAfter(KnownAfter(Heard, <<u>>), <<g>>)
        BY <1>2, <4>1, KnownAfterBoth
      <4>3. KnownAfter(Heard, <<u>>) = d
        BY <1>2, <1>5, KnownAfterOne
      <4> HIDE DEF d
      <4>4. KnownAfter(d, <<g>>) = e
        BY <1>6, <2>2, <2>5, KnownAfterOne
      <4> QED BY <1>7, <1>9, <2>5, <4>1, <4>2, <4>3, <4>4
    <3> HIDE DEF d, e
    <3> QED BY <1>1, <2>3, <3>2, <3>3 DEF Matches
  <2> QED BY <2>4, <2>5
<1> QED BY <1>3, <1>9, <1>10 DEF ViewsInv

LEMMA SwitchKeepsViewsInv ==
  ASSUME ViewsInv, NEW i \in DOMAIN tabs, SwitchPage(i), Connected' => Connected
  PROVE  ViewsInv'
<1>1. /\ page' = i /\ outbox = <<>> /\ outbox' = GotFocus(tabs[i], idBySocket)
      /\ UNCHANGED <<tabs, idBySocket, nextViewID, reused, sent, toSendPackages, known>>
  BY DEF SwitchPage, UserAction, stream, tables
<1>2. PackagesInv /\ TabsInv /\ Heard \in Daemons
  BY HeardType DEF ViewsInv
<1>3. i \in 1..Len(tabs) /\ tabs[i] \in Open /\ tabs[i] \in DOMAIN idBySocket
  BY <1>2 DEF TabsInv, Open
<1>4. TabsInv'
  BY <1>1, <1>2, <1>3 DEF TabsInv, Open
<1> DEFINE g == Own("got-focus", idBySocket[tabs[i]])
<1>5. idBySocket[tabs[i]] \in Views
  BY <1>2, <1>3 DEF TabsInv, Views
<1>6. g \in Packages /\ g.command = "got-focus" /\ g.view = idBySocket[tabs[i]]
  BY <1>5, OwnIsPackage DEF Commands
<1>7. outbox' = <<g>>
  BY <1>1, <1>3 DEF GotFocus
<1> HIDE DEF g
<1>8. PackagesInv' /\ Heard' = KnownAfter(Heard, <<g>>)
  <2>1. <<g>> \in Seq(Packages)
    BY <1>6
  <2> QED BY <1>1, <1>2, <1>7, <2>1, HeardThen
<1>9. ASSUME Connected', ~reused'
      PROVE  Matches(Heard)'
  <2>1. Matches(Heard)
    BY <1>1, <1>9 DEF ViewsInv
  <2>2. Heard' = Told(Heard, g)
    BY <1>2, <1>6, <1>8, KnownAfterOne
  <2>3. g.view \in Heard.views
    BY <1>3, <1>6, <2>1 DEF Matches
  <2>4. Told(Heard, g).views = Heard.views /\ Told(Heard, g).focus = g.view
    BY <1>2, <1>6, <2>3, ToldIs
  <2> QED BY <1>1, <1>6, <2>1, <2>2, <2>4 DEF Matches, Open
<1> QED BY <1>4, <1>8, <1>9 DEF ViewsInv

-----------------------------------------------------------------------------
(* The threads.                                                            *)
LEMMA PushKeepsHeard ==
  ASSUME PackagesInv, outbox # <<>>, toSendPackages' = Append(toSendPackages, Head(outbox)),
         outbox' = Tail(outbox), UNCHANGED <<known, sent>>
  PROVE  PackagesInv' /\ Heard' = Heard
<1> DEFINE one == <<Head(outbox)>>
           more == Tail(outbox)
<1>1. /\ one \in Seq(Packages) /\ more \in Seq(Packages)
      /\ sent \in Seq(Packages) /\ toSendPackages \in Seq(Packages) /\ known \in Daemons
  BY DEF PackagesInv
<1>2. outbox = one \o more /\ toSendPackages' = toSendPackages \o one
  BY DEF PackagesInv
<1>3. toSendPackages \o one \in Seq(Packages)
  BY <1>1
<1>4. PackagesInv'
  BY <1>1, <1>2, <1>3 DEF PackagesInv
<1>5. OnTheWay' = Way(sent, Before(toSendPackages, one), more)
  BY <1>2 DEF OnTheWay, Way, Before
<1>6. OnTheWay = Before(Before(sent, toSendPackages), Before(one, more))
  BY <1>2 DEF OnTheWay, Before
<1> HIDE DEF one, more
<1>7. OnTheWay' = OnTheWay
  BY <1>1, <1>5, <1>6, FourParts
<1> QED BY <1>4, <1>7 DEF Heard

LEMMA SendKeepsHeard ==
  ASSUME PackagesInv, sent' = sent \o toSendPackages, toSendPackages' = <<>>, UNCHANGED <<known, outbox>>
  PROVE  PackagesInv' /\ Heard' = Heard
<1> DEFINE way == sent \o toSendPackages
<1>1. way \in Seq(Packages)
  BY DEF PackagesInv
<1>2. OnTheWay = way \o outbox /\ OnTheWay' = (way \o <<>>) \o outbox
  BY DEF OnTheWay
<1> HIDE DEF way
<1>3. way \o <<>> = way
  BY <1>1
<1>4. PackagesInv'
  BY <1>1 DEF PackagesInv, way
<1> QED BY <1>2, <1>3, <1>4 DEF Heard

LEMMA StillConnected ==
  ASSUME Next
  PROVE  Connected' => Connected
<1>1. Running
  BY DEF Next
<1>2. CASE User
  BY <1>1, <1>2 DEF User, NewTab, CloseTab, SwitchPage, DestroyWindow, UserAction, CloseServerConnection,
                    signals, stream, Connected
<1>3. CASE HandlePackage
  BY <1>1, <1>3 DEF HandlePackage, Initialised, CreateView, CreateNoView, OtherAck, ConnectToRenderer,
                    DisconnectFromRenderer, HandleStatusChange, PopPackage, signals, stream, Connected
<1>4. CASE UIThread
  BY <1>1, <1>4 DEF UIThread, PushPackage, SendSignal, SignalCallback, NoMorePackages, SignalSocketClosed,
                    CloseServerConnection, ProcessEnds, signals, stream, Connected
<1>5. CASE ConnectionThread
  BY <1>1, <1>5 DEF ConnectionThread, StartServerConnection, ReceivePackage, SignalUI, SocketClosed,
                    ReadSignal, SendPackages, signals, stream, Connected
<1>6. CASE DaemonReads \/ DaemonSends \/ DaemonCloses
  BY <1>1, <1>6 DEF DaemonReads, DaemonSends, DaemonCloses, signals, Connected
<1> QED BY <1>2, <1>3, <1>4, <1>5, <1>6 DEF Next, UI, Thread

LEMMA UserKeepsViewsInv ==
  ASSUME ViewsInv, User, Connected' => Connected
  PROVE  ViewsInv'
<1>1. ASSUME NEW s \in Sockets, NewTab(s)
      PROVE  ViewsInv'
  BY <1>1, NewTabKeepsViewsInv DEF NewTab, UserAction, stream, CreateNewTab
<1>2. ASSUME DestroyWindow
      PROVE  ViewsInv'
  <2>1. UNCHANGED <<known, sent, toSendPackages, outbox, tabState>>
    BY <1>2 DEF DestroyWindow, CloseServerConnection, queues, stream, tabVars, tables, tabState
  <2> QED BY <2>1, WayStays, HearsTheSame DEF ViewsInv
<1> QED BY <1>1, <1>2, CloseTabKeepsViewsInv, SwitchKeepsViewsInv DEF User

LEMMA HandlingKeepsViewsInv ==
  ASSUME ViewsInv, HandlePackage, Connected' => Connected
  PROVE  ViewsInv'
<1>1. ASSUME NEW s \in Sockets, Initialised(s) \/ CreateView(s)
      PROVE  ViewsInv'
  BY <1>1, NewTabKeepsViewsInv DEF Initialised, CreateView, PopPackage, stream, CreateNewTab
<1>2. ASSUME CreateNoView \/ OtherAck \/ ConnectToRenderer \/ DisconnectFromRenderer \/ HandleStatusChange
      PROVE  ViewsInv'
  <2>1. /\ UNCHANGED <<tabState, known, sent, toSendPackages>>
        /\ outbox = <<>> /\ outbox' \in {<<>>, Ack}
    BY <1>2 DEF CreateNoView, OtherAck, ConnectToRenderer, DisconnectFromRenderer, HandleStatusChange,
                PopPackage, stream, tabVars, tables, tabState
  <2>2. PackagesInv /\ Heard \in Daemons
    BY HeardType DEF ViewsInv
  <2>3. <<>> \in Seq(Packages) /\ Ack \in Seq(Packages)
    BY <2>2, AckHeard
  <2>4. PackagesInv' /\ Heard' = KnownAfter(Heard, outbox')
    <3>1. outbox' \in Seq(Packages)
      BY <2>1, <2>3
    <3> QED BY <2>1, <2>2, <3>1, HeardThen
  <2>5. KnownAfter(Heard, outbox') = Heard
    BY <2>1, <2>2, KnownAfterNone, AckHeard
  <2> QED BY <2>1, <2>4, <2>5, HearsTheSame
<1> QED BY <1>1, <1>2 DEF HandlePackage

LEMMA ThreadsKeepViewsInv ==
  ASSUME ViewsInv, Next, UIThread \/ ConnectionThread, UNCHANGED <<tabVars, events, known, reused>>
  PROVE  ViewsInv'
<1>0. (Connected' => Connected) /\ UNCHANGED <<tabState, known>> /\ PackagesInv
  BY StillConnected DEF ViewsInv, tabVars, tables, tabState
<1>1. CASE UNCHANGED <<sent, toSendPackages, outbox>>
  BY <1>0, <1>1, WayStays, HearsTheSame
<1>2. CASE PushPackage
  <2>1. CASE serverConnection
    <3>1. /\ outbox # <<>> /\ toSendPackages' = Append(toSendPackages, Head(outbox))
          /\ outbox' = Tail(outbox) /\ sent' = sent
      BY <1>2, <2>1 DEF PushPackage, stream
    <3> QED BY <1>0, <3>1, PushKeepsHeard, HearsTheSame
  <2>2. CASE ~serverConnection
    BY <1>1, <1>2, <2>2 DEF PushPackage, stream
  <2> QED BY <2>1, <2>2
<1>3. CASE SendPackages
  <2>1. toSendPackages' = <<>> /\ outbox' = outbox /\ connection' = connection
    BY <1>3 DEF SendPackages
  <2>2. CASE connection = "Connected"
    <3>1. sent' = sent \o toSendPackages
      BY <1>3, <2>2 DEF SendPackages
    <3> QED BY <1>0, <2>1, <3>1, SendKeepsHeard, HearsTheSame
  <2>3. CASE connection # "Connected"
    <3>1. sent' = sent
      BY <1>3, <2>3 DEF SendPackages
    <3>2. PackagesInv'
      BY <1>0, <2>1, <3>1 DEF PackagesInv
    <3>3. ~Connected'
      BY <2>1, <2>3 DEF Connected
    <3> QED BY <1>0, <3>2, <3>3, HearsTheSame
  <2> QED BY <2>2, <2>3
<1>4. CASE ReceivePackage
  <2>1. UNCHANGED <<sent, toSendPackages, outbox>>
    BY <1>4 DEF ReceivePackage
  <2> QED BY <1>1, <2>1
<1>5. ASSUME UIThread, ~PushPackage
      PROVE  ViewsInv'
  BY <1>1, <1>5 DEF UIThread, SendSignal, SignalCallback, NoMorePackages, SignalSocketClosed,
                    CloseServerConnection, ProcessEnds, queues, stream
<1>6. ASSUME ConnectionThread, ~SendPackages, ~ReceivePackage
      PROVE  ViewsInv'
  BY <1>1, <1>6 DEF ConnectionThread, StartServerConnection, SignalUI, SocketClosed, ReadSignal,
                    queues, stream
<1> QED BY <1>2, <1>3, <1>4, <1>5, <1>6

LEMMA DaemonKeepsViewsInv ==
  ASSUME ViewsInv, Next, DaemonReads \/ DaemonSends \/ DaemonCloses
  PROVE  ViewsInv'
<1>0. (Connected' => Connected) /\ PackagesInv
  BY StillConnected DEF ViewsInv
<1>1. CASE DaemonReads
  <2>1. /\ sent # <<>> /\ sent' = Tail(sent) /\ known' = Told(known, Head(sent))
        /\ UNCHANGED <<tabState, toSendPackages, outbox>>
    BY <1>1 DEF DaemonReads, queues, tabVars, tables, tabState
  <2> QED BY <1>0, <2>1, ReadHeard, HearsTheSame
<1>2. CASE DaemonSends \/ DaemonCloses
  <2>1. UNCHANGED <<tabState, known, sent, toSendPackages, outbox>>
    BY <1>2 DEF DaemonSends, DaemonCloses, queues, tabVars, tables, tabState
  <2> QED BY <1>0, <2>1, WayStays, HearsTheSame
<1> QED BY <1>1, <1>2

LEMMA InitViewsInv == Init => ViewsInv
<1> SUFFICES ASSUME Init PROVE ViewsInv
  OBVIOUS
<1> DEFINE p == Own("initialize", NoView)
<1>1. /\ tabs = <<>> /\ page = 0 /\ idBySocket = [s \in {} |-> NoView] /\ nextViewID = 0
      /\ known = [views |-> {}, focus |-> NoView]
      /\ sent = <<>> /\ toSendPackages = <<>> /\ outbox = <<p>>
  BY DEF Init, ClientInit
<1>2. p \in Packages /\ p.command = "initialize"
  BY OwnIsPackage DEF Views, Commands
<1> HIDE DEF p
<1>3. known \in Daemons /\ known.views = {}
  BY <1>1 DEF Daemons, Views
<1>4. PackagesInv
  <2>1. <<>> \in Seq(Packages) /\ <<p>> \in Seq(Packages)
    BY <1>2
  <2> QED BY <1>1, <1>3, <2>1 DEF PackagesInv
<1>5. Open = {} /\ TabsInv
  BY <1>1 DEF Open, TabsInv
<1>6. Heard = known
  <2>1. OnTheWay = (<<>> \o <<>>) \o <<p>>
    BY <1>1 DEF OnTheWay
  <2>2. (<<>> \o <<>>) \o <<p>> = <<p>>
    <3>1. <<p>> \in Seq(Packages)
      BY <1>2
    <3> QED BY <3>1
  <2>3. KnownAfter(known, <<p>>) = known
    BY <1>2, <1>3, ToldIs, KnownAfterOne
  <2> QED BY <2>1, <2>2, <2>3 DEF Heard
<1>7. Matches(Heard)
  BY <1>1, <1>3, <1>5, <1>6 DEF Matches
<1> QED BY <1>4, <1>5, <1>7 DEF ViewsInv

LEMMA NextKeepsViewsInv == ViewsInv /\ [Next]_vars => ViewsInv'
<1> SUFFICES ASSUME ViewsInv, [Next]_vars PROVE ViewsInv'
  OBVIOUS
<1>1. CASE Next
  BY <1>1, StillConnected, UserKeepsViewsInv, HandlingKeepsViewsInv, ThreadsKeepViewsInv, DaemonKeepsViewsInv
     DEF Next, UI, Thread
<1>2. CASE UNCHANGED vars
  <2>1. UNCHANGED <<known, sent, toSendPackages, outbox, tabState, connection, signalSocket, fault>>
    BY <1>2 DEF vars, clientVars, queues, signals, stream, tabVars, tables, tabState
  <2>2. Connected' => Connected
    BY <2>1 DEF Connected, Running
  <2> QED BY <2>1, <2>2, WayStays, HearsTheSame DEF ViewsInv
<1> QED BY <1>1, <1>2

LEMMA ViewsInductive == Spec => []ViewsInv
BY InitViewsInv, NextKeepsViewsInv, PTL DEF Spec

(* When the daemon has read everything that is on its way, it knows just   *)
(* the views that have a tab: whatever the user and the daemon ask for,    *)
(* as long as both ends are connected and no address is used again.        *)
THEOREM RegistryStaysTrue == Spec => []RegistryFollowsTabs
<1>1. ViewsInv => RegistryFollowsTabs
  BY DEF ViewsInv, Matches, Heard, RegistryFollowsTabs
<1> QED BY <1>1, ViewsInductive, PTL

(* ... and the focus of the user is the view of the current tab.           *)
THEOREM FocusStaysTrue == Spec => []FocusFollowsPage
<1>1. ViewsInv => FocusFollowsPage
  BY DEF ViewsInv, Matches, Heard, FocusFollowsPage
<1> QED BY <1>1, ViewsInductive, PTL
=============================================================================
