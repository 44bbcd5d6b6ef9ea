-------------------------- MODULE ConnectionProofs --------------------------
(***************************************************************************)
(* Theorems about Connection, for any number of clients, browsers, names   *)
(* and sessions.  What a peer is served is decided in several steps that   *)
(* look its session up again and again, so the invariant says for each     *)
(* step of the handler what already holds of the session that has the      *)
(* name, and Unaffected says that no step of another peer takes it away.   *)
(***************************************************************************)
EXTENDS Connection, TLAPS

Steps ==
  {Idle, [at |-> "subscribe"], [at |-> "refresh"]} \cup [at : {"create"}, name : Name]

\* The manager's map: a session has one name, and a name one session.
MapOK ==
  /\ nameOf \in Seq(Name)
  /\ map \in [Name -> {NoOne} \cup Session]
  /\ \A n \in Name : map[n] # NoOne => nameOf[map[n]] = n

\* The variables of the peers.
PeersTyped ==
  /\ phase \in [Peer -> {"closed", "handshake", "open"}]
  /\ step \in [Peer -> Steps]
  /\ current \in [Peer -> {NoName} \cup Name]
  /\ tasks \in [Peer -> SUBSET Session]
  /\ handle \in [Peer -> {NoOne} \cup Session]
  /\ drawn \in [Peer -> {NoOne} \cup Session]
  /\ replaced \in [Peer -> BOOLEAN]

\* A peer's forwarder is the one it has at hand, and runs for an open peer only.
Linked(c) ==
  /\ tasks[c] \subseteq {handle[c]}
  /\ phase[c] # "open" => tasks[c] = {} /\ step[c] = Idle
  /\ step[c].at \in {"subscribe", "refresh"} => current[c] \in Name
  /\ c \in Browser =>
       /\ step[c].at \in {"idle", "subscribe"}
       /\ step[c].at = "subscribe" => tasks[c] = {}

\* What holds of the session a peer names, at each step of its handler.
Served(c) ==
  current[c] \in Name /\ ~ replaced[c] =>
    /\ c \in Client \/ step[c].at # "subscribe" => map[current[c]] # NoOne
    /\ step[c].at # "subscribe" => tasks[c] = {map[current[c]]}
    /\ c \in Client /\ step[c].at \in {"idle", "create"} => drawn[c] = map[current[c]]

PeerInv(c) == Linked(c) /\ Served(c)

IInv == MapOK /\ PeersTyped /\ \A c \in Peer : PeerInv(c)

-----------------------------------------------------------------------------
(***************************************************************************)
(* The map of sessions.                                                    *)
(***************************************************************************)

\* Sessions are only added, and a name that is taken keeps its session.
MapGrows ==
  /\ Session \subseteq Session'
  /\ \A n \in Name : map[n] # NoOne => map'[n] = map[n]

\* Getting or creating a session leaves one of that name.
LEMMA GetOrCreateMap ==
  ASSUME MapOK, NEW n \in Name, GetOrCreate(n)
  PROVE  MapOK' /\ MapGrows /\ map'[n] # NoOne
<1>1. CASE map[n] # NoOne
  BY <1>1 DEF GetOrCreate, MapOK, MapGrows, sessions, Session
<1>2. CASE map[n] = NoOne
  <2>1. nameOf' = Append(nameOf, n) /\ map' = [map EXCEPT ![n] = Len(nameOf) + 1]
    BY <1>2 DEF GetOrCreate
  <2>2. /\ nameOf' \in Seq(Name) /\ Len(nameOf') = Len(nameOf) + 1
        /\ \A s \in 1 .. Len(nameOf) : nameOf'[s] = nameOf[s]
        /\ nameOf'[Len(nameOf) + 1] = n /\ Len(nameOf) \in Nat
    BY <2>1 DEF MapOK
  <2>3. Session \subseteq Session' /\ Len(nameOf) + 1 \in Session' /\ Len(nameOf) + 1 # NoOne
    BY <2>2 DEF Session, NoOne
  <2>4. map' \in [Name -> {NoOne} \cup Session']
    BY <2>1, <2>3 DEF MapOK
  <2>5. \A m \in Name : map'[m] = IF m = n THEN Len(nameOf) + 1 ELSE map[m]
    BY <2>1 DEF MapOK
  <2>6. \A m \in Name : map'[m] # NoOne => nameOf'[map'[m]] = m
    BY <2>2, <2>5 DEF MapOK, Session
  <2> QED BY <1>2, <2>2, <2>3, <2>4, <2>5, <2>6 DEF MapOK, MapGrows, Session
<1> QED BY <1>1, <1>2

\* A step that does not touch the map keeps it right.
LEMMA SameMap ==
  ASSUME MapOK, UNCHANGED sessions
  PROVE  MapOK' /\ MapGrows /\ Session' = Session
BY DEF MapOK, MapGrows, sessions, Session

\* A peer whose variables a step leaves alone is served as before, unless its
\* session is killed.
LEMMA Unaffected ==
  ASSUME PeersTyped, NEW c \in Peer, PeerInv(c),
         step'[c] = step[c], phase'[c] = phase[c], current'[c] = current[c],
         handle'[c] = handle[c], drawn'[c] = drawn[c], tasks'[c] = tasks[c],
         \/ replaced'[c] = replaced[c] /\ MapGrows
         \/ current[c] \in Name /\ replaced'[c]
         \/ /\ replaced'[c] = replaced[c]
            /\ current[c] \in Name => map'[current[c]] = map[current[c]]
  PROVE  PeerInv(c)'
<1>1. Linked(c)'
  BY DEF PeerInv, Linked
<1>2. Served(c)'
  BY DEF PeerInv, Served, MapGrows
<1> QED BY <1>1, <1>2 DEF PeerInv

Same(d) ==
  /\ step'[d] = step[d] /\ phase'[d] = phase[d] /\ current'[d] = current[d]
  /\ handle'[d] = handle[d] /\ drawn'[d] = drawn[d] /\ tasks'[d] = tasks[d]
  /\ replaced'[d] = replaced[d]

\* A step of one peer, killing no session, has to be right for that peer only.
LEMMA OnePeerStep ==
  ASSUME IInv, NEW c \in Peer, MapOK', MapGrows, PeersTyped', PeerInv(c)',
         \A d \in Peer : d # c => Same(d)
  PROVE  IInv'
<1>1. ASSUME NEW d \in Peer, d # c PROVE PeerInv(d)'
  BY <1>1, Unaffected DEF IInv, Same
<1> QED BY <1>1 DEF IInv

-----------------------------------------------------------------------------
(***************************************************************************)
(* The steps.                                                              *)
(***************************************************************************)

\* The records that step can be have the `at` they say.
LEMMA StepFields ==
  /\ Idle \in Steps /\ [at |-> "subscribe"] \in Steps /\ [at |-> "refresh"] \in Steps
  /\ \A n \in Name : [at |-> "create", name |-> n] \in Steps
  /\ \A s \in Steps : s.at \in {"idle", "create", "subscribe", "refresh"}
  /\ \A s \in Steps : s.at = "create" => s.name \in Name
  /\ \A s \in Steps : s.at = "idle" => s = Idle
BY DEF Steps, Idle

\* The receive loop.
LEMMA LoopStep ==
  ASSUME IInv, NEW c \in Peer,
         \/ Connect(c) \/ Hello(c)
         \/ CleanUp(c) /\ (phase[c] = "handshake" \/ Ready(c))
  PROVE  IInv'
<1> USE DEF PeersTyped
<1>1. UNCHANGED <<sessions, step>> /\ PeerInv(c)
  BY DEF Connect, Hello, CleanUp, IInv
<1>2. MapOK' /\ MapGrows /\ Session' = Session
  BY <1>1, SameMap DEF IInv
<1>3. CASE Connect(c) \/ Hello(c)
  <2>1. PeersTyped' /\ \A d \in Peer : d # c => Same(d)
    BY <1>2, <1>3 DEF Connect, Hello, IInv, Same, link
  <2>2. Linked(c)' /\ Served(c)'
    BY <1>1, <1>2, <1>3, StepFields DEF Connect, Hello, IInv, PeerInv, Linked, Served, link,
                                        sessions
  <2> QED BY <1>2, <2>1, <2>2, OnePeerStep DEF PeerInv
<1>4. CASE CleanUp(c) /\ (phase[c] = "handshake" \/ Ready(c))
  <2>1. PeersTyped' /\ \A d \in Peer : d # c => Same(d)
    BY <1>2, <1>4 DEF CleanUp, IInv, Same
  <2>2. step[c] = Idle /\ tasks[c] \subseteq {handle[c]}
    BY <1>1, <1>4 DEF PeerInv, Linked, Ready
  <2>3. Linked(c)'
    BY <1>1, <2>2, <1>4 DEF CleanUp, Linked, IInv, Idle
  <2>4. Served(c)'
    BY <1>4, ConnectionAssumption DEF CleanUp, Served, IInv
  <2> QED BY <1>2, <2>1, <2>3, <2>4, OnePeerStep DEF PeerInv
<1> QED BY <1>3, <1>4

\* A forwarder starts: it is the only one.
LEMMA ForwardLinks ==
  ASSUME PeersTyped, NEW c \in Peer, tasks[c] \subseteq {handle[c]}, NEW s \in Session,
          Forward(c, s)
  PROVE  tasks'[c] = {s} /\ handle'[c] = s
BY DEF Forward, PeersTyped

\* Attaching.
LEMMA AttachStep ==
  ASSUME IInv, NEW c \in Client,
         \/ \E n \in Name : Attach(c, n)
         \/ AttachCreate(c) \/ AttachFails(c) \/ Subscribe(c) \/ Redraw(c)
  PROVE  IInv'
<1> USE DEF PeersTyped
<1> c \in Peer
  BY DEF Peer
<1>0. PeerInv(c) /\ MapOK /\ PeersTyped /\ step[c] \in Steps
  BY DEF IInv
<1>1. ASSUME NEW n \in Name, Attach(c, n) PROVE IInv'
  <2>1. MapOK' /\ MapGrows /\ Session' = Session
    BY <1>0, <1>1, SameMap DEF Attach
  <2>2. /\ PeersTyped' /\ (\A d \in Peer : d # c => Same(d))
        /\ step'[c] = [at |-> "create", name |-> n]
    BY <1>0, <1>1, <2>1, StepFields DEF Attach, SetStep, Same, link
  <2>3. Linked(c)' /\ Served(c)'
    BY <1>0, <1>1, <2>2, ConnectionAssumption DEF Attach, PeerInv, Linked, Served, link,
                                                  sessions, Ready, Idle
  <2> QED BY <2>1, <2>2, <2>3, OnePeerStep DEF PeerInv
<1>2. CASE AttachCreate(c)
  <2> DEFINE n == step[c].name
  <2>0. n \in Name /\ phase[c] = "open"
    BY <1>0, <1>2, StepFields DEF AttachCreate, AtStep, PeerInv, Linked, Idle
  <2>1. MapOK' /\ MapGrows /\ map'[n] # NoOne
    BY <1>0, <1>2, <2>0, GetOrCreateMap DEF AttachCreate
  <2>2. (\A d \in Peer : d # c => Same(d)) /\ step'[c] = [at |-> "subscribe"]
    BY <1>0, <1>2 DEF AttachCreate, SetStep, Same, link
  <2>3. PeersTyped'
    BY <1>0, <1>2, <2>0, <2>1, StepFields DEF AttachCreate, SetStep, MapGrows, link
  <2>4. Linked(c)' /\ Served(c)'
    BY <1>0, <1>2, <2>0, <2>1, <2>2, ConnectionAssumption
       DEF AttachCreate, PeerInv, Linked, Served, link, Idle
  <2> QED BY <2>1, <2>2, <2>3, <2>4, OnePeerStep DEF PeerInv
<1>3. CASE AttachFails(c)
  <2>1. MapOK' /\ MapGrows /\ Session' = Session
    BY <1>0, <1>3, SameMap DEF AttachFails
  <2>2. PeersTyped' /\ (\A d \in Peer : d # c => Same(d)) /\ step'[c] = Idle
    BY <1>0, <1>3, <2>1, StepFields DEF AttachFails, SetStep, Same, link
  <2>3. Linked(c)' /\ Served(c)'
    BY <1>0, <1>3, <2>2, ConnectionAssumption DEF AttachFails, AtStep, PeerInv, Linked, Served,
                                                  link, sessions, Idle
  <2> QED BY <2>1, <2>2, <2>3, OnePeerStep DEF PeerInv
<1>4. CASE Subscribe(c)
  <2> DEFINE s == map[current[c]]
  <2>1. MapOK' /\ MapGrows /\ Session' = Session
    BY <1>0, <1>4, SameMap DEF Subscribe
  <2>2. current[c] \in Name /\ s \in {NoOne} \cup Session
    BY <1>0, <1>4 DEF Subscribe, AtStep, PeerInv, Linked, MapOK
  <2>3. (\A d \in Peer : d # c => Same(d)) /\ step'[c] = [at |-> "refresh"]
    BY <1>0, <1>4 DEF Subscribe, SetStep, Same, link, Forward
  <2>4. PeersTyped'
    BY <1>0, <1>4, <2>1, <2>2, StepFields DEF Subscribe, SetStep, link, Forward
  <2>5. IF s = NoOne THEN UNCHANGED link ELSE tasks'[c] = {s} /\ handle'[c] = s
    BY <1>0, <1>4, <2>2, ForwardLinks DEF Subscribe, PeerInv, Linked
  <2>6. Linked(c)'
    BY <1>0, <1>4, <2>2, <2>3, <2>5, ConnectionAssumption DEF Subscribe, PeerInv, Linked, AtStep,
           Idle, link
  <2>7. Served(c)'
    BY <1>0, <1>4, <2>2, <2>3, <2>5 DEF Subscribe, PeerInv, Served, AtStep, sessions, link
  <2> QED BY <2>1, <2>3, <2>4, <2>6, <2>7, OnePeerStep DEF PeerInv
<1>5. CASE Redraw(c)
  <2> DEFINE s == map[current[c]]
  <2>1. MapOK' /\ MapGrows /\ Session' = Session
    BY <1>0, <1>5, SameMap DEF Redraw
  <2>2. current[c] \in Name /\ s \in {NoOne} \cup Session
    BY <1>0, <1>5 DEF Redraw, AtStep, PeerInv, Linked, MapOK
  <2>3. (\A d \in Peer : d # c => Same(d)) /\ step'[c] = Idle
    BY <1>0, <1>5 DEF Redraw, SetStep, Same, link
  <2>4. PeersTyped'
    BY <1>0, <1>5, <2>1, <2>2, StepFields DEF Redraw, SetStep, link
  <2>6. Linked(c)'
    BY <1>0, <1>5, <2>2, <2>3, ConnectionAssumption DEF Redraw, PeerInv, Linked, AtStep, Idle, link
  <2>7. Served(c)'
    BY <1>0, <1>5, <2>2, <2>3 DEF Redraw, PeerInv, Served, AtStep, sessions, link, Idle
  <2> QED BY <2>1, <2>3, <2>4, <2>6, <2>7, OnePeerStep DEF PeerInv
<1> QED BY <1>1, <1>2, <1>3, <1>4, <1>5

\* Detaching, and requests.
LEMMA RequestStep ==
  ASSUME IInv, NEW c \in Client, Detach(c) \/ Request(c)
  PROVE  IInv'
<1> USE DEF PeersTyped
<1> c \in Peer
  BY DEF Peer
<1>0. PeerInv(c) /\ MapOK /\ PeersTyped /\ step[c] \in Steps
  BY DEF IInv
<1>1. MapOK' /\ MapGrows /\ Session' = Session
  BY <1>0, SameMap DEF Detach, Request
<1>2. CASE Detach(c)
  <2>1. PeersTyped' /\ (\A d \in Peer : d # c => Same(d))
    BY <1>0, <1>1, <1>2 DEF Detach, Same, link
  <2>2. Linked(c)' /\ Served(c)'
    BY <1>0, <1>2, ConnectionAssumption DEF Detach, PeerInv, Linked, Served, link, Ready, Idle
  <2> QED BY <1>1, <2>1, <2>2, OnePeerStep DEF PeerInv
<1>3. CASE Request(c)
  <2>1. /\ PeersTyped' /\ (\A d \in Peer : d # c => Same(d))
        /\ step'[c] = [at |-> "refresh"] /\ current[c] \in Name
    BY <1>0, <1>1, <1>3, StepFields DEF Request, Same, link, SetStep
  <2>2. Linked(c)'
    BY <1>0, <1>3, <2>1, ConnectionAssumption DEF Request, PeerInv, Linked, link, Ready, Idle
  <2>3. Served(c)'
    BY <1>0, <1>3, <2>1 DEF Request, PeerInv, Served, link, Ready, Idle, sessions
  <2> QED BY <1>1, <2>1, <2>2, <2>3, OnePeerStep DEF PeerInv
<1> QED BY <1>2, <1>3

\* Killing a session takes it from every peer that has named it.
LEMMA KillStep ==
  ASSUME IInv, NEW c \in Client, NEW n \in Name, KillSession(c, n)
  PROVE  IInv'
<1> USE DEF PeersTyped
<1>1. MapOK'
  BY DEF KillSession, MapOK, IInv, Session
<1>2. PeersTyped'
  BY DEF KillSession, IInv, link, Killed, Session
<1>3. ASSUME NEW d \in Peer PROVE PeerInv(d)'
  <2>1. replaced'[d] = (replaced[d] \/ current[d] = n)
    BY DEF KillSession, Killed, IInv
  <2>2. CASE current[d] = n
    BY <2>1, <2>2, Unaffected DEF KillSession, IInv, link
  <2>3. CASE current[d] # n
    <3>1. replaced'[d] = replaced[d]
      BY <2>1, <2>3 DEF IInv
    <3>2. current[d] \in Name => map'[current[d]] = map[current[d]]
      BY <2>3 DEF KillSession, IInv, MapOK
    <3> QED BY <3>1, <3>2, Unaffected DEF KillSession, IInv, link
  <2> QED BY <2>2, <2>3
<1> QED BY <1>1, <1>2, <1>3 DEF IInv

\* A forwarder that ends served a session that no name has.
LEMMA TaskStep ==
  ASSUME IInv, NEW c \in Client, NEW s \in Session, TaskEnds(c, s)
  PROVE  IInv'
<1> USE DEF PeersTyped
<1> c \in Peer
  BY DEF Peer
<1>0. PeerInv(c) /\ MapOK /\ PeersTyped
  BY DEF IInv
<1>1. MapOK' /\ MapGrows /\ Session' = Session
  BY <1>0, SameMap DEF TaskEnds
<1>2. PeersTyped' /\ (\A d \in Peer : d # c => Same(d)) /\ tasks'[c] = tasks[c] \ {s}
  BY <1>0, <1>1 DEF TaskEnds, Same
<1>3. Linked(c)'
  BY <1>0, <1>2 DEF TaskEnds, PeerInv, Linked
<1>4. Served(c)'
  BY <1>0, <1>2 DEF TaskEnds, PeerInv, Served, sessions
<1> QED BY <1>1, <1>2, <1>3, <1>4, OnePeerStep DEF PeerInv

\* A browser: connected, subscribed or refused.  Closing is the receive loop's.
LEMMA BrowserStep ==
  ASSUME IInv, NEW b \in Browser,
         (\E n \in Name : BrowserConnect(b, n)) \/ BrowserSubscribe(b) \/ BrowserRefused(b)
  PROVE  IInv'
<1> USE DEF PeersTyped
<1> b \in Peer /\ b \notin Client
  BY ConnectionAssumption DEF Peer
<1>0. PeerInv(b) /\ MapOK /\ PeersTyped /\ step[b] \in Steps
  BY DEF IInv
<1>1. ASSUME NEW n \in Name, BrowserConnect(b, n) PROVE IInv'
  <2>1. MapOK' /\ MapGrows
    <3>1. CASE GetOrCreate(n)
      BY <1>0, <3>1, GetOrCreateMap
    <3>2. CASE UNCHANGED sessions
      BY <1>0, <3>2, SameMap
    <3> QED BY <1>1, <3>1, <3>2 DEF BrowserConnect
  <2>2. /\ \A d \in Peer : d # b => Same(d)
        /\ step'[b] = [at |-> "subscribe"] /\ tasks[b] = {}
    BY <1>0, <1>1 DEF BrowserConnect, SetStep, Same, link, PeerInv, Linked
  <2>3. PeersTyped'
    BY <1>0, <1>1, <2>1, StepFields DEF BrowserConnect, SetStep, MapGrows, link
  <2>4. Linked(b)' /\ Served(b)'
    BY <1>0, <1>1, <2>2, ConnectionAssumption DEF BrowserConnect, PeerInv, Linked, Served, link,
                                                  Idle
  <2> QED BY <2>1, <2>2, <2>3, <2>4, OnePeerStep DEF PeerInv
<1>2. CASE BrowserSubscribe(b)
  <2> DEFINE s == map[current[b]]
  <2>1. MapOK' /\ MapGrows /\ Session' = Session
    BY <1>0, <1>2, SameMap DEF BrowserSubscribe
  <2>2. current[b] \in Name /\ s \in Session
    BY <1>0, <1>2 DEF BrowserSubscribe, AtStep, PeerInv, Linked, MapOK
  <2>3. (\A d \in Peer : d # b => Same(d)) /\ step'[b] = Idle
    BY <1>0, <1>2 DEF BrowserSubscribe, SetStep, Same, Forward
  <2>4. PeersTyped'
    BY <1>0, <1>2, <2>1, <2>2, StepFields DEF BrowserSubscribe, SetStep, Forward
  <2>5. tasks'[b] = {s} /\ handle'[b] = s /\ phase[b] = "open"
    BY <1>0, <1>2, <2>2, ForwardLinks DEF BrowserSubscribe, PeerInv, Linked, AtStep, Idle
  <2>6. Linked(b)' /\ Served(b)'
    BY <1>0, <1>2, <2>2, <2>3, <2>5 DEF BrowserSubscribe, Linked, Served, sessions, Idle
  <2> QED BY <2>1, <2>3, <2>4, <2>6, OnePeerStep DEF PeerInv
<1>3. CASE BrowserRefused(b)
  <2>1. MapOK' /\ MapGrows /\ Session' = Session
    BY <1>0, <1>3, SameMap DEF BrowserRefused
  <2>2. PeersTyped' /\ (\A d \in Peer : d # b => Same(d)) /\ step'[b] = Idle
    BY <1>0, <1>3, <2>1, StepFields DEF BrowserRefused, SetStep, Same, link
  <2>3. Linked(b)' /\ Served(b)'
    BY <1>0, <1>3, <2>2, ConnectionAssumption DEF BrowserRefused, AtStep, PeerInv, Linked,
                                                  Served, link, Idle
  <2> QED BY <2>1, <2>2, <2>3, OnePeerStep DEF PeerInv
<1> QED BY <1>1, <1>2, <1>3

-----------------------------------------------------------------------------
(***************************************************************************)
(* The theorems.                                                           *)
(***************************************************************************)

\* The invariant is inductive.
THEOREM Inductive == Spec => []IInv
<1>1. Init => IInv
  <2> SUFFICES ASSUME Init PROVE IInv
    OBVIOUS
  <2>1. MapOK
    BY DEF Init, MapOK, Session
  <2>2. PeersTyped
    BY StepFields DEF Init, PeersTyped
  <2>3. ASSUME NEW c \in Peer PROVE PeerInv(c)
    BY ConnectionAssumption DEF Init, PeerInv, Linked, Served, Idle
  <2> QED BY <2>1, <2>2, <2>3 DEF IInv
<1>2. IInv /\ [Next]_vars => IInv'
  <2> SUFFICES ASSUME IInv, [Next]_vars PROVE IInv'
    OBVIOUS
  <2>1. CASE UNCHANGED vars
    BY <2>1 DEF vars, sessions, link, IInv, MapOK, PeersTyped, PeerInv, Linked, Served, Session
  <2>2. ASSUME NEW c \in Client, ClientNext(c) PROVE IInv'
    <3>1. c \in Peer
      BY DEF Peer
    <3>2. CASE Connect(c) \/ Hello(c)
      BY <3>1, <3>2, LoopStep
    <3>6. CASE Close(c)
      BY <3>1, <3>6, LoopStep DEF Close
    <3>3. CASE \/ \E n \in Name : Attach(c, n)
               \/ AttachCreate(c) \/ AttachFails(c) \/ Subscribe(c) \/ Redraw(c)
      BY <3>3, AttachStep
    <3>4. CASE Detach(c) \/ Request(c)
      BY <3>4, RequestStep
    <3>5. CASE \E n \in Name : KillSession(c, n)
      BY <3>5, KillStep
    <3> QED BY <2>2, <3>2, <3>3, <3>4, <3>5, <3>6 DEF ClientNext
  <2>3. ASSUME NEW b \in Browser, BrowserNext(b) PROVE IInv'
    <3>1. b \in Peer
      BY DEF Peer
    <3>2. CASE BrowserClose(b)
      BY <3>1, <3>2, LoopStep DEF BrowserClose
    <3>3. CASE (\E n \in Name : BrowserConnect(b, n)) \/ BrowserSubscribe(b) \/ BrowserRefused(b)
      BY <3>3, BrowserStep
    <3> QED BY <2>3, <3>2, <3>3 DEF BrowserNext
  <2> QED BY <2>1, <2>2, <2>3, TaskStep DEF Next
<1> QED BY <1>1, <1>2, PTL DEF Spec

\* Every variable has its type, and a name has the session that was created
\* under it.
THEOREM TypeCorrect == Spec => []TypeOK
<1>1. IInv => TypeOK
  BY StepFields DEF IInv, MapOK, PeersTyped, TypeOK
<1> QED BY <1>1, Inductive, PTL

\* At most one forwarder runs for a connection, the one it can abort, and none
\* for a closed connection.
THEOREM TasksHaveOwners == Spec => []NoOrphanTask
<1>1. IInv => NoOrphanTask
  BY DEF IInv, PeerInv, Linked, NoOrphanTask
<1> QED BY <1>1, Inductive, PTL

\* Requests, output and layout of a connection are those of one session, as
\* long as it is not killed.
THEOREM ServedByOne == Spec => []OneSessionServed
<1>1. IInv => OneSessionServed
  <2> SUFFICES ASSUME IInv, NEW c \in Peer, Ready(c), current[c] # NoName, ~ replaced[c]
      PROVE  /\ map[current[c]] # NoOne
             /\ tasks[c] = {map[current[c]]}
             /\ c \in Client => drawn[c] = map[current[c]]
    BY DEF OneSessionServed
  <2>1. current[c] \in Name /\ step[c].at = "idle" /\ Served(c)
    BY DEF IInv, PeersTyped, PeerInv, Ready, Idle
  <2> QED BY <2>1 DEF Served
<1> QED BY <1>1, Inductive, PTL
=============================================================================
