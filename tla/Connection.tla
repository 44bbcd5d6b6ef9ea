----------------------------- MODULE Connection -----------------------------
(***************************************************************************)
(* The connections to a nexterm server and the sessions they name: the     *)
(* receive loop of a connection (ipc/handler.rs), attach, detach and kill  *)
(* (ipc/session_dispatch.rs), the manager's map of sessions (session.rs)   *)
(* and the web socket of a browser (web/handlers/ws.rs).                   *)
(*                                                                         *)
(* A connection remembers its session by name, its forwarder holds the     *)
(* receiver of the session that had the name when it subscribed, and every *)
(* later step looks the name up again.  Between two of these steps other   *)
(* connections kill the session or create another one of the same name, so *)
(* a session is told apart here by the number of its creation.             *)
(***************************************************************************)
EXTENDS Integers, FiniteSets, Sequences

CONSTANTS
  Client,      \* connections of the local socket
  Browser,     \* web sockets
  Name,        \* session names
  MaxSession   \* bound on the sessions ever created

NoName == "no name"
NoOne  == 0        \* the number of no session

ASSUME ConnectionAssumption ==
  /\ Client \cap Browser = {}
  /\ NoName \notin Name
  /\ MaxSession \in Nat

VARIABLES
  map,        \* the session that has each name, NoOne if none
  nameOf,     \* the name of every session ever created
  phase,      \* "closed", "handshake" or "open" for each peer
  step,       \* what the handler of a peer does next, and its locals
  current,    \* current_session; the session_name of a web socket
  tasks,      \* forwarder tasks of a peer that have not ended or been aborted
  handle,     \* bcast_forwarder: the task a peer can abort, NoOne if none
  drawn,      \* the session whose layout a handler sent to the client last
  replaced    \* history: has a session of the peer's name been killed since
              \* the peer began to attach?

sessions == <<map, nameOf>>
link     == <<tasks, handle>>
vars     == <<sessions, phase, step, current, link, drawn, replaced>>

Peer == Client \cup Browser
Session == 1 .. Len(nameOf)
Idle == [at |-> "idle"]

AtStep(c, at) == step[c].at = at
SetStep(c, s) == step' = [step EXCEPT ![c] = s]
Ready(c) == phase[c] = "open" /\ step[c] = Idle

Init ==
  /\ map = [n \in Name |-> NoOne]
  /\ nameOf = <<>>
  /\ phase = [c \in Peer |-> "closed"]
  /\ step = [c \in Peer |-> Idle]
  /\ current = [c \in Peer |-> NoName]
  /\ tasks = [c \in Peer |-> {}]
  /\ handle = [c \in Peer |-> NoOne]
  /\ drawn = [c \in Peer |-> NoOne]
  /\ replaced = [c \in Peer |-> FALSE]

-----------------------------------------------------------------------------
(***************************************************************************)
(* The receive loop.                                                       *)
(***************************************************************************)

\* A client connects; nothing is served before its Hello.
Connect(c) ==
  /\ phase[c] = "closed"
  /\ phase' = [phase EXCEPT ![c] = "handshake"]
  /\ UNCHANGED <<sessions, step, current, link, drawn, replaced>>

\* A Hello of the right version.
Hello(c) ==
  /\ phase[c] = "handshake"
  /\ phase' = [phase EXCEPT ![c] = "open"]
  /\ UNCHANGED <<sessions, step, current, link, drawn, replaced>>

\* The loop ends: the forwarder at hand is aborted, the locals are dropped.
CleanUp(c) ==
  /\ phase' = [phase EXCEPT ![c] = "closed"]
  /\ current' = [current EXCEPT ![c] = NoName]
  /\ tasks' = [tasks EXCEPT ![c] = @ \ {handle[c]}]
  /\ handle' = [handle EXCEPT ![c] = NoOne]
  /\ drawn' = [drawn EXCEPT ![c] = NoOne]
  /\ replaced' = [replaced EXCEPT ![c] = FALSE]
  /\ UNCHANGED <<sessions, step>>

\* Another version or another message than Hello, a frame that is too long,
\* 45 minutes without a message, or the other side is gone.  A handler that
\* serves a request does not notice until it reads again.
Close(c) ==
  /\ c \in Client
  /\ phase[c] = "handshake" \/ Ready(c)
  /\ CleanUp(c)

-----------------------------------------------------------------------------
(***************************************************************************)
(* handle_attach.                                                          *)
(***************************************************************************)

\* Whether the session is new is looked up for the on_session_start hook; the
\* map is unlocked again before the session is created.
Attach(c, n) ==
  /\ c \in Client /\ Ready(c)
  /\ SetStep(c, [at |-> "create", name |-> n])
  /\ UNCHANGED <<sessions, phase, current, link, drawn, replaced>>

\* Mutant of GetOrCreate: a new session takes the place of the one there.
GetOrCreateAlways(n) ==
  /\ Len(nameOf) < MaxSession
  /\ nameOf' = Append(nameOf, n)
  /\ map' = [map EXCEPT ![n] = Len(nameOf) + 1]

\* get_or_create_and_attach, under the map lock.
GetOrCreate(n) ==
  IF map[n] # NoOne THEN UNCHANGED sessions
  ELSE /\ Len(nameOf) < MaxSession
       /\ nameOf' = Append(nameOf, n)
       /\ map' = [map EXCEPT ![n] = Len(nameOf) + 1]

\* It succeeds: current_session is set.
AttachCreate(c) ==
  LET n == step[c].name
  IN  /\ AtStep(c, "create") /\ c \in Client
      /\ GetOrCreate(n)
      /\ current' = [current EXCEPT ![c] = n]
      /\ replaced' = [replaced EXCEPT ![c] = FALSE]
      /\ SetStep(c, [at |-> "subscribe"])
      /\ UNCHANGED <<phase, link, drawn>>

\* The shell of a new session cannot be started: an error is the reply.
AttachFails(c) ==
  /\ AtStep(c, "create") /\ c \in Client
  /\ map[step[c].name] = NoOne
  /\ SetStep(c, Idle)
  /\ UNCHANGED <<sessions, phase, current, link, drawn, replaced>>

\* Mutant of Forward: the old task is not aborted.
ForwardToo(c, s) ==
  /\ tasks' = [tasks EXCEPT ![c] = @ \cup {s}]
  /\ handle' = [handle EXCEPT ![c] = s]

\* The old task is aborted and a new one serves session s.  (A message the old
\* one is about to put in the outbox changes nothing here.)
Forward(c, s) ==
  /\ tasks' = [tasks EXCEPT ![c] = (@ \ {handle[c]}) \cup {s}]
  /\ handle' = [handle EXCEPT ![c] = s]

\* Mutant of Subscribe: the session is assumed to be there still.
SubscribeUnchecked(c) ==
  /\ AtStep(c, "subscribe") /\ c \in Client
  /\ Forward(c, map[current[c]])
  /\ SetStep(c, [at |-> "refresh"])
  /\ UNCHANGED <<sessions, phase, current, drawn, replaced>>

\* The session is looked up again and subscribed to.  If it has been killed in
\* between, the connection keeps the forwarder it had.
Subscribe(c) ==
  LET s == map[current[c]]
  IN  /\ AtStep(c, "subscribe") /\ c \in Client
      /\ IF s = NoOne THEN UNCHANGED link ELSE Forward(c, s)
      /\ SetStep(c, [at |-> "refresh"])
      /\ UNCHANGED <<sessions, phase, current, drawn, replaced>>

\* Refresh and layout: the session is looked up once more.
Redraw(c) ==
  LET s == map[current[c]]
  IN  /\ AtStep(c, "refresh")
      /\ drawn' = IF s = NoOne THEN drawn ELSE [drawn EXCEPT ![c] = s]
      /\ SetStep(c, Idle)
      /\ UNCHANGED <<sessions, phase, current, link, replaced>>

-----------------------------------------------------------------------------
(***************************************************************************)
(* The other requests.                                                     *)
(***************************************************************************)

\* handle_detach forgets the name; the forwarder goes on.
Detach(c) ==
  /\ c \in Client /\ Ready(c)
  /\ current' = [current EXCEPT ![c] = NoName]
  /\ replaced' = [replaced EXCEPT ![c] = FALSE]
  /\ UNCHANGED <<sessions, phase, step, link, drawn>>

\* The peers that have named n lose their session.
Killed(n) ==
  replaced' = [c \in Peer |-> replaced[c] \/ current[c] = n]

\* kill_session, by any client that has said Hello.
KillSession(c, n) ==
  /\ c \in Client /\ Ready(c)
  /\ map[n] # NoOne
  /\ map' = [map EXCEPT ![n] = NoOne]
  /\ Killed(n)
  /\ UNCHANGED <<nameOf, phase, step, current, link, drawn>>

\* Any request about the session of the connection that draws it again, such as
\* FocusWindow: the name is looked up, and without a session it is ignored.
Request(c) ==
  /\ c \in Client /\ Ready(c)
  /\ current[c] # NoName
  /\ SetStep(c, [at |-> "refresh"])
  /\ UNCHANGED <<sessions, phase, current, link, drawn, replaced>>

\* A forwarder finds its channel closed: the session is out of the map, its
\* panes are dropped and their reader threads have ended.
TaskEnds(c, s) ==
  /\ s \in tasks[c]
  /\ \A n \in Name : map[n] # s
  /\ tasks' = [tasks EXCEPT ![c] = @ \ {s}]
  /\ UNCHANGED <<sessions, phase, step, current, handle, drawn, replaced>>

-----------------------------------------------------------------------------
(***************************************************************************)
(* A browser: one session for the life of the socket, no hooks, and the    *)
(* socket is the forwarder.                                                *)
(***************************************************************************)

\* handle_socket: the result of get_or_create_and_attach is ignored, so
\* a shell that cannot be started is found out by the next step.
BrowserConnect(b, n) ==
  /\ b \in Browser /\ phase[b] = "closed"
  /\ GetOrCreate(n) \/ (map[n] = NoOne /\ UNCHANGED sessions)
  /\ phase' = [phase EXCEPT ![b] = "open"]
  /\ current' = [current EXCEPT ![b] = n]
  /\ replaced' = [replaced EXCEPT ![b] = FALSE]
  /\ SetStep(b, [at |-> "subscribe"])
  /\ UNCHANGED <<link, drawn>>

\* The session is looked up and subscribed to; no session, no socket.
BrowserSubscribe(b) ==
  LET s == map[current[b]]
  IN  /\ AtStep(b, "subscribe") /\ b \in Browser
      /\ s # NoOne
      /\ Forward(b, s)
      /\ SetStep(b, Idle)
      /\ UNCHANGED <<sessions, phase, current, drawn, replaced>>

BrowserRefused(b) ==
  /\ AtStep(b, "subscribe") /\ b \in Browser
  /\ map[current[b]] = NoOne
  /\ phase' = [phase EXCEPT ![b] = "closed"]
  /\ current' = [current EXCEPT ![b] = NoName]
  /\ SetStep(b, Idle)
  /\ replaced' = [replaced EXCEPT ![b] = FALSE]
  /\ UNCHANGED <<sessions, link, drawn>>

\* The socket closes, or the session does and the loop ends with it.
BrowserClose(b) ==
  /\ b \in Browser /\ Ready(b)
  /\ CleanUp(b)

-----------------------------------------------------------------------------
ClientNext(c) ==
  \/ Connect(c) \/ Hello(c) \/ Close(c)
  \/ AttachCreate(c) \/ AttachFails(c) \/ Subscribe(c) \/ Redraw(c)
  \/ Detach(c) \/ Request(c)
  \/ \E n \in Name : Attach(c, n) \/ KillSession(c, n)

BrowserNext(b) ==
  \/ \E n \in Name : BrowserConnect(b, n)
  \/ BrowserSubscribe(b) \/ BrowserRefused(b) \/ BrowserClose(b)

Next ==
  \/ \E c \in Client : ClientNext(c)
  \/ \E b \in Browser : BrowserNext(b)
  \/ \E c \in Client, s \in Session : TaskEnds(c, s)

Spec == Init /\ [][Next]_vars

-----------------------------------------------------------------------------
(***************************************************************************)
(* Properties.                                                             *)
(***************************************************************************)

\* Every variable has its type; a session has one name, and a name one session.
TypeOK ==
  /\ map \in [Name -> {NoOne} \cup Session]
  /\ nameOf \in Seq(Name)
  /\ phase \in [Peer -> {"closed", "handshake", "open"}]
  /\ \A c \in Peer : step[c].at \in {"idle", "create", "subscribe", "refresh"}
  /\ current \in [Peer -> {NoName} \cup Name]
  /\ tasks \in [Peer -> SUBSET Session]
  /\ handle \in [Peer -> {NoOne} \cup Session]
  /\ drawn \in [Peer -> {NoOne} \cup Session]
  /\ replaced \in [Peer -> BOOLEAN]
  /\ \A n \in Name : map[n] # NoOne => nameOf[map[n]] = n

\* Output of one session only enters the outbox of a connection: a forwarder that
\* runs is the one the connection can abort, so a new attach or the end of the
\* connection stops it, and nothing runs for a closed connection
\* (session_dispatch.rs, handle_attach; handler.rs, the cleanup).
NoOrphanTask ==
  \A c \in Peer :
    /\ tasks[c] \subseteq {handle[c]}
    /\ phase[c] # "open" => tasks[c] = {}

\* The session that gets the requests of a connection is the one whose output it
\* receives and whose layout it was sent, unless that session was killed since
\* the attach began: two clients that attach to a new name at the same time end
\* up in the same session (session.rs, get_or_create_and_attach).
OneSessionServed ==
  \A c \in Peer :
    Ready(c) /\ current[c] # NoName /\ ~ replaced[c] =>
      /\ map[current[c]] # NoOne
      /\ tasks[c] = {map[current[c]]}
      /\ c \in Client => drawn[c] = map[current[c]]
=============================================================================
