------------------------------ MODULE Settings -------------------------------
(***************************************************************************)
(* The configuration file and those who read and write it: an editor, the  *)
(* watcher that reloads it (nexterm-config/src/watcher.rs, loader.rs), the *)
(* client's main thread that takes a reloaded configuration over, and the  *)
(* settings panel, whose fields mirror the configuration and which writes  *)
(* all of them back into the file (nexterm-client-gpu/src/settings/).      *)
(*                                                                         *)
(* A file holds a value for each field of the panel, and the user's own    *)
(* text: comments on lines of their own, settings the panel does not know, *)
(* and the keys of SSH hosts that it does not know.  The panel does not    *)
(* hold every value: `Shown' is the nearest one it does.  A host is the    *)
(* same host whatever the panel makes of its name.  `runtime_cfg' is       *)
(* stored in the step that stores the client's configuration, and is one   *)
(* with it here.  nexterm.lua, applied on top of every load, is left out.  *)
(***************************************************************************)
EXTENDS Integers, Sequences, FiniteSets

CONSTANTS
  Field,     \* the fields of the panel
  FontSize,  \* the one that keys change as well
  Hosts,     \* the one that holds the list of SSH hosts
  Host,      \* these hosts
  NewHost,   \* those the panel adds
  Values,    \* the values of each field; those of Hosts bound the lists
  Default,   \* its default
  Shown,     \* what the panel makes of a value
  Unwritten, \* the values that a save does not write
  Texts,     \* what the editor puts into the file
  Capacity,  \* of the channel of reloaded configurations
  MaxEdits,  \* bound on what the editor does
  MaxActions \* bound on what is done in the panel

\* A value for each field.
Sets == {set \in [Field -> UNION {Values[f] : f \in Field}] :
           \A f \in Field : set[f] \in Values[f]}

\* A text parses, or has an error in it; a file may also be missing.  The table of
\* the host number i has the keys of keys[i]; those the panel added have none.  A
\* list of hosts may also be written inline.
Good(set, own, keys, inline) ==
  [kind |-> "good", set |-> set, own |-> own, keys |-> keys, inline |-> inline]
Bad         == [Good(Default, TRUE, << >>, FALSE) EXCEPT !.kind = "bad"]
Missing     == [Good(Default, FALSE, << >>, FALSE) EXCEPT !.kind = "missing"]
DefaultFile == Good(Default, FALSE, << >>, FALSE)

Files ==
  [kind : {"good"}, set : Sets, own : BOOLEAN, keys : Seq(Host), inline : BOOLEAN]
    \cup {Bad, Missing}

ASSUME SettingsAssumption ==
  /\ FontSize \in Field /\ Hosts \in Field /\ FontSize # Hosts
  /\ Default \in Sets /\ Texts \subseteq Files
  /\ \A text \in Texts : text.kind = "good" => text.own
  /\ \A f \in Field : \A v \in Values[f] : Shown[f][v] \in Values[f]
  /\ Values[Hosts] \subseteq Seq(Host)
  /\ \A list \in Values[Hosts] : Shown[Hosts][list] = list /\ list \notin Unwritten[Hosts]
  /\ Capacity \in Nat \ {0} /\ MaxEdits \in Nat /\ MaxActions \in Nat

VARIABLES
  file,      \* nexterm.toml
  watching,  \* has watcher.watch been called?
  signal,    \* does the debounce task have a signal to receive?
  stage,     \* where that task is
  loaded,    \* what it has loaded and not sent: at most one
  last_sent, \* at most one
  queue,     \* the channel of configurations
  config,    \* the client's configuration
  panel,     \* the panel's fields
  is_open,
  saving,    \* what the main thread has read and is to write: at most one
  adjusted,  \* history: the fields the user changed since the panel was filled
  deleted,   \* history: did the user delete a host since then?
  zoomed,    \* history: did the user change the font size by keys since then?
  unseen,    \* history: did the file change before it was watched, and not since?
  edits, actions

watcher == <<watching, signal, stage, loaded, last_sent>>
client  == <<config, panel, is_open, saving, adjusted, deleted, zoomed>>
settingsVars == <<file, watcher, queue, client, unseen, edits, actions>>

\* ConfigLoader::load: a file that does not parse is the defaults, with an error.
Load(text) ==
  [set |-> text.set, own |-> text.own /\ text.kind = "good", keys |-> text.keys,
   error |-> text.kind = "bad"]

Configs == [set : Sets, own : BOOLEAN, keys : Seq(Host), error : BOOLEAN]

\* SettingsPanel::new does not hold every value: a padding is cut to 32, a scheme of
\* the user's own, a language and a profile that are not there become the first,
\* and lists that are joined to be edited are split elsewhere.
Filled(new) == [f \in Field |-> Shown[f][new.set[f]]]

SettingsInit ==
  /\ file \in (Texts \cup {DefaultFile}) \ {Missing}
  /\ watching = FALSE
  /\ signal = FALSE
  /\ stage = "idle"
  /\ loaded = {}
  /\ last_sent = {}
  /\ queue = << >>
  /\ config = Load(file)
  /\ panel = Filled(config)
  /\ is_open = FALSE
  /\ saving = {}
  /\ adjusted = {}
  /\ deleted = FALSE
  /\ zoomed = FALSE
  /\ unseen = FALSE
  /\ edits = 0
  /\ actions = 0

-----------------------------------------------------------------------------
(***************************************************************************)
(* The file changes, and notify tells the task if it watches.              *)
(***************************************************************************)

Becomes(text) ==
  /\ file' = text
  /\ signal' = (signal \/ watching)
  /\ unseen' = ~watching

\* Someone saves another text, breaks it, or removes the file, perhaps to put
\* another one in its place.
Edit(text) ==
  /\ edits < MaxEdits
  /\ edits' = edits + 1
  /\ text # file
  /\ Becomes(text)
  /\ UNCHANGED <<watching, stage, loaded, last_sent, queue, client, actions>>

-----------------------------------------------------------------------------
(***************************************************************************)
(* The watcher.                                                            *)
(***************************************************************************)

StartWatch ==
  /\ ~watching
  /\ watching' = TRUE
  /\ UNCHANGED <<file, signal, stage, loaded, last_sent, queue, client, unseen, edits, actions>>

Task(from, to) ==
  /\ stage = from
  /\ stage' = to
  /\ UNCHANGED <<watching, client, edits, actions>>

\* The first signal, and each one within the window, begins the wait anew.
Signalled ==
  /\ signal
  /\ signal' = FALSE
  /\ Task("idle", "waiting") \/ Task("waiting", "waiting")
  /\ UNCHANGED <<file, loaded, last_sent, queue, unseen>>

\* The window is over; a signal may have come in the same instant.
Quiet ==
  /\ Task("waiting", "load")
  /\ UNCHANGED <<file, signal, loaded, last_sent, queue, unseen>>

\* A configuration equal to the last one is not sent again.
Forward(new) ==
  IF last_sent = {new}
    THEN stage' = "idle" /\ UNCHANGED <<loaded, last_sent>>
    ELSE stage' = "send" /\ loaded' = {new} /\ last_sent' = {new}

Reload ==
  /\ stage = "load" /\ file # Missing
  /\ Forward(Load(file))
  /\ UNCHANGED <<file, watching, signal, queue, client, unseen, edits, actions>>

\* No file is there: the default one is written in a second step, or cannot be.
ReloadMissing ==
  /\ file = Missing
  /\ Task("load", "default")
  /\ UNCHANGED <<file, signal, loaded, last_sent, queue, unseen>>

WriteDefault ==
  /\ stage = "default"
  /\ Becomes(DefaultFile) \/ UNCHANGED <<file, signal, unseen>>
  /\ Forward(Load(DefaultFile))
  /\ UNCHANGED <<watching, queue, client, edits, actions>>

\* Mutant of Send: the signals of the meantime are taken for those of this change.
Send_drains ==
  /\ Task("send", "idle")
  /\ Len(queue) < Capacity
  /\ \E new \in loaded : queue' = Append(queue, new)
  /\ loaded' = {}
  /\ signal' = FALSE
  /\ UNCHANGED <<file, last_sent, unseen>>

\* The task waits for room.
Send ==
  /\ Task("send", "idle")
  /\ Len(queue) < Capacity
  /\ \E new \in loaded : queue' = Append(queue, new)
  /\ loaded' = {}
  /\ UNCHANGED <<file, signal, last_sent, unseen>>

-----------------------------------------------------------------------------
(***************************************************************************)
(* The client's main thread.  It does nothing else between the two steps   *)
(* of a save.                                                              *)
(***************************************************************************)

\* Mutant of Resynced: only a panel that is open is filled.
Resynced_if_open(new) == IF is_open THEN Filled(new) ELSE panel

\* Open or not, the panel is filled from the new configuration.
Resynced(new) == Filled(new)

\* One configuration is taken each time the loop comes round.
Take ==
  /\ saving = {} /\ queue # << >>
  /\ config' = Head(queue)
  /\ queue' = Tail(queue)
  /\ panel' = Resynced(Head(queue))
  /\ adjusted' = {} /\ deleted' = FALSE /\ zoomed' = FALSE
  /\ UNCHANGED <<file, watcher, is_open, saving, unseen, edits, actions>>

UserActs ==
  /\ saving = {}
  /\ actions < MaxActions
  /\ actions' = actions + 1
  /\ UNCHANGED <<file, watcher, queue, unseen, edits>>

\* Keys that zoom change the client's configuration, not its panel or the file.
Zoom(v) ==
  /\ UserActs /\ ~is_open /\ config.set[FontSize] # v
  /\ config' = [config EXCEPT !.set[FontSize] = v]
  /\ zoomed' = TRUE
  /\ UNCHANGED <<panel, is_open, saving, adjusted, deleted>>

InPanel == UserActs /\ UNCHANGED <<config, zoomed>>

\* The panel is not filled anew.
Open ==
  /\ InPanel /\ ~is_open
  /\ is_open' = TRUE
  /\ UNCHANGED <<panel, saving, adjusted, deleted>>

Adjusted(f, v) ==
  /\ InPanel /\ is_open
  /\ v \in Values[f]
  /\ panel' = [panel EXCEPT ![f] = v]
  /\ adjusted' = adjusted \cup {f}
  /\ UNCHANGED <<is_open, saving>>

\* The panel's widgets reach the values it holds.
Adjust(f, v) ==
  /\ f # Hosts
  /\ \E w \in Values[f] : v = Shown[f][w]
  /\ Adjusted(f, v)
  /\ UNCHANGED deleted

AddHost == Adjusted(Hosts, Append(panel[Hosts], NewHost)) /\ UNCHANGED deleted

DeleteHost(i) ==
  /\ i \in DOMAIN panel[Hosts]
  /\ Adjusted(Hosts, [j \in 1 .. Len(panel[Hosts]) - 1 |->
                        IF j < i THEN panel[Hosts][j] ELSE panel[Hosts][j + 1]])
  /\ deleted' = TRUE

\* Escape closes the panel and leaves its fields.
Close ==
  /\ InPanel /\ is_open
  /\ is_open' = FALSE
  /\ UNCHANGED <<panel, saving, adjusted, deleted>>

\* The hosts are written over the tables in their order, and the surplus tables
\* dropped from the tail: a table keeps its other keys, whichever host it was of.  A
\* list that is not one of tables is rebuilt without them.
HostKeys(text) ==
  IF text.inline
    THEN << >>
    ELSE SubSeq(text.keys, 1, IF Len(text.keys) <= Len(panel[Hosts])
                                THEN Len(text.keys) ELSE Len(panel[Hosts]))

\* A field that is blank is not written, and the text keeps its value.
Written(text) == [f \in Field |-> IF panel[f] \in Unwritten[f] THEN text.set[f] ELSE panel[f]]

\* Mutant of Saved: the document is written anew.
Saved_anew(text) == Good(Written(text), FALSE, << >>, FALSE)

\* The fields are put into the text that was read; one that does not parse counts
\* as empty.
Saved(text) == Good(Written(text), text.kind = "good" /\ text.own, HostKeys(text), FALSE)

\* Is the last change of the file still on its way to the client?
InFlight == signal \/ stage # "idle" \/ queue # << >>

\* Enter saves and closes, the release of a slider only saves.  `sure' is history:
\* the panel was filled from this text and no host deleted since.
Save ==
  /\ InPanel /\ is_open
  /\ \E closes \in BOOLEAN : is_open' = ~closes
  /\ saving' = {[read |-> file, text |-> Saved(file), retried |-> FALSE,
                 sure |-> ~InFlight /\ ~unseen /\ ~deleted]}
  /\ UNCHANGED <<panel, adjusted, deleted>>

\* On Windows, a rename that fails is tried again after removing the file.
SaveRemove ==
  /\ file # Missing
  /\ \E save \in saving : ~save.retried /\ saving' = {[save EXCEPT !.retried = TRUE]}
  /\ Becomes(Missing)
  /\ UNCHANGED <<watching, stage, loaded, last_sent, queue, config, panel, is_open, adjusted,
                 deleted, zoomed, edits, actions>>

SaveRename ==
  /\ saving # {}
  /\ saving' = {}
  /\ \E save \in saving : Becomes(save.text)
  /\ UNCHANGED <<watching, stage, loaded, last_sent, queue, config, panel, is_open, adjusted,
                 deleted, zoomed, edits, actions>>

\* An error is dropped, and a file that was removed stays away.
SaveFails ==
  /\ saving # {}
  /\ saving' = {}
  /\ UNCHANGED <<file, watcher, queue, config, panel, is_open, adjusted, deleted, zoomed, unseen,
                 edits, actions>>

-----------------------------------------------------------------------------

Debounce == Signalled \/ Quiet \/ Reload \/ ReloadMissing \/ WriteDefault

SettingsNext ==
  \/ \E text \in Texts : Edit(text)
  \/ StartWatch
  \/ Signalled \/ Quiet \/ Reload \/ ReloadMissing \/ WriteDefault \/ Send
  \/ Take
  \/ Open \/ Close \/ Save
  \/ \E v \in Values[FontSize] : Zoom(v)
  \/ \E f \in Field : \E v \in Values[f] : Adjust(f, v)
  \/ AddHost
  \/ \E i \in DOMAIN panel[Hosts] : DeleteHost(i)
  \/ SaveRemove \/ SaveRename \/ SaveFails

\* The watcher starts, its task and the main thread go on, and each window ends.
SettingsFairness ==
  /\ WF_settingsVars(StartWatch) /\ WF_settingsVars(Debounce) /\ WF_settingsVars(Send)
  /\ WF_settingsVars(Take) /\ WF_settingsVars(SaveRename \/ SaveFails)

SettingsSpec     == SettingsInit /\ [][SettingsNext]_settingsVars
SettingsFairSpec == SettingsSpec /\ SettingsFairness

-----------------------------------------------------------------------------
(***************************************************************************)
(* Properties.                                                             *)
(***************************************************************************)

\* The type of the state.
SettingsTypeOK ==
  /\ file \in Files
  /\ watching \in BOOLEAN /\ signal \in BOOLEAN /\ unseen \in BOOLEAN
  /\ is_open \in BOOLEAN /\ zoomed \in BOOLEAN /\ deleted \in BOOLEAN
  /\ stage \in {"idle", "waiting", "load", "default", "send"}
  /\ loaded \subseteq Configs /\ last_sent \subseteq Configs
  /\ queue \in Seq(Configs) /\ Len(queue) <= Capacity
  /\ config \in Configs
  /\ panel \in Sets
  /\ saving \subseteq [read : Files, text : Files, retried : BOOLEAN, sure : BOOLEAN]
  /\ Cardinality(loaded) <= 1 /\ Cardinality(last_sent) <= 1 /\ Cardinality(saving) <= 1
  /\ adjusted \subseteq Field
  /\ edits \in 0 .. MaxEdits /\ actions \in 0 .. MaxActions

\* The list new begins with the list old.
Continues(new, old) == Len(old) <= Len(new) /\ \A i \in DOMAIN old : new[i] = old[i]

\* When no reload is on its way, the client runs on the file but for a zoom, and
\* the panel shows the file but for what the user adjusted since it was filled:
\* whatever was coalesced, suppressed as equal, queued or reloaded while the
\* panel was closed, a save then changes nothing else but what the panel cannot
\* show.  Unless one was deleted in the panel, it has the hosts of the file first.
QuietPanelIsFile ==
  InFlight \/ unseen \/
    /\ zoomed \/ config = Load(file)
    /\ \A f \in Field \ adjusted : panel[f] = Shown[f][file.set[f]]
    /\ deleted \/ Continues(panel[Hosts], file.set[Hosts])

\* The hosts whose keys are in their own table.
WithTheirKeys(text) ==
  {text.keys[i] : i \in {j \in DOMAIN text.keys \cap DOMAIN text.set[Hosts] :
                           text.keys[j] = text.set[Hosts][j]}}

\* A step keeps the user's own text, except over a file that does not parse, which a
\* save and a load take for empty, or one that changed after the save read it, or
\* after the load missed it.
OwnTextStays ==
  file.own /\ ~file'.own =>
    \/ file'.kind = "missing"
    \/ file.kind = "bad"
    \/ \E save \in saving : save.read # file
    \/ stage = "default"

\* A save leaves every host its keys, if the list is one of tables and no host was
\* deleted in the panel.
HostKeysStay ==
  \A save \in saving :
    saving' = {} /\ save.sure /\ save.read = file /\ ~file.inline =>
      WithTheirKeys(file) \subseteq WithTheirKeys(file')

\* "settings GUI writes back preserving comments" (docs/PRODUCT.md:76), and
\* "Unmanaged fields ... are left untouched" (settings/ssh.rs:311-312), so far as
\* that is so.  The keys go by the index of the host: that they stay with it needs
\* a panel that has the hosts of the file in their order whenever nothing is on its
\* way, whatever was coalesced, suppressed or queued.
OwnTextKept == [][OwnTextStays /\ HostKeysStay]_settingsVars

\* Once nobody edits or saves, the client runs on what the file says, unless that
\* changed between the first load and the start of the watcher, or zooms.
Settles == <>[](unseen \/ zoomed \/ config = Load(file))

\* "the change reaches disk only via the existing save path (Cancel still
\* reverts)" (renderer/event_handler/mouse.rs:907-908).
CancelReverts ==
  ~is_open /\ ~InFlight /\ saving = {} /\ ~unseen /\ file.kind # "bad" =>
    panel = Filled(Load(file))
=============================================================================
