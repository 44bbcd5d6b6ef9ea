----------------------------- MODULE MCRestart ------------------------------
(* Model-checking instance of Restart. *)
EXTENDS Restart

\* One kind of trouble at a time, and no floating pane with it.  A session whose
\* trees are torn is followed until it is saved, and from there through kills and
\* restarts only.
FewTroubles ==
  /\ Cardinality(troubles \cup saved.troubles) <= 1
  /\ troubles # {} => \A i \in DOMAIN windows : windows[i].floating = {}
  /\ ~ NotTorn(troubles) => disk = Nothing \/ disk = session_snapshot(windows, focused)
  /\ ~ NotTorn(saved.troubles) => ~ exists \/ ~ NotTorn(troubles)

\* After a foreign swap no request changes a window: the session is saved, killed
\* and restored.
SwapIsLast ==
  "foreign" \in troubles =>
    \/ windows' = windows
    \/ ~ exists'
    \/ \A i \in DOMAIN windows' :
         i \in DOMAIN disk.windows /\ windows'[i] = window_restored(disk.windows[i])
=============================================================================
