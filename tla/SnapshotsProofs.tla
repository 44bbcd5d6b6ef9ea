-------------------------- MODULE SnapshotsProofs ---------------------------
(***************************************************************************)
(* Theorems about Workspaces, and about Snapshots, which adds the file.    *)
(***************************************************************************)
EXTENDS Snapshots, FiniteSetTheorems, SequenceTheorems, TLAPS

(***************************************************************************)
(* Theorems about Workspaces.  The first two hold of everything the code   *)
(* does.  The third, that sessions stay in known workspaces, holds when    *)
(* renames and deletions do not overlap and no session is created during a *)
(* deletion; the invariant that proves it says where, in the middle of an  *)
(* operation, the sessions are that do not belong to a known workspace.    *)
(***************************************************************************)

-----------------------------------------------------------------------------
(***************************************************************************)
(* What a step does to op.                                                 *)
(***************************************************************************)

\* SetOp changes the operation of one connection.
LEMMA SetOpEffect ==
  ASSUME NEW S, op \in [Client -> S], NEW c \in Client, NEW o, SetOp(c, o)
  PROVE  /\ op'[c] = o
         /\ \A d \in Client : d # c => op'[d] = op[d]
         /\ \A T : S \subseteq T /\ o \in T => op' \in [Client -> T]
BY DEF SetOp

\* The records an operation can be.
LEMMA OpRecords ==
  ASSUME NEW N, NEW S
  PROVE  /\ Idle \in OpOver(N, S)
         /\ \A w \in N : Creating(w) \in OpOver(N, S)
         /\ \A f, t \in N : Collecting(f, t) \in OpOver(N, S)
         /\ \A f, t \in N, todo \in SUBSET S : Renaming(f, t, todo) \in OpOver(N, S)
         /\ \A n \in N, force \in BOOLEAN, arcs, todo \in SUBSET S, k \in Nat :
              Counting(n, force, arcs, todo, k) \in OpOver(N, S)
         /\ \A n \in N, todo \in SUBSET S : Migrating(n, todo) \in OpOver(N, S)
BY DEF OpOver, Idle, Creating, Collecting, Renaming, Counting, Migrating

\* The fields of an operation, by its step.
FieldsOK(o, N, S) ==
  /\ o.at = "create" => o.ws \in N
  /\ o.at = "rename collect" => o.from \in N /\ o.to \in N
  /\ o.at = "rename sessions" => o.from \in N /\ o.to \in N /\ o.todo \in SUBSET S
  /\ o.at = "delete count" =>
       /\ o.name \in N /\ o.force \in BOOLEAN /\ o.count \in Nat
       /\ o.arcs \in SUBSET S /\ o.todo \in SUBSET S
  /\ o.at = "delete migrate" => o.name \in N /\ o.todo \in SUBSET S

\* Each operation has the fields its step says.
LEMMA OpFields ==
  ASSUME NEW N, NEW S, NEW o \in OpOver(N, S)
  PROVE  FieldsOK(o, N, S)
<1> USE DEF FieldsOK
<1>1. CASE o = Idle
  BY <1>1 DEF Idle
<1>2. CASE o \in [at : {"create"}, ws : N]
  BY <1>2
<1>3. CASE o \in [at : {"rename collect"}, from : N, to : N]
  BY <1>3
<1>4. CASE o \in [at : {"rename sessions"}, from : N, to : N, todo : SUBSET S]
  BY <1>4
<1>5. CASE o \in [at : {"delete count"}, name : N, force : BOOLEAN, arcs : SUBSET S,
                  todo : SUBSET S, count : Nat]
  BY <1>5
<1>6. CASE o \in [at : {"delete migrate"}, name : N, todo : SUBSET S]
  BY <1>6
<1> QED
  BY <1>1, <1>2, <1>3, <1>4, <1>5, <1>6 DEF OpOver

\* More sessions, more operations.
LEMMA OpOverMonotone ==
  ASSUME NEW N, NEW S, NEW T, S \subseteq T
  PROVE  OpOver(N, S) \subseteq OpOver(N, T)
<1>1. SUBSET S \subseteq SUBSET T
  OBVIOUS
<1> QED
  BY <1>1 DEF OpOver

-----------------------------------------------------------------------------
(***************************************************************************)
(* Type correctness, and the current workspace.                            *)
(***************************************************************************)

\* The part of TypeOK about operations, and the part about the rest.
OpTypeOK ==
  /\ op \in [Client -> OpOver(Name, Sessions)]
  /\ \A c, d \in Client : AtStep(c, "create") /\ AtStep(d, "create") => c = d

DataTypeOK ==
  /\ known \subseteq Name /\ current \in Name
  /\ workspaceOf \in Seq(Name) /\ live \subseteq Sessions

\* TypeOK is its two parts, before and after a step.
LEMMA TypeParts ==
  /\ TypeOK <=> DataTypeOK /\ OpTypeOK
  /\ TypeOK' <=> DataTypeOK' /\ OpTypeOK'
BY DEF TypeOK, DataTypeOK, OpTypeOK

\* A step that sets the operation of one connection keeps the types of all.
LEMMA SetOpTypes ==
  ASSUME OpTypeOK, NEW c \in Client, NEW o \in OpOver(Name, Sessions), SetOp(c, o),
         o.at = "create" => ~ MapLocked,
         Sessions \subseteq Sessions'
  PROVE  OpTypeOK'
<1>1. op \in [Client -> OpOver(Name, Sessions)]
  BY DEF OpTypeOK
<1>2. op' \in [Client -> OpOver(Name, Sessions)]
  BY <1>1 DEF SetOp
<1>3. OpOver(Name, Sessions) \subseteq OpOver(Name, Sessions')
  BY OpOverMonotone
<1>4. op' \in [Client -> OpOver(Name, Sessions')]
  BY <1>2, <1>3
<1>5. ASSUME NEW a \in Client, NEW b \in Client, op'[a].at = "create", op'[b].at = "create"
      PROVE  a = b
  <2>1. op'[c] = o /\ \A d \in Client : d # c => op'[d] = op[d]
    BY <1>1, SetOpEffect
  <2>2. CASE o.at = "create"
    BY <2>1, <2>2, <1>5 DEF MapLocked, AtStep
  <2>3. CASE o.at # "create"
    BY <2>1, <2>3, <1>5 DEF OpTypeOK, AtStep
  <2> QED
    BY <2>2, <2>3
<1> OpOver(Name, Sessions)' = OpOver(Name, Sessions')
  BY DEF OpOver
<1> QED
  BY <1>4, <1>5 DEF OpTypeOK, AtStep

\* The fields of the operation of a connection.
LEMMA FieldTypes ==
  ASSUME OpTypeOK, NEW c \in Client
  PROVE  FieldsOK(op[c], Name, Sessions)
<1>1. op[c] \in OpOver(Name, Sessions)
  BY DEF OpTypeOK
<1> QED
  BY <1>1, OpFields

\* A session changes its workspace, or none does.
LEMMA MoveSession ==
  ASSUME workspaceOf \in Seq(Name), NEW s \in Sessions, NEW n \in Name,
         workspaceOf' = [workspaceOf EXCEPT ![s] = n]
  PROVE  workspaceOf' \in Seq(Name) /\ Sessions' = Sessions
<1>1. workspaceOf' \in [Sessions -> Name] /\ Len(workspaceOf) \in Nat
  BY DEF Sessions
<1>2. Len(workspaceOf') = Len(workspaceOf)
  OBVIOUS
<1> QED
  BY <1>1, <1>2 DEF Sessions

\* The steps of a creation keep the types.
LEMMA CreateTypes ==
  ASSUME TypeOK, NEW c \in Client, Create(c)
  PROVE  TypeOK'
<1> DataTypeOK /\ OpTypeOK
  BY TypeParts
<1>1. CASE CreateSession(c)
  <2>1. Creating(current) \in OpOver(Name, Sessions)
    BY OpRecords DEF DataTypeOK
  <2> Sessions' = Sessions
    BY <1>1 DEF CreateSession, Sessions
  <2>2. OpTypeOK'
    BY <1>1, <2>1, SetOpTypes DEF CreateSession
  <2> QED
    BY <1>1, <2>1, <2>2, TypeParts DEF CreateSession, DataTypeOK, state
<1>2. CASE InsertSession(c)
  <2> op[c].ws \in Name
    BY <1>2, FieldTypes DEF FieldsOK, AtStep, InsertSession
  <2>1. workspaceOf' \in Seq(Name) /\ Len(workspaceOf') = Len(workspaceOf) + 1
    BY <1>2 DEF InsertSession, DataTypeOK
  <2>2. Sessions \subseteq Sessions' /\ Len(workspaceOf) + 1 \in Sessions'
    BY <2>1 DEF Sessions, DataTypeOK
  <2>3. OpTypeOK'
    <3> Idle.at # "create" /\ Idle \in OpOver(Name, Sessions)
      BY OpRecords DEF Idle
    <3> QED
      BY <1>2, <2>2, SetOpTypes DEF InsertSession
  <2> QED
    BY <1>2, <2>1, <2>2, <2>3, TypeParts DEF InsertSession, DataTypeOK, state
<1>3. CASE CreateFails(c)
  <2>1. Idle.at # "create" /\ Sessions' = Sessions /\ Idle \in OpOver(Name, Sessions)
    BY <1>3, OpRecords DEF Idle, CreateFails, Sessions
  <2>2. OpTypeOK'
    BY <1>3, <2>1, SetOpTypes DEF CreateFails
  <2> QED
    BY <1>3, <2>1, <2>2, TypeParts DEF CreateFails, DataTypeOK, state
<1> QED
  BY <1>1, <1>2, <1>3 DEF Create

\* The steps of a rename keep the types.
LEMMA RenameTypes ==
  ASSUME TypeOK, NEW c \in Client, Rename(c)
  PROVE  TypeOK'
<1> DataTypeOK /\ OpTypeOK
  BY TypeParts
<1>1. ASSUME NEW from \in Name, NEW to \in Name, RenameWorkspace(c, from, to)
      PROVE  TypeOK'
  <2>1. Sessions' = Sessions /\ Collecting(from, to).at # "create"
    BY <1>1 DEF RenameWorkspace, Sessions, Collecting
  <2>2. Collecting(from, to) \in OpOver(Name, Sessions)
    BY OpRecords
  <2>3. OpTypeOK'
    BY <1>1, <2>1, <2>2, SetOpTypes DEF RenameWorkspace
  <2> QED
    BY <1>1, <2>1, <2>3, TypeParts DEF RenameWorkspace, DataTypeOK
<1>2. CASE RenameCollect(c)
  <2> DEFINE o == Renaming(op[c].from, op[c].to, live)
  <2>1. Sessions' = Sessions /\ o.at # "create"
    BY <1>2 DEF RenameCollect, Sessions, Renaming
  <2>2. o \in OpOver(Name, Sessions)
    BY <1>2, FieldTypes, OpRecords DEF FieldsOK, AtStep, RenameCollect, DataTypeOK
  <2>3. OpTypeOK'
    BY <1>2, <2>1, <2>2, SetOpTypes DEF RenameCollect
  <2> QED
    BY <1>2, <2>1, <2>3, TypeParts DEF RenameCollect, DataTypeOK, state
<1>3. CASE RenameDone(c)
  <2>1. Sessions' = Sessions /\ Idle.at # "create" /\ Idle \in OpOver(Name, Sessions)
    BY <1>3, OpRecords DEF RenameDone, Sessions, Idle
  <2>2. OpTypeOK'
    BY <1>3, <2>1, SetOpTypes DEF RenameDone
  <2> QED
    BY <1>3, <2>1, <2>2, TypeParts DEF RenameDone, DataTypeOK, state
<1>4. ASSUME NEW s \in Sessions, RenameSession(c, s)
      PROVE  TypeOK'
  <2> DEFINE o == Renaming(op[c].from, op[c].to, op[c].todo \ {s})
             n == IF workspaceOf[s] = op[c].from THEN op[c].to ELSE workspaceOf[s]
  <2>1. n \in Name /\ o \in OpOver(Name, Sessions) /\ o.at # "create"
    <3>1. workspaceOf[s] \in Name
      BY DEF DataTypeOK, Sessions
    <3>2. op[c].from \in Name /\ op[c].to \in Name /\ op[c].todo \ {s} \in SUBSET Sessions
      BY <1>4, FieldTypes DEF FieldsOK, AtStep, RenameSession
    <3> QED
      BY <3>1, <3>2, OpRecords DEF Renaming
  <2>2. workspaceOf' = [workspaceOf EXCEPT ![s] = n]
    BY <1>4 DEF RenameSession
  <2>3. workspaceOf' \in Seq(Name) /\ Sessions' = Sessions
    BY <2>1, <2>2, MoveSession DEF DataTypeOK
  <2>4. OpTypeOK'
    BY <1>4, <2>1, <2>3, SetOpTypes DEF RenameSession
  <2> QED
    BY <1>4, <2>3, <2>4, TypeParts DEF RenameSession, DataTypeOK, state
<1> QED
  BY <1>1, <1>2, <1>3, <1>4 DEF Rename

\* Counting one more session.
LEMMA CountMore == \A i \in Nat : i + 1 \in Nat
OBVIOUS

\* A count that was increased is not 0.
LEMMA CountPositive == \A i \in Nat : i + 1 # 0
OBVIOUS

\* The steps of a deletion keep the types.
LEMMA DeleteTypes ==
  ASSUME TypeOK, NEW c \in Client, Delete(c)
  PROVE  TypeOK'
<1> DataTypeOK /\ OpTypeOK
  BY TypeParts
<1>1. ASSUME NEW name \in Name, NEW force \in BOOLEAN, DeleteWorkspace(c, name, force)
      PROVE  TypeOK'
  <2> DEFINE o == Counting(name, force, live, live, 0)
  <2>1. Sessions' = Sessions /\ o.at # "create"
    BY <1>1 DEF DeleteWorkspace, Sessions, Counting
  <2>2. o \in OpOver(Name, Sessions)
    BY OpRecords DEF DataTypeOK
  <2>3. OpTypeOK'
    BY <1>1, <2>1, <2>2, SetOpTypes DEF DeleteWorkspace
  <2> QED
    BY <1>1, <2>1, <2>3, TypeParts DEF DeleteWorkspace, DataTypeOK, state
<1>2. CASE DeleteRefused(c) \/ DeleteDone(c)
  <2>1. Sessions' = Sessions /\ Idle.at # "create" /\ Idle \in OpOver(Name, Sessions)
    BY <1>2, OpRecords DEF DeleteRefused, DeleteDone, Sessions, Idle
  <2>2. OpTypeOK'
    BY <1>2, <2>1, SetOpTypes DEF DeleteRefused, DeleteDone
  <2> QED
    BY <1>2, <2>1, <2>2, TypeParts DEF DeleteRefused, DeleteDone, DataTypeOK, state
<1>3. CASE DeleteFromKnown(c)
  <2> DEFINE o == Migrating(op[c].name, ToMigrate(c))
  <2>1. Sessions' = Sessions /\ o.at # "create"
    BY <1>3 DEF DeleteFromKnown, Sessions, Migrating
  <2>2. o \in OpOver(Name, Sessions)
    BY <1>3, FieldTypes, OpRecords DEF FieldsOK, AtStep, DeleteFromKnown, ToMigrate
  <2>3. OpTypeOK'
    BY <1>3, <2>1, <2>2, SetOpTypes DEF DeleteFromKnown
  <2>4. known' \subseteq Name /\ current' \in Name
    BY <1>3, WorkspacesAssumption DEF DeleteFromKnown, CurrentAfterDelete, DataTypeOK
  <2> QED
    BY <1>3, <2>1, <2>3, <2>4, TypeParts DEF DeleteFromKnown, DataTypeOK
<1>4. ASSUME NEW s \in Sessions, DeleteCount(c, s)
      PROVE  TypeOK'
  <2> DEFINE k == IF workspaceOf[s] = op[c].name THEN op[c].count + 1 ELSE op[c].count
             o == Counting(op[c].name, op[c].force, op[c].arcs, op[c].todo \ {s}, k)
  <2>1. Sessions' = Sessions /\ o.at # "create"
    BY <1>4 DEF DeleteCount, Sessions, Counting
  <2>2. o \in OpOver(Name, Sessions)
    <3> AtStep(c, "delete count")
      BY <1>4 DEF DeleteCount
    <3>1. /\ op[c].name \in Name /\ op[c].force \in BOOLEAN /\ op[c].count \in Nat
          /\ op[c].arcs \in SUBSET Sessions /\ op[c].todo \in SUBSET Sessions
      BY FieldTypes DEF FieldsOK, AtStep
    <3>2. op[c].todo \ {s} \in SUBSET Sessions
      BY <3>1
    <3>3. op[c].count \in Nat
      BY <3>1
    <3>4. k \in Nat
      <4>1. op[c].count + 1 \in Nat
        BY <3>3, CountMore, Zenon
      <4> QED
        BY <3>3, <4>1, Zenon
    <3> QED
      BY <3>1, <3>2, <3>4, OpRecords
  <2>3. OpTypeOK'
    BY <1>4, <2>1, <2>2, SetOpTypes DEF DeleteCount
  <2> QED
    BY <1>4, <2>1, <2>3, TypeParts DEF DeleteCount, DataTypeOK, state
<1>5. ASSUME NEW s \in Sessions, DeleteMigrate(c, s)
      PROVE  TypeOK'
  <2> DEFINE o == Migrating(op[c].name, op[c].todo \ {s})
             n == IF workspaceOf[s] = op[c].name THEN Default ELSE workspaceOf[s]
  <2>1. n \in Name /\ o \in OpOver(Name, Sessions) /\ o.at # "create"
    <3>1. workspaceOf[s] \in Name /\ Default \in Name
      BY WorkspacesAssumption DEF DataTypeOK, Sessions
    <3>2. op[c].name \in Name /\ op[c].todo \ {s} \in SUBSET Sessions
      BY <1>5, FieldTypes DEF FieldsOK, AtStep, DeleteMigrate
    <3> QED
      BY <3>1, <3>2, OpRecords DEF Migrating
  <2>2. workspaceOf' = [workspaceOf EXCEPT ![s] = n]
    BY <1>5 DEF DeleteMigrate
  <2>3. workspaceOf' \in Seq(Name) /\ Sessions' = Sessions
    BY <2>1, <2>2, MoveSession DEF DataTypeOK
  <2>4. OpTypeOK'
    BY <1>5, <2>1, <2>3, SetOpTypes DEF DeleteMigrate
  <2> QED
    BY <1>5, <2>3, <2>4, TypeParts DEF DeleteMigrate, DataTypeOK, state
<1> QED
  BY <1>1, <1>2, <1>3, <1>4, <1>5 DEF Delete

\* Every request keeps the types.
LEMMA TypeStep == TypeOK /\ [Next]_vars => TypeOK'
<1> SUFFICES ASSUME TypeOK, [Next]_vars PROVE TypeOK'
  OBVIOUS
<1> DataTypeOK /\ OpTypeOK
  BY TypeParts
<1>1. CASE UNCHANGED vars
  BY <1>1 DEF TypeOK, vars, state, Sessions, AtStep, OpOver, Idle
<1>2. ASSUME NEW c \in Client, NEW s \in Sessions, KillSession(c, s)
      PROVE  TypeOK'
  <2>1. live' \subseteq Sessions' /\ Sessions' = Sessions /\ OpTypeOK'
    BY <1>2 DEF KillSession, DataTypeOK, OpTypeOK, Sessions, AtStep, OpOver, Idle
  <2> QED
    BY <1>2, <2>1, TypeParts DEF KillSession, DataTypeOK, state
<1>3. ASSUME NEW c \in Client, NEW name \in Name,
             CreateWorkspace(c, name) \/ SwitchWorkspace(c, name)
      PROVE  TypeOK'
  <2>1. Sessions' = Sessions /\ OpTypeOK'
    BY <1>3 DEF CreateWorkspace, SwitchWorkspace, OpTypeOK, Sessions, AtStep, OpOver, Idle
  <2> QED
    BY <1>3, <2>1, TypeParts DEF CreateWorkspace, SwitchWorkspace, DataTypeOK
<1> QED
  BY <1>1, <1>2, <1>3, CreateTypes, RenameTypes, DeleteTypes DEF Next

\* No operation is under way initially.
LEMMA InitTypes == Init => TypeOK
BY WorkspacesAssumption DEF Init, TypeOK, Sessions, OpOver, AtStep, Idle

\* Every variable always has its type (Workspaces, TypeOK): in particular two
\* sessions are never inserted at once, as the map stays locked meanwhile.
THEOREM TypeCorrect == Spec => []TypeOK
BY InitTypes, TypeStep, PTL DEF Spec

-----------------------------------------------------------------------------
(***************************************************************************)
(* The current workspace.  A deletion under way is never of `default`.     *)
(***************************************************************************)

NeverDefault == \A c \in Client : AtStep(c, "delete count") => op[c].name # Default

\* A step that sets one operation to anything but a deletion of `default`.
LEMMA SetOpNeverDefault ==
  ASSUME OpTypeOK, NeverDefault, NEW c \in Client, NEW o, SetOp(c, o),
         o.at = "delete count" => o.name # Default
  PROVE  NeverDefault'
<1>1. op'[c] = o /\ \A d \in Client : d # c => op'[d] = op[d]
  BY SetOpEffect DEF OpTypeOK
<1> QED
  BY <1>1 DEF NeverDefault, AtStep

LEMMA CurrentStep == TypeOK /\ CurrentIsKnown /\ NeverDefault /\ [Next]_vars
                       => CurrentIsKnown' /\ NeverDefault'
<1> SUFFICES ASSUME TypeOK, CurrentIsKnown, NeverDefault, [Next]_vars
             PROVE  CurrentIsKnown' /\ NeverDefault'
  OBVIOUS
<1> OpTypeOK
  BY TypeParts
<1> USE DEF state
<1>1. CASE UNCHANGED vars
  BY <1>1 DEF CurrentIsKnown, NeverDefault, vars, AtStep
<1>2. ASSUME NEW c \in Client, Create(c) PROVE CurrentIsKnown' /\ NeverDefault'
  <2>1. UNCHANGED state /\ (SetOp(c, Creating(current)) \/ SetOp(c, Idle))
    BY <1>2 DEF Create, CreateSession, InsertSession, CreateFails
  <2>2. Creating(current).at # "delete count" /\ Idle.at # "delete count"
    BY DEF Creating, Idle
  <2> QED
    BY <2>1, <2>2, SetOpNeverDefault DEF CurrentIsKnown
<1>3. ASSUME NEW c \in Client, NEW s \in Sessions, KillSession(c, s)
      PROVE  CurrentIsKnown' /\ NeverDefault'
  BY <1>3 DEF KillSession, CurrentIsKnown, NeverDefault, AtStep
<1>4. ASSUME NEW c \in Client, NEW name \in Name,
             CreateWorkspace(c, name) \/ SwitchWorkspace(c, name)
      PROVE  CurrentIsKnown' /\ NeverDefault'
  BY <1>4 DEF CreateWorkspace, SwitchWorkspace, CurrentIsKnown, NeverDefault, AtStep
<1>5. ASSUME NEW c \in Client, Rename(c) PROVE CurrentIsKnown' /\ NeverDefault'
  <2>1. ASSUME NEW from \in Name, NEW to \in Name, RenameWorkspace(c, from, to)
        PROVE  CurrentIsKnown' /\ NeverDefault'
    <3>1. CurrentIsKnown'
      BY <2>1 DEF RenameWorkspace, CurrentIsKnown
    <3>2. Collecting(from, to).at # "delete count"
      BY DEF Collecting
    <3> QED
      BY <2>1, <3>1, <3>2, SetOpNeverDefault DEF RenameWorkspace
  <2>2. CASE RenameCollect(c) \/ RenameDone(c) \/ \E s \in Sessions : RenameSession(c, s)
    <3>1. UNCHANGED state
      BY <2>2 DEF RenameCollect, RenameDone, RenameSession
    <3>2. SetOp(c, Idle) \/ \E f, t, todo : SetOp(c, Renaming(f, t, todo))
      BY <2>2 DEF RenameCollect, RenameDone, RenameSession
    <3>3. Idle.at # "delete count" /\ \A f, t, todo : Renaming(f, t, todo).at # "delete count"
      BY DEF Renaming, Idle
    <3> QED
      BY <3>1, <3>2, <3>3, SetOpNeverDefault DEF CurrentIsKnown
  <2> QED
    BY <1>5, <2>1, <2>2 DEF Rename
<1>6. ASSUME NEW c \in Client, Delete(c) PROVE CurrentIsKnown' /\ NeverDefault'
  <2>1. CASE DeleteFromKnown(c)
    <3>1. op[c].name # Default
      BY <2>1 DEF DeleteFromKnown, NeverDefault
    <3>2. CurrentIsKnown'
      BY <2>1, <3>1 DEF DeleteFromKnown, CurrentAfterDelete, CurrentIsKnown
    <3>3. Migrating(op[c].name, ToMigrate(c)).at # "delete count"
      BY DEF Migrating
    <3> QED
      BY <2>1, <3>2, <3>3, SetOpNeverDefault DEF DeleteFromKnown
  <2>2. ASSUME NEW name \in Name, NEW force \in BOOLEAN, DeleteWorkspace(c, name, force)
        PROVE  CurrentIsKnown' /\ NeverDefault'
    <3>1. Counting(name, force, live, live, 0).name # Default
      BY <2>2 DEF DeleteWorkspace, Counting
    <3> QED
      BY <2>2, <3>1, SetOpNeverDefault DEF DeleteWorkspace, CurrentIsKnown
  <2>3. ASSUME NEW s \in Sessions, DeleteCount(c, s)
        PROVE  CurrentIsKnown' /\ NeverDefault'
    <3>1. PICK k : SetOp(c, Counting(op[c].name, op[c].force, op[c].arcs, op[c].todo \ {s}, k))
      BY <2>3 DEF DeleteCount
    <3>2. \A a, b, d : Counting(op[c].name, a, b, d, k).name # Default
      BY <2>3 DEF DeleteCount, Counting, NeverDefault
    <3> QED
      BY <2>3, <3>1, <3>2, SetOpNeverDefault DEF DeleteCount, CurrentIsKnown
  <2>4. CASE DeleteRefused(c) \/ DeleteDone(c) \/ \E s \in Sessions : DeleteMigrate(c, s)
    <3>1. UNCHANGED state
      BY <2>4 DEF DeleteRefused, DeleteDone, DeleteMigrate
    <3>2. SetOp(c, Idle) \/ \E n, todo : SetOp(c, Migrating(n, todo))
      BY <2>4 DEF DeleteRefused, DeleteDone, DeleteMigrate
    <3>3. Idle.at # "delete count" /\ \A n, todo : Migrating(n, todo).at # "delete count"
      BY DEF Migrating, Idle
    <3> QED
      BY <3>1, <3>2, <3>3, SetOpNeverDefault DEF CurrentIsKnown
  <2> QED
    BY <1>6, <2>1, <2>2, <2>3, <2>4 DEF Delete
<1> QED
  BY <1>1, <1>2, <1>3, <1>4, <1>5, <1>6 DEF Next

\* The current workspace is always a known one and `default` never goes,
\* whatever renames, deletions and switches overlap (Workspaces,
\* CurrentIsKnown): only WorkspaceState's own lock is needed for that.
THEOREM CurrentStaysKnown == Spec => []CurrentIsKnown
<1>1. Init => CurrentIsKnown /\ NeverDefault
  <2>1. Init => CurrentIsKnown
    BY DEF Init, CurrentIsKnown
  <2>2. ASSUME Init, NEW c \in Client PROVE op[c].at = "idle"
    BY <2>2 DEF Init, Idle
  <2> QED
    BY <2>1, <2>2 DEF NeverDefault, AtStep
<1> QED
  BY <1>1, InitTypes, TypeStep, CurrentStep, PTL DEF Spec
-----------------------------------------------------------------------------
(***************************************************************************)
(* Sessions stay in known workspaces when renames and deletions do not     *)
(* overlap and no session is created during a deletion.                    *)
(***************************************************************************)

Busy(c) == IsRenaming(c) \/ IsDeleting(c)

\* One rename or deletion at a time, and no creation beside a deletion.
OneAdmin         == \A c, d \in Client : Busy(c) /\ Busy(d) => c = d
NoCreateInDelete == \A c, d \in Client : IsDeleting(c) => ~ AtStep(d, "create")

\* The new name of a rename stays known until its last session has moved.
TargetKnown == \A c \in Client : IsRenaming(c) => op[c].to \in known

\* A name that is known, or the old name of a rename that has yet to collect.
CoveredName(n) ==
  \/ n \in known
  \/ \E c \in Client : AtStep(c, "rename collect") /\ op[c].from = n

\* A session that a rename or a deletion has yet to visit.
Visits(c, s) ==
  \/ AtStep(c, "rename sessions") /\ s \in op[c].todo /\ op[c].from = workspaceOf[s]
  \/ AtStep(c, "delete migrate") /\ s \in op[c].todo /\ op[c].name = workspaceOf[s]

CoveredSession(s) ==
  CoveredName(workspaceOf[s]) \/ \E c \in Client : Visits(c, s)

CreateCovered == \A c \in Client : AtStep(c, "create") => CoveredName(op[c].ws)
LiveCovered   == \A s \in live : CoveredSession(s)

\* A deletion knows every live session, and a count of 0 is exact.
CountExact ==
  \A c \in Client : AtStep(c, "delete count") =>
    /\ live \subseteq op[c].arcs
    /\ op[c].count = 0 =>
         \A s \in live : s \in op[c].todo \/ workspaceOf[s] # op[c].name

SerialInv ==
  /\ OneAdmin /\ NoCreateInDelete /\ TargetKnown
  /\ CreateCovered /\ LiveCovered /\ CountExact

\* A step of connection c that forgets no name, and is not the one that
\* collects the sessions of a rename, keeps covered names covered.
LEMMA NamesStay ==
  ASSUME NEW c \in Client, \A d \in Client : d # c => op'[d] = op[d],
         known \subseteq known', ~ AtStep(c, "rename collect"),
         NEW n, CoveredName(n)
  PROVE  CoveredName(n)'
<1>1. CASE n \in known
  BY <1>1 DEF CoveredName
<1>2. ASSUME NEW d \in Client, AtStep(d, "rename collect"), op[d].from = n
      PROVE  CoveredName(n)'
  <2>1. d # c
    BY <1>2
  <2> QED
    BY <1>2, <2>1 DEF CoveredName, AtStep
<1> QED
  BY <1>1, <1>2 DEF CoveredName

\* The same for a session that does not move and that c is not to visit.
LEMMA SessionStays ==
  ASSUME NEW c \in Client, \A d \in Client : d # c => op'[d] = op[d],
         known \subseteq known', ~ AtStep(c, "rename collect"),
         NEW s, CoveredSession(s), workspaceOf'[s] = workspaceOf[s], ~ Visits(c, s)
  PROVE  CoveredSession(s)'
<1>1. CASE CoveredName(workspaceOf[s])
  <2>1. CoveredName(workspaceOf[s])'
    <3>1. \A n : CoveredName(n) => CoveredName(n)'
      BY NamesStay
    <3> DEFINE n == workspaceOf[s]
    <3>2. CoveredName(n)
      BY <1>1
    <3>3. n \in known' \/ \E d \in Client : op'[d].at = "rename collect" /\ op'[d].from = n
      <4> HIDE DEF n
      <4> QED
        BY <3>1, <3>2 DEF CoveredName, AtStep
    <3> QED
      BY <3>3 DEF CoveredName, AtStep
  <2> QED
    BY <2>1 DEF CoveredSession
<1>2. ASSUME NEW d \in Client, Visits(d, s)
      PROVE  CoveredSession(s)'
  <2>1. d # c
    BY <1>2
  <2>2. op'[d] = op[d]
    BY <2>1
  <2>3. Visits(d, s)'
    BY <1>2, <2>2 DEF Visits, AtStep
  <2> QED
    BY <2>3 DEF CoveredSession
<1> QED
  BY <1>1, <1>2 DEF CoveredSession

\* The same for the creation under way.
LEMMA CreateStays ==
  ASSUME CreateCovered, NEW c \in Client, \A d \in Client : d # c => op'[d] = op[d],
         known \subseteq known', ~ AtStep(c, "rename collect"),
         op'[c].at = "create" => op'[c].ws \in known'
  PROVE  CreateCovered'
<1> SUFFICES ASSUME NEW d \in Client, op'[d].at = "create"
             PROVE  \/ op'[d].ws \in known'
                    \/ \E e \in Client :
                         op'[e].at = "rename collect" /\ op'[e].from = op'[d].ws
  BY DEF CreateCovered, CoveredName, AtStep
<1>1. CASE d = c
  BY <1>1
<1>2. CASE d # c
  <2>1. op'[d] = op[d] /\ CoveredName(op[d].ws)
    BY <1>2 DEF CreateCovered, AtStep
  <2>2. PICK n : n = op[d].ws
    OBVIOUS
  <2>3. CoveredName(n)'
    BY <2>1, <2>2, NamesStay
  <2> QED
    BY <2>1, <2>2, <2>3 DEF CoveredName, AtStep
<1> QED
  BY <1>1, <1>2

\* A creation reads a known name.
LEMMA SerialCreateSession ==
  ASSUME TypeOK, CurrentIsKnown, SerialInv, ~ ConcurrentAdmin, ~ CreateWhileDelete,
         NEW c \in Client, CreateSession(c)
  PROVE  SerialInv'
<1> OpTypeOK /\ DataTypeOK
  BY TypeParts
<1> USE DEF SerialInv
<1> DEFINE o == Creating(current)
<1>1. op'[c] = o /\ \A d \in Client : d # c => op'[d] = op[d]
  <2>1. SetOp(c, o)
    BY DEF CreateSession
  <2> HIDE DEF o
  <2> QED
    BY <2>1, SetOpEffect DEF OpTypeOK
<1>2. o.at = "create" /\ o.ws = current
  BY DEF Creating
<1> HIDE DEF o
<1>3. current \in known
  BY DEF CurrentIsKnown
<1>4. op[c].at = "idle"
  BY DEF CreateSession, Idle
<1>5. OneAdmin'
  BY <1>1, <1>2, <1>3, <1>4
     DEF CreateSession, OneAdmin, Busy, IsRenaming, IsDeleting, AtStep
<1>6. NoCreateInDelete'
  BY <1>1, <1>2, <1>3, <1>4
     DEF CreateSession, NoCreateInDelete, IsDeleting, AtStep, MayCreate
<1>7. TargetKnown'
  BY <1>1, <1>2, <1>3, <1>4
     DEF CreateSession, TargetKnown, OneAdmin, Busy, IsRenaming, IsDeleting, AtStep, state
<1>8. CountExact'
  BY <1>1, <1>2, <1>3, <1>4
     DEF CreateSession, CountExact, OneAdmin, NoCreateInDelete, Busy, IsRenaming,
         IsDeleting, AtStep, state, MayCreate
<1>9. CreateCovered'
  BY <1>1, <1>2, <1>3, <1>4, CreateStays DEF CreateSession, AtStep, state
<1>10. LiveCovered'
  <2>1. ASSUME NEW s \in live PROVE CoveredSession(s)'
    <3>1. ~ Visits(c, s)
      BY <1>1, <1>2, <1>3, <1>4 DEF CreateSession, Visits, AtStep
    <3> QED
      BY <1>1, <1>2, <1>3, <1>4, <2>1, <3>1, SessionStays
         DEF CreateSession, LiveCovered, AtStep, state
  <2> QED
    BY <2>1 DEF LiveCovered, CreateSession
<1> QED
  BY <1>5, <1>6, <1>7, <1>8, <1>9, <1>10

\* The session inserted is the one the creation covers.
LEMMA SerialInsertSession ==
  ASSUME TypeOK, SerialInv, ~ ConcurrentAdmin, ~ CreateWhileDelete,
         NEW c \in Client, InsertSession(c)
  PROVE  SerialInv'
<1> OpTypeOK /\ DataTypeOK
  BY TypeParts
<1> USE DEF SerialInv
<1> DEFINE o == Idle
<1>1. op'[c] = o /\ \A d \in Client : d # c => op'[d] = op[d]
  <2>1. SetOp(c, o)
    BY DEF InsertSession
  <2> HIDE DEF o
  <2> QED
    BY <2>1, SetOpEffect DEF OpTypeOK
<1>2. o.at = "idle"
  BY DEF Idle
<1> HIDE DEF o
<1>3. /\ live' = live \cup {Len(workspaceOf) + 1}
      /\ \A s \in live : workspaceOf'[s] = workspaceOf[s]
      /\ workspaceOf'[Len(workspaceOf) + 1] = op[c].ws
  BY DEF InsertSession, DataTypeOK, Sessions
<1>4. OneAdmin'
  BY <1>1, <1>2, <1>3 DEF InsertSession, OneAdmin, Busy, IsRenaming, IsDeleting, AtStep
<1>5. NoCreateInDelete'
  BY <1>1, <1>2, <1>3 DEF InsertSession, NoCreateInDelete, IsDeleting, AtStep
<1>6. TargetKnown'
  BY <1>1, <1>2, <1>3
     DEF InsertSession, TargetKnown, OneAdmin, Busy, IsRenaming, IsDeleting, AtStep, state
<1>7. CountExact'
  BY <1>1, <1>2, <1>3
     DEF InsertSession, CountExact, OneAdmin, NoCreateInDelete, Busy, IsRenaming,
         IsDeleting, AtStep, state
<1>8. CreateCovered'
  BY <1>1, <1>2, <1>3, CreateStays DEF InsertSession, AtStep, state
<1>9. LiveCovered'
  <2>1. ASSUME NEW s \in live PROVE CoveredSession(s)'
    <3>1. ~ Visits(c, s)
      BY <1>1, <1>2, <1>3 DEF InsertSession, Visits, AtStep
    <3> QED
      BY <1>1, <1>2, <1>3, <2>1, <3>1, SessionStays
         DEF InsertSession, LiveCovered, AtStep, state
  <2>2. ASSUME NEW s, s = Len(workspaceOf) + 1 PROVE CoveredSession(s)'
    <3>1. PICK n : n = op[c].ws
      OBVIOUS
    <3>2. CoveredName(n)
      BY <3>1 DEF InsertSession, CreateCovered
    <3>3. CoveredName(n)'
      BY <1>1, <3>2, NamesStay DEF InsertSession, AtStep, state
    <3>4. workspaceOf'[s] = n
      BY <1>3, <2>2, <3>1
    <3> QED
      BY <3>3, <3>4 DEF CoveredSession, CoveredName, AtStep
  <2> QED
    BY <1>1, <1>2, <1>3, <2>1, <2>2 DEF LiveCovered
<1> QED
  BY <1>4, <1>5, <1>6, <1>7, <1>8, <1>9

\* Nothing is inserted.
LEMMA SerialCreateFails ==
  ASSUME TypeOK, SerialInv, ~ ConcurrentAdmin, ~ CreateWhileDelete,
         NEW c \in Client, CreateFails(c)
  PROVE  SerialInv'
<1> OpTypeOK /\ DataTypeOK
  BY TypeParts
<1> USE DEF SerialInv
<1> DEFINE o == Idle
<1>1. op'[c] = o /\ \A d \in Client : d # c => op'[d] = op[d]
  <2>1. SetOp(c, o)
    BY DEF CreateFails
  <2> HIDE DEF o
  <2> QED
    BY <2>1, SetOpEffect DEF OpTypeOK
<1>2. o.at = "idle"
  BY DEF Idle
<1> HIDE DEF o
<1>3. OneAdmin'
  BY <1>1, <1>2 DEF CreateFails, OneAdmin, Busy, IsRenaming, IsDeleting, AtStep
<1>4. NoCreateInDelete'
  BY <1>1, <1>2 DEF CreateFails, NoCreateInDelete, IsDeleting, AtStep
<1>5. TargetKnown'
  BY <1>1, <1>2
     DEF CreateFails, TargetKnown, OneAdmin, Busy, IsRenaming, IsDeleting, AtStep, state
<1>6. CountExact'
  BY <1>1, <1>2
     DEF CreateFails, CountExact, OneAdmin, NoCreateInDelete, Busy, IsRenaming,
         IsDeleting, AtStep, state
<1>7. CreateCovered'
  BY <1>1, <1>2, CreateStays DEF CreateFails, AtStep, state
<1>8. LiveCovered'
  <2>1. ASSUME NEW s \in live PROVE CoveredSession(s)'
    <3>1. ~ Visits(c, s)
      BY <1>1, <1>2 DEF CreateFails, Visits, AtStep
    <3> QED
      BY <1>1, <1>2, <2>1, <3>1, SessionStays DEF CreateFails, LiveCovered, AtStep, state
  <2> QED
    BY <2>1 DEF LiveCovered, CreateFails
<1> QED
  BY <1>3, <1>4, <1>5, <1>6, <1>7, <1>8

\* The old name is covered by the rename that starts.
LEMMA SerialRenameWorkspace ==
  ASSUME TypeOK, SerialInv, ~ ConcurrentAdmin, ~ CreateWhileDelete,
         NEW c \in Client, NEW from \in Name, NEW to \in Name, RenameWorkspace(c, from, to)
  PROVE  SerialInv'
<1> OpTypeOK /\ DataTypeOK
  BY TypeParts
<1> USE DEF SerialInv
<1> DEFINE o == Collecting(from, to)
<1>1. op'[c] = o /\ \A d \in Client : d # c => op'[d] = op[d]
  <2>1. SetOp(c, o)
    BY DEF RenameWorkspace
  <2> HIDE DEF o
  <2> QED
    BY <2>1, SetOpEffect DEF OpTypeOK
<1>2. o.at = "rename collect" /\ o.from = from /\ o.to = to
  BY DEF Collecting
<1> HIDE DEF o
<1>3. op[c].at = "idle"
  BY DEF RenameWorkspace, Idle
<1>4. OneAdmin'
  BY <1>1, <1>2, <1>3
     DEF RenameWorkspace, OneAdmin, Busy, IsRenaming, IsDeleting, AtStep, MayAdminister
<1>5. NoCreateInDelete'
  BY <1>1, <1>2, <1>3 DEF RenameWorkspace, NoCreateInDelete, IsDeleting, AtStep
<1>6. TargetKnown'
  BY <1>1, <1>2, <1>3
     DEF RenameWorkspace, TargetKnown, OneAdmin, Busy, IsRenaming, IsDeleting, AtStep,
         state, MayAdminister
<1>7. CountExact'
  BY <1>1, <1>2, <1>3
     DEF RenameWorkspace, CountExact, OneAdmin, NoCreateInDelete, Busy, IsRenaming,
         IsDeleting, AtStep, state, MayAdminister
<1>8. CreateCovered'
  <2>1. ASSUME NEW n, CoveredName(n) PROVE CoveredName(n)'
    BY <1>1, <1>2, <1>3, <2>1 DEF RenameWorkspace, CoveredName, AtStep
  <2>2. ASSUME NEW d \in Client, op'[d].at = "create"
        PROVE  \/ op'[d].ws \in known'
               \/ \E e \in Client : op'[e].at = "rename collect" /\ op'[e].from = op'[d].ws
    <3>1. op'[d] = op[d] /\ CoveredName(op[d].ws)
      BY <1>1, <1>2, <1>3, <2>2 DEF CreateCovered, AtStep
    <3>2. PICK n : n = op[d].ws
      OBVIOUS
    <3>3. CoveredName(n)'
      BY <2>1, <3>1, <3>2
    <3> QED
      BY <3>1, <3>2, <3>3 DEF CoveredName, AtStep
  <2> QED
    BY <2>2 DEF CreateCovered, CoveredName, AtStep
<1>9. LiveCovered'
  <2>1. ASSUME NEW s \in live PROVE CoveredSession(s)'
    <3>1. CoveredSession(s) /\ workspaceOf' = workspaceOf
      BY DEF RenameWorkspace, LiveCovered
    <3>2. \A d \in Client : Visits(d, s) => Visits(d, s)'
      BY <1>1, <1>2, <1>3, <3>1 DEF RenameWorkspace, Visits, AtStep
    <3>3. CoveredName(workspaceOf[s]) => CoveredName(workspaceOf[s])'
      BY <1>1, <1>2, <1>3, <3>1 DEF RenameWorkspace, CoveredName, AtStep
    <3> QED
      BY <3>1, <3>2, <3>3 DEF CoveredSession
  <2> QED
    BY <2>1 DEF LiveCovered, RenameWorkspace
<1> QED
  BY <1>4, <1>5, <1>6, <1>7, <1>8, <1>9

\* Every live session is collected.
LEMMA SerialRenameCollect ==
  ASSUME TypeOK, SerialInv, ~ ConcurrentAdmin, ~ CreateWhileDelete,
         NEW c \in Client, RenameCollect(c)
  PROVE  SerialInv'
<1> OpTypeOK /\ DataTypeOK
  BY TypeParts
<1> USE DEF SerialInv
<1> DEFINE o == Renaming(op[c].from, op[c].to, live)
<1>1. op'[c] = o /\ \A d \in Client : d # c => op'[d] = op[d]
  <2>1. SetOp(c, o)
    BY DEF RenameCollect
  <2> HIDE DEF o
  <2> QED
    BY <2>1, SetOpEffect DEF OpTypeOK
<1>2. o.at = "rename sessions" /\ o.from = op[c].from /\ o.to = op[c].to /\ o.todo = live
  BY DEF Renaming
<1> HIDE DEF o
<1>3. OneAdmin'
  BY <1>1, <1>2 DEF RenameCollect, OneAdmin, Busy, IsRenaming, IsDeleting, AtStep
<1>4. NoCreateInDelete'
  BY <1>1, <1>2 DEF RenameCollect, NoCreateInDelete, IsDeleting, AtStep
<1>5. TargetKnown'
  BY <1>1, <1>2
     DEF RenameCollect, TargetKnown, OneAdmin, Busy, IsRenaming, IsDeleting, AtStep, state
<1>6. CountExact'
  BY <1>1, <1>2
     DEF RenameCollect, CountExact, OneAdmin, NoCreateInDelete, Busy, IsRenaming,
         IsDeleting, AtStep, state
<1>7. CreateCovered'
  BY <1>1, <1>2 DEF RenameCollect, CreateCovered, MapLocked, AtStep
<1>8. LiveCovered'
  <2>1. ASSUME NEW s \in live PROVE CoveredSession(s)'
    <3>1. CoveredSession(s) /\ workspaceOf' = workspaceOf /\ known' = known
      BY DEF RenameCollect, LiveCovered, state
    <3>2. \A d \in Client : d # c => ~ Busy(d)
      BY DEF RenameCollect, OneAdmin, Busy, IsRenaming, AtStep
    <3>3. workspaceOf[s] \in known \/ op[c].from = workspaceOf[s]
      BY <3>1, <3>2
         DEF RenameCollect, CoveredSession, CoveredName, Visits, Busy, IsRenaming,
             IsDeleting, AtStep
    <3>4. op[c].from = workspaceOf[s] => Visits(c, s)'
      BY <1>1, <1>2, <3>1 DEF Visits, AtStep
    <3> QED
      BY <3>1, <3>3, <3>4 DEF CoveredSession, CoveredName
  <2> QED
    BY <2>1 DEF LiveCovered, RenameCollect
<1> QED
  BY <1>3, <1>4, <1>5, <1>6, <1>7, <1>8

\* A session that is visited gets the new name.
LEMMA SerialRenameSession ==
  ASSUME TypeOK, SerialInv, ~ ConcurrentAdmin, ~ CreateWhileDelete,
         NEW c \in Client, NEW s \in Sessions, RenameSession(c, s)
  PROVE  SerialInv'
<1> OpTypeOK /\ DataTypeOK
  BY TypeParts
<1> USE DEF SerialInv
<1> DEFINE o == Renaming(op[c].from, op[c].to, op[c].todo \ {s})
<1>1. op'[c] = o /\ \A d \in Client : d # c => op'[d] = op[d]
  <2>1. SetOp(c, o)
    BY DEF RenameSession
  <2> HIDE DEF o
  <2> QED
    BY <2>1, SetOpEffect DEF OpTypeOK
<1>2. /\ o.at = "rename sessions"
      /\ o.from = op[c].from
      /\ o.to = op[c].to
      /\ o.todo = op[c].todo \ {s}
  BY DEF Renaming
<1> HIDE DEF o
<1>3. /\ \A t \in Sessions : t # s => workspaceOf'[t] = workspaceOf[t]
      /\ workspaceOf'[s] = IF workspaceOf[s] = op[c].from THEN op[c].to ELSE workspaceOf[s]
      /\ live \subseteq Sessions
  <2>1. workspaceOf' = [workspaceOf EXCEPT ![s] = IF @ = op[c].from THEN op[c].to ELSE @]
    BY DEF RenameSession
  <2>2. workspaceOf \in [Sessions -> Name]
    BY DEF DataTypeOK, Sessions
  <2> QED
    BY <2>1, <2>2 DEF DataTypeOK
<1>4. OneAdmin'
  BY <1>1, <1>2, <1>3 DEF RenameSession, OneAdmin, Busy, IsRenaming, IsDeleting, AtStep
<1>5. NoCreateInDelete'
  BY <1>1, <1>2, <1>3 DEF RenameSession, NoCreateInDelete, IsDeleting, AtStep
<1>6. TargetKnown'
  BY <1>1, <1>2, <1>3
     DEF RenameSession, TargetKnown, OneAdmin, Busy, IsRenaming, IsDeleting, AtStep, state
<1>7. CountExact'
  <2>1. \A d \in Client : op'[d].at # "delete count"
    BY <1>1, <1>2 DEF RenameSession, OneAdmin, Busy, IsRenaming, IsDeleting, AtStep
  <2> QED
    BY <2>1 DEF CountExact, AtStep
<1>8. CreateCovered'
  BY <1>1, <1>2, <1>3, CreateStays DEF RenameSession, AtStep, state
<1>9. LiveCovered'
  <2>1. ASSUME NEW t \in live PROVE CoveredSession(t)'
    <3>1. t \in Sessions /\ CoveredSession(t) /\ known' = known
      BY <1>1, <1>2, <1>3 DEF RenameSession, LiveCovered, state
    <3>2. CASE t # s /\ Visits(c, t)
      <4>1. Visits(c, t)'
        BY <1>1, <1>2, <1>3, <3>1, <3>2 DEF RenameSession, Visits, AtStep
      <4> QED
        BY <4>1 DEF CoveredSession
    <3>3. CASE ~ Visits(c, t) /\ workspaceOf'[t] = workspaceOf[t]
      BY <1>1, <1>2, <1>3, <3>1, <3>3, SessionStays DEF RenameSession, AtStep
    <3>4. CASE t = s /\ workspaceOf[s] = op[c].from
      <4>1. op[c].to \in known
        BY <1>1, <1>2, <1>3 DEF RenameSession, TargetKnown, IsRenaming, AtStep
      <4>2. workspaceOf'[t] = op[c].to
        BY <1>1, <1>2, <1>3, <3>4
      <4>3. workspaceOf'[t] \in known'
        BY <3>1, <4>1, <4>2
      <4> QED
        BY <4>3 DEF CoveredSession, CoveredName
    <3>5. t = s /\ workspaceOf[s] # op[c].from => ~ Visits(c, t)
      BY <1>1, <1>2, <1>3, <3>1 DEF RenameSession, Visits, AtStep
    <3> QED
      BY <1>1, <1>2, <1>3, <3>1, <3>2, <3>3, <3>4, <3>5
  <2> QED
    BY <2>1 DEF LiveCovered, RenameSession
<1> QED
  BY <1>4, <1>5, <1>6, <1>7, <1>8, <1>9

\* Nobody is left to visit.
LEMMA SerialRenameDone ==
  ASSUME TypeOK, SerialInv, ~ ConcurrentAdmin, ~ CreateWhileDelete,
         NEW c \in Client, RenameDone(c)
  PROVE  SerialInv'
<1> OpTypeOK /\ DataTypeOK
  BY TypeParts
<1> USE DEF SerialInv
<1> DEFINE o == Idle
<1>1. op'[c] = o /\ \A d \in Client : d # c => op'[d] = op[d]
  <2>1. SetOp(c, o)
    BY DEF RenameDone
  <2> HIDE DEF o
  <2> QED
    BY <2>1, SetOpEffect DEF OpTypeOK
<1>2. o.at = "idle"
  BY DEF Idle
<1> HIDE DEF o
<1>3. OneAdmin'
  BY <1>1, <1>2 DEF RenameDone, OneAdmin, Busy, IsRenaming, IsDeleting, AtStep
<1>4. NoCreateInDelete'
  BY <1>1, <1>2 DEF RenameDone, NoCreateInDelete, IsDeleting, AtStep
<1>5. TargetKnown'
  BY <1>1, <1>2
     DEF RenameDone, TargetKnown, OneAdmin, Busy, IsRenaming, IsDeleting, AtStep, state
<1>6. CountExact'
  BY <1>1, <1>2
     DEF RenameDone, CountExact, OneAdmin, NoCreateInDelete, Busy, IsRenaming,
         IsDeleting, AtStep, state
<1>7. CreateCovered'
  BY <1>1, <1>2, CreateStays DEF RenameDone, AtStep, state
<1>8. LiveCovered'
  <2>1. ASSUME NEW s \in live PROVE CoveredSession(s)'
    <3>1. ~ Visits(c, s)
      BY <1>1, <1>2 DEF RenameDone, Visits, AtStep
    <3> QED
      BY <1>1, <1>2, <2>1, <3>1, SessionStays DEF RenameDone, LiveCovered, AtStep, state
  <2> QED
    BY <2>1 DEF LiveCovered, RenameDone
<1> QED
  BY <1>3, <1>4, <1>5, <1>6, <1>7, <1>8

\* Every live session is collected, and none is counted yet.
LEMMA SerialDeleteWorkspace ==
  ASSUME TypeOK, SerialInv, ~ ConcurrentAdmin, ~ CreateWhileDelete,
         NEW c \in Client, NEW name \in Name, NEW force \in BOOLEAN, DeleteWorkspace(c,
         name, force)
  PROVE  SerialInv'
<1> OpTypeOK /\ DataTypeOK
  BY TypeParts
<1> USE DEF SerialInv
<1> DEFINE o == Counting(name, force, live, live, 0)
<1>1. op'[c] = o /\ \A d \in Client : d # c => op'[d] = op[d]
  <2>1. SetOp(c, o)
    BY DEF DeleteWorkspace
  <2> HIDE DEF o
  <2> QED
    BY <2>1, SetOpEffect DEF OpTypeOK
<1>2. o.at = "delete count" /\ o.name = name /\ o.arcs = live /\ o.todo = live
  BY DEF Counting
<1> HIDE DEF o
<1>3. op[c].at = "idle"
  BY DEF DeleteWorkspace, Idle
<1>4. OneAdmin'
  BY <1>1, <1>2, <1>3
     DEF DeleteWorkspace, OneAdmin, Busy, IsRenaming, IsDeleting, AtStep, MayAdminister
<1>5. NoCreateInDelete'
  BY <1>1, <1>2, <1>3
     DEF DeleteWorkspace, NoCreateInDelete, IsDeleting, AtStep, MayDelete, MapLocked
<1>6. TargetKnown'
  BY <1>1, <1>2, <1>3
     DEF DeleteWorkspace, TargetKnown, OneAdmin, Busy, IsRenaming, IsDeleting, AtStep,
         state, MayAdminister
<1>7. CountExact'
  BY <1>1, <1>2, <1>3
     DEF DeleteWorkspace, CountExact, OneAdmin, NoCreateInDelete, Busy, IsRenaming,
         IsDeleting, AtStep, state, MayAdminister
<1>8. CreateCovered'
  BY <1>1, <1>2, <1>3, CreateStays DEF DeleteWorkspace, AtStep, state
<1>9. LiveCovered'
  <2>1. ASSUME NEW s \in live PROVE CoveredSession(s)'
    <3>1. ~ Visits(c, s)
      BY <1>1, <1>2, <1>3 DEF DeleteWorkspace, Visits, AtStep
    <3> QED
      BY <1>1, <1>2, <1>3, <2>1, <3>1, SessionStays
         DEF DeleteWorkspace, LiveCovered, AtStep, state
  <2> QED
    BY <2>1 DEF LiveCovered, DeleteWorkspace
<1> QED
  BY <1>4, <1>5, <1>6, <1>7, <1>8, <1>9

\* Nothing is deleted.
LEMMA SerialDeleteRefused ==
  ASSUME TypeOK, SerialInv, ~ ConcurrentAdmin, ~ CreateWhileDelete,
         NEW c \in Client, DeleteRefused(c)
  PROVE  SerialInv'
<1> OpTypeOK /\ DataTypeOK
  BY TypeParts
<1> USE DEF SerialInv
<1> DEFINE o == Idle
<1>1. op'[c] = o /\ \A d \in Client : d # c => op'[d] = op[d]
  <2>1. SetOp(c, o)
    BY DEF DeleteRefused
  <2> HIDE DEF o
  <2> QED
    BY <2>1, SetOpEffect DEF OpTypeOK
<1>2. o.at = "idle"
  BY DEF Idle
<1> HIDE DEF o
<1>3. OneAdmin'
  BY <1>1, <1>2 DEF DeleteRefused, OneAdmin, Busy, IsRenaming, IsDeleting, AtStep
<1>4. NoCreateInDelete'
  BY <1>1, <1>2 DEF DeleteRefused, NoCreateInDelete, IsDeleting, AtStep
<1>5. TargetKnown'
  BY <1>1, <1>2
     DEF DeleteRefused, TargetKnown, OneAdmin, Busy, IsRenaming, IsDeleting, AtStep, state
<1>6. CountExact'
  BY <1>1, <1>2
     DEF DeleteRefused, CountExact, OneAdmin, NoCreateInDelete, Busy, IsRenaming,
         IsDeleting, AtStep, state
<1>7. CreateCovered'
  BY <1>1, <1>2, CreateStays DEF DeleteRefused, AtStep, state
<1>8. LiveCovered'
  <2>1. ASSUME NEW s \in live PROVE CoveredSession(s)'
    <3>1. ~ Visits(c, s)
      BY <1>1, <1>2 DEF DeleteRefused, Visits, AtStep
    <3> QED
      BY <1>1, <1>2, <2>1, <3>1, SessionStays DEF DeleteRefused, LiveCovered, AtStep, state
  <2> QED
    BY <2>1 DEF LiveCovered, DeleteRefused
<1> QED
  BY <1>3, <1>4, <1>5, <1>6, <1>7, <1>8

\* Nobody is left to migrate.
LEMMA SerialDeleteDone ==
  ASSUME TypeOK, SerialInv, ~ ConcurrentAdmin, ~ CreateWhileDelete,
         NEW c \in Client, DeleteDone(c)
  PROVE  SerialInv'
<1> OpTypeOK /\ DataTypeOK
  BY TypeParts
<1> USE DEF SerialInv
<1> DEFINE o == Idle
<1>1. op'[c] = o /\ \A d \in Client : d # c => op'[d] = op[d]
  <2>1. SetOp(c, o)
    BY DEF DeleteDone
  <2> HIDE DEF o
  <2> QED
    BY <2>1, SetOpEffect DEF OpTypeOK
<1>2. o.at = "idle"
  BY DEF Idle
<1> HIDE DEF o
<1>3. OneAdmin'
  BY <1>1, <1>2 DEF DeleteDone, OneAdmin, Busy, IsRenaming, IsDeleting, AtStep
<1>4. NoCreateInDelete'
  BY <1>1, <1>2 DEF DeleteDone, NoCreateInDelete, IsDeleting, AtStep
<1>5. TargetKnown'
  BY <1>1, <1>2
     DEF DeleteDone, TargetKnown, OneAdmin, Busy, IsRenaming, IsDeleting, AtStep, state
<1>6. CountExact'
  BY <1>1, <1>2
     DEF DeleteDone, CountExact, OneAdmin, NoCreateInDelete, Busy, IsRenaming,
         IsDeleting, AtStep, state
<1>7. CreateCovered'
  BY <1>1, <1>2, CreateStays DEF DeleteDone, AtStep, state
<1>8. LiveCovered'
  <2>1. ASSUME NEW s \in live PROVE CoveredSession(s)'
    <3>1. ~ Visits(c, s)
      BY <1>1, <1>2 DEF DeleteDone, Visits, AtStep
    <3> QED
      BY <1>1, <1>2, <2>1, <3>1, SessionStays DEF DeleteDone, LiveCovered, AtStep, state
  <2> QED
    BY <2>1 DEF LiveCovered, DeleteDone
<1> QED
  BY <1>3, <1>4, <1>5, <1>6, <1>7, <1>8

\* The sessions of the workspace are migrated, or there are none.
LEMMA SerialDeleteFromKnown ==
  ASSUME TypeOK, SerialInv, ~ ConcurrentAdmin, ~ CreateWhileDelete,
         NEW c \in Client, DeleteFromKnown(c)
  PROVE  SerialInv'
<1> OpTypeOK /\ DataTypeOK
  BY TypeParts
<1> USE DEF SerialInv
<1> DEFINE o == Migrating(op[c].name, ToMigrate(c))
<1>1. op'[c] = o /\ \A d \in Client : d # c => op'[d] = op[d]
  <2>1. SetOp(c, o)
    BY DEF DeleteFromKnown
  <2> HIDE DEF o
  <2> QED
    BY <2>1, SetOpEffect DEF OpTypeOK
<1>2. o.at = "delete migrate" /\ o.name = op[c].name /\ o.todo = ToMigrate(c)
  BY DEF Migrating
<1> HIDE DEF o
<1>3. OneAdmin'
  BY <1>1, <1>2 DEF DeleteFromKnown, OneAdmin, Busy, IsRenaming, IsDeleting, AtStep
<1>4. NoCreateInDelete'
  BY <1>1, <1>2 DEF DeleteFromKnown, NoCreateInDelete, IsDeleting, AtStep
<1>5. TargetKnown'
  BY <1>1, <1>2
     DEF DeleteFromKnown, TargetKnown, OneAdmin, Busy, IsRenaming, IsDeleting, AtStep, state
<1>6. CountExact'
  BY <1>1, <1>2
     DEF DeleteFromKnown, CountExact, OneAdmin, NoCreateInDelete, Busy, IsRenaming,
         IsDeleting, AtStep, state
<1>7. CreateCovered'
  BY <1>1, <1>2 DEF DeleteFromKnown, CreateCovered, NoCreateInDelete, IsDeleting, AtStep
<1>8. LiveCovered'
  <2>1. ASSUME NEW s \in live PROVE CoveredSession(s)'
    <3>1. CoveredSession(s) /\ workspaceOf' = workspaceOf
      BY DEF DeleteFromKnown, LiveCovered
    <3>2. \A d \in Client : d # c => ~ Busy(d)
      BY DEF DeleteFromKnown, OneAdmin, Busy, IsDeleting, AtStep
    <3>3. workspaceOf[s] \in known
      BY <3>1, <3>2
         DEF DeleteFromKnown, CoveredSession, CoveredName, Visits, Busy, IsRenaming,
             IsDeleting, AtStep
    <3>4. CASE workspaceOf[s] # op[c].name
      BY <3>1, <3>3, <3>4 DEF DeleteFromKnown, CoveredSession, CoveredName
    <3>5. CASE workspaceOf[s] = op[c].name
      <4>1. op[c].force /\ s \in op[c].arcs
        BY <3>5 DEF DeleteFromKnown, CountExact
      <4>2. Visits(c, s)'
        BY <1>1, <1>2, <3>1, <3>5, <4>1 DEF ToMigrate, Visits, AtStep
      <4> QED
        BY <4>2 DEF CoveredSession
    <3> QED
      BY <3>4, <3>5
  <2> QED
    BY <2>1 DEF LiveCovered, DeleteFromKnown
<1> QED
  BY <1>3, <1>4, <1>5, <1>6, <1>7, <1>8

\* A session that is visited goes to `default`.
LEMMA SerialDeleteMigrate ==
  ASSUME TypeOK, CurrentIsKnown, SerialInv, ~ ConcurrentAdmin, ~ CreateWhileDelete,
         NEW c \in Client, NEW s \in Sessions, DeleteMigrate(c, s)
  PROVE  SerialInv'
<1> OpTypeOK /\ DataTypeOK
  BY TypeParts
<1> USE DEF SerialInv
<1> DEFINE o == Migrating(op[c].name, op[c].todo \ {s})
<1>1. op'[c] = o /\ \A d \in Client : d # c => op'[d] = op[d]
  <2>1. SetOp(c, o)
    BY DEF DeleteMigrate
  <2> HIDE DEF o
  <2> QED
    BY <2>1, SetOpEffect DEF OpTypeOK
<1>2. o.at = "delete migrate" /\ o.name = op[c].name /\ o.todo = op[c].todo \ {s}
  BY DEF Migrating
<1> HIDE DEF o
<1>3. /\ \A t \in Sessions : t # s => workspaceOf'[t] = workspaceOf[t]
      /\ workspaceOf'[s] = IF workspaceOf[s] = op[c].name THEN Default ELSE workspaceOf[s]
      /\ live \subseteq Sessions
  <2>1. workspaceOf' = [workspaceOf EXCEPT ![s] = IF @ = op[c].name THEN Default ELSE @]
    BY DEF DeleteMigrate
  <2>2. workspaceOf \in [Sessions -> Name]
    BY DEF DataTypeOK, Sessions
  <2> QED
    BY <2>1, <2>2 DEF DataTypeOK
<1>4. Default \in known
  BY DEF CurrentIsKnown
<1>5. OneAdmin'
  BY <1>1, <1>2, <1>3, <1>4
     DEF DeleteMigrate, OneAdmin, Busy, IsRenaming, IsDeleting, AtStep
<1>6. NoCreateInDelete'
  BY <1>1, <1>2, <1>3, <1>4 DEF DeleteMigrate, NoCreateInDelete, IsDeleting, AtStep
<1>7. TargetKnown'
  BY <1>1, <1>2, <1>3, <1>4
     DEF DeleteMigrate, TargetKnown, OneAdmin, Busy, IsRenaming, IsDeleting, AtStep, state
<1>8. CountExact'
  BY <1>1, <1>2, <1>3, <1>4
     DEF DeleteMigrate, CountExact, OneAdmin, NoCreateInDelete, Busy, IsRenaming,
         IsDeleting, AtStep, state
<1>9. CreateCovered'
  BY <1>1, <1>2, <1>3, <1>4, CreateStays DEF DeleteMigrate, AtStep, state
<1>10. LiveCovered'
  <2>1. ASSUME NEW t \in live PROVE CoveredSession(t)'
    <3>1. t \in Sessions /\ CoveredSession(t) /\ known' = known
      BY <1>1, <1>2, <1>3, <1>4 DEF DeleteMigrate, LiveCovered, state
    <3>2. CASE t # s /\ Visits(c, t)
      <4>1. Visits(c, t)'
        BY <1>1, <1>2, <1>3, <1>4, <3>1, <3>2 DEF DeleteMigrate, Visits, AtStep
      <4> QED
        BY <4>1 DEF CoveredSession
    <3>3. CASE ~ Visits(c, t) /\ workspaceOf'[t] = workspaceOf[t]
      BY <1>1, <1>2, <1>3, <1>4, <3>1, <3>3, SessionStays DEF DeleteMigrate, AtStep
    <3>4. CASE t = s /\ workspaceOf[s] = op[c].name
      <4>1. Default \in known
        BY <1>1, <1>2, <1>3, <1>4 DEF DeleteMigrate, TargetKnown, IsRenaming, AtStep
      <4>2. workspaceOf'[t] = Default
        BY <1>1, <1>2, <1>3, <1>4, <3>4
      <4>3. workspaceOf'[t] \in known'
        BY <3>1, <4>1, <4>2
      <4> QED
        BY <4>3 DEF CoveredSession, CoveredName
    <3>5. t = s /\ workspaceOf[s] # op[c].name => ~ Visits(c, t)
      BY <1>1, <1>2, <1>3, <1>4, <3>1 DEF DeleteMigrate, Visits, AtStep
    <3> QED
      BY <1>1, <1>2, <1>3, <1>4, <3>1, <3>2, <3>3, <3>4, <3>5
  <2> QED
    BY <2>1 DEF LiveCovered, DeleteMigrate
<1> QED
  BY <1>5, <1>6, <1>7, <1>8, <1>9, <1>10

\* A count that is still 0 has met no session of the workspace.
LEMMA SerialDeleteCount ==
  ASSUME TypeOK, SerialInv, ~ ConcurrentAdmin, ~ CreateWhileDelete,
         NEW c \in Client, NEW t \in Sessions, DeleteCount(c, t)
  PROVE  SerialInv'
<1> OpTypeOK /\ DataTypeOK
  BY TypeParts
<1> USE DEF SerialInv
<1> DEFINE k == IF workspaceOf[t] = op[c].name THEN op[c].count + 1 ELSE op[c].count
           o == Counting(op[c].name, op[c].force, op[c].arcs, op[c].todo \ {t}, k)
<1>1. op'[c] = o /\ \A d \in Client : d # c => op'[d] = op[d]
  <2>1. SetOp(c, o)
    BY DEF DeleteCount
  <2> HIDE DEF o
  <2> QED
    BY <2>1, SetOpEffect DEF OpTypeOK
<1>2. /\ o.at = "delete count"
      /\ o.name = op[c].name
      /\ o.arcs = op[c].arcs
      /\ o.todo = op[c].todo \ {t}
  BY DEF Counting
<1> HIDE DEF o
<1>3. o.count = 0 => op[c].count = 0 /\ workspaceOf[t] # op[c].name
  <2>1. op[c].count \in Nat
    BY FieldTypes DEF DeleteCount, FieldsOK, AtStep
  <2>2. op[c].count + 1 # 0
    BY <2>1, CountPositive, Zenon
  <2>3. o.count = IF workspaceOf[t] = op[c].name THEN op[c].count + 1 ELSE op[c].count
    BY DEF o, Counting
  <2> QED
    BY <2>2, <2>3, Zenon
<1>4. OneAdmin'
  BY <1>1, <1>2, <1>3 DEF DeleteCount, OneAdmin, Busy, IsRenaming, IsDeleting, AtStep
<1>5. NoCreateInDelete'
  BY <1>1, <1>2, <1>3 DEF DeleteCount, NoCreateInDelete, IsDeleting, AtStep
<1>6. TargetKnown'
  BY <1>1, <1>2, <1>3
     DEF DeleteCount, TargetKnown, OneAdmin, Busy, IsRenaming, IsDeleting, AtStep, state
<1>7. CountExact'
  BY <1>1, <1>2, <1>3
     DEF DeleteCount, CountExact, OneAdmin, NoCreateInDelete, Busy, IsRenaming,
         IsDeleting, AtStep, state
<1>8. CreateCovered'
  BY <1>1, <1>2, <1>3, CreateStays DEF DeleteCount, AtStep, state
<1>9. LiveCovered'
  <2>1. ASSUME NEW s \in live PROVE CoveredSession(s)'
    <3>1. ~ Visits(c, s)
      BY <1>1, <1>2, <1>3 DEF DeleteCount, Visits, AtStep
    <3> QED
      BY <1>1, <1>2, <1>3, <2>1, <3>1, SessionStays
         DEF DeleteCount, LiveCovered, AtStep, state
  <2> QED
    BY <2>1 DEF LiveCovered, DeleteCount
<1> QED
  BY <1>4, <1>5, <1>6, <1>7, <1>8, <1>9

\* What the other requests change covers no fewer sessions.
LEMMA SerialOther ==
  ASSUME SerialInv, op' = op, workspaceOf' = workspaceOf,
         known \subseteq known', live' \subseteq live
  PROVE  SerialInv'
<1> USE DEF SerialInv
<1>1. OneAdmin'
  BY DEF OneAdmin, Busy, IsRenaming, IsDeleting
<1>2. NoCreateInDelete'
  BY DEF NoCreateInDelete, IsDeleting, AtStep
<1>3. TargetKnown'
  BY DEF TargetKnown, IsRenaming
<1>4. CountExact'
  BY DEF CountExact, AtStep
<1>5. ASSUME NEW n, CoveredName(n) PROVE CoveredName(n)'
  BY <1>5 DEF CoveredName, AtStep
<1>6. CreateCovered'
  <2>1. ASSUME NEW d \in Client, op'[d].at = "create"
        PROVE  \/ op'[d].ws \in known'
               \/ \E e \in Client : op'[e].at = "rename collect" /\ op'[e].from = op'[d].ws
    BY <2>1 DEF CreateCovered, CoveredName, AtStep
  <2> QED
    BY <2>1 DEF CreateCovered, CoveredName, AtStep
<1>7. ASSUME NEW s \in live' PROVE CoveredSession(s)'
  <2>1. CoveredSession(s)
    BY <1>7 DEF LiveCovered
  <2>2. \A c \in Client : Visits(c, s) => Visits(c, s)'
    BY DEF Visits, AtStep
  <2>3. CoveredName(workspaceOf[s]) => CoveredName(workspaceOf[s])'
    BY DEF CoveredName, AtStep
  <2> QED
    BY <2>1, <2>2, <2>3 DEF CoveredSession
<1> QED
  BY <1>1, <1>2, <1>3, <1>4, <1>6, <1>7 DEF LiveCovered

\* Every step of the restricted system keeps SerialInv.
LEMMA SerialStep ==
  ASSUME TypeOK, CurrentIsKnown, SerialInv, ~ ConcurrentAdmin, ~ CreateWhileDelete,
  [Next]_vars
  PROVE  SerialInv'
<1>1. CASE UNCHANGED vars
  BY <1>1, SerialOther DEF vars, state
<1>2. ASSUME NEW c \in Client, Create(c)
      PROVE  SerialInv'
  BY <1>2, SerialCreateSession, SerialInsertSession, SerialCreateFails DEF Create
<1>3. ASSUME NEW c \in Client, Rename(c)
      PROVE  SerialInv'
  BY <1>3, SerialRenameWorkspace, SerialRenameCollect, SerialRenameSession, SerialRenameDone
     DEF Rename
<1>4. ASSUME NEW c \in Client, Delete(c)
      PROVE  SerialInv'
  BY <1>4, SerialDeleteWorkspace, SerialDeleteCount, SerialDeleteRefused,
     SerialDeleteFromKnown, SerialDeleteMigrate, SerialDeleteDone DEF Delete
<1>5. ASSUME NEW c \in Client, NEW s \in Sessions, KillSession(c, s)
      PROVE  SerialInv'
  BY <1>5, SerialOther DEF KillSession, state
<1>6. ASSUME NEW c \in Client, NEW name \in Name,
             CreateWorkspace(c, name) \/ SwitchWorkspace(c, name)
      PROVE  SerialInv'
  BY <1>6, SerialOther DEF CreateWorkspace, SwitchWorkspace
<1> QED
  BY <1>1, <1>2, <1>3, <1>4, <1>5, <1>6 DEF Next

\* With nothing under way nobody is covered by an operation.
LEMMA QuietIsCovered == SerialInv => SessionsInKnownWorkspaces
<1> SUFFICES ASSUME SerialInv, Quiet, NEW s \in live PROVE workspaceOf[s] \in known
  BY DEF SessionsInKnownWorkspaces
<1>1. ASSUME NEW c \in Client PROVE op[c].at = "idle"
  BY DEF Quiet, Idle
<1> QED
  BY <1>1 DEF SerialInv, LiveCovered, CoveredSession, CoveredName, Visits, AtStep

\* When no request is under way every live session belongs to a known
\* workspace (Workspaces, SessionsInKnownWorkspaces), provided renames and
\* deletions do not overlap and no session is created during a deletion:
\* what the comment in delete_workspace takes for granted is enough, together
\* with the second condition, which it does not name.
THEOREM SessionsStayKnown ==
  ASSUME ~ ConcurrentAdmin, ~ CreateWhileDelete
  PROVE  Spec => []SessionsInKnownWorkspaces
<1>1. Init => SerialInv
  <2>1. ASSUME Init, NEW c \in Client PROVE op[c].at = "idle"
    BY <2>1 DEF Init, Idle
  <2> QED
    BY <2>1
       DEF Init, SerialInv, OneAdmin, Busy, NoCreateInDelete, TargetKnown, CreateCovered,
       LiveCovered, CountExact, IsRenaming, IsDeleting, AtStep
<1>2. TypeOK /\ CurrentIsKnown /\ SerialInv /\ [Next]_vars => SerialInv'
  BY SerialStep
<1>3. SerialInv => SessionsInKnownWorkspaces
  BY QuietIsCovered
<1> QED
  BY <1>1, <1>2, <1>3, TypeCorrect, CurrentStaysKnown, PTL DEF Spec

-----------------------------------------------------------------------------
(***************************************************************************)
(* Theorems about Snapshots, for any number of connections, names and      *)
(* sessions and a server that may die between any two steps.  They are     *)
(* about one saving task: with two, TLC finds a file that is not whole     *)
(* (see README.md).                                                        *)
(***************************************************************************)

\* Saves never overlap.
OneSaver == \A t, u \in Saver : t = u

\* A snapshot of some sessions, whose current workspace is one of its names.
SnapshotOK(x) ==
  IsSnapshot(x) /\ DOMAIN x.sessions # {} /\ x.current \in x.known

\* What a saving task holds at each of its steps.
SaverOK(o) ==
  /\ o.at \in {"wait", "state", "sessions", "open", "write", "rename"}
  /\ o.at = "state" => o.arcs \subseteq Sessions
  /\ o.at = "sessions" =>
       /\ o.todo \subseteq Sessions /\ IsSnapshot(o.snap) /\ o.snap.current \in o.snap.known
       /\ o.snap = Snapshot(o.snap.sessions, o.snap.current, o.snap.known)
  /\ o.at \in {"open", "write"} => SnapshotOK(o.snap)
  /\ o.at \in {"write", "rename"} => o.file = "tmp"

\* What the temporary file is while a task holds it.
TmpOK(o) ==
  /\ o.at = "write" => tmp = Empty
  /\ o.at = "rename" => SnapshotOK(tmp)

\* Not more sessions than there may be, the one that is being created included.
Room ==
  /\ Len(workspaceOf) <= MaxSession
  /\ MapLocked => Len(workspaceOf) < MaxSession

FilesOK ==
  /\ saver = [t \in Saver |-> saver[t]]
  /\ \A t \in Saver : SaverOK(saver[t]) /\ TmpOK(saver[t])
  /\ tmp \in {NoFile, Empty} \/ SnapshotOK(tmp)
  /\ disk = NoFile \/ SnapshotOK(disk)

\* The inductive invariant.
SInv == TypeOK /\ CurrentIsKnown /\ NeverDefault /\ Room /\ FilesOK

-----------------------------------------------------------------------------
(***************************************************************************)
(* Restarting.                                                             *)
(***************************************************************************)

\* Of the n numbers in K, one has none before it, one has one, and so on to n - 1:
\* the counts differ, so they are all of 0 .. n - 1.
LEMMA EveryCountTaken ==
  ASSUME NEW K \in SUBSET Nat, IsFiniteSet(K), NEW n \in Nat, n = Cardinality(K),
         NEW before, before = [s \in K |-> Cardinality({x \in K : x < s})]
  PROVE  \A k \in 0 .. (n - 1) : \E s \in K : before[s] = k
<1> DEFINE Before(s) == {x \in K : x < s}
<1>1. ASSUME NEW s \in K
      PROVE  IsFiniteSet(Before(s)) /\ Cardinality(Before(s)) \in 0 .. (n - 1)
  <2>1. Before(s) \in SUBSET (K \ {s})
    OBVIOUS
  <2>2. IsFiniteSet(K \ {s}) /\ Cardinality(K \ {s}) = n - 1
    BY FS_RemoveElement
  <2> HIDE DEF Before
  <2>3. IsFiniteSet(Before(s)) /\ Cardinality(Before(s)) <= n - 1
    BY <2>1, <2>2, FS_Subset
  <2>4. Cardinality(Before(s)) \in Nat
    BY <2>3, FS_CardinalityType
  <2> QED BY <2>3, <2>4
<1>2. ASSUME NEW s \in K, NEW t \in K, s < t
      PROVE  Cardinality(Before(s)) < Cardinality(Before(t))
  <2>1. s \in Before(t) /\ Before(s) \in SUBSET (Before(t) \ {s})
    <3>1. s \in Int /\ t \in Int /\ \A x \in K : x \in Int
      OBVIOUS
    <3>2. \A x \in K : x < s => x < t /\ x # s
      BY <1>2, <3>1
    <3> QED BY <1>2, <3>2
  <2>2. IsFiniteSet(Before(t)) /\ Cardinality(Before(t)) \in 0 .. (n - 1)
    BY <1>1
  <2>3. Cardinality(Before(s)) \in 0 .. (n - 1)
    BY <1>1
  <2> HIDE DEF Before
  <2>4. /\ IsFiniteSet(Before(t) \ {s})
        /\ Cardinality(Before(t) \ {s}) = Cardinality(Before(t)) - 1
    BY <2>1, <2>2, FS_RemoveElement
  <2>5. Cardinality(Before(s)) <= Cardinality(Before(t)) - 1
    BY <2>1, <2>4, FS_Subset
  <2> QED BY <2>2, <2>3, <2>5
<1>3. before = [s \in K |-> Cardinality(Before(s))]
  OBVIOUS
<1> HIDE DEF Before
<1>4. before \in [K -> 0 .. (n - 1)]
  BY <1>1, <1>3
<1>5. \A s, t \in K : before[s] = before[t] => s = t
  <2> SUFFICES ASSUME NEW s \in K, NEW t \in K, s # t PROVE before[s] # before[t]
    OBVIOUS
  <2>1. /\ before[s] = Cardinality(Before(s)) /\ before[s] \in Int
        /\ before[t] = Cardinality(Before(t)) /\ before[t] \in Int
    BY <1>3, <1>4
  <2>2. s < t \/ t < s
    OBVIOUS
  <2> QED BY <1>2, <2>1, <2>2
<1>6. before \in Injection(K, 0 .. (n - 1))
  <2>1. IsInjective(before)
    BY <1>4, <1>5 DEF IsInjective
  <2> QED BY <1>4, <2>1, Zenon DEF Injection
<1>7. IsFiniteSet(0 .. (n - 1)) /\ Cardinality(0 .. (n - 1)) = Cardinality(K)
  <2>1. 0 \in Int /\ n - 1 \in Int
    OBVIOUS
  <2>2. /\ IsFiniteSet(0 .. (n - 1))
        /\ Cardinality(0 .. (n - 1)) = IF 0 > n - 1 THEN 0 ELSE n - 1 - 0 + 1
    BY <2>1, FS_Interval
  <2> QED BY <2>2
<1>8. before \in Surjection(K, 0 .. (n - 1))
  BY <1>6, <1>7, FS_Injection
<1> QED BY <1>8 DEF Surjection

\* Restored sessions are numbered from 1 and keep their workspaces.
LEMMA RenumberedTyped ==
  ASSUME NEW f, NEW N, DOMAIN f \subseteq 1 .. MaxSession, \A s \in DOMAIN f : f[s] \in N
  PROVE  /\ Renumbered(f) \in Seq(N)
         /\ Len(Renumbered(f)) = Cardinality(DOMAIN f)
         /\ Cardinality(DOMAIN f) \in Nat /\ Cardinality(DOMAIN f) <= MaxSession
         /\ \A i \in 1 .. Len(Renumbered(f)) : \E s \in DOMAIN f : Renumbered(f)[i] = f[s]
<1> DEFINE K == DOMAIN f
           n == Cardinality(K)
           before == [s \in K |-> Cardinality({x \in K : x < s})]
           at(i) == CHOOSE s \in K : Cardinality({x \in K : x < s}) = i - 1
<1>1. MaxSession \in Nat /\ K \in SUBSET Nat
  BY WorkspacesAssumption
<1>2. IsFiniteSet(K) /\ n \in Nat /\ n <= MaxSession
  <2>1. IsFiniteSet(1 .. MaxSession) /\ Cardinality(1 .. MaxSession) = MaxSession
    BY <1>1, FS_Interval
  <2> QED BY <2>1, FS_Subset, FS_CardinalityType
<1>3. \A k \in 0 .. (n - 1) : \E s \in K : before[s] = k
  <2>1. before = [s \in K |-> Cardinality({x \in K : x < s})] /\ n = Cardinality(K)
    OBVIOUS
  <2> HIDE DEF K, n, before
  <2> QED BY <1>1, <1>2, <2>1, EveryCountTaken
<1>4. ASSUME NEW i \in 1 .. n PROVE at(i) \in K
  <2>1. i - 1 \in 0 .. (n - 1)
    BY <1>2
  <2>2. PICK s \in K : before[s] = i - 1
    BY <1>3, <2>1
  <2> QED BY <2>2
<1>5. Renumbered(f) = [i \in 1 .. n |-> f[at(i)]]
  BY DEF Renumbered
<1> HIDE DEF n, at
<1>6. Renumbered(f) \in [1 .. n -> N] /\ \A i \in 1 .. n : Renumbered(f)[i] = f[at(i)]
  BY <1>4, <1>5
<1>7. Renumbered(f) \in Seq(N) /\ Len(Renumbered(f)) = n
  BY <1>2, <1>6
<1> QED BY <1>2, <1>4, <1>6, <1>7 DEF n

\* What is loaded is a snapshot, of no sessions if there is no file.
LEMMA LoadedOK ==
  ASSUME disk = NoFile \/ SnapshotOK(disk)
  PROVE  IsSnapshot(Loaded)
<1>1. CASE disk = NoFile
  <2>1. Loaded = Snapshot(NoSession, Default, {Default})
    BY <1>1 DEF Loaded, NoFile
  <2> QED BY <2>1, WorkspacesAssumption DEF Snapshot, NoSession, IsSnapshot
<1>2. CASE SnapshotOK(disk)
  BY <1>2 DEF Loaded, SnapshotOK, IsSnapshot
<1> QED BY <1>1, <1>2

\* Whatever file it finds, the server starts in a good state: the current
\* workspace and those of all sessions are known.
LEMMA RestartGood ==
  ASSUME FilesOK, Restart
  PROVE  /\ TypeOK' /\ CurrentIsKnown' /\ NeverDefault' /\ Room' /\ FilesOK'
         /\ \A c \in Client : op'[c] = Idle
         /\ \A s \in live' : workspaceOf'[s] \in known'
<1> DEFINE snap == Loaded
           N == {snap.sessions[s] : s \in DOMAIN snap.sessions}
           m == Cardinality(DOMAIN snap.sessions)
<1>1. IsSnapshot(snap)
  BY LoadedOK DEF FilesOK
<1>2. /\ known' = {Default} \cup snap.known \cup N
      /\ current' = (IF snap.current \in known' THEN snap.current ELSE Default)
      /\ workspaceOf' = Renumbered(snap.sessions) /\ live' = 1 .. m
      /\ op' = [c \in Client |-> Idle] /\ saver' = [t \in Saver |-> Waiting]
      /\ tmp' = NoFile /\ disk' = disk
  BY DEF Restart, RestoredNames
<1> HIDE DEF snap
<1>3. known' \subseteq Name /\ current' \in Name /\ Default \in known' /\ current' \in known'
  BY <1>1, <1>2, WorkspacesAssumption DEF IsSnapshot
<1>4. /\ workspaceOf' \in Seq(Name) /\ Len(workspaceOf') = m /\ m \in Nat /\ m <= MaxSession
      /\ \A i \in 1 .. m : workspaceOf'[i] \in N
  <2>1. /\ DOMAIN snap.sessions \subseteq 1 .. MaxSession
        /\ \A s \in DOMAIN snap.sessions : snap.sessions[s] \in Name
    BY <1>1 DEF IsSnapshot
  <2> HIDE DEF m
  <2>2. /\ Renumbered(snap.sessions) \in Seq(Name) /\ Len(Renumbered(snap.sessions)) = m
        /\ m \in Nat /\ m <= MaxSession
        /\ \A i \in 1 .. m : \E s \in DOMAIN snap.sessions :
             Renumbered(snap.sessions)[i] = snap.sessions[s]
    BY <2>1, RenumberedTyped DEF m
  <2> QED BY <1>2, <2>2
<1> HIDE DEF m, N
<1>5. \A c \in Client : op'[c] = Idle
  BY <1>2
<1>6. OpTypeOK'
  <2>1. Idle.at # "create" /\ Idle \in OpOver(Name, Sessions')
    BY OpRecords DEF Idle
  <2>2. op' \in [Client -> OpOver(Name, Sessions')]
    BY <1>2, <2>1
  <2>3. OpOver(Name, Sessions)' = OpOver(Name, Sessions')
    BY DEF OpOver
  <2> QED BY <1>5, <2>1, <2>2, <2>3 DEF OpTypeOK, AtStep
<1>7. TypeOK'
  <2>1. live' \subseteq Sessions'
    BY <1>2, <1>4 DEF Sessions
  <2> QED BY <1>3, <1>4, <1>6, <2>1, TypeParts DEF DataTypeOK
<1>8. CurrentIsKnown' /\ NeverDefault' /\ Room'
  <2>1. Idle.at = "idle"
    BY DEF Idle
  <2>2. ~ MapLocked' /\ NeverDefault'
    BY <1>5, <2>1 DEF MapLocked, NeverDefault, AtStep
  <2> QED BY <1>3, <1>4, <2>2 DEF CurrentIsKnown, Room
<1>9. FilesOK'
  <2>1. Waiting.at = "wait"
    BY DEF Waiting
  <2>2. \A t \in Saver : SaverOK(saver[t])' /\ TmpOK(saver[t])'
    BY <1>2, <2>1 DEF SaverOK, TmpOK
  <2>3. tmp' \in {NoFile, Empty}
    BY <1>2
  <2>4. disk' = NoFile \/ SnapshotOK(disk')
    BY <1>2 DEF FilesOK
  <2>5. saver' = [t \in Saver |-> saver'[t]]
    BY <1>2
  <2> QED BY <2>2, <2>3, <2>4, <2>5 DEF FilesOK, SnapshotOK, IsSnapshot
<1>10. \A s \in live' : workspaceOf'[s] \in known'
  BY <1>2, <1>4
<1> QED BY <1>5, <1>7, <1>8, <1>9, <1>10

-----------------------------------------------------------------------------
(***************************************************************************)
(* The requests, and the saves.                                            *)
(***************************************************************************)

\* No request creates a session beyond the bound, or takes one away.
LEMMA RoomStep ==
  ASSUME TypeOK, Room, [Next]_vars
  PROVE  Room' /\ Sessions \subseteq Sessions'
<1>1. /\ op \in [Client -> OpOver(Name, Sessions)] /\ workspaceOf \in Seq(Name)
      /\ \A c, d \in Client : AtStep(c, "create") /\ AtStep(d, "create") => c = d
      /\ Len(workspaceOf) \in Nat /\ MaxSession \in Nat
  BY WorkspacesAssumption DEF TypeOK
<1>2. ASSUME NEW c \in Client, NEW o, SetOp(c, o), o.at # "create",
             Len(workspaceOf') = Len(workspaceOf)
      PROVE  Room' /\ Sessions \subseteq Sessions'
  <2>1. MapLocked' => MapLocked
    BY <1>1, <1>2, SetOpEffect DEF MapLocked, AtStep
  <2> QED BY <1>2, <2>1 DEF Room, Sessions
<1>3. \A s \in Sessions : \A n : Len([workspaceOf EXCEPT ![s] = n]) = Len(workspaceOf)
  BY <1>1
<1>4. CASE op' = op /\ workspaceOf' = workspaceOf
  BY <1>4 DEF Room, MapLocked, AtStep, Sessions
<1>5. ASSUME NEW c \in Client, Create(c)
      PROVE  Room' /\ Sessions \subseteq Sessions'
  <2>1. CASE CreateSession(c)
    BY <2>1 DEF CreateSession, Room, Sessions
  <2>2. CASE InsertSession(c)
    <3>1. MapLocked /\ Len(workspaceOf') = Len(workspaceOf) + 1
      BY <1>1, <2>2 DEF InsertSession, MapLocked
    <3>2. op'[c] = Idle /\ \A d \in Client : d # c => op'[d] = op[d]
      BY <1>1, <2>2, SetOpEffect DEF InsertSession
    <3>3. ~ MapLocked'
      BY <1>1, <2>2, <3>2 DEF InsertSession, MapLocked, AtStep, Idle
    <3> QED BY <1>1, <3>1, <3>3 DEF Room, Sessions
  <2>3. CASE CreateFails(c)
    <3>1. SetOp(c, Idle) /\ Idle.at # "create" /\ workspaceOf' = workspaceOf
      BY <2>3 DEF CreateFails, Idle
    <3> QED BY <1>2, <3>1
  <2> QED BY <1>5, <2>1, <2>2, <2>3 DEF Create
<1>a. /\ Idle.at # "create"
      /\ \A f, n : Collecting(f, n).at # "create"
      /\ \A f, n, todo : Renaming(f, n, todo).at # "create"
      /\ \A n, todo : Migrating(n, todo).at # "create"
      /\ \A n, f, arcs, todo, k : Counting(n, f, arcs, todo, k).at # "create"
  BY DEF Idle, Collecting, Renaming, Migrating, Counting
<1>6. ASSUME NEW c \in Client, Rename(c)
      PROVE  Room' /\ Sessions \subseteq Sessions'
  <2>1. ASSUME NEW from \in Name, NEW to \in Name, RenameWorkspace(c, from, to)
        PROVE  SetOp(c, Collecting(from, to)) /\ workspaceOf' = workspaceOf
    BY <2>1 DEF RenameWorkspace
  <2>2. RenameCollect(c) =>
          SetOp(c, Renaming(op[c].from, op[c].to, live)) /\ workspaceOf' = workspaceOf
    BY DEF RenameCollect
  <2>3. ASSUME NEW s \in Sessions, RenameSession(c, s)
        PROVE  /\ SetOp(c, Renaming(op[c].from, op[c].to, op[c].todo \ {s}))
               /\ Len(workspaceOf') = Len(workspaceOf)
    BY <1>3, <2>3 DEF RenameSession
  <2>4. RenameDone(c) => SetOp(c, Idle) /\ workspaceOf' = workspaceOf
    BY DEF RenameDone
  <2> QED BY <1>2, <1>6, <1>a, <2>1, <2>2, <2>3, <2>4 DEF Rename
<1>7. ASSUME NEW c \in Client, Delete(c)
      PROVE  Room' /\ Sessions \subseteq Sessions'
  <2>1. ASSUME NEW name \in Name, NEW force \in BOOLEAN, DeleteWorkspace(c, name, force)
        PROVE  SetOp(c, Counting(name, force, live, live, 0)) /\ workspaceOf' = workspaceOf
    BY <2>1 DEF DeleteWorkspace
  <2>2. ASSUME NEW s \in Sessions, DeleteCount(c, s)
        PROVE  Room' /\ Sessions \subseteq Sessions'
    <3> DEFINE k == IF workspaceOf[s] = op[c].name THEN op[c].count + 1 ELSE op[c].count
               o == Counting(op[c].name, op[c].force, op[c].arcs, op[c].todo \ {s}, k)
    <3>1. SetOp(c, o) /\ workspaceOf' = workspaceOf
      BY <2>2 DEF DeleteCount
    <3>2. o.at # "create"
      BY <1>a
    <3> HIDE DEF o
    <3> QED BY <1>2, <3>1, <3>2
  <2>3. DeleteRefused(c) \/ DeleteDone(c) => SetOp(c, Idle) /\ workspaceOf' = workspaceOf
    BY DEF DeleteRefused, DeleteDone
  <2>4. DeleteFromKnown(c) =>
          SetOp(c, Migrating(op[c].name, ToMigrate(c))) /\ workspaceOf' = workspaceOf
    BY DEF DeleteFromKnown
  <2>5. ASSUME NEW s \in Sessions, DeleteMigrate(c, s)
        PROVE  /\ SetOp(c, Migrating(op[c].name, op[c].todo \ {s}))
               /\ Len(workspaceOf') = Len(workspaceOf)
    BY <1>3, <2>5 DEF DeleteMigrate
  <2> QED BY <1>2, <1>7, <1>a, <2>1, <2>2, <2>3, <2>4, <2>5 DEF Delete
<1>8. ASSUME NEW c \in Client, NEW s \in Sessions, KillSession(c, s)
      PROVE  op' = op /\ workspaceOf' = workspaceOf
  BY <1>8 DEF KillSession
<1>9. ASSUME NEW c \in Client, NEW name \in Name,
             CreateWorkspace(c, name) \/ SwitchWorkspace(c, name)
      PROVE  op' = op /\ workspaceOf' = workspaceOf
  BY <1>9 DEF CreateWorkspace, SwitchWorkspace
<1>10. UNCHANGED vars => op' = op /\ workspaceOf' = workspaceOf
  BY DEF vars
<1> QED BY <1>2, <1>4, <1>5, <1>6, <1>7, <1>8, <1>9, <1>10 DEF Next

\* What the tasks hold stays right when there are more sessions.
LEMMA FilesStay ==
  ASSUME FilesOK, Sessions \subseteq Sessions', UNCHANGED saveVars
  PROVE  FilesOK'
<1>1. saver' = saver /\ tmp' = tmp /\ disk' = disk
  BY DEF saveVars
<1>2. ASSUME NEW t \in Saver PROVE SaverOK(saver[t])' /\ TmpOK(saver[t])'
  BY <1>1 DEF FilesOK, SaverOK, TmpOK, SnapshotOK, IsSnapshot
<1> QED BY <1>1, <1>2 DEF FilesOK, SnapshotOK, IsSnapshot

\* A step of the only task that saves: the task ends up right and so do the files.
LEMMA OneSaverMoves ==
  ASSUME OneSaver, FilesOK, NEW t \in Saver, NEW o, SetSaver(t, o), SaverOK(o),
         o.at = "write" => tmp' = Empty, o.at = "rename" => SnapshotOK(tmp'),
         tmp' \in {NoFile, Empty} \/ SnapshotOK(tmp'),
         disk' = NoFile \/ SnapshotOK(disk'),
         workspaceOf' = workspaceOf
  PROVE  FilesOK'
<1>1. /\ \A u \in Saver : u = t
      /\ saver' = [u \in Saver |-> saver'[u]] /\ saver'[t] = o
  BY DEF OneSaver, FilesOK, SetSaver
<1>2. ASSUME NEW u \in Saver PROVE SaverOK(saver[u])' /\ TmpOK(saver[u])'
  <2>1. saver'[u] = o
    BY <1>1
  <2> QED BY <2>1 DEF SaverOK, TmpOK, SnapshotOK, IsSnapshot, Sessions
<1> QED BY <1>1, <1>2 DEF FilesOK, SnapshotOK, IsSnapshot

\* The steps of a save that only read.
LEMMA ReadKeeps ==
  ASSUME OneSaver, SInv, NEW t \in Saver,
         \/ SaveCollect(t) \/ SaveState(t) \/ SaveRead(t)
         \/ \E s \in Sessions : SaveSession(t, s)
  PROVE  FilesOK'
<1> DEFINE o == saver[t]
<1>1. /\ SaverOK(o) /\ (tmp \in {NoFile, Empty} \/ SnapshotOK(tmp))
      /\ (disk = NoFile \/ SnapshotOK(disk)) /\ workspaceOf' = workspaceOf
      /\ tmp' = tmp /\ disk' = disk
  BY DEF SInv, FilesOK, SaveCollect, SaveState, SaveRead, SaveSession, vars
<1>2. ASSUME NEW n, SetSaver(t, n), SaverOK(n), n.at \notin {"write", "rename"}
      PROVE  FilesOK'
  BY <1>1, <1>2, OneSaverMoves DEF SInv
<1>3. CASE SaveCollect(t)
  <2>1. SaverOK(ReadingState(live))
    BY DEF ReadingState, SaverOK, SInv, TypeOK
  <2> QED BY <1>2, <1>3, <2>1 DEF SaveCollect, ReadingState
<1>4. CASE SaveState(t)
  <2>1. IsSnapshot(Snapshot(NoSession, current, known))
    BY DEF IsSnapshot, Snapshot, NoSession, SInv, TypeOK
  <2>2. SaverOK(Reading(o.arcs, Snapshot(NoSession, current, known)))
    BY <1>1, <1>4, <2>1
       DEF Reading, SaverOK, SaveState, SaverAt, SInv, CurrentIsKnown, Snapshot
  <2> QED BY <1>2, <1>4, <2>2 DEF SaveState, Reading
<1>5. ASSUME NEW s \in Sessions, SaveSession(t, s) PROVE FilesOK'
  <2> DEFINE seen == o.snap.sessions
             read == [x \in DOMAIN seen \cup {s} |-> IF x = s THEN workspaceOf[s] ELSE seen[x]]
             after == [o.snap EXCEPT !.sessions = read]
  <2>1. /\ o.todo \subseteq Sessions /\ IsSnapshot(o.snap) /\ o.snap.current \in o.snap.known
        /\ o.snap = Snapshot(o.snap.sessions, o.snap.current, o.snap.known)
        /\ SetSaver(t, Reading(o.todo \ {s}, after))
    BY <1>1, <1>5 DEF SaverOK, SaveSession, SaverAt
  <2>2. s \in 1 .. MaxSession /\ workspaceOf[s] \in Name
    BY WorkspacesAssumption DEF SInv, TypeOK, Room, Sessions
  <2>3. /\ DOMAIN read \subseteq 1 .. MaxSession
        /\ \A x \in DOMAIN read : read[x] \in Name
    BY <2>1, <2>2 DEF IsSnapshot
  <2>4. IsSnapshot(after) /\ after.current \in after.known
    <3>1. after = Snapshot(read, o.snap.current, o.snap.known)
      <4> HIDE DEF read
      <4> QED BY <2>1 DEF Snapshot
    <3> HIDE DEF read
    <3> QED BY <2>1, <2>3, <3>1 DEF IsSnapshot, Snapshot
  <2>5. after = Snapshot(after.sessions, after.current, after.known)
    <3> HIDE DEF read
    <3> QED BY <2>1 DEF Snapshot
  <2> HIDE DEF after
  <2>6. SaverOK(Reading(o.todo \ {s}, after))
    BY <2>1, <2>4, <2>5 DEF SaverOK, Reading
  <2> QED BY <1>2, <2>1, <2>6 DEF Reading
<1>6. CASE SaveRead(t)
  <2>1. SaverOK(Waiting) /\ Waiting.at = "wait"
    BY DEF SaverOK, Waiting
  <2>2. CASE DOMAIN o.snap.sessions = {}
    BY <1>2, <1>6, <2>1, <2>2 DEF SaveRead
  <2>3. CASE DOMAIN o.snap.sessions # {}
    <3>1. SnapshotOK(o.snap)
      BY <1>1, <1>6, <2>3 DEF SaverOK, SaveRead, SaverAt, SnapshotOK
    <3>2. SaverOK(Opening(o.snap)) /\ Opening(o.snap).at = "open"
      BY <3>1 DEF SaverOK, Opening
    <3> QED BY <1>2, <1>6, <2>3, <3>2 DEF SaveRead
  <2> QED BY <2>2, <2>3
<1> QED BY <1>3, <1>4, <1>5, <1>6

\* The steps that write.  The only task that saves finds the temporary file as
\* it left it, so what it renames is its snapshot.
LEMMA WriteKeeps ==
  ASSUME OneSaver, SInv, NEW t \in Saver,
         SaveOpen(t) \/ SaveWrite(t) \/ SaveRename(t) \/ SaveFails(t)
  PROVE  FilesOK'
<1> DEFINE o == saver[t]
<1>1. /\ SaverOK(o) /\ TmpOK(o) /\ (disk = NoFile \/ SnapshotOK(disk))
      /\ workspaceOf' = workspaceOf
  BY DEF SInv, FilesOK, SaveOpen, SaveWrite, SaveRename, SaveFails, vars
<1>2. SaverOK(Waiting) /\ Waiting.at = "wait"
  BY DEF SaverOK, Waiting
<1>3. CASE SaveOpen(t)
  <2>1. SaverOK(Writing(o.snap, "tmp")) /\ Writing(o.snap, "tmp").at = "write"
    BY <1>1, <1>3 DEF SaverOK, Writing, SaveOpen, SaverAt
  <2>2. tmp' = Empty /\ disk' = disk /\ SetSaver(t, Writing(o.snap, "tmp"))
    BY <1>3 DEF SaveOpen
  <2> QED BY <1>1, <2>1, <2>2, OneSaverMoves DEF SInv
<1>4. CASE SaveWrite(t)
  <2>1. o.file = "tmp" /\ tmp = Empty /\ SnapshotOK(o.snap)
    BY <1>1, <1>4 DEF SaveWrite, SaverAt, SaverOK, TmpOK
  <2>2. tmp' = o.snap /\ disk' = disk /\ SetSaver(t, Publishing("tmp"))
    BY <1>4, <2>1 DEF SaveWrite, Overwritten
  <2>3. SaverOK(Publishing("tmp")) /\ Publishing("tmp").at = "rename"
    BY DEF SaverOK, Publishing
  <2>4. SnapshotOK(tmp')
    BY <2>1, <2>2
  <2> QED BY <1>1, <2>2, <2>3, <2>4, OneSaverMoves DEF SInv
<1>5. CASE SaveRename(t)
  <2>1. SnapshotOK(tmp) /\ tmp # NoFile
    BY <1>1, <1>5 DEF SaveRename, SaverAt, TmpOK, SnapshotOK, IsSnapshot, NoFile
  <2>2. /\ disk' = tmp /\ tmp' = NoFile
        /\ saver' = [u \in Saver |->
             IF u = t THEN Waiting
             ELSE IF saver[u].at \in {"write", "rename"}
                  THEN [saver[u] EXCEPT !.file = FileAfterRename(@)]
                  ELSE saver[u]]
    BY <1>5, <2>1 DEF SaveRename
  <2>3. SetSaver(t, Waiting)
    BY <2>2 DEF SetSaver, OneSaver, SInv, FilesOK
  <2>4. SnapshotOK(disk')
    BY <2>1, <2>2
  <2> QED BY <1>1, <1>2, <2>2, <2>3, <2>4, OneSaverMoves DEF SInv
<1>6. CASE SaveFails(t)
  <2>1. tmp' = NoFile /\ disk' = disk /\ SetSaver(t, Waiting)
    BY <1>6 DEF SaveFails
  <2> QED BY <1>1, <1>2, <2>1, OneSaverMoves DEF SInv
<1> QED BY <1>3, <1>4, <1>5, <1>6

LEMMA SnapshotsStep ==
  ASSUME OneSaver, SInv, [SnapshotsNext]_allVars
  PROVE  SInv'
<1>1. [Next]_vars => /\ TypeOK' /\ CurrentIsKnown' /\ NeverDefault' /\ Room'
                     /\ Sessions \subseteq Sessions'
  BY TypeStep, CurrentStep, RoomStep DEF SInv
<1>2. CASE UNCHANGED allVars \/ (Next /\ UNCHANGED saveVars)
  <2>1. [Next]_vars /\ UNCHANGED saveVars
    BY <1>2 DEF allVars
  <2>2. FilesOK'
    BY <1>1, <2>1, FilesStay DEF SInv
  <2> QED BY <1>1, <2>1, <2>2 DEF SInv
<1>3. ASSUME NEW t \in Saver, SaveStep(t) \/ SaveFails(t) PROVE SInv'
  <2>1. UNCHANGED vars
    BY <1>3 DEF SaveStep, SaveCollect, SaveState, SaveRead, SaveSession, SaveOpen, SaveWrite,
       SaveRename, SaveFails
  <2>2. FilesOK'
    BY <1>3, ReadKeeps, WriteKeeps DEF SaveStep
  <2> QED BY <1>1, <2>1, <2>2 DEF SInv
<1>4. CASE Restart
  BY <1>4, RestartGood DEF SInv
<1> QED BY <1>2, <1>3, <1>4 DEF SnapshotsNext

LEMMA SnapshotsStart == SnapshotsInit => SInv
<1> SUFFICES ASSUME SnapshotsInit PROVE SInv
  OBVIOUS
<1>1. /\ Init /\ saver = [t \in Saver |-> Waiting] /\ tmp = NoFile /\ disk = NoFile
      /\ workspaceOf = <<>> /\ \A c \in Client : op[c].at = "idle"
  BY DEF SnapshotsInit, Init, Idle
<1>2. TypeOK /\ CurrentIsKnown /\ NeverDefault
  BY <1>1, InitTypes DEF Init, CurrentIsKnown, NeverDefault, AtStep
<1>3. Room
  BY <1>1, WorkspacesAssumption DEF Room, MapLocked, AtStep
<1>4. FilesOK
  BY <1>1 DEF FilesOK, SaverOK, TmpOK, Waiting
<1> QED BY <1>2, <1>3, <1>4 DEF SInv

-----------------------------------------------------------------------------
(***************************************************************************)
(* The theorems.                                                           *)
(***************************************************************************)

\* The manager, the saving task and its two files are right at every moment of
\* the server's lives.
THEOREM SnapshotsInductive == ASSUME OneSaver PROVE SnapshotsSpec => []SInv
<1>1. SInv /\ [SnapshotsNext]_allVars => SInv'
  BY SnapshotsStep
<1> QED BY SnapshotsStart, <1>1, PTL DEF SnapshotsSpec

\* Every variable has its type (Snapshots, SnapshotsTypeOK): a save that is under
\* way holds a snapshot whose current workspace it says is known.
THEOREM SnapshotsTypeCorrect == ASSUME OneSaver PROVE SnapshotsSpec => []SnapshotsTypeOK
<1>1. SInv => SnapshotsTypeOK
  BY DEF SInv, FilesOK, SaverOK, SnapshotOK, SnapshotsTypeOK
<1> QED BY <1>1, SnapshotsInductive, PTL

\* Whenever the process dies, it leaves no file or a whole one, as long as saves
\* do not overlap (persist.rs, write_atomic_secure).
THEOREM FileStaysWhole == ASSUME OneSaver PROVE SnapshotsSpec => []FileIsWhole
<1>1. SInv => FileIsWhole
  BY DEF SInv, FilesOK, SnapshotOK, FileIsWhole
<1> QED BY <1>1, SnapshotsInductive, PTL

\* The current workspace is known, also after a restart from whatever file was
\* left (session.rs, SessionManager::restore_from_snapshot).
THEOREM CurrentKnownAfterRestart == ASSUME OneSaver PROVE SnapshotsSpec => []CurrentIsKnown
<1>1. SInv => CurrentIsKnown
  BY DEF SInv
<1> QED BY <1>1, SnapshotsInductive, PTL

\* Every session is in a known workspace when nothing is under way, also after
\* a restart from a snapshot that was taken in the middle of a rename or of a
\* deletion (session.rs, SessionManager::to_snapshot and restore_from_snapshot).
THEOREM SessionsKnownAfterRestart ==
  ASSUME OneSaver, ~ ConcurrentAdmin, ~ CreateWhileDelete
  PROVE  SnapshotsSpec => []SessionsInKnownWorkspaces
<1>1. SnapshotsInit => SerialInv
  <2>1. ASSUME SnapshotsInit, NEW c \in Client PROVE op[c].at = "idle"
    BY <2>1 DEF SnapshotsInit, Init, Idle
  <2> QED BY <2>1 DEF SnapshotsInit, Init, SerialInv, OneAdmin, Busy, NoCreateInDelete,
             TargetKnown, CreateCovered, LiveCovered, CountExact, IsRenaming, IsDeleting, AtStep
<1>2. ASSUME SInv, SerialInv, [SnapshotsNext]_allVars PROVE SerialInv'
  <2>1. [Next]_vars => SerialInv'
    BY <1>2, SerialStep DEF SInv
  <2>2. CASE Restart
    <3>1. /\ \A c \in Client : op'[c].at = "idle"
          /\ \A s \in live' : workspaceOf'[s] \in known'
      BY <1>2, <2>2, RestartGood DEF SInv, Idle
    <3> QED BY <3>1 DEF SerialInv, OneAdmin, Busy, NoCreateInDelete, TargetKnown,
               CreateCovered, LiveCovered, CoveredSession, CoveredName, CountExact,
               IsRenaming, IsDeleting, AtStep
  <2>3. UNCHANGED allVars => UNCHANGED vars
    BY DEF allVars
  <2>4. ASSUME NEW t \in Saver, SaveStep(t) \/ SaveFails(t) PROVE UNCHANGED vars
    BY <2>4 DEF SaveStep, SaveCollect, SaveState, SaveRead, SaveSession, SaveOpen, SaveWrite,
       SaveRename, SaveFails
  <2> QED BY <1>2, <2>1, <2>2, <2>3, <2>4 DEF SnapshotsNext
<1>3. SerialInv => SessionsInKnownWorkspaces
  BY QuietIsCovered
<1> QED BY <1>1, <1>2, <1>3, SnapshotsInductive, PTL DEF SnapshotsSpec

=============================================================================
