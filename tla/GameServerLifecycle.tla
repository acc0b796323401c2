------------------------ MODULE GameServerLifecycle ------------------------
(***************************************************************************)
(* The state table of a GameServer custom resource,                        *)
(* api/v1alpha1/gameserver_lifecycle.go.  Status.State is the empty string *)
(* from the creation of the object until the operator's first write.       *)
(***************************************************************************)

\* The lifecycle states the operator and the API write.
GameServerStates ==
    {"Creating", "Starting", "Ready", "Allocated", "Shutdown", "Error"}

\* What Status.State can hold: a lifecycle state, or nothing yet.
StatusStates == GameServerStates \cup {""}

\* The table the operator consults before it writes a new state.
ValidTransitions ==
    [Creating  |-> {"Starting", "Error"},
     Starting  |-> {"Ready", "Creating", "Error", "Shutdown"},
     Ready     |-> {"Allocated", "Creating", "Error", "Shutdown"},
     Allocated |-> {"Ready", "Creating", "Error", "Shutdown"},
     Shutdown  |-> {"Creating"},
     Error     |-> {"Shutdown", "Creating"}]

IsValidTransition(from, to) ==
    /\ from \in DOMAIN ValidTransitions
    /\ to \in ValidTransitions[from]

\* The states in which a server occupies a slot of the admin's limits: it has
\* passed the admission checks of Creating and is meant to run.
ActiveStates == {"Starting", "Ready", "Allocated"}
=============================================================================
