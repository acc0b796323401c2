------------------------------ MODULE Sessions ------------------------------
(***************************************************************************)
(* Signing keys and JSON web tokens: internal/auth/jwt.go and              *)
(* middleware.go, with EnsureSigningKey as cmd/main.go calls it before the *)
(* manager starts, and the web client's token.                             *)
(*                                                                         *)
(* Every replica of the operator serves the HTTP API (a manager.Server     *)
(* needs no leadership), with the key and the lifetime of tokens it read   *)
(* when it started.  Time is counted in hours; an answer reaches the       *)
(* client within the hour of its request.                                  *)
(***************************************************************************)
EXTENDS Naturals

CONSTANTS
    Replicas,          \* processes of the operator, old and new ones of a rollout too
    Lifetimes,         \* values jwtExpirationHours has had
    RefreshThreshold,  \* hours before its expiry a token is renewed
    MaxTime,           \* bound: the clock stops here
    MaxKeys            \* bound: signing keys generated

ASSUME SessionsAssumption ==
    /\ Lifetimes \subseteq Nat \ {0}
    /\ RefreshThreshold \in Nat
    /\ MaxTime \in Nat /\ MaxKeys \in Nat

VARIABLES
    clock,      \* the hour it is
    storedKey,  \* the signing key in its Secret, or 0
    lastKey,    \* the last one generated
    rotated,    \* an administrator has deleted the Secret
    replica,    \* the processes
    token,      \* the client's token
    lastSeen    \* when the client last had an answer

sessionVars == <<clock, storedKey, lastKey, rotated, replica, token, lastSeen>>

-----------------------------------------------------------------------------
ReplicaStates == [pc : {"down", "creating", "running"}, key : 0..MaxKeys,
                  lifetime : Nat]
Down == [pc |-> "down", key |-> 0, lifetime |-> 0]

Tokens == [key : 0..MaxKeys, expires : Nat]
NoToken == [key |-> 0, expires |-> 0]

SessionsTypeOK ==
    /\ clock \in 0..MaxTime
    /\ lastKey \in 0..MaxKeys
    /\ storedKey \in 0..lastKey
    /\ rotated \in BOOLEAN
    /\ replica \in [Replicas -> ReplicaStates]
    /\ token \in Tokens
    /\ lastSeen \in 0..clock

SessionsInit ==
    /\ clock = 0
    /\ storedKey = 0
    /\ lastKey = 0
    /\ rotated = FALSE
    /\ replica = [p \in Replicas |-> Down]
    /\ token = NoToken
    /\ lastSeen = 0

-----------------------------------------------------------------------------
(***************************************************************************)
(* EnsureSigningKey, with an uncached client.                              *)
(***************************************************************************)
\* The key is known and the configuration is read: the replica serves.
Serve(p, key) ==
    \E hours \in Lifetimes :
        replica' = [replica EXCEPT ![p] =
                       [pc |-> "running", key |-> key, lifetime |-> hours]]

LoadKey(p) ==
    /\ replica[p].pc = "down"
    /\ storedKey # 0
    /\ Serve(p, storedKey)
    /\ UNCHANGED <<clock, storedKey, lastKey, rotated, token, lastSeen>>

\* There is no Secret: a key is generated...
GenerateKey(p) ==
    /\ replica[p].pc = "down"
    /\ storedKey = 0
    /\ lastKey < MaxKeys
    /\ lastKey' = lastKey + 1
    /\ replica' = [replica EXCEPT ![p] =
                      [pc |-> "creating", key |-> lastKey + 1, lifetime |-> 0]]
    /\ UNCHANGED <<clock, storedKey, rotated, token, lastSeen>>

\* Fault: the answer that the Secret exists by now is ignored.
CreateKeyAnyway(p) ==
    /\ replica[p].pc = "creating"
    /\ storedKey' = IF storedKey = 0 THEN replica[p].key ELSE storedKey
    /\ Serve(p, replica[p].key)
    /\ UNCHANGED <<clock, lastKey, rotated, token, lastSeen>>

\* ...and its Secret is created.  If another replica was faster the process
\* exits, and is started again.
CreateKey(p) ==
    /\ replica[p].pc = "creating"
    /\ \/ /\ storedKey = 0
          /\ storedKey' = replica[p].key
          /\ Serve(p, replica[p].key)
       \/ /\ storedKey # 0
          /\ replica' = [replica EXCEPT ![p] = Down]
          /\ UNCHANGED storedKey
    /\ UNCHANGED <<clock, lastKey, rotated, token, lastSeen>>

-----------------------------------------------------------------------------
(***************************************************************************)
(* Tokens.                                                                 *)
(***************************************************************************)
Running(p) == replica[p].pc = "running"

\* GenerateToken, and the client keeps the answer.
IssueToken(p) ==
    /\ token' = [key |-> replica[p].key, expires |-> clock + replica[p].lifetime]
    /\ lastSeen' = clock

\* ValidateToken: the signature, and the time before the expiry.
Accepts(p) == Running(p) /\ token.key = replica[p].key /\ clock < token.expires

\* Fault: a token exactly the threshold away from its expiry is not renewed.
ShouldRefreshTooLate == token.expires < clock + RefreshThreshold

ShouldRefresh == token.expires <= clock + RefreshThreshold

\* Authenticate renews a token close to its expiry; the client takes it from
\* the header of the answer.
Authenticate(p) ==
    /\ Accepts(p)
    /\ IF ShouldRefresh THEN IssueToken(p)
                        ELSE lastSeen' = clock /\ UNCHANGED token
    /\ UNCHANGED <<clock, storedKey, lastKey, rotated, replica>>

\* handleRefresh, behind Authenticate.
Refresh(p) ==
    /\ Accepts(p)
    /\ IssueToken(p)
    /\ UNCHANGED <<clock, storedKey, lastKey, rotated, replica>>

-----------------------------------------------------------------------------
\* An administrator deletes the Secret; it takes effect with a new start.
RotateKey ==
    /\ storedKey # 0
    /\ storedKey' = 0
    /\ rotated' = TRUE
    /\ UNCHANGED <<clock, lastKey, replica, token, lastSeen>>

Tick ==
    /\ clock < MaxTime
    /\ clock' = clock + 1
    /\ UNCHANGED <<storedKey, lastKey, rotated, replica, token, lastSeen>>

-----------------------------------------------------------------------------
\* A client that has had an answer within the threshold, and within every
\* lifetime a replica may have given its token, is served by every running
\* replica: through renewals, restarts, rollouts and changes of the lifetime,
\* until the key is rotated (ShouldRefresh, Authenticate, EnsureSigningKey).
SessionKept ==
    /\ token # NoToken /\ ~rotated
    /\ clock <= lastSeen + RefreshThreshold
    /\ \A hours \in Lifetimes : clock < lastSeen + hours
    => \A p \in Replicas : Running(p) => Accepts(p)
=============================================================================
