----------------------------- MODULE AuthProofs -----------------------------
(***************************************************************************)
(* Theorems about Auth for any replicas, invites, names and registrations, *)
(* any lifetimes of tokens and any bounds.                                 *)
(***************************************************************************)
EXTENDS Auth, TLAPS

-----------------------------------------------------------------------------
(***************************************************************************)
(* The inductive invariant.                                                *)
(***************************************************************************)
\* A registration under way is served by a running replica and is about an
\* invite that was created (Register, Crash).
RequestsServed ==
    \A r \in Requests :
        request[r].pc # "idle" =>
            Running(request[r].at) /\ request[r].invite \in created

\* No account was made of an invite that was not created (CreateUser).
UncreatedUnused == \A i \in Invites \ created : made[i] = 0

\* Who serves, or is about to create the Secret, has a key that was generated,
\* and who serves has a lifetime of the configuration (EnsureSigningKey,
\* NewJWTService).
ReplicasReady ==
    \A p \in Replicas :
        /\ replica[p].key <= lastKey
        /\ replica[p].pc # "down" => replica[p].key # 0
        /\ Running(p) => replica[p].lifetime \in Lifetimes

\* Until the key is rotated, the key in the Secret is everybody's
\* (EnsureSigningKey).
KeysAgree ==
    /\ token # NoToken => token.key # 0
    /\ ~rotated => /\ \A p \in Replicas : Running(p) => replica[p].key = storedKey
                   /\ token # NoToken => token.key = storedKey

\* When the client last had an answer its token was either too young to be
\* renewed or new (ShouldRefresh, GenerateToken).
TokenLives ==
    token # NoToken =>
        \/ token.expires > lastSeen + RefreshThreshold
        \/ \E hours \in Lifetimes : token.expires >= lastSeen + hours

\* An invite that was lost with a registration has no Secret any more
\* (RedeemInvite, CreateUser, Crash).
LostGone == open \cap lost = {}

IInv ==
    /\ TypeOK
    /\ RequestsServed
    /\ UncreatedUnused
    /\ LostGone
    /\ InviteAccounted
    /\ ReplicasReady
    /\ KeysAgree
    /\ TokenLives

-----------------------------------------------------------------------------
(***************************************************************************)
(* Types.                                                                  *)
(***************************************************************************)
\* Nothing runs and nothing was issued at the start (EnsureSigningKey is yet
\* to be called): the initial state is of the right type.
LEMMA InitType == Init => TypeOK
  <1> SUFFICES ASSUME Init PROVE TypeOK
    OBVIOUS
  <1>1. SessionsTypeOK
    <2>1. Down \in ReplicaStates /\ NoToken \in Tokens
      BY SessionsAssumption DEF Down, ReplicaStates, NoToken, Tokens
    <2>2. rotated \in BOOLEAN
      BY DEF Init, SessionsInit
    <2>3. /\ clock \in 0..MaxTime /\ lastKey \in 0..MaxKeys
          /\ storedKey \in 0..lastKey /\ lastSeen \in 0..clock
      BY SessionsAssumption DEF Init, SessionsInit
    <2>4. replica \in [Replicas -> ReplicaStates] /\ token \in Tokens
      BY <2>1 DEF Init, SessionsInit
    <2> QED
      BY <2>2, <2>3, <2>4 DEF SessionsTypeOK
  <1>2. account \in Accounts /\ accountCache \in Accounts
    BY DEF Init, Accounts
  <1>3. request \in [Requests -> RequestStates]
    BY DEF Init, RequestStates
  <1> QED
    BY <1>1, <1>2, <1>3, AuthAssumption DEF Init, TypeOK

\* A replica that is given a key and a lifetime keeps its type.
LEMMA ServeType ==
    ASSUME TypeOK, NEW p \in Replicas, NEW k \in 0..MaxKeys, Serve(p, k)
    PROVE  replica' \in [Replicas -> ReplicaStates]
  BY SessionsAssumption DEF Serve, TypeOK, SessionsTypeOK, ReplicaStates

\* A token that a replica issues is one.
LEMMA IssueTokenType ==
    ASSUME TypeOK, NEW p \in Replicas, IssueToken(p), clock' = clock
    PROVE  token' \in Tokens /\ lastSeen' \in 0..clock'
  <1>1. replica[p].key \in 0..MaxKeys /\ replica[p].lifetime \in Nat /\ clock \in Nat
    BY SessionsAssumption DEF TypeOK, SessionsTypeOK, ReplicaStates
  <1> QED
    BY <1>1, SessionsAssumption DEF IssueToken, Tokens

\* The steps of Sessions keep the types of its variables.
LEMMA SessionStepType ==
    ASSUME TypeOK, ReplicasReady, SessionStep \/ RotateKey
    PROVE  SessionsTypeOK'
  <1> USE SessionsAssumption
  <1>1. SessionsTypeOK
    BY DEF TypeOK
  <1>2. ASSUME NEW p \in Replicas, LoadKey(p)
        PROVE  SessionsTypeOK'
    <2>1. storedKey \in 0..MaxKeys
      BY <1>1 DEF SessionsTypeOK
    <2>2. replica' \in [Replicas -> ReplicaStates]
      BY <1>2, <2>1, ServeType DEF LoadKey
    <2> QED
      BY <1>1, <1>2, <2>2 DEF LoadKey, SessionsTypeOK
  <1>3. ASSUME NEW p \in Replicas, GenerateKey(p)
        PROVE  SessionsTypeOK'
    BY <1>1, <1>3 DEF GenerateKey, SessionsTypeOK, ReplicaStates
  <1>4. ASSUME NEW p \in Replicas, CreateKey(p)
        PROVE  SessionsTypeOK'
    <2>1. replica[p].key \in 0..MaxKeys /\ replica[p].key \in 0..lastKey
      BY <1>1 DEF SessionsTypeOK, ReplicaStates, ReplicasReady
    <2>2. replica' \in [Replicas -> ReplicaStates]
      <3>1. CASE Serve(p, replica[p].key)
        BY <2>1, <3>1, ServeType
      <3>2. CASE replica' = [replica EXCEPT ![p] = Down]
        BY <1>1, <3>2 DEF SessionsTypeOK, Down, ReplicaStates
      <3> QED
        BY <1>4, <3>1, <3>2 DEF CreateKey
    <2> QED
      BY <1>1, <1>4, <2>1, <2>2 DEF CreateKey, SessionsTypeOK
  <1>5. ASSUME NEW p \in Replicas, Authenticate(p)
        PROVE  SessionsTypeOK'
    <2>1. CASE IssueToken(p)
      BY <1>1, <1>5, <2>1, IssueTokenType DEF Authenticate, SessionsTypeOK
    <2>2. CASE lastSeen' = clock /\ UNCHANGED token
      BY <1>1, <1>5, <2>2 DEF Authenticate, SessionsTypeOK
    <2> QED
      BY <1>5, <2>1, <2>2 DEF Authenticate
  <1>6. ASSUME NEW p \in Replicas, Refresh(p)
        PROVE  SessionsTypeOK'
    BY <1>1, <1>6, IssueTokenType DEF Refresh, SessionsTypeOK
  <1>7. CASE Tick
    BY <1>1, <1>7 DEF Tick, SessionsTypeOK
  <1>8. CASE RotateKey
    BY <1>1, <1>8 DEF RotateKey, SessionsTypeOK
  <1> QED
    BY <1>2, <1>3, <1>4, <1>5, <1>6, <1>7, <1>8 DEF SessionStep

\* Every step keeps the types, given what the other parts of the invariant
\* say of replicas and registrations.
LEMMA NextType ==
    ASSUME TypeOK, RequestsServed, ReplicasReady, [Next]_vars
    PROVE  TypeOK'
  <1> USE AuthAssumption
  <1>1. CASE SessionStep /\ UNCHANGED accountVars
    BY <1>1, SessionStepType DEF TypeOK, accountVars
  <1>2. CASE /\ RotateKey
             /\ Spend
             /\ UNCHANGED <<open, openCache, expires, created, account,
                            accountCache, request, made, lapsed, lost>>
    BY <1>2, SessionStepType DEF TypeOK, Spend
  <1>3. CASE SyncInvites
    BY <1>3 DEF SyncInvites, TypeOK, SessionsTypeOK, sessionVars
  <1>4. CASE SyncUsers
    BY <1>4 DEF SyncUsers, TypeOK, SessionsTypeOK, sessionVars
  <1>5. ASSUME NEW p \in Replicas, NEW i \in Invites, CreateInvite(i, p)
        PROVE  TypeOK'
    <2>1. SessionsTypeOK'
      BY <1>5 DEF CreateInvite, TypeOK, SessionsTypeOK, sessionVars
    <2>2. clock + InviteHours \in Nat
      BY SessionsAssumption DEF TypeOK, SessionsTypeOK
    <2> QED
      BY <1>5, <2>1, <2>2 DEF CreateInvite, TypeOK
  <1>6. ASSUME NEW p \in Replicas, NEW i \in Invites, RefuseExpired(i, p)
        PROVE  TypeOK'
    <2>1. SessionsTypeOK'
      BY <1>6 DEF RefuseExpired, TypeOK, SessionsTypeOK, sessionVars
    <2> QED
      BY <1>6, <2>1 DEF RefuseExpired, TypeOK
  <1>7. ASSUME NEW p \in Replicas, NEW r \in Requests, NEW i \in Invites,
               NEW n \in Names, Register(r, i, n, p)
        PROVE  TypeOK'
    <2>1. SessionsTypeOK'
      BY <1>7 DEF Register, TypeOK, SessionsTypeOK, sessionVars
    <2>2. request' \in [Requests -> RequestStates]
      BY <1>7 DEF Register, TypeOK, RequestStates
    <2> QED
      BY <1>7, <2>1, <2>2 DEF Register, Spend, TypeOK
  <1>8. ASSUME NEW p \in Replicas, NEW n \in Names, Login(n, p)
        PROVE  TypeOK'
    <2>1. SessionsTypeOK'
      BY <1>8, IssueTokenType DEF Login, TypeOK, SessionsTypeOK
    <2> QED
      BY <1>8, <2>1 DEF Login, accountVars, TypeOK
  <1>9. ASSUME NEW p \in Replicas, NEW n \in Names, DeleteUser(n, p)
        PROVE  TypeOK'
    <2>1. SessionsTypeOK'
      BY <1>9 DEF DeleteUser, TypeOK, SessionsTypeOK, sessionVars
    <2>2. /\ account' \in Accounts
          /\ \A m \in Reserved : account'[m] = NoInvite
      BY <1>9 DEF DeleteUser, TypeOK, Accounts
    <2> QED
      BY <1>9, <2>1, <2>2 DEF DeleteUser, Spend, TypeOK
  <1>10. ASSUME NEW p \in Replicas, Crash(p)
         PROVE  TypeOK'
    <2>1. SessionsTypeOK'
      <3>1. Down \in ReplicaStates
        BY SessionsAssumption DEF Down, ReplicaStates
      <3>2. replica' \in [Replicas -> ReplicaStates]
        BY <1>10, <3>1 DEF Crash, TypeOK, SessionsTypeOK
      <3> QED
        BY <1>10, <3>2 DEF Crash, TypeOK, SessionsTypeOK
    <2>2. request' \in [Requests -> RequestStates]
      BY <1>10 DEF Crash, TypeOK, RequestStates
    <2>3. lost' \subseteq created'
      BY <1>10 DEF Crash, TypeOK, RequestsServed
    <2> QED
      BY <1>10, <2>1, <2>2, <2>3 DEF Crash, Spend, TypeOK
  <1>11. ASSUME NEW r \in Requests, RedeemInvite(r)
         PROVE  TypeOK'
    <2>1. SessionsTypeOK'
      BY <1>11 DEF RedeemInvite, TypeOK, SessionsTypeOK, sessionVars
    <2>2. request' \in [Requests -> RequestStates]
      BY <1>11 DEF RedeemInvite, Finish, TypeOK, RequestStates, Idle
    <2>3. open' \subseteq created' /\ lost' \subseteq created'
      BY <1>11 DEF RedeemInvite, TypeOK, RequestsServed
    <2>4. used' \in 0..MaxEvents
      BY <1>11 DEF RedeemInvite, Spend, TypeOK
    <2> QED
      BY <1>11, <2>1, <2>2, <2>3, <2>4 DEF RedeemInvite, TypeOK
  <1>12. ASSUME NEW r \in Requests, CreateUser(r)
         PROVE  TypeOK'
    <2>1. /\ request[r].at \in Replicas
          /\ request[r].name \in Names
          /\ request[r].invite \in Invites
          /\ request[r].invite \in created
      BY <1>12 DEF CreateUser, TypeOK, RequestStates, Idle, RequestsServed
    <2>2. SessionsTypeOK'
      BY <1>12, <2>1, IssueTokenType DEF CreateUser, TypeOK, SessionsTypeOK
    <2>3. request' \in [Requests -> RequestStates]
      BY <1>12 DEF CreateUser, Finish, TypeOK, RequestStates, Idle
    <2>4. /\ account' \in Accounts
          /\ \A m \in Reserved : account'[m] = NoInvite
          /\ made' \in [Invites -> Nat]
      BY <1>12, <2>1 DEF CreateUser, MakeAccount, TypeOK, Accounts
    <2>5. lost' \subseteq created' /\ used' \in 0..MaxEvents
      BY <1>12, <2>1 DEF CreateUser, Spend, TypeOK
    <2> QED
      BY <1>12, <2>2, <2>3, <2>4, <2>5 DEF CreateUser, TypeOK
  <1>13. CASE UNCHANGED vars
    BY <1>13 DEF vars, accountVars, sessionVars, TypeOK, SessionsTypeOK
  <1> QED
    BY <1>1, <1>2, <1>3, <1>4, <1>5, <1>6, <1>7, <1>8, <1>9, <1>10, <1>11,
       <1>12, <1>13 DEF Next

-----------------------------------------------------------------------------
(***************************************************************************)
(* Registrations and invites.                                              *)
(***************************************************************************)
\* The steps that touch neither invites nor registrations.
InvitesUntouched ==
    UNCHANGED <<open, created, request, made, lapsed, lost>>

\* What the invariant says of invites depends on invites and registrations
\* alone, and on who is running.
LEMMA UntouchedInvites ==
    ASSUME RequestsServed, UncreatedUnused, LostGone, InviteAccounted,
           InvitesUntouched,
           \A p \in Replicas : Running(p) => Running(p)',
           TypeOK
    PROVE  RequestsServed' /\ UncreatedUnused' /\ LostGone' /\ InviteAccounted'
  <1>1. RequestsServed'
    BY DEF InvitesUntouched, RequestsServed, TypeOK, RequestStates, Idle
  <1>2. UncreatedUnused' /\ LostGone'
    BY DEF InvitesUntouched, UncreatedUnused, LostGone
  <1>3. InviteAccounted'
    BY DEF InvitesUntouched, InviteAccounted, Redeemers
  <1> QED
    BY <1>1, <1>2, <1>3

\* CreateInvite: the invite is new, so no registration is about it and it has
\* made no account.
LEMMA CreateInviteAccounts ==
    ASSUME IInv, NEW i \in Invites, NEW p \in Replicas, CreateInvite(i, p)
    PROVE  RequestsServed' /\ UncreatedUnused' /\ LostGone' /\ InviteAccounted'
  <1> USE DEF CreateInvite, sessionVars
  <1>1. /\ RequestsServed /\ UncreatedUnused /\ LostGone /\ InviteAccounted
        /\ lost \subseteq created /\ i \notin created
    BY DEF IInv, TypeOK
  <1>2. RequestsServed'
    BY <1>1 DEF RequestsServed, Running
  <1>3. UncreatedUnused' /\ LostGone'
    BY <1>1 DEF UncreatedUnused, LostGone
  <1>4. Redeemers(i) = {} /\ made[i] = 0
    BY <1>1 DEF Redeemers, RequestsServed, UncreatedUnused
  <1>5. \A j \in Invites : Redeemers(j)' = Redeemers(j)
    BY DEF Redeemers
  <1>6. InviteAccounted'
    <2> SUFFICES ASSUME NEW j \in created'
                 PROVE  /\ made[j] <= 1
                        /\ \A q, r \in Redeemers(j) : q = r
                        /\ Redeemers(j) # {} => made[j] = 0
                        /\ made[j] = 1 \/ Redeemers(j) # {} => j \notin open' \cup lost
                        /\ made[j] = 0 /\ Redeemers(j) = {}
                              => j \in open' \cup lapsed \cup lost
      BY <1>5 DEF InviteAccounted, IInv, TypeOK
    <2>1. CASE j = i
      BY <1>4, <2>1
    <2>2. CASE j # i
      BY <1>1, <2>2 DEF InviteAccounted
    <2> QED
      BY <2>1, <2>2
  <1> QED
    BY <1>2, <1>3, <1>6

\* RefuseExpired: an invite with a Secret has no redeemer and no account; it
\* lapses.
LEMMA RefuseExpiredAccounts ==
    ASSUME IInv, NEW i \in Invites, NEW p \in Replicas, RefuseExpired(i, p)
    PROVE  RequestsServed' /\ UncreatedUnused' /\ LostGone' /\ InviteAccounted'
  <1> USE DEF RefuseExpired, sessionVars
  <1>1. RequestsServed /\ UncreatedUnused /\ LostGone /\ InviteAccounted
    BY DEF IInv
  <1>2. RequestsServed'
    BY <1>1 DEF RequestsServed, Running
  <1>3. UncreatedUnused' /\ LostGone'
    BY <1>1 DEF UncreatedUnused, LostGone
  <1>4. InviteAccounted'
    BY <1>1 DEF InviteAccounted, Redeemers
  <1> QED
    BY <1>2, <1>3, <1>4

\* Register: the invite is one that was created, for the cache holds no
\* other, and the replica is running.
LEMMA RegisterAccounts ==
    ASSUME IInv, NEW r \in Requests, NEW i \in Invites, NEW n \in Names,
           NEW p \in Replicas, Register(r, i, n, p)
    PROVE  RequestsServed' /\ UncreatedUnused' /\ LostGone' /\ InviteAccounted'
  <1> USE DEF Register, sessionVars
  <1>1. RequestsServed /\ UncreatedUnused /\ LostGone /\ InviteAccounted /\ TypeOK
    BY DEF IInv
  <1>2. RequestsServed'
    BY <1>1 DEF RequestsServed, Running, TypeOK
  <1>3. UncreatedUnused' /\ LostGone'
    BY <1>1 DEF UncreatedUnused, LostGone
  <1>4. \A j \in Invites : Redeemers(j)' = Redeemers(j)
    BY <1>1 DEF Redeemers, TypeOK, Idle
  <1>5. InviteAccounted'
    BY <1>1, <1>4 DEF InviteAccounted, TypeOK
  <1> QED
    BY <1>2, <1>3, <1>5

\* What an invite's redeemers are after request r is over: the same, without r.
LEMMA FinishRedeemers ==
    ASSUME TypeOK, NEW r \in Requests, Finish(r)
    PROVE  \A j : Redeemers(j)' = Redeemers(j) \ {r}
  BY DEF Finish, TypeOK, Redeemers, Idle

\* RedeemInvite: the one that deletes the Secret is the only one to redeem the
\* invite; when it fails with the Secret gone the invite is lost.
LEMMA RedeemInviteAccounts ==
    ASSUME IInv, NEW r \in Requests, RedeemInvite(r)
    PROVE  RequestsServed' /\ UncreatedUnused' /\ LostGone' /\ InviteAccounted'
  <1> DEFINE i == request[r].invite
  <1>1. RequestsServed /\ UncreatedUnused /\ LostGone /\ InviteAccounted /\ TypeOK
    BY DEF IInv
  <1>2. request[r].pc = "redeeming" /\ i \in created /\ r \notin Redeemers(i)
    BY <1>1 DEF RedeemInvite, RequestsServed, Redeemers
  <1>3. \A j : r \notin Redeemers(j)
    BY <1>2 DEF Redeemers
  <1>4. UNCHANGED <<created, made, lapsed, replica>>
    BY DEF RedeemInvite, sessionVars
  <1>5. UncreatedUnused'
    BY <1>1, <1>4 DEF UncreatedUnused
  <1>6. CASE /\ i \in open
             /\ open' = open \ {i}
             /\ request' = [request EXCEPT ![r].pc = "redeemed"]
             /\ UNCHANGED <<lost, used>>
    <2>1. RequestsServed' /\ LostGone'
      BY <1>1, <1>2, <1>4, <1>6
      DEF RequestsServed, LostGone, Running, TypeOK, RequestStates, Idle
    <2>2. \A j : Redeemers(j)' = IF j = i THEN Redeemers(i) \cup {r} ELSE Redeemers(j)
      BY <1>1, <1>2, <1>6 DEF Redeemers, TypeOK, RequestStates, Idle
    <2>3. Redeemers(i) = {} /\ made[i] = 0 /\ i \notin lost
      BY <1>1, <1>2, <1>6 DEF InviteAccounted, LostGone, TypeOK
    <2>4. InviteAccounted'
      <3> SUFFICES ASSUME NEW j \in created
                   PROVE  /\ made[j] <= 1
                          /\ \A q, s \in Redeemers(j)' : q = s
                          /\ Redeemers(j)' # {} => made[j] = 0
                          /\ made[j] = 1 \/ Redeemers(j)' # {} => j \notin open' \cup lost
                          /\ made[j] = 0 /\ Redeemers(j)' = {}
                                => j \in open' \cup lapsed \cup lost
        BY <1>4, <1>6 DEF InviteAccounted
      <3>1. CASE j = i
        BY <1>6, <2>2, <2>3, <3>1
      <3>2. CASE j # i
        BY <1>1, <1>6, <2>2, <3>2 DEF InviteAccounted
      <3> QED
        BY <3>1, <3>2
    <2> QED
      BY <1>5, <2>1, <2>4
  <1>7. CASE Finish(r) /\ UNCHANGED <<open, lost>>
    <2>1. RequestsServed' /\ LostGone'
      BY <1>1, <1>4, <1>7
      DEF RequestsServed, LostGone, Running, TypeOK, Finish, Idle
    <2>2. \A j : Redeemers(j)' = Redeemers(j)
      BY <1>1, <1>3, <1>7, FinishRedeemers
    <2>3. InviteAccounted'
      BY <1>1, <1>4, <1>7, <2>2 DEF InviteAccounted
    <2> QED
      BY <1>5, <2>1, <2>3
  <1>8. CASE /\ Finish(r)
             /\ i \in open
             /\ open' = open \ {i}
             /\ lost' = lost \cup {i}
    <2>1. RequestsServed' /\ LostGone'
      BY <1>1, <1>4, <1>8
      DEF RequestsServed, LostGone, Running, TypeOK, Finish, Idle
    <2>2. \A j : Redeemers(j)' = Redeemers(j)
      BY <1>1, <1>3, <1>8, FinishRedeemers
    <2>3. InviteAccounted'
      BY <1>1, <1>2, <1>4, <1>8, <2>2 DEF InviteAccounted
    <2> QED
      BY <1>5, <2>1, <2>3
  <1> QED
    BY <1>6, <1>7, <1>8 DEF RedeemInvite

\* CreateUser: the redeemer of an invite makes the one account of it, or
\* loses it.
LEMMA CreateUserAccounts ==
    ASSUME IInv, NEW r \in Requests, CreateUser(r)
    PROVE  RequestsServed' /\ UncreatedUnused' /\ LostGone' /\ InviteAccounted'
  <1> DEFINE i == request[r].invite
  <1>1. RequestsServed /\ UncreatedUnused /\ LostGone /\ InviteAccounted /\ TypeOK
    BY DEF IInv
  <1>2. Finish(r) /\ UNCHANGED <<open, created, lapsed, replica>>
    BY DEF CreateUser
  <1>3. i \in created /\ i \in Invites /\ r \in Redeemers(i)
    BY <1>1 DEF CreateUser, RequestsServed, Redeemers, TypeOK
  <1>4. Redeemers(i) = {r} /\ made[i] = 0 /\ i \notin open \cup lost
    BY <1>1, <1>3 DEF InviteAccounted
  <1>5. \A j : Redeemers(j)' = Redeemers(j) \ {r}
    BY <1>1, <1>2, FinishRedeemers
  <1>6. \A j : j # i => Redeemers(j)' = Redeemers(j)
    BY <1>5 DEF Redeemers
  <1>7. \A j : j = i => Redeemers(j)' = {}
    BY <1>4, <1>5
  <1>8. RequestsServed'
    BY <1>1, <1>2 DEF RequestsServed, Running, TypeOK, Finish, Idle
  <1>9. CASE MakeAccount(r) /\ UNCHANGED lost
    <2>1. made' = [made EXCEPT ![i] = @ + 1] /\ made \in [Invites -> Nat]
      BY <1>1, <1>9 DEF MakeAccount, TypeOK
    <2>2. made'[i] = 1 /\ \A j \in Invites : j # i => made'[j] = made[j]
      BY <1>3, <1>4, <2>1
    <2>3. UncreatedUnused' /\ LostGone'
      BY <1>1, <1>2, <1>3, <1>9, <2>2 DEF UncreatedUnused, LostGone
    <2>4. InviteAccounted'
      <3> SUFFICES ASSUME NEW j \in created
                   PROVE  /\ made'[j] <= 1
                          /\ \A q, s \in Redeemers(j)' : q = s
                          /\ Redeemers(j)' # {} => made'[j] = 0
                          /\ made'[j] = 1 \/ Redeemers(j)' # {} => j \notin open \cup lost
                          /\ made'[j] = 0 /\ Redeemers(j)' = {}
                                => j \in open \cup lapsed \cup lost
        BY <1>2, <1>9 DEF InviteAccounted
      <3>1. CASE j = i
        BY <1>4, <1>7, <2>2, <3>1
      <3>2. CASE j # i
        <4>1. Redeemers(j)' = Redeemers(j) /\ made'[j] = made[j]
          BY <1>1, <1>6, <2>2, <3>2 DEF TypeOK
        <4> QED
          BY <1>1, <4>1 DEF InviteAccounted
      <3> QED
        BY <3>1, <3>2
    <2> QED
      BY <1>8, <2>3, <2>4
  <1>10. CASE lost' = lost \cup {i} /\ UNCHANGED made
    <2>1. UncreatedUnused' /\ LostGone'
      BY <1>1, <1>2, <1>4, <1>10 DEF UncreatedUnused, LostGone
    <2>2. InviteAccounted'
      <3> SUFFICES ASSUME NEW j \in created
                   PROVE  /\ made[j] <= 1
                          /\ \A q, s \in Redeemers(j)' : q = s
                          /\ Redeemers(j)' # {} => made[j] = 0
                          /\ made[j] = 1 \/ Redeemers(j)' # {} => j \notin open \cup lost'
                          /\ made[j] = 0 /\ Redeemers(j)' = {}
                                => j \in open \cup lapsed \cup lost'
        BY <1>2, <1>10 DEF InviteAccounted
      <3>1. CASE j = i
        BY <1>4, <1>7, <1>10, <3>1
      <3>2. CASE j # i
        BY <1>1, <1>6, <1>10, <3>2 DEF InviteAccounted
      <3> QED
        BY <3>1, <3>2
    <2> QED
      BY <1>8, <2>1, <2>2
  <1> QED
    BY <1>9, <1>10 DEF CreateUser

\* Crash: the invites redeemed by the registrations that end with the replica
\* are lost; each had that one redeemer.
LEMMA CrashAccounts ==
    ASSUME IInv, NEW p \in Replicas, Crash(p)
    PROVE  RequestsServed' /\ UncreatedUnused' /\ LostGone' /\ InviteAccounted'
  <1>1. RequestsServed /\ UncreatedUnused /\ LostGone /\ InviteAccounted /\ TypeOK
    BY DEF IInv
  <1> DEFINE Ended == {q \in Requests : request[q].pc = "redeemed" /\ request[q].at = p}
  <1>2. /\ UNCHANGED <<open, created, made, lapsed>>
        /\ lost' = lost \cup {request[r].invite : r \in Ended}
        /\ request' = [r \in Requests |->
                          IF request[r] # Idle /\ request[r].at = p
                          THEN Idle ELSE request[r]]
        /\ replica' = [replica EXCEPT ![p] = Down]
    BY DEF Crash
  <1>3. \A r \in Requests : request'[r].pc # "idle"
                               => request'[r] = request[r] /\ request[r].at # p
    BY <1>1, <1>2 DEF Idle, TypeOK, RequestStates
  <1>4. RequestsServed'
    <2> SUFFICES ASSUME NEW r \in Requests, request'[r].pc # "idle"
                 PROVE  Running(request[r].at)' /\ request[r].invite \in created
      BY <1>2, <1>3 DEF RequestsServed, Running
    <2>1. Running(request[r].at) /\ request[r].invite \in created /\ request[r].at # p
      BY <1>1, <1>3 DEF RequestsServed
    <2>2. request[r].at \in Replicas
      BY <1>1, <1>3 DEF TypeOK, RequestStates, Idle
    <2>3. replica'[request[r].at] = replica[request[r].at]
      BY <1>1, <1>2, <2>1, <2>2 DEF TypeOK, SessionsTypeOK
    <2>4. request'[r].at = request[r].at
      BY <1>3
    <2> QED
      BY <2>1, <2>3, <2>4 DEF Running
  <1>5. \A r \in Ended : r \in Redeemers(request[r].invite) /\ request[r].invite \in created
    BY <1>1 DEF Redeemers, RequestsServed
  <1>6. UncreatedUnused' /\ LostGone'
    <2>1. \A r \in Ended : request[r].invite \notin open
      BY <1>1, <1>5 DEF InviteAccounted
    <2> QED
      BY <1>1, <1>2, <2>1 DEF UncreatedUnused, LostGone
  <1>7. \A j : Redeemers(j)' = Redeemers(j) \ Ended
    BY <1>1, <1>2 DEF Redeemers, Idle, TypeOK, RequestStates
  <1>8. InviteAccounted'
    <2> SUFFICES ASSUME NEW j \in created
                 PROVE  /\ made[j] <= 1
                        /\ \A q, s \in Redeemers(j)' : q = s
                        /\ Redeemers(j)' # {} => made[j] = 0
                        /\ made[j] = 1 \/ Redeemers(j)' # {} => j \notin open \cup lost'
                        /\ made[j] = 0 /\ Redeemers(j)' = {}
                              => j \in open \cup lapsed \cup lost'
      BY <1>2 DEF InviteAccounted
    <2>1. CASE \E r \in Ended : request[r].invite = j
      <3>1. PICK r \in Ended : request[r].invite = j
        BY <2>1
      <3>2. Redeemers(j) = {r}
        BY <1>1, <1>5, <3>1 DEF InviteAccounted
      <3>3. Redeemers(j)' = {} /\ made[j] = 0 /\ j \in lost'
        BY <1>1, <1>2, <1>7, <3>1, <3>2 DEF InviteAccounted
      <3> QED
        BY <3>3
    <2>2. CASE ~ \E r \in Ended : request[r].invite = j
      <3>1. Redeemers(j)' = Redeemers(j)
        BY <1>7, <2>2 DEF Redeemers
      <3>2. j \in lost' <=> j \in lost
        BY <1>2, <2>2
      <3> QED
        BY <1>1, <3>1, <3>2 DEF InviteAccounted
    <2> QED
      BY <2>1, <2>2
  <1> QED
    BY <1>4, <1>6, <1>8

\* Every step keeps invites and registrations accounted for.
LEMMA NextAccounts ==
    ASSUME IInv, [Next]_vars
    PROVE  RequestsServed' /\ UncreatedUnused' /\ LostGone' /\ InviteAccounted'
  <1>1. /\ RequestsServed /\ UncreatedUnused /\ LostGone /\ InviteAccounted
        /\ TypeOK /\ replica \in [Replicas -> ReplicaStates]
    BY DEF IInv, TypeOK, SessionsTypeOK
  <1>2. ASSUME NEW p \in Replicas, LoadKey(p) \/ GenerateKey(p) \/ CreateKey(p)
        PROVE  \A q \in Replicas : Running(q) => Running(q)'
    <2>1. replica[p].pc # "running"
      BY <1>2 DEF LoadKey, GenerateKey, CreateKey
    <2>2. \A q \in Replicas \ {p} : replica'[q] = replica[q]
      BY <1>1, <1>2 DEF LoadKey, GenerateKey, CreateKey, Serve
    <2> QED
      BY <2>1, <2>2 DEF Running
  <1>3. CASE SessionStep /\ UNCHANGED accountVars
    <2>1. \A q \in Replicas : Running(q) => Running(q)'
      BY <1>2, <1>3 DEF SessionStep, Authenticate, Refresh, Tick, Running
    <2> QED
      BY <1>1, <1>3, <2>1, UntouchedInvites DEF accountVars, InvitesUntouched
  <1>4. CASE \/ RotateKey /\ UNCHANGED <<open, created, request, made, lapsed, lost>>
             \/ SyncInvites \/ SyncUsers \/ UNCHANGED vars
             \/ \E p \in Replicas, n \in Names : Login(n, p) \/ DeleteUser(n, p)
    <2>1. InvitesUntouched /\ UNCHANGED replica
      BY <1>4 DEF RotateKey, SyncInvites, SyncUsers, Login, DeleteUser, vars,
                  accountVars, sessionVars, InvitesUntouched
    <2> QED
      BY <1>1, <2>1, UntouchedInvites DEF Running
  <1> QED
    BY <1>3, <1>4, CreateInviteAccounts, RefuseExpiredAccounts,
       RegisterAccounts, CrashAccounts, RedeemInviteAccounts,
       CreateUserAccounts
    DEF Next

-----------------------------------------------------------------------------
(***************************************************************************)
(* Keys and tokens.                                                        *)
(***************************************************************************)
SessionInv == ReplicasReady /\ KeysAgree /\ TokenLives

\* GenerateToken: a running replica signs with the key that everybody has,
\* for a lifetime of the configuration.
LEMMA IssueTokenSessions ==
    ASSUME TypeOK, SessionInv, NEW p \in Replicas, Running(p), IssueToken(p),
           UNCHANGED <<clock, storedKey, lastKey, rotated, replica>>
    PROVE  SessionInv'
  <1>1. /\ replica[p].key \in Nat /\ replica[p].key # 0
        /\ replica[p].lifetime \in Lifetimes /\ clock \in Nat
    BY SessionsAssumption DEF TypeOK, SessionsTypeOK, ReplicaStates, SessionInv,
                              ReplicasReady, Running
  <1>2. ReplicasReady'
    BY DEF SessionInv, ReplicasReady, Running
  <1>3. KeysAgree'
    BY <1>1 DEF SessionInv, KeysAgree, IssueToken, Running
  <1>4. TokenLives'
    <2>1. token'.expires = clock + replica[p].lifetime /\ lastSeen' = clock
      BY DEF IssueToken
    <2>2. replica[p].lifetime \in Nat
      BY <1>1, SessionsAssumption
    <2>3. token'.expires >= lastSeen' + replica[p].lifetime
      BY <1>1, <2>1, <2>2
    <2> QED
      BY <1>1, <2>3 DEF TokenLives
  <1> QED
    BY <1>2, <1>3, <1>4 DEF SessionInv

\* EnsureSigningKey and a crash change one replica alone and issue no token.
LEMMA NextReplica ==
    ASSUME TypeOK, SessionInv, NEW p \in Replicas,
           LoadKey(p) \/ GenerateKey(p) \/ CreateKey(p) \/ Crash(p)
    PROVE  SessionInv'
  <1>1. /\ replica \in [Replicas -> ReplicaStates]
        /\ storedKey \in 0..lastKey /\ lastKey \in Nat
        /\ \A q \in Replicas : replica[q].key \in Nat
        /\ ReplicasReady /\ KeysAgree /\ TokenLives
    BY SessionsAssumption DEF TypeOK, SessionsTypeOK, ReplicaStates, SessionInv
  <1>2. TokenLives'
    BY <1>1 DEF LoadKey, GenerateKey, CreateKey, Crash, TokenLives
  <1>3. UNCHANGED <<rotated, token>>
    BY DEF LoadKey, GenerateKey, CreateKey, Crash
  <1>4. CASE LoadKey(p)
    <2>1. PICK hours \in Lifetimes :
            replica' = [replica EXCEPT ![p] =
                           [pc |-> "running", key |-> storedKey, lifetime |-> hours]]
      BY <1>4 DEF LoadKey, Serve
    <2>2. ReplicasReady'
      BY <1>1, <1>4, <2>1 DEF LoadKey, ReplicasReady, Running
    <2>3. KeysAgree'
      BY <1>1, <1>3, <1>4, <2>1 DEF LoadKey, KeysAgree, Running
    <2> QED
      BY <1>2, <2>2, <2>3 DEF SessionInv
  <1>5. CASE GenerateKey(p)
    <2>1. ReplicasReady'
      BY <1>1, <1>5 DEF GenerateKey, ReplicasReady, Running
    <2>2. KeysAgree'
      BY <1>1, <1>3, <1>5 DEF GenerateKey, KeysAgree, Running
    <2> QED
      BY <1>2, <2>1, <2>2 DEF SessionInv
  <1>6. CASE CreateKey(p)
    <2>1. CASE storedKey = 0
      <3>1. PICK hours \in Lifetimes :
              replica' = [replica EXCEPT ![p] =
                  [pc |-> "running", key |-> replica[p].key, lifetime |-> hours]]
        BY <1>6, <2>1 DEF CreateKey, Serve
      <3>2. storedKey' = replica[p].key /\ replica[p].key # 0
        BY <1>1, <1>6, <2>1 DEF CreateKey, ReplicasReady
      <3>3. ReplicasReady'
        BY <1>1, <1>6, <3>1, <3>2 DEF CreateKey, ReplicasReady, Running
      <3>4. ~rotated => token = NoToken /\ \A q \in Replicas : ~Running(q)
        BY <1>1, <2>1 DEF KeysAgree, ReplicasReady, Running
      <3>5. KeysAgree'
        BY <1>1, <1>3, <3>1, <3>2, <3>4 DEF KeysAgree, Running
      <3> QED
        BY <1>2, <3>3, <3>5 DEF SessionInv
    <2>2. CASE storedKey # 0
      <3>1. replica' = [replica EXCEPT ![p] = Down] /\ UNCHANGED <<storedKey, lastKey>>
        BY <1>6, <2>2 DEF CreateKey
      <3>2. ReplicasReady'
        BY <1>1, <3>1 DEF ReplicasReady, Running, Down
      <3>3. KeysAgree'
        BY <1>1, <1>3, <3>1 DEF KeysAgree, Running, Down
      <3> QED
        BY <1>2, <3>2, <3>3 DEF SessionInv
    <2> QED
      BY <2>1, <2>2
  <1>7. CASE Crash(p)
    <2>1. ReplicasReady'
      BY <1>1, <1>7 DEF Crash, ReplicasReady, Running, Down
    <2>2. KeysAgree'
      BY <1>1, <1>3, <1>7 DEF Crash, KeysAgree, Running, Down
    <2> QED
      BY <1>2, <2>1, <2>2 DEF SessionInv
  <1> QED
    BY <1>4, <1>5, <1>6, <1>7

\* Every step keeps keys and tokens in order.
LEMMA NextSessions ==
    ASSUME IInv, [Next]_vars
    PROVE  SessionInv'
  <1>1. TypeOK /\ SessionInv /\ RequestsServed
    BY DEF IInv, SessionInv
  <1>2. ASSUME NEW p \in Replicas, Authenticate(p)
        PROVE  SessionInv'
    <2>1. Running(p) /\ UNCHANGED <<clock, storedKey, lastKey, rotated, replica>>
      BY <1>2 DEF Authenticate, Accepts
    <2>2. CASE ShouldRefresh
      BY <1>1, <1>2, <2>1, <2>2, IssueTokenSessions DEF Authenticate
    <2>3. CASE ~ShouldRefresh
      <3>1. lastSeen' = clock /\ UNCHANGED token
        BY <1>2, <2>3 DEF Authenticate
      <3>2. token.expires \in Nat /\ clock \in Nat
        BY <1>1, SessionsAssumption DEF TypeOK, SessionsTypeOK, Tokens
      <3>3. token.expires > clock + RefreshThreshold
        BY <2>3, <3>2, SessionsAssumption DEF ShouldRefresh
      <3>4. TokenLives'
        BY <3>1, <3>3 DEF TokenLives
      <3>5. ReplicasReady' /\ KeysAgree'
        BY <1>1, <2>1, <3>1 DEF SessionInv, ReplicasReady, KeysAgree, Running
      <3> QED
        BY <3>4, <3>5 DEF SessionInv
    <2> QED
      BY <2>2, <2>3
  <1>3. ASSUME NEW p \in Replicas, Refresh(p)
        PROVE  SessionInv'
    BY <1>1, <1>3, IssueTokenSessions DEF Refresh, Accepts
  <1>4. CASE RotateKey
    BY <1>1, <1>4 DEF RotateKey, SessionInv, ReplicasReady, KeysAgree, TokenLives,
                      Running
  <1>5. CASE Tick \/ UNCHANGED <<storedKey, lastKey, rotated, replica, token, lastSeen>>
    BY <1>1, <1>5 DEF Tick, SessionInv, ReplicasReady, KeysAgree, TokenLives, Running
  <1>6. ASSUME NEW p \in Replicas, NEW n \in Names, Login(n, p)
        PROVE  SessionInv'
    BY <1>1, <1>6, IssueTokenSessions DEF Login
  <1>7. ASSUME NEW r \in Requests, CreateUser(r)
        PROVE  SessionInv'
    <2>1. request[r].at \in Replicas /\ Running(request[r].at)
      BY <1>1, <1>7 DEF CreateUser, RequestsServed, TypeOK, RequestStates, Idle
    <2>2. UNCHANGED <<clock, storedKey, lastKey, rotated, replica>>
      BY <1>7 DEF CreateUser
    <2>3. CASE IssueToken(request[r].at)
      BY <1>1, <2>1, <2>2, <2>3, IssueTokenSessions
    <2>4. CASE UNCHANGED <<token, lastSeen>>
      BY <1>5, <2>2, <2>4
    <2> QED
      BY <1>7, <2>3, <2>4 DEF CreateUser
  <1>8. CASE SyncInvites \/ SyncUsers \/ UNCHANGED vars
    <2>1. UNCHANGED sessionVars
      BY <1>8 DEF SyncInvites, SyncUsers, vars
    <2> QED
      BY <1>5, <2>1 DEF sessionVars
  <1>9. ASSUME NEW p \in Replicas, NEW i \in Invites,
               CreateInvite(i, p) \/ RefuseExpired(i, p)
        PROVE  SessionInv'
    BY <1>5, <1>9 DEF CreateInvite, RefuseExpired, sessionVars
  <1>10. ASSUME NEW p \in Replicas, NEW r \in Requests, NEW i \in Invites,
                NEW n \in Names, Register(r, i, n, p)
         PROVE  SessionInv'
    BY <1>5, <1>10 DEF Register, sessionVars
  <1>11. ASSUME NEW p \in Replicas, NEW n \in Names, DeleteUser(n, p)
         PROVE  SessionInv'
    BY <1>5, <1>11 DEF DeleteUser, sessionVars
  <1>12. ASSUME NEW r \in Requests, RedeemInvite(r)
         PROVE  SessionInv'
    BY <1>5, <1>12 DEF RedeemInvite, sessionVars
  <1> QED
    BY <1>1, <1>2, <1>3, <1>4, <1>5, <1>6, <1>7, <1>8, <1>9, <1>10, <1>11,
       <1>12, NextReplica
    DEF Next, SessionStep

-----------------------------------------------------------------------------
(***************************************************************************)
(* Theorems.                                                               *)
(***************************************************************************)
\* At the start there is no invite, no replica runs and no token was issued.
LEMMA InitInv == Init => IInv
  <1> SUFFICES ASSUME Init PROVE IInv
    OBVIOUS
  <1>1. RequestsServed /\ UncreatedUnused /\ LostGone /\ InviteAccounted
    BY DEF Init, RequestsServed, UncreatedUnused, LostGone, InviteAccounted, Idle
  <1>2. replica = [p \in Replicas |-> Down] /\ token = NoToken /\ lastKey = 0
    BY DEF Init, SessionsInit
  <1>3. ReplicasReady /\ KeysAgree /\ TokenLives
    BY <1>2 DEF ReplicasReady, KeysAgree, TokenLives, Running, Down
  <1> QED
    BY <1>1, <1>3, InitType DEF IInv

\* The invariant holds always: the handlers, the informers, the start, crash
\* and rollout of replicas, the rotation of the key and the passing of time
\* keep it.
THEOREM AuthInvariance == Spec => []IInv
  <1>1. Init => IInv
    BY InitInv
  <1>2. IInv /\ [Next]_vars => IInv'
    BY NextType, NextAccounts, NextSessions DEF IInv, SessionInv
  <1> QED
    BY <1>1, <1>2, PTL DEF Spec

\* The state is always of its type: among others nobody ever has an account
\* under a reserved name (ValidateUsername in CreateUser), and the key in the
\* Secret is one that was generated.
THEOREM AuthTypeCorrect == Spec => []TypeOK
  <1>1. IInv => TypeOK
    BY DEF IInv
  <1> QED
    BY <1>1, AuthInvariance, PTL

\* An invite is redeemed by one registration at most and makes one account at
\* most, however many replicas serve however many registrations from however
\* stale a cache (RedeemInvite, CreateUser).
THEOREM InviteSingleUse == Spec => []InviteAccounted
  <1>1. IInv => InviteAccounted
    BY DEF IInv
  <1> QED
    BY <1>1, AuthInvariance, PTL

\* A client that comes back in time is served by every running replica, for
\* any threshold and any set of lifetimes, until the key is rotated
\* (EnsureSigningKey, Authenticate, ShouldRefresh).
THEOREM SessionsKept == Spec => []SessionKept
  <1>1. IInv => SessionKept
    <2> SUFFICES ASSUME IInv, token # NoToken, ~rotated,
                        clock <= lastSeen + RefreshThreshold,
                        \A hours \in Lifetimes : clock < lastSeen + hours,
                        NEW p \in Replicas, Running(p)
                 PROVE  Accepts(p)
      BY DEF SessionKept
    <2>1. token.key = replica[p].key
      BY DEF IInv, KeysAgree
    <2>2. clock \in Nat /\ lastSeen \in Nat /\ token.expires \in Nat
      BY SessionsAssumption DEF IInv, TypeOK, SessionsTypeOK, Tokens
    <2>3. CASE token.expires > lastSeen + RefreshThreshold
      BY <2>1, <2>2, <2>3, SessionsAssumption DEF Accepts
    <2>4. ASSUME NEW hours \in Lifetimes, token.expires >= lastSeen + hours
          PROVE  clock < token.expires
      <3>1. hours \in Nat /\ clock < lastSeen + hours
        BY SessionsAssumption
      <3> QED
        BY <2>2, <2>4, <3>1
    <2> QED
      BY <2>1, <2>3, <2>4 DEF IInv, TokenLives, Accepts
  <1> QED
    BY <1>1, AuthInvariance, PTL

\* No registration takes over the account of somebody else (CreateUser).
THEOREM AccountsNotReplaced == Spec => AccountNotReplaced
  <1> DEFINE Kept == \A n \in Names : account[n] # NoInvite
                                         => account'[n] \in {account[n], NoInvite}
  <1>1. IInv /\ [Next]_vars => [Kept]_vars
    <2> SUFFICES ASSUME IInv, Next PROVE Kept
      OBVIOUS
    <2>1. account \in Accounts
      BY DEF IInv, TypeOK
    <2>2. CASE UNCHANGED account
      BY <2>2
    <2>3. ASSUME NEW p \in Replicas, NEW n \in Names, DeleteUser(n, p)
          PROVE  Kept
      BY <2>1, <2>3 DEF DeleteUser, Accounts
    <2>4. ASSUME NEW r \in Requests, CreateUser(r)
          PROVE  Kept
      <3>1. CASE account[request[r].name] = NoInvite /\ MakeAccount(r)
        BY <2>1, <3>1 DEF MakeAccount, Accounts
      <3> QED
        BY <2>2, <2>4, <3>1 DEF CreateUser
    <2>5. Next => \/ UNCHANGED account
                  \/ \E p \in Replicas, n \in Names : DeleteUser(n, p)
                  \/ \E r \in Requests : CreateUser(r)
      BY DEF Next, SyncInvites, SyncUsers, CreateInvite, RefuseExpired, Register,
             Login, Crash, RedeemInvite, accountVars
    <2> QED
      BY <2>2, <2>3, <2>4, <2>5
  <1> QED
    BY <1>1, AuthInvariance, PTL DEF Spec, AccountNotReplaced
=============================================================================
