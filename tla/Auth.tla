-------------------------------- MODULE Auth --------------------------------
(***************************************************************************)
(* Accounts: invitations and users of internal/auth/invite.go and          *)
(* store.go, both kept as Secrets, the handlers of                         *)
(* internal/api/handlers_auth.go and handlers_admin.go that use them, and  *)
(* the sessions they open.                                                 *)
(*                                                                         *)
(* The handlers read the Secrets from the informers' caches and write them *)
(* to the API server.  A registration ends a step at each of its writes.   *)
(* A Secret's contents are left out: an account stands for the invite      *)
(* whose email it has, a wrong password is a login that does not happen.   *)
(***************************************************************************)
EXTENDS Sessions

CONSTANTS
    Invites,       \* tokens, random and never repeated
    Names,         \* user names
    Reserved,      \* those ValidateUsername refuses
    Requests,      \* registrations under way at a time
    InviteHours,   \* inviteExpirationHours
    NoInvite,      \* no account
    MaxEvents      \* bound: registrations, deletions, faults, crashes, rotations

ASSUME AuthAssumption ==
    /\ NoInvite \notin Invites
    /\ Reserved \subseteq Names
    /\ InviteHours \in Nat
    /\ MaxEvents \in Nat

VARIABLES
    open,         \* invites there is a Secret for
    openCache,    \* the informer's copy
    expires,      \* when an invite expires, once it was created
    created,      \* invites created so far
    account,      \* the invite an account was registered with
    accountCache, \* the informer's copy
    request,      \* registrations under way
    made,         \* how many accounts were ever made of an invite
    lapsed,       \* invites removed because they had expired
    lost,         \* invites whose registration failed after they were redeemed
    used          \* how much of MaxEvents is used up

accountVars == <<open, openCache, expires, created, account, accountCache,
                 request, made, lapsed, lost, used>>
vars == <<accountVars, sessionVars>>

-----------------------------------------------------------------------------
Accounts == [Names -> Invites \cup {NoInvite}]
Idle == [pc |-> "idle"]
RequestStates ==
    {Idle} \cup [pc : {"redeeming", "redeemed"}, at : Replicas,
                 invite : Invites, name : Names]

TypeOK ==
    /\ SessionsTypeOK
    /\ open \subseteq created /\ openCache \subseteq created
    /\ created \subseteq Invites
    /\ expires \in [Invites -> Nat]
    /\ account \in Accounts /\ accountCache \in Accounts
    /\ \A n \in Reserved : account[n] = NoInvite
    /\ request \in [Requests -> RequestStates]
    /\ made \in [Invites -> Nat]
    /\ lapsed \subseteq created /\ lost \subseteq created
    /\ used \in 0..MaxEvents

Init ==
    /\ SessionsInit
    /\ open = {} /\ openCache = {} /\ created = {}
    /\ expires = [i \in Invites |-> 0]
    /\ account = [n \in Names |-> NoInvite]
    /\ accountCache = account
    /\ request = [r \in Requests |-> Idle]
    /\ made = [i \in Invites |-> 0]
    /\ lapsed = {} /\ lost = {}
    /\ used = 0

Spend == used < MaxEvents /\ used' = used + 1

-----------------------------------------------------------------------------
(***************************************************************************)
(* The informers.                                                          *)
(***************************************************************************)
SyncInvites ==
    /\ openCache # open
    /\ openCache' = open
    /\ UNCHANGED <<open, expires, created, account, accountCache, request,
                   made, lapsed, lost, used, sessionVars>>

SyncUsers ==
    /\ accountCache # account
    /\ accountCache' = account
    /\ UNCHANGED <<open, openCache, expires, created, account, request, made,
                   lapsed, lost, used, sessionVars>>

-----------------------------------------------------------------------------
(***************************************************************************)
(* Invitations and registration.                                           *)
(***************************************************************************)
\* handleCreateInvite and CreateInvite.  The mail has no effect here.
CreateInvite(i, p) ==
    /\ Running(p)
    /\ i \notin created
    /\ created' = created \cup {i}
    /\ open' = open \cup {i}
    /\ expires' = [expires EXCEPT ![i] = clock + InviteHours]
    /\ UNCHANGED <<openCache, account, accountCache, request, made, lapsed,
                   lost, used, sessionVars>>

\* handleRegister up to the write of RedeemInvite: the invite is found in the
\* cache and has not expired.
Register(r, i, n, p) ==
    /\ Spend
    /\ request[r] = Idle
    /\ Running(p)
    /\ i \in openCache
    /\ clock <= expires[i]
    /\ request' = [request EXCEPT ![r] =
                      [pc |-> "redeeming", at |-> p, invite |-> i, name |-> n]]
    /\ UNCHANGED <<open, openCache, expires, created, account, accountCache,
                   made, lapsed, lost, sessionVars>>

\* An expired invite is removed, if it is still there, and the registration
\* refused.
RefuseExpired(i, p) ==
    /\ Running(p)
    /\ i \in openCache
    /\ clock > expires[i]
    /\ i \in open
    /\ open' = open \ {i}
    /\ lapsed' = lapsed \cup {i}
    /\ UNCHANGED <<openCache, expires, created, account, accountCache,
                   request, made, lost, used, sessionVars>>

Finish(r) == request' = [request EXCEPT ![r] = Idle]

\* Fault: that the invite is gone by now is taken for success.
RedeemAnyway(r) ==
    /\ request[r].pc = "redeeming"
    /\ open' = open \ {request[r].invite}
    /\ request' = [request EXCEPT ![r].pc = "redeemed"]
    /\ UNCHANGED <<openCache, expires, created, account, accountCache,
                   made, lapsed, lost, used, sessionVars>>

\* RedeemInvite deletes the Secret.  When it is gone by now the registration
\* fails; so it does when the request fails, whether or not it was served.
RedeemInvite(r) ==
    /\ request[r].pc = "redeeming"
    /\ LET i == request[r].invite
       IN  \/ /\ i \in open
              /\ open' = open \ {i}
              /\ request' = [request EXCEPT ![r].pc = "redeemed"]
              /\ UNCHANGED <<lost, used>>
           \/ /\ i \notin open
              /\ Finish(r)
              /\ UNCHANGED <<open, lost, used>>
           \/ /\ Spend
              /\ Finish(r)
              /\ \/ UNCHANGED <<open, lost>>
                 \/ /\ i \in open
                    /\ open' = open \ {i}
                    /\ lost' = lost \cup {i}
    /\ UNCHANGED <<openCache, expires, created, account, accountCache, made,
                   lapsed, sessionVars>>

\* The account of request r comes into being.
MakeAccount(r) ==
    /\ account' = [account EXCEPT ![request[r].name] = request[r].invite]
    /\ made' = [made EXCEPT ![request[r].invite] = @ + 1]

\* Fault: CreateUser writes over the Secret of an earlier user.
CreateOrUpdateUser(r) ==
    /\ request[r].pc = "redeemed"
    /\ Finish(r)
    /\ IF request[r].name \notin Reserved
       THEN MakeAccount(r) /\ IssueToken(request[r].at) /\ UNCHANGED lost
       ELSE /\ lost' = lost \cup {request[r].invite}
            /\ UNCHANGED <<account, made, token, lastSeen>>
    /\ UNCHANGED <<open, openCache, expires, created, accountCache, lapsed,
                   used, clock, storedKey, lastKey, rotated, replica>>

\* Fault: the name is not validated.
CreateAnyUser(r) ==
    /\ request[r].pc = "redeemed"
    /\ Finish(r)
    /\ account[request[r].name] = NoInvite
    /\ MakeAccount(r)
    /\ IssueToken(request[r].at)
    /\ UNCHANGED <<open, openCache, expires, created, accountCache, lapsed, lost,
                   used, clock, storedKey, lastKey, rotated, replica>>

\* ValidateUsername and CreateUser, then the first token.  A name refused or
\* taken, or a request that fails, ends the registration, and the invite is
\* lost unless the account was created all the same.
CreateUser(r) ==
    /\ request[r].pc = "redeemed"
    /\ Finish(r)
    /\ LET n == request[r].name
           i == request[r].invite
           free == n \notin Reserved /\ account[n] = NoInvite
       IN  \/ /\ free
              /\ MakeAccount(r)
              /\ IssueToken(request[r].at)
              /\ UNCHANGED <<lost, used>>
           \/ /\ free
              /\ Spend
              /\ MakeAccount(r)
              /\ UNCHANGED <<lost, token, lastSeen>>
           \/ /\ IF free THEN Spend ELSE UNCHANGED used
              /\ lost' = lost \cup {i}
              /\ UNCHANGED <<account, made, token, lastSeen>>
    /\ UNCHANGED <<open, openCache, expires, created, accountCache, lapsed,
                   clock, storedKey, lastKey, rotated, replica>>

-----------------------------------------------------------------------------
(***************************************************************************)
(* The other handlers.                                                     *)
(***************************************************************************)
\* handleLogin finds the user in the cache.
Login(n, p) ==
    /\ Running(p)
    /\ accountCache[n] # NoInvite
    /\ IssueToken(p)
    /\ UNCHANGED <<accountVars, clock, storedKey, lastKey, rotated, replica>>

\* handleDeleteUser: found in the cache, deleted by name.
DeleteUser(n, p) ==
    /\ Spend
    /\ Running(p)
    /\ accountCache[n] # NoInvite
    /\ account[n] # NoInvite
    /\ account' = [account EXCEPT ![n] = NoInvite]
    /\ UNCHANGED <<open, openCache, expires, created, accountCache, request,
                   made, lapsed, lost, sessionVars>>

\* A replica ends, and the registrations it serves with it.
Crash(p) ==
    /\ Spend
    /\ replica[p].pc # "down"
    /\ replica' = [replica EXCEPT ![p] = Down]
    /\ request' = [r \in Requests |->
                      IF request[r] # Idle /\ request[r].at = p
                      THEN Idle ELSE request[r]]
    /\ lost' = lost \cup {request[r].invite : r \in
                             {q \in Requests : /\ request[q].pc = "redeemed"
                                               /\ request[q].at = p}}
    /\ UNCHANGED <<open, openCache, expires, created, account, accountCache,
                   made, lapsed, clock, storedKey, lastKey, rotated, token,
                   lastSeen>>

-----------------------------------------------------------------------------
SessionStep ==
    \/ \E p \in Replicas : \/ LoadKey(p) \/ GenerateKey(p) \/ CreateKey(p)
                           \/ Authenticate(p) \/ Refresh(p)
    \/ Tick

Next ==
    \/ SessionStep /\ UNCHANGED accountVars
    \/ /\ RotateKey
       /\ Spend
       /\ UNCHANGED <<open, openCache, expires, created, account,
                      accountCache, request, made, lapsed, lost>>
    \/ SyncInvites
    \/ SyncUsers
    \/ \E p \in Replicas :
          \/ \E i \in Invites : CreateInvite(i, p) \/ RefuseExpired(i, p)
          \/ \E r \in Requests, i \in Invites, n \in Names : Register(r, i, n, p)
          \/ \E n \in Names : Login(n, p) \/ DeleteUser(n, p)
          \/ Crash(p)
    \/ \E r \in Requests : RedeemInvite(r) \/ CreateUser(r)

Spec == Init /\ [][Next]_vars

-----------------------------------------------------------------------------
(***************************************************************************)
(* Properties.                                                             *)
(***************************************************************************)
\* The registrations that have redeemed invite i and not made an account yet.
Redeemers(i) ==
    {r \in Requests : request[r].pc = "redeemed" /\ request[r].invite = i}

\* An invite is single-use: although registrations find it in a cache that
\* lags, in several replicas at a time, one at most redeems it, it makes one
\* account at most, ever, and no longer exists then (RedeemInvite).  What
\* handleRegister loses of it is counted: it is gone without an account only
\* when it expired or a registration that had redeemed it failed, which the
\* documentation rules out (InviteSpentOnSuccess).
InviteAccounted ==
    \A i \in created :
        /\ made[i] <= 1
        /\ \A q, r \in Redeemers(i) : q = r
        /\ Redeemers(i) # {} => made[i] = 0
        /\ made[i] = 1 \/ Redeemers(i) # {} => i \notin open \cup lost
        /\ made[i] = 0 /\ Redeemers(i) = {} => i \in open \cup lapsed \cup lost

\* auth.md: the invite's Secret is deleted after successful registration.
\* handleRegister redeems the invite before it looks at the user name.
InviteSpentOnSuccess ==
    \A i \in created :
        made[i] = 0 /\ Redeemers(i) = {} => i \in open \cup lapsed

\* An account once made stays the account of the invited person until an
\* administrator deletes it, whoever registers the same name at the same time
\* (CreateUser).
AccountNotReplaced ==
    [][\A n \in Names : account[n] # NoInvite
          => account'[n] \in {account[n], NoInvite}]_vars
=============================================================================
