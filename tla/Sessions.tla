------------------------------ MODULE Sessions ------------------------------
(***************************************************************************)
(* Accounts, sessions and event streams: auth/auth.service.ts and the      *)
(* connections of system/realtime.service.ts, which are revalidated        *)
(* against the sessions before each write.                                 *)
(*                                                                         *)
(* setup(), login(), createUser() and updateUser() await bcrypt; what they *)
(* read before is old when they write.  Foreign keys are not enforced by   *)
(* sql.js, so the sessions of a deleted user stay and are ignored.         *)
(* The fifteen minutes after which the claim of a set-up is stale are      *)
(* taken to be longer than bcrypt needs.                                   *)
(***************************************************************************)
EXTENDS Naturals, Sequences, FiniteSets, Functions

CONSTANTS
  Users,         \* accounts
  MaxSessions,   \* MAX_LOGIN_SESSIONS_PER_USER
  UserStreams,   \* maxConnectionsPerUser (5)
  AddressStreams,\* maxConnectionsPerIp (20); all browsers are at one address
  MaxLogins,     \* bound on the sessions ever created
  MaxAwaiting,   \* bound on the handlers that wait at once
  MaxDeaths      \* bound on the deaths of the process

VARIABLES
  accounts,   \* users: [user, role], in the order of their creation
  setups,     \* set-ups that have succeeded
  setupClaim, \* the row of setup_claims: "none", "fresh" or "stale"
  awaiting,   \* handlers that wait for bcrypt
  sessions,   \* sessions: [id, user], in the order of their creation
  logins,
  streams,    \* connections: [session, user, privileged], in the order of connectedAt
  written,    \* the streams, and whether the topic is privileged, written by this step
  deaths

sessionVars == <<accounts, setups, setupClaim, awaiting, sessions, logins, streams, written, deaths>>

\* The entries of a sequence at some of its positions, in their order; those of a user.
Rank(positions, i) == Cardinality({j \in positions : j <= i})
At(ss, positions) == [k \in 1..Cardinality(positions) |-> ss[CHOOSE i \in positions : Rank(positions, i) = k]]
Without(ss, positions) == At(ss, DOMAIN ss \ positions)
Of(ss, u) == {i \in DOMAIN ss : ss[i].user = u}

\* Room for one more below a limit: the oldest at some of the positions go.
Limited(ss, mine, limit) ==
  At(ss, {i \in DOMAIN ss : i \in mine => Cardinality({j \in mine : j >= i}) < limit})

Names == {accounts[i].user : i \in DOMAIN accounts}
RoleOf(u) == (CHOOSE a \in Range(accounts) : a.user = u).role
IsPrimary(u) == accounts # <<>> /\ accounts[1].user = u

\* getSession() joins users.
Valid(id) == \E s \in Range(sessions) : s.id = id /\ s.user \in Names
Admin == \E s \in Range(sessions) : Valid(s.id) /\ RoleOf(s.user) = "admin"

SessionsInit ==
  /\ accounts = <<>> /\ setups = 0 /\ setupClaim = "none" /\ awaiting = {}
  /\ sessions = <<>> /\ logins = 0 /\ streams = <<>> /\ written = {} /\ deaths = 0

Quiet == written' = {}

-----------------------------------------------------------------------------
(* Set-up and login *)

\* Before a session is created, the user's oldest ones are removed.
EnforceLoginSessionLimit(u) == Limited(sessions, Of(sessions, u), MaxSessions)

CreateSession(u) ==
  /\ logins < MaxLogins /\ logins' = logins + 1
  /\ sessions' = Append(EnforceLoginSessionLimit(u), [id |-> logins + 1, user |-> u])

Refused == UNCHANGED setupClaim

\* setup(), up to the await.  A stale claim is taken over while nobody exists;
\* a set-up that finds a user releases what it has claimed.
Setup(u) ==
  /\ Cardinality(awaiting) < MaxAwaiting
  /\ IF setupClaim = "none" \/ (setupClaim = "stale" /\ accounts = <<>>)
     THEN IF accounts # <<>> THEN setupClaim' = "none" /\ UNCHANGED awaiting
          ELSE setupClaim' = "fresh" /\ awaiting' = awaiting \cup {[kind |-> "setup", user |-> u, role |-> "admin"]}
     ELSE Refused /\ UNCHANGED awaiting
  /\ Quiet
  /\ UNCHANGED <<accounts, setups, sessions, logins, streams, deaths>>

ClaimAges ==
  /\ setupClaim = "fresh" /\ \A h \in awaiting : h.kind # "setup"
  /\ setupClaim' = "stale" /\ Quiet
  /\ UNCHANGED <<accounts, setups, awaiting, sessions, logins, streams, deaths>>

\* A handler that reads the accounts and then awaits bcrypt.
Await(kind, u, role) ==
  /\ Cardinality(awaiting) < MaxAwaiting
  /\ awaiting' = awaiting \cup {[kind |-> kind, user |-> u, role |-> role]}
  /\ Quiet
  /\ UNCHANGED <<accounts, setups, setupClaim, sessions, logins, streams, deaths>>

Login(u) == u \in Names /\ Await("login", u, "any")
CreateUser(u, role) == Admin /\ Await("create", u, role)
UpdateUser(u, role) ==
  /\ Admin /\ u \in Names /\ ~IsPrimary(u) /\ RoleOf(u) # "admin"
  /\ Await("update", u, role)

\* The statements after the await.
Resume(h) ==
  /\ h \in awaiting /\ awaiting' = awaiting \ {h}
  /\ \/ /\ h.kind = "setup"
        /\ accounts' = Append(accounts, [user |-> h.user, role |-> "admin"])
        /\ setups' = setups + 1 /\ setupClaim' = "none"
        /\ CreateSession(h.user)
     \/ h.kind = "login" /\ CreateSession(h.user) /\ UNCHANGED <<accounts, setups, setupClaim>>
     \/ /\ h.kind = "create"
        /\ accounts' = IF h.user \in Names THEN accounts ELSE Append(accounts, [user |-> h.user, role |-> h.role])
        /\ UNCHANGED <<setups, setupClaim, sessions, logins>>
     \/ /\ h.kind = "update"
        /\ accounts' = [i \in DOMAIN accounts |-> IF accounts[i].user = h.user
                                                  THEN [accounts[i] EXCEPT !.role = h.role] ELSE accounts[i]]
        /\ UNCHANGED <<setups, setupClaim, sessions, logins>>
  /\ Quiet /\ UNCHANGED <<streams, deaths>>

\* deleteUser()
DeleteUser(u) ==
  /\ Admin /\ u \in Names /\ ~IsPrimary(u) /\ RoleOf(u) # "admin"
  /\ accounts' = Without(accounts, Of(accounts, u))
  /\ Quiet
  /\ UNCHANGED <<setups, setupClaim, awaiting, sessions, logins, streams, deaths>>

\* The process dies; tables survive.
Die ==
  /\ deaths < MaxDeaths /\ deaths' = deaths + 1
  /\ awaiting' = {} /\ streams' = <<>> /\ Quiet
  /\ UNCHANGED <<accounts, setups, setupClaim, sessions, logins>>

-----------------------------------------------------------------------------
(* Streams *)

\* validate(): the stream of a revoked session is closed, and topics that the
\* role does not allow any more are removed.
Validated(s) == [s EXCEPT !.privileged = @ /\ RoleOf(s.user) = "admin"]
Standing(ss) == At(ss, {i \in DOMAIN ss : Valid(ss[i].session)})

\* Mutant of Write: pruned after the write.
WriteThenPrune(privileged) ==
  LET to == {s \in Range(streams) : Valid(s.session) /\ (privileged => s.privileged)}
  IN /\ streams' = [i \in DOMAIN Standing(streams) |-> Validated(Standing(streams)[i])]
     /\ written' = {[to |-> s, privileged |-> privileged] : s \in to}

\* publish() and the snapshots of one topic.
Write(privileged) ==
  LET valid == [i \in DOMAIN Standing(streams) |-> Validated(Standing(streams)[i])]
  IN /\ streams' = valid
     /\ written' = {[to |-> s, privileged |-> privileged] : s \in {t \in Range(valid) : privileged => t.privileged}}

Publish(privileged) ==
  /\ streams # <<>> /\ Write(privileged)
  /\ UNCHANGED <<accounts, setups, setupClaim, awaiting, sessions, logins, deaths>>

\* A stream is opened for a session that is valid; connect() closes the oldest
\* ones, so that it fits.
Connect(id) ==
  /\ Valid(id)
  /\ LET u == (CHOOSE s \in Range(sessions) : s.id = id).user
         stream == [session |-> id, user |-> u, privileged |-> RoleOf(u) = "admin"]
         own == Limited(streams, Of(streams, u), UserStreams)
     IN /\ streams' = Append(Limited(own, DOMAIN own, AddressStreams), stream)
        /\ written' = {[to |-> stream, privileged |-> stream.privileged]}
  /\ UNCHANGED <<accounts, setups, setupClaim, awaiting, sessions, logins, deaths>>

\* close(): the browser has gone.
Disconnect(i) ==
  /\ i \in DOMAIN streams /\ streams' = Without(streams, {i}) /\ Quiet
  /\ UNCHANGED <<accounts, setups, setupClaim, awaiting, sessions, logins, deaths>>

-----------------------------------------------------------------------------
(* Ends of sessions *)

Ends(positions) == sessions' = Without(sessions, positions)
Closes(positions) == streams' = Without(streams, positions)
Known(id) == {i \in DOMAIN sessions : sessions[i].id = id}
Idle == UNCHANGED <<accounts, setups, setupClaim, awaiting, logins, deaths>>

\* expires_at passes.
Expire(id) == Known(id) # {} /\ Ends(Known(id)) /\ Quiet /\ Idle /\ UNCHANGED streams

\* logout() closes all the streams of the user.
Logout(id) ==
  /\ Valid(id)
  /\ Ends(Known(id))
  /\ LET u == (CHOOSE s \in Range(sessions) : s.id = id).user IN Closes(Of(streams, u))
  /\ Quiet /\ Idle

\* forceLogoutUser(); administrators can be logged out by the first one only.
ForceLogoutUser(u) ==
  /\ Admin /\ u \in Names
  /\ RoleOf(u) = "admin" => \E s \in Range(sessions) : IsPrimary(s.user)
  /\ Ends(Of(sessions, u)) /\ Closes(Of(streams, u))
  /\ Quiet /\ Idle

\* forceLogoutLowerRoles() leaves streams to their validation.
ForceLogoutLowerRoles ==
  /\ Admin
  /\ Ends({i \in DOMAIN sessions : sessions[i].user \in Names /\ RoleOf(sessions[i].user) # "admin"})
  /\ Quiet /\ Idle /\ UNCHANGED streams

\* forceLogoutEveryone(), disconnectAll()
ForceLogoutEveryone ==
  /\ \E s \in Range(sessions) : IsPrimary(s.user)
  /\ sessions' = <<>> /\ streams' = <<>> /\ Quiet /\ Idle

SessionsNext ==
  \/ \E u \in Users :
       \/ Setup(u) \/ Login(u) \/ DeleteUser(u) \/ ForceLogoutUser(u)
       \/ \E role \in {"admin", "viewer"} : CreateUser(u, role) \/ UpdateUser(u, role)
  \/ \E h \in awaiting : Resume(h)
  \/ ClaimAges \/ Die \/ ForceLogoutLowerRoles \/ ForceLogoutEveryone
  \/ \E privileged \in BOOLEAN : Publish(privileged)
  \/ \E i \in DOMAIN streams : Disconnect(i)
  \/ \E id \in 1..MaxLogins : Connect(id) \/ Expire(id) \/ Logout(id)

-----------------------------------------------------------------------------
(* Properties *)

\* One set-up creates the first administrator, however many are submitted at
\* once, and whatever a crash leaves of an earlier one (claimInitialSetup).
SetupOnce == setups <= 1

\* A user has no more sessions, and no more streams, than the limits say
\* (enforceLoginSessionLimit, connect).
LimitsKept ==
  /\ Len(streams) <= AddressStreams
  /\ \A u \in Users :
       /\ Cardinality(Of(sessions, u)) <= MaxSessions
       /\ Cardinality(Of(streams, u)) <= UserStreams

\* README.md:245: nothing is written for a session that is revoked, nor, after
\* a role is lowered, anything only administrators may see (validate).
WritesEntitled ==
  \A w \in written : Valid(w.to.session) /\ (w.privileged => RoleOf(w.to.user) = "admin")

SessionsAgree == SetupOnce /\ LimitsKept /\ WritesEntitled
=============================================================================
