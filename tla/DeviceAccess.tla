---------------------------- MODULE DeviceAccess ----------------------------
(***************************************************************************)
(* Installations, device credentials and device sessions.                   *)
(*                                                                          *)
(* A device proves its key against a challenge and becomes an installation  *)
(* with its first credential.  A credential is exchanged for short sessions *)
(* and may be rotated or revoked by its holder; an operator may revoke the  *)
(* installation.  Every service reads the clock when a request arrives and  *)
(* hands the reading to a transaction, which may run much later, after any  *)
(* transactions holding the installation row.  Requests in that interval    *)
(* are in flight.  A holder may use whatever was issued, again too, so a    *)
(* lost answer is an answer nobody uses.                                    *)
(*                                                                          *)
(* Secrets, digests and signatures are those of the right holder; a request *)
(* with wrong ones only reads.  No code sets an installation's owner, so    *)
(* the owner's account is left out.                                         *)
(***************************************************************************)
EXTENDS Integers, FiniteSets

CONSTANTS
    Keys,               \* device public keys
    Installations,      \* row ids of the four tables
    Challenges,
    Credentials,
    Sessions,
    Capabilities,       \* DeviceSessionCapability
    ChallengeLife,      \* CHALLENGE_LIFETIME
    SessionLife,        \* DEVICE_SESSION_LIFETIME
    Skew,               \* DEVICE_SESSION_CLOCK_SKEW
    GrantEnd,           \* when the bootstrap grant expires
    MaxTime,            \* bound on the clock
    MaxInFlight         \* bound on requests in flight

ASSUME AccessAssumption ==
    /\ {ChallengeLife, SessionLife, GrantEnd} \subseteq Nat \ {0}
    /\ {Skew, MaxTime, MaxInFlight} \subseteq Nat
    /\ 0 \notin Installations /\ 0 \notin Credentials

VARIABLES
    clock,              \* the control plane's clock
    challenges,         \* installation_registration_challenges
    installations,      \* installations
    credentials,        \* device_credentials
    sessions,           \* device_sessions
    inFlight,           \* requests that have read the clock
    trespass            \* a late request was authenticated

tables == <<challenges, installations, credentials, sessions>>
accessVars == <<clock, challenges, installations, credentials, sessions, inFlight, trespass>>

-----------------------------------------------------------------------------
(* Rows; 0 stands for NULL. *)

Empty == [x \in {} |-> 0]

Insert(table, id, row) ==
    [x \in DOMAIN table \cup {id} |-> IF x = id THEN row ELSE table[x]]

Fresh(ids, table) == CHOOSE id \in ids : id \notin DOMAIN table

(* INSERT needs an id, and TLC has finitely many.                            *)
Room(ids, table) == \E id \in ids : id \notin DOMAIN table

Challenge(key, at) ==
    [key |-> key, consumed |-> -1, installation |-> 0,
     expires |-> IF at + ChallengeLife < GrantEnd THEN at + ChallengeLife ELSE GrantEnd]

Installation(key) == [key |-> key, status |-> "active", revision |-> 1]

Credential(installation, version) ==
    [installation |-> installation, version |-> version, status |-> "active", replaced |-> 0]

Session(credential, capability, at) ==
    [installation |-> credentials[credential].installation, credential |-> credential,
     version |-> credentials[credential].version, capability |-> capability,
     created |-> at, starts |-> at - Skew, expires |-> at + SessionLife, revoked |-> FALSE]

(* The unique constraint on the public key of an installation.              *)
KeyFree(key) == \A i \in DOMAIN installations : installations[i].key # key

(* Check constraint: a session is not revoked before it was created.  Every  *)
(* other row a request ends was written before the request arrived.          *)
RevocationInOrder(ss, at) == \A s \in ss : at >= sessions[s].created

-----------------------------------------------------------------------------
(* What the locked transactions see *)

Open(c) ==
    {s \in DOMAIN sessions : sessions[s].credential = c /\ ~sessions[s].revoked}

(* lock_authenticated_device_credential                                      *)
Usable(c) ==
    /\ installations[credentials[c].installation].status = "active"
    /\ credentials[c].status = "active"

(* The conditions of authenticate, with the installation and credential rows *)
(* locked.                                                                   *)
Authentic(r) ==
    LET s == sessions[r.request.session]
    IN /\ installations[s.installation].status = "active"
       /\ credentials[s.credential].status = "active"
       /\ credentials[s.credential].version = s.version
       /\ credentials[s.credential].installation = s.installation
       /\ ~s.revoked
       /\ s.capability = r.request.capability
       /\ r.at >= s.starts /\ r.at < s.expires

(* The sessions of a credential that has just been rotated or revoked.       *)
Ended(ss) ==
    [s \in DOMAIN sessions |-> IF s \in ss THEN [sessions[s] EXCEPT !.revoked = TRUE]
                                           ELSE sessions[s]]

Withdrawn(c, status, replacement) ==
    [credentials EXCEPT ![c].status = status, ![c].replaced = replacement]

-----------------------------------------------------------------------------
(* Requests *)

AccessInit ==
    /\ clock = 0
    /\ challenges = Empty /\ installations = Empty
    /\ credentials = Empty /\ sessions = Empty
    /\ inFlight = {} /\ trespass = FALSE

Tick ==
    /\ clock < MaxTime
    /\ clock' = clock + 1
    /\ UNCHANGED <<tables, inFlight, trespass>>

(* The grant is checked, and a challenge saved.                              *)
IssueChallenge(key) ==
    /\ clock < GrantEnd
    /\ Room(Challenges, challenges)
    /\ challenges' = Insert(challenges, Fresh(Challenges, challenges), Challenge(key, clock))
    /\ UNCHANGED <<clock, installations, credentials, sessions, inFlight, trespass>>

(* What a client or the operator may ask for; the operator names a revision  *)
(* it has seen.  Completing a registration checks the grant again.           *)
Requestable ==
    {[op |-> "register", challenge |-> h] : h \in IF clock < GrantEnd THEN DOMAIN challenges ELSE {}}
        \cup {[op |-> o, credential |-> c] : o \in {"rotate", "withdraw"}, c \in DOMAIN credentials}
        \cup {[op |-> "exchange", credential |-> c, capability |-> p] :
                  c \in DOMAIN credentials, p \in Capabilities}
        \cup {[op |-> "authenticate", session |-> s, capability |-> p] :
                  s \in DOMAIN sessions, p \in Capabilities}
        \cup {[op |-> "revoke", installation |-> i, revision |-> installations[i].revision] :
                  i \in DOMAIN installations}

Over(i) == installations[i].status = "revoked"

(* late: the installation was over before the request arrived.               *)
Arrive ==
    /\ Cardinality(inFlight) < MaxInFlight
    /\ \E q \in Requestable :
          inFlight' = inFlight \cup
              {[request |-> q, at |-> clock,
               late |-> q.op = "authenticate" /\ Over(sessions[q.session].installation)]}
    /\ UNCHANGED <<clock, tables, trespass>>

Answered(r) == inFlight' = inFlight \ {r}

(* complete_challenge: one transaction; a second installation for the key    *)
(* breaks the unique constraint and undoes it.                               *)
CompleteRegistration(r) ==
    LET h == challenges[r.request.challenge]
        i == Fresh(Installations, installations)
    IN /\ r.request.op = "register"
       /\ h.consumed = -1 /\ r.at < h.expires /\ KeyFree(h.key)
       /\ Room(Installations, installations) /\ Room(Credentials, credentials)
       /\ installations' = Insert(installations, i, Installation(h.key))
       /\ credentials' = Insert(credentials, Fresh(Credentials, credentials),
                                Credential(i, 1))
       /\ challenges' = [challenges EXCEPT ![r.request.challenge].consumed = r.at,
                                           ![r.request.challenge].installation = i]
       /\ Answered(r)
       /\ UNCHANGED <<clock, sessions, trespass>>

(* The holder gets a new credential for the current one, whose sessions end. *)
Rotate(r) ==
    LET c == r.request.credential
        next == Fresh(Credentials, credentials)
    IN /\ r.request.op = "rotate"
       /\ Usable(c) /\ RevocationInOrder(Open(c), r.at)
       /\ Room(Credentials, credentials)
       /\ credentials' =
              Insert(Withdrawn(c, "rotated", next), next,
                     Credential(credentials[c].installation, credentials[c].version + 1))
       /\ sessions' = Ended(Open(c))
       /\ Answered(r)
       /\ UNCHANGED <<clock, challenges, installations, trespass>>

Withdraw(r) ==
    LET c == r.request.credential
    IN /\ r.request.op = "withdraw"
       /\ Usable(c) /\ RevocationInOrder(Open(c), r.at)
       /\ credentials' = Withdrawn(c, "revoked", 0)
       /\ sessions' = Ended(Open(c))
       /\ Answered(r)
       /\ UNCHANGED <<clock, challenges, installations, trespass>>

Exchange(r) ==
    /\ r.request.op = "exchange"
    /\ Usable(r.request.credential)
    /\ Room(Sessions, sessions)
    /\ sessions' = Insert(sessions, Fresh(Sessions, sessions),
                          Session(r.request.credential, r.request.capability, r.at))
    /\ Answered(r)
    /\ UNCHANGED <<clock, challenges, installations, credentials, trespass>>

Authenticate(r) ==
    /\ r.request.op = "authenticate"
    /\ Authentic(r)
    /\ trespass' = (trespass \/ r.late)
    /\ Answered(r)
    /\ UNCHANGED <<clock, tables>>

(* A mutant: revocation leaves the sessions to run out.                      *)
DependentsCredentials(i) ==
    [sessions |-> {},
     credentials |-> {c \in DOMAIN credentials :
                          credentials[c].installation = i /\ credentials[c].status = "active"}]

(* The sessions and credentials of an installation that end with it.         *)
Dependents(i) ==
    [sessions |-> {s \in DOMAIN sessions : sessions[s].installation = i /\ ~sessions[s].revoked},
     credentials |-> {c \in DOMAIN credentials :
                          credentials[c].installation = i /\ credentials[c].status = "active"}]

RevokeInstallation(r) ==
    LET i == r.request.installation
        over == Dependents(i)
    IN /\ r.request.op = "revoke"
       /\ installations[i].status = "active" /\ installations[i].revision = r.request.revision
       /\ RevocationInOrder(over.sessions, r.at)
       /\ installations' = [installations EXCEPT ![i].status = "revoked",
                                                 ![i].revision = @ + 1]
       /\ credentials' = [c \in DOMAIN credentials |->
              IF c \in over.credentials
              THEN [credentials[c] EXCEPT !.status = "revoked"]
              ELSE credentials[c]]
       /\ sessions' = Ended(over.sessions)
       /\ Answered(r)
       /\ UNCHANGED <<clock, challenges, trespass>>

Performed(r) ==
    \/ CompleteRegistration(r) \/ Rotate(r) \/ Withdraw(r)
    \/ Exchange(r) \/ Authenticate(r) \/ RevokeInstallation(r)

(* A transaction that finds its guard false, breaks a constraint or loses    *)
(* its database changes nothing and answers with an error.                   *)
Refuse(r) == Answered(r) /\ UNCHANGED <<clock, tables, trespass>>

AccessNext ==
    \/ Tick \/ Arrive
    \/ \E key \in Keys : IssueChallenge(key)
    \/ \E r \in inFlight : Performed(r) \/ Refuse(r)

AccessSpec == AccessInit /\ [][AccessNext]_accessVars

-----------------------------------------------------------------------------
(* Properties *)

InstallationRow == [key : Keys, status : {"active", "revoked"}, revision : Nat]
CredentialRow == [installation : Installations, version : Nat, replaced : Credentials \cup {0},
                  status : {"active", "rotated", "revoked"}]
SessionRow == [installation : Installations, credential : Credentials, version : Nat,
               capability : Capabilities, created : Int, starts : Int, expires : Int,
               revoked : BOOLEAN]
ChallengeRow == [key : Keys, consumed : Int, expires : Int,
                 installation : Installations \cup {0}]

Typed(table, Row) == \A x \in DOMAIN table : table[x] \in Row

(* The rows have the columns the code reads.                                 *)
AccessTypeOK ==
    /\ clock \in Nat
    /\ Typed(installations, InstallationRow)
    /\ Typed(credentials, CredentialRow) /\ DOMAIN credentials \subseteq Credentials
    /\ Typed(sessions, SessionRow)
    /\ Typed(challenges, ChallengeRow)
    /\ \A r \in inFlight :
          r.at \in Nat /\ (r.request.op = "exchange" => r.request.capability \in Capabilities)

(* Foreign keys: rows and requests point at rows that exist, and a session   *)
(* at the installation of its credential.                                    *)
References ==
    /\ \A c \in DOMAIN credentials : credentials[c].installation \in DOMAIN installations
    /\ \A s \in DOMAIN sessions :
          /\ sessions[s].credential \in DOMAIN credentials
          /\ sessions[s].installation = credentials[sessions[s].credential].installation
    /\ \A r \in inFlight :
          /\ r.request.op = "register" => r.request.challenge \in DOMAIN challenges
          /\ r.request.op \in {"rotate", "withdraw", "exchange"} =>
                r.request.credential \in DOMAIN credentials
          /\ r.request.op = "authenticate" => r.request.session \in DOMAIN sessions
          /\ r.request.op = "revoke" => r.request.installation \in DOMAIN installations

(* A session that is not revoked hangs on an active credential of an active  *)
(* installation, however exchanges, rotations and revocations overtake each  *)
(* other between reading the clock and their transaction.                    *)
LiveUnderLive ==
    \A s \in DOMAIN sessions : ~sessions[s].revoked =>
        Usable(sessions[s].credential)

(* Once an installation's revocation is in the database, no request that     *)
(* arrives later is authenticated for it, by whatever session.               *)
AccessEnds ==
    ~trespass

(* The credentials of an installation form one chain: versions are distinct, *)
(* each rotated one names the next, and only the last may be active.         *)
CredentialsChain ==
    \A c, d \in DOMAIN credentials :
        LET a == credentials[c]  b == credentials[d]
        IN /\ a.status = "rotated" /\ a.replaced = d =>
                  a.installation = b.installation /\ b.version = a.version + 1
           /\ a.installation = b.installation /\ a.version < b.version => a.status = "rotated"
           /\ a.installation = b.installation /\ a.version = b.version => c = d

(* A device key and a challenge each make at most one installation, within   *)
(* the life of the challenge.                                                *)
KeysRegisterOnce ==
    /\ \A i, j \in DOMAIN installations : installations[i].key = installations[j].key => i = j
    /\ \A i \in DOMAIN installations :
          \E h \in DOMAIN challenges :
              /\ challenges[h].installation = i /\ challenges[h].key = installations[i].key
              /\ challenges[h].consumed < challenges[h].expires
    /\ \A g, h \in DOMAIN challenges :
          challenges[g].installation = challenges[h].installation =>
              g = h \/ challenges[g].installation = 0
=============================================================================
