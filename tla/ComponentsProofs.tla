--------------------------- MODULE ComponentsProofs ---------------------------
(***************************************************************************)
(* Four components that share no state, as MCComponents explores them: who  *)
(* may speak to the Control Plane, what it believes of those who do, the    *)
(* replay of a signed skill, and the authoring of a motion film.            *)
(*                                                                          *)
(* DeviceAccess, for any number of devices, credentials, sessions and       *)
(* requests: no live session hangs on a dead credential.  LiveUnderLive is  *)
(* inductive once sessions and requests point at rows that exist            *)
(* (AccessTypeOK).  A fresh id is in no table, so a new credential is under *)
(* no session; every other step that ends a credential or an installation   *)
(* ends its sessions in the same transaction.  On top of it: revoked access *)
(* ends, the credentials of an installation form one chain, and a key and a *)
(* challenge each make at most one installation.                            *)
(*                                                                          *)
(* ExecutorConnections, for any number of connections, reports and          *)
(* restarts: the registry serves the connection registered last (LinkInv),  *)
(* a report newer than the stored row is taken, and only a login later than *)
(* the logout opens the gate (SessionInv: reports are ordered by            *)
(* observation over the wires of the connections and the outbox).           *)
(*                                                                          *)
(* SkillReplay, for every set of seed directories, designs of the website   *)
(* and parameters, and any number of runs: an action is not performed       *)
(* twice, what the control plane is told of it is true, and what is handed  *)
(* back resumes where the page is.                                          *)
(*                                                                          *)
(* MotionAuthoring, for every storyboard, narration, catalog and choice of  *)
(* parts: the App accepts what the process answers as authored.             *)
(***************************************************************************)
EXTENDS SkillReplay, DeviceAccess, ExecutorConnections, MotionAuthoring,
        FiniteSetTheorems, WellFoundedInduction, TLAPS

------------------------------------------------------------------------------
(* Device access *)

(* A fresh id is one of the ids, and in no row of the table.                 *)
LEMMA FreshIsFree ==
    ASSUME NEW ids, NEW table, Room(ids, table)
    PROVE  Fresh(ids, table) \in ids /\ Fresh(ids, table) \notin DOMAIN table
BY DEF Fresh, Room

(* Insertion adds one row and keeps the others.                              *)
LEMMA InsertAdds ==
    ASSUME NEW table, NEW id, NEW row
    PROVE  /\ DOMAIN Insert(table, id, row) = DOMAIN table \cup {id}
           /\ Insert(table, id, row)[id] = row
           /\ \A x \in DOMAIN table : x # id => Insert(table, id, row)[x] = table[x]
BY DEF Insert

(* Ending sessions only marks their rows.                                    *)
LEMMA EndedMarks ==
    ASSUME Typed(sessions, SessionRow), NEW ss
    PROVE  /\ DOMAIN Ended(ss) = DOMAIN sessions
           /\ Typed(Ended(ss), SessionRow)
           /\ \A s \in DOMAIN sessions :
                 /\ Ended(ss)[s].revoked = (s \in ss \/ sessions[s].revoked)
                 /\ Ended(ss)[s].credential = sessions[s].credential
                 /\ Ended(ss)[s].installation = sessions[s].installation
BY DEF Ended, Typed, SessionRow

(* Insertion keeps a table typed.                                            *)
LEMMA InsertTyped ==
    ASSUME NEW table, NEW Row, NEW id, NEW row \in Row, Typed(table, Row)
    PROVE  Typed(Insert(table, id, row), Row)
BY DEF Insert, Typed

AccessInv == AccessTypeOK /\ References /\ LiveUnderLive

(* Nothing is issued at the start.                                          *)
LEMMA InitHolds == ASSUME AccessInit PROVE AccessInv
BY DEF AccessInit, AccessInv, AccessTypeOK, References, Typed, LiveUnderLive, Empty

(* Requests name rows that exist when they arrive.                           *)
LEMMA ArriveHolds == ASSUME AccessInv, Arrive PROVE AccessInv'
<1>1. PICK q \in Requestable :
        inFlight' = inFlight \cup
            {[request |-> q, at |-> clock,
              late |-> q.op = "authenticate" /\ Over(sessions[q.session].installation)]}
  BY DEF Arrive
<1>2. UNCHANGED <<clock, challenges, installations, credentials, sessions>>
  BY DEF Arrive, tables
<1>3. /\ q.op = "register" => q.challenge \in DOMAIN challenges
      /\ q.op \in {"rotate", "withdraw", "exchange"} => q.credential \in DOMAIN credentials
      /\ q.op = "exchange" => q.capability \in Capabilities
      /\ q.op = "authenticate" => q.session \in DOMAIN sessions
      /\ q.op = "revoke" => q.installation \in DOMAIN installations
  BY DEF Requestable
<1>4. LiveUnderLive'
  BY <1>2 DEF AccessInv, LiveUnderLive, Usable
<1>5. AccessTypeOK'
  BY <1>1, <1>2, <1>3 DEF AccessInv, AccessTypeOK, Typed
<1>6. References'
  BY <1>1, <1>2, <1>3 DEF AccessInv, References
<1> QED
  BY <1>4, <1>5, <1>6 DEF AccessInv

(* Challenges, time, authentication and refusals leave the other rows.       *)
LEMMA QuietHolds ==
    ASSUME AccessInv, UNCHANGED <<installations, credentials, sessions>>,
           inFlight' \subseteq inFlight, clock' \in Nat,
           DOMAIN challenges \subseteq DOMAIN challenges',
           Typed(challenges', ChallengeRow)
    PROVE  AccessInv'
<1>1. LiveUnderLive'
  BY DEF AccessInv, LiveUnderLive, Usable
<1>2. AccessTypeOK'
  BY DEF AccessInv, AccessTypeOK, Typed
<1>3. References'
  BY DEF AccessInv, References
<1> QED
  BY <1>1, <1>2, <1>3 DEF AccessInv

(* A challenge is issued for a key of its own (issue_challenge).            *)
LEMMA IssueHolds == ASSUME AccessInv, NEW key \in Keys, IssueChallenge(key) PROVE AccessInv'
<1> DEFINE h == Fresh(Challenges, challenges)
<1>1. challenges' = Insert(challenges, h, Challenge(key, clock))
  BY DEF IssueChallenge
<1>2. Challenge(key, clock) \in ChallengeRow
  BY AccessAssumption DEF Challenge, AccessInv, AccessTypeOK, ChallengeRow
<1>3. Typed(challenges', ChallengeRow)
  BY <1>1, <1>2, InsertTyped DEF AccessInv, AccessTypeOK
<1>4. DOMAIN challenges \subseteq DOMAIN challenges'
  BY <1>1 DEF Insert
<1>5. UNCHANGED <<installations, credentials, sessions, inFlight, clock>>
  BY DEF IssueChallenge
<1>6. clock' \in Nat
  BY <1>5 DEF AccessInv, AccessTypeOK
<1> QED
  BY <1>3, <1>4, <1>5, <1>6, QuietHolds

(* Rotation and withdrawal end one credential and its sessions.              *)
LEMMA EndingHolds ==
    ASSUME AccessInv, NEW c \in DOMAIN credentials, NEW status \in {"rotated", "revoked"},
           NEW next \in Credentials \cup {0},
           credentials' = Withdrawn(c, status, next), sessions' = Ended(Open(c))
    PROVE  /\ DOMAIN credentials' = DOMAIN credentials
           /\ Typed(credentials', CredentialRow)
           /\ \A d \in DOMAIN credentials :
                 /\ credentials'[d].installation = credentials[d].installation
                 /\ d # c => credentials'[d] = credentials[d]
           /\ DOMAIN sessions' = DOMAIN sessions
           /\ Typed(sessions', SessionRow)
           /\ \A s \in DOMAIN sessions :
                 /\ sessions'[s].credential = sessions[s].credential
                 /\ sessions'[s].installation = sessions[s].installation
                 /\ sessions'[s].revoked = FALSE =>
                       sessions[s].revoked = FALSE /\ sessions[s].credential # c
<1>1. Typed(sessions, SessionRow)
  BY DEF AccessInv, AccessTypeOK
<1>2. /\ DOMAIN Ended(Open(c)) = DOMAIN sessions
      /\ Typed(Ended(Open(c)), SessionRow)
      /\ \A s \in DOMAIN sessions :
            /\ Ended(Open(c))[s].revoked = (s \in Open(c) \/ sessions[s].revoked)
            /\ Ended(Open(c))[s].credential = sessions[s].credential
            /\ Ended(Open(c))[s].installation = sessions[s].installation
  BY <1>1, EndedMarks
<1>3. \A s \in DOMAIN sessions : Ended(Open(c))[s].revoked = FALSE =>
          sessions[s].revoked = FALSE /\ sessions[s].credential # c
  BY <1>1, <1>2 DEF Open, Typed, SessionRow
<1> QED
  BY <1>2, <1>3 DEF AccessInv, AccessTypeOK, Withdrawn, Typed, CredentialRow

(* Withdrawing a credential ends its open sessions (revoke).                *)
LEMMA WithdrawHolds == ASSUME AccessInv, NEW r \in inFlight, Withdraw(r) PROVE AccessInv'
<1>1. PICK c \in DOMAIN credentials :
        credentials' = Withdrawn(c, "revoked", 0) /\ sessions' = Ended(Open(c))
  BY DEF Withdraw, AccessInv, References
<1>0. "revoked" \in {"rotated", "revoked"} /\ 0 \in Credentials \cup {0}
  OBVIOUS
<1>2. UNCHANGED <<clock, challenges, installations>> /\ inFlight' \subseteq inFlight
  BY DEF Withdraw, Answered
<1>3. /\ DOMAIN credentials' = DOMAIN credentials
      /\ Typed(credentials', CredentialRow)
      /\ \A d \in DOMAIN credentials :
            /\ credentials'[d].installation = credentials[d].installation
            /\ d # c => credentials'[d] = credentials[d]
      /\ DOMAIN sessions' = DOMAIN sessions
      /\ Typed(sessions', SessionRow)
      /\ \A s \in DOMAIN sessions :
            /\ sessions'[s].credential = sessions[s].credential
            /\ sessions'[s].installation = sessions[s].installation
            /\ sessions'[s].revoked = FALSE =>
                  sessions[s].revoked = FALSE /\ sessions[s].credential # c
  BY <1>1, <1>0, EndingHolds
<1>4. LiveUnderLive'
  BY <1>2, <1>3 DEF AccessInv, References, LiveUnderLive, Usable
<1>5. AccessTypeOK'
  BY <1>2, <1>3 DEF AccessInv, AccessTypeOK
<1>6. References'
  BY <1>2, <1>3 DEF AccessInv, References
<1> QED
  BY <1>4, <1>5, <1>6 DEF AccessInv

(* The replacement is a credential no session hangs on yet.                  *)
LEMMA RotateHolds == ASSUME AccessInv, NEW r \in inFlight, Rotate(r) PROVE AccessInv'
<1> DEFINE next == Fresh(Credentials, credentials)
<1>0. /\ "rotated" \in {"rotated", "revoked"}
      /\ next \in Credentials /\ next \notin DOMAIN credentials
      /\ next \in Credentials \cup {0}
  BY FreshIsFree DEF Rotate
<1>1. PICK c \in DOMAIN credentials :
        /\ credentials' = Insert(Withdrawn(c, "rotated", next), next,
                                 Credential(credentials[c].installation,
                                            credentials[c].version + 1))
        /\ sessions' = Ended(Open(c))
  BY DEF Rotate, AccessInv, References
<1>2. UNCHANGED <<clock, challenges, installations>> /\ inFlight' \subseteq inFlight
  BY DEF Rotate, Answered
<1> HIDE DEF next
<1> DEFINE cs == Withdrawn(c, "rotated", next)
           new == Credential(credentials[c].installation, credentials[c].version + 1)
<1>3. /\ DOMAIN cs = DOMAIN credentials
      /\ Typed(cs, CredentialRow)
      /\ \A d \in DOMAIN credentials :
            /\ cs[d].installation = credentials[d].installation
            /\ d # c => cs[d] = credentials[d]
  BY <1>0 DEF AccessInv, AccessTypeOK, Withdrawn, Typed, CredentialRow
<1>4. /\ DOMAIN sessions' = DOMAIN sessions
      /\ Typed(sessions', SessionRow)
      /\ \A s \in DOMAIN sessions :
            /\ sessions'[s].revoked = (s \in Open(c) \/ sessions[s].revoked)
            /\ sessions'[s].credential = sessions[s].credential
            /\ sessions'[s].installation = sessions[s].installation
  BY <1>1, EndedMarks DEF AccessInv, AccessTypeOK
<1>5. \A s \in DOMAIN sessions : sessions'[s].revoked = FALSE =>
          sessions[s].revoked = FALSE /\ sessions[s].credential # c
  BY <1>4 DEF Open, AccessInv, AccessTypeOK, Typed, SessionRow
<1>6. new \in CredentialRow /\ new.installation = credentials[c].installation
  BY DEF Credential, CredentialRow, AccessInv, AccessTypeOK, Typed
<1> HIDE DEF cs, new
<1>7. /\ DOMAIN credentials' = DOMAIN credentials \cup {next}
      /\ credentials'[next] = new
      /\ \A d \in DOMAIN credentials : credentials'[d] = cs[d]
  BY <1>0, <1>1, <1>3 DEF Insert, cs, new
<1>8. Typed(credentials', CredentialRow)
  BY <1>3, <1>6, <1>7 DEF Typed
<1>9. LiveUnderLive'
  BY <1>2, <1>3, <1>4, <1>5, <1>7 DEF AccessInv, References, LiveUnderLive, Usable
<1>10. AccessTypeOK'
  BY <1>0, <1>2, <1>4, <1>7, <1>8 DEF AccessInv, AccessTypeOK
<1>11. References'
  BY <1>2, <1>3, <1>4, <1>6, <1>7 DEF AccessInv, References
<1> QED
  BY <1>9, <1>10, <1>11 DEF AccessInv

(* A session is issued under a credential the same transaction found usable. *)
LEMMA ExchangeHolds == ASSUME AccessInv, NEW r \in inFlight, Exchange(r) PROVE AccessInv'
<1> DEFINE c == r.request.credential
           s == Fresh(Sessions, sessions)
           new == Session(c, r.request.capability, r.at)
<1>1. /\ Usable(c)
      /\ sessions' = Insert(sessions, s, new)
      /\ UNCHANGED <<clock, challenges, installations, credentials>>
      /\ inFlight' \subseteq inFlight
  BY DEF Exchange, Answered
<1>2. c \in DOMAIN credentials /\ r.request.capability \in Capabilities /\ r.at \in Nat
  BY DEF Exchange, AccessInv, References, AccessTypeOK
<1>3. s \notin DOMAIN sessions
  BY FreshIsFree DEF Exchange
<1>4. c \in Credentials /\ credentials[c] \in CredentialRow /\ SessionLife \in Nat /\ Skew \in Nat
  BY <1>2, AccessAssumption DEF AccessInv, AccessTypeOK, Typed
<1>5. /\ new \in SessionRow /\ new.credential = c
      /\ new.installation = credentials[c].installation
  BY <1>2, <1>4 DEF Session, SessionRow, CredentialRow
<1> HIDE DEF c, s, new
<1>6. /\ DOMAIN sessions' = DOMAIN sessions \cup {s}
      /\ sessions'[s] = new
      /\ \A x \in DOMAIN sessions : sessions'[x] = sessions[x]
  BY <1>1, <1>3 DEF Insert
<1>7. LiveUnderLive'
  BY <1>1, <1>5, <1>6 DEF AccessInv, LiveUnderLive, Usable
<1>8. AccessTypeOK'
  BY <1>1, <1>5, <1>6 DEF AccessInv, AccessTypeOK, Typed
<1>9. References'
  BY <1>1, <1>2, <1>5, <1>6 DEF AccessInv, References
<1> QED
  BY <1>7, <1>8, <1>9 DEF AccessInv

(* A registration adds an installation and a credential; sessions keep       *)
(* theirs.                                                                   *)
LEMMA RegisterHolds == ASSUME AccessInv, NEW r \in inFlight, CompleteRegistration(r) PROVE AccessInv'
<1> DEFINE i == Fresh(Installations, installations)
           c == Fresh(Credentials, credentials)
           h == r.request.challenge
           device == Installation(challenges[h].key)
           first == Credential(i, 1)
<1>1. /\ installations' = Insert(installations, i, device)
      /\ credentials' = Insert(credentials, c, first)
      /\ challenges' = [challenges EXCEPT ![h].consumed = r.at, ![h].installation = i]
      /\ UNCHANGED <<clock, sessions>> /\ inFlight' \subseteq inFlight
      /\ h \in DOMAIN challenges /\ r.at \in Nat
  BY DEF CompleteRegistration, Answered, AccessInv, References, AccessTypeOK
<1>2. /\ i \in Installations /\ i \notin DOMAIN installations
      /\ c \in Credentials /\ c \notin DOMAIN credentials
  BY FreshIsFree DEF CompleteRegistration
<1> HIDE DEF i, c, h
<1>3. device \in InstallationRow /\ first \in CredentialRow /\ first.installation = i
  BY <1>1, <1>2
  DEF Installation, Credential, InstallationRow, CredentialRow, AccessInv, AccessTypeOK, Typed,
      ChallengeRow
<1>4. DOMAIN challenges' = DOMAIN challenges /\ Typed(challenges', ChallengeRow)
  <2> DEFINE marked == [challenges EXCEPT ![h].consumed = r.at]
  <2>1. DOMAIN marked = DOMAIN challenges /\ Typed(marked, ChallengeRow)
    BY <1>1 DEF AccessInv, AccessTypeOK, Typed, ChallengeRow
  <2>2. challenges' = [marked EXCEPT ![h].installation = i]
    BY <1>1
  <2> HIDE DEF marked
  <2> QED
    BY <1>1, <1>2, <2>1, <2>2 DEF Typed, ChallengeRow
<1> HIDE DEF device, first
<1>5. /\ DOMAIN installations' = DOMAIN installations \cup {i}
      /\ installations'[i] = device
      /\ \A x \in DOMAIN installations : installations'[x] = installations[x]
  BY <1>1, <1>2 DEF Insert
<1>6. /\ DOMAIN credentials' = DOMAIN credentials \cup {c}
      /\ credentials'[c] = first
      /\ \A x \in DOMAIN credentials : credentials'[x] = credentials[x]
  BY <1>1, <1>2 DEF Insert
<1>7. LiveUnderLive'
  BY <1>1, <1>5, <1>6 DEF AccessInv, References, LiveUnderLive, Usable
<1>8. AccessTypeOK'
  BY <1>1, <1>2, <1>3, <1>4, <1>5, <1>6 DEF AccessInv, AccessTypeOK, Typed
<1>9. References'
  BY <1>1, <1>3, <1>4, <1>5, <1>6 DEF AccessInv, References
<1> QED
  BY <1>7, <1>8, <1>9 DEF AccessInv

(* Revocation ends every session of the installation.                        *)
LEMMA RevokeHolds == ASSUME AccessInv, NEW r \in inFlight, RevokeInstallation(r) PROVE AccessInv'
<1> DEFINE i == r.request.installation
           ss == Dependents(i).sessions
           cs == Dependents(i).credentials
<1>1. /\ i \in DOMAIN installations
      /\ installations' = [installations EXCEPT ![i].status = "revoked", ![i].revision = @ + 1]
      /\ credentials' = [c \in DOMAIN credentials |->
             IF c \in cs THEN [credentials[c] EXCEPT !.status = "revoked"] ELSE credentials[c]]
      /\ sessions' = Ended(ss)
      /\ UNCHANGED <<clock, challenges>> /\ inFlight' \subseteq inFlight
  BY DEF RevokeInstallation, Answered, AccessInv, References
<1>2. /\ DOMAIN sessions' = DOMAIN sessions
      /\ Typed(sessions', SessionRow)
      /\ \A s \in DOMAIN sessions :
            /\ sessions'[s].revoked = (s \in ss \/ sessions[s].revoked)
            /\ sessions'[s].credential = sessions[s].credential
            /\ sessions'[s].installation = sessions[s].installation
  BY <1>1, EndedMarks DEF AccessInv, AccessTypeOK
<1>3. ss = {s \in DOMAIN sessions : sessions[s].installation = i /\ ~sessions[s].revoked}
      /\ \A c \in cs : credentials[c].installation = i
  BY DEF Dependents
<1> HIDE DEF i, ss, cs
<1>4. /\ DOMAIN installations' = DOMAIN installations
      /\ Typed(installations', InstallationRow)
      /\ \A x \in DOMAIN installations : x # i => installations'[x] = installations[x]
  BY <1>1 DEF AccessInv, AccessTypeOK, Typed, InstallationRow
<1>5. /\ DOMAIN credentials' = DOMAIN credentials
      /\ Typed(credentials', CredentialRow)
      /\ \A c \in DOMAIN credentials :
            /\ credentials'[c].installation = credentials[c].installation
            /\ credentials[c].installation # i => credentials'[c] = credentials[c]
  BY <1>1, <1>3 DEF AccessInv, AccessTypeOK, Typed, CredentialRow
<1>6. \A s \in DOMAIN sessions : ~sessions'[s].revoked =>
          ~sessions[s].revoked /\ sessions[s].installation # i
  BY <1>2, <1>3
<1>7. LiveUnderLive'
  BY <1>2, <1>4, <1>5, <1>6 DEF AccessInv, References, LiveUnderLive, Usable
<1>8. AccessTypeOK'
  BY <1>1, <1>2, <1>4, <1>5 DEF AccessInv, AccessTypeOK
<1>9. References'
  BY <1>1, <1>2, <1>4, <1>5 DEF AccessInv, References
<1> QED
  BY <1>7, <1>8, <1>9 DEF AccessInv

(* Every step keeps what is proved of devices, sessions and credentials.    *)
LEMMA NextHolds == ASSUME AccessInv, [AccessNext]_accessVars PROVE AccessInv'
<1>1. CASE UNCHANGED accessVars
  BY <1>1
  DEF accessVars, AccessInv, AccessTypeOK, References, LiveUnderLive, Typed, Usable
<1>2. CASE Tick
  <2>1. UNCHANGED <<installations, credentials, sessions, inFlight, challenges>>
    BY <1>2 DEF Tick, tables
  <2>2. clock' \in Nat /\ Typed(challenges', ChallengeRow)
    BY <1>2, <2>1 DEF Tick, AccessInv, AccessTypeOK
  <2> QED
    BY <2>1, <2>2, QuietHolds
<1>3. CASE Arrive
  BY <1>3, ArriveHolds
<1>4. CASE \E key \in Keys : IssueChallenge(key)
  BY <1>4, IssueHolds
<1>5. ASSUME NEW r \in inFlight, Authenticate(r) \/ Refuse(r) PROVE AccessInv'
  <2>1. /\ UNCHANGED <<installations, credentials, sessions, challenges, clock>>
        /\ inFlight' \subseteq inFlight
    BY <1>5 DEF Authenticate, Refuse, tables, Answered
  <2>2. clock' \in Nat /\ Typed(challenges', ChallengeRow)
    BY <2>1 DEF AccessInv, AccessTypeOK
  <2> QED
    BY <2>1, <2>2, QuietHolds
<1>6. ASSUME NEW r \in inFlight, Performed(r) PROVE AccessInv'
  BY <1>5, <1>6, RegisterHolds, RotateHolds, WithdrawHolds, ExchangeHolds, RevokeHolds
  DEF Performed
<1> QED
  BY <1>1, <1>2, <1>3, <1>4, <1>5, <1>6 DEF AccessNext

(* The invariant holds in every state.                                       *)
THEOREM Invariance == AccessSpec => []AccessInv
<1>1. AccessInit => AccessInv
  BY InitHolds
<1>2. AccessInv /\ [AccessNext]_accessVars => AccessInv'
  BY NextHolds
<1> QED
  BY <1>1, <1>2, PTL DEF AccessSpec

(* No live session hangs on a dead credential or installation: the           *)
(* transactions of rotate, revoke and issue keep it between them.            *)
THEOREM SessionsLiveUnderLive == AccessSpec => []LiveUnderLive
<1>1. AccessInv => LiveUnderLive
  BY DEF AccessInv
<1> QED
  BY <1>1, Invariance, PTL

(* In every reachable state the tables are typed.                            *)
THEOREM AccessTypeCorrect == AccessSpec => []AccessTypeOK
<1>1. AccessInv => AccessTypeOK
  BY DEF AccessInv
<1> QED
  BY <1>1, Invariance, PTL

-----------------------------------------------------------------------------
(* What rows keep, and what follows *)

(* Installations keep their key and stay revoked; sessions keep theirs.      *)
RowsKept ==
    /\ \A i \in DOMAIN installations :
          /\ i \in DOMAIN installations'
          /\ installations'[i].key = installations[i].key
          /\ installations[i].status = "revoked" => installations'[i].status = "revoked"
    /\ \A s \in DOMAIN sessions :
          s \in DOMAIN sessions' /\ sessions'[s].installation = sessions[s].installation

(* No step takes a row back: services only insert rows and end them.         *)
LEMMA RowsStay == ASSUME AccessInv, [AccessNext]_accessVars PROVE RowsKept
<1>1. CASE \/ UNCHANGED accessVars \/ Tick \/ Arrive \/ \E key \in Keys : IssueChallenge(key)
           \/ \E r \in inFlight : Authenticate(r) \/ Refuse(r)
  <2>1. UNCHANGED <<installations, sessions>>
    BY <1>1 DEF accessVars, Tick, Arrive, IssueChallenge, Authenticate, Refuse, tables
  <2> QED
    BY <2>1 DEF RowsKept
<1>2. ASSUME NEW r \in inFlight, CompleteRegistration(r) PROVE RowsKept
  <2> DEFINE i == Fresh(Installations, installations)
             row == Installation(challenges[r.request.challenge].key)
  <2>1. installations' = Insert(installations, i, row) /\ UNCHANGED sessions
    BY <1>2 DEF CompleteRegistration
  <2>2. i \notin DOMAIN installations
    BY <1>2, FreshIsFree DEF CompleteRegistration
  <2> HIDE DEF i, row
  <2>3. \A x \in DOMAIN installations :
          x \in DOMAIN installations' /\ installations'[x] = installations[x]
    BY <2>1, <2>2 DEF Insert
  <2> QED
    BY <2>1, <2>3 DEF RowsKept
<1>3. ASSUME NEW r \in inFlight, Exchange(r) PROVE RowsKept
  <2> DEFINE s == Fresh(Sessions, sessions)
             row == Session(r.request.credential, r.request.capability, r.at)
  <2>1. sessions' = Insert(sessions, s, row) /\ UNCHANGED installations
    BY <1>3 DEF Exchange
  <2>2. s \notin DOMAIN sessions
    BY <1>3, FreshIsFree DEF Exchange
  <2> HIDE DEF s, row
  <2>3. \A x \in DOMAIN sessions : x \in DOMAIN sessions' /\ sessions'[x] = sessions[x]
    BY <2>1, <2>2 DEF Insert
  <2> QED
    BY <2>1, <2>3 DEF RowsKept
<1>4. ASSUME NEW r \in inFlight, Rotate(r) \/ Withdraw(r) PROVE RowsKept
  <2>1. PICK ss : sessions' = Ended(ss) /\ UNCHANGED installations
    BY <1>4 DEF Rotate, Withdraw
  <2> QED
    BY <2>1, EndedMarks DEF RowsKept, AccessInv, AccessTypeOK
<1>5. ASSUME NEW r \in inFlight, RevokeInstallation(r) PROVE RowsKept
  <2>1. PICK ss, i :
          /\ sessions' = Ended(ss)
          /\ installations' = [installations EXCEPT ![i].status = "revoked", ![i].revision = @ + 1]
    BY <1>5 DEF RevokeInstallation
  <2>2. \A x \in DOMAIN installations : installations[x] \in InstallationRow
    BY DEF AccessInv, AccessTypeOK, Typed
  <2> QED
    BY <2>1, <2>2, EndedMarks DEF RowsKept, AccessInv, AccessTypeOK, InstallationRow
<1> QED
  BY <1>1, <1>2, <1>3, <1>4, <1>5 DEF AccessNext, Performed

(* A late request is for an installation that is over, and stays so.         *)
LateIsOver ==
    /\ AccessEnds
    /\ \A r \in inFlight : r.late =>
          r.request.op = "authenticate" /\ Over(sessions[r.request.session].installation)

(* Authentication refuses a late request, and no step brings an installation *)
(* back.                                                                     *)
LEMMA LateStep == ASSUME AccessInv, LateIsOver, [AccessNext]_accessVars PROVE LateIsOver'
<1>1. RowsKept
  BY RowsStay
<1>2. ASSUME NEW r \in inFlight, r.late
      PROVE  r.request.op = "authenticate" /\ Over(sessions[r.request.session].installation)'
  <2>1. /\ r.request.op = "authenticate" /\ r.request.session \in DOMAIN sessions
        /\ installations[sessions[r.request.session].installation].status = "revoked"
    BY <1>2 DEF LateIsOver, Over, AccessInv, References
  <2>2. sessions[r.request.session].installation \in DOMAIN installations
    BY <2>1 DEF AccessInv, References
  <2> QED
    BY <1>1, <2>1, <2>2 DEF RowsKept, Over
<1>3. CASE inFlight' \subseteq inFlight /\ (trespass' => trespass)
  BY <1>2, <1>3 DEF LateIsOver, AccessEnds
<1>4. CASE Arrive
  <2>1. PICK q : inFlight' = inFlight \cup
            {[request |-> q, at |-> clock,
              late |-> q.op = "authenticate" /\ Over(sessions[q.session].installation)]}
    BY <1>4 DEF Arrive
  <2>2. UNCHANGED <<installations, sessions, trespass>>
    BY <1>4 DEF Arrive, tables
  <2>3. ASSUME NEW r \in inFlight', r.late
        PROVE  r.request.op = "authenticate" /\ Over(sessions[r.request.session].installation)'
    <3>1. CASE r \in inFlight
      BY <1>2, <2>3, <3>1
    <3>2. CASE r \notin inFlight
      <4>1. r.request = q /\ q.op = "authenticate" /\ Over(sessions[q.session].installation)
        <5>1. PICK late : late = (q.op = "authenticate" /\ Over(sessions[q.session].installation))
          OBVIOUS
        <5>2. r = [request |-> q, at |-> clock, late |-> late]
          BY <2>1, <3>2, <5>1
        <5>3. r.request = q /\ r.late = late
          BY <5>2
        <5>4. late
          BY <2>3, <5>3, Zenon
        <5> QED
          BY <5>1, <5>3, <5>4, Zenon
      <4> QED
        BY <2>2, <4>1 DEF Over
    <3> QED
      BY <3>1, <3>2
  <2> QED
    BY <2>2, <2>3 DEF LateIsOver, AccessEnds
<1>5. ASSUME NEW r \in inFlight, Authenticate(r)
      PROVE  inFlight' \subseteq inFlight /\ (trespass' => trespass)
  <2>1. ~r.late
    BY <1>5 DEF Authenticate, Authentic, LateIsOver, Over
  <2> QED
    BY <1>5, <2>1 DEF Authenticate, Answered, LateIsOver, AccessEnds
<1>6. CASE UNCHANGED accessVars \/ Tick \/ \E key \in Keys : IssueChallenge(key)
  BY <1>3, <1>6 DEF accessVars, Tick, IssueChallenge
<1>7. CASE \E r \in inFlight : CompleteRegistration(r) \/ Rotate(r) \/ Withdraw(r) \/ Exchange(r)
                                 \/ RevokeInstallation(r) \/ Refuse(r)
  BY <1>3, <1>7 DEF CompleteRegistration, Rotate, Withdraw, Exchange, RevokeInstallation, Refuse,
     Answered
<1> QED
  BY <1>3, <1>4, <1>5, <1>6, <1>7 DEF AccessNext, Performed

(* Once an installation's revocation is in the database, no request that     *)
(* arrives later is authenticated for it (revoke, authenticate).             *)
THEOREM AccessReallyEnds == AccessSpec => []AccessEnds
<1>1. AccessInit => LateIsOver
  BY DEF AccessInit, LateIsOver, AccessEnds
<1>2. AccessInv /\ LateIsOver /\ [AccessNext]_accessVars => LateIsOver'
  BY LateStep
<1>3. LateIsOver => AccessEnds
  BY DEF LateIsOver
<1> QED
  BY <1>1, <1>2, <1>3, Invariance, PTL DEF AccessSpec

(* A rotated credential names a credential that exists.                      *)
ChainOK ==
    /\ CredentialsChain
    /\ \A c \in DOMAIN credentials :
          credentials[c].status = "rotated" => credentials[c].replaced \in DOMAIN credentials

(* Ending an active credential keeps the chain: it is the last of its        *)
(* installation, and a rotated one is replaced by the next version.          *)
LEMMA RotateChains == ASSUME AccessInv, ChainOK, NEW r \in inFlight, Rotate(r) PROVE ChainOK'
<1>1. PICK c, next, i, v :
        /\ c \in DOMAIN credentials /\ next \notin DOMAIN credentials
        /\ i = credentials[c].installation /\ v = credentials[c].version /\ v \in Nat
        /\ credentials[c].status = "active"
        /\ credentials' = Insert(Withdrawn(c, "rotated", next), next, Credential(i, v + 1))
  <2>1. r.request.credential \in DOMAIN credentials
    BY DEF Rotate, AccessInv, References
  <2>2. Fresh(Credentials, credentials) \notin DOMAIN credentials
    BY FreshIsFree DEF Rotate
  <2>3. credentials[r.request.credential].version \in Nat
    BY <2>1 DEF AccessInv, AccessTypeOK, Typed, CredentialRow
  <2> QED
    BY <2>1, <2>2, <2>3 DEF Rotate, Usable
<1>2. \A d \in DOMAIN credentials : credentials[d] \in CredentialRow
  BY DEF AccessInv, AccessTypeOK, Typed
<1>3. /\ DOMAIN credentials' = DOMAIN credentials \cup {next}
      /\ credentials'[next].installation = i /\ credentials'[next].version = v + 1
      /\ credentials'[next].status = "active"
      /\ \A d \in DOMAIN credentials : d # c => credentials'[d] = credentials[d]
      /\ credentials'[c].installation = i /\ credentials'[c].version = v
      /\ credentials'[c].status = "rotated" /\ credentials'[c].replaced = next
  <2>1. PICK cs : cs = Withdrawn(c, "rotated", next)
    OBVIOUS
  <2>2. /\ DOMAIN cs = DOMAIN credentials
        /\ \A d \in DOMAIN credentials : d # c => cs[d] = credentials[d]
        /\ cs[c].installation = i /\ cs[c].version = v
        /\ cs[c].status = "rotated" /\ cs[c].replaced = next
    BY <1>1, <1>2, <2>1 DEF Withdrawn, CredentialRow
  <2>3. PICK new : new = Credential(i, v + 1)
    OBVIOUS
  <2>4. new.installation = i /\ new.version = v + 1 /\ new.status = "active"
    BY <2>3 DEF Credential
  <2>5. credentials' = Insert(cs, next, new)
    BY <1>1, <2>1, <2>3
  <2> QED
    BY <1>1, <2>2, <2>4, <2>5 DEF Insert
<1>4. \A d \in DOMAIN credentials : d # c /\ credentials[d].installation = i =>
        credentials[d].version < v
  BY <1>1, <1>2 DEF ChainOK, CredentialsChain, CredentialRow
<1>5. \A d \in DOMAIN credentials :
        /\ credentials'[d].installation = credentials[d].installation
        /\ credentials'[d].version = credentials[d].version
        /\ credentials[d].version \in Nat
        /\ credentials[d].status = "rotated" => credentials'[d].status = "rotated"
        /\ credentials'[d].status = "rotated" /\ d # c =>
              credentials[d].status = "rotated" /\ credentials'[d] = credentials[d]
  <2>1. \A d \in DOMAIN credentials : credentials[d].version \in Nat
    BY <1>2 DEF CredentialRow
  <2> QED
    BY <1>1, <1>3, <2>1
<1>6. CredentialsChain'
  <2> SUFFICES ASSUME NEW d \in DOMAIN credentials', NEW e \in DOMAIN credentials'
               PROVE  LET a == credentials'[d]  b == credentials'[e]
                      IN /\ a.status = "rotated" /\ a.replaced = e =>
                              a.installation = b.installation /\ b.version = a.version + 1
                         /\ a.installation = b.installation /\ a.version < b.version =>
                              a.status = "rotated"
                         /\ a.installation = b.installation /\ a.version = b.version => d = e
    BY DEF CredentialsChain
  <2>1. CASE d # next /\ e # next
    <3>1. d \in DOMAIN credentials /\ e \in DOMAIN credentials
      BY <1>3, <2>1
    <3> QED
      BY <1>1, <1>3, <1>5, <2>1, <3>1 DEF ChainOK, CredentialsChain
  <2>2. CASE d = next /\ e # next
    <3>1. e \in DOMAIN credentials
      BY <1>3, <2>2
    <3>2. credentials'[e].installation = i => credentials'[e].version <= v
      BY <1>1, <1>3, <1>4, <1>5, <3>1
    <3> QED
      BY <1>1, <1>3, <1>5, <2>2, <3>1, <3>2
  <2>3. CASE d # next /\ e = next
    <3>1. d \in DOMAIN credentials
      BY <1>3, <2>3
    <3>2. credentials'[d].installation = i => credentials'[d].version <= v
      BY <1>1, <1>3, <1>4, <1>5, <3>1
    <3>3. credentials'[d].status = "rotated" /\ credentials'[d].replaced = next => d = c
      BY <1>1, <1>5, <3>1 DEF ChainOK
    <3>4. credentials'[d].installation = i /\ d # c => credentials'[d].status = "rotated"
      BY <1>1, <1>4, <1>5, <3>1 DEF ChainOK, CredentialsChain
    <3> QED
      BY <1>1, <1>3, <2>3, <3>2, <3>3, <3>4
  <2>4. CASE d = next /\ e = next
    BY <1>1, <1>3, <2>4
  <2> QED
    BY <2>1, <2>2, <2>3, <2>4
<1>7. \A d \in DOMAIN credentials' :
        credentials'[d].status = "rotated" => credentials'[d].replaced \in DOMAIN credentials'
  BY <1>1, <1>3, <1>5 DEF ChainOK
<1> QED
  BY <1>6, <1>7 DEF ChainOK

(* Withdrawing or revoking active credentials keeps the chain.               *)
LEMMA EndingChains ==
    ASSUME AccessInv, ChainOK, DOMAIN credentials' = DOMAIN credentials,
           \A d \in DOMAIN credentials :
              \/ credentials'[d] = credentials[d]
              \/ /\ credentials[d].status = "active" /\ credentials'[d].status = "revoked"
                 /\ credentials'[d].installation = credentials[d].installation
                 /\ credentials'[d].version = credentials[d].version
    PROVE  ChainOK'
<1>1. \A d \in DOMAIN credentials :
        /\ credentials'[d].installation = credentials[d].installation
        /\ credentials'[d].version = credentials[d].version
        /\ credentials[d].status = "rotated" <=> credentials'[d].status = "rotated"
        /\ credentials'[d].status = "rotated" => credentials'[d] = credentials[d]
  OBVIOUS
<1>2. CredentialsChain'
  BY <1>1 DEF ChainOK, CredentialsChain
<1> QED
  BY <1>1, <1>2 DEF ChainOK

(* A first credential starts a chain of its own.                             *)
LEMMA RegisterChains ==
    ASSUME AccessInv, ChainOK, NEW r \in inFlight, CompleteRegistration(r)
    PROVE  ChainOK'
<1>1. PICK c, i :
        /\ c \notin DOMAIN credentials /\ i \notin DOMAIN installations
        /\ credentials' = Insert(credentials, c, Credential(i, 1))
  BY FreshIsFree DEF CompleteRegistration
<1>2. PICK new : new = Credential(i, 1)
  OBVIOUS
<1>3. new.installation = i /\ new.status = "active" /\ new.version = 1
  BY <1>2 DEF Credential
<1>4. /\ DOMAIN credentials' = DOMAIN credentials \cup {c} /\ credentials'[c] = new
      /\ \A d \in DOMAIN credentials : credentials'[d] = credentials[d]
  BY <1>1, <1>2 DEF Insert
<1>5. \A d \in DOMAIN credentials :
        credentials[d].installation # i /\
        (credentials[d].status = "rotated" => credentials[d].replaced # c)
  BY <1>1 DEF AccessInv, References, ChainOK
<1>6. CredentialsChain'
  <2> SUFFICES ASSUME NEW d \in DOMAIN credentials', NEW e \in DOMAIN credentials'
               PROVE  LET a == credentials'[d]  b == credentials'[e]
                      IN /\ a.status = "rotated" /\ a.replaced = e =>
                              a.installation = b.installation /\ b.version = a.version + 1
                         /\ a.installation = b.installation /\ a.version < b.version =>
                              a.status = "rotated"
                         /\ a.installation = b.installation /\ a.version = b.version => d = e
    BY DEF CredentialsChain
  <2>1. CASE d # c /\ e # c
    BY <1>4, <2>1 DEF ChainOK, CredentialsChain
  <2>2. CASE d # c /\ e = c
    BY <1>3, <1>4, <1>5, <2>2
  <2>3. CASE d = c /\ e # c
    BY <1>3, <1>4, <1>5, <2>3
  <2>4. CASE d = c /\ e = c
    BY <1>3, <1>4, <2>4
  <2> QED
    BY <2>1, <2>2, <2>3, <2>4
<1> QED
  BY <1>3, <1>4, <1>6 DEF ChainOK

(* Every step keeps the chain.                                               *)
LEMMA ChainStep == ASSUME AccessInv, ChainOK, [AccessNext]_accessVars PROVE ChainOK'
<1>1. CASE credentials' = credentials
  BY <1>1 DEF ChainOK, CredentialsChain
<1>2. CASE \/ UNCHANGED accessVars \/ Tick \/ Arrive \/ \E key \in Keys : IssueChallenge(key)
           \/ \E r \in inFlight : Authenticate(r) \/ Refuse(r) \/ Exchange(r)
  <2>1. credentials' = credentials
    BY <1>2 DEF accessVars, Tick, Arrive, IssueChallenge, Authenticate, Refuse, Exchange, tables
  <2> QED
    BY <1>1, <2>1
<1>3. ASSUME NEW r \in inFlight, Withdraw(r) PROVE ChainOK'
  <2>1. PICK c \in DOMAIN credentials :
          credentials[c].status = "active" /\ credentials' = Withdrawn(c, "revoked", 0)
    BY <1>3 DEF Withdraw, Usable, AccessInv, References
  <2>2. \A d \in DOMAIN credentials : credentials[d] \in CredentialRow
    BY DEF AccessInv, AccessTypeOK, Typed
  <2>3. /\ DOMAIN credentials' = DOMAIN credentials
        /\ \A d \in DOMAIN credentials :
             \/ credentials'[d] = credentials[d]
             \/ /\ credentials[d].status = "active" /\ credentials'[d].status = "revoked"
                /\ credentials'[d].installation = credentials[d].installation
                /\ credentials'[d].version = credentials[d].version
    BY <2>1, <2>2 DEF Withdrawn, CredentialRow
  <2> QED
    BY <2>3, EndingChains
<1>4. ASSUME NEW r \in inFlight, RevokeInstallation(r) PROVE ChainOK'
  <2>1. PICK cs : /\ \A c \in cs : credentials[c].status = "active"
                  /\ credentials' = [c \in DOMAIN credentials |->
                       IF c \in cs THEN [credentials[c] EXCEPT !.status = "revoked"]
                       ELSE credentials[c]]
    BY <1>4 DEF RevokeInstallation, Dependents
  <2>2. \A d \in DOMAIN credentials : credentials[d] \in CredentialRow
    BY DEF AccessInv, AccessTypeOK, Typed
  <2>3. /\ DOMAIN credentials' = DOMAIN credentials
        /\ \A d \in DOMAIN credentials :
             \/ credentials'[d] = credentials[d]
             \/ /\ credentials[d].status = "active" /\ credentials'[d].status = "revoked"
                /\ credentials'[d].installation = credentials[d].installation
                /\ credentials'[d].version = credentials[d].version
    BY <2>1, <2>2 DEF CredentialRow
  <2> QED
    BY <2>3, EndingChains
<1> QED
  BY <1>2, <1>3, <1>4, RotateChains, RegisterChains DEF AccessNext, Performed

(* The credentials of an installation form one chain whose last alone may be *)
(* active, whatever rotations were lost or overtook each other (rotate).     *)
THEOREM ChainHolds == AccessSpec => []CredentialsChain
<1>1. AccessInit => ChainOK
  BY DEF AccessInit, ChainOK, CredentialsChain, Empty
<1>2. AccessInv /\ ChainOK /\ [AccessNext]_accessVars => ChainOK'
  BY ChainStep
<1>3. ChainOK => CredentialsChain
  BY DEF ChainOK
<1> QED
  BY <1>1, <1>2, <1>3, Invariance, PTL DEF AccessSpec

(* A challenge that is not consumed made no installation.                    *)
KeysOK ==
    /\ KeysRegisterOnce /\ DOMAIN installations \subseteq Installations
    /\ \A h \in DOMAIN challenges :
          /\ challenges[h].consumed = -1 => challenges[h].installation = 0
          /\ challenges[h].installation \in {0} \cup DOMAIN installations

(* A registration consumes an open challenge for a key no installation has.  *)
LEMMA RegisterKeys ==
    ASSUME AccessInv, KeysOK, NEW r \in inFlight, CompleteRegistration(r)
    PROVE  KeysOK'
<1>1. PICK h, i, at :
        /\ h \in DOMAIN challenges /\ at = r.at /\ at \in Nat
        /\ challenges[h].consumed = -1 /\ at < challenges[h].expires /\ KeyFree(challenges[h].key)
        /\ i \in Installations /\ i \notin DOMAIN installations
        /\ installations' = Insert(installations, i, Installation(challenges[h].key))
        /\ challenges' = [challenges EXCEPT ![h].consumed = at, ![h].installation = i]
  <2>1. r.request.challenge \in DOMAIN challenges /\ r.at \in Nat
    BY DEF CompleteRegistration, AccessInv, References, AccessTypeOK
  <2>2. Fresh(Installations, installations) \in Installations
        /\ Fresh(Installations, installations) \notin DOMAIN installations
    BY FreshIsFree DEF CompleteRegistration
  <2> QED
    BY <2>1, <2>2 DEF CompleteRegistration
<1>2. i # 0
  BY <1>1, AccessAssumption
<1>3. /\ DOMAIN installations' = DOMAIN installations \cup {i}
      /\ installations'[i].key = challenges[h].key
      /\ \A j \in DOMAIN installations : installations'[j] = installations[j]
  <2>1. PICK new : new = Installation(challenges[h].key)
    OBVIOUS
  <2>2. new.key = challenges[h].key
    BY <2>1 DEF Installation
  <2> QED
    BY <1>1, <2>1, <2>2 DEF Insert
<1>4. /\ DOMAIN challenges' = DOMAIN challenges
      /\ challenges'[h].consumed = at /\ challenges'[h].installation = i
      /\ challenges'[h].key = challenges[h].key /\ challenges'[h].expires = challenges[h].expires
      /\ \A g \in DOMAIN challenges : g # h => challenges'[g] = challenges[g]
  <2>1. challenges[h] \in ChallengeRow
    BY <1>1 DEF AccessInv, AccessTypeOK, Typed
  <2> QED
    BY <1>1, <2>1 DEF ChallengeRow
<1>5. challenges[h].installation = 0
  BY <1>1 DEF KeysOK
<1>6. \A j, g \in DOMAIN installations' : installations'[j].key = installations'[g].key => j = g
  BY <1>1, <1>3 DEF KeyFree, KeysOK, KeysRegisterOnce
<1>7. ASSUME NEW j \in DOMAIN installations'
      PROVE  \E g \in DOMAIN challenges' :
               /\ challenges'[g].installation = j /\ challenges'[g].key = installations'[j].key
               /\ challenges'[g].consumed < challenges'[g].expires
  <2>1. CASE j = i
    BY <1>1, <1>3, <1>4, <2>1
  <2>2. CASE j # i
    <3>1. j \in DOMAIN installations
      BY <1>3, <2>2
    <3>2. PICK g \in DOMAIN challenges :
            /\ challenges[g].installation = j /\ challenges[g].key = installations[j].key
            /\ challenges[g].consumed < challenges[g].expires
      BY <3>1 DEF KeysOK, KeysRegisterOnce
    <3>3. j # 0
      BY <3>1, AccessAssumption DEF KeysOK
    <3>4. g # h
      BY <1>5, <3>2, <3>3
    <3> QED
      BY <1>3, <1>4, <3>1, <3>2, <3>4
  <2> QED
    BY <2>1, <2>2
<1>8. \A f, g \in DOMAIN challenges' :
        challenges'[f].installation = challenges'[g].installation =>
          f = g \/ challenges'[f].installation = 0
  BY <1>1, <1>2, <1>4 DEF KeysOK, KeysRegisterOnce
<1>9. \A g \in DOMAIN challenges' :
        /\ challenges'[g].consumed = -1 => challenges'[g].installation = 0
        /\ challenges'[g].installation \in {0} \cup DOMAIN installations'
  <2>1. at # -1
    BY <1>1
  <2> QED
    BY <1>3, <1>4, <2>1 DEF KeysOK
<1>10. DOMAIN installations' \subseteq Installations
  BY <1>1, <1>3 DEF KeysOK
<1> QED
  BY <1>6, <1>7, <1>8, <1>9, <1>10 DEF KeysOK, KeysRegisterOnce

(* Every step keeps keys and challenges apart.                               *)
LEMMA KeysStep == ASSUME AccessInv, KeysOK, [AccessNext]_accessVars PROVE KeysOK'
<1>1. CASE UNCHANGED challenges /\ DOMAIN installations' = DOMAIN installations
             /\ \A i \in DOMAIN installations : installations'[i].key = installations[i].key
  BY <1>1 DEF KeysOK, KeysRegisterOnce
<1>2. CASE \/ UNCHANGED accessVars \/ Tick \/ Arrive
           \/ \E r \in inFlight : Rotate(r) \/ Withdraw(r) \/ Authenticate(r) \/ Refuse(r)
                                    \/ Exchange(r)
  <2>1. UNCHANGED <<challenges, installations>>
    BY <1>2 DEF accessVars, Tick, Arrive, Rotate, Withdraw, Authenticate, Refuse, Exchange, tables
  <2> QED
    BY <1>1, <2>1
<1>3. ASSUME NEW r \in inFlight, RevokeInstallation(r) PROVE KeysOK'
  <2>1. PICK i : /\ UNCHANGED challenges
                 /\ installations' =
                      [installations EXCEPT ![i].status = "revoked", ![i].revision = @ + 1]
    BY <1>3 DEF RevokeInstallation
  <2>2. \A x \in DOMAIN installations : installations[x] \in InstallationRow
    BY DEF AccessInv, AccessTypeOK, Typed
  <2>3. DOMAIN installations' = DOMAIN installations
        /\ \A x \in DOMAIN installations : installations'[x].key = installations[x].key
    BY <2>1, <2>2 DEF InstallationRow
  <2> QED
    BY <1>1, <2>1, <2>3
<1>4. ASSUME NEW key \in Keys, IssueChallenge(key) PROVE KeysOK'
  <2>1. PICK h, row :
          /\ h \notin DOMAIN challenges /\ row = Challenge(key, clock)
          /\ challenges' = Insert(challenges, h, row) /\ UNCHANGED installations
    BY <1>4, FreshIsFree DEF IssueChallenge
  <2>2. row.consumed = -1 /\ row.installation = 0
    BY <2>1 DEF Challenge
  <2>3. /\ DOMAIN challenges' = DOMAIN challenges \cup {h} /\ challenges'[h] = row
        /\ \A g \in DOMAIN challenges : challenges'[g] = challenges[g]
    BY <2>1 DEF Insert
  <2>4. \A f, g \in DOMAIN challenges' :
          challenges'[f].installation = challenges'[g].installation =>
            f = g \/ challenges'[f].installation = 0
    BY <2>2, <2>3 DEF KeysOK, KeysRegisterOnce
  <2>5. \A i \in DOMAIN installations' :
          \E g \in DOMAIN challenges' :
             /\ challenges'[g].installation = i /\ challenges'[g].key = installations'[i].key
             /\ challenges'[g].consumed < challenges'[g].expires
    BY <2>1, <2>3 DEF KeysOK, KeysRegisterOnce
  <2>6. \A g \in DOMAIN challenges' :
          /\ challenges'[g].consumed = -1 => challenges'[g].installation = 0
          /\ challenges'[g].installation \in {0} \cup DOMAIN installations'
    BY <2>1, <2>2, <2>3 DEF KeysOK
  <2> QED
    BY <2>1, <2>4, <2>5, <2>6 DEF KeysOK, KeysRegisterOnce
<1> QED
  BY <1>2, <1>3, <1>4, RegisterKeys DEF AccessNext, Performed

(* A device key and a challenge each make at most one installation, within   *)
(* the life of the challenge (complete_challenge).                           *)
THEOREM KeysHold == AccessSpec => []KeysRegisterOnce
<1>1. AccessInit => KeysOK
  BY DEF AccessInit, KeysOK, KeysRegisterOnce, Empty
<1>2. AccessInv /\ KeysOK /\ [AccessNext]_accessVars => KeysOK'
  BY KeysStep
<1>3. KeysOK => KeysRegisterOnce
  BY DEF KeysOK
<1> QED
  BY <1>1, <1>2, <1>3, Invariance, PTL DEF AccessSpec

------------------------------------------------------------------------------
(* Connections and session reports *)

Phases == {"none", "accepted", "evicting", "check", "receive", "converge", "leaving", "done"}

(* What the registry's names range over.                                     *)
RegistryTypeOK ==
    /\ handler \in [Conns -> [at : Phases, evicts : 0..MaxConnections]]
    /\ serving \in 0..MaxConnections /\ last \in 0..MaxConnections
    /\ opened \in 0..MaxConnections /\ closed \in BOOLEAN

(* A connection not opened yet has no handler, so opening one takes nothing   *)
(* from a registered connection.                                             *)
UnopenedIsNone == \A c \in Conns : c > opened => handler[c].at = "none"

LinkInv == RegistryTypeOK /\ UnopenedIsNone /\ RegistryServes

(* The bound that ranges use.                                               *)
LEMMA BoundsAreNat == MaxConnections \in Nat
  BY ConnectionsAssumption

(* The server starts with nothing registered.                                *)
LEMMA LinkInitHolds == ASSUME LinkInit PROVE LinkInv
<1>1. handler = [c \in Conns |-> [at |-> "none", evicts |-> 0]]
  BY DEF LinkInit
<1>2. RegistryTypeOK
  <2>1. [at |-> "none", evicts |-> 0] \in [at : Phases, evicts : 0..MaxConnections]
    BY BoundsAreNat DEF Phases
  <2>2. handler \in [Conns -> [at : Phases, evicts : 0..MaxConnections]]
    BY <1>1, <2>1
  <2>3. 0 \in 0..MaxConnections
    BY BoundsAreNat
  <2> QED
    BY <2>2, <2>3 DEF LinkInit, RegistryTypeOK
<1>3. UnopenedIsNone
  BY <1>1 DEF UnopenedIsNone
<1>4. RegistryServes
  BY DEF LinkInit, RegistryServes
<1> QED
  BY <1>2, <1>3, <1>4 DEF LinkInv

(* Steps that leave handlers and the registry alone.                         *)
LEMMA LinkQuietHolds == ASSUME LinkInv, UNCHANGED <<registryVars, opened>> PROVE LinkInv'
  BY DEF LinkInv, RegistryTypeOK, UnopenedIsNone, RegistryServes, Registered, registryVars

(* A handler that goes on stays registered, or stays unregistered.           *)
LEMMA MoveHolds ==
    ASSUME LinkInv, NEW c \in Conns, NEW at \in Phases \ {"none"}, Goes(c, at),
           UNCHANGED <<serving, last, closed, opened>>,
           handler[c].at # "none",
           Registered(c) <=> at \in {"evicting", "check", "receive", "converge", "leaving"}
    PROVE  LinkInv'
<1>1. /\ handler' \in [Conns -> [at : Phases, evicts : 0..MaxConnections]]
      /\ handler'[c].at = at
      /\ \A d \in Conns \ {c} : handler'[d] = handler[d]
  BY BoundsAreNat DEF LinkInv, RegistryTypeOK, Goes
<1>2. RegistryTypeOK'
  BY <1>1 DEF LinkInv, RegistryTypeOK
<1>3. UnopenedIsNone'
  BY <1>1 DEF LinkInv, UnopenedIsNone
<1>4. \A d \in Conns : Registered(d)' <=> Registered(d)
  BY <1>1 DEF Registered
<1>5. RegistryServes'
  BY <1>4, BoundsAreNat DEF LinkInv, RegistryTypeOK, RegistryServes, Conns
<1> QED
  BY <1>2, <1>3, <1>5 DEF LinkInv

(* A return puts the handler where its cleanup is due, or out.               *)
LEMMA ReturnHolds ==
    ASSUME LinkInv, NEW c \in Conns, NEW code, Return(c, code), handler[c].at # "none"
    PROVE  LinkInv'
<1>1. UNCHANGED <<serving, last, closed, opened>>
  BY DEF Return, executorVars
<1>2. CASE Registered(c)
  <2>1. Goes(c, "leaving")
    BY <1>2 DEF Return
  <2> QED
    BY <1>1, <1>2, <2>1, MoveHolds DEF Phases
<1>3. CASE ~Registered(c)
  <2>1. Goes(c, "done")
    BY <1>3 DEF Return
  <2> QED
    BY <1>1, <1>3, <2>1, MoveHolds DEF Phases
<1> QED
  BY <1>2, <1>3

(* A connection opened gets a handler that has not registered.               *)
LEMMA ConnectHolds == ASSUME LinkInv, Connect PROVE LinkInv'
<1> DEFINE n == opened + 1
<1>1. n \in Conns /\ handler[n].at = "none" /\ opened' = n
  BY BoundsAreNat DEF LinkInv, RegistryTypeOK, UnopenedIsNone, Connect, Conns
<1>2. /\ handler' \in [Conns -> [at : Phases, evicts : 0..MaxConnections]]
      /\ handler'[n].at = "accepted"
      /\ \A d \in Conns \ {n} : handler'[d] = handler[d]
  BY <1>1, BoundsAreNat DEF LinkInv, RegistryTypeOK, Connect, Phases
<1>3. UNCHANGED <<serving, last, closed>>
  BY DEF Connect
<1>4. RegistryTypeOK'
  BY <1>1, <1>2, <1>3 DEF LinkInv, RegistryTypeOK, Conns
<1>5. UnopenedIsNone'
  BY <1>1, <1>2, BoundsAreNat DEF LinkInv, UnopenedIsNone, RegistryTypeOK, Conns
<1>6. \A d \in Conns : Registered(d)' <=> Registered(d)
  BY <1>1, <1>2 DEF Registered
<1>7. RegistryServes'
  BY <1>3, <1>6, BoundsAreNat DEF LinkInv, RegistryTypeOK, RegistryServes, Conns
<1> QED
  BY <1>4, <1>5, <1>7 DEF LinkInv

(* register: the new connection is both the last one and the serving one.    *)
LEMMA LinkRegisterHolds == ASSUME LinkInv, NEW c \in Conns, Register(c) PROVE LinkInv'
<1>1. UNCHANGED <<closed, opened>> /\ serving' = c /\ last' = c
  BY DEF Register, executorVars
<1>2. /\ handler' \in [Conns -> [at : Phases, evicts : 0..MaxConnections]]
      /\ handler'[c].at \in {"check", "evicting"}
      /\ \A d \in Conns \ {c} : handler'[d] = handler[d]
  BY BoundsAreNat DEF LinkInv, RegistryTypeOK, Register, Phases
<1>3. RegistryTypeOK'
  BY <1>1, <1>2, BoundsAreNat DEF LinkInv, RegistryTypeOK, Conns
<1>4. UnopenedIsNone'
  BY <1>1, <1>2 DEF LinkInv, UnopenedIsNone, Register
<1>5. RegistryServes'
  BY <1>1, <1>2 DEF RegistryServes, Registered
<1> QED
  BY <1>3, <1>4, <1>5 DEF LinkInv

(* unregister: a handler that leaves frees the registry only if it is the    *)
(* one registered; afterwards it counts no more.                             *)
LEMMA LeaveHolds == ASSUME LinkInv, NEW c \in Conns, Leave(c) PROVE LinkInv'
<1>1. UNCHANGED <<last, closed, opened>> /\ serving' = IF serving = c THEN 0 ELSE serving
  BY DEF Leave, AfterUnregister, executorVars
<1>2. /\ handler' \in [Conns -> [at : Phases, evicts : 0..MaxConnections]]
      /\ handler'[c].at = "done"
      /\ \A d \in Conns \ {c} : handler'[d] = handler[d]
  BY BoundsAreNat DEF LinkInv, RegistryTypeOK, Leave, Goes, Phases
<1>3. RegistryTypeOK'
  BY <1>1, <1>2, BoundsAreNat DEF LinkInv, RegistryTypeOK
<1>4. UnopenedIsNone'
  BY <1>1, <1>2 DEF LinkInv, UnopenedIsNone, Leave
<1>5. ~Registered(c)' /\ \A d \in Conns \ {c} : Registered(d)' <=> Registered(d)
  BY <1>2 DEF Registered
<1>6. RegistryServes'
  BY <1>1, <1>5, BoundsAreNat DEF LinkInv, RegistryTypeOK, RegistryServes, Conns
<1> QED
  BY <1>3, <1>4, <1>6 DEF LinkInv

(* The end of the server's process leaves no handler.                        *)
LEMMA RestartHolds == ASSUME LinkInv, Restart PROVE LinkInv'
<1>1. UNCHANGED opened /\ serving' = 0 /\ last' = 0 /\ closed' = FALSE
  BY DEF Restart
<1>2. handler' = [c \in Conns |-> [at |-> IF c <= opened THEN "done" ELSE "none", evicts |-> 0]]
  BY DEF Restart
<1>3. RegistryTypeOK'
  <2>1. \A at \in {"done", "none"} :
            [at |-> at, evicts |-> 0] \in [at : Phases, evicts : 0..MaxConnections]
    BY BoundsAreNat DEF Phases
  <2>2. handler' \in [Conns -> [at : Phases, evicts : 0..MaxConnections]]
    BY <1>2, <2>1
  <2>3. 0 \in 0..MaxConnections
    BY BoundsAreNat
  <2> QED
    BY <1>1, <2>2, <2>3 DEF LinkInv, RegistryTypeOK
<1>4. UnopenedIsNone'
  BY <1>1, <1>2, BoundsAreNat DEF LinkInv, RegistryTypeOK, UnopenedIsNone, Conns
<1>5. RegistryServes'
  BY <1>1 DEF RegistryServes
<1> QED
  BY <1>3, <1>4, <1>5 DEF LinkInv

(* shutdown: nothing serves any more.                                        *)
LEMMA ShutdownHolds == ASSUME LinkInv, Shutdown PROVE LinkInv'
<1>1. UNCHANGED <<handler, last, opened>> /\ serving' = 0 /\ closed' = TRUE
  BY DEF Shutdown, executorVars
<1> QED
  BY <1>1, BoundsAreNat DEF LinkInv, RegistryTypeOK, UnopenedIsNone, RegistryServes

(* One case per step of a handler.                                           *)
LEMMA HandlerHolds == ASSUME LinkInv, NEW c \in Conns, HandlerSteps(c) PROVE LinkInv'
<1>1. ASSUME Goes(c, "check"), UNCHANGED <<serving, last, closed, executorVars>>,
             handler[c].at \in {"evicting", "receive", "converge"}
      PROVE  LinkInv'
  BY <1>1, MoveHolds DEF executorVars, Registered, Phases
<1>2. CASE Register(c)
  BY <1>2, LinkRegisterHolds
<1>3. CASE RegisterRefused(c) \/ NoHello(c) \/ HelloTimeout(c)
  BY <1>3, ReturnHolds DEF RegisterRefused, NoHello, HelloTimeout
<1>4. CASE Evict(c)
  BY <1>1, <1>4 DEF Evict
<1>5. CASE Serve(c)
  <2>1. Goes(c, "receive") /\ handler[c].at = "check" /\ UNCHANGED <<serving, last, closed, opened>>
    BY <1>5 DEF Serve, executorVars
  <2> QED
    BY <2>1, MoveHolds DEF Registered, Phases
<1>6. CASE DispatchFails(c) \/ Stale(c)
  BY <1>6, ReturnHolds DEF DispatchFails, Stale
<1>7. CASE ReceiveTimeout(c)
  BY <1>1, <1>7 DEF ReceiveTimeout
<1>8. CASE Disconnected(c)
  BY <1>8, ReturnHolds DEF Disconnected
<1>9. CASE ReceiveBeat(c)
  BY <1>1, <1>9 DEF ReceiveBeat, Receives
<1>10. CASE ReceiveBeatStale(c) \/ RefuseLate(c) \/ RefuseHealth(c)
  BY <1>10, ReturnHolds DEF ReceiveBeatStale, RefuseLate, RefuseHealth, Receives
<1>11. CASE ReceiveHealth(c)
  BY <1>1, <1>11 DEF ReceiveHealth
<1>12. CASE ReadReport(c)
  <2>1. Goes(c, "converge") /\ handler[c].at = "receive" /\ UNCHANGED <<serving, last, closed, opened>>
    BY <1>12 DEF ReadReport, Receives, executorVars
  <2> QED
    BY <2>1, MoveHolds DEF Registered, Phases
<1>13. CASE Leave(c)
  BY <1>13, LeaveHolds
<1> QED
  BY <1>2, <1>3, <1>4, <1>5, <1>6, <1>7, <1>8, <1>9, <1>10, <1>11, <1>12, <1>13 DEF HandlerSteps

(* The executor's steps, the gate and the closes leave the registry alone.   *)
LEMMA LinkNextHolds == ASSUME LinkInv, [LinkNext]_linkVars PROVE LinkInv'
<1>1. CASE ObserveLogin \/ CompleteLogout
  BY <1>1, LinkQuietHolds DEF ObserveLogin, CompleteLogout, Record
<1>2. CASE Connect
  BY <1>2, ConnectHolds
<1>3. CASE Heartbeat \/ SendReport \/ Break \/ SeeClosed \/ Kill
  BY <1>3, LinkQuietHolds DEF Heartbeat, SendReport, Break, SeeClosed, Kill, executorVars
<1>4. CASE \E c \in Conns : HandlerSteps(c)
  BY <1>4, HandlerHolds
<1>5. CASE BeginLogout \/ CloseAll
  BY <1>5, LinkQuietHolds DEF BeginLogout, CloseAll, executorVars
<1>6. CASE Shutdown
  BY <1>6, ShutdownHolds
<1>7. CASE Restart
  BY <1>7, RestartHolds
<1>8. CASE UNCHANGED linkVars
  BY <1>8, LinkQuietHolds DEF linkVars, registryVars
<1> QED
  BY <1>1, <1>2, <1>3, <1>4, <1>5, <1>6, <1>7, <1>8 DEF LinkNext

(* The registry names the connection registered last until its own handler    *)
(* leaves or the registry shuts down, however many connections overlap.      *)
THEOREM RegistryServesLast == LinkSpec => []RegistryServes
<1>1. LinkInit => LinkInv
  BY LinkInitHolds
<1>2. LinkInv /\ [LinkNext]_linkVars => LinkInv'
  BY LinkNextHolds
<1>3. LinkInv => RegistryServes
  BY DEF LinkInv
<1> QED
  BY <1>1, <1>2, <1>3, PTL DEF LinkSpec

-----------------------------------------------------------------------------
(* The reports of the session, in the order in which they were observed.     *)

Report == [kind : {"health"}, state : {"healthy", "missing"}, revision : Nat \ {0}, at : Nat \ {0}]
Frame == Report \cup {Hello, Beat}
HealthRow == [state : {"none", "healthy", "missing"}, revision : Nat, at : Nat]

(* A row may come before another: epochs do not go back, and within one an    *)
(* open circuit stays open.                                                  *)
Before(r, s) ==
    /\ r.revision <= s.revision
    /\ r.revision = s.revision /\ r.state = "missing" => s.state = "missing"
Follows(r, s) == Before(r, s) /\ r.at < s.at
UpTo(r, s) == Before(r, s) /\ r.at <= s.at

SessionTypeOK ==
    /\ wire \in [Conns -> Seq(Frame)] /\ queue \in Seq(Report)
    /\ epoch \in HealthRow /\ health \in HealthRow
    /\ epoch # NoSession => epoch.revision > 0
    /\ opened \in 0..MaxConnections /\ conn \in {0, opened}
    /\ now \in Nat /\ epoch.at <= now
    /\ gate \in [revision : Nat, at : Nat, behind : Int]

OnWire(c, i) == i \in 1..Len(wire[c]) /\ wire[c][i].kind = "health"

(* What is on a connection was observed before what is on a later one, and   *)
(* that before what waits in the outbox.                                     *)
ReportsOrdered ==
    /\ \A c \in Conns : c > opened => wire[c] = <<>>
    /\ \A c \in Conns : \A i, j \in 1..Len(wire[c]) :
          OnWire(c, i) /\ OnWire(c, j) /\ i < j => Follows(wire[c][i], wire[c][j])
    /\ \A c, d \in Conns : \A i \in 1..Len(wire[c]), j \in 1..Len(wire[d]) :
          OnWire(c, i) /\ OnWire(d, j) /\ c < d => Follows(wire[c][i], wire[d][j])
    /\ \A c \in Conns : \A i \in 1..Len(wire[c]), j \in 1..Len(queue) :
          OnWire(c, i) => Follows(wire[c][i], queue[j])
    /\ \A i, j \in 1..Len(queue) : i < j => Follows(queue[i], queue[j])

(* Nothing underway is newer than the executor's own row.                    *)
ReportsBounded ==
    /\ \A c \in Conns : \A i \in 1..Len(wire[c]) : OnWire(c, i) => UpTo(wire[c][i], epoch)
    /\ \A j \in 1..Len(queue) : UpTo(queue[j], epoch)

(* The server's row is not newer either, and what the executor still sends   *)
(* is newer than that.                                                       *)
HealthOK ==
    /\ UpTo(health, epoch)
    /\ \A j \in 1..Len(queue) : Follows(health, queue[j])
    /\ conn # 0 => \A i \in 1..Len(wire[conn]) : OnWire(conn, i) => Follows(health, wire[conn][i])

(* A report observed before a logout began is of an epoch that the executor  *)
(* had then.                                                                 *)
BeforeGate(r) == r.at <= gate.at => r.revision < gate.revision + gate.behind
GateOK ==
    /\ gate.at <= now
    /\ gate # NoGate =>
          /\ \A c \in Conns : \A i \in 1..Len(wire[c]) : OnWire(c, i) => BeforeGate(wire[c][i])
          /\ \A j \in 1..Len(queue) : BeforeGate(queue[j])

SessionInv == SessionTypeOK /\ ReportsOrdered /\ ReportsBounded /\ HealthOK /\ GateOK

(* A handler that waits for the row has its report still at hand, and read   *)
(* the clock after the row was last written, unless it was passed.           *)
AtHand(c) == wire[c] # <<>> /\ Head(wire[c]).kind = "health"
ReadingOK ==
    /\ updated \in Nat /\ reading \in [Conns -> [received : Nat, passed : BOOLEAN]]
    /\ \A c \in Conns : handler[c].at = "converge" =>
          AtHand(c) /\ (reading[c].passed \/ reading[c].received >= updated)

(* A connection keeps a stretch of its frames.                               *)
Keeps(c) ==
    \E n \in Nat : \A i \in 1..Len(wire'[c]) :
        i + n \in 1..Len(wire[c]) /\ wire'[c][i] = wire[c][i + n]

(* The order of reports is transitive.                                      *)
LEMMA Later ==
    ASSUME NEW r, NEW e, NEW s, r.revision \in Int, e.revision \in Int, s.revision \in Int,
           Before(r, e), Before(e, s)
    PROVE  Before(r, s)
BY DEF Before

(* What stands on a wire at a report's place is a report.                   *)
LEMMA OnWireIsReport ==
    ASSUME SessionTypeOK, NEW c \in Conns, NEW i, OnWire(c, i)
    PROVE  wire[c][i] \in Report
<1>1. wire[c] \in Seq(Frame) /\ i \in 1..Len(wire[c])
  BY DEF SessionTypeOK, OnWire
<1>2. wire[c][i] \in Frame /\ wire[c][i].kind = "health"
  BY <1>1 DEF OnWire
<1> QED
  BY <1>2 DEF Frame, Hello, Beat

(* Nothing has been reported at the start.                                  *)
LEMMA SessionInit == LinkInit => SessionInv
<1> SUFFICES ASSUME LinkInit PROVE SessionInv
  OBVIOUS
<1>1. /\ wire \in [Conns -> Seq(Frame)] /\ \A c \in Conns : wire[c] = <<>>
      /\ queue = <<>> /\ queue \in Seq(Report)
  BY DEF LinkInit
<1>2. SessionTypeOK
  BY <1>1, BoundsAreNat DEF LinkInit, SessionTypeOK, HealthRow, NoSession, NoGate
<1>3. ReportsOrdered
  BY <1>1 DEF ReportsOrdered
<1>4. ReportsBounded /\ HealthOK
  <2>1. \A c \in Conns : Len(wire[c]) = 0
    BY <1>1
  <2>2. Len(queue) = 0
    BY <1>1
  <2>3. UpTo(health, epoch)
    BY DEF LinkInit, NoSession, UpTo, Before
  <2> QED
    BY <2>1, <2>2, <2>3 DEF ReportsBounded, HealthOK, OnWire, LinkInit
<1>5. GateOK
  BY DEF LinkInit, GateOK, NoGate
<1> QED
  BY <1>2, <1>3, <1>4, <1>5 DEF SessionInv

(* Steps that take frames off the wire, or end the connection or the process.*)
LEMMA DropHolds ==
    ASSUME SessionInv, wire' \in [Conns -> Seq(Frame)], \A c \in Conns : Keeps(c),
           queue' \in {queue, <<>>}, conn' \in {conn, 0},
           UNCHANGED <<opened, epoch, now>>,
           health' = health \/ (health' \in HealthRow /\ HealthOK'),
           gate' = gate \/ gate' = NoGate
    PROVE  SessionInv'
<1>0. \A c \in Conns : wire[c] \in Seq(Frame) /\ wire'[c] \in Seq(Frame)
  BY DEF SessionInv, SessionTypeOK
<1>1. SessionTypeOK'
  <2>1. queue' \in Seq(Report)
    <3>1. queue \in Seq(Report) /\ <<>> \in Seq(Report)
      BY DEF SessionInv, SessionTypeOK
    <3> QED
      BY <3>1
  <2>2. gate' \in [revision : Nat, at : Nat, behind : Int]
    BY DEF SessionInv, SessionTypeOK, NoGate
  <2> QED
    BY <2>1, <2>2 DEF SessionInv, SessionTypeOK
<1>2. ASSUME NEW c \in Conns, NEW d \in Conns, c = d \/ c < d,
             NEW i \in 1..Len(wire'[c]), NEW j \in 1..Len(wire'[d]), c = d => i < j,
             OnWire(c, i)', OnWire(d, j)'
      PROVE  Follows(wire[c][i], wire[d][j])'
  <2>1. PICK n \in Nat : \A h \in 1..Len(wire'[c]) :
           h + n \in 1..Len(wire[c]) /\ wire'[c][h] = wire[c][h + n]
    BY DEF Keeps
  <2>2. PICK m \in Nat : \A h \in 1..Len(wire'[d]) :
           h + m \in 1..Len(wire[d]) /\ wire'[d][h] = wire[d][h + m]
    BY DEF Keeps
  <2>3. OnWire(c, i + n) /\ OnWire(d, j + m)
    BY <1>2, <2>1, <2>2 DEF OnWire
  <2>4. CASE c = d
    <3>1. j \in 1..Len(wire'[c]) /\ OnWire(c, j + n) /\ i + n < j + n
      BY <1>0, <1>2, <2>1, <2>4 DEF OnWire
    <3>2. Follows(wire[c][i + n], wire[c][j + n])
      BY <2>1, <2>3, <3>1 DEF SessionInv, ReportsOrdered, OnWire
    <3> QED
      BY <2>1, <2>4, <3>1, <3>2 DEF Follows, Before
  <2>5. CASE c < d
    <3>1. Follows(wire[c][i + n], wire[d][j + m])
      BY <2>1, <2>2, <2>3, <2>5 DEF SessionInv, ReportsOrdered
    <3> QED
      BY <2>1, <2>2, <3>1 DEF Follows, Before
  <2> QED
    BY <1>2, <2>4, <2>5
<1>3. ASSUME NEW c \in Conns, NEW i \in 1..Len(wire'[c]), OnWire(c, i)'
      PROVE  /\ \A j \in 1..Len(queue') : Follows(wire[c][i], queue[j])'
             /\ UpTo(wire[c][i], epoch)'
             /\ gate' # NoGate => BeforeGate(wire[c][i])'
             /\ conn' = c /\ health' = health => Follows(health, wire[c][i])'
  <2>1. PICK n \in Nat : \A h \in 1..Len(wire'[c]) :
           h + n \in 1..Len(wire[c]) /\ wire'[c][h] = wire[c][h + n]
    BY DEF Keeps
  <2>2. OnWire(c, i + n) /\ i + n \in 1..Len(wire[c]) /\ wire'[c][i] = wire[c][i + n]
    BY <1>3, <2>1 DEF OnWire
  <2>3. \A j \in 1..Len(queue') : Follows(wire[c][i], queue[j])'
    <3>1. CASE queue' = queue
      BY <2>2, <3>1 DEF SessionInv, ReportsOrdered, Follows, Before
    <3>2. CASE queue' = <<>>
      BY <3>2
    <3> QED
      BY <3>1, <3>2
  <2>4. UpTo(wire[c][i], epoch)' /\ (gate' # NoGate => BeforeGate(wire[c][i])')
    BY <2>2 DEF SessionInv, ReportsBounded, GateOK, BeforeGate, UpTo, Before
  <2>5. ASSUME conn' = c, health' = health PROVE Follows(health, wire[c][i])'
    <3>1. conn = c /\ conn # 0
      BY <2>5 DEF Conns
    <3> QED
      BY <2>2, <2>5, <3>1 DEF SessionInv, HealthOK, Follows, Before
  <2> QED
    BY <2>3, <2>4, <2>5
<1>4. \A c \in Conns : c > opened' => wire'[c] = <<>>
  <2>1. ASSUME NEW c \in Conns, c > opened PROVE wire'[c] = <<>>
    <3>1. Len(wire[c]) = 0
      BY <2>1 DEF SessionInv, ReportsOrdered
    <3>2. PICK n \in Nat : \A h \in 1..Len(wire'[c]) : h + n \in 1..Len(wire[c])
      BY DEF Keeps
    <3>3. Len(wire'[c]) = 0
      <4>1. Len(wire'[c]) \in Nat
        BY <1>0
      <4>2. 1 \notin 1..Len(wire'[c])
        BY <3>1, <3>2
      <4> QED
        BY <4>1, <4>2
    <3> QED
      BY <1>0, <3>3
  <2> QED
    BY <2>1
<1>5. /\ \A i, j \in 1..Len(queue') : i < j => Follows(queue[i], queue[j])'
      /\ \A j \in 1..Len(queue') : UpTo(queue[j], epoch)'
      /\ health' = health => \A j \in 1..Len(queue') : Follows(health, queue[j])'
      /\ gate' # NoGate => \A j \in 1..Len(queue') : BeforeGate(queue[j])'
  <2>1. CASE queue' = queue
    BY <2>1 DEF SessionInv, ReportsOrdered, ReportsBounded, HealthOK, GateOK, BeforeGate,
       Follows, UpTo, Before
  <2>2. CASE queue' = <<>>
    BY <2>2
  <2> QED
    BY <2>1, <2>2
<1>6. ReportsOrdered'
  <2>1. \A c \in Conns : \A i, j \in 1..Len(wire'[c]) :
           OnWire(c, i)' /\ OnWire(c, j)' /\ i < j => Follows(wire[c][i], wire[c][j])'
    BY <1>2
  <2>2. \A c, d \in Conns : \A i \in 1..Len(wire'[c]), j \in 1..Len(wire'[d]) :
           OnWire(c, i)' /\ OnWire(d, j)' /\ c < d => Follows(wire[c][i], wire[d][j])'
    <3>1. \A c, d \in Conns : c < d => c # d
      BY BoundsAreNat DEF Conns
    <3> QED
      BY <1>2, <3>1
  <2>3. \A c \in Conns : \A i \in 1..Len(wire'[c]), j \in 1..Len(queue') :
           OnWire(c, i)' => Follows(wire[c][i], queue[j])'
    BY <1>3
  <2> QED
    BY <1>4, <1>5, <2>1, <2>2, <2>3 DEF ReportsOrdered
<1>7. ReportsBounded'
  BY <1>3, <1>5 DEF ReportsBounded
<1>9. HealthOK'
  <2>1. conn' # 0 => conn' \in Conns
    BY BoundsAreNat DEF SessionInv, SessionTypeOK, Conns
  <2>2. health' = health => UpTo(health, epoch)'
    BY DEF SessionInv, HealthOK, UpTo, Before
  <2> QED
    BY <1>3, <1>5, <2>1, <2>2 DEF HealthOK
<1>8. GateOK'
  <2>1. gate'.at <= now'
    BY DEF SessionInv, GateOK, SessionTypeOK, NoGate
  <2> QED
    BY <1>3, <1>5, <2>1 DEF GateOK
<1> QED
  BY <1>1, <1>6, <1>7, <1>8, <1>9 DEF SessionInv

(* Keeping everything, the tail, the head or nothing of one connection.      *)
LEMMA Stretch ==
    ASSUME SessionInv, NEW c \in Conns, NEW q \in Seq(Frame), NEW n \in Nat,
           \A i \in 1..Len(q) : i + n \in 1..Len(wire[c]) /\ q[i] = wire[c][i + n],
           wire' = [wire EXCEPT ![c] = q]
    PROVE  wire' \in [Conns -> Seq(Frame)] /\ \A d \in Conns : Keeps(d)
<1>0. wire \in [Conns -> Seq(Frame)] /\ \A d \in Conns : wire[d] \in Seq(Frame)
  BY DEF SessionInv, SessionTypeOK
<1>1. wire' \in [Conns -> Seq(Frame)] /\ wire'[c] = q /\ \A d \in Conns \ {c} : wire'[d] = wire[d]
  BY <1>0
<1>2. Keeps(c)
  BY <1>1 DEF Keeps
<1>3. ASSUME NEW d \in Conns \ {c} PROVE Keeps(d)
  <2>1. \A i \in 1..Len(wire'[d]) : i + 0 \in 1..Len(wire[d]) /\ wire'[d][i] = wire[d][i + 0]
    BY <1>0, <1>1
  <2> QED
    BY <2>1 DEF Keeps
<1> QED
  BY <1>1, <1>2, <1>3

(* A step that sends and reads nothing keeps the reports on the wires.      *)
LEMMA SameWire ==
    ASSUME SessionInv, wire' = wire
    PROVE  wire' \in [Conns -> Seq(Frame)] /\ \A d \in Conns : Keeps(d)
<1>0. wire \in [Conns -> Seq(Frame)] /\ \A d \in Conns : wire[d] \in Seq(Frame)
  BY DEF SessionInv, SessionTypeOK
<1>1. ASSUME NEW d \in Conns
      PROVE  \A i \in 1..Len(wire'[d]) : i + 0 \in 1..Len(wire[d]) /\ wire'[d][i] = wire[d][i + 0]
  BY <1>0
<1> QED
  BY <1>0, <1>1 DEF Keeps

(* Reading a frame takes the oldest report off one wire.                    *)
LEMMA TailOff ==
    ASSUME SessionInv, NEW c \in Conns, wire[c] # <<>>, wire' = [wire EXCEPT ![c] = Tail(@)]
    PROVE  wire' \in [Conns -> Seq(Frame)] /\ \A d \in Conns : Keeps(d)
<1>0. wire[c] \in Seq(Frame)
  BY DEF SessionInv, SessionTypeOK
<1> DEFINE q == Tail(wire[c])
<1>1. q \in Seq(Frame) /\ \A i \in 1..Len(q) : i + 1 \in 1..Len(wire[c]) /\ q[i] = wire[c][i + 1]
  BY <1>0
<1>2. wire' = [wire EXCEPT ![c] = q]
  OBVIOUS
<1> HIDE DEF q
<1> QED
  BY <1>1, <1>2, Stretch

(* A connection that ends loses the reports still on its wire.              *)
LEMMA AllOff ==
    ASSUME SessionInv, NEW c \in Conns, wire' = [wire EXCEPT ![c] = <<>>]
    PROVE  wire' \in [Conns -> Seq(Frame)] /\ \A d \in Conns : Keeps(d)
<1>1. <<>> \in Seq(Frame) /\ \A i \in 1..Len(<<>>) : i + 0 \in 1..Len(wire[c]) /\ <<>>[i] = wire[c][i + 0]
  OBVIOUS
<1> QED
  BY <1>1, Stretch

(* A connection that breaks loses the newest reports on its wire.           *)
LEMMA HeadKept ==
    ASSUME SessionInv, NEW c \in Conns, NEW n \in 0..Len(wire[c]),
           wire' = [wire EXCEPT ![c] = SubSeq(@, 1, n)]
    PROVE  wire' \in [Conns -> Seq(Frame)] /\ \A d \in Conns : Keeps(d)
<1>0. wire[c] \in Seq(Frame)
  BY DEF SessionInv, SessionTypeOK
<1> DEFINE q == SubSeq(wire[c], 1, n)
<1>1. q \in Seq(Frame) /\ Len(q) = n
  BY <1>0
<1>2. \A i \in 1..Len(q) : i + 0 \in 1..Len(wire[c]) /\ q[i] = wire[c][i + 0]
  BY <1>0, <1>1
<1>3. wire' = [wire EXCEPT ![c] = q]
  OBVIOUS
<1> HIDE DEF q
<1> QED
  BY <1>1, <1>2, <1>3, Stretch

(* A new observation is newer than every one before it, and than the gate.   *)
LEMMA RecordKeeps ==
    ASSUME SessionInv, NEW state \in {"healthy", "missing"}, NEW advance \in BOOLEAN,
           Record(state, advance)
    PROVE  SessionInv'
<1> DEFINE r == Health(epoch')
           n == Len(queue)
<1>0. /\ queue \in Seq(Report) /\ n \in Nat /\ now \in Nat /\ epoch \in HealthRow
      /\ health \in HealthRow /\ epoch.at <= now /\ wire \in [Conns -> Seq(Frame)]
  BY DEF SessionInv, SessionTypeOK
<1>1. /\ epoch' = [state |-> state, revision |-> Revision(advance), at |-> now + 1]
      /\ now' = now + 1 /\ queue' = Append(queue, r)
      /\ UNCHANGED <<wire, conn, opened, health, gate>>
      /\ epoch.state = "missing" /\ state = "healthy" => advance
  BY DEF Record, executorVars, registryVars
<1>2. Revision(advance) \in Nat \ {0} /\ epoch.revision \in Nat /\ Before(epoch, epoch')
  <2>1. CASE epoch = NoSession
    BY <1>1, <2>1 DEF Revision, NoSession, Before
  <2>2. CASE epoch # NoSession /\ advance
    BY <1>0, <1>1, <2>2 DEF Revision, HealthRow, Before
  <2>3. CASE epoch # NoSession /\ ~advance
    <3>1. epoch.revision > 0
      BY <2>3 DEF SessionInv, SessionTypeOK
    <3> QED
      BY <1>0, <1>1, <2>3, <3>1 DEF Revision, HealthRow, Before
  <2> QED
    BY <2>1, <2>2, <2>3
<1>3. /\ r \in Report /\ r.at = now + 1 /\ r.revision = epoch'.revision /\ r.state = epoch'.state
      /\ epoch' \in HealthRow /\ epoch'.at = now + 1 /\ epoch'.revision \in Nat
  BY <1>0, <1>1, <1>2 DEF Health, Report, HealthRow
<1> HIDE DEF r
<1>4. ASSUME NEW s, s.revision \in Nat, s.at \in Nat, UpTo(s, epoch)
      PROVE  Follows(s, r) /\ UpTo(s, epoch')
  <2>1. Before(s, epoch')
    BY <1>2, <1>3, <1>4, Later DEF UpTo
  <2> QED
    BY <1>0, <1>1, <1>3, <1>4, <2>1 DEF UpTo, Follows, Before, HealthRow
<1>5. /\ queue' \in Seq(Report) /\ Len(queue') = n + 1 /\ queue'[n + 1] = r
      /\ \A j \in 1..n : queue'[j] = queue[j] /\ queue[j] \in Report
  BY <1>0, <1>1, <1>3
<1> HIDE DEF n
<1>6. \A j \in 1..Len(queue') : j \in 1..n \/ j = n + 1
  BY <1>0, <1>5
<1>7. ASSUME NEW c \in Conns, NEW i, OnWire(c, i)
      PROVE  Follows(wire[c][i], r) /\ UpTo(wire[c][i], epoch')
  <2>1. wire[c][i] \in Report
    BY <1>7, OnWireIsReport DEF SessionInv
  <2> QED
    BY <1>4, <1>7, <2>1 DEF SessionInv, ReportsBounded, OnWire, Report
<1>8. ASSUME NEW j \in 1..n PROVE Follows(queue[j], r) /\ UpTo(queue[j], epoch')
  BY <1>4, <1>5 DEF SessionInv, ReportsBounded, Report, n
<1>9. SessionTypeOK'
  BY <1>0, <1>1, <1>2, <1>3, <1>5 DEF SessionInv, SessionTypeOK
<1>10. ReportsOrdered'
  <2>1. \A c \in Conns : \A i \in 1..Len(wire'[c]), j \in 1..Len(queue') :
           OnWire(c, i)' => Follows(wire[c][i], queue[j])'
    BY <1>1, <1>5, <1>6, <1>7 DEF SessionInv, ReportsOrdered, OnWire, Follows, Before, n
  <2>2. \A i, j \in 1..Len(queue') : i < j => Follows(queue[i], queue[j])'
    BY <1>0, <1>5, <1>6, <1>8 DEF SessionInv, ReportsOrdered, Follows, Before, n
  <2>3. /\ \A c \in Conns : c > opened' => wire'[c] = <<>>
        /\ \A c \in Conns : \A i, j \in 1..Len(wire'[c]) :
              OnWire(c, i)' /\ OnWire(c, j)' /\ i < j => Follows(wire[c][i], wire[c][j])'
        /\ \A c, d \in Conns : \A i \in 1..Len(wire'[c]), j \in 1..Len(wire'[d]) :
              OnWire(c, i)' /\ OnWire(d, j)' /\ c < d => Follows(wire[c][i], wire[d][j])'
    BY <1>1 DEF SessionInv, ReportsOrdered, OnWire, Follows, Before
  <2> QED
    BY <2>1, <2>2, <2>3 DEF ReportsOrdered
<1>11. ReportsBounded'
  <2>1. UpTo(r, epoch')
    BY <1>0, <1>3 DEF UpTo, Before
  <2>2. \A j \in 1..Len(queue') : UpTo(queue[j], epoch)'
    BY <1>1, <1>5, <1>6, <1>8, <2>1 DEF UpTo, Before
  <2>3. \A c \in Conns : \A i \in 1..Len(wire'[c]) : OnWire(c, i)' => UpTo(wire[c][i], epoch)'
    BY <1>1, <1>7 DEF OnWire, UpTo, Before
  <2> QED
    BY <2>2, <2>3 DEF ReportsBounded
<1>13. HealthOK'
  <2>1. UpTo(health, epoch') /\ Follows(health, r)
    BY <1>0, <1>4 DEF SessionInv, HealthOK, HealthRow
  <2>2. \A j \in 1..Len(queue') : Follows(health, queue[j])'
    BY <1>1, <1>5, <1>6, <2>1 DEF SessionInv, HealthOK, Follows, Before, n
  <2>3. conn' # 0 => \A i \in 1..Len(wire[conn])' : OnWire(conn, i)' => Follows(health, wire[conn][i])'
    BY <1>1 DEF SessionInv, HealthOK, OnWire, Follows, Before
  <2> QED
    BY <1>1, <2>1, <2>2, <2>3 DEF HealthOK, UpTo, Before
<1>12. GateOK'
  <2>1. gate.at <= now /\ gate.at \in Nat
    BY DEF SessionInv, GateOK, SessionTypeOK
  <2>2. BeforeGate(r)
    BY <1>0, <1>3, <2>1 DEF BeforeGate
  <2>3. gate # NoGate => \A j \in 1..Len(queue') : BeforeGate(queue[j])'
    BY <1>1, <1>5, <1>6, <2>2 DEF SessionInv, GateOK, BeforeGate, n
  <2>4. gate # NoGate =>
           \A c \in Conns : \A i \in 1..Len(wire'[c]) : OnWire(c, i)' => BeforeGate(wire[c][i])'
    BY <1>1 DEF SessionInv, GateOK, BeforeGate, OnWire
  <2>5. gate'.at <= now' /\ gate' = gate
    BY <1>0, <1>1, <2>1
  <2> QED
    BY <2>3, <2>4, <2>5 DEF GateOK
<1> QED
  BY <1>9, <1>10, <1>11, <1>12, <1>13 DEF SessionInv

(* A frame that is no report joins the connection, maybe a new one.          *)
LEMMA FrameKeeps ==
    ASSUME SessionInv, NEW c \in Conns, NEW f \in {Hello, Beat}, c <= opened', opened' \in Conns,
           opened <= opened', wire' = [wire EXCEPT ![c] = Append(@, f)],
           conn' = c, c # conn => wire[c] = <<>>, c = opened',
           UNCHANGED <<queue, epoch, health, gate, now>>
    PROVE  SessionInv'
<1>0. /\ wire \in [Conns -> Seq(Frame)] /\ wire[c] \in Seq(Frame) /\ f \in Frame /\ f.kind # "health"
      /\ opened \in 0..MaxConnections /\ opened' \in 0..MaxConnections
  BY BoundsAreNat DEF SessionInv, SessionTypeOK, Frame, Hello, Beat, Conns
<1>1. /\ wire' \in [Conns -> Seq(Frame)] /\ wire'[c] = Append(wire[c], f)
      /\ \A d \in Conns \ {c} : wire'[d] = wire[d]
  BY <1>0
<1>2. ASSUME NEW d \in Conns, NEW i \in 1..Len(wire'[d]), OnWire(d, i)'
      PROVE  OnWire(d, i) /\ i \in 1..Len(wire[d]) /\ wire'[d][i] = wire[d][i]
  <2>1. CASE d = c
    <3>1. /\ Len(wire'[c]) = Len(wire[c]) + 1 /\ wire'[c][Len(wire[c]) + 1] = f
          /\ \A h \in 1..Len(wire[c]) : wire'[c][h] = wire[c][h]
      BY <1>0, <1>1
    <3> QED
      BY <1>0, <1>2, <2>1, <3>1 DEF OnWire
  <2>2. CASE d # c
    BY <1>1, <1>2, <2>2 DEF OnWire
  <2> QED
    BY <2>1, <2>2
<1>3. SessionTypeOK'
  BY <1>0, <1>1 DEF SessionInv, SessionTypeOK
<1>4. ReportsOrdered'
  <2>1. \A d \in Conns : d > opened' => wire'[d] = <<>>
    <3>1. \A d \in Conns : d > opened' => d > opened /\ d # c
      BY <1>0, BoundsAreNat DEF Conns
    <3> QED
      BY <1>1, <3>1 DEF SessionInv, ReportsOrdered
  <2>2. /\ \A d \in Conns : \A i, j \in 1..Len(wire'[d]) :
              OnWire(d, i)' /\ OnWire(d, j)' /\ i < j => Follows(wire[d][i], wire[d][j])'
        /\ \A b, d \in Conns : \A i \in 1..Len(wire'[b]), j \in 1..Len(wire'[d]) :
              OnWire(b, i)' /\ OnWire(d, j)' /\ b < d => Follows(wire[b][i], wire[d][j])'
    BY <1>2 DEF SessionInv, ReportsOrdered, Follows, Before
  <2>3. /\ \A d \in Conns : \A i \in 1..Len(wire'[d]), j \in 1..Len(queue') :
              OnWire(d, i)' => Follows(wire[d][i], queue[j])'
        /\ \A i, j \in 1..Len(queue') : i < j => Follows(queue[i], queue[j])'
    BY <1>2 DEF SessionInv, ReportsOrdered, Follows, Before
  <2> QED
    BY <2>1, <2>2, <2>3 DEF ReportsOrdered
<1>5. ReportsBounded'
  BY <1>2 DEF SessionInv, ReportsBounded, UpTo, Before
<1>6. HealthOK'
  <2>1. \A i \in 1..Len(wire'[c]) : OnWire(c, i)' => Follows(health, wire[c][i])'
    <3>1. CASE c = conn
      BY <1>2, <3>1 DEF SessionInv, HealthOK, Follows, Before, Conns
    <3>2. CASE wire[c] = <<>>
      BY <1>2, <3>2
    <3> QED
      BY <3>1, <3>2
  <2> QED
    BY <2>1 DEF SessionInv, HealthOK, Follows, UpTo, Before
<1>7. GateOK'
  <2>1. \A d \in Conns : \A i \in 1..Len(wire'[d]) :
           OnWire(d, i)' /\ gate # NoGate => BeforeGate(wire[d][i])'
    BY <1>2 DEF SessionInv, GateOK, BeforeGate
  <2> QED
    BY <2>1 DEF SessionInv, GateOK, BeforeGate
<1> QED
  BY <1>3, <1>4, <1>5, <1>6, <1>7 DEF SessionInv

(* A new connection begins with its hello and no report.                    *)
LEMMA ConnectKeeps == ASSUME SessionInv, Connect PROVE SessionInv'
<1> DEFINE n == opened + 1
<1>1. n \in Conns /\ n > opened /\ opened' = n /\ conn' = n /\ conn = 0
  BY BoundsAreNat DEF SessionInv, SessionTypeOK, Connect, Conns
<1>2. wire[n] = <<>>
  BY <1>1 DEF SessionInv, ReportsOrdered
<1>3. wire' = [wire EXCEPT ![n] = Append(@, Hello)]
  <2>1. Append(wire[n], Hello) = <<Hello>>
    BY <1>2
  <2> QED
    BY <1>1, <2>1 DEF Connect
<1>4. UNCHANGED <<queue, epoch, health, gate, now>> /\ n <= opened' /\ opened <= opened'
  BY <1>1, BoundsAreNat DEF Connect, sessionVars, SessionInv, SessionTypeOK
<1> HIDE DEF n
<1> QED
  BY <1>1, <1>2, <1>3, <1>4, FrameKeeps

(* A heartbeat reports nothing about a platform session.                    *)
LEMMA HeartbeatKeeps == ASSUME SessionInv, Heartbeat PROVE SessionInv'
<1>1. /\ conn # 0 /\ conn = opened /\ opened' = opened /\ conn' = conn
      /\ wire' = [wire EXCEPT ![conn] = Append(@, Beat)]
      /\ UNCHANGED <<queue, epoch, health, gate, now>>
  BY DEF SessionInv, SessionTypeOK, Heartbeat, Sendable, executorVars, sessionVars
<1>2. conn \in Conns /\ opened <= opened'
  BY <1>1, BoundsAreNat DEF SessionInv, SessionTypeOK, Conns
<1> QED
  BY <1>1, <1>2, FrameKeeps

(* The oldest report of the outbox goes onto the latest connection.          *)
LEMMA SendKeeps == ASSUME SessionInv, SendReport PROVE SessionInv'
<1> DEFINE r == Head(queue)
           n == Len(wire[conn])
<1>0. /\ conn = opened /\ conn \in Conns /\ conn # 0
      /\ wire \in [Conns -> Seq(Frame)] /\ queue \in Seq(Report) /\ queue # <<>>
      /\ UNCHANGED <<conn, opened, epoch, health, gate, now>>
      /\ wire' = [wire EXCEPT ![conn] = Append(@, r)] /\ queue' = Tail(queue)
  BY BoundsAreNat DEF SendReport, Sendable, SessionInv, SessionTypeOK, sessionVars, Conns
<1>1. /\ r \in Report /\ r = queue[1] /\ 1 \in 1..Len(queue)
      /\ queue' \in Seq(Report) /\ \A j \in 1..Len(queue') : j + 1 \in 1..Len(queue) /\ 1 < j + 1 /\ queue'[j] = queue[j + 1]
  BY <1>0
<1> HIDE DEF r
<1>2. /\ wire' \in [Conns -> Seq(Frame)] /\ wire'[conn] = Append(wire[conn], r)
      /\ \A d \in Conns \ {conn} : wire'[d] = wire[d]
      /\ wire[conn] \in Seq(Frame) /\ r \in Frame /\ r.kind = "health" /\ n \in Nat
  BY <1>0, <1>1 DEF Frame, Report
<1>3. /\ Len(wire'[conn]) = n + 1 /\ wire'[conn][n + 1] = r
      /\ \A h \in 1..n : wire'[conn][h] = wire[conn][h]
  BY <1>2
<1>4. ASSUME NEW d \in Conns, NEW i \in 1..Len(wire'[d]), OnWire(d, i)'
      PROVE  \/ OnWire(d, i) /\ i \in 1..Len(wire[d]) /\ wire'[d][i] = wire[d][i]
             \/ d = conn /\ i = n + 1 /\ wire'[d][i] = r
  BY <1>2, <1>3, <1>4 DEF OnWire
<1>5. ASSUME NEW d \in Conns, NEW i \in 1..Len(wire[d]), OnWire(d, i) PROVE Follows(wire[d][i], r)
  BY <1>1, <1>5 DEF SessionInv, ReportsOrdered
<1>6. \A d \in Conns : \A i \in 1..Len(wire[d]) : OnWire(d, i) => d <= conn
  <2>1. ASSUME NEW d \in Conns, d > conn PROVE Len(wire[d]) = 0
    BY <1>0, <2>1 DEF SessionInv, ReportsOrdered
  <2>2. \A d \in Conns : d > conn \/ d <= conn
    BY <1>0, BoundsAreNat DEF Conns
  <2> QED
    BY <2>1, <2>2
<1>7. SessionTypeOK'
  BY <1>0, <1>1, <1>2 DEF SessionInv, SessionTypeOK
<1>8. ReportsOrdered'
  <2>1. \A d \in Conns : d > opened' => wire'[d] = <<>>
    <3>1. \A d \in Conns : d > opened => d # conn
      BY <1>0, BoundsAreNat DEF Conns
    <3> QED
      BY <1>0, <1>2, <3>1 DEF SessionInv, ReportsOrdered
  <2>2. ASSUME NEW d \in Conns, NEW i \in 1..Len(wire'[d]), NEW j \in 1..Len(wire'[d]),
               OnWire(d, i)', OnWire(d, j)', i < j
        PROVE  Follows(wire[d][i], wire[d][j])'
    <3>1. CASE OnWire(d, j) /\ j \in 1..Len(wire[d]) /\ wire'[d][j] = wire[d][j]
      <4>1. i \in 1..Len(wire[d]) /\ ~(d = conn /\ i = n + 1)
        BY <1>0, <1>2, <2>2, <3>1
      <4>2. OnWire(d, i) /\ wire'[d][i] = wire[d][i]
        BY <1>4, <2>2, <4>1
      <4> QED
        BY <2>2, <3>1, <4>1, <4>2 DEF SessionInv, ReportsOrdered, Follows, Before
    <3>2. CASE d = conn /\ j = n + 1 /\ wire'[d][j] = r
      <4>1. i # n + 1
        BY <1>2, <2>2, <3>2
      <4>2. OnWire(d, i) /\ i \in 1..Len(wire[d]) /\ wire'[d][i] = wire[d][i]
        BY <1>4, <2>2, <4>1
      <4> QED
        BY <1>5, <3>2, <4>2 DEF Follows, Before
    <3> QED
      BY <1>4, <2>2, <3>1, <3>2
  <2>3. ASSUME NEW b \in Conns, NEW d \in Conns, b < d,
               NEW i \in 1..Len(wire'[b]), NEW j \in 1..Len(wire'[d]), OnWire(b, i)', OnWire(d, j)'
        PROVE  Follows(wire[b][i], wire[d][j])'
    <3>1. d <= conn
      BY <1>0, <1>4, <1>6, <2>3, BoundsAreNat DEF Conns
    <3>2. b # conn
      BY <1>0, <2>3, <3>1, BoundsAreNat DEF Conns
    <3>3. OnWire(b, i) /\ i \in 1..Len(wire[b]) /\ wire'[b][i] = wire[b][i]
      BY <1>4, <2>3, <3>2
    <3>4. CASE OnWire(d, j) /\ j \in 1..Len(wire[d]) /\ wire'[d][j] = wire[d][j]
      BY <2>3, <3>3, <3>4 DEF SessionInv, ReportsOrdered, Follows, Before
    <3>5. CASE wire'[d][j] = r
      BY <1>5, <3>3, <3>5 DEF Follows, Before
    <3> QED
      BY <1>4, <2>3, <3>4, <3>5
  <2>4. ASSUME NEW d \in Conns, NEW i \in 1..Len(wire'[d]), NEW j \in 1..Len(queue'), OnWire(d, i)'
        PROVE  Follows(wire[d][i], queue[j])'
    <3>1. Follows(r, queue[j + 1])
      BY <1>1 DEF SessionInv, ReportsOrdered
    <3>2. OnWire(d, i) /\ i \in 1..Len(wire[d]) => Follows(wire[d][i], queue[j + 1])
      BY <1>1 DEF SessionInv, ReportsOrdered
    <3> QED
      BY <1>1, <1>4, <2>4, <3>1, <3>2 DEF Follows, Before
  <2>5. ASSUME NEW i \in 1..Len(queue'), NEW j \in 1..Len(queue'), i < j
        PROVE  Follows(queue[i], queue[j])'
    <3>1. i + 1 < j + 1 /\ i + 1 \in 1..Len(queue) /\ j + 1 \in 1..Len(queue)
      BY <1>1, <2>5
    <3>2. Follows(queue[i + 1], queue[j + 1])
      BY <3>1 DEF SessionInv, ReportsOrdered
    <3> QED
      BY <1>1, <3>2 DEF Follows, Before
  <2> QED
    BY <2>1, <2>2, <2>3, <2>4, <2>5 DEF ReportsOrdered
<1>9. ReportsBounded'
  <2>1. UpTo(r, epoch) /\ \A j \in 1..Len(queue') : UpTo(queue[j + 1], epoch)
    BY <1>1 DEF SessionInv, ReportsBounded
  <2>2. \A d \in Conns : \A i \in 1..Len(wire'[d]) : OnWire(d, i)' => UpTo(wire[d][i], epoch)'
    BY <1>0, <1>4, <2>1 DEF SessionInv, ReportsBounded, UpTo, Before
  <2>3. \A j \in 1..Len(queue') : UpTo(queue[j], epoch)'
    BY <1>0, <1>1, <2>1 DEF UpTo, Before
  <2> QED
    BY <2>2, <2>3 DEF ReportsBounded
<1>10. HealthOK'
  <2>1. Follows(health, r) /\ \A j \in 1..Len(queue') : Follows(health, queue[j + 1])
    BY <1>1 DEF SessionInv, HealthOK
  <2>2. \A i \in 1..Len(wire'[conn]) : OnWire(conn, i)' => Follows(health, wire[conn][i])'
    BY <1>0, <1>4, <2>1 DEF SessionInv, HealthOK, Follows, Before
  <2>3. \A j \in 1..Len(queue') : Follows(health, queue[j])'
    BY <1>0, <1>1, <2>1 DEF Follows, Before
  <2>4. UpTo(health, epoch)'
    BY <1>0 DEF SessionInv, HealthOK, UpTo, Before
  <2> QED
    BY <1>0, <2>2, <2>3, <2>4 DEF HealthOK
<1>11. GateOK'
  <2>1. gate # NoGate => BeforeGate(r) /\ \A j \in 1..Len(queue') : BeforeGate(queue[j + 1])
    BY <1>1 DEF SessionInv, GateOK
  <2>2. ASSUME gate # NoGate, NEW d \in Conns, NEW i \in 1..Len(wire'[d]), OnWire(d, i)'
        PROVE  BeforeGate(wire[d][i])'
    <3>1. CASE OnWire(d, i) /\ i \in 1..Len(wire[d]) /\ wire'[d][i] = wire[d][i]
      <4>1. BeforeGate(wire[d][i])
        BY <2>2, <3>1 DEF SessionInv, GateOK
      <4> QED
        BY <1>0, <3>1, <4>1 DEF BeforeGate
    <3>2. CASE wire'[d][i] = r
      BY <1>0, <2>1, <2>2, <3>2 DEF BeforeGate
    <3> QED
      BY <1>4, <2>2, <3>1, <3>2
  <2>3. ASSUME gate # NoGate, NEW j \in 1..Len(queue')
        PROVE  BeforeGate(queue[j])'
    <3>1. queue'[j] = queue[j + 1] /\ BeforeGate(queue[j + 1])
      BY <1>1, <2>1, <2>3
    <3> QED
      BY <1>0, <3>1 DEF BeforeGate
  <2> QED
    BY <1>0, <2>2, <2>3 DEF SessionInv, GateOK
<1> QED
  BY <1>7, <1>8, <1>9, <1>10, <1>11 DEF SessionInv

(* converge: the stored row is the report read, whose successors are newer.  *)
LEMMA StoreKeeps ==
    ASSUME SessionInv, NEW c \in Conns, AtHand(c), ReceiveHealth(c), ~Duplicate(Head(wire[c]))
    PROVE  SessionInv'
<1> DEFINE r == Head(wire[c])
<1>0. /\ wire[c] \in Seq(Frame) /\ wire[c] # <<>> /\ r.kind = "health"
      /\ wire' = [wire EXCEPT ![c] = Tail(@)]
      /\ health' = [state |-> r.state, revision |-> r.revision, at |-> r.at]
      /\ gate' = gate \/ gate' = NoGate
      /\ UNCHANGED <<queue, conn, opened, epoch, now>>
  BY DEF ReceiveHealth, Store, AtHand, executorVars, SessionInv, SessionTypeOK
<1>1. r = wire[c][1] /\ OnWire(c, 1) /\ 1 \in 1..Len(wire[c])
  BY <1>0 DEF OnWire
<1>2. r \in Report
  BY <1>1, OnWireIsReport DEF SessionInv
<1> HIDE DEF r
<1>3. /\ health' \in HealthRow
      /\ health'.state = r.state /\ health'.revision = r.revision /\ health'.at = r.at
  BY <1>0, <1>2 DEF HealthRow, Report
<1>4. /\ wire' \in [Conns -> Seq(Frame)] /\ \A d \in Conns : Keeps(d)
  BY <1>0, TailOff
<1>5. HealthOK'
  <2>1. UpTo(health, epoch)'
    BY <1>0, <1>1, <1>3 DEF SessionInv, ReportsBounded, UpTo, Before
  <2>2. \A j \in 1..Len(queue') : Follows(health, queue[j])'
    BY <1>0, <1>1, <1>3 DEF SessionInv, ReportsOrdered, Follows, Before
  <2>3. ASSUME conn # 0, NEW i \in 1..Len(wire'[conn]), OnWire(conn, i)'
        PROVE  Follows(health, wire[conn][i])'
    <3>1. conn \in Conns /\ conn = opened
      BY <2>3, BoundsAreNat DEF SessionInv, SessionTypeOK, Conns
    <3>2. wire[conn] \in Seq(Frame) /\ wire \in [Conns -> Seq(Frame)]
      BY <3>1 DEF SessionInv, SessionTypeOK
    <3>3. CASE c = conn
      <4>1. i + 1 \in 1..Len(wire[conn]) /\ wire'[conn][i] = wire[conn][i + 1] /\ 1 < i + 1
        BY <1>0, <2>3, <3>1, <3>2, <3>3
      <4>2. OnWire(conn, i + 1)
        BY <1>0, <2>3, <4>1 DEF OnWire
      <4>3. Follows(r, wire[conn][i + 1])
        BY <1>1, <3>1, <3>3, <4>1, <4>2 DEF SessionInv, ReportsOrdered
      <4> QED
        BY <1>0, <1>3, <4>1, <4>3 DEF Follows, Before
    <3>4. CASE c # conn
      <4>1. c < conn
        <5>1. ~(c > opened)
          BY <1>0 DEF SessionInv, ReportsOrdered
        <5> QED
          BY <3>1, <3>4, <5>1, BoundsAreNat DEF Conns
      <4>2. OnWire(conn, i) /\ i \in 1..Len(wire[conn]) /\ wire'[conn][i] = wire[conn][i]
        BY <1>0, <2>3, <3>1, <3>2, <3>4 DEF OnWire
      <4>3. Follows(r, wire[conn][i])
        BY <1>1, <3>1, <4>1, <4>2 DEF SessionInv, ReportsOrdered
      <4> QED
        BY <1>0, <1>3, <4>2, <4>3 DEF Follows, Before
    <3> QED
      BY <3>3, <3>4
  <2> QED
    BY <1>0, <2>1, <2>2, <2>3 DEF HealthOK
<1> QED
  BY <1>0, <1>3, <1>4, <1>5, DropHolds

(* A report already stored leaves the row as it is.                          *)
LEMMA ReceiveKeeps ==
    ASSUME SessionInv, NEW c \in Conns, AtHand(c), ReceiveHealth(c)
    PROVE  SessionInv'
<1>1. CASE Duplicate(Head(wire[c]))
  <2>1. /\ wire[c] # <<>> /\ wire' = [wire EXCEPT ![c] = Tail(@)]
        /\ UNCHANGED <<queue, conn, opened, epoch, health, now>> /\ gate' \in {gate, NoGate}
    BY <1>1 DEF ReceiveHealth, AtHand, executorVars
  <2> QED
    BY <2>1, TailOff, DropHolds
<1>2. CASE ~Duplicate(Head(wire[c]))
  BY <1>2, StoreKeeps
<1> QED
  BY <1>1, <1>2

(* A logout begins: every report underway is of an epoch the executor had.   *)
LEMMA BeginKeeps == ASSUME SessionInv, BeginLogout PROVE SessionInv'
<1>0. /\ UNCHANGED <<wire, queue, conn, opened, epoch, health, now>>
      /\ gate' = IF gate = NoGate THEN NewGate ELSE gate
  BY DEF BeginLogout, executorVars
<1>1. /\ epoch \in HealthRow /\ health \in HealthRow /\ now \in Nat
      /\ UpTo(health, epoch)
  BY DEF SessionInv, SessionTypeOK, HealthOK
<1>2. CASE gate # NoGate
  <2>1. gate' = gate
    BY <1>0, <1>2
  <2>2. wire' \in [Conns -> Seq(Frame)] /\ \A c \in Conns : Keeps(c)
    BY <1>0, SameWire
  <2> QED
    BY <1>0, <2>1, <2>2, DropHolds
<1>3. CASE gate = NoGate
  <2>1. gate' = [revision |-> health.revision + 1, at |-> now,
                 behind |-> epoch.revision - health.revision]
    BY <1>0, <1>3 DEF NewGate, GateRevision
  <2>2. /\ gate' \in [revision : Nat, at : Nat, behind : Int] /\ gate'.at <= now'
        /\ gate'.revision + gate'.behind = epoch.revision + 1
        /\ epoch.revision \in Nat
    BY <1>0, <1>1, <2>1 DEF HealthRow
  <2>3. ASSUME NEW r \in Report, UpTo(r, epoch) PROVE BeforeGate(r)'
    BY <2>2, <2>3 DEF BeforeGate, UpTo, Before, Report
  <2>4. SessionTypeOK'
    BY <1>0, <2>2 DEF SessionInv, SessionTypeOK
  <2>5. ReportsOrdered'
    BY <1>0 DEF SessionInv, ReportsOrdered, OnWire, Follows, Before
  <2>6. ReportsBounded'
    BY <1>0 DEF SessionInv, ReportsBounded, OnWire, UpTo, Before
  <2>7. HealthOK'
    BY <1>0 DEF SessionInv, HealthOK, OnWire, Follows, UpTo, Before
  <2>8. \A c \in Conns : \A i \in 1..Len(wire'[c]) : OnWire(c, i)' => BeforeGate(wire[c][i])'
    <3>1. ASSUME NEW c \in Conns, NEW i \in 1..Len(wire[c]), OnWire(c, i) PROVE BeforeGate(wire[c][i])'
      <4>1. wire[c][i] \in Report /\ UpTo(wire[c][i], epoch)
        BY <3>1, OnWireIsReport DEF SessionInv, ReportsBounded
      <4>2. wire'[c][i] = wire[c][i]
        BY <1>0
      <4> QED
        BY <2>3, <4>1, <4>2 DEF BeforeGate
    <3> QED
      BY <1>0, <3>1 DEF OnWire
  <2>9. \A j \in 1..Len(queue') : BeforeGate(queue[j])'
    <3>1. ASSUME NEW j \in 1..Len(queue) PROVE BeforeGate(queue[j])'
      <4>1. queue[j] \in Report /\ UpTo(queue[j], epoch)
        BY DEF SessionInv, SessionTypeOK, ReportsBounded
      <4>2. queue'[j] = queue[j]
        BY <1>0
      <4> QED
        BY <2>3, <4>1, <4>2 DEF BeforeGate
    <3> QED
      BY <1>0, <3>1
  <2>10. GateOK'
    BY <2>2, <2>8, <2>9 DEF GateOK
  <2> QED
    BY <2>4, <2>5, <2>6, <2>7, <2>10 DEF SessionInv
<1> QED
  BY <1>2, <1>3

(* A handler's steps other than the reception of a report.                   *)
LEMMA ReturnKeeps == ASSUME SessionInv, NEW c \in Conns, NEW code, Return(c, code) PROVE SessionInv'
<1>1. /\ wire' = [wire EXCEPT ![c] = <<>>]
      /\ UNCHANGED <<queue, conn, opened, epoch, health, gate, now>>
  BY DEF Return, executorVars, sessionVars
<1> QED
  BY <1>1, AllOff, DropHolds

(* What the Control Plane's handler takes from a wire is newer than its     *)
(* row.                                                                     *)
LEMMA HandlerKeeps ==
    ASSUME SessionInv, ReadingOK, NEW c \in Conns, HandlerSteps(c)
    PROVE  SessionInv'
<1>1. ASSUME wire' = wire, UNCHANGED <<executorVars, health, gate, now>> PROVE SessionInv'
  BY <1>1, SameWire, DropHolds DEF executorVars
<1>2. ASSUME wire[c] # <<>>, wire' = [wire EXCEPT ![c] = Tail(@)],
             UNCHANGED <<executorVars, sessionVars, now>>
      PROVE  SessionInv'
  BY <1>2, TailOff, DropHolds DEF executorVars, sessionVars
<1>3. CASE Register(c) \/ ReceiveBeat(c)
  BY <1>2, <1>3 DEF Register, ReceiveBeat, Receives
<1>4. CASE Evict(c) \/ Serve(c) \/ ReceiveTimeout(c) \/ Leave(c) \/ ReadReport(c)
  BY <1>1, <1>4 DEF Evict, Serve, ReceiveTimeout, Leave, ReadReport, sessionVars
<1>5. CASE \/ RegisterRefused(c) \/ NoHello(c) \/ HelloTimeout(c) \/ DispatchFails(c) \/ Stale(c)
           \/ Disconnected(c) \/ ReceiveBeatStale(c) \/ RefuseLate(c) \/ RefuseHealth(c)
  BY <1>5, ReturnKeeps DEF RegisterRefused, NoHello, HelloTimeout, DispatchFails, Stale,
     Disconnected, ReceiveBeatStale, RefuseLate, RefuseHealth
<1>6. CASE ReceiveHealth(c)
  BY <1>6, ReceiveKeeps DEF ReadingOK, ReceiveHealth
<1> QED
  BY <1>3, <1>4, <1>5, <1>6 DEF HandlerSteps

(* Every step keeps the order of the session reports.                       *)
LEMMA SessionNext == ASSUME SessionInv, ReadingOK, [LinkNext]_linkVars PROVE SessionInv'
<1>1. ASSUME wire' = wire, UNCHANGED <<opened, epoch, sessionVars, now>>,
             queue' \in {queue, <<>>}, conn' \in {conn, 0}
      PROVE  SessionInv'
  BY <1>1, SameWire, DropHolds DEF sessionVars
<1>2. CASE ObserveLogin \/ CompleteLogout
  BY <1>2, RecordKeeps DEF ObserveLogin, CompleteLogout
<1>3. CASE Connect \/ Heartbeat \/ SendReport
  BY <1>3, ConnectKeeps, HeartbeatKeeps, SendKeeps
<1>4. CASE Break
  <2>1. /\ conn \in Conns
        /\ UNCHANGED <<opened, epoch, health, gate, now>> /\ queue' = queue /\ conn' = 0
    BY <1>4, BoundsAreNat DEF Break, Leaves, Kept, sessionVars, SessionInv, SessionTypeOK, Conns
  <2>2. PICK n \in 0..Len(wire[conn]) : wire' = [wire EXCEPT ![conn] = SubSeq(@, 1, n)]
    <3>1. 1..Len(wire[conn]) \subseteq 0..Len(wire[conn])
      BY <2>1 DEF SessionInv, SessionTypeOK
    <3> QED
      BY <1>4, <3>1 DEF Break
  <2> QED
    BY <2>1, <2>2, HeadKept, DropHolds
<1>5. CASE SeeClosed \/ Kill
  BY <1>1, <1>5 DEF SeeClosed, Kill, Leaves, Ends
<1>6. CASE \E c \in Conns : HandlerSteps(c)
  BY <1>6, HandlerKeeps
<1>7. CASE BeginLogout
  BY <1>7, BeginKeeps
<1>8. CASE Shutdown \/ CloseAll
  BY <1>1, <1>8 DEF Shutdown, CloseAll, executorVars
<1>9. CASE Restart
  <2>1. /\ UNCHANGED <<opened, queue, epoch, health, gate, now>> /\ conn' = 0
        /\ wire' = [c \in Conns |-> <<>>]
    BY <1>9 DEF Restart, sessionVars
  <2>2. wire' \in [Conns -> Seq(Frame)]
    <3>1. <<>> \in Seq(Frame)
      OBVIOUS
    <3> QED
      BY <2>1, <3>1
  <2>3. ASSUME NEW c \in Conns PROVE Keeps(c)
    <3>1. wire'[c] = <<>> /\ 0 \in Nat
      BY <2>1
    <3>2. \A i \in 1..Len(wire'[c]) : FALSE
      BY <3>1
    <3> QED
      BY <3>1, <3>2 DEF Keeps
  <2> QED
    BY <2>1, <2>2, <2>3, DropHolds
<1>10. CASE UNCHANGED linkVars
  BY <1>1, <1>10 DEF linkVars, sessionVars
<1> QED
  BY <1>2, <1>3, <1>4, <1>5, <1>6, <1>7, <1>8, <1>9, <1>10 DEF LinkNext

(* Handlers that go on waiting keep their report and their reading, or are   *)
(* passed.                                                                   *)
LEMMA WaitsOn ==
    ASSUME ReadingOK, updated' \in Nat,
           reading' \in [Conns -> [received : Nat, passed : BOOLEAN]],
           \A c \in Conns : handler'[c].at = "converge" =>
               /\ handler[c].at = "converge"
               /\ wire[c] # <<>> => wire'[c] # <<>> /\ Head(wire'[c]) = Head(wire[c])
               /\ reading'[c].passed \/ (reading'[c] = reading[c] /\ updated' = updated)
    PROVE  ReadingOK'
BY DEF ReadingOK, AtHand

(* A handler that goes elsewhere, and what it takes from its own wire, leave  *)
(* the others waiting as they were.                                          *)
LEMMA GoesOn ==
    ASSUME LinkInv, ReadingOK, NEW c \in Conns, NEW at \in Phases \ {"converge"}, Goes(c, at),
           \A d \in Conns \ {c} : wire'[d] = wire[d],
           UNCHANGED updated, reading' \in {reading, [reading EXCEPT ![c] = NoReading]}
    PROVE  ReadingOK'
<1>1. handler'[c].at = at /\ \A d \in Conns \ {c} : handler'[d] = handler[d]
  BY DEF LinkInv, RegistryTypeOK, Goes
<1>2. /\ reading' \in [Conns -> [received : Nat, passed : BOOLEAN]] /\ updated' \in Nat
      /\ \A d \in Conns \ {c} : reading'[d] = reading[d]
  <2>1. NoReading \in [received : Nat, passed : BOOLEAN]
    BY DEF NoReading
  <2>2. reading \in [Conns -> [received : Nat, passed : BOOLEAN]] /\ updated \in Nat
    BY DEF ReadingOK
  <2>3. CASE reading' = reading
    BY <2>2, <2>3
  <2>4. CASE reading' = [reading EXCEPT ![c] = NoReading]
    BY <2>1, <2>2, <2>4
  <2> QED
    BY <2>3, <2>4
<1> QED
  BY <1>1, <1>2, WaitsOn

(* A step of others that lengthens a wire, or loses what is not at hand.     *)
LEMMA NotAtHand ==
    ASSUME ReadingOK, UNCHANGED <<handler, reading, updated>>,
           \A c \in Conns : handler[c].at = "converge" /\ wire[c] # <<>> =>
               wire'[c] # <<>> /\ Head(wire'[c]) = Head(wire[c])
    PROVE  ReadingOK'
<1>1. reading' \in [Conns -> [received : Nat, passed : BOOLEAN]] /\ updated' \in Nat
  BY DEF ReadingOK
<1> QED
  BY <1>1, WaitsOn

(* The steps of a handler: it reads the clock after the row was written, and *)
(* whoever it overtakes at the row is passed.                                *)
LEMMA HandlerReads ==
    ASSUME LinkInv, SessionInv, ReadingOK, NEW c \in Conns, HandlerSteps(c)
    PROVE  ReadingOK'
<1>0. wire \in [Conns -> Seq(Frame)]
  BY DEF SessionInv, SessionTypeOK
<1>1. ASSUME NEW code, Return(c, code) PROVE ReadingOK'
  <2>1. PICK at \in {"leaving", "done"} : Goes(c, at)
    BY <1>1 DEF Return
  <2>2. \A d \in Conns \ {c} : wire'[d] = wire[d]
    BY <1>0, <1>1 DEF Return
  <2> QED
    BY <1>1, <2>1, <2>2, GoesOn DEF Return, Phases
<1>2. ASSUME NEW at \in {"check", "receive", "done"}, Goes(c, at), UNCHANGED sessionVars,
             wire' \in {wire, [wire EXCEPT ![c] = Tail(@)]}
      PROVE  ReadingOK'
  <2>1. \A d \in Conns \ {c} : wire'[d] = wire[d]
    BY <1>0, <1>2
  <2> QED
    BY <1>2, <2>1, GoesOn DEF Phases, sessionVars
<1>3. CASE Register(c)
  <2>1. /\ UNCHANGED <<reading, updated>> /\ \A d \in Conns \ {c} : wire'[d] = wire[d]
        /\ handler'[c].at \in {"check", "evicting"}
        /\ \A d \in Conns \ {c} : handler'[d] = handler[d]
    BY <1>0, <1>3 DEF Register, sessionVars, LinkInv, RegistryTypeOK
  <2>2. reading' \in [Conns -> [received : Nat, passed : BOOLEAN]] /\ updated' \in Nat
    BY <2>1 DEF ReadingOK
  <2> QED
    BY <2>1, <2>2, WaitsOn
<1>4. CASE Evict(c) \/ Serve(c) \/ ReceiveTimeout(c) \/ ReceiveBeat(c) \/ Leave(c)
  BY <1>2, <1>4 DEF Evict, Serve, ReceiveTimeout, ReceiveBeat, Leave
<1>5. CASE \/ RegisterRefused(c) \/ NoHello(c) \/ HelloTimeout(c) \/ DispatchFails(c) \/ Stale(c)
           \/ Disconnected(c) \/ ReceiveBeatStale(c) \/ RefuseLate(c) \/ RefuseHealth(c)
  BY <1>1, <1>5 DEF RegisterRefused, NoHello, HelloTimeout, DispatchFails, Stale,
     Disconnected, ReceiveBeatStale, RefuseLate, RefuseHealth
<1>6. CASE ReadReport(c)
  <2>1. PICK t \in Readings : reading' = [reading EXCEPT ![c] = [received |-> t, passed |-> FALSE]]
    BY <1>6 DEF ReadReport
  <2>2. t \in Nat /\ t >= updated
    BY <2>1 DEF Readings, AtRow, ReadingOK
  <2>3. /\ AtHand(c) /\ wire' = wire /\ updated' = updated
        /\ \A d \in Conns \ {c} : handler'[d] = handler[d] /\ reading'[d] = reading[d]
        /\ reading' \in [Conns -> [received : Nat, passed : BOOLEAN]]
        /\ reading'[c] = [received |-> t, passed |-> FALSE]
    BY <1>6, <2>1, <2>2 DEF ReadReport, Receives, AtHand, Goes, ReadingOK, LinkInv, RegistryTypeOK
  <2>4. ASSUME NEW d \in Conns, handler'[d].at = "converge"
        PROVE  AtHand(d)' /\ (reading'[d].passed \/ reading'[d].received >= updated')
    <3>1. CASE d = c
      BY <2>2, <2>3, <3>1 DEF AtHand
    <3>2. CASE d # c
      <4>1. handler[d].at = "converge" /\ reading'[d] = reading[d]
        BY <2>3, <2>4, <3>2
      <4> QED
        BY <2>3, <4>1 DEF ReadingOK, AtHand
    <3> QED
      BY <3>1, <3>2
  <2>5. updated' \in Nat
    BY <2>3 DEF ReadingOK
  <2> QED
    BY <2>3, <2>4, <2>5 DEF ReadingOK
<1>7. CASE ReceiveHealth(c)
  <2>1. Goes(c, "check") /\ \A d \in Conns \ {c} : wire'[d] = wire[d]
    BY <1>0, <1>7 DEF ReceiveHealth
  <2>2. CASE Duplicate(Head(wire[c]))
    BY <1>7, <2>1, <2>2, GoesOn DEF ReceiveHealth, Phases
  <2>3. CASE ~Duplicate(Head(wire[c]))
    <3>1. Store(c, Head(wire[c]))
      BY <1>7, <2>3 DEF ReceiveHealth
    <3>2. handler'[c].at = "check" /\ \A d \in Conns \ {c} : handler'[d] = handler[d]
      BY <2>1 DEF Goes, LinkInv, RegistryTypeOK
    <3>3. \A d \in Conns \ {c} : handler[d].at = "converge" => reading'[d].passed
      BY <3>1 DEF Store, AtRow, ReadingOK
    <3>4. reading' \in [Conns -> [received : Nat, passed : BOOLEAN]] /\ updated' \in Nat
      BY <3>1 DEF Store, NoReading, ReadingOK
    <3> QED
      BY <2>1, <3>2, <3>3, <3>4, WaitsOn
  <2> QED
    BY <2>2, <2>3
<1> QED
  BY <1>3, <1>4, <1>5, <1>6, <1>7 DEF HandlerSteps

(* Every step keeps the readings.                                            *)
LEMMA ReadingNext == ASSUME LinkInv, SessionInv, ReadingOK, [LinkNext]_linkVars PROVE ReadingOK'
<1>0. wire \in [Conns -> Seq(Frame)] /\ \A c \in Conns : wire[c] \in Seq(Frame)
  BY DEF SessionInv, SessionTypeOK
<1>1. ASSUME UNCHANGED <<handler, wire, reading, updated>> PROVE ReadingOK'
  BY <1>1, NotAtHand
<1>2. ASSUME NEW f \in Frame, conn # 0, wire' = [wire EXCEPT ![conn] = Append(@, f)],
             UNCHANGED <<handler, reading, updated>>
      PROVE  ReadingOK'
  <2>1. \A c \in Conns : wire'[c] \in {wire[c], Append(wire[c], f)}
    BY <1>0, <1>2
  <2>2. \A c \in Conns : wire[c] # <<>> => wire'[c] # <<>> /\ Head(wire'[c]) = Head(wire[c])
    BY <1>0, <1>2, <2>1
  <2> QED
    BY <1>2, <2>2, NotAtHand
<1>3. CASE ObserveLogin \/ CompleteLogout
  BY <1>1, <1>3 DEF ObserveLogin, CompleteLogout, Record, registryVars
<1>4. CASE Connect
  <2> DEFINE n == opened'
  <2>1. /\ handler' = [handler EXCEPT ![n] = [at |-> "accepted", evicts |-> 0]]
        /\ wire' = [wire EXCEPT ![n] = <<Hello>>] /\ UNCHANGED <<reading, updated>>
    BY <1>4 DEF Connect, sessionVars
  <2>2. /\ \A c \in Conns \ {n} : handler'[c] = handler[c] /\ wire'[c] = wire[c]
        /\ n \in Conns => handler'[n].at = "accepted"
    BY <1>0, <2>1 DEF LinkInv, RegistryTypeOK
  <2>3. reading' \in [Conns -> [received : Nat, passed : BOOLEAN]] /\ updated' \in Nat
    BY <2>1 DEF ReadingOK
  <2>4. ASSUME NEW c \in Conns, handler'[c].at = "converge" PROVE c # n
    BY <2>2, <2>4
  <2> QED
    BY <2>1, <2>2, <2>3, <2>4, WaitsOn
<1>5. CASE Heartbeat
  BY <1>2, <1>5 DEF Heartbeat, Sendable, Frame, registryVars, sessionVars
<1>6. CASE SendReport
  <2>1. Head(queue) \in Frame
    BY <1>6 DEF SendReport, SessionInv, SessionTypeOK, Frame
  <2> QED
    BY <1>2, <1>6, <2>1 DEF SendReport, Sendable, registryVars, sessionVars
<1>7. CASE Break
  <2>1. PICK n \in (IF handler[conn].at = "converge" THEN 1 ELSE 0)..Len(wire[conn]) :
           wire' = [wire EXCEPT ![conn] = SubSeq(@, 1, n)]
    BY <1>7 DEF Break
  <2>2. ASSUME NEW c \in Conns, handler[c].at = "converge", wire[c] # <<>>
        PROVE  wire'[c] # <<>> /\ Head(wire'[c]) = Head(wire[c])
    <3>1. CASE c = conn
      <4> DEFINE q == SubSeq(wire[c], 1, n)
      <4>1. n \in 1..Len(wire[c]) /\ wire'[c] = q
        BY <1>0, <2>1, <2>2, <3>1
      <4>2. Len(q) = n /\ q[1] = wire[c][1] /\ q \in Seq(Frame)
        BY <1>0, <4>1
      <4> HIDE DEF q
      <4>3. q # <<>> /\ Head(q) = q[1] /\ Head(wire[c]) = wire[c][1]
        BY <1>0, <2>2, <4>1, <4>2
      <4> QED
        BY <4>1, <4>2, <4>3
    <3>2. CASE c # conn
      BY <1>0, <2>1, <2>2, <3>2
    <3> QED
      BY <3>1, <3>2
  <2>3. UNCHANGED <<handler, reading, updated>>
    BY <1>7 DEF Break, registryVars, sessionVars
  <2> QED
    BY <2>2, <2>3, NotAtHand
<1>8. CASE SeeClosed \/ Kill \/ BeginLogout \/ Shutdown \/ CloseAll
  BY <1>1, <1>8 DEF SeeClosed, Kill, BeginLogout, Shutdown, CloseAll, registryVars, sessionVars
<1>9. CASE \E c \in Conns : HandlerSteps(c)
  BY <1>9, HandlerReads
<1>10. CASE Restart
  <2>1. /\ updated' = updated /\ reading' = [c \in Conns |-> NoReading]
        /\ \A c \in Conns : handler'[c].at # "converge"
    BY <1>10 DEF Restart
  <2>2. reading' \in [Conns -> [received : Nat, passed : BOOLEAN]] /\ updated' \in Nat
    BY <2>1 DEF ReadingOK, NoReading
  <2> QED
    BY <2>1, <2>2, WaitsOn
<1>11. CASE UNCHANGED linkVars
  BY <1>1, <1>11 DEF linkVars
<1> QED
  BY <1>3, <1>4, <1>5, <1>6, <1>7, <1>8, <1>9, <1>10, <1>11 DEF LinkNext

(* Session reports are read in the order they were observed, across         *)
(* connections replaced while their handlers still run                      *)
(* (ExecutorSessionHealthReport), each after the clock was read for it.      *)
THEOREM SessionReports == LinkSpec => [](SessionInv /\ ReadingOK)
<1>1. LinkInit => LinkInv /\ SessionInv /\ ReadingOK
  <2>1. ASSUME LinkInit PROVE ReadingOK
    BY <2>1 DEF LinkInit, ReadingOK, NoReading
  <2> QED
    BY <2>1, LinkInitHolds, SessionInit
<1>2. LinkInv /\ SessionInv /\ ReadingOK /\ [LinkNext]_linkVars
         => LinkInv' /\ SessionInv' /\ ReadingOK'
  BY LinkNextHolds, SessionNext, ReadingNext
<1> QED
  BY <1>1, <1>2, PTL DEF LinkSpec

(* Whatever was kept, lost or left on an old connection, converge takes what *)
(* the executor sends on its own one, unless another handler stored a report *)
(* after this one read the clock.                                            *)
THEOREM FreshTaken == LinkSpec => []FreshReportsAreTaken
<1>1. SessionInv /\ ReadingOK => FreshReportsAreTaken
  <2> DEFINE RefusedOnlyIfPassed(c) ==
          LET refusal == Refusal(Head(wire[c]), reading[c].received)
          IN \/ refusal = "none"
             \/ refusal = "received_before_last_update" /\ reading[c].passed
  <2> SUFFICES ASSUME SessionInv, ReadingOK, NEW c \in Conns, c = conn, handler[c].at = "converge"
               PROVE  RefusedOnlyIfPassed(c)
    BY DEF FreshReportsAreTaken
  <2> DEFINE r == Head(wire[c])
             t == reading[c].received
  <2>1. wire[c] \in Seq(Frame) /\ wire[c] # <<>> /\ r.kind = "health" /\ c # 0
    BY DEF ReadingOK, AtHand, SessionInv, SessionTypeOK, Conns
  <2>2. r = wire[c][1] /\ OnWire(c, 1) /\ 1 \in 1..Len(wire[c])
    BY <2>1 DEF OnWire
  <2>3. r \in Report /\ Follows(health, r)
    BY <2>1, <2>2, OnWireIsReport DEF SessionInv, HealthOK
  <2>4. health \in HealthRow
    BY DEF SessionInv, SessionTypeOK
  <2>5. updated \in Nat /\ t \in Nat /\ (reading[c].passed \/ ~(t < updated))
    BY DEF ReadingOK
  <2> HIDE DEF r, t
  <2>6. Refusal(r, t) = IF health # NoSession /\ t < updated
                          THEN "received_before_last_update" ELSE "none"
    <3>1. /\ ~(r.revision < health.revision)
          /\ ~(r.revision = health.revision /\ r.at < health.at)
          /\ ~Duplicate(r)
          /\ ~(r.revision = health.revision /\ health.state = "missing" /\ r.state = "healthy")
          /\ ~(r.revision > health.revision /\ r.at <= health.at)
      BY <2>3, <2>4 DEF Duplicate, Follows, Before, Report, HealthRow
    <3> QED
      BY <3>1 DEF Refusal
  <2> QED
    BY <2>5, <2>6 DEF r, t
<1> QED
  BY <1>1, SessionReports, PTL

(* A logout's gate opens by a login seen after it, unless the server was     *)
(* more than an epoch behind.                                                *)
THEOREM GateByLogin == LinkSpec => GateOpensByLogin
<1>1. ASSUME SessionInv, ReadingOK, [LinkNext]_linkVars, gate # NoGate, gate' = NoGate,
             gate.behind <= 1
      PROVE  health'.state = "healthy" /\ health'.at > gate.at
  <2>1. \E c \in Conns : ReceiveHealth(c)
    BY <1>1 DEF LinkNext, ObserveLogin, CompleteLogout, Record, Connect, Heartbeat, SendReport,
       Break, SeeClosed, Kill, BeginLogout, Shutdown, CloseAll, Restart, sessionVars, linkVars,
       HandlerSteps, Register, RegisterRefused, NoHello, HelloTimeout, Evict, Serve,
       DispatchFails, Stale, ReceiveTimeout, Disconnected, ReceiveBeat, ReceiveBeatStale,
       ReadReport, RefuseLate, RefuseHealth, Leave, Return
  <2>2. PICK c \in Conns : ReceiveHealth(c)
    BY <2>1
  <2> DEFINE r == Head(wire[c])
  <2>3. /\ wire[c] \in Seq(Frame) /\ wire[c] # <<>> /\ r.kind = "health" /\ Opens(r)
        /\ health' = [state |-> r.state, revision |-> r.revision, at |-> r.at]
    BY <1>1, <2>2 DEF ReceiveHealth, Store, Opens, ReadingOK, AtHand, SessionInv, SessionTypeOK
  <2>4. r = wire[c][1] /\ OnWire(c, 1) /\ 1 \in 1..Len(wire[c])
    BY <2>3 DEF OnWire
  <2>5. r \in Report /\ BeforeGate(r)
    BY <1>1, <2>4, OnWireIsReport DEF SessionInv, GateOK
  <2>6. gate \in [revision : Nat, at : Nat, behind : Int]
    BY <1>1 DEF SessionInv, SessionTypeOK
  <2> HIDE DEF r
  <2>7. r.state = "healthy" /\ r.revision > gate.revision
    BY <2>3 DEF Opens
  <2>8. ~(r.at <= gate.at)
    BY <1>1, <2>5, <2>6, <2>7 DEF BeforeGate, Report
  <2> QED
    BY <2>3, <2>5, <2>6, <2>7, <2>8 DEF Report
<1> QED
  BY <1>1, SessionReports, PTL DEF LinkSpec, GateOpensByLogin

------------------------------------------------------------------------------
(* Skill replay *)

Waiting == {"admit", "existing"}
Preparing == {"browser", "navigate", "entry", "admit_again", "prepare", "route"}
Replaying == {"step", "dispatch", "act", "raised", "post", "evidence"}
ReplayPhases == {"idle", "verify"} \cup Waiting \cup Preparing \cup Replaying

Tallies == [wins : Nat, losses : Nat, hit : Nat]
Versions == {<<r.skill.id, r.skill.version>> : r \in registry}

TypeOK ==
    /\ pc \in ReplayPhases /\ registry \in Loads
    /\ stats \in [clock : Nat, of : [Versions -> Tallies]]
    /\ {seen, posted, toast, dispatched} \subseteq BOOLEAN
    /\ touched \in Nat /\ resume \in Nat

(* A run's answer and handback are its last step's.                          *)
RunAnswered == pc # "idle" => reply = None /\ handback = None

(* An effect that may have been performed stops the run before the browser.  *)
HistoryOK ==
    /\ pc \in Waiting => /\ seen => ~MayPerform(effect)
                         /\ effect = "verified" => seen
    /\ pc \in Preparing \cup Replaying \cup {"verify"} => ~seen

(* Until a skill is replayed nothing is done outside.                        *)
Untouched == touched = 0 /\ ~dispatched
PreparingOK ==
    /\ pc \in Waiting \cup Preparing => Untouched /\ goal \in {"browse", kind}
    /\ pc \in Preparing => MayPerform(effect)

(* The external steps that were acted on: those before the present step, and *)
(* the present one when it is past its act.                                  *)
Attempted == {i \in Externals(Skill) : i < k \/ (i = k /\ pc \in {"raised", "post", "evidence"})}
Permitted == Attempted \cup (IF pc = "act" THEN Externals(Skill) \cap {k} ELSE {})

ReplayOK ==
    pc \in Replaying =>
        /\ Loadable(registry) /\ Skill \in SkillsOf(goal) /\ goal \in {"browse", kind}
        /\ k \in DOMAIN Skill.steps /\ resume <= k
        /\ 1..(k - 1) \subseteq done
        /\ pc = "dispatch" => Step.external
        /\ dispatched <=> Permitted # {}
        /\ touched <= 1 /\ (touched = 1 <=> Attempted # {})
        /\ ~dispatched => MayPerform(effect)
        /\ pc = "evidence" => k = Len(Skill.steps)
        /\ \A i \in Externals(Skill) :
               (i < k \/ pc = "evidence") /\ Confirmation \in Skill.steps[i].post => posted

VerifyOK == pc = "verify" => touched = 1 /\ posted

(* The page says it was done only when the platform took it.                 *)
ToastIsTrue == toast => posted

IInv ==
    /\ TypeOK /\ RunAnswered /\ HistoryOK /\ PreparingOK /\ ReplayOK /\ VerifyOK /\ ToastIsTrue
    /\ ResultIsTrue /\ HandbackResumesSafely /\ NeverTwice

-----------------------------------------------------------------------------
(* Routing ends at one of the skill's versions. *)

(* A finite set that is not empty has an element no other is before, in any   *)
(* order that is total and transitive.                                       *)
LEMMA Greatest ==
    ASSUME NEW S, IsFiniteSet(S), S # {}, NEW R,
           \A x, y \in S : <<x, y>> \in R \/ <<y, x>> \in R,
           \A x, y, z \in S : <<x, y>> \in R /\ <<y, z>> \in R => <<x, z>> \in R
    PROVE  \E m \in S : \A x \in S : <<m, x>> \in R
<1> DEFINE Tops(T) == {m \in T : \A x \in T : <<m, x>> \in R}
           Bad == {T \in SUBSET S : T # {} /\ Tops(T) = {}}
<1>1. SUFFICES ASSUME Bad # {} PROVE FALSE
  <2>1. Bad = {} => S \notin Bad
    OBVIOUS
  <2> QED
    BY <2>1
<1>2. PICK T \in Bad : \A U \in Bad : <<U, T>> \notin StrictSubsetOrdering(S)
  <2>1. Bad \subseteq FiniteSubsetsOf(S)
    BY FS_FiniteSubsetsOfFinite
  <2> HIDE DEF Bad
  <2> QED
    BY <1>1, <2>1, FS_StrictSubsetOrderingWellFounded, WFMin
<1>3. PICK x \in T : TRUE
  OBVIOUS
<1>4. T \ {x} \notin Bad
  <2>1. <<T \ {x}, T>> \in StrictSubsetOrdering(S)
    BY <1>3 DEF StrictSubsetOrdering
  <2> QED
    BY <1>2, <2>1
<1>5. T \in SUBSET S /\ Tops(T) = {}
  OBVIOUS
<1>6. CASE T \ {x} = {}
  <2>1. x \in Tops(T)
    BY <1>3, <1>5, <1>6
  <2> QED
    BY <1>5, <2>1
<1>7. CASE T \ {x} # {}
  <2>1. PICK m \in T \ {x} : \A y \in T \ {x} : <<m, y>> \in R
    BY <1>4, <1>5, <1>7
  <2>2. m \in Tops(T) \/ x \in Tops(T)
    BY <1>3, <1>5, <2>1
  <2> QED
    BY <1>5, <2>2
<1> QED
  BY <1>6, <1>7

(* Comparing fractions by cross multiplication is transitive.                *)
LEMMA FractionsAreOrdered ==
    ASSUME NEW a \in Nat, NEW b \in Nat \ {0}, NEW c \in Nat, NEW d \in Nat \ {0},
           NEW e \in Nat, NEW f \in Nat \ {0}, a * d >= c * b, c * f >= e * d
    PROVE  /\ a * f >= e * b
           /\ a * f = e * b => a * d = c * b /\ c * f = e * d
<1>1. \A x, y \in Nat, z \in Nat \ {0} : /\ x >= y => x * z >= y * z
                                         /\ x > y <=> x * z > y * z
  OBVIOUS
<1>2. /\ (a * d) * f = (a * f) * d
      /\ (c * b) * f = (c * f) * b
      /\ (e * d) * b = (e * b) * d
  OBVIOUS
<1>3. /\ {a * d, c * b, c * f, e * d, a * f, e * b} \subseteq Nat
  OBVIOUS
<1>4. (a * d) * f >= (c * b) * f /\ (c * f) * b >= (e * d) * b
  BY <1>1, <1>3
<1>5. (a * f) * d >= (e * b) * d
  <2> DEFINE p == (a * f) * d   q == (c * b) * f   r == (e * b) * d
  <2>1. {p, q, r} \subseteq Nat /\ p >= q /\ q >= r
    BY <1>2, <1>3, <1>4
  <2> HIDE DEF p, q, r
  <2>2. p >= r
    BY <2>1
  <2> QED
    BY <2>2 DEF p, r
<1>6. a * f >= e * b
  BY <1>1, <1>3, <1>5
<1>7. ASSUME a * f = e * b PROVE a * d = c * b /\ c * f = e * d
  <2>1. (a * d) * f = (c * b) * f /\ (c * f) * b = (e * d) * b
    <3> DEFINE p == (a * f) * d   q == (c * b) * f   r == (e * b) * d
    <3>1. {p, q, r} \subseteq Nat /\ p >= q /\ q >= r /\ p = r
      BY <1>2, <1>3, <1>4, <1>7
    <3> HIDE DEF p, q, r
    <3>2. p = q /\ q = r
      BY <3>1
    <3> QED
      BY <1>2, <3>2 DEF p, q, r
  <2>2. ~(a * d > c * b) /\ ~(c * f > e * d)
    BY <1>1, <1>3, <2>1
  <2> QED
    BY <1>3, <2>2
<1> QED
  BY <1>6, <1>7

(* What versions are compared by.                                            *)
LEMMA RatesAreFractions ==
    ASSUME NEW r \in Tallies
    PROVE  /\ Class(r) \in 0..2
           /\ RateOf(r)[1] \in Nat /\ RateOf(r)[2] \in Nat \ {0}
<1>1. r.wins \in Nat /\ r.losses \in Nat
  BY DEF Tallies
<1>2. Class(r) \in 0..2 /\ (Class(r) = 2 => r.wins + r.losses # 0)
  BY <1>1 DEF Class, Observed
<1> QED
  BY <1>1, <1>2 DEF RateOf

(* Of two versions one outranks the other, and what outranks a version        *)
(* outranks what that one does.                                              *)
LEMMA RankingIsAnOrder ==
    ASSUME NEW id, NEW u \in Nat, NEW v \in Nat, NEW w \in Nat,
           \A x \in {u, v, w} : RecordOf(id, x) \in Tallies
    PROVE  /\ Outranks(id, u, v) \/ Outranks(id, v, u)
           /\ Outranks(id, u, v) /\ Outranks(id, v, w) => Outranks(id, u, w)
<1> DEFINE Key(x) == RecordOf(id, x)
           C(x) == Class(Key(x))   N(x) == RateOf(Key(x))[1]   D(x) == RateOf(Key(x))[2]
           H(x) == Key(x).hit
<1>1. ASSUME NEW x \in {u, v, w}
      PROVE  C(x) \in Nat /\ N(x) \in Nat /\ D(x) \in Nat \ {0} /\ H(x) \in Nat
  BY <1>1, RatesAreFractions DEF Tallies
<1>2. ASSUME NEW x \in {u, v, w}, NEW y \in {u, v, w}
      PROVE  Outranks(id, x, y) <=>
                \/ C(x) > C(y)
                \/ /\ C(x) = C(y)
                   /\ \/ N(x) * D(y) > N(y) * D(x)
                      \/ /\ N(x) * D(y) = N(y) * D(x)
                         /\ H(x) > H(y) \/ (H(x) = H(y) /\ x >= y)
  BY DEF Outranks
<1>3. ASSUME NEW x \in {u, v, w}, NEW y \in {u, v, w}
      PROVE  N(x) * D(y) \in Nat
  BY <1>1
<1>4. N(u) * D(v) >= N(v) * D(u) /\ N(v) * D(w) >= N(w) * D(v) =>
        /\ N(u) * D(w) >= N(w) * D(u)
        /\ N(u) * D(w) = N(w) * D(u) => N(u) * D(v) = N(v) * D(u) /\ N(v) * D(w) = N(w) * D(v)
  BY <1>1, FractionsAreOrdered
<1>5. N(u) * D(v) = N(v) * D(u) /\ N(v) * D(w) = N(w) * D(v) => N(u) * D(w) = N(w) * D(u)
  <2> SUFFICES ASSUME N(u) * D(v) = N(v) * D(u), N(v) * D(w) = N(w) * D(v)
               PROVE  N(u) * D(w) = N(w) * D(u)
    OBVIOUS
  <2>1. N(u) * D(w) >= N(w) * D(u)
    BY <1>3, <1>4
  <2>2. N(w) * D(u) >= N(u) * D(w)
    <3>1. N(w) * D(v) >= N(v) * D(w) /\ N(v) * D(u) >= N(u) * D(v)
      BY <1>3
    <3> QED
      BY <1>1, <3>1, FractionsAreOrdered
  <2> QED
    BY <1>3, <2>1, <2>2
<1>6. /\ {C(u), C(v), C(w), H(u), H(v), H(w)} \subseteq Nat
      /\ {N(u) * D(v), N(v) * D(u), N(v) * D(w), N(w) * D(v), N(u) * D(w), N(w) * D(u)} \subseteq Nat
  BY <1>1, <1>3
<1> HIDE DEF Key, C, N, D, H
<1>7. Outranks(id, u, v) \/ Outranks(id, v, u)
  BY <1>2, <1>6
<1>8. ASSUME Outranks(id, u, v), Outranks(id, v, w) PROVE Outranks(id, u, w)
  <2>1. C(u) >= C(v) /\ C(v) >= C(w)
    BY <1>2, <1>6, <1>8
  <2>2. CASE C(u) > C(w)
    BY <1>2, <2>2
  <2>3. CASE C(u) = C(w)
    <3>1. C(u) = C(v) /\ C(v) = C(w)
      BY <1>6, <2>1, <2>3
    <3>2. N(u) * D(v) >= N(v) * D(u) /\ N(v) * D(w) >= N(w) * D(v)
      BY <1>2, <1>6, <1>8, <3>1
    <3>3. CASE N(u) * D(w) > N(w) * D(u)
      BY <1>2, <2>3, <3>3
    <3>4. CASE N(u) * D(w) = N(w) * D(u)
      <4>1. N(u) * D(v) = N(v) * D(u) /\ N(v) * D(w) = N(w) * D(v)
        BY <1>4, <3>2, <3>4
      <4>2. /\ H(u) > H(v) \/ (H(u) = H(v) /\ u >= v)
            /\ H(v) > H(w) \/ (H(v) = H(w) /\ v >= w)
        BY <1>2, <1>6, <1>8, <3>1, <4>1
      <4>3. H(u) > H(w) \/ (H(u) = H(w) /\ u >= w)
        BY <1>6, <4>2
      <4> QED
        BY <1>2, <2>3, <3>4, <4>3
    <3> QED
      BY <1>4, <1>6, <3>2, <3>3, <3>4
  <2> QED
    BY <1>6, <2>1, <2>2, <2>3
<1> QED
  BY <1>7, <1>8

(* A loadable directory's skills are bounded, and numbered by versions.      *)
LEMMA LoadedSkills ==
    ASSUME registry \in Loads, Loadable(registry), NEW id, NEW skill \in SkillsOf(id)
    PROVE  /\ skill.id = id /\ skill.version \in Nat /\ <<id, skill.version>> \in Versions
           /\ skill.steps # << >> /\ Len(skill.steps) \in Nat
           /\ DOMAIN skill.steps = 1..Len(skill.steps)
           /\ \A i, j \in Externals(skill) : i = j
           /\ id = "browse" => Externals(skill) = {}
           /\ \A i \in Externals(skill) : Confirmation \in skill.steps[i].post \cup skill.evidence
<1>1. PICK r \in registry : r.skill = skill /\ r.skill.id = id
  BY DEF SkillsOf
<1>2. Parses(skill)
  BY <1>1 DEF Loadable, Verifies
<1>3. /\ skill.steps \in Seq({skill.steps[i] : i \in DOMAIN skill.steps})
      /\ id = "browse" => Externals(skill) = {}
      /\ \A i \in Externals(skill) : Confirmation \in skill.steps[i].post \cup skill.evidence
  BY <1>1, SeedsAssumption
<1>4. Len(skill.steps) \in Nat /\ DOMAIN skill.steps = 1..Len(skill.steps)
  BY <1>3
<1>5. ASSUME NEW i \in Externals(skill), NEW j \in Externals(skill) PROVE i = j
  <2>1. IsFiniteSet(Externals(skill))
    <3>1. IsFiniteSet(1..Len(skill.steps))
      BY <1>4, FS_Interval
    <3> QED
      BY <3>1, FS_Subset DEF Externals
  <2>2. Cardinality(Externals(skill)) <= 1
    BY <1>2, <2>1, FS_CardinalityType DEF Parses, MaxExternalSteps
  <2>3. /\ IsFiniteSet(Externals(skill) \ {i})
        /\ Cardinality(Externals(skill) \ {i}) = Cardinality(Externals(skill)) - 1
    BY <2>1, FS_RemoveElement
  <2>4. Cardinality(Externals(skill) \ {i}) = 0
    BY <2>1, <2>2, <2>3, FS_CardinalityType
  <2>5. Externals(skill) \ {i} = {}
    BY <2>3, <2>4, FS_EmptySet
  <2> QED
    BY <2>5
<1> QED
  BY <1>1, <1>2, <1>3, <1>4, <1>5 DEF Parses, Versions

(* A skill that is loaded is routed to one of its versions.                  *)
LEMMA RouteIsAVersion ==
    ASSUME TypeOK, Loadable(registry), NEW id, SkillsOf(id) # {}
    PROVE  SkillAt(id, Route(id)) \in SkillsOf(id)
<1> DEFINE All == {s.version : s \in SkillsOf(id)}
           Newer == {p \in Nat \X Nat : p[1] >= p[2]}
           Better == {p \in Nat \X Nat : Outranks(id, p[1], p[2])}
<1>1. IsFiniteSet(SkillsOf(id))
  <2>1. IsFiniteSet(registry)
    BY SeedsAssumption DEF TypeOK
  <2> DEFINE S == {r \in registry : r.skill.id = id}
             f == [r \in S |-> r.skill]
  <2>2. IsFiniteSet(S)
    BY <2>1, FS_Subset
  <2>3. f \in Surjection(S, SkillsOf(id))
    BY DEF Surjection, SkillsOf
  <2> HIDE DEF S, f
  <2> QED
    BY <2>2, <2>3, FS_Surjection
<1>2. /\ IsFiniteSet(All) /\ All # {} /\ All \subseteq Nat
      /\ \A v \in All : RecordOf(id, v) \in Tallies
  <2>1. ASSUME NEW v \in All PROVE v \in Nat /\ <<id, v>> \in Versions
    <3>1. PICK s \in SkillsOf(id) : s.version = v
      BY <2>1
    <3>2. registry \in Loads
      BY DEF TypeOK
    <3> QED
      BY <3>1, <3>2, LoadedSkills
  <2>2. IsFiniteSet(All)
    <3> DEFINE f == [s \in SkillsOf(id) |-> s.version]
    <3>1. f \in Surjection(SkillsOf(id), All)
      BY DEF Surjection
    <3> HIDE DEF f, All
    <3> QED
      BY <1>1, <3>1, FS_Surjection
  <2>3. \A v \in All : RecordOf(id, v) \in Tallies
    BY <2>1 DEF TypeOK, RecordOf
  <2> QED
    BY <2>1, <2>2, <2>3
<1>3. Max(All) \in All
  <2>1. PICK m \in All : \A x \in All : <<m, x>> \in Newer
    <3>1. \A x, y \in All : <<x, y>> \in Newer \/ <<y, x>> \in Newer
      BY <1>2
    <3>2. \A x, y, z \in All : <<x, y>> \in Newer /\ <<y, z>> \in Newer => <<x, z>> \in Newer
      BY <1>2
    <3> HIDE DEF All, Newer
    <3> QED
      BY <1>2, <3>1, <3>2, Greatest
  <2>2. \A x \in All : m >= x
    BY <1>2, <2>1
  <2> HIDE DEF All
  <2> QED
    BY <2>2 DEF Max
<1>4. Eligible(id) # {} /\ Eligible(id) \subseteq All /\ IsFiniteSet(Eligible(id))
  <2>1. SkillAt(id, Max(All)) \in SkillsOf(id)
    BY <1>3 DEF SkillAt
  <2>2. Eligible(id) = {s.version : s \in {t \in SkillsOf(id) : t.context = SkillAt(id, Max(All)).context}}
    BY DEF Eligible
  <2> HIDE DEF All
  <2>3. Eligible(id) # {}
    BY <2>1, <2>2
  <2>4. Eligible(id) \subseteq All
    BY <2>2 DEF All
  <2> QED
    BY <1>2, <2>3, <2>4, FS_Subset
<1>5. PICK m \in Eligible(id) : \A x \in Eligible(id) : <<m, x>> \in Better
  <2>1. \A x, y \in Eligible(id) : <<x, y>> \in Better \/ <<y, x>> \in Better
    BY <1>2, <1>4, RankingIsAnOrder
  <2>2. \A x, y, z \in Eligible(id) : <<x, y>> \in Better /\ <<y, z>> \in Better => <<x, z>> \in Better
    BY <1>2, <1>4, RankingIsAnOrder
  <2> HIDE DEF Better
  <2> QED
    BY <1>4, <2>1, <2>2, Greatest
<1>6. Route(id) \in Eligible(id)
  <2>1. \A x \in Eligible(id) : Outranks(id, m, x)
    BY <1>5
  <2> QED
    BY <2>1 DEF Route
<1>7. PICK s \in SkillsOf(id) : s.version = Route(id)
  BY <1>4, <1>6
<1> QED
  BY <1>7 DEF SkillAt

-----------------------------------------------------------------------------
(* Every step keeps the invariant. *)

(* The skill that is replayed stays while its name and version do.           *)
LEMMA SameSkill ==
    ASSUME UNCHANGED <<registry, goal, version>>
    PROVE  /\ Skill' = Skill /\ SkillsOf(goal)' = SkillsOf(goal)
           /\ Loadable(registry)' = Loadable(registry)
BY DEF Skill, SkillAt, SkillsOf

(* Recording a replay keeps the tallies.                                     *)
LEMMA RecordedTallies ==
    ASSUME TypeOK, NEW won \in BOOLEAN
    PROVE  Recorded(won) \in [clock : Nat, of : [Versions -> Tallies]]
<1> DEFINE key == <<goal, version>>
           record == stats.of[key]
           next == [wins |-> record.wins + (IF won THEN 1 ELSE 0),
                    losses |-> record.losses + (IF won THEN 0 ELSE 1), hit |-> stats.clock + 1]
<1>1. stats.clock \in Nat /\ stats.of \in [Versions -> Tallies]
  BY DEF TypeOK
<1>2. key \in Versions => next \in Tallies
  <2> SUFFICES ASSUME key \in Versions PROVE next \in Tallies
    OBVIOUS
  <2>1. record \in Tallies
    BY <1>1
  <2> HIDE DEF record
  <2> QED
    BY <1>1, <2>1 DEF Tallies
<1>3. Recorded(won) = [clock |-> stats.clock + 1, of |-> [stats.of EXCEPT ![key] = next]]
  BY DEF Recorded
<1>4. [stats.of EXCEPT ![key] = next] \in [Versions -> Tallies]
  <2> HIDE DEF key, next
  <2>1. CASE key \in Versions
    BY <1>1, <1>2, <2>1
  <2>2. CASE key \notin Versions
    <3>1. [stats.of EXCEPT ![key] = next] = stats.of
      BY <1>1, <2>2
    <3> QED
      BY <1>1, <3>1
  <2> QED
    BY <2>1, <2>2
<1> HIDE DEF key, next
<1> QED
  BY <1>1, <1>3, <1>4

(* What a run may end with.                                                  *)
LEMMA EndKeeps ==
    ASSUME IInv, pc' = "idle", UNCHANGED <<registry, platform, toast>>,
           stats' = stats \/ (\E won \in BOOLEAN : stats' = Recorded(won)),
           dispatched' \in BOOLEAN, resume' \in Nat,
           reply'.type = "step.failed" => touched = 0,
           reply'.type = "step.completed" /\ reply'.of # "browse" => posted \/ seen,
           HandbackResumesSafely'
    PROVE  IInv'
<1>1. TypeOK'
  <2>1. stats' \in [clock : Nat, of : [Versions -> Tallies]]
    BY RecordedTallies DEF IInv, TypeOK
  <2>2. Versions' = Versions
    BY DEF Versions
  <2> QED
    BY <2>1, <2>2 DEF IInv, TypeOK, ReplayPhases, platform
<1>2. (RunAnswered /\ HistoryOK /\ PreparingOK /\ ReplayOK /\ VerifyOK)'
  BY DEF RunAnswered, HistoryOK, PreparingOK, ReplayOK, VerifyOK, Waiting, Preparing, Replaying
<1> QED
  BY <1>1, <1>2 DEF IInv, ToastIsTrue, ResultIsTrue, NeverTwice, platform

(* A run that ends without a replay's failure hands nothing back.            *)
LEMMA NothingHandedBack ==
    ASSUME IInv, pc # "idle", UNCHANGED handback
    PROVE  handback' = None /\ HandbackResumesSafely'
BY DEF IInv, RunAnswered, HandbackResumesSafely

(* A command begins with nothing done, and stops early if an effect may have  *)
(* been performed before.                                                    *)
LEMMA StartKeeps == ASSUME IInv, NEW what \in DOMAIN Parameters, Start(what) PROVE IInv'
<1>1. PICK h \in Histories \cup {<<"none", FALSE>>} : effect' = h[1] /\ seen' = h[2]
  <2>1. CASE what = "browse"
    <3>1. effect' = <<"none", FALSE>>[1] /\ seen' = <<"none", FALSE>>[2]
      BY <2>1 DEF Start
    <3> QED
      BY <3>1
  <2>2. CASE what # "browse"
    BY <2>2 DEF Start
  <2> QED
    BY <2>1, <2>2
<1>2. seen' \in BOOLEAN /\ (seen' => ~MayPerform(effect')) /\ (effect' = "verified" => seen')
  <2>1. \/ h = <<"none", FALSE>> \/ h = <<"prepared", FALSE>>
        \/ h = <<"dispatched", FALSE>> \/ h = <<"dispatched", TRUE>>
        \/ h = <<"uncertain", TRUE>> \/ h = <<"verified", TRUE>>
    BY DEF Histories
  <2>2. \/ effect' = "none" /\ seen' = FALSE
        \/ effect' = "prepared" /\ seen' = FALSE
        \/ effect' = "dispatched" /\ seen' \in BOOLEAN
        \/ effect' = "uncertain" /\ seen' = TRUE
        \/ effect' = "verified" /\ seen' = TRUE
    <3>1. CASE h = <<"none", FALSE>>
      BY <1>1, <3>1
    <3>2. CASE h = <<"prepared", FALSE>>
      BY <1>1, <3>2
    <3>3. CASE h = <<"dispatched", FALSE>>
      BY <1>1, <3>3
    <3>4. CASE h = <<"dispatched", TRUE>>
      BY <1>1, <3>4
    <3>5. CASE h = <<"uncertain", TRUE>>
      BY <1>1, <3>5
    <3>6. CASE h = <<"verified", TRUE>>
      BY <1>1, <3>6
    <3> QED
      BY <2>1, <3>1, <3>2, <3>3, <3>4, <3>5, <3>6
  <2> QED
    BY <2>2 DEF MayPerform
<1>3. TypeOK'
  <2>1. Versions' = Versions
    BY DEF Versions, Start
  <2> QED
    BY <1>2, <2>1 DEF IInv, TypeOK, Start, ReplayPhases, Waiting
<1>4. (RunAnswered /\ PreparingOK /\ ReplayOK /\ VerifyOK)'
  BY DEF Start, RunAnswered, PreparingOK, ReplayOK, VerifyOK, Waiting, Preparing, Replaying, Untouched
<1>5. HistoryOK'
  <2>1. pc' = "admit"
    BY DEF Start
  <2> QED
    BY <1>2, <2>1 DEF HistoryOK, Waiting, Preparing, Replaying
<1>6. (ToastIsTrue /\ ResultIsTrue /\ HandbackResumesSafely /\ NeverTwice)'
  BY <1>2 DEF Start, ToastIsTrue, ResultIsTrue, HandbackResumesSafely, NeverTwice
<1> QED
  BY <1>3, <1>4, <1>5, <1>6 DEF IInv

(* A step before the replay goes on, with nothing done outside.              *)
LEMMA GoesOnKeeps ==
    ASSUME IInv, pc \in Waiting \cup Preparing, pc' \in Waiting \cup Preparing,
           pc \in Preparing => pc' \in Preparing,
           pc \in Waiting /\ pc' \in Preparing => MayPerform(effect),
           UNCHANGED <<registry, stats, platform, handback, reply, toast, dispatched, resume, kind>>,
           effect' = effect \/ (pc \in Preparing /\ effect' = "prepared"),
           goal' \in {"browse", goal, kind}
    PROVE  IInv'
<1>1. TypeOK'
  <2>1. Versions' = Versions
    BY DEF Versions
  <2> QED
    BY <2>1 DEF IInv, TypeOK, ReplayPhases, platform
<1>2. pc # "idle" /\ pc \notin Replaying /\ pc' \notin Replaying \cup {"idle", "verify"}
  BY DEF Waiting, Preparing, Replaying
<1>3. (RunAnswered /\ ReplayOK /\ VerifyOK)'
  BY <1>2 DEF IInv, RunAnswered, ReplayOK, VerifyOK
<1>4. HistoryOK'
  <2>1. pc \in Preparing => ~seen
    BY DEF IInv, HistoryOK
  <2>2. pc \in Waiting => (seen => ~MayPerform(effect)) /\ (effect = "verified" => seen)
    BY DEF IInv, HistoryOK
  <2>3. Waiting \cap (Preparing \cup Replaying \cup {"verify"}) = {}
    BY DEF Waiting, Preparing, Replaying
  <2>4. seen' = seen
    BY DEF platform
  <2>5. CASE pc' \in Waiting
    BY <2>2, <2>3, <2>4, <2>5 DEF HistoryOK
  <2>6. CASE pc' \in Preparing
    BY <2>1, <2>2, <2>3, <2>4, <2>6 DEF HistoryOK
  <2> QED
    BY <2>5, <2>6
<1>5. PreparingOK'
  <2>1. Untouched' /\ goal' \in {"browse", kind'}
    BY DEF IInv, PreparingOK, Untouched, platform
  <2>2. pc' \in Preparing => MayPerform(effect')
    BY DEF IInv, PreparingOK, MayPerform
  <2> QED
    BY <2>1, <2>2 DEF PreparingOK
<1>6. (ToastIsTrue /\ ResultIsTrue /\ HandbackResumesSafely /\ NeverTwice)'
  BY <1>2 DEF IInv, RunAnswered, ToastIsTrue, ResultIsTrue, HandbackResumesSafely, NeverTwice, platform
<1> QED
  BY <1>1, <1>3, <1>4, <1>5, <1>6 DEF IInv

(* A step before the replay that fails reports that nothing was done.        *)
LEMMA FailsEarlyKeeps ==
    ASSUME IInv, pc \in Waiting \cup Preparing, NEW evidence, Failed(evidence),
           UNCHANGED <<registry, stats, platform, handback, toast>>,
           dispatched' \in BOOLEAN, resume' \in Nat
    PROVE  IInv'
<1>1. pc # "idle" /\ touched = 0
  BY DEF IInv, PreparingOK, Untouched, Waiting, Preparing
<1>2. reply'.type = "step.failed" /\ pc' = "idle"
  BY DEF Failed, Answer
<1>3. HandbackResumesSafely'
  BY <1>1, NothingHandedBack
<1> QED
  BY <1>1, <1>2, <1>3, EndKeeps

(* The receipt for an effect that is already there is true of it.            *)
LEMMA ExistingKeeps ==
    ASSUME IInv, pc \in Waiting \cup Preparing, Existing, ~MayPerform(effect),
           UNCHANGED <<registry, stats, platform, handback, toast, dispatched, resume>>
    PROVE  IInv'
<1>1. pc # "idle" /\ pc \in Waiting
  BY DEF IInv, PreparingOK, Waiting, Preparing
<1>2. /\ pc' = "idle" /\ reply'.type # "step.failed"
      /\ reply'.type = "step.completed" => effect = "verified"
  BY DEF Existing, Completed, Uncertain, Answer
<1>3. effect = "verified" => seen
  BY <1>1 DEF IInv, HistoryOK
<1>4. HandbackResumesSafely'
  BY <1>1, NothingHandedBack
<1>5. dispatched' \in BOOLEAN /\ resume' \in Nat
  BY DEF IInv, TypeOK
<1> QED
  BY <1>2, <1>3, <1>4, <1>5, EndKeeps

(* The action is admitted by the local limits, or ends before it began.     *)
LEMMA AdmissionKeeps == ASSUME IInv, Admission PROVE IInv'
<1>1. pc \in Waiting /\ pc \notin Preparing
  BY DEF Admission, Waiting, Preparing
<1>2. UNCHANGED <<registry, stats, platform, handback, toast, dispatched, resume, kind, goal, effect>>
  BY DEF Admission, Quiet, Engine, page
<1>3. CASE pc' = "existing" /\ UNCHANGED reply
  BY <1>1, <1>2, <1>3, GoesOnKeeps DEF Waiting, Preparing
<1>4. ASSUME NEW e, Failed(e) PROVE IInv'
  BY <1>1, <1>2, <1>4, FailsEarlyKeeps DEF IInv, TypeOK
<1> QED
  BY <1>3, <1>4 DEF Admission

(* An effect an earlier run may have performed is only reported.            *)
LEMMA ReconcileKeeps == ASSUME IInv, ReconcileExisting PROVE IInv'
<1>1. pc \in Waiting /\ pc \notin Preparing
  BY DEF ReconcileExisting, Waiting, Preparing
<1>2. UNCHANGED <<registry, stats, platform, handback, toast, dispatched, resume, kind, goal>>
  BY DEF ReconcileExisting, Quiet, Engine, page
<1>3. CASE MayPerform(effect) /\ pc' = "browser" /\ UNCHANGED <<effect, reply>>
  BY <1>1, <1>2, <1>3, GoesOnKeeps DEF Waiting, Preparing
<1>4. CASE ~MayPerform(effect) /\ Reconciled
  BY <1>1, <1>2, <1>4, ExistingKeeps DEF Reconciled
<1>5. ASSUME NEW e, Failed(e) PROVE IInv'
  BY <1>1, <1>2, <1>5, FailsEarlyKeeps DEF IInv, TypeOK
<1> QED
  BY <1>3, <1>4, <1>5 DEF ReconcileExisting

(* Nothing is done on the page before the browser is open.                  *)
LEMMA OpenBrowserKeeps == ASSUME IInv, OpenBrowser PROVE IInv'
<1>1. pc \in Preparing /\ pc \notin Waiting
  BY DEF OpenBrowser, Waiting, Preparing
<1>2. UNCHANGED <<registry, stats, platform, handback, toast, dispatched, resume, kind, goal, effect>>
  BY DEF OpenBrowser, Quiet, Engine, page
<1>3. CASE pc' = "navigate" /\ UNCHANGED reply
  BY <1>1, <1>2, <1>3, GoesOnKeeps DEF Waiting, Preparing
<1>4. ASSUME NEW e, Failed(e) PROVE IInv'
  BY <1>1, <1>2, <1>4, FailsEarlyKeeps DEF IInv, TypeOK
<1> QED
  BY <1>3, <1>4 DEF OpenBrowser

(* The profile is opened; a direct message goes on without browsing.        *)
LEMMA NavigateKeeps == ASSUME IInv, Navigate PROVE IInv'
<1>1. pc \in Preparing /\ pc \notin Waiting
  BY DEF Navigate, Waiting, Preparing
<1>2. /\ UNCHANGED <<registry, stats, platform, handback, toast, dispatched, resume, kind, effect>>
      /\ goal' = "browse"
  BY DEF Navigate, Quiet
<1>3. CASE pc' \in {"admit_again", "route"} /\ UNCHANGED reply
  BY <1>1, <1>2, <1>3, GoesOnKeeps DEF Waiting, Preparing
<1>4. ASSUME NEW e, Failed(e) PROVE IInv'
  BY <1>1, <1>2, <1>4, FailsEarlyKeeps DEF IInv, TypeOK
<1> QED
  BY <1>3, <1>4 DEF Navigate

(* A comment goes on only to a video.                                       *)
LEMMA EnterVideoKeeps == ASSUME IInv, EnterVideo PROVE IInv'
<1>1. pc \in Preparing /\ pc \notin Waiting
  BY DEF EnterVideo, Waiting, Preparing
<1>2. UNCHANGED <<registry, stats, platform, handback, toast, dispatched, resume, kind, goal, effect>>
  BY DEF EnterVideo, Quiet, Engine
<1>3. CASE pc' = "admit_again" /\ UNCHANGED reply
  BY <1>1, <1>2, <1>3, GoesOnKeeps DEF Waiting, Preparing
<1>4. ASSUME NEW e, Failed(e) PROVE IInv'
  BY <1>1, <1>2, <1>4, FailsEarlyKeeps DEF IInv, TypeOK
<1> QED
  BY <1>3, <1>4 DEF EnterVideo

(* The action is admitted once more before its row is prepared.             *)
LEMMA AdmitInExecutionKeeps == ASSUME IInv, AdmitInExecution PROVE IInv'
<1>1. pc \in Preparing /\ pc \notin Waiting
  BY DEF AdmitInExecution, Waiting, Preparing
<1>2. UNCHANGED <<registry, stats, platform, handback, toast, dispatched, resume, kind, goal, effect>>
  BY DEF AdmitInExecution, Quiet, Engine, page
<1>3. CASE pc' = "prepare" /\ UNCHANGED reply
  BY <1>1, <1>2, <1>3, GoesOnKeeps DEF Waiting, Preparing
<1>4. ASSUME NEW e, Failed(e) PROVE IInv'
  BY <1>1, <1>2, <1>4, FailsEarlyKeeps DEF IInv, TypeOK
<1> QED
  BY <1>3, <1>4 DEF AdmitInExecution

(* The row is prepared, and the action's own skill comes next.               *)
LEMMA PrepareKeeps == ASSUME IInv, Prepare PROVE IInv'
<1>1. pc \in Preparing /\ pc \notin Waiting /\ MayPerform(effect)
  BY DEF Prepare, Waiting, Preparing, IInv, PreparingOK
<1>2. /\ UNCHANGED <<registry, stats, platform, handback, toast, dispatched, resume, kind>>
      /\ goal' = kind
  BY DEF Prepare, Quiet, page
<1>3. CASE effect' = "prepared" /\ pc' = "route" /\ UNCHANGED reply
  BY <1>1, <1>2, <1>3, GoesOnKeeps DEF Waiting, Preparing
<1>4. ASSUME NEW e, Failed(e) PROVE IInv'
  BY <1>1, <1>2, <1>4, FailsEarlyKeeps DEF IInv, TypeOK
<1> QED
  BY <1>1, <1>3, <1>4 DEF Prepare

-----------------------------------------------------------------------------
(* The replay. *)

(* A replay begins with the routed version's first step.                     *)
LEMMA RouteSkillKeeps == ASSUME IInv, RouteSkill PROVE IInv'
<1>1. pc \in Preparing /\ pc \notin Waiting
  BY DEF RouteSkill, Waiting, Preparing
<1>2. UNCHANGED <<registry, stats, platform, handback, toast, kind, goal, effect>>
  BY DEF RouteSkill, Quiet, page
<1>3. CASE Loadable(registry) /\ SkillsOf(goal) # {} /\ Begin(goal) /\ UNCHANGED reply
  <2>1. /\ version' = Route(goal) /\ k' = 1 /\ resume' = 0 /\ ~dispatched' /\ dispatched' = FALSE
        /\ pc' = "step" /\ done' = {}
    BY <1>3 DEF Begin
  <2>2. Skill' = SkillAt(goal, Route(goal))
    BY <1>2, <2>1 DEF Skill, SkillAt, SkillsOf
  <2>3. Skill' \in SkillsOf(goal)
    BY <1>3, <2>2, RouteIsAVersion DEF IInv
  <2>4. /\ 1 \in DOMAIN Skill'.steps
        /\ \A i \in Externals(Skill') : i \in Nat \ {0}
    <3>1. /\ Skill'.steps # << >> /\ Len(Skill'.steps) \in Nat
          /\ DOMAIN Skill'.steps = 1..Len(Skill'.steps)
      BY <1>3, <2>3, LoadedSkills DEF IInv, TypeOK
    <3>2. Len(Skill'.steps) # 0
      <4>1. Skill'.steps \in Seq({Skill'.steps[i] : i \in DOMAIN Skill'.steps})
        BY <2>3, SeedsAssumption DEF SkillsOf, IInv, TypeOK
      <4> QED
        BY <3>1, <4>1
    <3> QED
      BY <3>1, <3>2 DEF Externals
  <2>5. Attempted' = {} /\ Permitted' = {}
    BY <2>1, <2>4 DEF Attempted, Permitted
  <2>6. touched = 0 /\ MayPerform(effect) /\ ~seen /\ goal \in {"browse", kind}
    BY <1>1 DEF IInv, PreparingOK, Untouched, HistoryOK
  <2>7. ReplayOK'
    <3>1. SkillsOf(goal)' = SkillsOf(goal)
      BY <1>2 DEF SkillsOf
    <3>2. /\ Loadable(registry') /\ Skill' \in SkillsOf(goal)' /\ goal' \in {"browse", kind'}
          /\ k' \in DOMAIN Skill'.steps /\ resume' <= k' /\ 1..(k' - 1) \subseteq done'
      BY <1>2, <1>3, <2>1, <2>3, <2>4, <2>6, <3>1
    <3>3. touched' = 0 /\ MayPerform(effect')
      BY <1>2, <2>6 DEF platform
    <3>4. \A i \in Externals(Skill') : ~(i < k')
      BY <2>1, <2>4
    <3> QED
      BY <2>1, <2>5, <3>2, <3>3, <3>4 DEF ReplayOK
  <2>8. TypeOK'
    <3>1. Versions' = Versions
      BY <1>2 DEF Versions
    <3> QED
      BY <1>2, <2>1, <3>1 DEF IInv, TypeOK, ReplayPhases, Replaying, platform
  <2>9. (RunAnswered /\ HistoryOK /\ PreparingOK /\ VerifyOK)'
    BY <1>1, <1>2, <1>3, <2>1, <2>6 DEF IInv, RunAnswered, HistoryOK, PreparingOK, VerifyOK, Waiting, Preparing, platform
  <2>10. (ToastIsTrue /\ ResultIsTrue /\ HandbackResumesSafely /\ NeverTwice)'
    BY <1>1, <1>2, <1>3 DEF IInv, RunAnswered, ToastIsTrue, ResultIsTrue, HandbackResumesSafely,
                            NeverTwice, platform, Preparing
  <2> QED
    BY <2>7, <2>8, <2>9, <2>10 DEF IInv
<1>4. ASSUME NEW e, Failed(e), UNCHANGED <<dispatched, resume>> PROVE IInv'
  BY <1>1, <1>2, <1>4, FailsEarlyKeeps DEF IInv, TypeOK
<1> QED
  BY <1>3, <1>4 DEF RouteSkill

(* What holds whenever a skill is replayed.                                  *)
LEMMA WhileReplaying ==
    ASSUME IInv, pc \in Replaying
    PROVE  /\ pc # "idle" /\ ~seen /\ reply = None /\ handback = None
           /\ Len(Skill.steps) \in Nat /\ DOMAIN Skill.steps = 1..Len(Skill.steps)
           /\ k \in 1..Len(Skill.steps) /\ Externals(Skill) \subseteq Nat
           /\ \A i, j \in Externals(Skill) : i = j
           /\ goal = "browse" => Externals(Skill) = {}
           /\ \A i \in Externals(Skill) :
                  Confirmation \in Skill.steps[i].post \cup Skill.evidence
           /\ ~dispatched => touched = 0 /\ \A i \in Externals(Skill) : i >= k
           /\ dispatched \in BOOLEAN /\ resume \in Nat /\ resume <= k
<1>1. Skill \in SkillsOf(goal) /\ Loadable(registry) /\ registry \in Loads
  BY DEF IInv, ReplayOK, TypeOK
<1>2. /\ Len(Skill.steps) \in Nat /\ DOMAIN Skill.steps = 1..Len(Skill.steps)
      /\ \A i, j \in Externals(Skill) : i = j
      /\ goal = "browse" => Externals(Skill) = {}
      /\ \A i \in Externals(Skill) :
             Confirmation \in Skill.steps[i].post \cup Skill.evidence
  BY <1>1, LoadedSkills
<1>3. k \in 1..Len(Skill.steps) /\ Externals(Skill) \subseteq Nat
  BY <1>2 DEF IInv, ReplayOK, Externals
<1>4. ~dispatched => touched = 0 /\ \A i \in Externals(Skill) : i >= k
  <2> SUFFICES ASSUME ~dispatched PROVE touched = 0 /\ \A i \in Externals(Skill) : i >= k
    OBVIOUS
  <2>1. Permitted = {} /\ Attempted = {}
    BY DEF IInv, ReplayOK, Permitted
  <2>2. touched = 0
    BY <2>1 DEF IInv, ReplayOK, TypeOK
  <2>3. \A i \in Externals(Skill) : ~(i < k)
    BY <2>1 DEF Attempted
  <2> QED
    BY <1>3, <2>2, <2>3
<1> QED
  BY <1>2, <1>3, <1>4 DEF IInv, RunAnswered, HistoryOK, ReplayOK, TypeOK, Replaying

(* A replay that fails is settled by whether something was dispatched.        *)
LEMMA SettleKeeps ==
    ASSUME IInv, pc \in Replaying, NEW evidence, SettleFailing(evidence),
           UNCHANGED <<registry, platform, toast, dispatched, resume>>,
           stats' = stats \/ stats' = Recorded(FALSE), HandbackResumesSafely'
    PROVE  IInv'
<1>1. pc' = "idle" /\ reply'.type # "step.completed"
  BY DEF SettleFailing, Failed, Uncertain, Answer
<1>2. reply'.type = "step.failed" => touched = 0
  BY WhileReplaying DEF SettleFailing, Failed, Uncertain, Answer
<1>3. dispatched' \in BOOLEAN /\ resume' \in Nat
  BY WhileReplaying
<1> QED
  BY <1>1, <1>2, <1>3, EndKeeps

(* What is handed back is the checkpoint, or the beginning of the skill.     *)
LEMMA ReplayFailsKeeps ==
    ASSUME IInv, pc \in Replaying, NEW at \in {0, resume, k}, ReplayFails(at)
    PROVE  IInv'
<1>1. /\ UNCHANGED <<registry, platform, toast, dispatched, resume, goal, version, done>>
      /\ stats' = Recorded(FALSE) /\ handback' = Decision(at)
      /\ SettleFailing("page_version_unknown")
  BY DEF ReplayFails, Quiet, page
<1>2. HandbackResumesSafely'
  <2>1. /\ handback'.dispatched = dispatched /\ handback'.failed = k
        /\ handback'.from = (IF at = 0 THEN 1 ELSE at)
        /\ handback'.skill = goal /\ handback'.version = version
    BY <1>1 DEF Decision
  <2>3. handback'.from \in 1..k /\ 1..(k - 1) \subseteq done
    BY <2>1, WhileReplaying DEF IInv, ReplayOK
  <2>4. ~dispatched => touched' = 0 /\ \A i \in Externals(Skill) : i >= k
    BY <1>1, WhileReplaying DEF platform
  <2>5. SkillAt(handback.skill, handback.version)' = Skill
    BY <1>1, <2>1 DEF Skill, SkillAt, SkillsOf
  <2>6. /\ 1..(handback'.from - 1) \subseteq done'
        /\ handback'.from <= handback'.failed
    <3>1. k \in Nat
      BY WhileReplaying
    <3>2. \A i \in 1..(handback'.from - 1) : i \in 1..(k - 1)
      BY <2>3, <3>1
    <3> QED
      BY <1>1, <2>1, <2>3, <3>1, <3>2
  <2> QED
    BY <1>1, <2>1, <2>4, <2>5, <2>6 DEF HandbackResumesSafely
<1> QED
  BY <1>1, <1>2, SettleKeeps

(* A step that cannot be approached hands back the last checkpoint.         *)
LEMMA ApproachFailsKeeps == ASSUME IInv, ApproachFails PROVE IInv'
<1>1. pc \in Replaying
  BY DEF ApproachFails, Replaying
<1>2. CheckpointAfter(resume) \in {0, resume, k}
  BY DEF CheckpointAfter
<1> QED
  BY <1>1, <1>2, ReplayFailsKeeps DEF ApproachFails

(* So does one that raised or did not show, and missing evidence.           *)
LEMMA LaterFailureKeeps ==
    ASSUME IInv, ActRaised \/ ConfirmFails \/ EvidenceMissing
    PROVE  IInv'
BY ReplayFailsKeeps DEF ActRaised, ConfirmFails, EvidenceMissing, Replaying

(* What escapes the replayer hands nothing back.                             *)
LEMMA BreaksKeeps == ASSUME IInv, Breaks PROVE IInv'
<1>1. pc \in Replaying
  BY DEF Breaks, Replaying
<1>2. HandbackResumesSafely'
  BY <1>1, WhileReplaying, NothingHandedBack DEF Breaks
<1> QED
  BY <1>1, <1>2, SettleKeeps DEF Breaks, Quiet, Engine, page

(* What was not there before is performed at most once if the run does so.    *)
LEMMA OnlyNow == ASSUME touched' \in 0..1, seen' = FALSE PROVE NeverTwice'
<1> DEFINE once == touched'   before == IF seen' THEN 1 ELSE 0
<1>1. before = 0 /\ once \in 0..1
  BY Zenon
<1> HIDE DEF once, before
<1>2. once + before <= 1
  BY <1>1
<1> QED
  BY <1>2 DEF NeverTwice, once, before

(* A step within the replay keeps what it does not touch.                    *)
LEMMA ReplayGoesOn ==
    ASSUME IInv, pc \in Replaying, pc' \in Replaying,
           UNCHANGED <<registry, stats, seen, toast, handback, reply>>,
           dispatched' \in BOOLEAN, resume' \in Nat, posted' = posted \/ posted' = TRUE,
           touched' \in 0..1, ReplayOK'
    PROVE  IInv'
<1>1. TypeOK'
  <2>1. Versions' = Versions
    BY DEF Versions
  <2>2. /\ stats' \in [clock : Nat, of : [Versions' -> Tallies]]
        /\ registry' \in Loads /\ pc' \in ReplayPhases
    BY <2>1 DEF IInv, TypeOK, ReplayPhases
  <2>3. posted' \in BOOLEAN
    <3>1. posted \in BOOLEAN
      BY DEF IInv, TypeOK
    <3> QED
      BY <3>1
  <2>4. seen' \in BOOLEAN /\ toast' \in BOOLEAN
    BY DEF IInv, TypeOK
  <2>5. touched' \in Nat
    OBVIOUS
  <2> QED
    BY <2>2, <2>3, <2>4, <2>5 DEF TypeOK
<1>2. pc' \notin Waiting \cup Preparing \cup {"idle", "verify"} /\ seen' = FALSE /\ reply' = None /\ handback' = None
  BY WhileReplaying DEF IInv, TypeOK, Waiting, Preparing, Replaying
<1>3. (RunAnswered /\ HistoryOK /\ PreparingOK /\ VerifyOK)'
  BY <1>2 DEF RunAnswered, HistoryOK, PreparingOK, VerifyOK
<1>4. (ToastIsTrue /\ ResultIsTrue /\ HandbackResumesSafely /\ NeverTwice)'
  <2>1. toast' => posted'
    <3>1. (toast => posted) /\ toast' = toast /\ (posted' = posted \/ posted' = TRUE)
      BY DEF IInv, ToastIsTrue
    <3>2. CASE posted' = posted
      BY <3>1, <3>2
    <3> QED
      BY <3>1, <3>2
  <2>2. NeverTwice'
    BY <1>2, OnlyNow
  <2> QED
    BY <1>2, <2>1, <2>2 DEF ToastIsTrue, ResultIsTrue, HandbackResumesSafely
<1> QED
  BY <1>1, <1>3, <1>4 DEF IInv

(* A step is approached; only an external one asks for permission.          *)
LEMMA ApproachKeeps == ASSUME IInv, Approach PROVE IInv'
<1>1. pc = "step" /\ pc \in Replaying /\ pc' \in {"dispatch", "act"} /\ (pc' = "dispatch" <=> Step.external)
  BY DEF Approach, Replaying
<1>2. /\ UNCHANGED <<registry, goal, version, kind, k, done, dispatched, effect, touched, posted, stats,
                     seen, toast, handback, reply>>
      /\ resume' \in {resume, k}
  BY DEF Approach, Quiet, page, platform, CheckpointAfter
<1>3. Skill' = Skill /\ SkillsOf(goal)' = SkillsOf(goal) /\ Loadable(registry)' = Loadable(registry)
  BY <1>2, SameSkill
<1>4. k \in Externals(Skill) <=> Step.external
  BY <1>1, WhileReplaying DEF Externals, Step
<1>5. Attempted' = Attempted /\ Permitted' = Permitted
  BY <1>1, <1>2, <1>3, <1>4 DEF Attempted, Permitted
<1>6. resume' \in Nat /\ resume' <= k /\ Step' = Step
  BY <1>1, <1>2, <1>3, WhileReplaying DEF Step
<1>7. ReplayOK'
  BY <1>1, <1>2, <1>3, <1>5, <1>6 DEF IInv, ReplayOK, Replaying
<1>8. touched' \in 0..1
  BY <1>1, <1>2 DEF IInv, ReplayOK, TypeOK
<1> QED
  BY <1>1, <1>2, <1>6, <1>7, <1>8, WhileReplaying, ReplayGoesOn DEF Replaying

(* Permission is asked for once: the one external step has not been tried.   *)
LEMMA DispatchKeeps == ASSUME IInv, Dispatch PROVE IInv'
<1>1. pc = "dispatch" /\ pc \in Replaying
  BY DEF Dispatch, Replaying
<1>2. UNCHANGED <<registry, goal, version, kind, k, done, resume, touched, posted, stats,
                  seen, toast, handback, platform>>
  BY DEF Dispatch, Quiet, page, platform
<1>3. Skill' = Skill /\ SkillsOf(goal)' = SkillsOf(goal) /\ Loadable(registry)' = Loadable(registry)
  BY <1>2, SameSkill
<1>4. k \in Externals(Skill)
  BY <1>1, WhileReplaying DEF Externals, Step, IInv, ReplayOK
<1>5. Attempted = {} /\ Permitted = {}
  BY <1>1, <1>4, WhileReplaying DEF Attempted, Permitted
<1>6. ~dispatched /\ touched = 0 /\ MayPerform(effect)
  BY <1>1, <1>5, WhileReplaying DEF IInv, ReplayOK
<1>7. CASE effect' = "dispatched" /\ dispatched' = TRUE /\ pc' = "act" /\ UNCHANGED reply
  <2>1. Attempted' = {} /\ k \in Permitted'
    BY <1>1, <1>2, <1>3, <1>4, <1>5, <1>7 DEF Attempted, Permitted
  <2>2. ReplayOK'
    BY <1>1, <1>2, <1>3, <1>6, <1>7, <2>1 DEF IInv, ReplayOK, Replaying
  <2> QED
    BY <1>1, <1>2, <1>6, <1>7, <2>2, WhileReplaying, ReplayGoesOn DEF Replaying
<1>8. CASE Failed("executor_reported_failure") /\ UNCHANGED <<effect, dispatched>>
  <2>1. HandbackResumesSafely'
    BY <1>1, <1>2, WhileReplaying, NothingHandedBack
  <2>2. reply'.type = "step.failed" /\ pc' = "idle"
    BY <1>8 DEF Failed, Answer
  <2> QED
    BY <1>1, <1>2, <1>6, <1>8, <2>1, <2>2, WhileReplaying, EndKeeps
<1> QED
  BY <1>6, <1>7, <1>8 DEF Dispatch

(* The external act is the first one, under a permission.                    *)
LEMMA ActKeeps == ASSUME IInv, Act PROVE IInv'
<1>1. pc = "act" /\ pc \in Replaying /\ pc' \in {"post", "raised"}
  BY DEF Act, Replaying
<1>2. UNCHANGED <<registry, goal, version, kind, k, done, resume, dispatched, effect, stats,
                  seen, toast, handback, reply>>
  BY DEF Act, Engine, page
<1>3. Skill' = Skill /\ SkillsOf(goal)' = SkillsOf(goal) /\ Loadable(registry)' = Loadable(registry)
  BY <1>2, SameSkill
<1>4. /\ k \in Externals(Skill) <=> Step.external
      /\ Step' = Step
  BY <1>1, <1>2, <1>3, WhileReplaying DEF Externals, Step
<1>5. Attempted' = Attempted \cup (Externals(Skill) \cap {k}) /\ Permitted' = Attempted'
  BY <1>1, <1>2, <1>3 DEF Attempted, Permitted
<1>6. Permitted' = Permitted
  BY <1>1, <1>5 DEF Permitted
<1>7. Step.external => Attempted = {}
  BY <1>1, <1>4, WhileReplaying DEF Attempted
<1>8. /\ touched' \in 0..1 /\ (touched' = 1 <=> Attempted' # {})
      /\ posted' = posted \/ posted' = TRUE
  <2>1. touched \in 0..1 /\ (touched = 1 <=> Attempted # {})
    BY <1>1 DEF IInv, ReplayOK, TypeOK
  <2>2. CASE Step.external
    <3>1. touched' = touched + 1 /\ (posted' = posted \/ posted' = TRUE)
      BY <2>2, Zenon DEF Act
    <3>2. touched = 0 /\ Attempted' # {}
      BY <1>4, <1>5, <1>7, <2>1, <2>2
    <3> QED
      BY <3>1, <3>2
  <2>3. CASE ~Step.external
    <3>1. touched' = touched + 0 /\ posted' = posted
      BY <2>3 DEF Act
    <3>2. Attempted' = Attempted
      BY <1>4, <1>5, <2>3
    <3> QED
      BY <2>1, <3>1, <3>2
  <2> QED
    BY <2>2, <2>3
<1>9. ReplayOK'
  <2>1. \A i \in Externals(Skill) : i < k /\ Confirmation \in Skill.steps[i].post => posted'
    BY <1>1, <1>8 DEF IInv, ReplayOK
  <2> QED
    BY <1>1, <1>2, <1>3, <1>6, <1>8, <2>1 DEF IInv, ReplayOK, Replaying
<1> QED
  BY <1>1, <1>2, <1>8, <1>9, WhileReplaying, ReplayGoesOn DEF Replaying

(* A step whose effect shows is done; if it shows the message, the platform   *)
(* took the act.                                                             *)
LEMMA ConfirmKeeps == ASSUME IInv, Confirm PROVE IInv'
<1>1. pc = "post" /\ pc \in Replaying /\ \A c \in Step.post : Holds(c)
  BY DEF Confirm, Replaying
<1>2. UNCHANGED <<registry, goal, version, kind, resume, dispatched, effect, stats, touched, posted,
                  seen, toast, handback, reply>>
  BY DEF Confirm, Quiet, page, platform
<1>3. Skill' = Skill /\ SkillsOf(goal)' = SkillsOf(goal) /\ Loadable(registry)' = Loadable(registry)
  BY <1>2, SameSkill
<1>4. done' = done \cup {k}
  BY DEF Confirm
<1>5. \A i \in Externals(Skill) : i <= k /\ Confirmation \in Skill.steps[i].post => posted
  <2>1. Confirmation \in Step.post => posted
    BY <1>1 DEF Confirmation, Holds, IInv, ToastIsTrue
  <2>2. \A i \in Externals(Skill) : i < k /\ Confirmation \in Skill.steps[i].post => posted
    BY <1>1 DEF IInv, ReplayOK
  <2> QED
    BY <1>1, <2>1, <2>2, WhileReplaying DEF Step
<1>6. touched' \in 0..1 /\ resume' \in Nat /\ dispatched' \in BOOLEAN
  BY <1>1, <1>2, WhileReplaying DEF IInv, ReplayOK, TypeOK
<1>7. CASE k < Len(Skill.steps) /\ k' = k + 1 /\ pc' = "step"
  <2>1. Attempted' = Attempted /\ Permitted' = Permitted
    BY <1>1, <1>3, <1>7, WhileReplaying DEF Attempted, Permitted
  <2>2. k' \in DOMAIN Skill.steps /\ resume' <= k' /\ 1..(k' - 1) \subseteq done'
    <3>1. \A i \in 1..(k' - 1) : i = k \/ i \in 1..(k - 1)
      BY <1>1, <1>7, WhileReplaying
    <3> QED
      BY <1>1, <1>2, <1>4, <1>7, <3>1, WhileReplaying DEF IInv, ReplayOK
  <2>3. \A i \in Externals(Skill) : i < k' /\ Confirmation \in Skill.steps[i].post => posted
    BY <1>1, <1>5, <1>7, WhileReplaying
  <2>4. ReplayOK'
    BY <1>1, <1>2, <1>3, <1>7, <2>1, <2>2, <2>3 DEF IInv, ReplayOK, Replaying
  <2> QED
    BY <1>1, <1>2, <1>6, <1>7, <2>4, ReplayGoesOn DEF Replaying
<1>8. CASE ~(k < Len(Skill.steps)) /\ UNCHANGED k /\ pc' = "evidence"
  <2>1. Attempted' = Attempted /\ Permitted' = Permitted
    BY <1>1, <1>3, <1>8 DEF Attempted, Permitted
  <2>2. k' = Len(Skill.steps) /\ 1..(k' - 1) \subseteq done'
    BY <1>1, <1>4, <1>8, WhileReplaying DEF IInv, ReplayOK
  <2>3. \A i \in Externals(Skill) : Confirmation \in Skill.steps[i].post => posted
    <3>1. \A i \in Externals(Skill) : i <= k
      BY <1>1, <1>8, WhileReplaying DEF Externals
    <3> QED
      BY <1>5, <3>1
  <2>4. ReplayOK'
    BY <1>1, <1>2, <1>3, <1>8, <2>1, <2>2, <2>3 DEF IInv, ReplayOK, Replaying
  <2> QED
    BY <1>1, <1>2, <1>6, <1>8, <2>4, ReplayGoesOn DEF Replaying
<1> QED
  BY <1>7, <1>8 DEF Confirm

(* Browsing replays no external step, so it leads on with nothing done; the   *)
(* action's own replay is verified only after its one external act showed.   *)
LEMMA ReplayedKeeps == ASSUME IInv, Replayed PROVE IInv'
<1>1. pc = "evidence" /\ pc \in Replaying /\ EvidenceHolds
  BY DEF Replayed, Replaying
<1>2. /\ UNCHANGED <<registry, goal, version, kind, k, done, resume, dispatched, effect, touched,
                     posted, seen, toast, handback, platform>>
      /\ stats' = Recorded(TRUE)
  BY DEF Replayed, Quiet, Engine, page, platform
<1>3. HandbackResumesSafely' /\ dispatched' \in BOOLEAN /\ resume' \in Nat
  BY <1>1, <1>2, WhileReplaying, NothingHandedBack
<1>4. CASE goal # kind /\ pc' = "entry" /\ UNCHANGED reply
  <2>1. goal = "browse"
    BY <1>1, <1>4 DEF IInv, ReplayOK
  <2>2. Permitted = {} /\ Attempted = {}
    BY <1>1, <2>1, WhileReplaying DEF Permitted, Attempted
  <2>3. ~dispatched /\ touched = 0 /\ MayPerform(effect)
    BY <1>1, <2>2, WhileReplaying DEF IInv, ReplayOK
  <2>4. TypeOK'
    <3>1. Versions' = Versions /\ stats' \in [clock : Nat, of : [Versions -> Tallies]]
      BY <1>2, RecordedTallies DEF Versions, IInv
    <3> QED
      BY <1>2, <1>4, <3>1 DEF IInv, TypeOK, ReplayPhases, Preparing
  <2>5. (RunAnswered /\ HistoryOK /\ PreparingOK /\ ReplayOK /\ VerifyOK)'
    BY <1>1, <1>2, <1>4, <2>1, <2>3, WhileReplaying
       DEF RunAnswered, HistoryOK, PreparingOK, Untouched, ReplayOK, VerifyOK, Waiting, Preparing, Replaying
  <2>6. (ToastIsTrue /\ ResultIsTrue /\ NeverTwice)'
    BY <1>1, <1>2, <1>4, WhileReplaying DEF IInv, ToastIsTrue, ResultIsTrue, NeverTwice
  <2> QED
    BY <1>3, <2>4, <2>5, <2>6 DEF IInv
<1>5. CASE goal = kind /\ kind = "browse" /\ Completed
  <2>1. pc' = "idle" /\ reply'.type = "step.completed" /\ reply'.of = "browse"
    BY <1>5 DEF Completed, Answer
  <2> QED
    BY <1>2, <1>3, <2>1, EndKeeps
<1>6. CASE goal = kind /\ kind # "browse" /\ ~dispatched /\ Failed("page_unavailable")
  <2>1. pc' = "idle" /\ reply'.type = "step.failed" /\ touched = 0
    BY <1>1, <1>6, WhileReplaying DEF Failed, Answer
  <2> QED
    BY <1>2, <1>3, <2>1, EndKeeps
<1>7. CASE dispatched /\ pc' = "verify" /\ UNCHANGED reply
  <2>1. PICK i \in Externals(Skill) : i \in Attempted
    BY <1>1, <1>7 DEF IInv, ReplayOK, Permitted, Attempted
  <2>2. touched = 1
    BY <1>1, <2>1 DEF IInv, ReplayOK
  <2>3. posted
    <3>1. CASE Confirmation \in Skill.steps[i].post
      BY <1>1, <2>1, <3>1 DEF IInv, ReplayOK
    <3>2. CASE Confirmation \in Skill.evidence
      BY <1>1, <3>2 DEF EvidenceHolds, Confirmation, Holds, IInv, ToastIsTrue
    <3> QED
      BY <1>1, <3>1, <3>2, WhileReplaying
  <2>4. TypeOK'
    <3>1. Versions' = Versions /\ stats' \in [clock : Nat, of : [Versions -> Tallies]]
      BY <1>2, RecordedTallies DEF Versions, IInv
    <3> QED
      BY <1>2, <1>7, <3>1 DEF IInv, TypeOK, ReplayPhases
  <2>5. (RunAnswered /\ HistoryOK /\ PreparingOK /\ ReplayOK /\ VerifyOK)'
    BY <1>1, <1>2, <1>7, <2>2, <2>3, WhileReplaying
       DEF RunAnswered, HistoryOK, PreparingOK, ReplayOK, VerifyOK, Waiting, Preparing, Replaying
  <2>6. (ToastIsTrue /\ ResultIsTrue /\ NeverTwice)'
    BY <1>1, <1>2, <1>7, WhileReplaying DEF IInv, ToastIsTrue, ResultIsTrue, NeverTwice
  <2> QED
    BY <1>3, <2>4, <2>5, <2>6 DEF IInv
<1>8. \/ goal # kind /\ pc' = "entry" /\ UNCHANGED reply
      \/ goal = kind /\ kind = "browse" /\ Completed
      \/ goal = kind /\ kind # "browse" /\ ~dispatched /\ Failed("page_unavailable")
      \/ dispatched /\ pc' = "verify" /\ UNCHANGED reply
  BY DEF Replayed
<1> QED
  BY <1>4, <1>5, <1>6, <1>7, <1>8

(* A verified or doubtful effect ends the run as what it is.                *)
LEMMA VerifyKeeps == ASSUME IInv, Verify PROVE IInv'
<1>1. pc = "verify" /\ touched = 1 /\ posted
  BY DEF Verify, IInv, VerifyOK
<1>2. UNCHANGED <<registry, platform, stats, toast, dispatched, resume, handback>>
  BY DEF Verify, Quiet, Engine, page
<1>3. pc' = "idle" /\ reply'.type # "step.failed"
  BY DEF Verify, Completed, Uncertain, Answer
<1>4. HandbackResumesSafely' /\ dispatched' \in BOOLEAN /\ resume' \in Nat
  BY <1>1, <1>2, NothingHandedBack DEF IInv, TypeOK
<1> QED
  BY <1>1, <1>2, <1>3, <1>4, EndKeeps

-----------------------------------------------------------------------------
(* The website, and the theorems. *)

(* The page says so only once the platform took the act.                     *)
LEMMA ToastKeeps == ASSUME IInv, ToastChanges PROVE IInv'
<1>1. /\ UNCHANGED <<registry, stats, effect, kind, goal, version, k, resume, done, dispatched,
                     platform, handback, reply, pc>>
      /\ posted \/ toast
      /\ toast' = ~toast
  BY DEF ToastChanges, Quiet, Engine
<1>2. Skill' = Skill /\ SkillsOf(goal)' = SkillsOf(goal) /\ Loadable(registry)' = Loadable(registry)
  BY <1>1, SameSkill
<1>3. posted
  BY <1>1 DEF IInv, ToastIsTrue
<1>4. TypeOK' /\ ToastIsTrue'
  <2>1. Versions' = Versions
    BY <1>1 DEF Versions
  <2>2. toast' \in BOOLEAN
    BY <1>1
  <2> QED
    BY <1>1, <1>3, <2>1, <2>2 DEF IInv, TypeOK, ToastIsTrue, platform
<1>5. ReplayOK'
  <2>1. Attempted' = Attempted /\ Permitted' = Permitted /\ Step' = Step
    BY <1>1, <1>2 DEF Attempted, Permitted, Step
  <2> QED
    BY <1>1, <1>2, <2>1 DEF IInv, ReplayOK, platform
<1>6. (RunAnswered /\ HistoryOK /\ PreparingOK /\ VerifyOK)'
  BY <1>1 DEF IInv, RunAnswered, HistoryOK, PreparingOK, Untouched, VerifyOK, platform
<1>7. (ResultIsTrue /\ HandbackResumesSafely /\ NeverTwice)'
  BY <1>1 DEF IInv, ResultIsTrue, HandbackResumesSafely, NeverTwice, SkillAt, SkillsOf, platform
<1> QED
  BY <1>4, <1>5, <1>6, <1>7 DEF IInv

(* A redesign between two runs changes nothing that is told of the last one,  *)
(* and neither does a stuttering step.                                       *)
LEMMA RedesignKeeps ==
    ASSUME IInv, UNCHANGED <<registry, stats, runs, pc, run, effect, page, platform, handback, reply>>
    PROVE  IInv'
<1>1. /\ UNCHANGED <<registry, stats, effect, kind, goal, version, k, resume, done, dispatched,
                     platform, handback, reply, pc, toast>>
  BY DEF run, page
<1>2. Skill' = Skill /\ SkillsOf(goal)' = SkillsOf(goal) /\ Loadable(registry)' = Loadable(registry)
  BY <1>1, SameSkill
<1>3. TypeOK' /\ ToastIsTrue'
  <2>1. Versions' = Versions
    BY <1>1 DEF Versions
  <2> QED
    BY <1>1, <2>1 DEF IInv, TypeOK, ToastIsTrue, platform
<1>4. ReplayOK'
  <2>1. Attempted' = Attempted /\ Permitted' = Permitted /\ Step' = Step
    BY <1>1, <1>2 DEF Attempted, Permitted, Step
  <2> QED
    BY <1>1, <1>2, <2>1 DEF IInv, ReplayOK, platform
<1>5. (RunAnswered /\ HistoryOK /\ PreparingOK /\ VerifyOK)'
  BY <1>1 DEF IInv, RunAnswered, HistoryOK, PreparingOK, Untouched, VerifyOK, platform
<1>6. (ResultIsTrue /\ HandbackResumesSafely /\ NeverTwice)'
  BY <1>1 DEF IInv, ResultIsTrue, HandbackResumesSafely, NeverTwice, SkillAt, SkillsOf, platform
<1> QED
  BY <1>3, <1>4, <1>5, <1>6 DEF IInv

(* At the start no skill has been replayed.                                  *)
LEMMA ReplayInitHolds == ASSUME Init PROVE IInv
<1>1. TypeOK
  <2>1. [id \in Versions |-> Unobserved] \in [Versions -> Tallies]
    BY DEF Unobserved, Tallies
  <2>2. stats = [clock |-> 0, of |-> [id \in Versions |-> Unobserved]]
    BY DEF Init, Versions
  <2>3. stats \in [clock : Nat, of : [Versions -> Tallies]]
    BY <2>1, <2>2
  <2> QED
    BY <2>3 DEF Init, TypeOK, ReplayPhases
<1>2. RunAnswered /\ HistoryOK /\ PreparingOK /\ ReplayOK /\ VerifyOK
  BY DEF Init, RunAnswered, HistoryOK, PreparingOK, ReplayOK, VerifyOK, Waiting, Preparing, Replaying
<1>3. ToastIsTrue /\ ResultIsTrue /\ HandbackResumesSafely
  BY DEF Init, ToastIsTrue, ResultIsTrue, HandbackResumesSafely
<1>4. NeverTwice
  BY DEF Init, NeverTwice
<1> QED
  BY <1>1, <1>2, <1>3, <1>4 DEF IInv

(* The invariant holds in every state of every run of the replay.            *)
THEOREM ReplayInvariance == Spec => []IInv
<1>1. Init => IInv
  BY ReplayInitHolds
<1>2. ASSUME IInv, [Next]_vars PROVE IInv'
  <2>1. CASE \E what \in DOMAIN Parameters : Start(what)
    BY <1>2, <2>1, StartKeeps
  <2>2. CASE Admission \/ ReconcileExisting \/ OpenBrowser \/ Navigate \/ EnterVideo
    BY <1>2, <2>2, AdmissionKeeps, ReconcileKeeps, OpenBrowserKeeps, NavigateKeeps, EnterVideoKeeps
  <2>3. CASE AdmitInExecution \/ Prepare \/ RouteSkill
    BY <1>2, <2>3, AdmitInExecutionKeeps, PrepareKeeps, RouteSkillKeeps
  <2>4. CASE Approach \/ ApproachFails \/ Dispatch \/ Act \/ Confirm
    BY <1>2, <2>4, ApproachKeeps, ApproachFailsKeeps, DispatchKeeps, ActKeeps, ConfirmKeeps
  <2>5. CASE ActRaised \/ ConfirmFails \/ EvidenceMissing
    BY <1>2, <2>5, LaterFailureKeeps
  <2>6. CASE Replayed \/ Verify \/ Breaks \/ ToastChanges
    BY <1>2, <2>6, ReplayedKeeps, VerifyKeeps, BreaksKeeps, ToastKeeps
  <2>7. CASE Redesign
    BY <1>2, <2>7, RedesignKeeps DEF Redesign
  <2>8. CASE UNCHANGED vars
    BY <1>2, <2>8, RedesignKeeps DEF vars
  <2> QED
    BY <1>2, <2>1, <2>2, <2>3, <2>4, <2>5, <2>6, <2>7, <2>8 DEF Next
<1> QED
  BY <1>1, <1>2, PTL DEF Spec

(* What the control plane is told of an action is what happened on the page   *)
(* (action_result.py, comment_action.py): a failure means that nothing was    *)
(* tried, a completion that the platform took the act.                       *)
THEOREM ResultsAreTrue == Spec => []ResultIsTrue
BY ReplayInvariance, PTL DEF IInv

(* A handback resumes where the page is (skill_handback.py): no step is       *)
(* skipped, and none repeated that acted outside.                            *)
THEOREM HandbacksAreSafe == Spec => []HandbackResumesSafely
BY ReplayInvariance, PTL DEF IInv

(* A run acts on the platform at most once, and not when an earlier run's     *)
(* effect was seen (side_effect_ledger.py).                                   *)
THEOREM TriedOnce == Spec => []NeverTwice
BY ReplayInvariance, PTL DEF IInv

------------------------------------------------------------------------------
(* Motion authoring *)

(* The process works.                                                         *)
Working == phase \in {"asking", "narrating", "composing", "assembling", "measuring", "repairing",
                      "submitting"}

(* Every beat has a place, a length and a part the catalog has.               *)
BoardOK ==
    \A i \in Beats : /\ board[i].start \in Nat /\ board[i].dur \in Nat \ {0}
                     /\ board[i].part \in DOMAIN Parts \cup {None}

(* A repair keeps the beats, so the lines narrated before it are still theirs. *)
NarrationOK ==
    narration # None =>
      \A i \in Beats : /\ narration[board[i].id] \in Nat \ {0}
                       /\ Exists(<<"narration", board[i].id>>)

(* Division leaves a remainder below the divisor.                            *)
LEMMA Divides ==
    ASSUME NEW a \in Nat, NEW b \in Nat \ {0}
    PROVE  /\ a \div b \in Nat /\ a % b \in 0..(b - 1)
           /\ a = b * (a \div b) + (a % b)
  OBVIOUS

(* Rounding moves a number by at most a half.                                *)
LEMMA RoundedNear ==
    ASSUME NEW a \in Nat, NEW b \in Nat \ {0}
    PROVE  /\ Rounded(a, b) \in Nat
           /\ 2 * (b * Rounded(a, b)) <= 2 * a + b /\ 2 * (b * Rounded(a, b)) >= 2 * a - b
<1> DEFINE q == a \div b
           r == a % b
<1>1. q \in Nat /\ r \in 0..(b - 1) /\ a = b * q + r
  BY Divides
<1>2. Rounded(a, b) = IF 2 * r > b \/ (2 * r = b /\ q % 2 = 1) THEN q + 1 ELSE q
  BY DEF Rounded
<1> HIDE DEF q, r
<1>3. (Rounded(a, b) = q /\ 2 * r <= b) \/ (Rounded(a, b) = q + 1 /\ 2 * r >= b)
  BY <1>1, <1>2
<1> QED
  BY <1>1, <1>3

(* What is more than a whole apart stays apart.                              *)
LEMMA RoundedGrows ==
    ASSUME NEW a \in Nat, NEW d \in Nat, NEW b \in Nat \ {0}, d > b
    PROVE  Rounded(a, b) < Rounded(a + d, b)
<1> DEFINE x == Rounded(a, b)
           y == Rounded(a + d, b)
<1>1. /\ x \in Nat /\ y \in Nat
      /\ 2 * (b * x) <= 2 * a + b /\ 2 * (b * y) >= 2 * (a + d) - b
  <2>1. a + d \in Nat
    OBVIOUS
  <2> QED
    BY <2>1, RoundedNear
<1> HIDE DEF x, y
<1>2. b * x < b * y
  <2> DEFINE u == b * x
             v == b * y
  <2>1. u \in Nat /\ v \in Nat
    BY <1>1
  <2>2. 2 * u <= 2 * a + b /\ 2 * v >= 2 * (a + d) - b
    BY <1>1
  <2> HIDE DEF u, v
  <2>3. u < v
    BY <2>1, <2>2
  <2> QED
    BY <2>3 DEF u, v
<1>3. x < y
  BY <1>1, <1>2
<1> QED
  BY <1>3 DEF x, y

(* Rounded up, a length is covered.                                          *)
LEMMA RoundedUp ==
    ASSUME NEW x \in Nat \ {0}, NEW b \in Nat \ {0}
    PROVE  (x + b - 1) \div b \in Nat \ {0} /\ x <= b * ((x + b - 1) \div b)
<1> DEFINE q == (x + b - 1) \div b
           r == (x + b - 1) % b
<1>1. q \in Nat /\ r \in 0..(b - 1) /\ x + b - 1 = b * q + r
  <2> DEFINE s == x + b - 1
  <2>1. s \in Nat
    OBVIOUS
  <2>2. s \div b \in Nat /\ s % b \in 0..(b - 1) /\ s = b * (s \div b) + (s % b)
    <3> HIDE DEF s
    <3> QED
      BY <2>1, Divides
  <2> QED
    BY <2>2
<1> HIDE DEF q, r
<1>2. x <= b * q
  BY <1>1
<1>3. q # 0
  BY <1>1
<1>4. q \in Nat \ {0} /\ x <= b * q
  BY <1>1, <1>2, <1>3
<1> QED
  BY <1>4, Zenon DEF q

(* What the App asks of a segment besides its window, before the process has   *)
(* looked for the assets of the brief.                                        *)
SegmentReady(s) ==
    /\ Exists(s.entry) /\ \A a \in s.assets : a \in TemplateAssets \/ Exists(a)
    /\ s.part = None => s.entry = <<"composition">> /\ Runtime \in s.assets
    /\ s.frames \in 1..MaxShotFrames
    /\ s.audio # None => /\ Exists(s.audio) /\ s.voice > 0
                         /\ s.voice * Fps <= (s.frames * 1000 + 500 * Fps) * PerMs

(* Its window has a length, unless the beat vanishes.                         *)
Windowed(i) ==
    segments[i].window[1] < segments[i].window[2] \/ (install.catalog /\ Vanishes(board[i]))

Taken(i) == SegmentAccepted(segments[i]) \/ (install.catalog /\ Vanishes(board[i]))

(* What the process and its workspace have by each stage, so that the App     *)
(* finds what it asks for (accept_authored_render_job).                       *)
AuthoringInv ==
    /\ brief.ms \in Nat /\ brief.ms >= 1000
    /\ Working => BoardOK /\ NarrationOK
    /\ phase \in {"asking", "narrating"} => narration = None
    /\ phase = "narrating" => board \in Seq({board[i] : i \in Beats}) /\ install.catalog
    /\ Working /\ phase # "asking" /\ ~install.catalog => SnapshotFrames(brief.ms) <= MaxShotFrames
    /\ phase \in {"assembling", "measuring", "submitting"} => Exists(<<"composition">>)
    /\ phase \in {"measuring", "submitting"} =>
         \A i \in DOMAIN segments : SegmentReady(segments[i]) /\ Windowed(i)
    /\ phase = "declined" \/ (phase = "answered" /\ answer.status = "authored") =>
         /\ Exists(<<"composition">>)
         /\ \A i \in DOMAIN segments : Taken(i)

(* Writing files keeps the others.                                            *)
LEMMA WritesGrow ==
    ASSUME NEW fs, NEW new
    PROVE  DOMAIN WriteAll(fs, new) = DOMAIN fs \cup DOMAIN new
BY DEF WriteAll

(* So does writing twice: the copies of the parts, and the baselines.         *)
LEMMA WritesGrowTwice ==
    ASSUME NEW fs, NEW first, NEW second
    PROVE  DOMAIN fs \subseteq DOMAIN WriteAll(WriteAll(fs, first), second)
<1>1. DOMAIN fs \subseteq DOMAIN WriteAll(fs, first)
  BY WritesGrow
<1>2. DOMAIN WriteAll(fs, first) \subseteq DOMAIN WriteAll(WriteAll(fs, first), second)
  BY WritesGrow
<1> QED
  BY <1>1, <1>2

(* Writing a file keeps the others.                                           *)
LEMMA WriteGrows ==
    ASSUME NEW fs, NEW file, NEW content
    PROVE  DOMAIN Write(fs, file, content) = DOMAIN fs \cup {file}
BY DEF WriteAll, Write

(* A refusal is never the answer of an authored film.                         *)
LEMMA RefusedIsNotAuthored ==
    ASSUME NEW reason, AnswerRefusal(reason)
    PROVE  phase' = "answered" /\ answer'.status # "authored"
<1>1. AnswerStatus(reason) \in {"model_configuration_required", "model_timed_out",
                                "model_transport_failed", "executor_defect",
                                "app_request_invalid", "rejected"}
  <2>1. DOMAIN NonRefusals = {"model_configuration_required", "model_timed_out",
                              "model_transport_failed", "executor_defect", "app_request_invalid"}
    BY DEF NonRefusals
  <2>2. AnswerStatus(reason) \in DOMAIN NonRefusals \cup {"rejected"}
    BY DEF AnswerStatus
  <2> QED
    BY <2>1, <2>2
<1>2. answer' = [status |-> AnswerStatus(reason), reason |-> reason] /\ phase' = "answered"
  BY DEF AnswerRefusal, WriteAnswer
<1> QED
  BY <1>1, <1>2

(* A run that ends without an authored film keeps the invariant, whatever     *)
(* becomes of its files.                                                      *)
LEMMA EndsHold ==
    ASSUME AuthoringInv, UNCHANGED <<brief, install>>,
           phase' \in {"crashed", "ended"} \/ (phase' = "answered" /\ answer'.status # "authored")
    PROVE  AuthoringInv'
BY DEF AuthoringInv, Working

(* A refusal keeps the invariant.                                             *)
LEMMA RefusalHolds ==
    ASSUME AuthoringInv, UNCHANGED <<brief, install>>, NEW reason, AnswerRefusal(reason)
    PROVE  AuthoringInv'
BY RefusedIsNotAuthored, EndsHold

(* Files that stay keep what was said of them.                                *)
LEMMA FilesStay ==
    ASSUME UNCHANGED <<install, board, narration, brief, segments>>,
           DOMAIN files \subseteq DOMAIN files'
    PROVE  /\ BoardOK => BoardOK'
           /\ NarrationOK => NarrationOK'
           /\ Exists(<<"composition">>) => Exists(<<"composition">>)'
           /\ \A i \in DOMAIN segments : SegmentReady(segments[i]) => SegmentReady(segments[i])'
           /\ \A i \in DOMAIN segments : Windowed(i) => Windowed(i)'
<1>1. BoardOK => BoardOK'
  BY DEF BoardOK, Beats
<1>2. NarrationOK => NarrationOK'
  BY DEF NarrationOK, Beats, Exists
<1>3. Exists(<<"composition">>) => Exists(<<"composition">>)'
  BY DEF Exists
<1>4. ASSUME NEW i \in DOMAIN segments, SegmentReady(segments[i])
      PROVE  SegmentReady(segments[i])'
  BY <1>4 DEF SegmentReady, Exists, TemplateAssets
<1>5. \A i \in DOMAIN segments : Windowed(i) => Windowed(i)'
  BY DEF Windowed, Vanishes, SourceWindow
<1> QED
  BY <1>1, <1>2, <1>3, <1>4, <1>5

(* The length of a shot covers its narration and fits one capture.            *)
LEMMA ShotIsLongEnough ==
    ASSUME AuthoringInv, Working, NEW i \in Beats
    PROVE  /\ Frames(PlannedLength(board[i])) \in Nat \ {0}
           /\ narration # None => /\ VoiceLength(board[i]) > 0 /\ VoiceLength(board[i]) \in Nat
                                  /\ VoiceLength(board[i]) * Fps
                                       <= (Frames(PlannedLength(board[i])) * 1000 + 500 * Fps) * PerMs
<1> DEFINE motion == MotionLength(board[i].part)
           voice == VoiceLength(board[i])
           planned == PlannedLength(board[i])
<1>1. /\ board[i].dur \in Nat \ {0} /\ board[i].part \in DOMAIN Parts \cup {None}
      /\ narration # None => narration[board[i].id] \in Nat \ {0}
  BY DEF AuthoringInv, BoardOK, NarrationOK
<1>2. voice \in Nat /\ (narration # None => voice > 0)
  BY <1>1 DEF VoiceLength
<1>3. motion \in Nat
  <2>1. CASE board[i].part = None
    BY <2>1 DEF MotionLength
  <2>2. CASE board[i].part # None
    <3> DEFINE own == Parts[board[i].part].motion
               most == (MaxShotFrames * 1000 * PerMs) \div Fps
    <3>1. own \in Nat /\ most \in Nat
      <4> DEFINE all == MaxShotFrames * 1000 * PerMs
      <4>1. own \in Nat /\ all \in Nat /\ Fps \in Nat \ {0}
        BY <1>1, <2>2, AuthoringAssumption DEF Fps
      <4> HIDE DEF all, own
      <4>2. all \div Fps \in Nat
        BY <4>1, Divides
      <4> QED
        BY <4>1, <4>2 DEF all
    <3>2. motion = Min({own, most})
      BY <2>2 DEF MotionLength
    <3> HIDE DEF own, most, motion
    <3>3. \E x \in {own, most} : \A y \in {own, most} : x <= y
      BY <3>1
    <3>4. Min({own, most}) \in {own, most}
      BY <3>3 DEF Min
    <3> QED
      BY <3>1, <3>2, <3>4
  <2> QED
    BY <2>1, <2>2
<1>4. planned = ShotLength(motion, voice, board[i].dur)
  BY DEF PlannedLength
<1> HIDE DEF motion, voice, planned
<1>5. planned \in Nat \ {0} /\ planned >= voice
  <2> DEFINE known == {x \in {motion, voice} : x # 0}
  <2>1. CASE known = {}
    <3>1. voice = 0 /\ planned = board[i].dur
      BY <1>2, <1>4, <2>1 DEF ShotLength
    <3> QED
      BY <1>1, <3>1
  <2>2. CASE known # {}
    <3>1. planned = Max(known)
      BY <1>4, <2>2 DEF ShotLength
    <3>2. \E x \in known : \A y \in known : x >= y
      BY <1>2, <1>3, <2>2
    <3>3. planned \in known /\ \A y \in known : planned >= y
      <4> HIDE DEF known
      <4> QED
        BY <3>1, <3>2 DEF Max
    <3> QED
      BY <1>2, <1>3, <3>3
  <2> QED
    BY <2>1, <2>2
<1>6. /\ Frames(planned) \in Nat \ {0}
      /\ voice * Fps <= (Frames(planned) * 1000 + 500 * Fps) * PerMs
  <2> DEFINE x == planned * 30
             b == 1000 * PerMs
             frames == (x + b - 1) \div b
  <2>1. PerMs \in Nat \ {0} /\ x \in Nat \ {0} /\ b \in Nat \ {0} /\ voice * 30 <= x
    BY <1>2, <1>5, AuthoringAssumption
  <2>2. Frames(planned) = frames
    BY DEF Frames, Fps
  <2>3. frames \in Nat \ {0} /\ x <= b * frames
    <3> HIDE DEF x, b
    <3> QED
      BY <2>1, RoundedUp
  <2> HIDE DEF frames, x
  <2>4. b * frames <= (frames * 1000 + 500 * 30) * PerMs
    <3>1. (frames * 1000 + 15000) * PerMs = 1000 * (frames * PerMs) + 15000 * PerMs
      BY <2>1, <2>3
    <3>2. b * frames = 1000 * (frames * PerMs)
      BY <2>1, <2>3
    <3> QED
      BY <2>1, <2>3, <3>1, <3>2
  <2>5. voice * 30 <= (frames * 1000 + 500 * 30) * PerMs
    <3>1. /\ voice * 30 \in Nat /\ b * frames \in Nat
          /\ (frames * 1000 + 500 * 30) * PerMs \in Nat
      BY <1>2, <2>1, <2>3
    <3> QED
      BY <2>1, <2>3, <2>4, <3>1
  <2> QED
    BY <2>2, <2>3, <2>5 DEF Fps
<1> QED
  BY <1>2, <1>6 DEF planned, voice


(* The segment of a beat is what the App will ask of it.                      *)
LEMMA SegmentIsReady ==
    ASSUME AuthoringInv, phase = "assembling", UNCHANGED <<install, board, narration, brief>>,
           install.catalog, FilmFits, files' = WithCopies(files), NEW i \in Beats,
           segments'[i] = Segment(board[i], files')
    PROVE  SegmentReady(segments[i])' /\ Windowed(i)'
<1> DEFINE beat == board[i]
           s == Segment(board[i], files')
<1>1. /\ BoardOK /\ NarrationOK /\ Exists(<<"composition">>)
      /\ beat.start \in Nat /\ beat.dur \in Nat \ {0}
      /\ beat.part \in DOMAIN Parts \cup {None}
  BY DEF AuthoringInv, Working, BoardOK
<1>2. /\ Frames(PlannedLength(beat)) \in 1..MaxShotFrames
      /\ narration # None => /\ VoiceLength(beat) > 0
                             /\ VoiceLength(beat) * Fps
                                  <= (Frames(PlannedLength(beat)) * 1000 + 500 * Fps) * PerMs
  <2>1. Frames(PlannedLength(beat)) <= MaxShotFrames
    BY DEF FilmFits
  <2>2. Frames(PlannedLength(beat)) \in Nat \ {0} /\ MaxShotFrames \in Nat
    BY ShotIsLongEnough, AuthoringAssumption DEF Working
  <2> QED
    BY <2>1, <2>2, ShotIsLongEnough DEF Working
<1>3. /\ DOMAIN files \subseteq DOMAIN files'
      /\ beat.part # None => Entry(beat.part, beat.id) \in DOMAIN files'
  <2> DEFINE drawn == {board[m] : m \in {n \in Beats : board[n].part # None}}
             At(file) == CHOOSE b \in drawn : Entry(b.part, b.id) = file
             copies == [file \in {Entry(b.part, b.id) : b \in drawn} |->
                          WorkingCopy(At(file).part, CopyFor(At(file)))]
             before == WriteAll(files, Copied({b.part : b \in drawn}))
  <2>1. files' = WriteAll(before, copies)
    BY DEF WithCopies
  <2>2. DOMAIN copies = {Entry(b.part, b.id) : b \in drawn}
    OBVIOUS
  <2>3. beat.part # None => beat \in drawn
    OBVIOUS
  <2> HIDE DEF before, copies, drawn
  <2>4. DOMAIN files' = DOMAIN before \cup DOMAIN copies
    BY <2>1, WritesGrow
  <2>5. DOMAIN files \subseteq DOMAIN before
    BY WritesGrow DEF before
  <2> QED
    BY <2>2, <2>3, <2>4, <2>5
<1>5. /\ s.part = beat.part
      /\ s.entry = IF beat.part = None THEN <<"composition">> ELSE Entry(beat.part, beat.id)
      /\ s.assets = IF beat.part = None THEN TemplateAssets ELSE WorkingCopyAssets(files', beat.part)
      /\ s.frames = Frames(PlannedLength(beat))
      /\ s.window = SourceWindow(beat)
      /\ s.audio = IF narration = None THEN None ELSE <<"narration", beat.id>>
      /\ s.voice = VoiceLength(beat)
  BY DEF Segment
<1>6. segments'[i] = s /\ TemplateAssets' = TemplateAssets
  BY DEF TemplateAssets
<1>7. s.entry \in DOMAIN files'
  BY <1>1, <1>3, <1>5 DEF Exists
<1>8. \A a \in s.assets : a \in TemplateAssets \/ a \in DOMAIN files'
  BY <1>5 DEF WorkingCopyAssets
<1>9. s.part = None => s.entry = <<"composition">> /\ Runtime \in s.assets
  BY <1>5 DEF TemplateAssets, Seeded
<1>10. s.window[1] < s.window[2] \/ Vanishes(beat)
  <2> DEFINE own == IF beat.part = None THEN beat.dur ELSE Parts[beat.part].motion
             from == IF beat.part = None THEN beat.start ELSE 0
  <2>1. own \in Nat /\ from \in Nat /\ PerMs \in Nat \ {0}
    BY <1>1, AuthoringAssumption
  <2>2. SourceWindow(beat)[2] = Rounded(from + own, PerMs)
    BY <2>1 DEF SourceWindow
  <2>3. SourceWindow(beat)[1] = Rounded(from, PerMs)
    <3>1. CASE beat.part = None
      BY <3>1 DEF SourceWindow
    <3>2. CASE beat.part # None
      <4>1. Rounded(0, PerMs) = 0
        <5>1. 0 \div PerMs = 0 /\ 0 % PerMs = 0
          BY <2>1
        <5> QED
          BY <2>1, <5>1 DEF Rounded
      <4> QED
        BY <3>2, <4>1 DEF SourceWindow
    <3> QED
      BY <3>1, <3>2
  <2>4. CASE own > PerMs
    <3> HIDE DEF own, from
    <3> QED
      BY <1>5, <2>1, <2>2, <2>3, <2>4, RoundedGrows
  <2>5. CASE PerMs >= own
    <3>1. SourceWindow(beat)[1] \in Nat /\ SourceWindow(beat)[2] \in Nat
      <4>1. from + own \in Nat
        BY <2>1
      <4> HIDE DEF own, from
      <4> QED
        BY <2>1, <2>2, <2>3, <4>1, RoundedNear
    <3>2. SourceWindow(beat)[1] < SourceWindow(beat)[2]
            \/ SourceWindow(beat)[1] >= SourceWindow(beat)[2]
      BY <3>1
    <3> QED
      BY <1>5, <2>5, <3>2 DEF Vanishes
  <2> QED
    BY <2>1, <2>4, <2>5
<1>11. s.audio # None => s.audio \in DOMAIN files'
  BY <1>1, <1>3, <1>5 DEF NarrationOK, Exists
<1>12. s.audio # None => narration # None
  BY <1>5
<1>13. Windowed(i)'
  <2>1. Vanishes(beat) = Vanishes(board[i])'
    BY DEF Vanishes, SourceWindow
  <2> HIDE DEF s
  <2> QED
    BY <1>6, <1>10, <2>1 DEF Windowed
<1> HIDE DEF s, beat
<1> QED
  BY <1>2, <1>5, <1>6, <1>7, <1>8, <1>9, <1>11, <1>12, <1>13 DEF SegmentReady, Exists

(* A film without a catalog is one segment, the whole composition.            *)
LEMMA WholeIsReady ==
    ASSUME AuthoringInv, phase = "assembling", ~install.catalog
    PROVE  /\ SegmentReady(WholeComposition)
           /\ WholeComposition.window[1] < WholeComposition.window[2]
<1> DEFINE frames == SnapshotFrames(brief.ms)
<1>1. /\ Exists(<<"composition">>) /\ brief.ms \in Nat /\ brief.ms >= 1000
      /\ frames <= MaxShotFrames
  BY DEF AuthoringInv, Working
<1>2. frames \in Nat /\ frames >= 30
  BY <1>1 DEF SnapshotFrames, Fps
<1>3. WholeComposition.window = <<0, Rounded(frames * 1000, Fps)>>
  BY DEF WholeComposition
<1>4. /\ WholeComposition.part = None /\ WholeComposition.entry = <<"composition">>
      /\ WholeComposition.assets = TemplateAssets /\ WholeComposition.frames = frames
      /\ WholeComposition.audio = None
  BY DEF WholeComposition
<1> HIDE DEF frames
<1>5. WholeComposition.window[1] < WholeComposition.window[2]
  <2>1. frames * 1000 \in Nat /\ Fps \in Nat \ {0}
    BY <1>2 DEF Fps
  <2>2. /\ Rounded(frames * 1000, Fps) \in Nat
        /\ 2 * (Fps * Rounded(frames * 1000, Fps)) >= 2 * (frames * 1000) - Fps
    <3> DEFINE ms == frames * 1000
               fps == Fps
    <3>1. ms \in Nat /\ fps \in Nat \ {0}
      BY <2>1
    <3> HIDE DEF ms, fps
    <3>2. Rounded(ms, fps) \in Nat /\ 2 * (fps * Rounded(ms, fps)) >= 2 * ms - fps
      BY <3>1, RoundedNear
    <3> QED
      BY <3>2 DEF ms, fps
  <2>3. Rounded(frames * 1000, Fps) > 0
    <3> DEFINE w == Rounded(frames * 1000, Fps)
    <3>1. w \in Nat /\ 2 * (30 * w) >= 2 * (frames * 1000) - 30
      BY <2>2 DEF Fps
    <3> HIDE DEF w
    <3>2. w > 0
      BY <1>2, <3>1
    <3> QED
      BY <3>2 DEF w
  <2> QED
    BY <1>3, <2>3
<1>6. frames \in 1..MaxShotFrames
  BY <1>1, <1>2, AuthoringAssumption
<1>7. Runtime \in TemplateAssets
  BY DEF TemplateAssets, Seeded
<1> QED
  BY <1>1, <1>4, <1>5, <1>6, <1>7 DEF SegmentReady

(* The model's answer becomes the storyboard the process works from.          *)
LEMMA AskHolds == AuthoringInv /\ Ask => AuthoringInv'
<1> SUFFICES ASSUME AuthoringInv, Ask PROVE AuthoringInv'
  OBVIOUS
<1>1. /\ phase = "asking" /\ narration = None /\ brief.ms \in Nat /\ brief.ms >= 1000
      /\ install.catalog \/ SnapshotFrames(brief.ms) <= MaxShotFrames
      /\ UNCHANGED <<install, brief, narration, segments, repairs, film>>
  BY DEF Ask, AuthoringInv
<1>2. PICK b \in Boards, choices \in Overrides :
        \/ AnswerRefusal("catalog part overrides do not match storyboard beats")
        \/ /\ choices = <<>> \/ Len(choices) = Len(b)
           /\ board' = ApplyOverrides(b, choices)
           /\ phase' = IF install.narrator /\ install.catalog THEN "narrating" ELSE "composing"
  BY DEF Ask
<1>3. CASE AnswerRefusal("catalog part overrides do not match storyboard beats")
  BY <1>1, <1>3, RefusalHolds
<1>4. CASE /\ choices = <<>> \/ Len(choices) = Len(b)
           /\ board' = ApplyOverrides(b, choices)
           /\ phase' = IF install.narrator /\ install.catalog THEN "narrating" ELSE "composing"
  <2>1. /\ b \in Seq({b[i] : i \in DOMAIN b}) /\ DOMAIN b = 1..Len(b)
        /\ \A i \in DOMAIN b : /\ b[i].start \in Nat /\ b[i].dur \in Nat \ {0}
                               /\ b[i].part \in DOMAIN Parts \cup {None}
        /\ choices \in Seq(DOMAIN Parts \cup {None})
    BY AuthoringAssumption
  <2>2. /\ BoardOK' /\ board' \in Seq({board'[i] : i \in DOMAIN board'})
    <3>1. CASE choices = <<>>
      <4>1. board' = b
        BY <1>4, <3>1 DEF ApplyOverrides
      <4> QED
        BY <2>1, <4>1 DEF BoardOK, Beats
    <3>2. CASE choices # <<>>
      <4>1. board' = [i \in DOMAIN b |->
                        IF choices[i] # None THEN [b[i] EXCEPT !.part = choices[i]] ELSE b[i]]
        BY <1>4, <3>2 DEF ApplyOverrides
      <4>2. \A i \in DOMAIN b : choices[i] \in DOMAIN Parts \cup {None}
        BY <1>4, <2>1, <3>2
      <4>3. DOMAIN board' = 1..Len(b) /\ Len(b) \in Nat
        BY <2>1, <4>1
      <4>4. board' \in Seq({board'[i] : i \in DOMAIN board'})
        <5> DEFINE all == {board'[i] : i \in DOMAIN board'}
        <5>1. board' \in [1..Len(b) -> all]
          BY <4>1, <4>3
        <5> HIDE DEF all
        <5>2. board' \in Seq(all)
          BY <4>3, <5>1
        <5> QED
          BY <5>2 DEF all
      <4>5. ASSUME NEW i \in DOMAIN b
            PROVE  /\ board'[i].start \in Nat /\ board'[i].dur \in Nat \ {0}
                   /\ board'[i].part \in DOMAIN Parts \cup {None}
        <5> DEFINE x == b[i]
                   y == [x EXCEPT !.part = choices[i]]
        <5>1. board'[i] = IF choices[i] # None THEN y ELSE x
          BY <4>1
        <5>2. y.start = x.start /\ y.dur = x.dur
          OBVIOUS
        <5>3. y.part \in {choices[i], x.part}
          OBVIOUS
        <5>4. /\ x.start \in Nat /\ x.dur \in Nat \ {0} /\ x.part \in DOMAIN Parts \cup {None}
              /\ choices[i] \in DOMAIN Parts \cup {None}
          BY <2>1, <4>2
        <5> HIDE DEF x, y
        <5> QED
          BY <5>1, <5>2, <5>3, <5>4
      <4> QED
        BY <2>1, <4>3, <4>4, <4>5 DEF BoardOK, Beats
    <3> QED
      BY <3>1, <3>2
  <2>3. NarrationOK'
    BY <1>1 DEF NarrationOK
  <2>4. phase' \in {"narrating", "composing"} /\ (phase' = "narrating" => install.catalog)
    BY <1>4
  <2> QED
    BY <1>1, <2>2, <2>3, <2>4 DEF AuthoringInv, Beats
<1> QED
  BY <1>2, <1>3, <1>4

(* Every beat has its line, measured and written.                             *)
LEMMA NarrateHolds == AuthoringInv /\ Narrate => AuthoringInv'
<1> SUFFICES ASSUME AuthoringInv, Narrate PROVE AuthoringInv'
  OBVIOUS
<1>1. /\ phase = "narrating" /\ brief.ms \in Nat /\ brief.ms >= 1000 /\ install.catalog
      /\ BoardOK /\ board \in Seq({board[i] : i \in Beats})
      /\ UNCHANGED <<install, brief, board, script, segments, repairs, film>>
  BY DEF Narrate, AuthoringInv, Working
<1>2. CASE \E reason \in {"script beats must match storyboard beats one to one",
                          "voiceover synthesis failed"} : AnswerRefusal(reason)
  BY <1>1, <1>2, RefusalHolds
<1>3. CASE \E m \in 0..Len(board) : \E lengths \in [1..m -> Lines] :
             /\ ~(m < Len(board)) /\ files' = Narrated(lengths)
             /\ narration' = [id \in {board[i].id : i \in Beats} |->
                                lengths[CHOOSE i \in Beats : board[i].id = id]]
             /\ phase' = "composing"
  <2>1. Len(board) \in Nat /\ Beats = 1..Len(board)
    BY <1>1 DEF Beats
  <2>2. PICK lengths \in [Beats -> Lines] :
             /\ files' = Narrated(lengths) /\ phase' = "composing"
             /\ narration' = [id \in {board[i].id : i \in Beats} |->
                                lengths[CHOOSE i \in Beats : board[i].id = id]]
    <3>1. PICK m \in 0..Len(board) : \E lengths \in [1..m -> Lines] :
             /\ ~(m < Len(board)) /\ files' = Narrated(lengths)
             /\ narration' = [id \in {board[i].id : i \in Beats} |->
                                lengths[CHOOSE i \in Beats : board[i].id = id]]
             /\ phase' = "composing"
      BY <1>3
    <3>2. m = Len(board)
      BY <2>1, <3>1
    <3>3. [1..m -> Lines] = [Beats -> Lines]
      BY <2>1, <3>2
    <3> QED
      BY <3>1, <3>3
  <2>3. ASSUME NEW i \in Beats
        PROVE  narration'[board[i].id] \in Nat \ {0} /\ <<"narration", board[i].id>> \in DOMAIN files'
    <3> DEFINE j == CHOOSE n \in Beats : board[n].id = board[i].id
    <3>1. j \in Beats
      OBVIOUS
    <3>2. narration'[board[i].id] = lengths[j]
      BY <2>2
    <3> HIDE DEF j
    <3>3. narration'[board[i].id] \in Nat \ {0}
      BY <2>2, <3>1, <3>2, AuthoringAssumption
    <3>4. <<"narration", board[i].id>> \in DOMAIN files'
      <4> DEFINE spoken == [file \in {<<"narration", board[n].id>> : n \in DOMAIN lengths} |->
                               LET n == CHOOSE m \in DOMAIN lengths : board[m].id = file[2]
                               IN  <<lengths[n]>>]
      <4>1. files' = WriteAll(files, spoken)
        BY <2>2 DEF Narrated
      <4>2. <<"narration", board[i].id>> \in DOMAIN spoken
        BY <2>2
      <4> HIDE DEF spoken
      <4> QED
        BY <4>1, <4>2, WritesGrow
    <3> QED
      BY <3>3, <3>4
  <2>4. BoardOK' /\ NarrationOK'
    BY <1>1, <2>3 DEF BoardOK, NarrationOK, Beats, Exists
  <2> QED
    BY <1>1, <2>2, <2>4 DEF AuthoringInv
<1> QED
  BY <1>2, <1>3 DEF Narrate

(* The film is drawn.                                                         *)
LEMMA ComposeHolds == AuthoringInv /\ Compose => AuthoringInv'
<1> SUFFICES ASSUME AuthoringInv, Compose PROVE AuthoringInv'
  OBVIOUS
<1>1. /\ phase = "composing" /\ Working
      /\ UNCHANGED <<install, brief, board, script, narration, segments, repairs, film>>
  BY DEF Compose, Working
<1>2. CASE AnswerRefusal("storyboard beats must tile the film")
  BY <1>1, <1>2, RefusalHolds
<1>3. CASE /\ files' = Write(files, <<"composition">>, ByStart(board))
           /\ phase' = "assembling"
  <2>1. DOMAIN files' = DOMAIN files \cup {<<"composition">>}
    BY <1>3, WriteGrows
  <2>2. BoardOK' /\ NarrationOK' /\ Exists(<<"composition">>)'
    BY <1>1, <2>1, FilesStay DEF AuthoringInv, Exists
  <2> QED
    BY <1>1, <1>3, <2>2 DEF AuthoringInv, Working
<1> QED
  BY <1>2, <1>3 DEF Compose

(* The renders are assembled.                                                 *)
LEMMA AssembleHolds == AuthoringInv /\ Assemble => AuthoringInv'
<1> SUFFICES ASSUME AuthoringInv, Assemble PROVE AuthoringInv'
  OBVIOUS
<1>1. /\ phase = "assembling" /\ Working /\ BoardOK /\ NarrationOK /\ Exists(<<"composition">>)
      /\ UNCHANGED <<install, brief, board, script, narration, repairs, film>>
  BY DEF Assemble, Working, AuthoringInv
<1>2. CASE AnswerRefusal("no parts catalog") \/ Crash
  BY <1>1, <1>2, RefusalHolds, EndsHold DEF Crash
<1>3. CASE /\ ~install.catalog /\ segments' = <<WholeComposition>> /\ phase' = "submitting"
           /\ UNCHANGED files
  <2>1. SegmentReady(WholeComposition) /\ WholeComposition.window[1] < WholeComposition.window[2]
    BY <1>1, <1>3, WholeIsReady
  <2>2. SegmentReady(WholeComposition)'
    BY <1>1, <1>3, <2>1 DEF SegmentReady, WholeComposition, TemplateAssets, Exists
  <2>3. \A i \in DOMAIN segments' : segments'[i] = WholeComposition'
    <3>1. WholeComposition' = WholeComposition
      BY <1>1 DEF WholeComposition, TemplateAssets
    <3>2. DOMAIN segments' = {1} /\ segments'[1] = WholeComposition
      BY <1>3
    <3> QED
      BY <3>1, <3>2
  <2>4. ASSUME NEW i \in DOMAIN segments' PROVE SegmentReady(segments[i])' /\ Windowed(i)'
    <3>1. segments'[i] = WholeComposition /\ segments'[i] = WholeComposition'
      BY <1>3, <2>3
    <3> QED
      BY <2>1, <2>2, <3>1 DEF SegmentReady, Windowed
  <2>5. BoardOK' /\ NarrationOK' /\ Exists(<<"composition">>)'
    BY <1>1, <1>3 DEF BoardOK, NarrationOK, Beats, Exists
  <2> QED
    BY <1>1, <1>3, <2>4, <2>5 DEF AuthoringInv, Working
<1>4. CASE /\ install.catalog /\ FilmFits /\ files' = WithCopies(files)
           /\ segments' = [i \in Beats |-> Segment(board[i], files')]
           /\ phase' \in {"measuring", "submitting"}
  <2>1. DOMAIN files \subseteq DOMAIN files'
    BY <1>4, WritesGrowTwice, Zenon DEF WithCopies
  <2>2. BoardOK' /\ NarrationOK' /\ Exists(<<"composition">>)'
    BY <1>1, <2>1 DEF BoardOK, NarrationOK, Beats, Exists
  <2>3. ASSUME NEW i \in DOMAIN segments' PROVE SegmentReady(segments[i])' /\ Windowed(i)'
    <3>1. i \in Beats /\ segments'[i] = Segment(board[i], files')
      BY <1>4
    <3> QED
      BY <1>1, <1>4, <3>1, SegmentIsReady
  <2> QED
    BY <1>1, <1>4, <2>2, <2>3 DEF AuthoringInv, Working
<1> QED
  BY <1>2, <1>3, <1>4 DEF Assemble

(* The copy is measured.                                                      *)
LEMMA MeasureHolds == AuthoringInv /\ Measure => AuthoringInv'
<1> SUFFICES ASSUME AuthoringInv, Measure PROVE AuthoringInv'
  OBVIOUS
<1>1. /\ phase = "measuring" /\ Working
      /\ UNCHANGED <<install, brief, board, script, narration, segments, repairs, film>>
      /\ files' = WithBaselines(files)
  BY DEF Measure, Working
<1>2. CASE \E reason \in {"slot overflow probe failed to measure",
                          "copy overflows its slot after the repair round"} : AnswerRefusal(reason)
  BY <1>1, <1>2, RefusalHolds
<1>3. CASE phase' \in {"submitting", "repairing"}
  <2>1. DOMAIN files \subseteq DOMAIN files'
    BY <1>1, WritesGrowTwice, Zenon DEF WithBaselines
  <2>2. /\ BoardOK' /\ NarrationOK' /\ Exists(<<"composition">>)'
        /\ \A i \in DOMAIN segments : SegmentReady(segments[i])' /\ Windowed(i)'
    BY <1>1, <2>1, FilesStay DEF AuthoringInv
  <2> QED
    BY <1>1, <1>3, <2>2 DEF AuthoringInv, Working
<1> QED
  BY <1>2, <1>3 DEF Measure

(* A repaired storyboard has the beats of the one before.                     *)
LEMMA RepairHolds == AuthoringInv /\ Repair => AuthoringInv'
<1> SUFFICES ASSUME AuthoringInv, Repair PROVE AuthoringInv'
  OBVIOUS
<1>1. /\ phase = "repairing" /\ Working /\ BoardOK /\ NarrationOK
      /\ UNCHANGED <<install, brief, script, narration, segments, film>>
  BY DEF Repair, Working, AuthoringInv
<1>2. CASE AnswerRefusal("repair round altered more than copy")
  BY <1>1, <1>2, RefusalHolds
<1>3. CASE /\ OnlyCopyChanged(board, board') /\ files' = Write(files, <<"STORYBOARD">>, board')
           /\ phase' = "composing"
  <2>1. DOMAIN files \subseteq DOMAIN files'
    <3>1. DOMAIN files' = DOMAIN files \cup {<<"STORYBOARD">>}
      BY <1>3, WriteGrows
    <3> QED
      BY <3>1
  <2>2. /\ DOMAIN board' = Beats
        /\ \A i \in Beats : /\ board'[i].id = board[i].id /\ board'[i].part = board[i].part
                            /\ board'[i].start = board[i].start /\ board'[i].dur = board[i].dur
    BY <1>3 DEF OnlyCopyChanged, Beats
  <2>3. BoardOK' /\ NarrationOK'
    BY <1>1, <2>1, <2>2 DEF BoardOK, NarrationOK, Beats, Exists
  <2> QED
    BY <1>1, <1>3, <2>3 DEF AuthoringInv, Working
<1> QED
  BY <1>2, <1>3 DEF Repair

(* What the process answers as authored, the App accepts: the assets of the   *)
(* brief are looked for last.                                                 *)
LEMMA SubmitHolds == AuthoringInv /\ Submit => AuthoringInv'
<1> SUFFICES ASSUME AuthoringInv, Submit PROVE AuthoringInv'
  OBVIOUS
<1>1. /\ phase = "submitting" /\ Exists(<<"composition">>)
      /\ \A i \in DOMAIN segments : SegmentReady(segments[i]) /\ Windowed(i)
      /\ UNCHANGED <<install, brief, board, script, narration, segments, repairs, film>>
  BY DEF Submit, AuthoringInv
<1>2. CASE AnswerRefusal("declared asset must exist")
  BY <1>1, <1>2, RefusalHolds
<1>3. CASE /\ \A a \in TemplateAssets : Exists(a)
           /\ files' = Write(files, <<"renderjob">>, <<SnapshotFrames(brief.ms)>>)
           /\ phase' = "answered"
  <2>1. DOMAIN files \subseteq DOMAIN files'
    <3>1. DOMAIN files' = DOMAIN files \cup {<<"renderjob">>}
      BY <1>3, WriteGrows
    <3> QED
      BY <3>1
  <2>2. Exists(<<"composition">>)'
    BY <1>1, <2>1 DEF Exists
  <2>3. ASSUME NEW i \in DOMAIN segments PROVE Taken(i)'
    <3>1. CASE segments[i].window[1] < segments[i].window[2]
      <4>1. SegmentAccepted(segments[i])'
        BY <1>1, <1>3, <2>1, <3>1 DEF SegmentReady, SegmentAccepted, Exists
      <4> QED
        BY <4>1 DEF Taken
    <3>2. CASE install.catalog /\ Vanishes(board[i])
      BY <1>1, <3>2 DEF Taken, Vanishes, SourceWindow
    <3> QED
      BY <1>1, <3>1, <3>2 DEF Windowed
  <2> QED
    BY <1>1, <1>3, <2>2, <2>3 DEF AuthoringInv, Working
<1> QED
  BY <1>2, <1>3 DEF Submit, WriteAnswer

(* The App accepts what was answered as authored.                             *)
LEMMA AcceptHolds == AuthoringInv /\ Accept => AuthoringInv'
<1> SUFFICES ASSUME AuthoringInv, Accept PROVE AuthoringInv'
  OBVIOUS
<1>1. /\ Exists(<<"composition">>) /\ \A i \in DOMAIN segments : Taken(i)
      /\ brief.ms \in Nat /\ brief.ms >= 1000 /\ phase' \in {"accepted", "declined"}
      /\ UNCHANGED <<install, brief, board, files, segments>>
  BY DEF AuthoringInv, Accept
<1>2. \A i \in DOMAIN segments : Taken(i)'
  BY <1>1 DEF Taken, SegmentAccepted, Vanishes, SourceWindow, Exists
<1>3. Exists(<<"composition">>)'
  BY <1>1 DEF Exists
<1> QED
  BY <1>1, <1>2, <1>3 DEF AuthoringInv, Working

(* The steps that end a run without a film, or after it.                      *)
LEMMA OtherEndsHold ==
    AuthoringInv /\ (ModelFails \/ TooLong \/ PersistenceFails \/ Discard \/ Join) => AuthoringInv'
<1> SUFFICES ASSUME AuthoringInv, ModelFails \/ TooLong \/ PersistenceFails \/ Discard \/ Join
             PROVE  AuthoringInv'
  OBVIOUS
<1>1. CASE ModelFails \/ TooLong \/ PersistenceFails
  <2>1. UNCHANGED <<brief, install>>
    BY <1>1 DEF ModelFails, TooLong, PersistenceFails
  <2>2. \E reason \in {"model unavailable", "model timed out", "model transport failed",
                       "model reply malformed", "duration exceeds the snapshot frame budget",
                       "workspace is not a usable render workspace"} : AnswerRefusal(reason)
    <3>1. CASE ModelFails
      BY <3>1 DEF ModelFails
    <3>2. CASE TooLong
      BY <3>2 DEF TooLong
    <3>3. CASE PersistenceFails
      BY <3>3 DEF PersistenceFails
    <3> QED
      BY <1>1, <3>1, <3>2, <3>3
  <2> QED
    BY <2>1, <2>2, RefusalHolds
<1>2. CASE Discard \/ Join
  BY <1>2, EndsHold DEF Discard, Join
<1> QED
  BY <1>1, <1>2

(* Every step of the run keeps the invariant.                                 *)
LEMMA AuthoringStepHolds == AuthoringInv /\ [AuthoringNext]_authoringVars => AuthoringInv'
<1> SUFFICES ASSUME AuthoringInv, [AuthoringNext]_authoringVars PROVE AuthoringInv'
  OBVIOUS
<1>1. CASE UNCHANGED authoringVars
  <2>1. /\ UNCHANGED <<phase, install, brief, board, narration, files, segments, answer>>
    BY <1>1 DEF authoringVars
  <2>2. /\ BoardOK' = BoardOK /\ NarrationOK' = NarrationOK
        /\ Exists(<<"composition">>)' = Exists(<<"composition">>)
    BY <2>1 DEF BoardOK, NarrationOK, Beats, Exists
  <2>3. ASSUME NEW i \in DOMAIN segments
        PROVE  /\ SegmentReady(segments[i]) => SegmentReady(segments[i])'
               /\ Windowed(i) => Windowed(i)'
               /\ Taken(i) => Taken(i)'
    BY <2>1 DEF SegmentReady, Windowed, Taken, SegmentAccepted, Vanishes, SourceWindow,
       TemplateAssets, Exists
  <2> QED
    BY <2>1, <2>2, <2>3 DEF AuthoringInv, Working, Beats
<1> QED
  BY <1>1, AskHolds, NarrateHolds, ComposeHolds, AssembleHolds, MeasureHolds, RepairHolds,
     SubmitHolds, AcceptHolds, OtherEndsHold DEF AuthoringNext

(* A run begins in the invariant.                                             *)
LEMMA AuthoringInitHolds == AuthoringInit => AuthoringInv
<1> SUFFICES ASSUME AuthoringInit PROVE AuthoringInv
  OBVIOUS
<1>1. brief.ms \in Nat /\ brief.ms >= 1000
  <2>1. PICK s \in BriefSeconds : brief.ms = s * 1000
    BY DEF AuthoringInit
  <2> QED
    BY <2>1, AuthoringAssumption
<1>2. phase = "asking" /\ board = <<>> /\ narration = None
  BY DEF AuthoringInit
<1> QED
  BY <1>1, <1>2 DEF AuthoringInv, Working, BoardOK, NarrationOK, Beats

(* For every storyboard, narration, catalog of parts and choice of parts, the *)
(* App declines what the process answers as authored only over beats of at    *)
(* most a millisecond: both sides derive frames, narration lengths and files  *)
(* alike (accept_authored_render_job).                                        *)
THEOREM AuthoredFilmsAreAccepted == AuthoringSpec => []AuthoredIsAccepted
<1>1. AuthoringInv => AuthoredIsAccepted
  BY DEF AuthoringInv, AuthoredIsAccepted, Taken
<1> QED
  BY <1>1, AuthoringInitHolds, AuthoringStepHolds, PTL DEF AuthoringSpec
===============================================================================
